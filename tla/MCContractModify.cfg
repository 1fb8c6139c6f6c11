SPECIFICATION ContractSpec
CONSTANTS
  camera = camera
  radio = radio
  Targets <- MCInterfaces
  MaxRounds = 2
  MaxSlots = 3
  Methods = {"open", "read"}
  Generated <- MCGenerated
  MaxErrors = 1
INVARIANTS FoundFilesRespected
PROPERTIES ImplementsPromise
CHECK_DEADLOCK FALSE
