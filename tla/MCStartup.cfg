SPECIFICATION PhasesSpec
CONSTANTS
  Chain <- MCChain
  Async <- MCAsync
  Serial <- MCSerial
  Shutdown = Shutdown
  MaxShutdowns = 1
  Configurations <- MCConfigurations
  MaxLaunches = 2
  Breakable = {"sync", "servers"}
INVARIANTS PhasesInOrder ReadyIsSaved NoAccumulation
PROPERTIES StartupEnds
CHECK_DEADLOCK FALSE
