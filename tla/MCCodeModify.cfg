SPECIFICATION CodeSpec
CONSTANTS
  a = a
  b = b
  Targets <- MCFiles
  MaxRounds = 2
  MaxErrors = 1
INVARIANTS AppliedAsAWhole NeverLeftWorse SuccessIsVerified
CHECK_DEADLOCK FALSE
