SPECIFICATION FairAutofix
CONSTANTS
  a = a
  b = b
  Targets <- MCFiles
  MaxRounds = 2
  Versions = {1}
  MaxErrors = 2
  MaxWarnings = 1
INVARIANTS ReportDescribesDisk  HonestUnlessRolledBack
PROPERTIES Reports
CHECK_DEADLOCK FALSE
