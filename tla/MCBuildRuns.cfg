SPECIFICATION RunsSpec
CONSTANTS
  Findings = {error}
  Errors = {error}
  Other = other
  Threads = {t1, t2}
  Mailbox = 1
  MaxRuns = 2
SYMMETRY Symmetry
INVARIANTS  LinesOnceInOrder NoLostWakeup
CHECK_DEADLOCK FALSE
