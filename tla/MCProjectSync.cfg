SPECIFICATION SyncSpec
CONSTANTS
  Files <- MCFiles
  Dir <- MCDir
  Root = "root"
  Configs = {"build"}
  Extension = TRUE
  Sizes = {1}
  MaxChanges = 2
  MaxRequests = 3
  Hosts = {"server", "app", "client"}
INVARIANTS SkipIsSafe NoGhosts
CHECK_DEADLOCK FALSE
