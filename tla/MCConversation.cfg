SPECIFICATION Spec
CONSTANTS
  Dirs <- MCDirs
  Subdirs <- MCSubdirs
  Marked = {"p", "q"}
  Home = {}
  Systems <- MCSystems
  Hosts = {"app", "server"}
  NoDir = NoDir
  MaxRequests = 3
  Scopes <- MCScopes
  Offered = {"build", "check", "format", "install"}
  NodeTypes <- MCNodeTypes
  Intents <- MCIntents
  Queries <- MCQueries
  Similar <- MCSimilar
  States = {"synced"}
  QueryTools = {"overview"}
  EditorTools = {"open"}
  ServerTools = {"search"}
  CallLists <- MCCallLists
   
PROPERTIES WidgetSettles RequestsAnswered
CHECK_DEADLOCK FALSE
