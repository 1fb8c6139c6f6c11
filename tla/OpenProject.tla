---------------------------- MODULE OpenProject ----------------------------
(***************************************************************************)
(* Which project each part of the program works on.  project/open          *)
(* (src/actors/coordinator.rs) points the memory graph, the query actor,   *)
(* the file watcher, the analysis, the shared project root and the root of *)
(* the builds at one directory, one after the other, and each of these     *)
(* steps may be the last; AnalyzeProject re-points some of them.  The      *)
(* coordinator awaits every handler before it takes its next message, so a *)
(* handler is one action here unless it starts tasks (see ProjectTools).   *)
(***************************************************************************)
EXTENDS Naturals, FiniteSets, Sequences

CONSTANTS Dirs,          \* directories a request may name
          Subdirs,       \* directory -> its non-hidden subdirectories
          Marked,        \* directories with a build file of their own
          Home,          \* directories project/open refuses: "/" and the home
          Systems,       \* directory -> the BuildSystem nodes a sync stores for it
          Hosts,         \* "app": the desktop program, "server": the standalone one
          NoDir,         \* no project
          MaxRequests    \* bound: requests

Places == Dirs \union {NoDir}

ASSUME OpenAssumption ==
  /\ NoDir \notin Dirs
  /\ IsFiniteSet(Dirs) /\ Subdirs \in [Dirs -> SUBSET Dirs]
  /\ \E height \in [Dirs -> 0..Cardinality(Dirs)] :   \* no directory is below itself
       \A d \in Dirs : \A sub \in Subdirs[d] : height[sub] < height[d]
  /\ Marked \subseteq Dirs /\ Home \subseteq Dirs
  /\ Hosts \subseteq {"app", "server"} /\ MaxRequests \in Nat

VARIABLES
  host,         \* the program that runs
  requests,     \* requests taken so far, for the bound
  root,         \* ffi_state.project_root
  analysis,     \* the project of ffi_state.analysis
  graph,        \* the project whose database the memory graph has open
  query,        \* the project of the query actor
  watched,      \* the directory the file watcher watches
  buildRoot,    \* project_root of ProjectBuildActor
  servers,      \* the project whose MCP servers are connected
  systems,      \* directory -> the BuildSystem nodes in its database
  targets,      \* directories whose systems have their targets stored
  diagnostics,  \* directories whose database has Diagnostic nodes
  answer,       \* the last answer: what was asked, and of which projects it tells
  opened,       \* history: the project of the last open that succeeded
  astray        \* history: since then something was pointed elsewhere

pointers == <<root, analysis, graph, query, watched, buildRoot, servers>>
stored == <<systems, targets, diagnostics>>
history == <<opened, astray>>
projectVars == <<host, requests, pointers, stored, answer, history>>

NoAnswer == [kind |-> "none", of |-> {}]
Says(kind, places) == answer' = [kind |-> kind, of |-> places]

\* The server is started on a directory and synced it; the app starts with
\* nothing open, on databases a server may have filled.
OpenInit ==
  /\ host \in Hosts
  /\ requests = 0
  /\ \E d \in (IF host = "server" THEN Marked ELSE {NoDir}) :
       /\ graph = d /\ query = d /\ watched = d /\ buildRoot = d /\ servers = d
       /\ opened = d
       /\ systems \in [Dirs -> UNION {{<<>>, Systems[e]} : e \in Dirs}]
       /\ \A e \in Dirs : systems[e] \in {<<>>, Systems[e]}
       /\ d # NoDir => systems[d] = Systems[d]
  /\ root = NoDir /\ analysis = NoDir
  /\ targets = {}
  /\ diagnostics = {}
  /\ answer = NoAnswer
  /\ astray = FALSE

\* What a request needs before its handler runs, and counts.
Take == requests < MaxRequests /\ requests' = requests + 1

-----------------------------------------------------------------------------
(* The directory that is opened.                                            *)

\* resolve_project_root: down through directories that have no build file and
\* one subdirectory, whether that one has a build file or not.
ResolveRoot[d \in Dirs] ==
  IF d \in Marked \/ Cardinality(Subdirs[d]) # 1 THEN d
  ELSE ResolveRoot[CHOOSE sub \in Subdirs[d] : TRUE]

\* ffi_deps: only the app can open projects.
HasFfi == host = "app"

NotAttached(kind) == ~HasFfi /\ Says(kind, {}) /\ UNCHANGED <<pointers, stored, history>>

-----------------------------------------------------------------------------
(* project/open.                                                            *)

\* populate_target_graph: the targets, dependencies and platforms of the
\* analysis are stored, every time again, under every system of the open graph that has the
\* same configuration file; systems of another project may have it too.
PopulateTargets(d) ==
  \/ /\ graph' \in Dirs /\ systems[graph'] # <<>>
     /\ targets' = targets \union {graph'}
  \/ /\ graph' = NoDir \/ graph' # d \/ systems[d] = <<>>
     /\ UNCHANGED targets

\* MemoryGraph::Initialize: the reply may be lost, and a reply that says it
\* failed is taken for success.
PointGraph(d) == graph' \in {d, graph}

\* GetMcpConfig, LoadConfigFromGraph, ConnectAll; failures are ignored.
ConnectServers(d) == servers' \in {d, servers}

\* StopWatching, then StartWatching, whose failure is ignored.
Watch(d) == watched' \in {d, NoDir}

\* The open that ends with an error half way: whatever was reached stays.
OpenFails(d) ==
  /\ astray' = TRUE
  /\ UNCHANGED <<root, analysis, buildRoot, stored, opened>>
  /\ \/ PointGraph(d) /\ UNCHANGED <<query, watched, servers>>        \* graph or embedder lost
     \/ PointGraph(d) /\ ConnectServers(d) /\ query' = d /\ Watch(d)  \* analysis failed or lost

\* Bug: the builds keep the root they had.
OpenSucceedsNoRoot(d) ==
  /\ PointGraph(d) /\ ConnectServers(d) /\ query' = d /\ Watch(d)
  /\ analysis' = d /\ root' = d /\ buildRoot' = IF buildRoot = NoDir THEN d ELSE buildRoot
  /\ PopulateTargets(d)
  /\ opened' = d /\ astray' = (graph' # d)
  /\ UNCHANGED <<systems, diagnostics>>

\* Bug: the analysis of the first project that was opened stays.
OpenSucceedsStale(d) ==
  /\ PointGraph(d) /\ ConnectServers(d) /\ query' = d /\ Watch(d)
  /\ analysis' = (IF analysis = NoDir THEN d ELSE analysis) /\ root' = d /\ buildRoot' = d
  /\ PopulateTargets(d)
  /\ opened' = d /\ astray' = (graph' # d)
  /\ UNCHANGED <<systems, diagnostics>>

OpenSucceeds(d) ==
  /\ PointGraph(d) /\ ConnectServers(d) /\ query' = d /\ Watch(d)
  /\ analysis' = d /\ root' = d /\ buildRoot' = d
  /\ PopulateTargets(d)
  /\ opened' = d /\ astray' = (graph' # d)
  /\ UNCHANGED <<systems, diagnostics>>

\* project/open, the whole handler.  ProjectSync::Bootstrap is sent too: the
\* app never initializes that actor, so it answers with an error, ignored.
OpenProject(folder) ==
  /\ Take
  /\ UNCHANGED host
  /\ \/ NotAttached("open")
     \/ /\ HasFfi   \* a directory it refuses, or cannot create
        /\ Says("open", {}) /\ UNCHANGED <<pointers, stored, history>>
     \/ /\ HasFfi /\ folder \notin Home
        /\ LET d == ResolveRoot[folder]
           IN \/ OpenFails(d) /\ Says("open", {})
              \/ OpenSucceeds(d) /\ Says("open", {d})

-----------------------------------------------------------------------------
(* Requests that read what is open.                                         *)

\* AnalyzeProject with a root scans that directory and points the shared root
\* and the builds at it; the graph and the cached analysis stay.
AnalyzeRoot(folder) ==
  LET d == ResolveRoot[folder]
  IN \/ Says("analysis", {}) /\ UNCHANGED <<pointers, history>>
     \/ /\ root' = d /\ buildRoot' = d
        /\ UNCHANGED <<analysis, graph, query, watched, servers, opened>>
        /\ Says("analysis", {d})
        /\ astray' = (astray \/ d # opened)

\* AnalyzeProject without one answers with the analysis of the last open.
CachedAnalysis ==
  /\ Says("analysis", {analysis} \ {NoDir})
  /\ UNCHANGED <<pointers, history>>

AnalyzeProject ==
  /\ Take
  /\ UNCHANGED host
  /\ \/ NotAttached("analysis")
     \/ /\ HasFfi /\ UNCHANGED stored
        /\ (\E folder \in Dirs : AnalyzeRoot(folder)) \/ CachedAnalysis

\* project/getBuildTarget is answered from the analysis, by either form of the
\* request.
GetBuildTarget == Says("target", {analysis} \ {NoDir})

\* project/diagnostics and project/buildStatus read the graph that is open.
OfGraph == {graph} \ {NoDir}
BuildStatus == Says("status", OfGraph)
Diagnostics == Says("diagnostics", IF graph \notin diagnostics THEN {} ELSE OfGraph)

Read ==
  /\ Take
  /\ UNCHANGED <<host, pointers, stored, history>>
  /\ IF HasFfi THEN GetBuildTarget \/ BuildStatus \/ Diagnostics ELSE Says("read", {})

\* The process ends and is started again: only what the databases hold is left.
Restart ==
  /\ HasFfi /\ Take
  /\ root' = NoDir /\ analysis' = NoDir /\ graph' = NoDir /\ query' = NoDir
  /\ watched' = NoDir /\ buildRoot' = NoDir /\ servers' = NoDir
  /\ answer' = NoAnswer /\ opened' = NoDir /\ astray' = FALSE
  /\ UNCHANGED <<host, stored>>

-----------------------------------------------------------------------------
(* Properties.                                                              *)

\* After an open that succeeded, and until an open fails half way, the graph
\* does not open or another directory is analyzed, every answer is about the
\* project that was opened: the analysis, its targets, the diagnostics, the
\* build status.
AnswersAboutOpenProject == ~astray => answer.of \subseteq {opened}
=============================================================================
