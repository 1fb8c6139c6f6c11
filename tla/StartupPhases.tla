---------------------------- MODULE StartupPhases ----------------------------
(***************************************************************************)
(* What the sub-phases of actors/startup_phases.rs do to the actors and    *)
(* the graph, on top of the chain of Startup: the children's bodies one    *)
(* request at a time, the MCP connections in the background, and the       *)
(* launches that follow a crash.                                           *)
(***************************************************************************)
EXTENDS Startup

CONSTANTS Configurations, \* sets of optional files: "servers", "intents", "strategy"
          MaxLaunches,   \* bound: launches of the process
          Breakable      \* the parts that may not come up in a launch, one at most

\* build_startup_phases: the intents come in a phase of their own, after the
\* phases of everything else that stores in the graph.
ASSUME PhasesAssumption ==
  /\ Async = {"project_sync", "project_analysis", "llm_config", "intents_bootstrap"}
  /\ Async \subseteq Names
  /\ MaxLaunches \in Nat
  /\ \E k \in Phases :
       /\ "intents_bootstrap" \in Chain[k]
       /\ {"mcp_bootstrap", "project_sync", "project_analysis"}
            \subseteq UNION {Chain[l] : l \in 1..(k - 1)}

VARIABLES
  broken,    \* what does not come up in this launch
  files,     \* which of the optional configuration files exist
  up,        \* what the sub-phases have set up in this launch
  link,      \* the MCP connections: "none", "connecting", "connected"
  step,      \* where each child's body is
  nodes,     \* the graph
  saved,     \* its last snapshot
  launches,
  uncleaned, \* history: a clean-up before the intents failed
  unsaved    \* history: the last snapshot of this launch failed

phaseVars == <<broken, files, up, link, step, nodes, saved, launches, uncleaned, unsaved>>
allVars == <<vars, phaseVars>>

\* The nodes and edges of each origin; links counts the edges of one intent.
EmptyNodes == [project |-> FALSE, servers |-> FALSE,
               intents |-> FALSE, links |-> 0, steps |-> FALSE, tools |-> FALSE,
               bridged |-> FALSE]

\* Bug: the snapshot is taken before the tools are discovered.
BodySnapshotFirst(n) ==
  CASE n = "project_sync" -> <<"sync", "snapshot">>
    [] n = "project_analysis" -> <<"analyze">>
    [] n = "llm_config" -> <<"update">>
    [] n = "intents_bootstrap" -> <<"intents", "strategy", "snapshot", "discover", "bridge">>

\* The requests of each child, in order.
Body(n) ==
  CASE n = "project_sync" -> <<"sync", "snapshot">>
    [] n = "project_analysis" -> <<"analyze">>
    [] n = "llm_config" -> <<"update">>
    [] n = "intents_bootstrap" -> <<"intents", "strategy", "discover", "bridge", "snapshot">>

Faults == {parts \in SUBSET Breakable : Cardinality(parts) <= 1}

\* The order in which the sub-phases of a group are started.
Listed ==
  <<"graph_init", "embedder_init", "mcp_bootstrap", "platform_bootstrap",
    "project_sync_init", "project_analyzer_init", "project_query_init", "mcp_connect",
    "project_sync", "project_analysis", "llm_config", "intents_bootstrap_init",
    "intents_bootstrap", "register_tools">>
Place(n) == CHOOSE k \in DOMAIN Listed : Listed[k] = n
IsNext(n) == n \in starting /\ \A m \in starting : Place(n) <= Place(m)

PhasesInit ==
  /\ Init
  /\ files \in Configurations
  /\ broken \in Faults
  /\ up = {} /\ link = "none" /\ step = [n \in Async |-> 0]
  /\ nodes = EmptyNodes /\ saved = EmptyNodes
  /\ launches = 1 /\ uncleaned = FALSE /\ unsaved = FALSE

-----------------------------------------------------------------------------
(* The sub-phases that end at once.                                        *)
History == <<uncleaned, unsaved>>

GraphInit ==
  /\ IsNext("graph_init") /\ StartSync("graph_init")
  /\ up' = up \union {"graph"}
  /\ UNCHANGED <<broken, files, link, step, nodes, saved, launches, History>>

SerialFails ==
  /\ \E n \in {"graph_init", "register_tools"} : StartFails(n)
  /\ UNCHANGED phaseVars

\* An actor that is told to initialize, or refuses: its sub-phase then fails,
\* which the group counts like any other end.
ActorInit(n, what) ==
  /\ IsNext(n) /\ StartSync(n)
  /\ up' = up \union ({what} \ broken)
  /\ UNCHANGED <<broken, files, link, step, nodes, saved, launches, History>>

EmbedderInit == ActorInit("embedder_init", "embedder")
ProjectSyncInit == ActorInit("project_sync_init", "sync")
ProjectAnalyzerInit == ActorInit("project_analyzer_init", "analyzer")
ProjectQueryInit == ActorInit("project_query_init", "query")

\* The servers of the file go into the graph, those of the graph to the client.
McpBootstrap ==
  /\ IsNext("mcp_bootstrap") /\ StartSync("mcp_bootstrap")
  /\ nodes' = [nodes EXCEPT !.servers = @ \/ "servers" \in files \ broken]
  /\ up' = IF nodes'.servers THEN up \union {"servers"} ELSE up
  /\ UNCHANGED <<broken, files, link, step, saved, launches, History>>

\* The definitions go into the graph and are read back into the registry; a
\* failure of either is only logged.
PlatformBootstrap ==
  /\ IsNext("platform_bootstrap") /\ StartSync("platform_bootstrap")
  /\ up' = up \union ({"registry"} \ broken)
  /\ UNCHANGED <<broken, files, link, step, nodes, saved, launches, History>>

McpConnect ==
  /\ IsNext("mcp_connect") /\ StartSync("mcp_connect")
  /\ link' = "connecting"
  /\ UNCHANGED <<broken, files, up, step, nodes, saved, launches, History>>

\* The client goes through the servers while the startup goes on.
Connected ==
  /\ link = "connecting"
  /\ link' = IF "servers" \in up THEN "connected" ELSE "none"
  /\ UNCHANGED <<vars, broken, files, up, step, nodes, saved, launches, History>>

\* A query whose answer nobody waits for.
IntentsBootstrapInit ==
  /\ IsNext("intents_bootstrap_init") /\ StartSync("intents_bootstrap_init")
  /\ UNCHANGED phaseVars

RegisterTools ==
  /\ IsNext("register_tools") /\ StartSync("register_tools")
  /\ up' = up \union {"tools"}
  /\ UNCHANGED <<broken, files, link, step, nodes, saved, launches, History>>

\* A child is spawned and told to run.
Spawn ==
  \E n \in Async :
    /\ IsNext(n) /\ StartAsync(n)
    /\ step' = [step EXCEPT ![n] = 1]
    /\ UNCHANGED <<broken, files, up, link, nodes, saved, launches, History>>

-----------------------------------------------------------------------------
(* The children's bodies.                                                  *)
At(n, place) == step[n] \in DOMAIN Body(n) /\ Body(n)[step[n]] = place
To(n, k) == step' = [step EXCEPT ![n] = k]
Advance(n) == To(n, step[n] + 1)

\* The Project node decides between a startup sync and a bootstrap, both of
\* which store the tree.  Without the actor, or when an operation fails, neither
\* does.
SyncProject ==
  /\ At("project_sync", "sync") /\ Advance("project_sync")
  /\ nodes' \in {nodes} \union
       (IF "sync" \in up
        THEN {[nodes EXCEPT !.project = TRUE]} ELSE {})
  /\ UNCHANGED <<vars, broken, files, up, link, saved, launches, History>>

\* The analysis is stored in a transaction of its own.
AnalyzeProject ==
  /\ At("project_analysis", "analyze") /\ Advance("project_analysis")
  /\ nodes' \in {nodes} \union
       (IF "analyzer" \in up THEN {[nodes EXCEPT !.project = TRUE]} ELSE {})
  /\ UNCHANGED <<vars, broken, files, up, link, saved, launches, History>>

\* The settings go to the language model's actor.
LlmConfig ==
  /\ At("llm_config", "update") /\ Advance("llm_config")
  /\ UNCHANGED <<vars, broken, files, up, link, nodes, saved, launches, History>>

\* Bug: what an earlier launch stored stays.
CleanedNot(g, subtypes) == g

\* The nodes of a subtype go with their edges, tools of the servers included.
Cleaned(g, subtypes) ==
  [g EXCEPT !.links = IF subtypes = {} THEN @ ELSE 0,
            !.intents = @ /\ "intent" \notin subtypes,
            !.tools = @ /\ "tool" \notin subtypes,
            !.bridged = @ /\ "tool" \notin subtypes]

\* The nodes of the file are merged, the edges between them created.
StoredIntents(g) == [g EXCEPT !.intents = TRUE]
LinkedIntents(g) == [g EXCEPT !.links = @ + 1]

\* A clean-up that fails is logged.  A later failure drops the transaction,
\* which rolls back or keeps what was done so far.
BootstrapIntents ==
  /\ At("intents_bootstrap", "intents") /\ Advance("intents_bootstrap")
  /\ IF "intents" \in files
     THEN \E subtypes \in SUBSET {"intent", "tool"} :
            LET cleaned == Cleaned(nodes, subtypes) IN
            /\ nodes' \in {nodes, cleaned, StoredIntents(cleaned),
                           LinkedIntents(StoredIntents(cleaned))}
            /\ uncleaned' = (uncleaned \/ subtypes = {})
     ELSE UNCHANGED <<nodes, uncleaned>>
  /\ UNCHANGED <<vars, broken, files, up, link, saved, launches, unsaved>>

BootstrapStrategy ==
  /\ At("intents_bootstrap", "strategy") /\ Advance("intents_bootstrap")
  /\ nodes' \in {nodes} \union
       (IF "strategy" \in files THEN {[nodes EXCEPT !.steps = TRUE]} ELSE {})
  /\ UNCHANGED <<vars, broken, files, up, link, saved, launches, History>>

\* The tools of the servers that are connected by now.
DiscoverTools ==
  /\ At("intents_bootstrap", "discover") /\ Advance("intents_bootstrap")
  /\ nodes' \in {nodes} \union
       (IF link = "connected" THEN {[nodes EXCEPT !.tools = TRUE]} ELSE {})
  /\ UNCHANGED <<vars, broken, files, up, link, saved, launches, History>>

\* A build system node per server that can build, tied to the tools just found.
BridgeServers ==
  /\ At("intents_bootstrap", "bridge") /\ Advance("intents_bootstrap")
  /\ nodes' \in {nodes} \union
       (IF link = "connected" /\ nodes.tools THEN {[nodes EXCEPT !.bridged = TRUE]} ELSE {})
  /\ UNCHANGED <<vars, broken, files, up, link, saved, launches, History>>

Snapshot(n) ==
  /\ At(n, "snapshot") /\ Advance(n)
  /\ \/ saved' = nodes /\ unsaved' = FALSE
     \/ unsaved' = TRUE /\ UNCHANGED saved
  /\ UNCHANGED <<vars, broken, files, up, link, nodes, launches, uncleaned>>

\* The body is over and the child reports.
BodyOver(n) ==
  /\ step[n] > Len(Body(n))
  /\ Report(n)
  /\ UNCHANGED phaseVars

-----------------------------------------------------------------------------
\* The process ends and is started again on the graph it left, which holds
\* at least the snapshot.
Relaunch ==
  /\ launches < MaxLaunches /\ phase > 0 /\ shutdowns = 0
  /\ launches' = launches + 1
  /\ nodes' \in {saved, nodes}
  /\ saved' = nodes'
  /\ state' = "initializing" /\ active' = FALSE /\ phase' = 0
  /\ starting' = {} /\ completed' = {}
  /\ work' = [n \in Names |-> "waiting"]
  /\ mailbox' = <<>> /\ reply' = "none"
  /\ up' = {} /\ link' = "none" /\ step' = [n \in Async |-> 0]
  /\ broken' \in Faults
  /\ unsaved' = FALSE
  /\ UNCHANGED <<shutdowns, files, uncleaned>>

SubPhase ==
  \/ GraphInit \/ SerialFails \/ Spawn \/ RegisterTools
  \/ EmbedderInit \/ McpBootstrap \/ PlatformBootstrap
  \/ ProjectSyncInit \/ ProjectAnalyzerInit \/ ProjectQueryInit
  \/ McpConnect \/ IntentsBootstrapInit

SystemStep == SubPhase \/ ((HandleShutdown \/ HandleEvent) /\ UNCHANGED phaseVars)

ChildStep(n) ==
  \/ BodyOver(n)
  \/ n = "project_sync" /\ SyncProject
  \/ n = "project_analysis" /\ AnalyzeProject
  \/ n = "llm_config" /\ LlmConfig
  \/ n = "intents_bootstrap" /\ (BootstrapIntents \/ BootstrapStrategy \/ DiscoverTools \/ BridgeServers)
  \/ Snapshot(n)

PhasesNext ==
  \/ (Initialize \/ AskShutdown) /\ UNCHANGED phaseVars
  \/ SystemStep \/ Connected \/ Relaunch
  \/ \E n \in Async : ChildStep(n)

\* The actor handles what it has, and every request of a child is answered.
PhasesSpec ==
  /\ PhasesInit /\ [][PhasesNext]_allVars
  /\ WF_allVars(SystemStep)
  /\ \A n \in Async : WF_allVars(ChildStep(n))

-----------------------------------------------------------------------------
(* A system that is ready has what its startup stored on disk: the analysis *)
(* takes no snapshot of its own, so the last child must take one after      *)
(* everything else was written (startup_phases.rs:1720).                    *)
ReadyIsSaved == state = "ready" /\ ~unsaved => saved = nodes

(* "This prevents accumulation across restarts (graph is persisted)"        *)
(* (startup_phases.rs:1820): however many launches, and whichever of them   *)
(* were cut short, an intent has its edges once, unless a clean-up failed.  *)
NoAccumulation == ~uncleaned => nodes.links <= 1
=============================================================================
