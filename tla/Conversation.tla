---------------------------- MODULE Conversation ---------------------------
(***************************************************************************)
(* What the coordinator does with a request that uses the tools: a direct  *)
(* tools/call, a plan, and llm/complete, which asks the intent router      *)
(* (src/subsystems/planning/intent_router.rs) what the words ask for and   *)
(* starts a build, makes a plan, refuses, or talks to the model, running   *)
(* the tools the model calls (src/actors/coordinator.rs).                  *)
(***************************************************************************)
EXTENDS ProjectTools

CONSTANTS Intents,      \* the intents of the configuration, in the graph's order
          Queries,      \* what a user may type
          Similar(_),   \* query -> names a vector search finds near enough
          States,       \* build states an intent can require
          QueryTools,   \* tools the query actor has
          EditorTools,  \* tools the editor has
          ServerTools,  \* tools the MCP servers have
          CallLists     \* lists of tool calls the model may answer with

ASSUME ConversationAssumption ==
  \A i \in DOMAIN Intents : Intents[i].needs \subseteq States

VARIABLES
  turn,     \* the request in progress and what came of it
  planned   \* the directory the last plan resolves its paths in

vars == <<projectVars, callVars, turn, planned>>

Quiet == [stage |-> "idle", form |-> "text", pending |-> <<>>, told |-> <<>>,
          barred |-> FALSE, did |-> "nothing"]

Init == OpenInit /\ ToolsInit /\ turn = Quiet /\ planned = NoDir

\* The coordinator takes the next request when it has answered the last.
Idle == turn.stage = "idle"
Begin == Idle /\ Take /\ UNCHANGED host

-----------------------------------------------------------------------------
(* The intent router.                                                       *)

\* query_intents: the first of each name.
Known == {i \in DOMAIN Intents : \A j \in 1..(i - 1) : Intents[j].name # Intents[i].name}

\* By a pattern, by the name or by the description; an empty description is
\* part of every query.
Matches(i, words) ==
  \/ \E pattern \in Intents[i].patterns : Within(pattern, words)
  \/ Within(Intents[i].name, words)
  \/ Within(Intents[i].description, words)

\* The highest priority, and the first of these.
BestMatch(words) ==
  {i \in Known : /\ Matches(i, words)
                 /\ \A j \in Known : Matches(j, words) =>
                      \/ Intents[j].priority < Intents[i].priority
                      \/ Intents[j].priority = Intents[i].priority /\ i <= j}

\* semantic_match_intent: the first intent the vector search finds; it may
\* find, or be, nothing.
SemanticMatch(words) == {{}} \union {{i} : i \in {k \in Known : Intents[k].name \in Similar(words)}}

\* check_state_requirements: what is missing, or that the query failed.
MissingStates(i) ==
  {[failed |-> FALSE, missing |-> Intents[i].needs \ active] : active \in SUBSET States}
    \union {[failed |-> TRUE, missing |-> {}]}

\* route_to_handler
RouteToHandler(i) ==
  CASE Intents[i].handler = "BuildOrchestrator" -> "build"
    [] Intents[i].handler = "PlanOrchestrator" -> "plan"
    [] OTHER -> "chat"

\* The gate of a matched intent, by its words ...
Gate(i, check) ==
  IF Intents[i].needs # {} /\ ~check.failed /\ check.missing # {} THEN "blocked"
  ELSE IF Intents[i].approval THEN "approval"
  ELSE RouteToHandler(i)

\* Bug: what was found by similarity goes straight to its handler.
SemanticNoGate(i, check) == RouteToHandler(i)

\* ... and the copy of it for one that was found by similarity.
SemanticGate(i, check) ==
  IF Intents[i].needs # {} /\ ~check.failed /\ check.missing # {} THEN "blocked"
  ELSE IF Intents[i].approval THEN "approval"
  ELSE RouteToHandler(i)

\* The gate's rule, for the history.
Barred(i, check) == Intents[i].approval \/ check.missing # {}

Route(kind, barred) == [kind |-> kind, barred |-> barred]

\* route_query.  The intents are in a graph that a server has filled.
HasIntents == graph # NoDir /\ (~HasFfi \/ systems[graph] # <<>>)
RouteQuery(words) ==
  {Route("chat", FALSE)}   \* no intents, no answer, or nothing found
    \union (IF ~HasIntents THEN {}
            ELSE IF BestMatch(words) # {}
            THEN UNION {{Route(Gate(i, check), Barred(i, check)) : check \in MissingStates(i)} :
                          i \in BestMatch(words)}
            ELSE UNION {{Route(SemanticGate(i, check), Barred(i, check)) : check \in MissingStates(i)} :
                          i \in UNION SemanticMatch(words)})

-----------------------------------------------------------------------------
(* llm/complete.                                                            *)

Answered == turn' = [turn EXCEPT !.stage = "idle", !.form = "text", !.told = <<>>]

\* The words after "build", or everything.
BuildScope(words) ==
  IF words = <<"build", "all">> \/ Len(words) < 2 \/ Head(words) # "build"
  THEN <<>> ELSE Tail(words)

\* The build tool is called and the request waits for its reply.
RouteBuild(words, barred) ==
  /\ CallTool("build", BuildScope(words))
  /\ turn' = [Quiet EXCEPT !.stage = IF call' = NoCall THEN "idle" ELSE "build",
                           !.barred = barred, !.did = "build"]
  /\ UNCHANGED <<pointers, systems, targets, history, planned>>

\* CreatePlan without a root: the plan's paths are those of the process.
RoutePlan(barred) ==
  /\ planned' \in {planned, NoDir}
  /\ turn' = [Quiet EXCEPT !.barred = barred, !.did = "plan"]
  /\ Says("plan", {})
  /\ UNCHANGED <<pointers, stored, history, callVars>>

\* Missing states are named; an approval is not asked for: as with everything
\* else, the model is.
RouteElse(kind, barred) ==
  /\ turn' = [Quiet EXCEPT !.stage = IF kind = "blocked" THEN "idle" ELSE "model",
                           !.barred = barred]
  /\ Says(kind, {})
  /\ UNCHANGED <<pointers, stored, history, callVars, planned>>

Complete(words) ==
  /\ Begin
  /\ \E route \in RouteQuery(words) :
       CASE route.kind = "build" -> RouteBuild(words, route.barred)
         [] route.kind = "plan" -> RoutePlan(route.barred)
         [] OTHER -> RouteElse(route.kind, route.barred)

-----------------------------------------------------------------------------
(* The model, and the tools it calls.                                       *)

Elsewhere == UNCHANGED <<projectVars, callVars, planned>>

\* CompleteWithTools: an error, an answer, or calls, in JSON or in XML.
ModelAnswers ==
  /\ turn.stage = "model" /\ Elsewhere
  /\ \/ Answered
     \/ \E form \in {"json", "xml"}, calls \in CallLists :
          turn' = [turn EXCEPT !.stage = "calls", !.form = form, !.pending = calls]

Tell(tool, as) ==
  turn' = [turn EXCEPT !.pending = Tail(@), !.stage = "calls",
                       !.told = Append(@, [tool |-> tool, as |-> as])]

\* call_extension_tool: the app has no editor; an editor answers in its own
\* time, without a limit.
CallEditor(tool) ==
  /\ tool \in EditorTools
  /\ IF HasFfi THEN Tell(tool, "error") ELSE turn' = [turn EXCEPT !.stage = "editor"]
EditorAnswers ==
  /\ turn.stage = "editor" /\ Elsewhere
  /\ \E as \in {"result", "error"} : Tell(Head(turn.pending), as)

\* Every project/ tool goes to the query actor; one it does not have, such as
\* project/build, is told as a result that holds an error.
CallQuery(tool) == tool \in QueryTools \union Tools /\ Tell(tool, "result")
CallServer(tool) == tool \in ServerTools /\ \E as \in {"result", "error"} : Tell(tool, as)

RunCall(tool) ==
  /\ Elsewhere
  /\ CallEditor(tool) \/ CallQuery(tool) \/ CallServer(tool)

Calling(form) == turn.stage = "calls" /\ turn.form = form /\ turn.pending # <<>>
RunJsonCall == Calling("json") /\ RunCall(Head(turn.pending))
RunXmlCall == Calling("xml") /\ RunCall(Head(turn.pending))

\* CompleteWithMessages: the results are told, and the answer or the error
\* ends the request.
ModelSums == turn.stage = "calls" /\ turn.pending = <<>> /\ Answered /\ Elsewhere

ModelStep == ModelAnswers \/ RunJsonCall \/ RunXmlCall \/ ModelSums

-----------------------------------------------------------------------------
(* tools/call and plan/create.                                              *)

\* The registry gives each tool to the actor that has it.
ToolsCall(tool, scope) ==
  /\ Begin
  /\ CallTool(tool, scope)
  /\ turn' = [Quiet EXCEPT !.stage = IF call' = NoCall THEN "idle" ELSE "build"]
  /\ UNCHANGED <<pointers, systems, targets, history, planned>>

\* plan/create: a root of the caller's, else the shared one.
PlanCreate ==
  /\ Begin
  /\ \E asked \in {NoDir} \union Marked : planned' \in {planned, IF asked = NoDir THEN root ELSE asked}
  /\ turn' = Quiet
  /\ Says("plan", {})
  /\ UNCHANGED <<pointers, stored, history, callVars>>

\* A step of the tool call; its reply answers the request.
RunTool ==
  /\ ToolStep
  /\ IF call' = NoCall THEN Answered ELSE UNCHANGED turn
  /\ UNCHANGED planned

ProjectRequest ==
  /\ Idle /\ turn' = Quiet
  /\ reply' = NoReply /\ UNCHANGED <<call, tasks, results, listVars, planned>>
  /\ (\E folder \in Dirs : OpenProject(folder)) \/ AnalyzeProject \/ Read \/ Restart

Next ==
  \/ ProjectRequest
  \/ \E tool \in Offered, scope \in Scopes : ToolsCall(tool, scope)
  \/ \E words \in Queries : Complete(words)
  \/ PlanCreate
  \/ RunTool \/ ModelStep \/ EditorAnswers

\* Tasks run, builds end and the model answers or fails; an editor may not.
Spec == Init /\ [][Next]_vars /\ WF_vars(RunTool) /\ WF_vars(ModelStep)

-----------------------------------------------------------------------------
(* Properties.                                                              *)

\* No build is started and no plan is made, directly or by way of the model,
\* for words that stand for an intent that needs an approval or one of whose
\* states was found missing.
NothingUngatedRuns == turn.barred => turn.did = "nothing" /\ ~Busy

\* Every request is answered, unless an editor keeps it waiting.
RequestsAnswered == turn.stage # "idle" ~> (turn.stage = "idle" \/ turn.stage = "editor")
=============================================================================
