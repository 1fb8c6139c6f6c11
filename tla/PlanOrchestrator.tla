--------------------------- MODULE PlanOrchestrator ---------------------------
(***************************************************************************)
(* The plan orchestrator (subsystems/planning/plan_orchestrator.rs): one   *)
(* plan from its creation through approvals, pauses, retries, skips and    *)
(* rejections, with the caches a restart loses and the graph it keeps.     *)
(* The actor handles one message at a time, and approving a plan runs it   *)
(* to its end inside that message.                                         *)
(***************************************************************************)
EXTENDS Integers, Sequences, FiniteSets, Functions

CONSTANTS Plans,       \* the plans a model may answer with: the depends_on list of every step
          MaxCommands  \* bound: approvals, retries and other commands

ASSUME PlanAssumption ==
  /\ Plans \subseteq Seq(Seq(Nat)) \ {<<>>}
  /\ MaxCommands \in Nat

Statuses == {"none", "pending", "executing", "paused", "completed", "rejected",
             "failed", "skipped"}

VARIABLES
  plan,         \* the depends_on list of every step; <<>> before the plan exists
  cached,       \* plan_cache and step_data_cache hold it
  cacheStatus,  \* the status in plan_cache
  planStatus,   \* the status of the Plan node
  stepStatus,   \* the status of every PlanStep node
  byName,       \* the place of every step by its description; <<>> until a restart needs it
  lossy,        \* a query of the graph may miss nodes, or not be answered
  commands,     \* commands so far
  doing,        \* what the handler is at: "idle", "next", "tool"
  data,         \* steps of this run, in the order get_step_data gave them
  total,        \* steps get_plan_steps found
  todo,         \* positions in data still to go through
  done,         \* positions completed in this run
  dispatched,   \* positions given to the tool orchestrator in this run
  gone          \* the tool orchestrator no longer takes messages

planVars == <<plan, byName>>
statusVars == <<cacheStatus, planStatus, stepStatus>>
runVars == <<data, total, todo, done, dispatched>>
orchestratorVars == <<planVars, cached, statusVars, lossy, gone, commands, doing, runVars>>

Steps == 1..Len(plan)

PlanInit ==
  /\ plan = <<>> /\ cached = FALSE
  /\ cacheStatus = "none" /\ planStatus = "none" /\ stepStatus = <<>>
  /\ byName = <<>> /\ lossy = FALSE /\ commands = 0
  /\ doing = "idle" /\ data = <<>> /\ total = 0 /\ todo = <<>> /\ done = {}
  /\ dispatched = {} /\ gone = FALSE

-----------------------------------------------------------------------------
\* Bug: a step is placed before the steps it depends on.
PreOrder(deps) ==
  LET n == Len(deps)
      Search == [left : Seq(Nat), order : Seq(1..n), visited : SUBSET (1..n)]
      visit[s \in Search] ==
        IF s.left = <<>> THEN s
        ELSE LET i == Head(s.left)
             IN  IF i \notin (1..n) \ s.visited THEN visit[[s EXCEPT !.left = Tail(@)]]
                 ELSE LET below == visit[[left |-> deps[i], order |-> Append(s.order, i),
                                          visited |-> s.visited \union {i}]]
                      IN  visit[[below EXCEPT !.left = Tail(s.left)]]
  IN visit[[left |-> [i \in 1..n |-> i], order |-> <<>>, visited |-> {}]].order

\* resolve_execution_order: depth first, every step after the ones it names.  A
\* search goes through a list of steps, passing over the ones that are not there
\* or were visited.
ExecutionOrder(deps) ==
  LET n == Len(deps)
      Search == [left : Seq(Nat), order : Seq(1..n), visited : SUBSET (1..n)]
      visit[s \in Search] ==
        IF s.left = <<>> THEN s
        ELSE LET i == Head(s.left)
             IN  IF i \notin (1..n) \ s.visited THEN visit[[s EXCEPT !.left = Tail(@)]]
                 ELSE LET below == visit[[left |-> deps[i], order |-> s.order,
                                          visited |-> s.visited \union {i}]]
                      IN  visit[[left |-> Tail(s.left), order |-> Append(below.order, i),
                                 visited |-> below.visited]]
  IN visit[[left |-> [i \in 1..n |-> i], order |-> <<>>, visited |-> {}]].order

\* A query returns at most 100 of the plan steps of all plans.
Found == IF lossy THEN SUBSET Steps ELSE {Steps}

\* m steps of the plan, by description.
Listed(m) == {d \in [1..m -> Steps] : \A j, k \in 1..m : j < k => byName[d[j]] < byName[d[k]]}

\* get_step_data: the cache in plan order, or the graph's nodes by description.
StepData ==
  IF cached THEN {[i \in Steps |-> i]}
  ELSE UNION {Listed(Cardinality(found)) : found \in Found}

-----------------------------------------------------------------------------
(* create_plan: the model answered with at least one step, and every node   *)
(* was stored.                                                              *)
CreatePlan ==
  /\ doing = "idle" /\ plan = <<>>
  /\ plan' \in Plans
  /\ cached' = TRUE
  /\ cacheStatus' = "pending" /\ planStatus' = "pending"
  /\ stepStatus' = [i \in DOMAIN plan' |-> "pending"]
  /\ UNCHANGED <<byName, lossy, gone, commands, doing, runVars>>

\* Other plans fill the graph until a query no longer returns all its plan
\* steps; from then on a query may also be left without an answer.
GraphTurnsLossy ==
  /\ plan # <<>> /\ ~lossy
  /\ lossy' = TRUE
  /\ UNCHANGED <<planVars, cached, statusVars, gone, commands, doing, runVars>>

\* update_plan_status: while the plan is cached the graph is not told.
SetPlanStatus(status) ==
  IF cached
  THEN cacheStatus' = status /\ UNCHANGED planStatus
  ELSE /\ UNCHANGED cacheStatus
       /\ planStatus' \in (IF plan = <<>> THEN {planStatus} ELSE {status})
                            \union (IF lossy THEN {planStatus} ELSE {})

\* update_step_status, by the order the node was stored with.
SetStepStatus(order, status) ==
  stepStatus' \in
    (IF order \in Steps THEN {[stepStatus EXCEPT ![order] = status]} ELSE {stepStatus})
      \union (IF lossy THEN {stepStatus} ELSE {})

\* What a run knows is gone when it returns.
RunDropped ==
  /\ doing' = "idle" /\ data' = <<>> /\ total' = 0 /\ todo' = <<>>
  /\ done' = {} /\ dispatched' = {}

Command == doing = "idle" /\ commands < MaxCommands /\ commands' = commands + 1

\* reject_plan, and PausePlan.
SetAside(status) ==
  /\ Command
  /\ SetPlanStatus(status)
  /\ UNCHANGED <<planVars, cached, stepStatus, lossy, gone, doing, runVars>>

\* approve_plan up to its first step.
BeginRun ==
  /\ SetPlanStatus("executing")
  /\ data' \in StepData
  /\ \E found \in IF cached THEN {Steps} ELSE Found : total' = Cardinality(found)
  /\ todo' = ExecutionOrder([p \in DOMAIN data' |-> plan[data'[p]]])
  /\ done' = {} /\ dispatched' = {}
  /\ doing' = "next"
  /\ UNCHANGED <<planVars, cached, lossy, gone>>

\* ApprovePlan and ResumePlan.
Approve == Command /\ BeginRun /\ UNCHANGED stepStatus

RetryStep(order) == Command /\ BeginRun /\ SetStepStatus(order, "pending")

SkipStep(order) == Command /\ BeginRun /\ SetStepStatus(order, "skipped")

-----------------------------------------------------------------------------
(* execute_steps                                                           *)
Current == Head(todo)
DepsMet == \A p \in DOMAIN plan[data[Current]] : plan[data[Current]][p] \in done

\* The step is left as it is and the next one is looked at.
PassOver ==
  /\ doing = "next" /\ todo # <<>> /\ ~DepsMet
  /\ todo' = Tail(todo)
  /\ UNCHANGED <<planVars, cached, statusVars, lossy, gone, commands, doing, data, total, done,
                 dispatched>>

DispatchStep ==
  /\ doing = "next" /\ todo # <<>> /\ DepsMet
  /\ SetStepStatus(Current, "executing")
  /\ dispatched' = dispatched \union {Current}
  /\ doing' = "tool"
  /\ UNCHANGED <<planVars, cached, cacheStatus, planStatus, lossy, gone, commands, data, total,
                 todo, done>>

\* The tool orchestrator is gone: the step is put back and the run goes on.
NoOrchestrator ==
  /\ doing = "tool"
  /\ SetStepStatus(Current, "pending")
  /\ gone' = TRUE
  /\ todo' = Tail(todo)
  /\ doing' = "next"
  /\ UNCHANGED <<planVars, cached, cacheStatus, planStatus, lossy, commands, data, total,
                 done, dispatched>>

StepCompleted ==
  /\ doing = "tool" /\ ~gone
  /\ SetStepStatus(Current, "completed")
  /\ done' = done \union {Current}
  /\ todo' = Tail(todo)
  /\ doing' = "next"
  /\ UNCHANGED <<planVars, cached, cacheStatus, planStatus, lossy, gone, commands, data, total,
                 dispatched>>

\* The tool failed, or its answer was lost, perhaps with the orchestrator: the
\* run ends where it stands.
StepFailed ==
  /\ doing = "tool" /\ ~gone
  /\ gone' \in BOOLEAN
  /\ SetStepStatus(Current, "failed")
  /\ RunDropped
  /\ UNCHANGED <<planVars, cached, cacheStatus, planStatus, lossy, commands>>

\* Without the cache the steps and the widget are queries, and one that gets no
\* answer ends the run.
WidgetFails ==
  /\ doing # "idle" /\ ~cached /\ lossy
  /\ doing = "tool" \/ dispatched = {} \/ ~gone
  /\ RunDropped
  /\ UNCHANGED <<planVars, cached, statusVars, lossy, gone, commands>>

\* Bug: a run that had no failure counts as complete.
RunOverNoFailure ==
  /\ doing = "next" /\ todo = <<>>
  /\ SetPlanStatus("completed")
  /\ RunDropped
  /\ UNCHANGED <<planVars, cached, stepStatus, lossy, gone, commands>>

RunOver ==
  /\ doing = "next" /\ todo = <<>>
  /\ IF Cardinality(done) = total THEN SetPlanStatus("completed")
     ELSE UNCHANGED <<cacheStatus, planStatus>>
  /\ RunDropped
  /\ UNCHANGED <<planVars, cached, stepStatus, lossy, gone, commands>>

\* The process ends at any point.  The caches are gone; the graph is kept.
\* The descriptions are text the model wrote: they sort in any order.
PlanRestart ==
  /\ cached \/ doing # "idle"
  /\ cached' = FALSE /\ cacheStatus' = "none"
  /\ byName' \in IF cached THEN {order \in [Steps -> Steps] : IsInjective(order)} ELSE {byName}
  /\ RunDropped /\ gone' = FALSE
  /\ UNCHANGED <<plan, planStatus, stepStatus, lossy, commands>>

-----------------------------------------------------------------------------
RunStep == PassOver \/ DispatchStep \/ NoOrchestrator \/ StepCompleted \/ StepFailed \/ WidgetFails \/ RunOver

PlanNext ==
  \/ CreatePlan \/ GraphTurnsLossy \/ Approve \/ PlanRestart \/ RunStep
  \/ \E status \in {"paused", "rejected"} : SetAside(status)
  \/ \E order \in Steps \union {0} : RetryStep(order) \/ SkipStep(order)

PlanSpec == PlanInit /\ [][PlanNext]_orchestratorVars

\* The actor goes on with the message it has, and every tool answers or drops
\* its reply.  Requests are up to the user.
FairPlan == PlanSpec /\ WF_orchestratorVars(RunStep)

-----------------------------------------------------------------------------

\* The steps a dependency list allows to run: every step below them is in
\* range and on no cycle.
Runnable(deps) ==
  LET n == Len(deps)
      ready(S) == {i \in 1..n : \A p \in DOMAIN deps[i] : deps[i][p] \in S}
      after[k \in 0..n] == IF k = 0 THEN {} ELSE ready(after[k - 1])
  IN after[n]

(* "Resolve step execution order respecting dependencies"                   *)
(* (plan_orchestrator.rs:739): a run no failure cut short has completed     *)
(* every step that could run, and no other, whatever cycles and wrong       *)
(* indices the model put in the plan; and none was given to the tool        *)
(* orchestrator twice.                                                      *)
RunsWhatCanRun ==
  doing = "next" =>
    IF todo = <<>> THEN gone \/ done = Runnable([p \in DOMAIN data |-> plan[data[p]]])
    ELSE Current \notin dispatched

(* A plan is marked completed, in the cache or in the graph, only when      *)
(* every one of its steps is marked completed in the graph, unless the      *)
(* graph misses nodes.                                                      *)
Status == IF cached THEN cacheStatus ELSE planStatus
CompletedMeansAllSteps ==
  [][Status' = "completed" /\ Status # "completed" /\ cached' = cached /\ ~lossy =>
       \A i \in Steps : stepStatus[i] = "completed"]_orchestratorVars

=============================================================================
