---------------------------- MODULE ProjectTools ---------------------------
(***************************************************************************)
(* The meta-tools project/build, test, check, lint, format, install and    *)
(* add_dependency (src/subsystems/project/project_build.rs, _test, _lint,  *)
(* _install): each reads the build systems of the graph that is open,      *)
(* resolves a scope to some of them and starts one task per system; the    *)
(* tasks run in parallel, and the results are collected in order.  The     *)
(* tasks of a build also rewrite one list that the editor shows.           *)
(* A text is a sequence of words, the same in either case.                 *)
(***************************************************************************)
EXTENDS OpenProject, Functions

CONSTANTS Scopes,      \* scopes a caller asks for; <<>> is none, "" or "all"
          Offered,     \* bound: the tools that are called
          NodeTypes    \* build types of the Node family: npm, pnpm, yarn

\* What a BuildSystem node says; a name without a dot is not dotted.
BuildSystem ==
  [type : Seq(STRING), path : Seq(STRING), name : Seq(STRING), project : Seq(STRING),
   dotted : BOOLEAN]

ASSUME ToolsAssumption == \A d \in Dirs : Systems[d] \in Seq(BuildSystem)

Tools == {"build", "test", "check", "lint", "format", "install", "add_dependency"}

VARIABLES
  call,    \* the tool call in progress, or NoCall
  tasks,   \* its tasks, in the order of dispatch
  results, \* what was collected so far
  reply,   \* the reply of the last call, or NoReply
  widget,  \* the build list the editor shows: index -> status
  final,   \* the closing update of that list was sent
  kept     \* the list as the chat keeps it

listVars == <<widget, final, kept>>
callVars == <<call, tasks, results, reply, listVars>>

NoCall == [tool |-> "none"]
NoReply == [tool |-> "none"]
Shown == [i \in {} |-> "pending"]

ToolsInit ==
  /\ call = NoCall /\ tasks = <<>> /\ results = <<>> /\ reply = NoReply
  /\ widget = Shown /\ final = FALSE /\ kept = Shown

Busy == call # NoCall

-----------------------------------------------------------------------------
(* From a scope to the systems it stands for.                               *)

Map(f(_), s) == [i \in DOMAIN s |-> f(s[i])]
Within(part, text) ==
  \E k \in 0..(Len(text) - Len(part)) : SubSeq(text, k + 1, k + Len(part)) = part

\* The chosen systems of a list, in its order.
Only(list, chosen) ==
  LET upto[k \in 0..Len(list)] ==
        IF k = 0 THEN <<>>
        ELSE IF list[k] \in chosen THEN Append(upto[k - 1], list[k]) ELSE upto[k - 1]
  IN upto[Len(list)]

ByType(scope, list) == Only(list, {s \in Range(list) : s.type = scope})
ByPath(scope, list) ==
  Only(list, {s \in Range(list) : Within(scope, s.path) \/ Within(s.path, scope)})
ByName(scope, list) == Only(list, {s \in Range(list) : s.project = scope})

\* resolve_scope: everything, else by type, else by path, else by name.  The
\* empty path of a system at the root is part of every scope.
ResolveScope(scope, list) ==
  IF scope = <<>> THEN list
  ELSE IF ByType(scope, list) # <<>> THEN ByType(scope, list)
  ELSE IF ByPath(scope, list) # <<>> THEN ByPath(scope, list)
  ELSE ByName(scope, list)

\* The package is set only when the name was what matched.
Package(scope, list) ==
  IF scope # <<>> /\ ByType(scope, list) = <<>> /\ ByPath(scope, list) = <<>> THEN scope ELSE <<>>

\* resolve_build_path: the node's name ends with its configuration file, so
\* without a path it is the directory the name starts with, the root; a name
\* without a dot is kept as it is.
ResolveBuildPath(s) ==
  IF s.path # <<>> THEN s.path ELSE IF s.dotted THEN <<>> ELSE s.name

Dispatch(type, dir, package) == [type |-> type, dir |-> dir, package |-> package]

\* A build runs under the root this actor was given ...
BuildDispatches(scope, list) ==
  Map(LAMBDA s : Dispatch(s.type, <<buildRoot, ResolveBuildPath(s)>>, Package(scope, list)),
      ResolveScope(scope, list))

\* ... the others in the directory of the process, and two forget the package.
Here(path) == <<NoDir, path>>
TestDispatches(scope, list) ==
  Map(LAMBDA s : Dispatch(s.type, Here(ResolveBuildPath(s)), Package(scope, list)),
      ResolveScope(scope, list))
LintDispatches(scope, list) ==
  Map(LAMBDA s : Dispatch(s.type, Here(ResolveBuildPath(s)), <<>>), ResolveScope(scope, list))
InstallDispatches(scope, list) ==
  Map(LAMBDA s : Dispatch(s.type, Here(ResolveBuildPath(s)), <<>>), ResolveScope(scope, list))

Dispatches(tool, scope, list) ==
  CASE tool = "build" -> BuildDispatches(scope, list)
    [] tool \in {"test", "check"} -> TestDispatches(scope, list)
    [] tool \in {"lint", "format"} -> LintDispatches(scope, list)
    [] OTHER -> InstallDispatches(scope, list)

-----------------------------------------------------------------------------
(* A call starts.                                                           *)

\* project/getBuildConfig: the systems of the open graph, or an object with
\* no list when the query fails; none is open before the first project/open.
BuildConfig ==
  {[failed |-> TRUE, list |-> <<>>]}
    \union (IF graph = NoDir THEN {} ELSE {[failed |-> FALSE, list |-> systems[graph]]})

Reply(tool, scope, success, found, blind) ==
  reply' = [tool |-> tool, scope |-> scope, success |-> success, results |-> found, blind |-> blind]

\* Refused without a root, or because the query actor is gone.
HasRoot(tool) == tool # "build" \/ buildRoot # NoDir
Refused(tool, scope) ==
  /\ Reply(tool, scope, FALSE, <<>>, TRUE)
  /\ UNCHANGED <<call, tasks, results, listVars>>

\* Nothing to do: what the reply says of that depends on the tool.
Nothing(tool, scope, config) ==
  /\ Reply(tool, scope, tool # "build" \/ config.list = <<>>, <<>>, config.failed)
  /\ UNCHANGED <<call, tasks, results, listVars>>

NewTask == [state |-> "new", outcome |-> "none", slot |-> "none", ran |-> <<>>]

\* A task for each system; a build lists them all as pending.
Started(tool, scope, todo) ==
  /\ call' = [tool |-> tool, scope |-> scope, todo |-> todo]
  /\ tasks' = Map(LAMBDA d : NewTask, todo)
  /\ results' = <<>> /\ reply' = NoReply
  /\ IF tool = "build"
     THEN /\ kept' = Map(LAMBDA d : "pending", todo) /\ final' = FALSE
          /\ widget' = IF HasFfi THEN Shown ELSE kept'
     ELSE UNCHANGED listVars

\* The call of one of the tools.
CallTool(tool, scope) ==
  /\ ~Busy /\ UNCHANGED diagnostics
  /\ Says(tool, {})
  /\ \/ Refused(tool, scope)
     \/ /\ HasRoot(tool)
        /\ \E config \in BuildConfig :
             LET todo == Dispatches(tool, scope, config.list)
             IN IF todo = <<>> THEN Nothing(tool, scope, config) ELSE Started(tool, scope, todo)

-----------------------------------------------------------------------------
(* The task of one system.                                                  *)

IsNode(i) == call.todo[i].type \in NodeTypes
Dir(i) == call.todo[i].dir

\* What is asked of the build module, or of the Node server.
BuildOperation(i, clean) ==
  (IF clean THEN <<IF IsNode(i) THEN "install" ELSE "clean">> ELSE <<>>) \o <<"build">>
TestOperation(i) == <<call.tool>>
LintOperation(i) ==
  IF IsNode(i) THEN <<call.tool>> ELSE IF call.tool = "lint" THEN <<"clippy">> ELSE <<"fmt">>
InstallOperation(i) == IF call.tool = "install" /\ ~IsNode(i) THEN <<>> ELSE <<call.tool>>

Operations(i) ==
  CASE call.tool = "build" -> {BuildOperation(i, clean) : clean \in BOOLEAN}
    [] call.tool \in {"test", "check"} -> {TestOperation(i)}
    [] call.tool \in {"lint", "format"} -> {LintOperation(i)}
    [] OTHER -> {InstallOperation(i)}

\* call_build_module_tool, call_mcp_tool: an answer that says success or not,
\* or no answer.  An installer that has nothing for the system says not.
Outcomes(ran) == IF ran = <<>> THEN {"failed"} ELSE {"success", "failed", "error"}

\* store_diagnostics: warnings and errors become nodes of the open graph; a
\* node that cannot be stored is skipped.
StoreDiagnostics(i, outcome) ==
  diagnostics' \in {diagnostics} \union (IF outcome = "error" THEN {} ELSE {diagnostics \union {graph}})

\* Bug: every task has a list of its own.
EmitOwnSlot(ts, i) == widget' = IF HasFfi THEN widget ELSE [j \in {i} |-> ts[i].slot]

\* emit_widget_update: every system that has begun, as the list stands; in the
\* app nobody listens.
Slots(ts) == [i \in {j \in DOMAIN ts : ts[j].slot # "none"} |-> ts[i].slot]
EmitWidgetUpdate(ts, i) == widget' = IF HasFfi THEN widget ELSE Slots(ts)

\* The lock is held while the list is changed and sent.
TaskBegin(i) ==
  /\ call.tool = "build" /\ tasks[i].state = "new"
  /\ tasks' = [tasks EXCEPT ![i].state = "begun", ![i].slot = "running"]
  /\ EmitWidgetUpdate(tasks', i)
  /\ UNCHANGED <<diagnostics, final, kept>>

TaskRun(i) ==
  /\ tasks[i].state = IF call.tool = "build" THEN "begun" ELSE "new"
  /\ \E ran \in Operations(i) : \E outcome \in Outcomes(ran) :
       /\ tasks' = [tasks EXCEPT ![i] = [@ EXCEPT !.outcome = outcome, !.ran = ran,
                      !.state = IF call.tool = "build" THEN "ran" ELSE "done"]]
       /\ IF call.tool = "build" THEN StoreDiagnostics(i, outcome) ELSE UNCHANGED diagnostics
  /\ UNCHANGED listVars

TaskEnd(i) ==
  /\ tasks[i].state = "ran"
  /\ tasks' = [tasks EXCEPT ![i].state = "done",
                 ![i].slot = IF tasks[i].outcome = "success" THEN "success" ELSE "error"]
  /\ EmitWidgetUpdate(tasks', i)
  /\ UNCHANGED <<diagnostics, final, kept>>

\* The task panics: only its handle tells.
TaskPanics(i) ==
  /\ tasks[i].state \in {"new", "begun", "ran"}
  /\ tasks' = [tasks EXCEPT ![i].state = "panicked"]
  /\ UNCHANGED <<diagnostics, listVars>>

-----------------------------------------------------------------------------
(* The results, in the order of dispatch.                                   *)

\* Bug: a handle that failed is waited for again.
EndedWell(i) == tasks[i].state = "done"

Ended(i) == tasks[i].state \in {"done", "panicked"}

\* A task that panicked leaves a result with no name.
Result(i) ==
  IF tasks[i].state = "done"
  THEN [dir |-> Dir(i), type |-> call.todo[i].type, ok |-> tasks[i].outcome = "success"]
  ELSE [dir |-> <<NoDir, <<>>>>, type |-> <<>>, ok |-> FALSE]

Collect ==
  /\ Len(results) < Len(tasks) /\ Ended(Len(results) + 1)
  /\ results' = Append(results, Result(Len(results) + 1))
  /\ UNCHANGED <<tasks, diagnostics, reply, listVars, call, answer>>

Success(found) == \A i \in DOMAIN found : found[i].ok

Collected == Len(results) = Len(tasks)

\* A build closes its list, for the editor and in the chat; each then answers.
Finish ==
  /\ Collected
  /\ call' = NoCall /\ tasks' = <<>> /\ results' = <<>>
  /\ Reply(call.tool, call.scope, Success(results), results, FALSE)
  /\ Says(call.tool, {results[i].dir[1] : i \in DOMAIN results} \ {NoDir})
  /\ IF call.tool = "build"
     THEN /\ kept' = Map(LAMBDA r : IF r.ok THEN "success" ELSE "error", results) /\ final' = TRUE
          /\ widget' = IF HasFfi THEN widget ELSE kept'
     ELSE UNCHANGED listVars
  /\ UNCHANGED diagnostics

TaskStep(i) == TaskBegin(i) \/ TaskRun(i) \/ TaskEnd(i) \/ TaskPanics(i)

ToolStep ==
  /\ Busy
  /\ UNCHANGED <<host, requests, pointers, systems, targets, history>>
  /\ \/ (\E i \in DOMAIN tasks : TaskStep(i)) /\ UNCHANGED <<call, results, reply, answer>>
     \/ Collect \/ Finish

-----------------------------------------------------------------------------
(* Properties.                                                              *)

\* What a scope stands for, stated without the way it is resolved: all the
\* systems, those of a type, or those at a path.
Meant(scope, all) ==
  IF scope = <<>> THEN all
  ELSE IF \E s \in all : s.type = scope THEN {s \in all : s.type = scope}
  ELSE {s \in all : s.path = scope}

\* A build that reports success, when nothing was pointed away from the
\* project that was opened, ran every system its scope stands for, in that
\* system's own directory of that project, and each of them succeeded.  Two
\* exceptions: a build that could not read the graph reports success too, and
\* a system at the root whose file has no extension (Makefile) runs elsewhere.
SuccessMeansBuilt ==
  reply.tool = "build" /\ reply.success /\ ~reply.blind /\ ~astray /\ opened # NoDir =>
    \A s \in Meant(reply.scope, Range(systems[opened])) : s.path # <<>> \/ s.dotted =>
      [dir |-> <<opened, s.path>>, type |-> s.type, ok |-> TRUE] \in Range(reply.results)

\* The list the editor shows settles: once a system is shown running it stays
\* in the list and never goes back, and after the closing update nothing
\* changes until the next build.
Rank(status) == CASE status = "pending" -> 0 [] status = "running" -> 1 [] OTHER -> 2
Onward(list, next) ==
  \A i \in DOMAIN list : list[i] # "pending" =>
    i \in DOMAIN next /\ (Rank(list[i]) < Rank(next[i]) \/ list[i] = next[i])
WidgetSettles ==
  [][~(call = NoCall /\ call' # NoCall /\ call'.tool = "build") =>
       Onward(widget, widget') /\ (final => widget' = widget)]_<<call, widget, final>>
=============================================================================
