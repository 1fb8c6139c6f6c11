----------------------------- MODULE BuildRuns -----------------------------
(***************************************************************************)
(* A build, lint or fix of the build manager (src/subsystems/build/        *)
(* build_manager.rs) as the desktop application runs it: the module that   *)
(* invokes the tool and sends its lines, the task that forwards them, the  *)
(* Diagnostic nodes made of them, the log the lines end up in and the      *)
(* threads of the user interface that wait for it (src/ffi.rs).            *)
(* A line is <<run, number>>: what it says is lines[run][number].          *)
(***************************************************************************)
EXTENDS Naturals, Sequences, FiniteSets, SequencesExt

CONSTANTS Findings,     \* what a compiler can report, each with its file
          Errors,       \* the findings that keep it from compiling
          Other,        \* a line that names no file
          Threads,      \* threads that wait for lines or poll for them
          Mailbox,      \* capacity of the log's mailbox
          MaxRuns       \* bound: invocations of a tool

RunKinds == {"build", "lint", "fix"}
Runs == 1..MaxRuns
Nodes == [finding : Findings, kind : RunKinds]

ASSUME RunsAssumption ==
  /\ Errors \subseteq Findings /\ Other \notin Findings
  /\ Mailbox \in Nat \ {0} /\ MaxRuns \in Nat

\* What an invocation is, from the call of the tool to its answer.
NoCall == [tool |-> "none", kind |-> "none", streams |-> FALSE, clang |-> FALSE,
           reported |-> {}, reply |-> "none", found |-> {}]

VARIABLES
  manager,    \* what the manager awaits
  call,       \* the call it serves: the tool, the kind of the invocation in
              \* progress, how its module reports, what the compiler finds,
              \* the module's reply and the findings about to be stored
  runs,       \* invocations so far
  lines,      \* run -> the lines the module has sent
  taken,      \* run -> how many of them are in events_buf
  held,       \* runs whose forwarder holds a line the log has not accepted
  diags,      \* the Diagnostic nodes
  latest,     \* history: kind -> what its last stored run reported
  torn,       \* history: kinds whose last store failed
  logMail,    \* messages of the log
  pending,    \* lines in the log
  permit,     \* the permit of its Notify
  thread,     \* thread -> where its call is
  delivered   \* history: the lines handed to a thread

asking == <<manager, call, runs>>
forwarding == <<taken, held>>
storedVars == <<diags, latest, torn>>
log == <<logMail, pending, permit, thread, delivered>>
runsVars == <<asking, lines, forwarding, storedVars, log>>

RunsInit ==
  /\ manager = "idle" /\ call = NoCall /\ runs = 0
  /\ lines = [r \in Runs |-> <<>>]
  /\ taken = [r \in Runs |-> 0] /\ held = {}
  /\ diags = {} /\ latest = [k \in RunKinds |-> {}] /\ torn = {}
  /\ logMail = <<>> /\ pending = <<>> /\ permit = FALSE
  /\ thread = [t \in Threads |-> "away"] /\ delivered = <<>>

-----------------------------------------------------------------------------
(* The module.                                                              *)
Invoke(t, k) ==
  /\ runs < MaxRuns
  /\ runs' = runs + 1
  /\ manager' = "waiting"
  /\ \E streams, clang \in BOOLEAN, reported \in SUBSET Findings :
       call' = [NoCall EXCEPT !.tool = t, !.kind = k, !.streams = streams,
                              !.clang = clang, !.reported = reported]
  /\ UNCHANGED <<lines, forwarding, storedVars, log>>

\* A call of build_build, build_lint, build_fix or build_verify, which builds
\* first.  One that is refused, or finds no analysis or no module, ends here.
Call ==
  /\ manager = "idle"
  /\ \/ Invoke("build_build", "build") \/ Invoke("build_verify", "build")
     \/ Invoke("build_lint", "lint") \/ Invoke("build_fix", "fix")

\* build_verify lints what compiled.
LintWhatBuilt == manager = "built" /\ Invoke(call.tool, "lint")

Working == manager = "waiting" /\ call.reply = "none"
Emit(line) == lines' = [lines EXCEPT ![runs] = Append(@, line)]
Reply(answer) == call' = [call EXCEPT !.reply = answer]

\* run_cargo_streaming and its like: an event for each finding.
ModuleReports ==
  /\ Working /\ call.streams
  /\ \E f \in call.reported \ ToSet(lines[runs]) : Emit(f)
  /\ UNCHANGED <<asking, forwarding, storedVars, log>>

\* The last line, from a module that does not stream the only one, and the
\* answer, on a channel of its own.
ModuleFinishes ==
  /\ Working
  /\ call.streams => call.reported \subseteq ToSet(lines[runs])
  /\ Emit(Other)
  /\ \/ Reply("failed")
     \/ (call.kind = "build" => call.reported \cap Errors = {}) /\ Reply("ok")
  /\ UNCHANGED <<manager, runs, forwarding, storedVars, log>>

\* The tool cannot be started, or the module is gone.
ModuleFails ==
  /\ Working
  /\ Reply("error")
  /\ UNCHANGED <<manager, runs, lines, forwarding, storedVars, log>>

-----------------------------------------------------------------------------
(* The manager.                                                             *)
Streamed == {lines[runs][i] : i \in 1..taken[runs]} \cap Findings

\* What the nodes are made of: the lines forwarded so far, or, when they hold
\* nothing, what is found in the output of the tool.
Ingestible ==
  LET nothing == CASE call.kind = "build" -> Streamed = {}
                   [] call.kind = "lint" -> taken[runs] = 0
                   [] OTHER -> FALSE
  IN IF nothing /\ call.clang THEN call.reported ELSE Streamed

Answer == manager' = "idle" /\ call' = NoCall

TakeReply ==
  /\ manager = "waiting" /\ call.reply # "none"
  /\ \/ call.reply = "error" /\ Answer
     \/ /\ call.reply # "error"
        /\ manager' = "ingesting"
        /\ call' = [call EXCEPT !.found = Ingestible]
  /\ UNCHANGED <<runs, lines, forwarding, storedVars, log>>

\* Bug: nothing is superseded by a run that found nothing.
ClearedUnlessEmpty == IF call.found = {} THEN diags ELSE {d \in diags : d.kind # call.kind}

\* clear_previous_diagnostics
Cleared == {d \in diags : d.kind # call.kind}

\* MergeNode: the node of that name is updated, whichever kind made it.
Merged(findings) ==
  {d \in Cleared : d.finding \notin findings}
    \union [finding : findings, kind : {call.kind}]

\* fix stores no outcome.
AfterIngest ==
  IF call.kind = "fix" THEN Answer ELSE manager' = "storing" /\ UNCHANGED call

Ingest ==
  /\ manager = "ingesting"
  /\ diags' = Merged(call.found)
  /\ latest' = [latest EXCEPT ![call.kind] = call.reported]
  /\ torn' = torn \ {call.kind}
  /\ AfterIngest
  /\ UNCHANGED <<runs, lines, forwarding, log>>

\* What a store that stops midway may leave.
TornStores ==
  {nodes \in SUBSET diags : Cleared \subseteq nodes}
    \union {Merged(findings) : findings \in SUBSET call.found}

\* The query, the stream or one of its operations fails: nobody looks.
IngestFails ==
  /\ manager = "ingesting"
  /\ diags' \in TornStores
  /\ torn' = torn \union {call.kind}
  /\ AfterIngest
  /\ UNCHANGED <<runs, lines, forwarding, latest, log>>

\* store_action_status: the outcome, which nothing here reads.
StoreStatus ==
  /\ manager = "storing"
  /\ IF call.tool = "build_verify" /\ call.kind = "build" /\ call.reply = "ok"
     THEN manager' = "built" /\ call' = [NoCall EXCEPT !.tool = call.tool]
     ELSE Answer
  /\ UNCHANGED <<runs, lines, forwarding, storedVars, log>>

-----------------------------------------------------------------------------
(* The forwarder of a run, which outlives it.                               *)
Forward(r) ==
  /\ r \notin held /\ taken[r] < Len(lines[r])
  /\ taken' = [taken EXCEPT ![r] = @ + 1]
  /\ held' = held \union {r}
  /\ UNCHANGED <<asking, lines, storedVars, log>>

HasRoom == Len(logMail) < Mailbox

Record(r) ==
  /\ r \in held /\ HasRoom
  /\ logMail' = Append(logMail, <<"record", <<r, taken[r]>>>>)
  /\ held' = held \ {r}
  /\ UNCHANGED <<asking, lines, taken, storedVars, pending, permit, thread, delivered>>

-----------------------------------------------------------------------------
(* BuildEventLogActor and the threads in spire_wait_for_build_event.        *)

\* Bug: notify_waiters, which leaves no permit.
NotifyWaiters ==
  /\ thread' = [t \in Threads |-> IF thread[t] = "parked" THEN "woken" ELSE thread[t]]
  /\ UNCHANGED permit

\* Notify::notify_one: it wakes one that waits, or leaves a permit.
Notify ==
  \/ \E t \in Threads :
       /\ thread[t] = "parked"
       /\ thread' = [thread EXCEPT ![t] = "woken"]
       /\ UNCHANGED permit
  \/ /\ \A t \in Threads : thread[t] # "parked"
     /\ permit' = TRUE
     /\ UNCHANGED thread

LogRecord ==
  /\ logMail # <<>> /\ Head(logMail)[1] = "record"
  /\ logMail' = Tail(logMail)
  /\ pending' = Append(pending, Head(logMail)[2])
  /\ Notify
  /\ UNCHANGED <<asking, lines, forwarding, storedVars, delivered>>

\* Bug: a copy is handed out.
DrainCopy == pending' = pending

\* std::mem::take
Drain == pending' = <<>>

LogDrain ==
  /\ logMail # <<>> /\ Head(logMail)[1] = "drain"
  /\ logMail' = Tail(logMail)
  /\ Drain
  /\ delivered' = delivered \o pending
  /\ LET t == Head(logMail)[2] IN
     thread' = [thread EXCEPT ![t] =
       IF @ = "asked" /\ pending = <<>> THEN "empty" ELSE "away"]
  /\ UNCHANGED <<asking, lines, forwarding, storedVars, permit>>

\* A call drains before it waits, and again when it was woken.
AskToDrain(t) ==
  /\ thread[t] \in {"away", "woken"} /\ HasRoom
  /\ logMail' = Append(logMail, <<"drain", t>>)
  /\ thread' = [thread EXCEPT ![t] = "asked"]
  /\ UNCHANGED <<asking, lines, forwarding, storedVars, pending, permit, delivered>>

\* spire_drain_build_events
Poll(t) ==
  /\ thread[t] = "away" /\ HasRoom
  /\ logMail' = Append(logMail, <<"drain", t>>)
  /\ thread' = [thread EXCEPT ![t] = "polling"]
  /\ UNCHANGED <<asking, lines, forwarding, storedVars, pending, permit, delivered>>

\* notified().await
Wait(t) ==
  /\ thread[t] = "empty"
  /\ thread' = [thread EXCEPT ![t] = IF permit THEN "woken" ELSE "parked"]
  /\ permit' = FALSE
  /\ UNCHANGED <<asking, lines, forwarding, storedVars, logMail, pending, delivered>>

\* The timer wins the select!, over a notification too, which then goes to
\* the next that waits.
TimeOut(t) ==
  /\ \/ /\ thread[t] = "parked"
        /\ thread' = [thread EXCEPT ![t] = "away"]
        /\ UNCHANGED permit
     \/ /\ thread[t] = "woken"
        /\ \/ \E u \in Threads :
                /\ thread[u] = "parked"
                /\ thread' = [thread EXCEPT ![t] = "away", ![u] = "woken"]
                /\ UNCHANGED permit
           \/ /\ \A u \in Threads : thread[u] # "parked"
              /\ thread' = [thread EXCEPT ![t] = "away"]
              /\ permit' = TRUE
  /\ UNCHANGED <<asking, lines, forwarding, storedVars, logMail, pending, delivered>>

-----------------------------------------------------------------------------
\* The process ends, wherever it is: the graph is what is left.
RestartRuns ==
  /\ IF manager = "ingesting"
     THEN diags' \in TornStores /\ torn' = torn \union {call.kind}
     ELSE UNCHANGED <<diags, torn>>
  /\ Answer
  /\ lines' = [r \in Runs |-> <<>>]
  /\ taken' = [r \in Runs |-> 0] /\ held' = {}
  /\ logMail' = <<>> /\ pending' = <<>> /\ permit' = FALSE
  /\ thread' = [t \in Threads |-> "away"] /\ delivered' = <<>>
  /\ UNCHANGED <<runs, latest>>

RunsNext ==
  \/ Call \/ LintWhatBuilt
  \/ ModuleReports \/ ModuleFinishes \/ ModuleFails
  \/ TakeReply \/ Ingest \/ IngestFails \/ StoreStatus
  \/ \E r \in Runs : Forward(r) \/ Record(r)
  \/ LogRecord \/ LogDrain
  \/ \E t \in Threads : AskToDrain(t) \/ Poll(t) \/ Wait(t) \/ TimeOut(t)
  \/ RestartRuns

RunsSpec == RunsInit /\ [][RunsNext]_runsVars

-----------------------------------------------------------------------------
\* A recorded finding of a kind is one the last stored run of that kind
\* reported: a run supersedes the one before, also when it found nothing, and
\* after a store that stopped midway the next one repairs it.
LatestRunOnly ==
  \A d \in diags : d.kind \notin torn => d.finding \in latest[d.kind]

\* The lines among messages, with <<0, 0>> for a drain.
Recorded(messages) ==
  [i \in DOMAIN messages |-> IF messages[i][1] = "record" THEN messages[i][2] ELSE <<0, 0>>]

\* The lines a thread has, the log holds and the mailbox brings to it.
Lines == delivered \o pending \o Recorded(logMail)

\* What the forwarder of r has passed on.
Passed(r) == taken[r] - IF r \in held THEN 1 ELSE 0

\* The lines of r in events are its first n, each once and in their order.
InOrder(events, r, n) ==
  /\ \A k \in 1..n : \E i \in DOMAIN events : events[i] = <<r, k>>
  /\ \A i \in DOMAIN events : events[i][1] = r => events[i][2] \in 1..n
  /\ \A i, j \in DOMAIN events :
       i < j /\ events[i][1] = r /\ events[j][1] = r => events[i][2] < events[j][2]

\* Every line a forwarder has passed on is, once and in the order of its run,
\* with a thread, in the log or on its way to it, whoever drains and whichever
\* call times out.
LinesOnceInOrder == \A r \in Runs : InOrder(Lines, r, Passed(r))

\* No thread sleeps, or is about to, over lines that are in the log, unless
\* it finds the permit or another thread is on its way to them.
NoLostWakeup ==
  pending # <<>> =>
    \/ permit
    \/ \A t \in Threads : thread[t] \notin {"parked", "empty"}
    \/ \E t \in Threads : thread[t] \in {"woken", "asked", "polling"}
=============================================================================
