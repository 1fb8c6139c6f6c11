------------------------------- MODULE Startup -------------------------------
(***************************************************************************)
(* The system actor (actors/system.rs) driving the startup phases          *)
(* (actors/startup_phases.rs): a chain of groups whose sub-phases end at   *)
(* once or leave their work to a child, which reports by a message that    *)
(* queues behind a shutdown or in front of it.                             *)
(***************************************************************************)
EXTENDS Integers, Sequences, FiniteSets

CONSTANTS Chain,        \* the phases in order, each the set of its sub-phases
          Serial,       \* the phases that are no group: their failure is fatal
          Async,        \* the sub-phases that leave their work to a child
          Shutdown,     \* the message of a client; a sub-phase's name is its event
          MaxShutdowns  \* bound: shutdown requests

Phases == DOMAIN Chain
Names == UNION {Chain[k] : k \in Phases}

ASSUME StartupAssumption ==
  /\ Chain \in Seq(SUBSET Names) /\ Chain # <<>>
  /\ \A k \in Phases : IsFiniteSet(Chain[k]) /\ Chain[k] # {}
  /\ \A k, l \in Phases : k # l => Chain[k] \intersect Chain[l] = {}
  /\ Serial \subseteq Phases
  /\ \A k \in Serial : Chain[k] \intersect Async = {} /\ Cardinality(Chain[k]) = 1
  /\ Shutdown \notin Names
  /\ MaxShutdowns \in Nat

VARIABLES
  state,      \* the lifecycle state
  active,     \* current_phase holds the chain
  phase,      \* current_index, 0 before Initialize
  starting,   \* sub-phases the handler has still to start
  completed,  \* the group's completed names
  work,       \* every sub-phase: "waiting", "running" in a child, "ended"
  mailbox,
  reply,      \* what became of the reply Initialize asked for
  shutdowns   \* shutdown requests so far

vars == <<state, active, phase, starting, completed, work, mailbox, reply, shutdowns>>

Init ==
  /\ state = "initializing" /\ active = FALSE /\ phase = 0
  /\ starting = {} /\ completed = {}
  /\ work = [n \in Names |-> "waiting"]
  /\ mailbox = <<>> /\ reply = "none" /\ shutdowns = 0

-----------------------------------------------------------------------------
(* The ends of the chain                                                   *)

\* The chain is complete: ready, unless a shutdown came first.
Finish ==
  /\ active' = FALSE
  /\ IF state = "initializing" THEN state' = "ready" /\ reply' = "ok"
     ELSE UNCHANGED <<state, reply>>
  /\ UNCHANGED phase /\ starting' = {} /\ completed' = {}

\* fail_initialization
Fail ==
  /\ active' = FALSE
  /\ state' = "failed" /\ reply' = "failed"
  /\ UNCHANGED phase /\ starting' = {} /\ completed' = {}

\* The current phase with these sub-phases completed, all of them started: it
\* waits for the others, or the chain goes on.
Proceed(names) ==
  IF Cardinality(names) # Cardinality(Chain[phase])
  THEN completed' = names /\ starting' = {} /\ UNCHANGED <<state, active, phase, reply>>
  ELSE IF phase < Len(Chain)
       THEN /\ phase' = phase + 1 /\ starting' = Chain[phase + 1] /\ completed' = {}
            /\ UNCHANGED <<state, active, reply>>
       ELSE Finish

-----------------------------------------------------------------------------
(* The handler of Initialize, and a phase being started                    *)
Idle == starting = {}

Initialize ==
  /\ reply = "none"
  /\ active' = TRUE /\ reply' = "owed"
  /\ phase' = 1 /\ starting' = Chain[1] /\ completed' = {}
  /\ UNCHANGED <<state, work, mailbox, shutdowns>>

\* What starting a sub-phase leaves: more of them to start, or the last was.
Started(n, names) ==
  IF starting \ {n} = {} THEN Proceed(names)
  ELSE /\ starting' = starting \ {n} /\ completed' = names
       /\ UNCHANGED <<state, active, phase, reply>>

\* A sub-phase that ends at once; a group counts a failed one as well.
StartSync(n) ==
  /\ n \in starting \ Async
  /\ work' = [work EXCEPT ![n] = "ended"]
  /\ Started(n, completed \union {n})
  /\ UNCHANGED <<mailbox, shutdowns>>

StartFails(n) ==
  /\ n \in starting /\ phase \in Serial
  /\ Fail
  /\ UNCHANGED <<work, mailbox, shutdowns>>

\* Bug: the message that runs the child is never sent.
StartNotSent(n) ==
  /\ n \in starting \intersect Async
  /\ Started(n, completed)
  /\ UNCHANGED <<work, mailbox, shutdowns>>

\* Bug: the work a child was given counts as done.
StartAndCount(n) ==
  /\ n \in starting \intersect Async
  /\ work' = [work EXCEPT ![n] = "running"]
  /\ Started(n, completed \union {n})
  /\ UNCHANGED <<mailbox, shutdowns>>

StartAsync(n) ==
  /\ n \in starting \intersect Async
  /\ work' = [work EXCEPT ![n] = "running"]
  /\ Started(n, completed)
  /\ UNCHANGED <<mailbox, shutdowns>>

-----------------------------------------------------------------------------
(* Children, clients, and the rest of the mailbox                          *)

\* StartupTask: the body has ended, well or not, and its event is sent.
Report(n) ==
  /\ work[n] = "running"
  /\ work' = [work EXCEPT ![n] = "ended"]
  /\ mailbox' = Append(mailbox, n)
  /\ UNCHANGED <<state, active, phase, starting, completed, reply, shutdowns>>

AskShutdown ==
  /\ reply # "none" /\ shutdowns < MaxShutdowns
  /\ shutdowns' = shutdowns + 1
  /\ mailbox' = Append(mailbox, Shutdown)
  /\ UNCHANGED <<state, active, phase, starting, completed, work, reply>>

Receives == Idle /\ mailbox # <<>> /\ mailbox' = Tail(mailbox)

HandleShutdown ==
  /\ Receives /\ Head(mailbox) = Shutdown
  /\ state' = "shutting_down"
  /\ UNCHANGED <<active, phase, starting, completed, work, reply, shutdowns>>

\* handle_phase_event, with a chain to hand it to or without.
HandleEvent ==
  /\ Receives /\ Head(mailbox) # Shutdown
  /\ IF active THEN Proceed(completed \union {Head(mailbox)})
     ELSE UNCHANGED <<state, active, phase, starting, completed, reply>>
  /\ UNCHANGED <<work, shutdowns>>

-----------------------------------------------------------------------------
StartStep == \E n \in Names : StartSync(n) \/ StartFails(n) \/ StartAsync(n)
Handler == StartStep \/ HandleShutdown \/ HandleEvent

Next == Initialize \/ Handler \/ AskShutdown \/ \E n \in Names : Report(n)

Spec == Init /\ [][Next]_vars

\* The actor handles what it has and every child's body ends.
FairSpec == Spec /\ WF_vars(Handler) /\ \A n \in Names : WF_vars(Report(n))

-----------------------------------------------------------------------------
StartupTypeOK ==
  /\ state \in {"initializing", "ready", "shutting_down", "failed"}
  /\ active \in BOOLEAN
  /\ phase \in 0..Len(Chain)
  /\ starting \subseteq Names /\ completed \subseteq Names
  /\ work \in [Names -> {"waiting", "running", "ended"}]
  /\ mailbox \in Seq(Names \union {Shutdown})
  /\ reply \in {"none", "owed", "ok", "failed"}
  /\ shutdowns \in 0..MaxShutdowns

(* No sub-phase begins before every sub-phase of the phases in front of it  *)
(* has ended, its child's work with it (startup_phases.rs:1270), and the    *)
(* system is ready only with nothing of the startup left to run.            *)
PhasesInOrder ==
  /\ \A k, l \in Phases : k < l =>
       \A n \in Chain[k], m \in Chain[l] : work[m] # "waiting" => work[n] = "ended"
  /\ state = "ready" => \A n \in Names : work[n] = "ended"

(* A shutdown that overtakes the startup is not undone by its last event.   *)
NotReadyAfterShutdown ==
  [][state = "shutting_down" => state' # "ready"]_vars

(* The caller of Initialize is told of success only when the system was     *)
(* ready, and of every failure.                                             *)
ReplyAgrees ==
  /\ reply = "ok" => state \in {"ready", "shutting_down"} /\ \A n \in Names : work[n] = "ended"
  /\ state = "failed" => reply = "failed"

(* A startup ends, ready or failed, unless it is shut down.                 *)
StartupEnds == reply = "owed" ~> reply # "owed" \/ state = "shutting_down"
=============================================================================
