---------------------------- MODULE ActorScheduler ----------------------------
(***************************************************************************)
(* The ESP-IDF actor framework (templates/esp-idf/framework): Scheduler,   *)
(* Entry and Mailbox (actors/src/scheduler.cpp) on Task                    *)
(* (toolkit/src/task.cpp).  Actors are numbered in the order they are      *)
(* spawned.  Three kinds of task run: the control task that spawns, starts *)
(* and stops; one loop per started actor; and Outside, any other task that *)
(* holds a ref.  FreeRTOS switches between them at any step.               *)
(***************************************************************************)
EXTENDS Integers, Sequences

CONSTANTS MaxActors,   \* how many actors the application ever spawns
          Depth,       \* messages a mailbox holds
          MaxSends     \* bound: how often anyone tries to send

ASSUME SchedulerAssumption ==
  /\ MaxActors \in Nat /\ Depth \in Nat \ {0} /\ MaxSends \in Nat

Actors == 1..MaxActors
Outside == 0
Senders == {Outside} \union Actors

VARIABLES
  owned,      \* entries_: the actors the scheduler holds
  started,    \* Scheduler::started_
  doing,         \* control task: "idle", "start", "create", "created", "rollback", "stop"
  begun,      \* actors this start has started
  victims,    \* actors the rollback or stop has still to stop
  life,       \* actor -> "unborn", "spawned", "up" (init accepted), "down"
  opened,     \* actor -> Entry::opened_
  ran,        \* actor -> Entry::started_
  run,        \* actor -> Task::run_, what should_run() says
  handle,     \* actor -> whether Task::handle_ is set
  loop,       \* actor -> its task: "off", "check", "receive", "handle"
  open,       \* actor -> whether its queue exists
  queue,      \* actor -> messages waiting, numbered as accepted
  accepted,   \* actor -> messages its mailbox ever took
  handled,    \* actor -> messages it was given
  posting,    \* sender -> mailbox it found open and is about to post to; 0 for none
  sends,      \* sends so far
  corrupt     \* a queue was used after it was deleted

controlVars == <<owned, started, doing, begun, victims>>
entryVars == <<life, opened, ran>>
taskVars == <<run, handle, loop>>
mailVars == <<open, queue, accepted>>
senderVars == <<posting, sends>>
schedulerVars == <<controlVars, entryVars, taskVars, mailVars, handled, senderVars, corrupt>>

Each(v) == [i \in Actors |-> v]

SchedulerInit ==
  /\ owned = {} /\ started = FALSE /\ doing = "idle" /\ begun = {} /\ victims = {}
  /\ life = Each("unborn") /\ opened = Each(FALSE) /\ ran = Each(FALSE)
  /\ run = Each(FALSE) /\ handle = Each(FALSE) /\ loop = Each("off")
  /\ open = Each(FALSE) /\ queue = Each(<<>>) /\ accepted = Each(0)
  /\ handled = Each(0)
  /\ posting = [s \in Senders |-> 0] /\ sends = 0
  /\ corrupt = FALSE

Spawned == {i \in Actors : life[i] # "unborn"}
Running(i) == handle[i]

-----------------------------------------------------------------------------
(* Mailbox.  close() deletes the queue with whatever waits in it.          *)
Close(i) ==
  /\ open' = [open EXCEPT ![i] = FALSE]
  /\ queue' = [queue EXCEPT ![i] = <<>>]
  /\ UNCHANGED accepted

\* xQueueSend with no wait: a full queue refuses.
Enqueue(i) ==
  IF Len(queue[i]) < Depth
  THEN /\ accepted' = [accepted EXCEPT ![i] = @ + 1]
       /\ queue' = [queue EXCEPT ![i] = Append(@, accepted[i] + 1)]
       /\ UNCHANGED open
  ELSE UNCHANGED mailVars

-----------------------------------------------------------------------------
(* Scheduler::spawn and Entry's constructor: the mailbox opens here.  A    *)
(* spawn after start, or without memory for the queue, keeps nothing.      *)
Attach(i) ==
  /\ doing = "idle" /\ ~started
  /\ life[i] = "unborn" /\ \A j \in Actors : j < i => life[j] # "unborn"
  /\ owned' = owned \union {i}
  /\ life' = [life EXCEPT ![i] = "spawned"]
  /\ opened' = [opened EXCEPT ![i] = TRUE]
  /\ open' = [open EXCEPT ![i] = TRUE]
  /\ UNCHANGED <<started, doing, begun, victims, ran, taskVars, queue, accepted,
                 handled, senderVars, corrupt>>

Start ==
  /\ doing = "idle" /\ ~started
  /\ doing' = "start"
  /\ begun' = {}
  /\ UNCHANGED <<owned, started, victims, entryVars, taskVars, mailVars, handled,
                 senderVars, corrupt>>

\* The entry Scheduler::start has reached.
Reached(i) == i \in owned \ begun /\ \A j \in owned \ begun : i <= j

RollBack == doing' = "rollback" /\ victims' = begun

\* Entry::start of one that was refused before: no init, no task.
StartRefusedEntry(i) ==
  /\ doing = "start" /\ Reached(i)
  /\ Running(i) \/ ~opened[i]
  /\ RollBack
  /\ UNCHANGED <<owned, started, begun, entryVars, taskVars, mailVars, handled,
                 senderVars, corrupt>>

InitAccepts(i) ==
  /\ doing = "start" /\ Reached(i)
  /\ ~Running(i) /\ opened[i]
  /\ doing' = "create"
  /\ life' = [life EXCEPT ![i] = "up"]
  /\ UNCHANGED <<owned, started, begun, victims, opened, ran, taskVars, mailVars,
                 handled, senderVars, corrupt>>

\* A refusal closes the mailbox that spawn opened.
InitRefuses(i) ==
  /\ doing = "start" /\ Reached(i)
  /\ ~Running(i) /\ opened[i]
  /\ RollBack
  /\ opened' = [opened EXCEPT ![i] = FALSE]
  /\ Close(i)
  /\ UNCHANGED <<owned, started, begun, life, ran, taskVars, handled, senderVars, corrupt>>

\* Task::start.  The new task may run before its handle is stored.
TaskCreated(i) ==
  /\ doing = "create" /\ Reached(i)
  /\ doing' = "created"
  /\ run' = [run EXCEPT ![i] = TRUE]
  /\ loop' = [loop EXCEPT ![i] = "check"]
  /\ UNCHANGED <<owned, started, begun, victims, entryVars, handle, mailVars, handled,
                 senderVars, corrupt>>

HandleStored(i) ==
  /\ doing = "created" /\ Reached(i)
  /\ doing' = "start"
  /\ begun' = begun \union {i}
  /\ ran' = [ran EXCEPT ![i] = TRUE]
  /\ handle' = [handle EXCEPT ![i] = TRUE]
  /\ UNCHANGED <<owned, started, victims, life, opened, run, loop, mailVars, handled,
                 senderVars, corrupt>>

\* FreeRTOS has no memory for the task: the mailbox closes, and nobody calls
\* the shutdown() of the actor whose init() accepted.
TaskRefused(i) ==
  /\ doing = "create" /\ Reached(i)
  /\ RollBack
  /\ opened' = [opened EXCEPT ![i] = FALSE]
  /\ Close(i)
  /\ UNCHANGED <<owned, started, begun, life, ran, taskVars, handled, senderVars, corrupt>>

StartDone ==
  /\ doing = "start" /\ owned = begun
  /\ doing' = "idle"
  /\ started' = TRUE
  /\ UNCHANGED <<owned, begun, victims, entryVars, taskVars, mailVars, handled,
                 senderVars, corrupt>>

Stop ==
  /\ doing = "idle"
  /\ doing' = "stop"
  /\ victims' = owned
  /\ UNCHANGED <<owned, started, begun, entryVars, taskVars, mailVars, handled,
                 senderVars, corrupt>>

\* Both rollback and stop go through the entries in reverse.
LetGoNext(i) == i \in victims /\ \A j \in victims : j <= i

\* Task::stop: ask, then wait until the loop has cleared the handle.
AskToStop(i) ==
  /\ doing \in {"rollback", "stop"} /\ LetGoNext(i)
  /\ Running(i) /\ run[i]
  /\ run' = [run EXCEPT ![i] = FALSE]
  /\ UNCHANGED <<controlVars, entryVars, handle, loop, mailVars, handled, senderVars, corrupt>>

\* Bug: the mailbox of an actor that never ran is left open.
LetGoOpen(i) ==
  /\ doing \in {"rollback", "stop"} /\ LetGoNext(i)
  /\ ~Running(i)
  /\ victims' = victims \ {i}
  /\ ran' = [ran EXCEPT ![i] = FALSE]
  /\ life' = [life EXCEPT ![i] = IF ran[i] THEN "down" ELSE @]
  /\ IF ran[i] THEN Close(i) ELSE UNCHANGED mailVars
  /\ UNCHANGED <<owned, started, doing, begun, opened, taskVars, handled, senderVars, corrupt>>

\* The rest of Entry::stop: shutdown() if its loop ran, then the mailbox.
LetGo(i) ==
  /\ doing \in {"rollback", "stop"} /\ LetGoNext(i)
  /\ ~Running(i)
  /\ victims' = victims \ {i}
  /\ ran' = [ran EXCEPT ![i] = FALSE]
  /\ life' = [life EXCEPT ![i] = IF ran[i] THEN "down" ELSE @]
  /\ Close(i)
  /\ UNCHANGED <<owned, started, doing, begun, opened, taskVars, handled, senderVars, corrupt>>

\* Bug: a refused start leaves what it started running.
RolledBackAtOnce ==
  /\ doing = "rollback"
  /\ doing' = "idle"
  /\ UNCHANGED <<owned, started, begun, victims, entryVars, taskVars, mailVars, handled,
                 senderVars, corrupt>>

RolledBack ==
  /\ doing = "rollback" /\ victims = {}
  /\ doing' = "idle"
  /\ UNCHANGED <<owned, started, begun, victims, entryVars, taskVars, mailVars, handled,
                 senderVars, corrupt>>

StopDone ==
  /\ doing = "stop" /\ victims = {}
  /\ doing' = "idle"
  /\ owned' = {}
  /\ started' = FALSE
  /\ UNCHANGED <<begun, victims, entryVars, taskVars, mailVars, handled, senderVars, corrupt>>

-----------------------------------------------------------------------------
(* ActorRef::send.  The control task, in the application or in an init()   *)
(* or shutdown() it calls, is the one that closes mailboxes: its sends     *)
(* race with nothing.                                                      *)
ControlSend(t) ==
  /\ sends < MaxSends
  /\ t \in Spawned
  /\ sends' = sends + 1
  /\ IF open[t] THEN Enqueue(t) ELSE UNCHANGED mailVars
  /\ UNCHANGED <<controlVars, entryVars, taskVars, handled, posting, corrupt>>

CanSend(s) == IF s = Outside THEN TRUE ELSE loop[s] = "handle"

\* Mailbox::post, the test of queue_: a closed mailbox refuses.
FindOpen(s, t) ==
  /\ CanSend(s) /\ posting[s] = 0 /\ sends < MaxSends
  /\ t \in Spawned
  /\ sends' = sends + 1
  /\ posting' = IF open[t] THEN [posting EXCEPT ![s] = t] ELSE posting
  /\ UNCHANGED <<controlVars, entryVars, taskVars, mailVars, handled, corrupt>>

\* Mailbox::post, the send.  Nothing keeps the queue from having been
\* deleted since: what happens then is undefined, and the model ends.
PostItem(s) ==
  /\ posting[s] # 0
  /\ IF open[posting[s]]
     THEN Enqueue(posting[s]) /\ UNCHANGED corrupt
     ELSE corrupt' = TRUE /\ UNCHANGED mailVars
  /\ posting' = [posting EXCEPT ![s] = 0]
  /\ UNCHANGED <<controlVars, entryVars, taskVars, handled, sends>>

-----------------------------------------------------------------------------
(* Entry::loop, on the actor's own task, inside Task::trampoline.          *)
LoopAgain(i) ==
  /\ loop[i] = "check" /\ run[i]
  /\ loop' = [loop EXCEPT ![i] = "receive"]
  /\ UNCHANGED <<controlVars, entryVars, run, handle, mailVars, handled, senderVars, corrupt>>

\* Bug: the task deletes itself and its handle stays.
LoopVanishes(i) ==
  /\ loop[i] = "check" /\ ~run[i]
  /\ loop' = [loop EXCEPT ![i] = "off"]
  /\ UNCHANGED <<controlVars, entryVars, run, handle, mailVars, handled, senderVars, corrupt>>

LoopEnds(i) ==
  /\ loop[i] = "check" /\ ~run[i]
  /\ loop' = [loop EXCEPT ![i] = "off"]
  /\ handle' = [handle EXCEPT ![i] = FALSE]
  /\ UNCHANGED <<controlVars, entryVars, run, mailVars, handled, senderVars, corrupt>>

\* receive() times out on an empty mailbox and returns at once on a closed one.
NothingReceived(i) ==
  /\ loop[i] = "receive"
  /\ ~open[i] \/ queue[i] = <<>>
  /\ loop' = [loop EXCEPT ![i] = "check"]
  /\ UNCHANGED <<controlVars, entryVars, run, handle, mailVars, handled, senderVars, corrupt>>

\* Bug: the message is taken and the loop goes round without dispatching it.
ReceivedAndDropped(i) ==
  /\ loop[i] = "receive"
  /\ open[i] /\ queue[i] # <<>>
  /\ queue' = [queue EXCEPT ![i] = Tail(@)]
  /\ loop' = [loop EXCEPT ![i] = "check"]
  /\ UNCHANGED <<controlVars, entryVars, run, handle, open, accepted, handled, senderVars, corrupt>>

Received(i) ==
  /\ loop[i] = "receive"
  /\ open[i] /\ queue[i] # <<>>
  /\ handled' = [handled EXCEPT ![i] = Head(queue[i])]
  /\ queue' = [queue EXCEPT ![i] = Tail(@)]
  /\ loop' = [loop EXCEPT ![i] = "handle"]
  /\ UNCHANGED <<controlVars, entryVars, run, handle, open, accepted, senderVars, corrupt>>

\* on_message returns, having sent what it had to send.
Handled(i) ==
  /\ loop[i] = "handle" /\ posting[i] = 0
  /\ loop' = [loop EXCEPT ![i] = "check"]
  /\ UNCHANGED <<controlVars, entryVars, run, handle, mailVars, handled, senderVars, corrupt>>

-----------------------------------------------------------------------------
\* What the control task does once it was asked to start or to stop.
ControlStep ==
  \/ StartDone \/ RolledBack \/ StopDone
  \/ \E i \in Actors :
       \/ StartRefusedEntry(i) \/ InitAccepts(i) \/ InitRefuses(i)
       \/ TaskCreated(i) \/ HandleStored(i) \/ TaskRefused(i)
       \/ AskToStop(i) \/ LetGo(i)

LoopStep(i) ==
  LoopAgain(i) \/ LoopEnds(i) \/ NothingReceived(i) \/ Received(i) \/ Handled(i)

SchedulerNext ==
  /\ ~corrupt
  /\ \/ Start \/ Stop
     \/ ControlStep
     \/ \E i \in Actors : Attach(i) \/ ControlSend(i) \/ LoopStep(i)
     \/ \E s \in Senders : PostItem(s) \/ \E t \in Actors : FindOpen(s, t)

SchedulerSpec == SchedulerInit /\ [][SchedulerNext]_schedulerVars

\* Tasks of equal priority share the processor, on_message returns, and a
\* send does not wait: every task that can run does.  Spawning, starting,
\* stopping and sending are up to the application.
FairSchedulerSpec ==
  /\ SchedulerSpec
  /\ WF_schedulerVars(~corrupt /\ ControlStep)
  /\ \A i \in Actors : /\ WF_schedulerVars(~corrupt /\ LoopStep(i))
                       /\ WF_schedulerVars(~corrupt /\ PostItem(i))

-----------------------------------------------------------------------------
SchedulerTypeOK ==
  /\ owned \subseteq Actors /\ begun \subseteq Actors /\ victims \subseteq Actors
  /\ started \in BOOLEAN /\ corrupt \in BOOLEAN
  /\ doing \in {"idle", "start", "create", "created", "rollback", "stop"}
  /\ life \in [Actors -> {"unborn", "spawned", "up", "down"}]
  /\ opened \in [Actors -> BOOLEAN] /\ ran \in [Actors -> BOOLEAN]
  /\ run \in [Actors -> BOOLEAN] /\ handle \in [Actors -> BOOLEAN]
  /\ open \in [Actors -> BOOLEAN]
  /\ loop \in [Actors -> {"off", "check", "receive", "handle"}]
  /\ queue \in [Actors -> Seq(Nat)]
  /\ \A i \in Actors : Len(queue[i]) <= Depth
  /\ accepted \in [Actors -> Nat] /\ handled \in [Actors -> Nat]
  /\ posting \in [Senders -> {0} \union Actors]
  /\ sends \in 0..MaxSends

(* What start() and stop() keep true at every step of themselves: which     *)
(* loops exist, for whom, and which mailboxes are open.  A handle stands    *)
(* for a loop except between the creation of a task and the store of its    *)
(* handle; a start leaves nothing running outside what it began; a rollback *)
(* or stop leaves nothing running outside what it has still to stop.        *)
LoopsInv ==
  /\ \A i \in Actors : loop[i] # "off" => i \in owned /\ life[i] = "up"
  /\ \A i \in Actors : handle[i] <=> loop[i] # "off" /\ ~(doing = "created" /\ Reached(i))
  /\ \A i \in Actors : ran[i] => i \in owned
  /\ doing = "created" => \A i \in Actors : Reached(i) => loop[i] # "off" /\ run[i]

StartInv ==
  /\ doing \in {"start", "create", "created"} =>
       /\ ~started /\ begun \subseteq owned
       /\ \A i \in begun : handle[i] /\ run[i] /\ opened[i]
       /\ \A i \in Actors \ begun :
            ~ran[i] /\ (loop[i] = "off" \/ (doing = "created" /\ Reached(i)))
  /\ doing \in {"create", "created"} =>
       \A i \in Actors : Reached(i) => opened[i] /\ life[i] = "up"

StopInv ==
  /\ doing \in {"rollback", "stop"} =>
       /\ victims \subseteq owned
       /\ \A i \in Actors \ victims : loop[i] = "off" /\ ~ran[i]
  /\ doing = "rollback" => ~started /\ \E i \in owned : ~opened[i]

IdleInv ==
  doing = "idle" =>
    IF started THEN \A i \in owned : handle[i] /\ run[i] /\ open[i]
    ELSE \A i \in Actors : loop[i] = "off" /\ ~ran[i]

MailboxInv ==
  /\ doing # "stop" /\ (\A i \in owned : opened[i]) => \A i \in owned : open[i]
  /\ doing = "stop" => \A i \in owned \ victims : ~open[i]
  /\ \A i \in Actors \ owned : ~open[i]
  /\ \A i \in owned : life[i] # "unborn"
  /\ \A i \in Actors : life[i] # "unborn" /\ ~opened[i] => ~open[i]
  /\ \A i \in Actors :
       life[i] = "up" => ran[i] \/ ~opened[i] \/ (doing \in {"create", "created"} /\ Reached(i))

LifecycleInv == LoopsInv /\ StartInv /\ StopInv /\ IdleInv /\ MailboxInv

(* "All or nothing: a refused start must not leave half a system running"   *)
(* (scheduler.hpp:101): between calls, either every actor runs with its     *)
(* mailbox open, or no loop runs at all.                                    *)
AllOrNothing ==
  doing = "idle" =>
    IF started THEN \A i \in owned : Running(i) /\ run[i] /\ open[i]
    ELSE \A i \in Actors : ~Running(i) /\ loop[i] = "off"

(* An actor is given a message, and sends one from on_message, only between *)
(* an init() that accepted and its shutdown() (actor.hpp:114-120), and only *)
(* while the scheduler owns it: stop waits for the loop before it lets go.  *)
HandlesOnlyWhileUp ==
  \A i \in Actors : loop[i] # "off" => life[i] = "up" /\ i \in owned

(* Once stop() has returned every mailbox is closed, and every actor whose  *)
(* loop ran has been shut down; one that accepted its init and was then     *)
(* refused a task is the only kind that is not.                             *)
StoppedMeansReleased ==
  doing = "idle" /\ owned = {} =>
    \A i \in Actors :
      /\ ~open[i]
      /\ life[i] = "up" => ~opened[i]

(* Stopping goes in reverse: an actor is shut down only when every actor    *)
(* spawned after it has been (scheduler.hpp:106).                           *)
ReverseOrder ==
  [][\A i \in Actors : life[i] = "up" /\ life'[i] = "down" =>
       \A j \in owned : j > i => ~ran[j]]_schedulerVars

(* A message a mailbox accepted, before the start or after it, is handled   *)
(* while the system runs (scheduler.cpp:94-97), unless its mailbox is       *)
(* closed first.                                                            *)
AcceptedIsHandled ==
  \A i \in Actors, n \in 1..MaxSends :
    started /\ accepted[i] = n ~> handled[i] >= n \/ ~open[i] \/ corrupt

(* start() and stop() return: every loop notices should_run() within one    *)
(* bounded receive (scheduler.cpp:157-159).                                 *)
ControlReturns == doing # "idle" ~> doing = "idle" \/ corrupt

-----------------------------------------------------------------------------
(* "close() is what the scheduler does to it, and a closed mailbox refuses  *)
(* every send" (mailbox.hpp:24-25): no send reaches a deleted queue.        *)
ClosedRefusesEverySend == ~corrupt
=============================================================================
