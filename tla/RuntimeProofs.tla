---------------------------- MODULE RuntimeProofs ----------------------------
(***************************************************************************)
(* What is started, and what arrives.  First what the scheduler of the     *)
(* actor framework guarantees for any number of actors, any mailbox depth  *)
(* and any number of messages.  Then what the build runs promise of the    *)
(* graph and of the threads waiting for a log's lines, for every set of    *)
(* findings and threads and any number of runs.  Then the startup's order  *)
(* and its answer, for every chain of finite groups, every choice of       *)
(* children and any number of shutdown requests, and what the chain stores *)
(* over any number of launches.  Last the synchronisation it begins with:  *)
(* for any tree of files, any host and any number of requests, the counts  *)
(* of nodes stay counts, a sync that skips skips a graph that lists every  *)
(* file, and a graph whose hash is the disk's lists no other file.         *)
(***************************************************************************)
EXTENDS ActorScheduler, BuildRuns, StartupPhases, ProjectSync, TLAPS, SequenceTheorems,
        FiniteSetTheorems, WellFoundedInduction

Inv == SchedulerTypeOK /\ LifecycleInv

(* The scheduler reaches and dooms one entry at a time.                     *)
LEMMA OneAtATime ==
  ASSUME NEW i, NEW j, owned \subseteq Actors, victims \subseteq Actors
  PROVE  /\ Reached(i) /\ Reached(j) => i = j
         /\ LetGoNext(i) /\ LetGoNext(j) => i = j
  <1>1. \A a, b \in Actors : a <= b /\ b <= a => a = b
    BY SchedulerAssumption DEF Actors
  <1> QED BY <1>1 DEF Reached, LetGoNext

LEMMA EnqueueTypes ==
  ASSUME SchedulerTypeOK, NEW i \in Actors, Enqueue(i)
  PROVE  /\ queue' \in [Actors -> Seq(Nat)]
         /\ \A j \in Actors : Len(queue'[j]) <= Depth
         /\ accepted' \in [Actors -> Nat]
         /\ open' = open
  <1> USE SchedulerAssumption
  <1>1. queue \in [Actors -> Seq(Nat)] /\ accepted \in [Actors -> Nat]
        /\ \A j \in Actors : Len(queue[j]) <= Depth
    BY DEF SchedulerTypeOK
  <1>2. CASE Len(queue[i]) < Depth
    <2>1. accepted[i] + 1 \in Nat /\ queue[i] \in Seq(Nat)
      BY <1>1
    <2>2. Append(queue[i], accepted[i] + 1) \in Seq(Nat)
          /\ Len(Append(queue[i], accepted[i] + 1)) = Len(queue[i]) + 1
      BY <2>1
    <2>3. Len(queue[i]) \in Nat
      BY <2>1
    <2>4. /\ accepted' = [accepted EXCEPT ![i] = accepted[i] + 1]
          /\ queue' = [queue EXCEPT ![i] = Append(queue[i], accepted[i] + 1)]
          /\ open' = open
      BY <1>2 DEF Enqueue
    <2>5. Len(queue'[i]) <= Depth
      BY <1>1, <1>2, <2>2, <2>3, <2>4
    <2>6. \A j \in Actors \ {i} : queue'[j] = queue[j]
      BY <1>1, <2>4
    <2> QED BY <1>1, <2>1, <2>2, <2>4, <2>5, <2>6
  <1>3. CASE ~(Len(queue[i]) < Depth)
    BY <1>1, <1>3 DEF Enqueue, mailVars
  <1> QED BY <1>2, <1>3

LEMMA SchedulerStarts == SchedulerInit => Inv
  <1> SUFFICES ASSUME SchedulerInit PROVE Inv
    OBVIOUS
  <1> USE SchedulerAssumption DEF SchedulerInit, Each
  <1>1. SchedulerTypeOK
    <2>1. queue \in [Actors -> Seq(Nat)] /\ \A i \in Actors : Len(queue[i]) <= Depth
      OBVIOUS
    <2>2. /\ life \in [Actors -> {"unborn", "spawned", "up", "down"}]
          /\ loop \in [Actors -> {"off", "check", "receive", "handle"}]
          /\ accepted \in [Actors -> Nat] /\ handled \in [Actors -> Nat]
          /\ posting \in [Senders -> {0} \union Actors] /\ sends \in 0..MaxSends
      OBVIOUS
    <2>3. /\ opened \in [Actors -> BOOLEAN] /\ ran \in [Actors -> BOOLEAN]
          /\ run \in [Actors -> BOOLEAN] /\ handle \in [Actors -> BOOLEAN]
          /\ open \in [Actors -> BOOLEAN]
      OBVIOUS
    <2>4. /\ owned \subseteq Actors /\ begun \subseteq Actors /\ victims \subseteq Actors
          /\ started \in BOOLEAN /\ corrupt \in BOOLEAN
          /\ doing \in {"idle", "start", "create", "created", "rollback", "stop"}
      OBVIOUS
    <2> HIDE DEF SchedulerInit
    <2> QED BY <2>1, <2>2, <2>3, <2>4 DEF SchedulerTypeOK
  <1>2. LifecycleInv
    BY DEF LifecycleInv, LoopsInv, StartInv, StopInv, IdleInv, MailboxInv
  <1> QED BY <1>1, <1>2 DEF Inv

-----------------------------------------------------------------------------
(* Every step keeps the types, whatever the control task and the loops do. *)
LEMMA StepKeepsTypes ==
  ASSUME SchedulerTypeOK, SchedulerNext
  PROVE  SchedulerTypeOK'
  <1> USE SchedulerAssumption
      DEF SchedulerTypeOK, schedulerVars, controlVars, entryVars, taskVars, mailVars, senderVars
  <1>1. ASSUME NEW i \in Actors, Close(i)
        PROVE  /\ open' \in [Actors -> BOOLEAN] /\ queue' \in [Actors -> Seq(Nat)]
               /\ \A j \in Actors : Len(queue'[j]) <= Depth
               /\ accepted' \in [Actors -> Nat]
    BY <1>1 DEF Close
  <1>2. CASE Start \/ Stop \/ StartDone \/ RolledBack \/ StopDone
    BY <1>2 DEF Start, Stop, StartDone, RolledBack, StopDone
  <1>3. ASSUME NEW i \in Actors PROVE Attach(i) => SchedulerTypeOK'
    BY DEF Attach
  <1>4. ASSUME NEW i \in Actors PROVE StartRefusedEntry(i) \/ InitAccepts(i) => SchedulerTypeOK'
    BY DEF StartRefusedEntry, InitAccepts, RollBack
  <1>10. ASSUME NEW i \in Actors PROVE TaskCreated(i) \/ HandleStored(i) => SchedulerTypeOK'
    <2>1. TaskCreated(i) => SchedulerTypeOK'
      BY DEF TaskCreated
    <2>2. HandleStored(i) => SchedulerTypeOK'
      BY DEF HandleStored
    <2> QED BY <2>1, <2>2
  <1>11. ASSUME NEW i \in Actors PROVE AskToStop(i) => SchedulerTypeOK'
    BY DEF AskToStop
  <1>12. ASSUME NEW i \in Actors PROVE InitRefuses(i) \/ TaskRefused(i) => SchedulerTypeOK'
    BY <1>1 DEF InitRefuses, TaskRefused, RollBack
  <1>13. ASSUME NEW i \in Actors PROVE LetGo(i) => SchedulerTypeOK'
    BY <1>1 DEF LetGo
  <1>5. CASE \E i \in Actors : LoopAgain(i) \/ LoopEnds(i) \/ NothingReceived(i) \/ Handled(i)
    <2>1. ASSUME NEW i \in Actors, LoopAgain(i) \/ NothingReceived(i)
          PROVE  SchedulerTypeOK'
      <3>1. LoopAgain(i) => SchedulerTypeOK'
        BY DEF LoopAgain
      <3>2. NothingReceived(i) => SchedulerTypeOK'
        BY DEF NothingReceived
      <3> QED BY <2>1, <3>1, <3>2
    <2>2. ASSUME NEW i \in Actors, LoopEnds(i)
          PROVE  SchedulerTypeOK'
      BY <2>2 DEF LoopEnds
    <2>3. ASSUME NEW i \in Actors, Handled(i)
          PROVE  SchedulerTypeOK'
      BY <2>3 DEF Handled
    <2> QED BY <1>5, <2>1, <2>2, <2>3
  <1>6. ASSUME NEW i \in Actors, Received(i)
        PROVE  SchedulerTypeOK'
    <2>1. queue[i] \in Seq(Nat) /\ queue[i] # <<>>
      BY <1>6 DEF Received
    <2>2. /\ Head(queue[i]) \in Nat /\ Tail(queue[i]) \in Seq(Nat)
          /\ Len(Tail(queue[i])) = Len(queue[i]) - 1 /\ Len(queue[i]) \in Nat
      BY <2>1
    <2>3. queue' \in [Actors -> Seq(Nat)] /\ \A j \in Actors : Len(queue'[j]) <= Depth
      BY <1>6, <2>2 DEF Received
    <2> QED BY <1>6, <2>2, <2>3 DEF Received
  <1>7. ASSUME NEW i \in Actors, ControlSend(i)
        PROVE  SchedulerTypeOK'
    BY <1>7, EnqueueTypes DEF ControlSend
  <1>8. ASSUME NEW s \in Senders, NEW i \in Actors, FindOpen(s, i)
        PROVE  SchedulerTypeOK'
    BY <1>8 DEF FindOpen
  <1>9. ASSUME NEW s \in Senders, PostItem(s)
        PROVE  SchedulerTypeOK'
    <2>1. posting[s] \in Actors
      BY <1>9 DEF PostItem
    <2> QED BY <1>9, <2>1, EnqueueTypes DEF PostItem
  <1> QED BY <1>2, <1>3, <1>4, <1>5, <1>6, <1>7, <1>8, <1>9, <1>10, <1>11, <1>12, <1>13 DEF SchedulerNext, ControlStep, LoopStep

-----------------------------------------------------------------------------
(* The part of the type invariant that the lifecycle turns on.              *)
Typed ==
  /\ owned \subseteq Actors /\ begun \subseteq Actors /\ victims \subseteq Actors
  /\ started \in BOOLEAN
  /\ doing \in {"idle", "start", "create", "created", "rollback", "stop"}
  /\ life \in [Actors -> {"unborn", "spawned", "up", "down"}]
  /\ opened \in [Actors -> BOOLEAN] /\ ran \in [Actors -> BOOLEAN]
  /\ run \in [Actors -> BOOLEAN] /\ handle \in [Actors -> BOOLEAN]
  /\ open \in [Actors -> BOOLEAN]
  /\ loop \in [Actors -> {"off", "check", "receive", "handle"}]

LEMMA TypesGiveTyped == SchedulerTypeOK => Typed
  BY DEF SchedulerTypeOK, Typed

(* A send, and what a loop does between its tests of should_run(), concern  *)
(* no entry's life and no mailbox's being open.                             *)
LEMMA SendsKeepLifecycle ==
  ASSUME SchedulerTypeOK, LifecycleInv,
         \/ \E i \in Actors : ControlSend(i)
         \/ \E s \in Senders : PostItem(s) \/ \E i \in Actors : FindOpen(s, i)
  PROVE  LifecycleInv'
  <1>1. UNCHANGED <<controlVars, entryVars, taskVars, open>>
    <2>1. ASSUME NEW i \in Actors, ControlSend(i)
          PROVE  UNCHANGED <<controlVars, entryVars, taskVars, open>>
      BY <2>1, EnqueueTypes DEF ControlSend, mailVars
    <2>2. ASSUME NEW s \in Senders, PostItem(s)
          PROVE  UNCHANGED <<controlVars, entryVars, taskVars, open>>
      <3>1. posting[s] \in Actors
        BY <2>2 DEF PostItem, SchedulerTypeOK
      <3> QED BY <2>2, <3>1, EnqueueTypes DEF PostItem, mailVars
    <2>3. ASSUME NEW s \in Senders, NEW i \in Actors, FindOpen(s, i)
          PROVE  UNCHANGED <<controlVars, entryVars, taskVars, open>>
      BY <2>3 DEF FindOpen, mailVars
    <2> QED BY <2>1, <2>2, <2>3
  <1> QED BY <1>1 DEF LifecycleInv, LoopsInv, StartInv, StopInv, IdleInv, MailboxInv, Reached,
                      controlVars, entryVars, taskVars

LEMMA LoopsKeepLifecycle ==
  ASSUME SchedulerTypeOK, LifecycleInv, NEW i \in Actors, LoopStep(i)
  PROVE  LifecycleInv'
  <1> USE DEF LifecycleInv, LoopsInv, StartInv, StopInv, IdleInv, MailboxInv, Reached,
              controlVars, entryVars, mailVars, Typed
  <1>1. Typed
    BY TypesGiveTyped
  <1>2. CASE LoopAgain(i) \/ NothingReceived(i) \/ Received(i) \/ Handled(i)
    BY <1>1, <1>2 DEF LoopAgain, NothingReceived, Received, Handled
  <1>3. CASE LoopEnds(i)
    BY <1>1, <1>3 DEF LoopEnds
  <1> QED BY <1>2, <1>3 DEF LoopStep

LEMMA ControlKeepsLifecycle ==
  ASSUME SchedulerTypeOK, LifecycleInv,
         Start \/ Stop \/ ControlStep \/ \E i \in Actors : Attach(i)
  PROVE  LifecycleInv'
  <1> USE DEF LifecycleInv, LoopsInv, StartInv, StopInv, IdleInv, MailboxInv,
              controlVars, entryVars, taskVars, mailVars, Typed, Running
  <1>1. Typed
    BY TypesGiveTyped
  <1>2. CASE Start
    BY <1>1, <1>2 DEF Start
  <1>3. CASE Stop
    BY <1>1, <1>3 DEF Stop
  <1>4. CASE StartDone
    BY <1>1, <1>4 DEF StartDone
  <1>5. CASE RolledBack
    BY <1>1, <1>5 DEF RolledBack
  <1>6. CASE StopDone
    BY <1>1, <1>6 DEF StopDone
  <1>7. ASSUME NEW i \in Actors, Attach(i)
        PROVE  LifecycleInv'
    <2>1. /\ doing = "idle" /\ doing' = "idle" /\ life[i] = "unborn" /\ ~started /\ started' = started
          /\ owned' = owned \union {i} /\ loop' = loop /\ ran' = ran /\ handle' = handle
          /\ life' = [life EXCEPT ![i] = "spawned"]
          /\ opened' = [opened EXCEPT ![i] = TRUE]
          /\ open' = [open EXCEPT ![i] = TRUE]
      BY <1>7 DEF Attach
    <2>2. LoopsInv' /\ StartInv' /\ StopInv' /\ IdleInv'
      BY <1>1, <2>1
    <2>3. MailboxInv'
      BY <1>1, <2>1
    <2> QED BY <2>2, <2>3
  <1>8. ASSUME NEW i \in Actors, StartRefusedEntry(i)
        PROVE  LifecycleInv'
    BY <1>1, <1>8 DEF StartRefusedEntry, RollBack, Reached
  <1>9. ASSUME NEW i \in Actors, InitAccepts(i)
        PROVE  LifecycleInv'
    <2>1. \A j \in Actors : Reached(j) <=> j = i
      BY <1>1, <1>9, OneAtATime DEF InitAccepts
    <2>2. \A j : Reached(j)' <=> Reached(j)
      BY <1>9 DEF InitAccepts, Reached
    <2>3. i \in owned \ begun
      BY <1>9 DEF InitAccepts, Reached
    <2> QED BY <1>1, <1>9, <2>1, <2>2, <2>3 DEF InitAccepts
  <1>10. ASSUME NEW i \in Actors, InitRefuses(i)
        PROVE  LifecycleInv'
    BY <1>1, <1>10 DEF InitRefuses, RollBack, Close, Reached
  <1>11. ASSUME NEW i \in Actors, TaskCreated(i)
        PROVE  LifecycleInv'
    <2>1. \A j \in Actors : Reached(j) <=> j = i
      BY <1>1, <1>11, OneAtATime DEF TaskCreated
    <2>2. /\ doing = "create" /\ doing' = "created" /\ started' = started /\ owned' = owned
          /\ begun' = begun /\ run' = [run EXCEPT ![i] = TRUE]
          /\ loop' = [loop EXCEPT ![i] = "check"] /\ victims' = victims
          /\ ran' = ran /\ handle' = handle /\ life' = life /\ opened' = opened /\ open' = open
      BY <1>11 DEF TaskCreated
    <2>3. /\ i \in owned \ begun
          /\ \A j : Reached(j)' <=> Reached(j)
      BY <1>11, <2>2 DEF TaskCreated, Reached
    <2>4. LoopsInv'
      BY <1>1, <2>1, <2>2, <2>3
    <2>5. StartInv' /\ StopInv' /\ IdleInv'
      BY <1>1, <2>1, <2>2, <2>3
    <2>6. MailboxInv'
      BY <1>1, <2>1, <2>2, <2>3
    <2> QED BY <2>4, <2>5, <2>6
  <1>12. ASSUME NEW i \in Actors, HandleStored(i)
        PROVE  LifecycleInv'
    <2>1. \A j \in Actors : Reached(j) <=> j = i
      BY <1>1, <1>12, OneAtATime DEF HandleStored
    <2>2. /\ doing = "created" /\ doing' = "start" /\ started' = started /\ owned' = owned
          /\ begun' = begun \union {i} /\ loop' = loop /\ run' = run
          /\ ran' = [ran EXCEPT ![i] = TRUE] /\ handle' = [handle EXCEPT ![i] = TRUE]
          /\ life' = life /\ opened' = opened /\ open' = open
      BY <1>12 DEF HandleStored
    <2>3. i \in owned \ begun
      BY <1>12 DEF HandleStored, Reached
    <2>4. LoopsInv'
      BY <1>1, <2>1, <2>2, <2>3
    <2>5. StartInv' /\ StopInv' /\ IdleInv'
      BY <1>1, <2>1, <2>2, <2>3
    <2>6. MailboxInv'
      BY <1>1, <2>1, <2>2, <2>3
    <2> QED BY <2>4, <2>5, <2>6
  <1>13. ASSUME NEW i \in Actors, TaskRefused(i)
        PROVE  LifecycleInv'
    <2>1. \A j \in Actors : Reached(j) <=> j = i
      BY <1>1, <1>13, OneAtATime DEF TaskRefused
    <2>2. /\ doing = "create" /\ doing' = "rollback" /\ victims' = begun
          /\ started' = started /\ owned' = owned /\ loop' = loop /\ run' = run
          /\ ran' = ran /\ handle' = handle /\ life' = life
          /\ opened' = [opened EXCEPT ![i] = FALSE] /\ open' = [open EXCEPT ![i] = FALSE]
      BY <1>13 DEF TaskRefused, RollBack, Close
    <2>3. i \in owned \ begun
      BY <1>13 DEF TaskRefused, Reached
    <2>4. LoopsInv' /\ StartInv' /\ IdleInv'
      BY <1>1, <2>1, <2>2, <2>3
    <2>5. StopInv'
      BY <1>1, <2>1, <2>2, <2>3
    <2>6. MailboxInv'
      BY <1>1, <2>1, <2>2, <2>3
    <2> QED BY <2>4, <2>5, <2>6
  <1>14. ASSUME NEW i \in Actors, AskToStop(i)
        PROVE  LifecycleInv'
    <2>1. \A j : Reached(j)' <=> Reached(j)
      BY <1>14 DEF AskToStop, Reached
    <2> QED BY <1>1, <1>14, <2>1 DEF AskToStop
  <1>15. ASSUME NEW i \in Actors, LetGo(i)
        PROVE  LifecycleInv'
    <2>1. \A j : Reached(j)' <=> Reached(j)
      BY <1>15 DEF LetGo, Reached
    <2>2. i \in victims /\ ~handle[i] /\ loop[i] = "off" /\ doing \in {"rollback", "stop"}
      BY <1>1, <1>15 DEF LetGo, LetGoNext
    <2>3. /\ owned' = owned /\ started' = started /\ doing' = doing /\ begun' = begun
          /\ victims' = victims \ {i} /\ opened' = opened
          /\ run' = run /\ handle' = handle /\ loop' = loop
          /\ ran' = [ran EXCEPT ![i] = FALSE] /\ open' = [open EXCEPT ![i] = FALSE]
          /\ life' = [life EXCEPT ![i] = IF ran[i] THEN "down" ELSE @]
      BY <1>15 DEF LetGo, Close
    <2>4. LoopsInv' /\ StartInv' /\ IdleInv'
      BY <1>1, <2>1, <2>2, <2>3
    <2>5. StopInv'
      BY <1>1, <2>1, <2>2, <2>3
    <2>6. MailboxInv'
      BY <1>1, <2>1, <2>2, <2>3
    <2> QED BY <2>4, <2>5, <2>6
  <1> QED BY <1>2, <1>3, <1>4, <1>5, <1>6, <1>7, <1>8, <1>9, <1>10, <1>11, <1>12, <1>13,
             <1>14, <1>15 DEF ControlStep

LEMMA SchedulerStepKeeps == Inv /\ [SchedulerNext]_schedulerVars => Inv'
  <1> SUFFICES ASSUME Inv, [SchedulerNext]_schedulerVars PROVE Inv'
    OBVIOUS
  <1>1. CASE SchedulerNext
    BY <1>1, StepKeepsTypes, SendsKeepLifecycle, LoopsKeepLifecycle, ControlKeepsLifecycle
       DEF Inv, SchedulerNext
  <1>2. CASE UNCHANGED schedulerVars
    BY <1>2 DEF Inv, SchedulerTypeOK, LifecycleInv, LoopsInv, StartInv, StopInv, IdleInv,
                MailboxInv, Reached, schedulerVars, controlVars, entryVars, taskVars, mailVars, senderVars
  <1> QED BY <1>1, <1>2

THEOREM SchedulerHolds == SchedulerSpec => []Inv
  BY SchedulerStarts, SchedulerStepKeeps, PTL DEF SchedulerSpec

(* The scheduler's state keeps its types, and no mailbox holds more than    *)
(* its depth, however many tasks send.                                      *)
THEOREM SchedulerTypesHold == SchedulerSpec => []SchedulerTypeOK
  BY SchedulerHolds, PTL DEF Inv

(* A refused start leaves no loop running and a successful one leaves every *)
(* loop running with its mailbox open, for any number of actors.            *)
THEOREM StartIsAllOrNothing == SchedulerSpec => []AllOrNothing
  <1>1. Inv => AllOrNothing
    BY DEF Inv, SchedulerTypeOK, LifecycleInv, LoopsInv, IdleInv, AllOrNothing, Running
  <1> QED BY <1>1, SchedulerHolds, PTL

(* No message reaches an actor outside its life: before init() accepted,    *)
(* after shutdown(), or after the scheduler let go of it.                   *)
THEOREM NoMessageOutsideLife == SchedulerSpec => []HandlesOnlyWhileUp
  <1>1. Inv => HandlesOnlyWhileUp
    BY DEF Inv, LifecycleInv, LoopsInv, HandlesOnlyWhileUp
  <1> QED BY <1>1, SchedulerHolds, PTL

(* After stop() every mailbox is closed and every actor that ran was shut   *)
(* down.                                                                    *)
THEOREM StopReleases == SchedulerSpec => []StoppedMeansReleased
  <1>1. Inv => StoppedMeansReleased
    BY DEF Inv, SchedulerTypeOK, LifecycleInv, LoopsInv, MailboxInv, StoppedMeansReleased
  <1> QED BY <1>1, SchedulerHolds, PTL

(* An actor is shut down only after every actor spawned later.              *)
THEOREM StopsInReverse == SchedulerSpec => ReverseOrder
  <1>1. ASSUME Inv, [SchedulerNext]_schedulerVars
        PROVE  [\A i \in Actors : life[i] = "up" /\ life'[i] = "down" =>
                  \A j \in owned : j > i => ~ran[j]]_schedulerVars
    <2> SUFFICES ASSUME SchedulerNext, NEW i \in Actors, life[i] = "up", life'[i] = "down",
                        NEW j \in owned, j > i
                 PROVE  ~ran[j]
      BY <1>1
    <2>1. Typed /\ StopInv /\ i \in Int /\ \A k \in Actors : k \in Int
      BY <1>1, TypesGiveTyped, SchedulerAssumption DEF Inv, LifecycleInv, Actors
    <2>2. PICK k \in Actors : LetGo(k)
      <3>1. ASSUME \A k \in Actors : ~LetGo(k)
            PROVE  life'[i] # "down"
        <4> USE DEF entryVars, Typed
        <4>1. CASE Start \/ Stop \/ StartDone \/ RolledBack \/ StopDone
          BY <4>1, <2>1 DEF Start, Stop, StartDone, RolledBack, StopDone
        <4>2. CASE \E k \in Actors : \/ Attach(k) \/ StartRefusedEntry(k) \/ InitAccepts(k)
                                     \/ InitRefuses(k) \/ TaskCreated(k) \/ HandleStored(k)
                                     \/ TaskRefused(k) \/ AskToStop(k)
          BY <4>2, <2>1 DEF Attach, StartRefusedEntry, InitAccepts, InitRefuses, TaskCreated,
                            HandleStored, TaskRefused, AskToStop
        <4>3. CASE \E k \in Actors : ControlSend(k) \/ LoopStep(k)
          BY <4>3, <2>1 DEF ControlSend, LoopStep, LoopAgain, LoopEnds, NothingReceived,
                            Received, Handled
        <4>4. CASE \E s \in Senders : PostItem(s) \/ \E k \in Actors : FindOpen(s, k)
          BY <4>4, <2>1 DEF PostItem, FindOpen
        <4> QED BY <3>1, <4>1, <4>2, <4>3, <4>4 DEF SchedulerNext, ControlStep
      <3> QED BY <3>1
    <2>3. k = i
      BY <2>1, <2>2 DEF LetGo, Typed
    <2>4. i \in victims /\ (\A v \in victims : v <= i) /\ doing \in {"rollback", "stop"}
      BY <2>2, <2>3 DEF LetGo, LetGoNext
    <2>5. j \in Actors \ victims
      BY <2>1, <2>4 DEF Typed
    <2> QED BY <2>1, <2>4, <2>5 DEF StopInv
  <1> QED BY <1>1, SchedulerHolds, PTL DEF SchedulerSpec, ReverseOrder

-----------------------------------------------------------------------------
(* The build runs.                                                          *)

Tools == {"none", "build_build", "build_lint", "build_fix", "build_verify"}
Calls == [tool : Tools,
          kind : RunKinds \union {"none"}, streams : BOOLEAN, clang : BOOLEAN,
          reported : SUBSET Findings, reply : {"none", "ok", "failed", "error"},
          found : SUBSET Findings]

TypesOK ==
  /\ manager \in {"idle", "waiting", "ingesting", "storing", "built"}
  /\ call \in Calls
  /\ runs \in Nat
  /\ lines \in [Runs -> Seq(Findings \union {Other})]
  /\ taken \in [Runs -> Nat]
  /\ latest \in [RunKinds -> SUBSET Findings]
  /\ diags \subseteq Nodes

\* While an invocation is on, its lines say what its compiler found.
Says ==
  manager = "waiting" =>
    /\ runs \in Runs /\ call.kind \in RunKinds
    /\ \A i \in 1..Len(lines[runs]) : lines[runs][i] \in call.reported \union {Other}

\* What is about to be stored was found by this invocation.
Sound == manager = "ingesting" => call.kind \in RunKinds /\ call.found \subseteq call.reported

Unbegun == \A r \in Runs : r > runs => lines[r] = <<>>
Behind == \A r \in Runs : taken[r] <= Len(lines[r])

RunsInv == TypesOK /\ Says /\ Sound /\ Unbegun /\ Behind

-----------------------------------------------------------------------------
\* An invocation begins with no line sent.
LEMMA InvokeKeeps ==
  ASSUME RunsInv, NEW t \in Tools, NEW k \in RunKinds, Invoke(t, k)
  PROVE  RunsInv'
<1>1. PICK streams \in BOOLEAN, clang \in BOOLEAN, reported \in SUBSET Findings :
        call' = [NoCall EXCEPT !.tool = t, !.kind = k, !.streams = streams,
                               !.clang = clang, !.reported = reported]
  BY DEF Invoke
<1>2. /\ call' \in Calls /\ call'.kind = k
  BY <1>1 DEF Calls, Tools, NoCall
<1>3. runs' = runs + 1 /\ runs < MaxRuns /\ manager' = "waiting" /\ lines' = lines /\ taken' = taken
      /\ latest' = latest /\ diags' = diags
  BY DEF Invoke, forwarding, storedVars
<1>4. runs' \in Runs /\ lines[runs'] = <<>>
  BY <1>3, RunsAssumption DEF RunsInv, TypesOK, Unbegun, Runs
<1>5. TypesOK'
  BY <1>2, <1>3 DEF RunsInv, TypesOK
<1>6. Says'
  BY <1>2, <1>3, <1>4 DEF Says
<1>7. Sound' /\ Unbegun' /\ Behind'
  BY <1>3 DEF RunsInv, TypesOK, Sound, Unbegun, Behind, Runs
<1> QED BY <1>5, <1>6, <1>7 DEF RunsInv

\* A line of a finding, or of nothing, is one the invocation may say.
LEMMA EmitKeeps ==
  ASSUME RunsInv, Working, NEW line \in call.reported \union {Other}, Emit(line),
         call'.reported = call.reported, call'.kind = call.kind, call' \in Calls,
         UNCHANGED <<manager, runs, forwarding, storedVars>>
  PROVE  RunsInv'
<1>1. /\ runs \in Runs /\ call.kind \in RunKinds /\ manager = "waiting"
      /\ lines[runs] \in Seq(Findings \union {Other})
      /\ line \in Findings \union {Other}
  BY DEF RunsInv, Says, Working, TypesOK, Calls
<1>2. lines' = [lines EXCEPT ![runs] = Append(lines[runs], line)]
  BY DEF Emit
<1>3. lines' \in [Runs -> Seq(Findings \union {Other})]
  BY <1>1, <1>2 DEF RunsInv, TypesOK
<1>4. /\ Len(lines'[runs]) = Len(lines[runs]) + 1
      /\ \A i \in 1..Len(lines[runs]) : lines'[runs][i] = lines[runs][i]
      /\ lines'[runs][Len(lines[runs]) + 1] = line
  BY <1>1, <1>2 DEF RunsInv, TypesOK
<1>5. \A r \in Runs : r # runs => lines'[r] = lines[r]
  BY <1>2 DEF RunsInv, TypesOK
<1>6. TypesOK'
  BY <1>3 DEF RunsInv, TypesOK, forwarding, storedVars
<1>7. Says'
  BY <1>1, <1>4 DEF RunsInv, Says
<1>8. Unbegun'
  BY <1>1, <1>5 DEF RunsInv, Unbegun, TypesOK
<1>9. Behind'
  <2> SUFFICES ASSUME NEW r \in Runs PROVE taken'[r] <= Len(lines'[r])
    BY DEF Behind
  <2>1. CASE r = runs
    <3>1. taken' = taken /\ taken[runs] \in Nat /\ taken[runs] <= Len(lines[runs])
      BY <1>1 DEF RunsInv, Behind, TypesOK, forwarding
    <3>2. Len(lines[runs]) \in Nat
      BY <1>1
    <3> QED BY <2>1, <3>1, <3>2, <1>4
  <2>2. CASE r # runs
    BY <2>2, <1>5 DEF RunsInv, Behind, forwarding
  <2> QED BY <2>1, <2>2
<1>10. Sound'
  BY <1>1 DEF Sound
<1> QED BY <1>6, <1>7, <1>8, <1>9, <1>10 DEF RunsInv

\* What was forwarded was found.
LEMMA StreamedWasFound ==
  ASSUME RunsInv, manager = "waiting"
  PROVE  Streamed \subseteq call.reported
<1>1. runs \in Runs /\ taken[runs] \in Nat /\ taken[runs] <= Len(lines[runs])
  BY DEF RunsInv, Says, Behind, TypesOK
<1>2. ASSUME NEW i \in 1..taken[runs] PROVE lines[runs][i] \in call.reported \union {Other}
  <2>1. lines[runs] \in Seq(Findings \union {Other})
    BY <1>1 DEF RunsInv, TypesOK
  <2>2. i \in 1..Len(lines[runs])
    BY <1>1, <2>1
  <2> QED BY <2>2 DEF RunsInv, Says
<1> QED BY <1>2, RunsAssumption DEF Streamed

LEMMA AnswerTypes == NoCall \in Calls
BY DEF NoCall, Calls, Tools

\* What a store leaves, torn or not, are nodes.
LEMMA StoresAreNodes ==
  ASSUME diags \subseteq Nodes, call.kind \in RunKinds, NEW findings \in SUBSET Findings
  PROVE  Merged(findings) \subseteq Nodes
<1>1. [finding : findings, kind : {call.kind}] \subseteq Nodes
  BY DEF Nodes
<1> QED BY <1>1 DEF Merged, Cleared

LEMMA TornAreNodes ==
  ASSUME RunsInv, manager = "ingesting", NEW left \in TornStores
  PROVE  left \subseteq Nodes
<1>1. /\ call.kind \in RunKinds /\ diags \subseteq Nodes /\ call.found \subseteq Findings
  BY DEF RunsInv, Sound, TypesOK, Calls
<1>2. \A findings \in SUBSET call.found : Merged(findings) \subseteq Nodes
  BY <1>1, StoresAreNodes
<1> QED BY <1>1, <1>2 DEF TornStores

\* The invariant below the properties.
LEMMA InvNext == RunsInv /\ [RunsNext]_runsVars => RunsInv'
<1> SUFFICES ASSUME RunsInv, [RunsNext]_runsVars PROVE RunsInv'
  OBVIOUS
<1>1. CASE Call
  BY <1>1, InvokeKeeps DEF Call, RunKinds, Tools
<1>2. CASE LintWhatBuilt
  <2>1. call.tool \in Tools
    BY DEF RunsInv, TypesOK, Calls
  <2> QED BY <1>2, <2>1, InvokeKeeps DEF LintWhatBuilt, RunKinds
<1>3. CASE ModuleReports
  <2>1. PICK f \in call.reported \ ToSet(lines[runs]) : Emit(f)
    BY <1>3 DEF ModuleReports
  <2>2. call' = call /\ UNCHANGED <<manager, runs, forwarding, storedVars>> /\ Working
    BY <1>3 DEF ModuleReports, asking
  <2>3. call' \in Calls
    BY <2>2 DEF RunsInv, TypesOK
  <2> QED BY <2>1, <2>2, <2>3, EmitKeeps
<1>4. CASE ModuleFinishes
  <2>1. Working /\ Emit(Other) /\ UNCHANGED <<manager, runs, forwarding, storedVars>>
    BY <1>4 DEF ModuleFinishes
  <2>2. Reply("failed") \/ Reply("ok")
    BY <1>4 DEF ModuleFinishes
  <2>3. call'.reported = call.reported /\ call'.kind = call.kind /\ call' \in Calls
    BY <2>2 DEF Reply, RunsInv, TypesOK, Calls
  <2> QED BY <2>1, <2>3, EmitKeeps
<1>5. CASE ModuleFails
  <2>1. call'.reported = call.reported /\ call'.kind = call.kind /\ call' \in Calls
    BY <1>5 DEF ModuleFails, Reply, RunsInv, TypesOK, Calls
  <2> QED
    BY <1>5, <2>1 DEF ModuleFails, Working, forwarding, storedVars, RunsInv, TypesOK, Says, Sound, Unbegun, Behind
<1>6. CASE TakeReply
  <2>1. CASE Answer
    BY <1>6, <2>1, AnswerTypes
       DEF TakeReply, Answer, forwarding, storedVars, RunsInv, TypesOK, Says, Sound, Unbegun, Behind
  <2>2. CASE manager' = "ingesting" /\ call' = [call EXCEPT !.found = Ingestible]
    <3>1. Ingestible \subseteq call.reported
      BY <1>6, StreamedWasFound DEF TakeReply, Ingestible
    <3>2. call.reported \subseteq Findings /\ call.kind \in RunKinds
      BY <1>6 DEF TakeReply, RunsInv, TypesOK, Says, Calls
    <3>3. call' \in Calls /\ call'.found \subseteq call'.reported /\ call'.kind \in RunKinds
      BY <2>2, <3>1, <3>2 DEF RunsInv, TypesOK, Calls
    <3> QED
      BY <1>6, <2>2, <3>3 DEF TakeReply, forwarding, storedVars, RunsInv, TypesOK, Says, Sound, Unbegun, Behind
  <2> QED BY <1>6, <2>1, <2>2 DEF TakeReply
<1>7. CASE Ingest
  <2>1. /\ call.kind \in RunKinds /\ call.found \subseteq Findings /\ call.reported \subseteq Findings
    BY <1>7 DEF Ingest, RunsInv, Sound, TypesOK, Calls
  <2>2. diags' \subseteq Nodes /\ latest' \in [RunKinds -> SUBSET Findings]
    BY <1>7, <2>1, StoresAreNodes DEF Ingest, RunsInv, TypesOK
  <2>3. call' \in Calls /\ manager' \in {"idle", "storing"}
    BY <1>7, AnswerTypes DEF Ingest, AfterIngest, Answer, RunsInv, TypesOK
  <2> QED
    BY <1>7, <2>2, <2>3 DEF Ingest, forwarding, RunsInv, TypesOK, Says, Sound, Unbegun, Behind
<1>8. CASE IngestFails
  <2>1. diags' \subseteq Nodes
    BY <1>8, TornAreNodes DEF IngestFails
  <2>2. call' \in Calls /\ manager' \in {"idle", "storing"}
    BY <1>8, AnswerTypes DEF IngestFails, AfterIngest, Answer, RunsInv, TypesOK
  <2> QED
    BY <1>8, <2>1, <2>2 DEF IngestFails, forwarding, RunsInv, TypesOK, Says, Sound, Unbegun, Behind
<1>9. CASE StoreStatus
  <2>1. call' \in Calls /\ manager' \in {"idle", "built"}
    BY <1>9, AnswerTypes DEF StoreStatus, Answer, NoCall, RunsInv, TypesOK, Calls, Tools
  <2> QED
    BY <1>9, <2>1 DEF StoreStatus, forwarding, storedVars, RunsInv, TypesOK, Says, Sound, Unbegun, Behind
<1>10. ASSUME NEW r \in Runs, Forward(r) PROVE RunsInv'
  <2>1. \A q \in Runs : taken'[q] <= Len(lines[q]) /\ taken' \in [Runs -> Nat]
    BY <1>10 DEF Forward, RunsInv, TypesOK, Behind
  <2> QED
    BY <1>10, <2>1 DEF Forward, asking, storedVars, RunsInv, TypesOK, Says, Sound, Unbegun, Behind
<1>11. ASSUME NEW r \in Runs, Record(r) PROVE RunsInv'
  BY <1>11 DEF Record, asking, storedVars, RunsInv, TypesOK, Says, Sound, Unbegun, Behind
<1>12. CASE LogRecord \/ LogDrain
  BY <1>12 DEF LogRecord, LogDrain, asking, forwarding, storedVars, RunsInv, TypesOK, Says, Sound, Unbegun, Behind
<1>13. ASSUME NEW t \in Threads, AskToDrain(t) \/ Poll(t) \/ Wait(t) \/ TimeOut(t) PROVE RunsInv'
  BY <1>13 DEF AskToDrain, Poll, Wait, TimeOut, asking, forwarding, storedVars,
               RunsInv, TypesOK, Says, Sound, Unbegun, Behind
<1>14. CASE RestartRuns
  <2>1. diags' \subseteq Nodes
    BY <1>14, TornAreNodes DEF RestartRuns, RunsInv, TypesOK
  <2>2. call' = NoCall /\ manager' = "idle" /\ runs' = runs /\ latest' = latest
    BY <1>14 DEF RestartRuns, Answer
  <2>3. lines' = [r \in Runs |-> <<>>] /\ taken' = [r \in Runs |-> 0]
    BY <1>14 DEF RestartRuns
  <2>4. lines' \in [Runs -> Seq(Findings \union {Other})] /\ taken' \in [Runs -> Nat]
    BY <2>3
  <2>5. Unbegun' /\ Behind'
    BY <2>3 DEF Unbegun, Behind
  <2> QED BY <2>1, <2>2, <2>4, <2>5, AnswerTypes DEF RunsInv, TypesOK, Says, Sound
<1>15. CASE UNCHANGED runsVars
  BY <1>15 DEF runsVars, asking, forwarding, storedVars, RunsInv, TypesOK, Says, Sound, Unbegun, Behind
<1> QED
  BY <1>1, <1>2, <1>3, <1>4, <1>5, <1>6, <1>7, <1>8, <1>9, <1>10, <1>11, <1>12, <1>13, <1>14, <1>15
     DEF RunsNext

LEMMA InvInit == RunsInit => RunsInv
<1> SUFFICES ASSUME RunsInit PROVE RunsInv
  OBVIOUS
<1>1. lines \in [Runs -> Seq(Findings \union {Other})] /\ taken \in [Runs -> Nat]
  BY DEF RunsInit
<1>2. TypesOK
  BY <1>1, AnswerTypes DEF RunsInit, TypesOK
<1> QED BY <1>2 DEF RunsInit, RunsInv, Says, Sound, Unbegun, Behind

LEMMA Invariant == RunsSpec => []RunsInv
BY InvInit, InvNext, PTL DEF RunsSpec

-----------------------------------------------------------------------------
\* A step that stores nothing keeps what is stored true.
LEMMA StoredKept ==
  ASSUME LatestRunOnly, UNCHANGED storedVars
  PROVE  LatestRunOnly'
BY DEF LatestRunOnly, storedVars

\* A store that stops midway speaks of its own kind only.
LEMMA TornOfOwnKind ==
  ASSUME LatestRunOnly, diags' \in TornStores, torn' = torn \union {call.kind},
         latest' = latest
  PROVE  LatestRunOnly'
<1> SUFFICES ASSUME NEW d \in diags', d.kind \notin torn' PROVE d.finding \in latest[d.kind]
  BY DEF LatestRunOnly
<1>1. d.kind # call.kind /\ d.kind \notin torn
  OBVIOUS
<1>2. d \in diags
  <2>1. ASSUME NEW findings, diags' = Merged(findings) PROVE d \in diags
    <3>1. d \notin [finding : findings, kind : {call.kind}]
      BY <1>1
    <3> QED BY <2>1, <3>1 DEF Merged, Cleared
  <2> QED BY <2>1 DEF TornStores
<1> QED BY <1>1, <1>2 DEF LatestRunOnly

\* A node of a kind is a finding of the last stored run of that kind: runs of
\* other kinds, empty runs, stores cut short and restarts leave none behind.
THEOREM RunSupersedes == RunsSpec => []LatestRunOnly
<1>1. RunsInit => LatestRunOnly
  BY DEF RunsInit, LatestRunOnly
<1>2. ASSUME RunsInv, LatestRunOnly, [RunsNext]_runsVars PROVE LatestRunOnly'
  <2>1. CASE Ingest
    <3> SUFFICES ASSUME NEW d \in diags', d.kind \notin torn' PROVE d.finding \in latest'[d.kind]
      BY DEF LatestRunOnly
    <3>1. /\ call.kind \in RunKinds /\ call.found \subseteq call.reported
          /\ latest \in [RunKinds -> SUBSET Findings]
      BY <1>2, <2>1 DEF Ingest, RunsInv, Sound, TypesOK
    <3>2. CASE d \in [finding : call.found, kind : {call.kind}]
      BY <2>1, <3>1, <3>2 DEF Ingest
    <3>3. CASE d \in Cleared
      <4>1. d \in diags /\ d.kind # call.kind /\ d.kind \notin torn
        BY <2>1, <3>3 DEF Cleared, Ingest
      <4>2. d.finding \in latest[d.kind]
        BY <1>2, <4>1 DEF LatestRunOnly
      <4>3. d.kind \in RunKinds
        BY <1>2, <4>1 DEF RunsInv, TypesOK, Nodes
      <4> QED BY <2>1, <3>1, <4>1, <4>2, <4>3 DEF Ingest
    <3> QED BY <2>1, <3>2, <3>3 DEF Ingest, Merged
  <2>2. CASE IngestFails
    BY <1>2, <2>2, TornOfOwnKind DEF IngestFails
  <2>3. CASE RestartRuns
    <3>1. CASE manager = "ingesting"
      BY <1>2, <2>3, <3>1, TornOfOwnKind DEF RestartRuns
    <3>2. CASE manager # "ingesting"
      BY <1>2, <2>3, <3>2, StoredKept DEF RestartRuns, storedVars
    <3> QED BY <3>1, <3>2
  <2>4. CASE \/ Call \/ LintWhatBuilt \/ ModuleReports \/ ModuleFinishes \/ ModuleFails
             \/ TakeReply \/ StoreStatus \/ LogRecord \/ LogDrain \/ UNCHANGED runsVars
    <3>1. UNCHANGED storedVars
      BY <2>4 DEF Call, LintWhatBuilt, Invoke, ModuleReports, ModuleFinishes, ModuleFails,
                  TakeReply, StoreStatus, LogRecord, LogDrain, runsVars
    <3> QED BY <1>2, <3>1, StoredKept
  <2>5. ASSUME NEW r \in Runs, Forward(r) \/ Record(r) PROVE LatestRunOnly'
    BY <1>2, <2>5, StoredKept DEF Forward, Record
  <2>6. ASSUME NEW t \in Threads, AskToDrain(t) \/ Poll(t) \/ Wait(t) \/ TimeOut(t)
        PROVE  LatestRunOnly'
    BY <1>2, <2>6, StoredKept DEF AskToDrain, Poll, Wait, TimeOut
  <2> QED BY <1>2, <2>1, <2>2, <2>3, <2>4, <2>5, <2>6 DEF RunsNext
<1> QED BY <1>1, <1>2, Invariant, PTL DEF RunsSpec

-----------------------------------------------------------------------------
\* Where the calls of the threads are.
ThreadsOK ==
  /\ thread \in [Threads -> {"away", "asked", "polling", "empty", "parked", "woken"}]
  /\ permit \in BOOLEAN

\* A notification puts nobody to sleep and is not lost: a thread that waited
\* is awake, or the permit is there.
LEMMA NotifyReaches ==
  ASSUME ThreadsOK, Notify
  PROVE  ThreadsOK' /\ (permit' \/ \E t \in Threads : thread'[t] = "woken")
BY DEF ThreadsOK, Notify

Asleep(t) == thread[t] \in {"parked", "empty"}
Coming(t) == thread[t] \in {"woken", "asked", "polling"}

\* No interleaving of the forwarders, the log and the threads, no timeout and
\* no restart leaves every thread asleep over lines of the log.
THEOREM NobodySleepsOverLines == RunsSpec => []NoLostWakeup
<1>1. RunsInit => ThreadsOK /\ NoLostWakeup
  BY DEF RunsInit, ThreadsOK, NoLostWakeup
<1>2. ASSUME ThreadsOK, NoLostWakeup, [RunsNext]_runsVars PROVE ThreadsOK' /\ NoLostWakeup'
  <2>1. CASE LogRecord
    BY <1>2, <2>1, NotifyReaches DEF LogRecord, NoLostWakeup
  <2>2. CASE LogDrain
    <3>1. pending' = <<>> /\ permit' = permit
      BY <2>2 DEF LogDrain, Drain
    <3>2. PICK t : \E where \in {"empty", "away"} : thread' = [thread EXCEPT ![t] = where]
      BY <2>2 DEF LogDrain
    <3>3. ThreadsOK'
      BY <1>2, <3>1, <3>2 DEF ThreadsOK
    <3> QED BY <3>1, <3>3 DEF NoLostWakeup
  <2>3. ASSUME NEW t \in Threads, AskToDrain(t) \/ Poll(t) PROVE ThreadsOK' /\ NoLostWakeup'
    <3>1. pending' = pending /\ permit' = permit
      BY <2>3 DEF AskToDrain, Poll
    <3>2. \E where \in {"asked", "polling"} : thread' = [thread EXCEPT ![t] = where]
      BY <2>3 DEF AskToDrain, Poll
    <3>3. ThreadsOK' /\ thread'[t] \in {"asked", "polling"}
      BY <1>2, <3>1, <3>2 DEF ThreadsOK
    <3> QED BY <3>3 DEF NoLostWakeup
  <2>4. ASSUME NEW t \in Threads, Wait(t) PROVE ThreadsOK' /\ NoLostWakeup'
    <3>1. pending' = pending /\ permit' = FALSE /\ thread[t] = "empty"
      BY <2>4 DEF Wait
    <3>2. CASE permit
      <4>1. thread' = [thread EXCEPT ![t] = "woken"]
        BY <2>4, <3>2 DEF Wait
      <4>2. ThreadsOK' /\ thread'[t] = "woken"
        BY <1>2, <3>1, <4>1 DEF ThreadsOK
      <4> QED BY <4>2 DEF NoLostWakeup
    <3>3. CASE ~permit
      <4>1. thread' = [thread EXCEPT ![t] = "parked"]
        BY <2>4, <3>3 DEF Wait
      <4>2. ThreadsOK' /\ \A u \in Threads : u # t => thread'[u] = thread[u]
        BY <1>2, <3>1, <4>1 DEF ThreadsOK
      <4>3. pending # <<>> => \E u \in Threads : Coming(u) /\ u # t
        BY <1>2, <3>1, <3>3 DEF NoLostWakeup, Coming
      <4> QED BY <3>1, <4>2, <4>3 DEF NoLostWakeup, Coming
    <3> QED BY <3>2, <3>3
  <2>5. ASSUME NEW t \in Threads, TimeOut(t) PROVE ThreadsOK' /\ NoLostWakeup'
    <3>1. pending' = pending
      BY <2>5 DEF TimeOut
    <3>2. CASE thread[t] = "parked" /\ thread' = [thread EXCEPT ![t] = "away"] /\ permit' = permit
      <4>1. ThreadsOK' /\ thread'[t] = "away" /\ \A u \in Threads : u # t => thread'[u] = thread[u]
        BY <1>2, <3>2 DEF ThreadsOK
      <4>2. Asleep(t) /\ ~Coming(t)
        BY <3>2 DEF Asleep, Coming
      <4> QED BY <1>2, <3>1, <3>2, <4>1, <4>2 DEF NoLostWakeup, Asleep, Coming
    <3>3. ASSUME NEW u \in Threads, thread[t] = "woken", thread[u] = "parked",
                 thread' = [thread EXCEPT ![t] = "away", ![u] = "woken"], permit' = permit
          PROVE  ThreadsOK' /\ NoLostWakeup'
      <4>1. ThreadsOK' /\ thread'[u] = "woken"
        BY <1>2, <3>3 DEF ThreadsOK
      <4> QED BY <4>1 DEF NoLostWakeup
    <3>4. CASE thread' = [thread EXCEPT ![t] = "away"] /\ permit' = TRUE
      BY <1>2, <3>4 DEF ThreadsOK, NoLostWakeup
    <3> QED BY <2>5, <3>2, <3>3, <3>4 DEF TimeOut
  <2>6. CASE RestartRuns
    BY <2>6 DEF RestartRuns, ThreadsOK, NoLostWakeup
  <2>7. CASE \/ Call \/ LintWhatBuilt \/ ModuleReports \/ ModuleFinishes \/ ModuleFails
             \/ TakeReply \/ Ingest \/ IngestFails \/ StoreStatus \/ UNCHANGED runsVars
    <3>1. UNCHANGED log
      BY <2>7 DEF Call, LintWhatBuilt, Invoke, ModuleReports, ModuleFinishes, ModuleFails,
                  TakeReply, Ingest, IngestFails, StoreStatus, runsVars
    <3> QED BY <1>2, <3>1 DEF log, ThreadsOK, NoLostWakeup
  <2>8. ASSUME NEW r \in Runs, Forward(r) \/ Record(r) PROVE ThreadsOK' /\ NoLostWakeup'
    <3>1. pending' = pending /\ permit' = permit /\ thread' = thread
      BY <2>8 DEF Forward, Record, log
    <3> QED BY <1>2, <3>1 DEF ThreadsOK, NoLostWakeup
  <2> QED BY <1>2, <2>1, <2>2, <2>3, <2>4, <2>5, <2>6, <2>7, <2>8 DEF RunsNext
<1> QED BY <1>1, <1>2, PTL DEF RunsSpec

-----------------------------------------------------------------------------
(* The order of the lines.                                                 *)

Line == Nat \X Nat
Message == ({"record"} \X Line) \union ({"drain"} \X Threads)
Carried(m) == IF m[1] = "record" THEN m[2] ELSE <<0, 0>>

\* What was drained, what waits, and what is on its way, with the runs whose
\* forwarder holds a line.
LinesOK ==
  /\ taken \in [Runs -> Nat] /\ held \subseteq Runs
  /\ \A r \in held : taken[r] > 0
  /\ delivered \in Seq(Line) /\ pending \in Seq(Line)
  /\ logMail \in Seq(Message)

\* A line of another run changes nothing.
LEMMA OthersAppended ==
  ASSUME NEW s \in Seq(Line), NEW e \in Line, NEW r \in Nat, NEW n \in Int, InOrder(s, r, n), e[1] # r
  PROVE  InOrder(Append(s, e), r, n)
<1> DEFINE t == Append(s, e)
<1>1. /\ t[Len(s) + 1] = e /\ \A i \in 1..Len(s) : t[i] = s[i]
      /\ DOMAIN t = 1..(Len(s) + 1) /\ DOMAIN s = 1..Len(s) /\ Len(s) \in Nat
  OBVIOUS
<1> HIDE DEF t
<1>2. \A i \in DOMAIN t : t[i][1] = r => i \in DOMAIN s /\ t[i] = s[i]
  BY <1>1
<1>3. ASSUME NEW k \in 1..n PROVE \E i \in DOMAIN t : t[i] = <<r, k>>
  <2>1. PICK i \in DOMAIN s : s[i] = <<r, k>>
    BY DEF InOrder
  <2> QED BY <1>1, <2>1
<1>4. \A i \in DOMAIN t : t[i][1] = r => t[i][2] \in 1..n
  BY <1>2 DEF InOrder
<1>5. \A i, j \in DOMAIN t : i < j /\ t[i][1] = r /\ t[j][1] = r => t[i][2] < t[j][2]
  BY <1>2 DEF InOrder
<1> QED BY <1>3, <1>4, <1>5 DEF InOrder, t

\* The next line of a run goes behind the others.
LEMMA NextAppended ==
  ASSUME NEW s \in Seq(Line), NEW r \in Nat, NEW n \in Nat, InOrder(s, r, n)
  PROVE  InOrder(Append(s, <<r, n + 1>>), r, n + 1)
<1> DEFINE t == Append(s, <<r, n + 1>>)
<1>1. t \in Seq(Line) /\ Len(t) = Len(s) + 1 /\ t[Len(s) + 1] = <<r, n + 1>>
  BY DEF Line
<1>2. \A i \in 1..Len(s) : t[i] = s[i]
  OBVIOUS
<1>3. DOMAIN t = 1..(Len(s) + 1) /\ DOMAIN s = 1..Len(s) /\ Len(s) \in Nat
  BY <1>1
<1> HIDE DEF t
<1>4. ASSUME NEW k \in 1..(n + 1) PROVE \E i \in DOMAIN t : t[i] = <<r, k>>
  <2>1. CASE k = n + 1
    BY <2>1, <1>1, <1>3
  <2>2. CASE k \in 1..n
    <3>1. PICK i \in DOMAIN s : s[i] = <<r, k>>
      BY <2>2 DEF InOrder
    <3> QED BY <3>1, <1>2, <1>3
  <2> QED BY <2>1, <2>2
<1>5. ASSUME NEW i \in DOMAIN t, t[i][1] = r PROVE t[i][2] \in 1..(n + 1)
  <2>1. CASE i = Len(s) + 1
    BY <2>1, <1>1
  <2>2. CASE i \in 1..Len(s)
    BY <2>2, <1>2, <1>3, <1>5 DEF InOrder
  <2> QED BY <2>1, <2>2, <1>3
<1>6. ASSUME NEW i \in DOMAIN t, NEW j \in DOMAIN t, i < j, t[i][1] = r, t[j][1] = r
      PROVE  t[i][2] < t[j][2]
  <2>1. i \in 1..Len(s)
    BY <1>3, <1>6
  <2>2. CASE j = Len(s) + 1
    <3>1. t[i] = s[i] /\ s[i][1] = r
      BY <1>2, <1>6, <2>1
    <3>2. s[i][2] \in 1..n
      BY <3>1, <2>1, <1>3 DEF InOrder
    <3> QED BY <3>1, <3>2, <2>2, <1>1
  <2>3. CASE j \in 1..Len(s)
    BY <2>1, <2>3, <1>2, <1>3, <1>6 DEF InOrder
  <2> QED BY <2>2, <2>3, <1>3
<1> QED BY <1>4, <1>5, <1>6 DEF InOrder, t

\* An event that is no line of the run can be left out.
LEMMA OneLeftOut ==
  ASSUME NEW s \in Seq(Line), NEW t \in Seq(Line), NEW r \in Nat, NEW n \in Int, InOrder(s, r, n),
         NEW m \in 1..Len(s), s[m][1] # r, Len(t) = Len(s) - 1,
         \A i \in 1..Len(t) : t[i] = IF i < m THEN s[i] ELSE s[i + 1]
  PROVE  InOrder(t, r, n)
<1> DEFINE at(i) == IF i < m THEN i ELSE i + 1
<1>1. \A i \in 1..Len(t) : at(i) \in 1..Len(s) /\ t[i] = s[at(i)]
  BY Len(s) \in Nat
<1>2. \A i, j \in 1..Len(t) : i < j => at(i) < at(j)
  OBVIOUS
<1>3. \A j \in 1..Len(s) : j # m => \E i \in 1..Len(t) : at(i) = j
  <2> TAKE j \in 1..Len(s)
  <2> HAVE j # m
  <2>1. CASE j < m
    BY <2>1
  <2>2. CASE j > m
    <3>1. j - 1 \in 1..Len(t) /\ at(j - 1) = j
      BY <2>2
    <3> QED BY <3>1
  <2> QED BY <2>1, <2>2
<1>4. DOMAIN s = 1..Len(s) /\ DOMAIN t = 1..Len(t)
  OBVIOUS
<1> HIDE DEF at
<1>5. ASSUME NEW k \in 1..n PROVE \E i \in DOMAIN t : t[i] = <<r, k>>
  <2>1. PICK j \in DOMAIN s : s[j] = <<r, k>>
    BY DEF InOrder
  <2>2. j # m
    BY <2>1
  <2>3. PICK i \in 1..Len(t) : at(i) = j
    BY <1>3, <1>4, <2>2
  <2> QED BY <1>1, <1>4, <2>1, <2>3
<1>6. \A i \in DOMAIN t : t[i][1] = r => t[i][2] \in 1..n
  BY <1>1, <1>4 DEF InOrder
<1>7. ASSUME NEW i \in DOMAIN t, NEW j \in DOMAIN t, i < j, t[i][1] = r, t[j][1] = r
      PROVE  t[i][2] < t[j][2]
  <2>1. /\ at(i) \in DOMAIN s /\ at(j) \in DOMAIN s /\ at(i) < at(j)
        /\ t[i] = s[at(i)] /\ t[j] = s[at(j)]
    BY <1>1, <1>2, <1>4, <1>7
  <2> QED BY <2>1, <1>7 DEF InOrder
<1> QED BY <1>5, <1>6, <1>7 DEF InOrder

\* What the mailbox brings, message by message.
LEMMA RecordedLines ==
  ASSUME NEW m \in Seq(Message)
  PROVE  /\ Recorded(m) \in Seq(Line) /\ Len(Recorded(m)) = Len(m)
         /\ \A i \in 1..Len(m) : Recorded(m)[i] = Carried(m[i])
<1>1. ASSUME NEW i \in 1..Len(m) PROVE Carried(m[i]) \in Line
  <2>1. m[i] \in Message
    OBVIOUS
  <2>2. <<0, 0>> \in Line
    BY DEF Line
  <2> QED BY <2>1, <2>2 DEF Carried, Message
<1>2. DOMAIN m = 1..Len(m) /\ Len(m) \in Nat
  OBVIOUS
<1>3. Recorded(m) = [i \in 1..Len(m) |-> Carried(m[i])]
  BY <1>2 DEF Recorded, Carried
<1> HIDE DEF Carried
<1> QED BY <1>1, <1>2, <1>3

\* A message that comes in brings its line behind the others.
LEMMA RecordedAppend ==
  ASSUME NEW box \in Seq(Message), NEW m \in Message
  PROVE  Recorded(Append(box, m)) = Append(Recorded(box), Carried(m))
<1>1. /\ Append(box, m) \in Seq(Message) /\ Len(Append(box, m)) = Len(box) + 1 /\ Len(box) \in Nat
      /\ (\A i \in 1..Len(box) : Append(box, m)[i] = box[i]) /\ Append(box, m)[Len(box) + 1] = m
  OBVIOUS
<1> DEFINE more == Append(box, m)
<1>2. /\ Recorded(more) \in Seq(Line) /\ Len(Recorded(more)) = Len(box) + 1
      /\ \A i \in 1..(Len(box) + 1) : Recorded(more)[i] = Carried(more[i])
  BY <1>1, RecordedLines
<1>3. /\ Recorded(box) \in Seq(Line) /\ Len(Recorded(box)) = Len(box)
      /\ \A i \in 1..Len(box) : Recorded(box)[i] = Carried(box[i])
  BY RecordedLines
<1> DEFINE left == Recorded(more)
           right == Append(Recorded(box), Carried(m))
<1>4. Carried(m) \in Line
  BY DEF Carried, Message, Line
<1>5. /\ right \in Seq(Line) /\ Len(right) = Len(box) + 1
      /\ (\A i \in 1..Len(box) : right[i] = Carried(box[i])) /\ right[Len(box) + 1] = Carried(m)
  BY <1>1, <1>3, <1>4
<1>6. /\ left \in Seq(Line) /\ Len(left) = Len(box) + 1
      /\ (\A i \in 1..Len(box) : left[i] = Carried(box[i])) /\ left[Len(box) + 1] = Carried(m)
  BY <1>1, <1>2
<1> HIDE DEF left, right
<1>7. \A i \in 1..Len(left) : left[i] = right[i]
  BY <1>1, <1>5, <1>6
<1>8. left = right
  BY <1>5, <1>6, <1>7, SeqEqual
<1> QED BY <1>8 DEF left, right, more

\* The message at the head has its line before the others.
LEMMA RecordedHead ==
  ASSUME NEW box \in Seq(Message), box # <<>>
  PROVE  /\ Head(box) \in Message /\ Tail(box) \in Seq(Message)
         /\ Recorded(box) = <<Carried(Head(box))>> \o Recorded(Tail(box))
<1>1. /\ Head(box) \in Message /\ Tail(box) \in Seq(Message) /\ Len(Tail(box)) = Len(box) - 1
      /\ (\A i \in 1..Len(Tail(box)) : Tail(box)[i] = box[i + 1])
      /\ Len(box) \in Nat \ {0} /\ Head(box) = box[1]
  BY HeadTailProperties, EmptySeq
<1> DEFINE m == Head(box)
           rest == Tail(box)
           left == Recorded(box)
           right == <<Carried(m)>> \o Recorded(rest)
<1>2. /\ left \in Seq(Line) /\ Len(left) = Len(box)
      /\ \A i \in 1..Len(box) : left[i] = Carried(box[i])
  BY RecordedLines
<1>3. /\ Recorded(rest) \in Seq(Line) /\ Len(Recorded(rest)) = Len(box) - 1
      /\ \A i \in 1..(Len(box) - 1) : Recorded(rest)[i] = Carried(box[i + 1])
  BY <1>1, RecordedLines
<1>4. Carried(m) \in Line /\ <<Carried(m)>> \in Seq(Line) /\ Len(<<Carried(m)>>) = 1
      /\ <<Carried(m)>>[1] = Carried(m)
  BY <1>1 DEF Carried, Message, Line
<1> DEFINE one == <<Carried(m)>>
           others == Recorded(rest)
<1>5. /\ one \o others \in Seq(Line) /\ Len(one \o others) = 1 + Len(others)
      /\ \A i \in 1..(1 + Len(others)) :
           (one \o others)[i] = IF i <= 1 THEN one[i] ELSE others[i - 1]
  BY <1>3, <1>4, ConcatProperties
<1>6. right = one \o others /\ Len(others) = Len(box) - 1 /\ Len(box) \in Nat
  <2>1. Len(others) = Len(box) - 1
    BY <1>3
  <2>2. Len(box) \in Nat
    BY <1>1
  <2> QED BY <2>1, <2>2
<1> HIDE DEF left, right, one, others
<1>7. ASSUME NEW i \in 1..Len(box) PROVE left[i] = right[i]
  <2>1. CASE i = 1
    BY <2>1, <1>1, <1>2, <1>3, <1>4, <1>5, <1>6 DEF one, others, m
  <2>2. CASE i > 1
    <3>1. i - 1 \in 1..(Len(box) - 1) /\ (i - 1) + 1 = i /\ ~(i <= 1)
      BY <2>2, <1>1
    <3>2. right[i] = others[i - 1]
      BY <3>1, <1>3, <1>5, <1>6 DEF others
    <3>3. others[i - 1] = Carried(box[i])
      BY <3>1, <1>3 DEF others
    <3> QED BY <3>2, <3>3, <1>2
  <2> QED BY <2>1, <2>2, <1>1
<1>8. right \in Seq(Line) /\ Len(right) = Len(left)
  BY <1>2, <1>5, <1>6
<1>9. left = right
  BY <1>2, <1>7, <1>8, SeqEqual
<1> QED BY <1>1, <1>9 DEF left, right, m, rest

\* What each step does to the lines: nothing, one more behind, one drain less.
LEMMA LinesTyped ==
  ASSUME LinesOK
  PROVE  /\ Lines \in Seq(Line) /\ delivered \o pending \in Seq(Line) /\ Recorded(logMail) \in Seq(Line)
BY RecordedLines, ConcatProperties DEF Lines, LinesOK

LEMMA MessageComes ==
  ASSUME LinesOK, NEW m \in Message, logMail' = Append(logMail, m), UNCHANGED <<delivered, pending>>
  PROVE  Lines' = Append(Lines, Carried(m)) /\ Carried(m) \in Line
<1>1. Carried(m) \in Line
  BY DEF Carried, Message, Line
<1>2. Lines' = (delivered \o pending) \o Recorded(Append(logMail, m))
  BY DEF Lines
<1>3. Recorded(Append(logMail, m)) = Append(Recorded(logMail), Carried(m))
  BY RecordedAppend DEF LinesOK
<1> DEFINE a == delivered \o pending
           b == Recorded(logMail)
           e == Carried(m)
<1>4. a \in Seq(Line) /\ b \in Seq(Line) /\ e \in Line /\ Lines = a \o b /\ Lines' = a \o Append(b, e)
  BY <1>1, <1>2, <1>3, LinesTyped DEF Lines
<1> HIDE DEF a, b, e
<1>5. Append(b, e) = b \o <<e>> /\ <<e>> \in Seq(Line) /\ a \o b \in Seq(Line)
  BY <1>4, AppendIsConcat, ConcatProperties
<1>6. a \o (b \o <<e>>) = (a \o b) \o <<e>>
  BY <1>4, <1>5, ConcatAssociative
<1>7. Append(a \o b, e) = (a \o b) \o <<e>>
  BY <1>4, <1>5, AppendIsConcat
<1>8. Lines' = Append(Lines, e)
  BY <1>4, <1>5, <1>6, <1>7
<1> QED BY <1>1, <1>8 DEF e

LEMMA MessageLogged ==
  ASSUME LinesOK, logMail # <<>>, logMail' = Tail(logMail), delivered' = delivered,
         pending' = Append(pending, Carried(Head(logMail)))
  PROVE  Lines' = Lines
<1> DEFINE a == delivered
           b == pending
           e == Carried(Head(logMail))
           c == Recorded(Tail(logMail))
<1>1. /\ Head(logMail) \in Message /\ Tail(logMail) \in Seq(Message)
      /\ Recorded(logMail) = <<e>> \o c
  BY RecordedHead DEF LinesOK
<1>2. e \in Line /\ c \in Seq(Line)
  BY <1>1, RecordedLines DEF Carried, Message, Line
<1>3. Lines = (a \o b) \o (<<e>> \o c) /\ Lines' = (a \o Append(b, e)) \o c
  BY <1>1 DEF Lines
<1>4. a \in Seq(Line) /\ b \in Seq(Line)
  BY DEF LinesOK
<1> HIDE DEF a, b, e, c
<1>5. <<e>> \in Seq(Line) /\ a \o b \in Seq(Line) /\ Append(b, e) = b \o <<e>>
  BY <1>2, <1>4, AppendIsConcat, ConcatProperties
<1>6. a \o (b \o <<e>>) = (a \o b) \o <<e>>
  BY <1>4, <1>5, ConcatAssociative
<1>7. ((a \o b) \o <<e>>) \o c = (a \o b) \o (<<e>> \o c)
  BY <1>2, <1>5, ConcatAssociative
<1> QED BY <1>3, <1>5, <1>6, <1>7

LEMMA LinesDrained ==
  ASSUME LinesOK, logMail # <<>>, Head(logMail)[1] # "record", logMail' = Tail(logMail),
         delivered' = delivered \o pending, pending' = <<>>,
         NEW r \in Nat \ {0}, NEW n \in Int, InOrder(Lines, r, n)
  PROVE  InOrder(Lines', r, n)
<1> DEFINE a == delivered \o pending
           c == Recorded(Tail(logMail))
           e == Carried(Head(logMail))
           s == a \o (<<e>> \o c)
           t == a \o c
<1>1. /\ Head(logMail) \in Message /\ Tail(logMail) \in Seq(Message)
      /\ Recorded(logMail) = <<e>> \o c
  BY RecordedHead DEF LinesOK
<1>2. e \in Line /\ e[1] # r /\ c \in Seq(Line) /\ a \in Seq(Line)
  BY <1>1, RecordedLines, LinesTyped DEF Carried, Message, Line
<1>3. Lines = s
  BY <1>1 DEF Lines
<1>4. Lines' = (a \o <<>>) \o c
  BY DEF Lines
<1>5. Lines' = t
  BY <1>2, <1>4, ConcatEmptySeq
<1> HIDE DEF a, c, e
<1> DEFINE one == <<e>>
           rest == one \o c
<1>6. one \in Seq(Line) /\ Len(one) = 1 /\ one[1] = e
  BY <1>2
<1> HIDE DEF one
<1>7. /\ rest \in Seq(Line) /\ Len(rest) = 1 + Len(c)
      /\ \A i \in 1..(1 + Len(c)) : rest[i] = IF i <= 1 THEN one[i] ELSE c[i - 1]
  <2>1. /\ rest \in Seq(Line) /\ Len(rest) = Len(one) + Len(c)
        /\ \A i \in 1..(Len(one) + Len(c)) : rest[i] = IF i <= Len(one) THEN one[i] ELSE c[i - Len(one)]
    BY <1>2, <1>6, ConcatProperties
  <2> QED BY <1>6, <2>1
<1> HIDE DEF rest
<1>8. /\ a \o rest \in Seq(Line) /\ Len(a \o rest) = Len(a) + Len(rest)
      /\ \A i \in 1..(Len(a) + Len(rest)) : (a \o rest)[i] = IF i <= Len(a) THEN a[i] ELSE rest[i - Len(a)]
  BY <1>2, <1>7, ConcatProperties
<1>9. /\ t \in Seq(Line) /\ Len(t) = Len(a) + Len(c)
      /\ \A i \in 1..(Len(a) + Len(c)) : t[i] = IF i <= Len(a) THEN a[i] ELSE c[i - Len(a)]
  BY <1>2, ConcatProperties
<1>10. s = a \o rest
  BY DEF rest, one
<1>11. Len(a) \in Nat /\ Len(c) \in Nat
  BY <1>2
<1> HIDE DEF s, t
<1>12. s[Len(a) + 1] = e
  <2>1. /\ Len(a) + 1 \in 1..(Len(a) + Len(rest)) /\ ~(Len(a) + 1 <= Len(a))
        /\ (Len(a) + 1) - Len(a) = 1 /\ 1 \in 1..(1 + Len(c))
    BY <1>7, <1>11
  <2>2. s[Len(a) + 1] = rest[1]
    BY <1>8, <1>10, <2>1
  <2>3. rest[1] = e
    BY <1>6, <1>7, <2>1
  <2> QED BY <2>2, <2>3
<1>13. ASSUME NEW i \in 1..Len(t) PROVE t[i] = IF i < Len(a) + 1 THEN s[i] ELSE s[i + 1]
  <2>1. CASE i <= Len(a)
    <3>1. /\ i \in 1..(Len(a) + Len(c)) /\ i \in 1..(Len(a) + Len(rest))
          /\ i < Len(a) + 1
      BY <2>1, <1>7, <1>9, <1>11
    <3>2. t[i] = a[i]
      BY <2>1, <3>1, <1>9
    <3>3. s[i] = a[i]
      BY <2>1, <3>1, <1>8, <1>10
    <3> QED BY <3>1, <3>2, <3>3
  <2>2. CASE i > Len(a)
    <3>0. i \in 1..(Len(a) + Len(c)) /\ Len(rest) = 1 + Len(c)
      BY <1>7, <1>9
    <3>1. /\ i + 1 \in 1..(Len(a) + Len(rest)) /\ ~(i + 1 <= Len(a))
          /\ (i + 1) - Len(a) \in 1..(1 + Len(c)) /\ ~((i + 1) - Len(a) <= 1)
          /\ ((i + 1) - Len(a)) - 1 = i - Len(a)
      BY <2>2, <3>0, <1>11
    <3>2. s[i + 1] = rest[(i + 1) - Len(a)]
      BY <3>1, <1>8, <1>10
    <3>3. rest[(i + 1) - Len(a)] = c[i - Len(a)]
      BY <3>1, <1>7
    <3>4. t[i] = c[i - Len(a)] /\ ~(i < Len(a) + 1)
      BY <2>2, <3>0, <1>9, <1>11
    <3> QED BY <3>2, <3>3, <3>4
  <2> QED BY <2>1, <2>2, <1>9, <1>11
<1>14. /\ s \in Seq(Line) /\ Len(a) + 1 \in 1..Len(s) /\ Len(t) = Len(s) - 1
  BY <1>7, <1>8, <1>9, <1>10, <1>11
<1>15. InOrder(s, r, n)
  BY <1>3
<1>16. InOrder(t, r, n)
  BY <1>2, <1>9, <1>12, <1>13, <1>14, <1>15, OneLeftOut
<1> QED BY <1>5, <1>16

\* The lines stay in order as long as the forwarders and the mailbox are as they were.
LEMMA StillInOrder ==
  ASSUME LinesOK, LinesOnceInOrder, UNCHANGED <<taken, held, delivered, pending, logMail>>
  PROVE  LinesOK' /\ LinesOnceInOrder'
BY DEF LinesOK, LinesOnceInOrder, Lines, Passed, Recorded

\* A forwarder takes a line, and passes it on when the mailbox has room.
LEMMA ForwardInOrder ==
  ASSUME LinesOK, LinesOnceInOrder, NEW q \in Runs, Forward(q)
  PROVE  LinesOK' /\ LinesOnceInOrder'
<1>1. /\ q \notin held /\ taken' = [taken EXCEPT ![q] = taken[q] + 1] /\ held' = held \union {q}
      /\ UNCHANGED <<delivered, pending, logMail>>
  BY DEF Forward, log
<1>2. LinesOK'
  BY <1>1 DEF LinesOK
<1>3. Lines' = Lines
  BY <1>1 DEF Lines, Recorded
<1>4. \A r \in Runs : Passed(r)' = Passed(r)
  <2> SUFFICES ASSUME NEW r \in Runs PROVE Passed(r)' = Passed(r)
    OBVIOUS
  <2>1. CASE r = q
    <3>1. taken'[q] = taken[q] + 1 /\ q \in held' /\ q \notin held /\ taken[q] \in Nat
      BY <1>1 DEF LinesOK
    <3> QED BY <2>1, <3>1 DEF Passed
  <2>2. CASE r # q
    <3>1. taken'[r] = taken[r] /\ (r \in held' <=> r \in held)
      BY <1>1, <2>2 DEF LinesOK
    <3> QED BY <3>1 DEF Passed
  <2> QED BY <2>1, <2>2
<1> QED BY <1>2, <1>3, <1>4 DEF LinesOnceInOrder

LEMMA RecordInOrder ==
  ASSUME LinesOK, LinesOnceInOrder, NEW q \in Runs, Record(q)
  PROVE  LinesOK' /\ LinesOnceInOrder'
<1> DEFINE m == <<"record", <<q, taken[q]>>>>
<1>1. /\ q \in held /\ logMail' = Append(logMail, m) /\ held' = held \ {q}
      /\ UNCHANGED <<taken, delivered, pending>>
  BY DEF Record
<1>2. q \in Nat /\ taken[q] \in Nat /\ taken[q] > 0
  BY <1>1, RunsAssumption DEF LinesOK, Runs
<1>3. m \in Message /\ Carried(m) = <<q, taken[q]>>
  BY <1>2 DEF Message, Line, Carried
<1>4. LinesOK'
  BY <1>1, <1>3 DEF LinesOK
<1>5. Lines' = Append(Lines, <<q, taken[q]>>) /\ Lines \in Seq(Line) /\ <<q, taken[q]>> \in Line
  BY <1>1, <1>3, MessageComes, LinesTyped
<1> SUFFICES ASSUME NEW r \in Runs PROVE InOrder(Lines, r, Passed(r))'
  BY <1>4 DEF LinesOnceInOrder
<1>6. InOrder(Lines, r, Passed(r)) /\ r \in Nat /\ taken[r] \in Nat
  BY RunsAssumption DEF LinesOnceInOrder, LinesOK, Runs
<1>7. CASE r = q
  <2>1. Passed(r) = taken[q] - 1 /\ Passed(r)' = taken[q]
    BY <1>1, <1>2, <1>7 DEF Passed
  <2>2. taken[q] - 1 \in Nat /\ (taken[q] - 1) + 1 = taken[q]
    BY <1>2
  <2>3. InOrder(Append(Lines, <<q, taken[q]>>), q, taken[q])
    BY <1>2, <1>5, <1>6, <1>7, <2>1, <2>2, NextAppended
  <2> QED BY <1>5, <1>7, <2>1, <2>3
<1>8. CASE r # q
  <2>1. Passed(r)' = Passed(r) /\ Passed(r) \in Int
    BY <1>1, <1>6, <1>8 DEF Passed
  <2>2. InOrder(Append(Lines, <<q, taken[q]>>), r, Passed(r))
    BY <1>5, <1>6, <1>8, <2>1, OthersAppended
  <2> QED BY <1>5, <2>1, <2>2
<1> QED BY <1>7, <1>8

LEMMA AskInOrder ==
  ASSUME LinesOK, LinesOnceInOrder, NEW t \in Threads, AskToDrain(t) \/ Poll(t)
  PROVE  LinesOK' /\ LinesOnceInOrder'
<1> DEFINE m == <<"drain", t>>
<1>1. logMail' = Append(logMail, m) /\ UNCHANGED <<taken, held, delivered, pending>>
  BY DEF AskToDrain, Poll, forwarding
<1>2. m \in Message /\ Carried(m) = <<0, 0>>
  BY DEF Message, Carried
<1>3. LinesOK'
  BY <1>1, <1>2 DEF LinesOK
<1>4. Lines' = Append(Lines, <<0, 0>>) /\ Lines \in Seq(Line) /\ <<0, 0>> \in Line
  BY <1>1, <1>2, MessageComes, LinesTyped
<1>5. ASSUME NEW r \in Runs PROVE InOrder(Lines, r, Passed(r))'
  <2>1. InOrder(Lines, r, Passed(r)) /\ r \in Nat \ {0} /\ taken[r] \in Nat
    BY RunsAssumption DEF LinesOnceInOrder, LinesOK, Runs
  <2>2. Passed(r)' = Passed(r) /\ Passed(r) \in Int
    BY <1>1, <2>1 DEF Passed
  <2>3. InOrder(Append(Lines, <<0, 0>>), r, Passed(r))
    BY <1>4, <2>1, <2>2, OthersAppended
  <2> QED BY <1>4, <2>2, <2>3
<1> QED BY <1>3, <1>5 DEF LinesOnceInOrder

LEMMA LogInOrder ==
  ASSUME LinesOK, LinesOnceInOrder, LogRecord \/ LogDrain
  PROVE  LinesOK' /\ LinesOnceInOrder'
<1>1. /\ logMail # <<>> /\ logMail' = Tail(logMail) /\ UNCHANGED <<taken, held>>
      /\ logMail \in Seq(Message)
  BY DEF LogRecord, LogDrain, forwarding, LinesOK
<1>2. Head(logMail) \in Message /\ logMail' \in Seq(Message)
  BY <1>1, RecordedHead
<1>3. CASE LogRecord
  <2>1. /\ Head(logMail)[1] = "record" /\ delivered' = delivered
        /\ pending' = Append(pending, Carried(Head(logMail)))
    BY <1>3 DEF LogRecord, Carried
  <2>2. Carried(Head(logMail)) \in Line
    BY <1>2, <2>1 DEF Carried, Message
  <2>3. LinesOK'
    BY <1>1, <1>2, <2>1, <2>2 DEF LinesOK
  <2>4. Lines' = Lines
    BY <1>1, <2>1, MessageLogged
  <2> QED BY <1>1, <2>3, <2>4 DEF LinesOnceInOrder, Passed
<1>4. CASE LogDrain
  <2>1. /\ Head(logMail)[1] # "record" /\ delivered' = delivered \o pending /\ pending' = <<>>
    BY <1>4 DEF LogDrain, Drain
  <2>2. LinesOK'
    BY <1>1, <1>2, <2>1 DEF LinesOK
  <2>3. ASSUME NEW r \in Runs PROVE InOrder(Lines, r, Passed(r))'
    <3>1. InOrder(Lines, r, Passed(r)) /\ r \in Nat \ {0} /\ taken[r] \in Nat
      BY RunsAssumption DEF LinesOnceInOrder, LinesOK, Runs
    <3>2. Passed(r)' = Passed(r) /\ Passed(r) \in Int
      BY <1>1, <3>1 DEF Passed
    <3>3. InOrder(Lines', r, Passed(r))
      BY <1>1, <2>1, <3>1, <3>2, LinesDrained
    <3> QED BY <3>2, <3>3
  <2> QED BY <2>2, <2>3 DEF LinesOnceInOrder
<1> QED BY <1>3, <1>4

\* No line is left of any run.
Blank ==
  taken = [r \in Runs |-> 0] /\ held = {} /\ logMail = <<>> /\ pending = <<>> /\ delivered = <<>>

LEMMA NothingInOrder == Blank => LinesOK /\ LinesOnceInOrder
<1> SUFFICES ASSUME Blank PROVE LinesOK /\ LinesOnceInOrder
  OBVIOUS
<1> USE DEF Blank
<1>1. LinesOK
  BY DEF LinesOK
<1>2. Lines = <<>>
  <2>1. <<>> \in Seq(Message) /\ Len(<<>>) = 0
    OBVIOUS
  <2>2. Recorded(<<>>) \in Seq(Line) /\ Len(Recorded(<<>>)) = 0
    BY <2>1, RecordedLines
  <2>3. Recorded(<<>>) = <<>>
    BY <2>2, EmptySeq
  <2>4. (<<>> \o <<>>) \o <<>> = <<>>
    BY ConcatEmptySeq, <<>> \in Seq(Line)
  <2> QED BY <2>3, <2>4 DEF Lines
<1>3. \A r \in Runs : Passed(r) = 0
  BY DEF Passed
<1> QED BY <1>1, <1>2, <1>3 DEF LinesOnceInOrder, InOrder

\* Every line that a forwarder passed on reaches a thread, or is on its way to
\* one, once and in the order of its run: whatever the capacity of the mailbox,
\* whichever threads drain, wait, poll and time out, and across restarts.
THEOREM LinesArriveOnce == RunsSpec => []LinesOnceInOrder
<1> DEFINE Good == LinesOK /\ LinesOnceInOrder
<1>1. RunsInit => Good
  BY NothingInOrder DEF RunsInit, Blank
<1>2. ASSUME Good, [RunsNext]_runsVars PROVE Good'
  <2>1. CASE \/ Call \/ LintWhatBuilt \/ ModuleReports \/ ModuleFinishes \/ ModuleFails
             \/ TakeReply \/ Ingest \/ IngestFails \/ StoreStatus \/ UNCHANGED runsVars
    <3>1. UNCHANGED <<taken, held, delivered, pending, logMail>>
      BY <2>1 DEF Call, LintWhatBuilt, Invoke, ModuleReports, ModuleFinishes, ModuleFails,
                  TakeReply, Ingest, IngestFails, StoreStatus, runsVars, forwarding, log
    <3> QED BY <1>2, <3>1, StillInOrder
  <2>2. ASSUME NEW r \in Runs, Forward(r) \/ Record(r) PROVE Good'
    BY <1>2, <2>2, ForwardInOrder, RecordInOrder
  <2>3. CASE LogRecord \/ LogDrain
    BY <1>2, <2>3, LogInOrder
  <2>4. ASSUME NEW t \in Threads, AskToDrain(t) \/ Poll(t) \/ Wait(t) \/ TimeOut(t) PROVE Good'
    <3>1. CASE AskToDrain(t) \/ Poll(t)
      BY <1>2, <3>1, AskInOrder
    <3>2. CASE Wait(t) \/ TimeOut(t)
      <4>1. UNCHANGED <<taken, held, delivered, pending, logMail>>
        BY <3>2 DEF Wait, TimeOut, forwarding
      <4> QED BY <1>2, <4>1, StillInOrder
    <3> QED BY <2>4, <3>1, <3>2
  <2>5. CASE RestartRuns
    <3>1. Blank'
      BY <2>5 DEF RestartRuns, Blank
    <3> QED BY <3>1, NothingInOrder, PTL
  <2> QED BY <1>2, <2>1, <2>2, <2>3, <2>4, <2>5 DEF RunsNext
<1>3. Good => LinesOnceInOrder
  OBVIOUS
<1> QED BY <1>1, <1>2, <1>3, PTL DEF RunsSpec

-----------------------------------------------------------------------------

\* Every event in the mailbox is of the phase at work, new to it, and the only one.
EventsAreNew(names) ==
  /\ \A i \in DOMAIN mailbox : mailbox[i] # Shutdown =>
       mailbox[i] \in Chain[phase] \ names /\ work[mailbox[i]] = "ended"
  /\ \A i, j \in DOMAIN mailbox : i # j /\ mailbox[i] = mailbox[j] => mailbox[i] = Shutdown

StartupInv ==
  /\ StartupTypeOK
  /\ \A k \in Phases : k < phase => \A n \in Chain[k] : work[n] = "ended"
  /\ \A k \in Phases : phase < k => \A n \in Chain[k] : work[n] = "waiting"
  /\ active => /\ phase \in Phases
               /\ starting \subseteq Chain[phase] /\ completed \subseteq Chain[phase]
               /\ EventsAreNew(completed)
               /\ reply = "owed" /\ state \in {"initializing", "shutting_down"}
  /\ ~active => starting = {}
  /\ \A n \in starting : work[n] = "waiting"
  /\ \A n \in completed : work[n] = "ended"
  /\ reply = "none" => phase = 0 /\ mailbox = <<>> /\ ~active /\ state = "initializing"
  /\ phase = 0 => reply = "none"
  /\ state = "ready" \/ reply = "ok" => \A n \in Names : work[n] = "ended"
  /\ reply = "ok" => state \in {"ready", "shutting_down"}
  /\ state = "failed" => reply = "failed"

-----------------------------------------------------------------------------
\* A name belongs to one phase.
LEMMA OnePhase ==
  /\ \A k \in Phases : Chain[k] \subseteq Names
  /\ \A k, l \in Phases : \A n \in Chain[k] : n \in Chain[l] => k = l
  /\ Phases = 1..Len(Chain) /\ Len(Chain) \in Nat \ {0}
BY StartupAssumption DEF Names, Phases

\* As many names as the group has are the group.
LEMMA AllOfTheGroup ==
  ASSUME NEW k \in Phases, NEW names \in SUBSET Chain[k],
         Cardinality(names) = Cardinality(Chain[k])
  PROVE  names = Chain[k]
BY StartupAssumption, FS_Subset

LEMMA InitEstablishes == Init => StartupInv
<1> SUFFICES ASSUME Init PROVE StartupInv OBVIOUS
<1>1. StartupTypeOK
  <2>1. 0 \in 0..Len(Chain) /\ 0 \in 0..MaxShutdowns BY OnePhase, StartupAssumption
  <2>2. work \in [Names -> {"waiting", "running", "ended"}] BY DEF Init
  <2>3. mailbox \in Seq(Names \union {Shutdown}) BY DEF Init
  <2> QED BY <2>1, <2>2, <2>3 DEF Init, StartupTypeOK
<1>2. \A n \in Names : work[n] = "waiting" BY DEF Init
<1>3. \A k \in Phases : ~(k < 0) BY OnePhase
<1> QED BY <1>1, <1>2, <1>3, OnePhase DEF Init, StartupInv

\* What starting and reporting have in common: the current phase with some of
\* its names completed waits, goes on to the next phase, or ends the chain.
LEMMA ProceedKeeps ==
  ASSUME StartupInv, active, NEW names \in SUBSET Chain[phase], Proceed(names),
         work' \in [Names -> {"waiting", "running", "ended"}],
         \A n \in Names : n \notin Chain[phase] => work'[n] = work[n],
         \A n \in names : work'[n] = "ended",
         mailbox' \in Seq(Names \union {Shutdown}), shutdowns' \in 0..MaxShutdowns,
         \A i \in DOMAIN mailbox' : mailbox'[i] # Shutdown =>
            mailbox'[i] \in Chain[phase] \ names /\ work'[mailbox'[i]] = "ended",
         \A i, j \in DOMAIN mailbox' : i # j /\ mailbox'[i] = mailbox'[j] => mailbox'[i] = Shutdown
  PROVE  StartupInv'
<1>1. phase \in Phases /\ names \subseteq Names BY OnePhase DEF StartupInv
<1>2. CASE Cardinality(names) # Cardinality(Chain[phase])
  <2>1. /\ completed' = names /\ starting' = {}
        /\ state' = state /\ active' = active /\ phase' = phase /\ reply' = reply
    BY <1>2 DEF Proceed
  <2>2. EventsAreNew(completed)' BY <2>1 DEF EventsAreNew
  <2> QED BY <1>1, <2>1, <2>2, OnePhase DEF StartupInv, StartupTypeOK
<1>3. CASE Cardinality(names) = Cardinality(Chain[phase])
  <2>1. names = Chain[phase] BY <1>1, <1>3, AllOfTheGroup
  <2>2. \A i \in DOMAIN mailbox' : mailbox'[i] = Shutdown BY <2>1
  <2>3. \A k \in Phases : k <= phase => \A n \in Chain[k] : work'[n] = "ended"
    BY <1>1, <2>1, OnePhase DEF StartupInv, StartupTypeOK
  <2>4. CASE phase < Len(Chain)
    <3>1. /\ phase' = phase + 1 /\ starting' = Chain[phase + 1] /\ completed' = {}
          /\ state' = state /\ active' = active /\ reply' = reply
      BY <1>3, <2>4 DEF Proceed
    <3>2. phase + 1 \in Phases BY <1>1, <2>4, OnePhase
    <3>3. EventsAreNew(completed)' BY <2>2 DEF EventsAreNew
    <3>4. \A k \in Phases : phase < k => \A n \in Chain[k] : work'[n] = "waiting"
      BY <1>1, OnePhase DEF StartupInv, StartupTypeOK
    <3>5. phase + 1 \in 0..Len(Chain) /\ Chain[phase + 1] \subseteq Names /\ phase + 1 # 0
      BY <1>1, <3>2, OnePhase
    <3>6. StartupTypeOK' BY <3>1, <3>5 DEF StartupInv, StartupTypeOK
    <3>7. \A k \in Phases : k < phase' => \A n \in Chain[k] : work'[n] = "ended"
      BY <1>1, <2>3, <3>1, OnePhase
    <3>8. \A k \in Phases : phase' < k => \A n \in Chain[k] : work'[n] = "waiting"
      BY <1>1, <3>1, <3>4, OnePhase
    <3>9. \A n \in Chain[phase + 1] : work'[n] = "waiting" BY <1>1, <3>2, <3>4, OnePhase
    <3>10. reply = "owed" /\ state \in {"initializing", "shutting_down"} BY DEF StartupInv
    <3> QED BY <3>1, <3>2, <3>3, <3>5, <3>6, <3>7, <3>8, <3>9, <3>10 DEF StartupInv
  <2>5. CASE ~(phase < Len(Chain))
    <3>1. Finish BY <1>3, <2>5 DEF Proceed
    <3>2. \A k \in Phases : ~(phase < k) /\ k <= phase BY <1>1, <2>5, OnePhase
    <3>3. \A n \in Names : work'[n] = "ended" BY <2>3, <3>2 DEF Names
    <3> QED BY <1>1, <2>3, <3>1, <3>2, <3>3, OnePhase DEF StartupInv, StartupTypeOK, Finish
  <2> QED BY <2>4, <2>5
<1> QED BY <1>2, <1>3

\* The same when the sub-phase just started need not be the last.
LEMMA StartedKeeps ==
  ASSUME StartupInv, NEW n \in starting, NEW names \in SUBSET Chain[phase], Started(n, names),
         \E w \in {"running", "ended"} : work' = [work EXCEPT ![n] = w],
         \A m \in names : work'[m] = "ended",
         n \notin completed, names \subseteq completed \union {n},
         UNCHANGED <<mailbox, shutdowns>>
  PROVE  StartupInv'
<1>1. active /\ phase \in Phases /\ n \in Chain[phase] /\ n \in Names /\ work[n] = "waiting"
  BY OnePhase DEF StartupInv
<1>2. /\ work' \in [Names -> {"waiting", "running", "ended"}]
      /\ \A m \in Names : m # n => work'[m] = work[m]
  BY <1>1 DEF StartupInv, StartupTypeOK
<1>3. \A i \in DOMAIN mailbox' : mailbox'[i] # Shutdown =>
        mailbox'[i] \in Chain[phase] \ names /\ work'[mailbox'[i]] = "ended"
  BY <1>1, <1>2, OnePhase DEF StartupInv, EventsAreNew
<1>4. \A i, j \in DOMAIN mailbox' : i # j /\ mailbox'[i] = mailbox'[j] => mailbox'[i] = Shutdown
  BY <1>1 DEF StartupInv, EventsAreNew
<1>5. CASE starting \ {n} = {}
  <2>1. Proceed(names) BY <1>5 DEF Started
  <2>2. /\ mailbox' \in Seq(Names \union {Shutdown}) /\ shutdowns' \in 0..MaxShutdowns
        /\ \A m \in Names : m \notin Chain[phase] => work'[m] = work[m]
    BY <1>1, <1>2 DEF StartupInv, StartupTypeOK
  <2> QED BY <1>1, <1>2, <1>3, <1>4, <2>1, <2>2, ProceedKeeps
<1>6. CASE starting \ {n} # {}
  <2>1. /\ starting' = starting \ {n} /\ completed' = names
        /\ state' = state /\ active' = active /\ phase' = phase /\ reply' = reply
    BY <1>6 DEF Started
  <2>2. EventsAreNew(completed)' BY <1>3, <1>4, <2>1 DEF EventsAreNew
  <2>3. \A k \in Phases : k # phase => \A m \in Chain[k] : work'[m] = work[m]
    BY <1>1, <1>2, OnePhase
  <2> QED BY <1>1, <1>2, <2>1, <2>2, <2>3, OnePhase DEF StartupInv, StartupTypeOK
<1> QED BY <1>5, <1>6

LEMMA StepKeepsInv == StartupInv /\ [Next]_vars => StartupInv'
<1> SUFFICES ASSUME StartupInv, [Next]_vars PROVE StartupInv' OBVIOUS
<1>1. CASE Initialize
  <2>1. 1 \in Phases BY OnePhase
  <2>2. phase = 0 /\ mailbox = <<>> /\ ~active /\ state = "initializing" BY <1>1 DEF StartupInv, Initialize
  <2>3. EventsAreNew(completed)' BY <1>1, <2>2 DEF EventsAreNew, Initialize
  <2> QED BY <1>1, <2>1, <2>2, <2>3, OnePhase DEF StartupInv, StartupTypeOK, Initialize
<1>2. ASSUME NEW n \in Names, StartSync(n) PROVE StartupInv'
  <2>1. n \in starting /\ active /\ work[n] = "waiting" BY <1>2 DEF StartSync, StartupInv
  <2>2. n \notin completed /\ completed \union {n} \in SUBSET Chain[phase] BY <2>1 DEF StartupInv
  <2>3. \A m \in completed \union {n} : work'[m] = "ended"
    BY <1>2, <2>1 DEF StartSync, StartupInv, StartupTypeOK
  <2> QED BY <1>2, <2>1, <2>2, <2>3, StartedKeeps DEF StartSync
<1>3. ASSUME NEW n \in Names, StartAsync(n) PROVE StartupInv'
  <2>1. n \in starting /\ active /\ work[n] = "waiting" BY <1>3 DEF StartAsync, StartupInv
  <2>2. n \notin completed /\ completed \in SUBSET Chain[phase] BY <2>1 DEF StartupInv
  <2>3. \A m \in completed : work'[m] = "ended"
    BY <1>3, <2>1, <2>2 DEF StartAsync, StartupInv, StartupTypeOK
  <2> QED BY <1>3, <2>1, <2>2, <2>3, StartedKeeps DEF StartAsync
<1>4. ASSUME NEW n \in Names, StartFails(n) PROVE StartupInv'
  <2>1. active BY <1>4 DEF StartFails, StartupInv
  <2> QED BY <1>4, <2>1, OnePhase DEF StartFails, Fail, StartupInv, StartupTypeOK
<1>5. ASSUME NEW n \in Names, Report(n) PROVE StartupInv'
  <2>1. PICK k \in Phases : n \in Chain[k] BY DEF Names
  <2>2. k = phase /\ work[n] = "running" BY <1>5, <2>1, OnePhase DEF Report, StartupInv, StartupTypeOK
  <2>3. /\ work' = [work EXCEPT ![n] = "ended"] /\ mailbox' = Append(mailbox, n)
        /\ UNCHANGED <<state, active, phase, starting, completed, reply, shutdowns>>
    BY <1>5 DEF Report
  <2>4. n \notin completed BY <2>2 DEF StartupInv
  <2>5. EventsAreNew(completed)' \/ ~active
    BY <2>1, <2>2, <2>3, <2>4, OnePhase DEF EventsAreNew, StartupInv, StartupTypeOK
  <2>6. n # Shutdown BY StartupAssumption
  <2>7. reply # "none" BY <2>1, <2>2, OnePhase DEF StartupInv
  <2>8. mailbox' \in Seq(Names \union {Shutdown}) BY <2>3 DEF StartupInv, StartupTypeOK
  <2>9. \A m \in Names : m # n => work'[m] = work[m] BY <2>3 DEF StartupInv, StartupTypeOK
  <2> QED BY <2>1, <2>2, <2>3, <2>4, <2>5, <2>7, <2>8, <2>9, OnePhase DEF StartupInv, StartupTypeOK
<1>6. CASE AskShutdown
  <2>1. EventsAreNew(completed)' \/ ~active
    BY <1>6 DEF AskShutdown, EventsAreNew, StartupInv, StartupTypeOK
  <2>2. shutdowns' \in 0..MaxShutdowns
    BY <1>6, StartupAssumption DEF AskShutdown, StartupInv, StartupTypeOK
  <2> QED BY <1>6, <2>1, <2>2 DEF AskShutdown, StartupInv, StartupTypeOK
<1>7. CASE HandleShutdown
  <2>0. /\ \A i \in DOMAIN mailbox' : i + 1 \in DOMAIN mailbox /\ mailbox'[i] = mailbox[i + 1]
        /\ UNCHANGED <<active, completed, phase, work>>
        /\ \A i, j \in DOMAIN mailbox' : i + 1 = j + 1 => i = j
    BY <1>7 DEF HandleShutdown, Receives, StartupInv, StartupTypeOK
  <2>1. EventsAreNew(completed)' \/ ~active
    <3>1. EventsAreNew(completed) \/ ~active
      BY DEF StartupInv
    <3> QED BY <2>0, <3>1 DEF EventsAreNew
  <2>2. reply # "none" BY <1>7 DEF HandleShutdown, Receives, StartupInv
  <2>3. mailbox' \in Seq(Names \union {Shutdown})
    BY <1>7 DEF HandleShutdown, Receives, StartupInv, StartupTypeOK
  <2> QED BY <1>7, <2>1, <2>2, <2>3 DEF HandleShutdown, Receives, StartupInv, StartupTypeOK
<1>8. CASE HandleEvent
  <2>1. /\ mailbox # <<>> /\ mailbox \in Seq(Names \union {Shutdown})
        /\ mailbox' = Tail(mailbox) /\ mailbox' \in Seq(Names \union {Shutdown})
        /\ Head(mailbox) = mailbox[1] /\ 1 \in DOMAIN mailbox
        /\ UNCHANGED <<work, shutdowns>> /\ mailbox[1] # Shutdown
    BY <1>8 DEF HandleEvent, Receives, StartupInv, StartupTypeOK
  <2>2. reply # "none" BY <2>1 DEF StartupInv
  <2>3. CASE active
    <3>1. mailbox[1] \in Chain[phase] /\ work[mailbox[1]] = "ended"
      BY <2>1, <2>3 DEF StartupInv, EventsAreNew
    <3>2. completed \union {mailbox[1]} \in SUBSET Chain[phase] BY <2>3, <3>1 DEF StartupInv
    <3>3. \A i \in DOMAIN mailbox' : /\ i + 1 \in DOMAIN mailbox /\ i + 1 # 1
                                     /\ mailbox'[i] = mailbox[i + 1]
      BY <2>1
    <3>4. \A i \in DOMAIN mailbox' : mailbox'[i] # Shutdown =>
            /\ mailbox'[i] \in Chain[phase] \ (completed \union {mailbox[1]})
            /\ work'[mailbox'[i]] = "ended"
      BY <2>1, <2>3, <3>3 DEF StartupInv, EventsAreNew
    <3>5. \A i, j \in DOMAIN mailbox' :
            i # j /\ mailbox'[i] = mailbox'[j] => mailbox'[i] = Shutdown
      BY <2>1, <2>3, <3>3 DEF StartupInv, EventsAreNew
    <3>6. Proceed(completed \union {mailbox[1]}) BY <1>8, <2>1, <2>3 DEF HandleEvent
    <3>7. /\ work' \in [Names -> {"waiting", "running", "ended"}] /\ shutdowns' \in 0..MaxShutdowns
          /\ \A n \in completed \union {mailbox[1]} : work'[n] = "ended"
      BY <2>1, <3>1 DEF StartupInv, StartupTypeOK
    <3> QED BY <2>1, <2>3, <3>2, <3>4, <3>5, <3>6, <3>7, ProceedKeeps
  <2>4. CASE ~active
    <3>1. UNCHANGED <<state, active, phase, starting, completed, reply, work, shutdowns>>
      BY <1>8, <2>4 DEF HandleEvent
    <3> QED BY <2>1, <2>2, <2>4, <3>1 DEF StartupInv, StartupTypeOK
  <2> QED BY <2>3, <2>4
<1>9. CASE UNCHANGED vars
  BY <1>9 DEF vars, StartupInv, StartupTypeOK, EventsAreNew
<1> QED BY <1>1, <1>2, <1>3, <1>4, <1>5, <1>6, <1>7, <1>8, <1>9 DEF Next, Handler, StartStep

\* The inductive invariant of every behaviour.
THEOREM SpecInv == Spec => []StartupInv
BY InitEstablishes, StepKeepsInv, PTL DEF Spec

-----------------------------------------------------------------------------
\* The types hold.
THEOREM TypesHold == Spec => []StartupTypeOK
<1>1. StartupInv => StartupTypeOK BY DEF StartupInv
<1> QED BY <1>1, SpecInv, PTL

\* What is ahead of the current phase waits, what is behind it has ended.
LEMMA InvImpliesOrder == StartupInv => PhasesInOrder
<1>0. StartupInv => (state = "ready" => \A n \in Names : work[n] = "ended")
  BY DEF StartupInv
<1> SUFFICES ASSUME StartupInv, NEW k \in Phases, NEW l \in Phases, k < l,
                    NEW n \in Chain[k], NEW m \in Chain[l], work[m] # "waiting"
             PROVE  work[n] = "ended"
  BY <1>0 DEF PhasesInOrder
<1>1. ~(phase < l) BY DEF StartupInv
<1>2. k < phase BY <1>1, OnePhase DEF StartupInv, StartupTypeOK
<1> QED BY <1>2 DEF StartupInv

\* No sub-phase begins before the phases in front of it have ended, whatever
\* the chain and however the children's reports interleave with its start.
\* It is ready only when nothing of its startup is left to run.
THEOREM ChainInOrder == Spec => []PhasesInOrder
BY InvImpliesOrder, SpecInv, PTL

\* The caller of Initialize is told what happened.
THEOREM AnswerIsTrue == Spec => []ReplyAgrees
<1>1. StartupInv => ReplyAgrees BY DEF StartupInv, ReplyAgrees
<1> QED BY <1>1, SpecInv, PTL

\* The end of the startup does not undo a shutdown.
THEOREM ShutdownStays == Spec => NotReadyAfterShutdown
<1>1. ASSUME [Next]_vars, state = "shutting_down" PROVE state' # "ready"
  <2>1. CASE Initialize BY <1>1, <2>1 DEF Initialize
  <2>2. ASSUME NEW n \in Names, StartSync(n) \/ StartFails(n) \/ StartAsync(n) PROVE state' # "ready"
    BY <1>1, <2>2 DEF StartSync, StartFails, StartAsync, Started, Proceed, Finish, Fail
  <2>3. CASE HandleShutdown BY <2>3 DEF HandleShutdown
  <2>4. CASE HandleEvent BY <1>1, <2>4 DEF HandleEvent, Proceed, Finish
  <2>5. CASE AskShutdown BY <1>1, <2>5 DEF AskShutdown
  <2>6. ASSUME NEW n \in Names, Report(n) PROVE state' # "ready" BY <1>1, <2>6 DEF Report
  <2>7. CASE UNCHANGED vars BY <1>1, <2>7 DEF vars
  <2> QED BY <1>1, <2>1, <2>2, <2>3, <2>4, <2>5, <2>6, <2>7 DEF Next, Handler, StartStep
<1> QED BY <1>1, PTL DEF Spec, NotReadyAfterShutdown

-----------------------------------------------------------------------------
(* The work of the sub-phases, and launches that follow one another.        *)

Graph == [project : BOOLEAN, servers : BOOLEAN, intents : BOOLEAN, links : Nat,
          steps : BOOLEAN, tools : BOOLEAN, bridged : BOOLEAN]

\* A step of a sub-phase is a step of the chain or leaves the chain alone,
\* unless the process is launched again.
LEMMA PhasesDriveChain ==
  StartupTypeOK /\ [PhasesNext]_allVars => [Next]_vars \/ Relaunch
<1> SUFFICES ASSUME StartupTypeOK, [PhasesNext]_allVars, ~Relaunch PROVE [Next]_vars OBVIOUS
<1>1. ASSUME NEW n, StartSync(n) \/ StartFails(n) \/ StartAsync(n) PROVE Next
  <2>1. n \in Names BY <1>1 DEF StartSync, StartFails, StartAsync, StartupTypeOK
  <2> QED BY <1>1, <2>1 DEF Next, Handler, StartStep
<1>2. CASE SubPhase
  BY <1>1, <1>2 DEF SubPhase, GraphInit, SerialFails, Spawn, RegisterTools, EmbedderInit,
     McpBootstrap, PlatformBootstrap, ProjectSyncInit, ProjectAnalyzerInit, ProjectQueryInit,
     ActorInit, McpConnect, IntentsBootstrapInit
<1>3. CASE HandleShutdown \/ HandleEvent BY <1>3 DEF Next, Handler
<1>4. CASE Initialize \/ AskShutdown BY <1>4 DEF Next
<1>5. CASE Connected BY <1>5 DEF Connected
<1>6. ASSUME NEW n \in Async, ChildStep(n) PROVE [Next]_vars
  <2>1. ASSUME Report(n) PROVE Next
    <3>1. n \in Names BY PhasesAssumption
    <3> QED BY <2>1, <3>1 DEF Next
  <2> QED BY <1>6, <2>1 DEF ChildStep, BodyOver, SyncProject, AnalyzeProject, LlmConfig,
       BootstrapIntents, BootstrapStrategy, DiscoverTools, BridgeServers, Snapshot
<1> QED BY <1>2, <1>3, <1>4, <1>5, <1>6 DEF PhasesNext, SystemStep, allVars

\* A child's body is where its work is.
StepInv ==
  /\ step \in [Async -> Nat]
  /\ \A n \in Async : /\ work[n] = "waiting" => step[n] = 0
                      /\ work[n] = "ended" => step[n] > Len(Body(n))

\* Nothing that is in the graph or comes back with a snapshot is there twice.
GraphInv ==
  /\ nodes \in Graph /\ saved \in Graph
  /\ uncleaned \in BOOLEAN
  /\ uncleaned \/ (nodes.links <= 1 /\ saved.links <= 1)

\* Once the last child is through, nothing is written any more.
SavedInv == step["intents_bootstrap"] > 5 /\ ~unsaved => saved = nodes

PhasesInv == StartupInv /\ StepInv /\ GraphInv /\ SavedInv

LEMMA Bodies ==
  /\ Body("project_sync") = <<"sync", "snapshot">>
  /\ Body("project_analysis") = <<"analyze">>
  /\ Body("llm_config") = <<"update">>
  /\ Body("intents_bootstrap") = <<"intents", "strategy", "discover", "bridge", "snapshot">>
BY DEF Body

\* Work that is not over stands before the intents.
LEMMA IntentsComeLast ==
  ASSUME StartupInv, NEW n \in {"mcp_bootstrap", "project_sync", "project_analysis"},
         work[n] # "ended"
  PROVE  "intents_bootstrap" \in Names /\ work["intents_bootstrap"] = "waiting"
<1>1. PICK k \in Phases :
        /\ "intents_bootstrap" \in Chain[k]
        /\ {"mcp_bootstrap", "project_sync", "project_analysis"} \subseteq UNION {Chain[l] : l \in 1..(k - 1)}
  BY PhasesAssumption
<1>2. PICK l \in 1..(k - 1) : n \in Chain[l] BY <1>1
<1>3. l \in Phases /\ l < k BY <1>1, <1>2, OnePhase
<1>4. ~(l < phase) BY <1>2, <1>3 DEF StartupInv
<1>5. phase < k BY <1>3, <1>4, OnePhase DEF StartupInv, StartupTypeOK
<1> QED BY <1>1, <1>5, OnePhase DEF StartupInv

LEMMA RelaunchKeepsStartup == StartupInv /\ Relaunch => StartupInv'
<1> SUFFICES ASSUME StartupInv, Relaunch PROVE StartupInv' OBVIOUS
<1>1. /\ state' = "initializing" /\ active' = FALSE /\ phase' = 0 /\ starting' = {} /\ completed' = {}
      /\ work' = [n \in Names |-> "waiting"] /\ mailbox' = <<>> /\ reply' = "none"
      /\ shutdowns' = shutdowns
  BY DEF Relaunch
<1>2. StartupTypeOK'
  <2>1. 0 \in 0..Len(Chain) BY OnePhase
  <2>2. mailbox' \in Seq(Names \union {Shutdown}) BY <1>1
  <2> QED BY <1>1, <2>1, <2>2 DEF StartupInv, StartupTypeOK
<1>3. \A n \in Names : work'[n] = "waiting" BY <1>1
<1>4. \A k \in Phases : ~(k < 0) BY OnePhase
<1> QED BY <1>1, <1>2, <1>3, <1>4, OnePhase DEF StartupInv

LEMMA PhasesInitEstablishes == PhasesInit => PhasesInv
<1> SUFFICES ASSUME PhasesInit PROVE PhasesInv OBVIOUS
<1>1. StartupInv BY InitEstablishes DEF PhasesInit
<1>2. StepInv BY PhasesAssumption DEF PhasesInit, Init, StepInv
<1>3. GraphInv
  <2>1. EmptyNodes \in Graph
    <3>1. 0 \in Nat /\ FALSE \in BOOLEAN OBVIOUS
    <3> QED BY <3>1, Zenon DEF EmptyNodes, Graph
  <2>2. EmptyNodes.links \in Nat /\ EmptyNodes.links <= 1
    <3>1. EmptyNodes.links = 0 BY DEF EmptyNodes
    <3> QED BY <3>1
  <2> QED BY <2>1, <2>2 DEF PhasesInit, GraphInv
<1>4. SavedInv BY DEF PhasesInit, SavedInv
<1> QED BY <1>1, <1>2, <1>3, <1>4 DEF PhasesInv

LEMMA StepKept == PhasesInv /\ [PhasesNext]_allVars => StepInv'
<1> SUFFICES ASSUME PhasesInv, [PhasesNext]_allVars PROVE StepInv' OBVIOUS
<1> USE DEF PhasesInv
<1>1. step \in [Async -> Nat] /\ StartupTypeOK /\ Async \subseteq Names
  BY PhasesAssumption DEF StepInv, StartupInv
<1>2. work \in [Names -> {"waiting", "running", "ended"}] BY <1>1 DEF StartupTypeOK
\* Steps that leave the children alone.
<1>3. ASSUME step' = step, \A n \in Async : work'[n] = work[n] PROVE StepInv'
  BY <1>3 DEF StepInv
<1>4. ASSUME NEW n, StartSync(n), step' = step PROVE StepInv'
  <2>1. n \notin Async /\ work' = [work EXCEPT ![n] = "ended"] BY <1>4 DEF StartSync
  <2> QED BY <1>1, <1>2, <1>3, <1>4, <2>1
<1>5. ASSUME NEW n, StartFails(n), step' = step PROVE StepInv'
  BY <1>3, <1>5 DEF StartFails
<1>6. CASE SubPhase
  <2>1. CASE Spawn
    <3>1. PICK n \in Async : StartAsync(n) /\ step' = [step EXCEPT ![n] = 1] BY <2>1 DEF Spawn
    <3>2. work' = [work EXCEPT ![n] = "running"] BY <3>1 DEF StartAsync
    <3> QED BY <1>1, <1>2, <3>1, <3>2 DEF StepInv
  <2>2. CASE ~Spawn
    BY <1>4, <1>5, <1>6, <2>2 DEF SubPhase, GraphInit, SerialFails, RegisterTools, EmbedderInit,
       McpBootstrap, PlatformBootstrap, ProjectSyncInit, ProjectAnalyzerInit, ProjectQueryInit,
       ActorInit, McpConnect, IntentsBootstrapInit, phaseVars
  <2> QED BY <2>1, <2>2
<1>7. CASE (HandleShutdown \/ HandleEvent) /\ UNCHANGED phaseVars
  BY <1>3, <1>7 DEF HandleShutdown, HandleEvent, phaseVars
<1>8. CASE (Initialize \/ AskShutdown) /\ UNCHANGED phaseVars
  BY <1>3, <1>8 DEF Initialize, AskShutdown, phaseVars
<1>9. CASE Connected BY <1>3, <1>9 DEF Connected, vars
<1>10. CASE Relaunch
  <2>1. work' = [n \in Names |-> "waiting"] /\ step' = [n \in Async |-> 0] BY <1>10 DEF Relaunch
  <2> QED BY <1>1, <2>1 DEF StepInv
<1>11. ASSUME NEW n \in Async, ChildStep(n) PROVE StepInv'
  <2>1. CASE BodyOver(n)
    <3>1. work' = [work EXCEPT ![n] = "ended"] /\ step' = step /\ step[n] > Len(Body(n))
      BY <2>1 DEF BodyOver, Report, phaseVars
    <3> QED BY <1>1, <1>2, <3>1 DEF StepInv
  <2>2. ASSUME NEW m \in Async, NEW place, At(m, place), Advance(m), work' = work PROVE StepInv'
    <3>1. step[m] \in DOMAIN Body(m) /\ step' = [step EXCEPT ![m] = step[m] + 1]
      BY <2>2 DEF At, Advance, To
    <3>2. DOMAIN Body(m) = 1..Len(Body(m)) /\ Len(Body(m)) \in Nat BY Bodies, PhasesAssumption
    <3>3. work[m] # "waiting" /\ work[m] # "ended" BY <1>1, <3>1, <3>2 DEF StepInv
    <3> QED BY <1>1, <2>2, <3>1, <3>3 DEF StepInv
  <2>3. CASE ~BodyOver(n)
    BY <1>11, <2>2, <2>3 DEF ChildStep, SyncProject, AnalyzeProject, LlmConfig, BootstrapIntents,
       BootstrapStrategy, DiscoverTools, BridgeServers, Snapshot, vars
  <2> QED BY <2>1, <2>3
<1>12. CASE UNCHANGED allVars BY <1>3, <1>12 DEF allVars, vars, phaseVars
<1> QED BY <1>6, <1>7, <1>8, <1>9, <1>10, <1>11, <1>12 DEF PhasesNext, SystemStep

LEMMA GraphKept == PhasesInv /\ [PhasesNext]_allVars => GraphInv'
<1> SUFFICES ASSUME PhasesInv, [PhasesNext]_allVars PROVE GraphInv' OBVIOUS
<1> USE DEF PhasesInv
\* A write that adds no link.
<1>1. ASSUME nodes' \in Graph, nodes'.links = nodes.links, UNCHANGED <<saved, uncleaned>> PROVE GraphInv'
  BY <1>1 DEF GraphInv
<1>2. ASSUME UNCHANGED <<nodes, saved, uncleaned>> PROVE GraphInv' BY <1>2 DEF GraphInv
<1>3. nodes \in Graph BY DEF GraphInv
<1>4. CASE McpBootstrap
  <2>1. PICK b \in BOOLEAN : nodes' = [nodes EXCEPT !.servers = b] BY <1>3, <1>4 DEF McpBootstrap, Graph
  <2>2. nodes' \in Graph /\ nodes'.links = nodes.links BY <1>3, <2>1 DEF Graph
  <2> QED BY <1>1, <1>4, <2>2 DEF McpBootstrap, History
<1>5. CASE SubPhase /\ ~McpBootstrap
  BY <1>2, <1>5 DEF SubPhase, GraphInit, SerialFails, Spawn, RegisterTools, EmbedderInit,
     PlatformBootstrap, ProjectSyncInit, ProjectAnalyzerInit, ProjectQueryInit,
     ActorInit, McpConnect, IntentsBootstrapInit, History, phaseVars
<1>6. CASE (Initialize \/ AskShutdown \/ HandleShutdown \/ HandleEvent) /\ UNCHANGED phaseVars
  BY <1>2, <1>6 DEF phaseVars
<1>7. CASE Connected BY <1>2, <1>7 DEF Connected, History
<1>8. CASE Relaunch BY <1>8 DEF Relaunch, GraphInv
<1>9. ASSUME NEW n \in Async, ChildStep(n) PROVE GraphInv'
  <2>1. CASE BodyOver(n) \/ LlmConfig BY <1>2, <2>1 DEF BodyOver, LlmConfig, phaseVars, History
  <2>2. CASE SyncProject \/ AnalyzeProject \/ BootstrapStrategy \/ DiscoverTools \/ BridgeServers
    <3>1. \A g \in Graph :
            /\ [g EXCEPT !.project = TRUE] \in Graph /\ [g EXCEPT !.project = TRUE].links = g.links
            /\ [g EXCEPT !.steps = TRUE] \in Graph /\ [g EXCEPT !.steps = TRUE].links = g.links
            /\ [g EXCEPT !.tools = TRUE] \in Graph /\ [g EXCEPT !.tools = TRUE].links = g.links
            /\ [g EXCEPT !.bridged = TRUE] \in Graph /\ [g EXCEPT !.bridged = TRUE].links = g.links
      BY DEF Graph
    <3>2. nodes' \in {nodes, [nodes EXCEPT !.project = TRUE], [nodes EXCEPT !.steps = TRUE],
                      [nodes EXCEPT !.tools = TRUE], [nodes EXCEPT !.bridged = TRUE]}
      BY <2>2 DEF SyncProject, AnalyzeProject, BootstrapStrategy, DiscoverTools, BridgeServers
    <3>3. UNCHANGED <<saved, uncleaned>>
      BY <2>2 DEF SyncProject, AnalyzeProject, BootstrapStrategy, DiscoverTools, BridgeServers, History
    <3> QED BY <1>1, <1>3, <3>1, <3>2, <3>3
  <2>3. CASE BootstrapIntents
    <3>1. CASE "intents" \notin files BY <1>2, <2>3, <3>1 DEF BootstrapIntents
    <3>2. CASE "intents" \in files
      <4>1. PICK subtypes \in SUBSET {"intent", "tool"} :
              /\ nodes' \in {nodes, Cleaned(nodes, subtypes), StoredIntents(Cleaned(nodes, subtypes)),
                             LinkedIntents(StoredIntents(Cleaned(nodes, subtypes)))}
              /\ uncleaned' = (uncleaned \/ subtypes = {})
        BY <2>3, <3>2 DEF BootstrapIntents
      <4>2. PICK i \in BOOLEAN, t \in BOOLEAN, b \in BOOLEAN, c \in Nat :
              /\ Cleaned(nodes, subtypes)
                   = [nodes EXCEPT !.links = c, !.intents = i, !.tools = t, !.bridged = b]
              /\ subtypes # {} => c = 0
        <5>1. (IF subtypes = {} THEN nodes.links ELSE 0) \in Nat BY <1>3 DEF Graph
        <5>2. /\ (nodes.intents /\ "intent" \notin subtypes) \in BOOLEAN
              /\ (nodes.tools /\ "tool" \notin subtypes) \in BOOLEAN
              /\ (nodes.bridged /\ "tool" \notin subtypes) \in BOOLEAN
          OBVIOUS
        <5> QED BY <5>1, <5>2 DEF Cleaned
      <4> DEFINE cleaned == [nodes EXCEPT !.links = c, !.intents = i, !.tools = t, !.bridged = b]
      <4>3. /\ cleaned \in Graph /\ cleaned.links = c
            /\ StoredIntents(cleaned) \in Graph /\ StoredIntents(cleaned).links = c
            /\ LinkedIntents(StoredIntents(cleaned)) \in Graph
            /\ LinkedIntents(StoredIntents(cleaned)).links = c + 1
        <5>1. cleaned \in Graph /\ cleaned.links = c BY <1>3 DEF Graph
        <5> HIDE DEF cleaned
        <5>2. StoredIntents(cleaned) \in Graph /\ StoredIntents(cleaned).links = c
          BY <5>1 DEF Graph, StoredIntents
        <5>3. /\ LinkedIntents(StoredIntents(cleaned)) \in Graph
              /\ LinkedIntents(StoredIntents(cleaned)).links = c + 1
          BY <5>2 DEF Graph, LinkedIntents
        <5> QED BY <5>1, <5>2, <5>3
      <4>4. nodes' \in Graph /\ (subtypes # {} => nodes'.links <= nodes.links \/ nodes'.links <= 1)
        <5>1. Cleaned(nodes, subtypes) = cleaned BY <4>2
        <5> HIDE DEF cleaned
        <5>2. nodes' \in {nodes, cleaned, StoredIntents(cleaned), LinkedIntents(StoredIntents(cleaned))}
          BY <4>1, <5>1
        <5>3. nodes.links \in Nat BY <1>3 DEF Graph
        <5> QED BY <1>3, <4>2, <4>3, <5>2, <5>3
      <4>5. saved' = saved BY <2>3 DEF BootstrapIntents
      <4>6. uncleaned' \in BOOLEAN /\ (uncleaned => uncleaned') /\ (subtypes = {} => uncleaned')
        BY <4>1 DEF GraphInv
      <4>7. nodes.links \in Nat /\ nodes'.links \in Nat BY <1>3, <4>4 DEF Graph
      <4> HIDE DEF cleaned
      <4> QED BY <4>4, <4>5, <4>6, <4>7 DEF GraphInv
    <3> QED BY <3>1, <3>2
  <2>4. CASE Snapshot(n) BY <2>4 DEF Snapshot, GraphInv
  <2> QED BY <1>9, <2>1, <2>2, <2>3, <2>4 DEF ChildStep
<1>10. CASE UNCHANGED allVars BY <1>2, <1>10 DEF allVars, phaseVars
<1> QED BY <1>4, <1>5, <1>6, <1>7, <1>8, <1>9, <1>10 DEF PhasesNext, SystemStep

LEMMA SavedKept == PhasesInv /\ [PhasesNext]_allVars => SavedInv'
<1> SUFFICES ASSUME PhasesInv, [PhasesNext]_allVars PROVE SavedInv' OBVIOUS
<1> USE DEF PhasesInv
<1>1. ASSUME UNCHANGED <<nodes, saved, unsaved, step>> PROVE SavedInv' BY <1>1 DEF SavedInv
<1>2. "intents_bootstrap" \in Async /\ step \in [Async -> Nat] BY PhasesAssumption DEF StepInv
\* Before the intents anything may be written.
<1>3. ASSUME NEW n \in {"mcp_bootstrap", "project_sync", "project_analysis"}, work[n] # "ended"
      PROVE  step["intents_bootstrap"] = 0
  BY <1>2, <1>3, IntentsComeLast DEF StepInv
<1>4. CASE McpBootstrap
  <2>1. work["mcp_bootstrap"] # "ended" BY <1>4 DEF McpBootstrap, StartSync, StartupInv
  <2>2. step' = step BY <1>4 DEF McpBootstrap
  <2> QED BY <1>3, <2>1, <2>2 DEF SavedInv
<1>5. CASE Spawn
  <2>1. PICK n \in Async : step' = [step EXCEPT ![n] = 1] BY <1>5 DEF Spawn
  <2>2. UNCHANGED <<nodes, saved, unsaved>> BY <1>5 DEF Spawn, History
  <2> QED BY <1>2, <2>1, <2>2 DEF SavedInv
<1>6. CASE SubPhase /\ ~McpBootstrap /\ ~Spawn
  BY <1>1, <1>6 DEF SubPhase, GraphInit, SerialFails, RegisterTools, EmbedderInit,
     PlatformBootstrap, ProjectSyncInit, ProjectAnalyzerInit, ProjectQueryInit,
     ActorInit, McpConnect, IntentsBootstrapInit, History, phaseVars
<1>7. CASE (Initialize \/ AskShutdown \/ HandleShutdown \/ HandleEvent) /\ UNCHANGED phaseVars
  BY <1>1, <1>7 DEF phaseVars
<1>8. CASE Connected BY <1>1, <1>8 DEF Connected, History
<1>9. CASE Relaunch BY <1>9 DEF Relaunch, SavedInv
<1>10. ASSUME NEW n \in Async, ChildStep(n) PROVE SavedInv'
  <2>1. CASE BodyOver(n) BY <1>1, <2>1 DEF BodyOver, phaseVars
  <2>2. CASE SyncProject \/ AnalyzeProject
    <3>1. PICK m \in {"project_sync", "project_analysis"} :
            step[m] \in DOMAIN Body(m) /\ step' = [step EXCEPT ![m] = step[m] + 1]
      BY <2>2 DEF SyncProject, AnalyzeProject, At, Advance, To
    <3>2. work[m] # "ended"
      <4>1. DOMAIN Body(m) = 1..Len(Body(m)) /\ Len(Body(m)) \in Nat BY Bodies
      <4> QED BY <1>2, <3>1, <4>1, PhasesAssumption DEF StepInv
    <3>3. step["intents_bootstrap"] = 0 BY <1>3, <3>2
    <3> QED BY <1>2, <3>1, <3>3 DEF SavedInv
  <2>3. CASE LlmConfig
    <3>1. step' = [step EXCEPT !["llm_config"] = step["llm_config"] + 1] BY <2>3 DEF LlmConfig, Advance, To
    <3>2. UNCHANGED <<nodes, saved, unsaved>> BY <2>3 DEF LlmConfig, History
    <3> QED BY <1>2, <3>1, <3>2 DEF SavedInv
  <2>4. ASSUME NEW place \in {"intents", "strategy", "discover", "bridge"},
               At("intents_bootstrap", place), Advance("intents_bootstrap")
        PROVE  SavedInv'
    <3>1. step["intents_bootstrap"] \in 1..4 BY <2>4, Bodies DEF At
    <3>2. step'["intents_bootstrap"] \in 2..5 BY <1>2, <2>4, <3>1 DEF Advance, To
    <3> QED BY <3>2 DEF SavedInv
  <2>5. CASE BootstrapIntents \/ BootstrapStrategy \/ DiscoverTools \/ BridgeServers
    BY <2>4, <2>5 DEF BootstrapIntents, BootstrapStrategy, DiscoverTools, BridgeServers
  <2>6. CASE Snapshot(n) BY <2>6 DEF Snapshot, SavedInv
  <2> QED BY <1>10, <2>1, <2>2, <2>3, <2>5, <2>6 DEF ChildStep
<1>11. CASE UNCHANGED allVars BY <1>1, <1>11 DEF allVars, phaseVars
<1> QED BY <1>4, <1>5, <1>6, <1>7, <1>8, <1>9, <1>10, <1>11 DEF PhasesNext, SystemStep

\* The inductive invariant of every behaviour, launches included.
THEOREM PhasesSpecInv == PhasesSpec => []PhasesInv
<1>1. PhasesInv /\ [PhasesNext]_allVars => PhasesInv'
  <2> SUFFICES ASSUME PhasesInv, [PhasesNext]_allVars PROVE PhasesInv' OBVIOUS
  <2>1. StartupTypeOK /\ StartupInv BY DEF PhasesInv, StartupInv
  <2>2. StartupInv' BY <2>1, PhasesDriveChain, StepKeepsInv, RelaunchKeepsStartup
  <2> QED BY <2>2, StepKept, GraphKept, SavedKept DEF PhasesInv
<1> QED BY <1>1, PhasesInitEstablishes, PTL DEF PhasesSpec

\* What ChainInOrder says of one launch holds of all that follow.
THEOREM LaunchesInOrder == PhasesSpec => []PhasesInOrder
<1>1. PhasesInv => PhasesInOrder BY InvImpliesOrder DEF PhasesInv
<1> QED BY <1>1, PhasesSpecInv, PTL

\* A system that is ready has its graph on disk, unless the last snapshot
\* failed: the child that takes it is the last that writes.
THEOREM ReadyMeansSaved == PhasesSpec => []ReadyIsSaved
<1>1. PhasesInv => ReadyIsSaved
  <2> SUFFICES ASSUME PhasesInv, state = "ready", ~unsaved PROVE saved = nodes BY DEF ReadyIsSaved
  <2>1. work["intents_bootstrap"] = "ended" BY PhasesAssumption DEF PhasesInv, StartupInv
  <2>2. step["intents_bootstrap"] > 5 BY <2>1, Bodies, PhasesAssumption DEF PhasesInv, StepInv
  <2> QED BY <2>2 DEF PhasesInv, SavedInv
<1> QED BY <1>1, PhasesSpecInv, PTL

\* Launches over the graph of those before do not pile up edges.
THEOREM LaunchesDoNotAccumulate == PhasesSpec => []NoAccumulation
<1>1. PhasesInv => NoAccumulation BY DEF PhasesInv, GraphInv, NoAccumulation
<1> QED BY <1>1, PhasesSpecInv, PTL

-----------------------------------------------------------------------------
(* The synchronisation of a project.                                        *)

USE SyncAssumption

LEMMA RelIsNode == ASSUME NEW f \in Files PROVE Rel(f) \in Spellings \X Files /\ Abs(f) \in Spellings \X Files
  BY DEF Rel, Abs, Spellings

\* What the manifest of a disk is.
LEMMA ManifestOfDisk ==
  ASSUME disk \in [Files -> {0} \union Sizes] PROVE IsManifest(Manifest)
  BY DEF Manifest, IsManifest

\* Each write of a sync leaves a graph, and what it does to the file nodes.
LEMMA StoreProjectGraph ==
  ASSUME NEW g \in Graphs
  PROVE  StoreProject(g) \in Graphs /\ StoreProject(g).files = g.files
  BY DEF StoreProject, Graphs

LEMMA StoreDirsGraph ==
  ASSUME NEW g \in Graphs, NEW dirs
  PROVE  StoreDirs(g, dirs) \in Graphs /\ StoreDirs(g, dirs).files = g.files
         /\ StoreDirs(g, dirs).projects = g.projects
  BY DEF StoreDirs, Graphs

LEMMA StoreFilesGraph ==
  ASSUME NEW g \in Graphs, NEW paths \in SUBSET Files
  PROVE  /\ StoreFiles(g, paths) \in Graphs
         /\ StoreFiles(g, paths).projects = g.projects
         /\ \A f \in Files : StoreFiles(g, paths).files[Rel(f)] >= g.files[Rel(f)]
         /\ \A f \in paths : StoreFiles(g, paths).files[Rel(f)] > 0
  <1> DEFINE h == StoreFiles(g, paths)
  <1>1. h \in Graphs /\ h.projects = g.projects
    BY DEF StoreFiles, Graphs
  <1>2. \A node \in Spellings \X Files :
          h.files[node] = IF node \in {Rel(f) : f \in paths} THEN g.files[node] + 1 ELSE g.files[node]
    BY DEF StoreFiles, Graphs
  <1>3. \A node \in Spellings \X Files : g.files[node] \in Nat
    BY DEF Graphs
  <1>4. \A f \in Files : h.files[Rel(f)] >= g.files[Rel(f)]
    BY <1>2, <1>3, RelIsNode
  <1>5. \A f \in paths : h.files[Rel(f)] > 0
    BY <1>2, <1>3, RelIsNode
  <1> QED BY <1>1, <1>4, <1>5

LEMMA StoreBuildsGraph ==
  ASSUME NEW g \in Graphs, NEW times \in Nat, NEW configs
  PROVE  StoreBuilds(g, times, configs) \in Graphs /\ StoreBuilds(g, times, configs).files = g.files
  BY DEF StoreBuilds, Graphs

LEMMA RebuildBuildsGraph ==
  ASSUME NEW g \in Graphs, NEW configs
  PROVE  RebuildBuilds(g, configs) \in Graphs /\ RebuildBuilds(g, configs).files = g.files
  BY DEF RebuildBuilds, Graphs

LEMMA PackagingGraph ==
  ASSUME NEW g \in Graphs, NEW h \in DetectPackaging(g)
  PROVE  h \in Graphs /\ h.files = g.files
  BY DEF DetectPackaging, Graphs

LEMMA DeleteProjectGraph ==
  ASSUME NEW g \in Graphs, NEW h \in DeleteProject(g)
  PROVE  h \in Graphs /\ h.files = g.files
  <1>1. CASE h = g
    BY <1>1
  <1>2. CASE h = [g EXCEPT !.projects = IF @ > 0 THEN @ - 1 ELSE 0]
    <2>1. (IF g.projects > 0 THEN g.projects - 1 ELSE 0) \in Nat
      BY DEF Graphs
    <2> QED BY <1>2, <2>1 DEF Graphs
  <1> QED BY <1>1, <1>2 DEF DeleteProject

LEMMA DeleteFilesGraph ==
  ASSUME NEW g \in Graphs, NEW doomed,
         \A node \in Spellings \X Files : node \in doomed => g.files[node] > 0
  PROVE  /\ DeleteFiles(g, doomed) \in Graphs
         /\ \A node \in Spellings \X Files :
              node \notin doomed => DeleteFiles(g, doomed).files[node] = g.files[node]
  <1>1. \A node \in Spellings \X Files :
          (IF node \in doomed THEN g.files[node] - 1 ELSE g.files[node]) \in Nat
    BY DEF Graphs
  <1> QED BY <1>1 DEF DeleteFiles, Graphs

-----------------------------------------------------------------------------
\* A cold start lists every file it scanned.
LEMMA BootstrapLists ==
  ASSUME NEW g \in Graphs, NEW manifest, IsManifest(manifest), NEW configs,
         NEW h \in DetectPackaging(Bootstrapped(g, manifest, configs))
  PROVE  h \in Graphs /\ \A f \in DOMAIN manifest : h.files[Rel(f)] > 0
  <1> DEFINE paths == DOMAIN manifest
             dirs == StoreDirs(StoreProject(g), Parents(paths))
             tree == StoreFiles(dirs, paths)
  <1>1. paths \in SUBSET Files /\ Cardinality(paths) \in Nat
    BY FS_Subset, FS_CardinalityType DEF IsManifest
  <1>2. dirs \in Graphs
    BY StoreProjectGraph, StoreDirsGraph
  <1>3. tree \in Graphs /\ \A f \in paths : tree.files[Rel(f)] > 0
    BY <1>1, <1>2, StoreFilesGraph
  <1> HIDE DEF tree
  <1>4. Bootstrapped(g, manifest, configs) = StoreBuilds(tree, Cardinality(paths), configs)
    BY DEF Bootstrapped, tree
  <1>5. /\ Bootstrapped(g, manifest, configs) \in Graphs
        /\ Bootstrapped(g, manifest, configs).files = tree.files
    BY <1>1, <1>3, <1>4, StoreBuildsGraph
  <1> QED BY <1>3, <1>5, PackagingGraph

\* A startup sync lists every file it scanned.
LEMMA SyncLists ==
  ASSUME NEW g \in Graphs, NEW manifest, IsManifest(manifest), NEW configs,
         NEW h \in Synced(g, manifest, configs)
  PROVE  h \in Graphs /\ \A f \in DOMAIN manifest : h.files[Rel(f)] > 0
  <1> DEFINE new == Missing(g, manifest)
             doomed == Doomed(g, manifest)
  <1>1. PICK p \in DeleteProject(g) :
          h = RebuildBuilds(StoreFiles(StoreDirs(DeleteFiles(p, doomed), MissingDirs(g, new)), new), configs)
    BY DEF Synced
  <1> DEFINE left == DeleteFiles(p, doomed)
             dirs == StoreDirs(left, MissingDirs(g, new))
             tree == StoreFiles(dirs, new)
  <1>2. p \in Graphs /\ p.files = g.files
    BY DeleteProjectGraph
  <1>3. new \in SUBSET Files
    BY DEF Missing, IsManifest
  <1>4. \A node \in Spellings \X Files : node \in doomed => p.files[node] > 0
    BY <1>2 DEF Doomed
  <1>5. /\ left \in Graphs
        /\ \A node \in Spellings \X Files : node \notin doomed => left.files[node] = p.files[node]
    <2> HIDE DEF doomed
    <2> QED BY <1>2, <1>4, DeleteFilesGraph
  <1> HIDE DEF left
  <1>6. dirs \in Graphs /\ dirs.files = left.files
    BY <1>5, StoreDirsGraph
  <1> HIDE DEF dirs
  <1>7. /\ tree \in Graphs
        /\ \A f \in Files : tree.files[Rel(f)] >= dirs.files[Rel(f)]
        /\ \A f \in new : tree.files[Rel(f)] > 0
    <2> HIDE DEF new
    <2> QED BY <1>3, <1>6, StoreFilesGraph
  <1> HIDE DEF tree
  <1>8. h \in Graphs /\ h.files = tree.files
    BY <1>1, <1>7, RebuildBuildsGraph DEF tree, dirs, left
  <1>9. ASSUME NEW f \in DOMAIN manifest PROVE h.files[Rel(f)] > 0
    <2>1. f \in Files /\ Rel(f) \in Spellings \X Files
      BY RelIsNode DEF IsManifest
    <2>2. CASE f \in new
      BY <2>2, <1>7, <1>8
    <2>3. CASE f \notin new
      <3>1. g.files[Rel(f)] > 0
        BY <2>1, <2>3 DEF Missing, Graphs
      <3>2. left.files[Rel(f)] = g.files[Rel(f)]
        BY <2>1, <1>2, <1>5 DEF Doomed
      <3>3. tree.files[Rel(f)] \in Nat /\ left.files[Rel(f)] \in Nat
        BY <2>1, <1>5, <1>7 DEF Graphs
      <3> QED BY <2>1, <3>1, <3>2, <3>3, <1>6, <1>7, <1>8
    <2> QED BY <2>2, <2>3
  <1> QED BY <1>8, <1>9

-----------------------------------------------------------------------------
\* What a failure, or the end of the process, can leave is a graph.
LEMMA PrefixesAreGraphs ==
  ASSUME NEW g \in Graphs, NEW manifest, IsManifest(manifest)
  PROVE  BootstrapPrefixes(g, manifest) \subseteq Graphs /\ SyncPrefixes(g, manifest) \subseteq Graphs
  <1> DEFINE dirs == StoreDirs(StoreProject(g), Parents(DOMAIN manifest))
  <1>1. StoreProject(g) \in Graphs
    BY StoreProjectGraph
  <1>2. dirs \in Graphs
    BY <1>1, StoreDirsGraph
  <1>3. \A paths \in SUBSET DOMAIN manifest : StoreFiles(dirs, paths) \in Graphs
    <2> HIDE DEF dirs
    <2> QED BY <1>2, StoreFilesGraph DEF IsManifest
  <1>4. \A doomed \in SUBSET Doomed(g, manifest) : DeleteFiles(g, doomed) \in Graphs
    <2> SUFFICES ASSUME NEW doomed \in SUBSET Doomed(g, manifest) PROVE DeleteFiles(g, doomed) \in Graphs
      OBVIOUS
    <2>1. \A node \in Spellings \X Files : node \in doomed => g.files[node] > 0
      BY DEF Doomed
    <2> QED BY <2>1, DeleteFilesGraph
  <1>5. \A h \in DeleteProject(g) : DeleteFiles(h, Doomed(g, manifest)) \in Graphs
    <2> SUFFICES ASSUME NEW h \in DeleteProject(g) PROVE DeleteFiles(h, Doomed(g, manifest)) \in Graphs
      OBVIOUS
    <2>1. h \in Graphs /\ h.files = g.files
      BY DeleteProjectGraph
    <2>2. \A node \in Spellings \X Files : node \in Doomed(g, manifest) => h.files[node] > 0
      BY <2>1 DEF Doomed
    <2> HIDE DEF Doomed
    <2> QED BY <2>1, <2>2, DeleteFilesGraph
  <1>6. BootstrapPrefixes(g, manifest) \subseteq Graphs
    BY <1>1, <1>2, <1>3 DEF BootstrapPrefixes
  <1>7. SyncPrefixes(g, manifest) \subseteq Graphs
    BY <1>4, <1>5 DEF SyncPrefixes
  <1> QED BY <1>6, <1>7

\* So is what an event, or a flush of the batch, leaves.
LEMMA FlushedIsGraph ==
  ASSUME graph \in Graphs, event_batch \in Seq(Notices) PROVE Flushed(graph) \in Graphs
  <1> DEFINE counted(kind, f) ==
        Cardinality({i \in DOMAIN event_batch : event_batch[i] = [kind |-> kind, file |-> f]})
  <1>1. \A kind, f : counted(kind, f) \in Nat
    <2> TAKE kind, f
    <2>1. DOMAIN event_batch = 1..Len(event_batch) /\ Len(event_batch) \in Nat
      OBVIOUS
    <2>2. IsFiniteSet(DOMAIN event_batch)
      BY <2>1, FS_Interval
    <2> QED BY <2>2, FS_Subset, FS_CardinalityType
  <1> DEFINE after(node) ==
        IF node[1] = "relative" THEN graph.files[node]
        ELSE (graph.files[node] + counted("Created", node[2]))
               - (IF graph.files[node] > 0 /\ counted("Deleted", node[2]) > 0 THEN 1 ELSE 0)
  <1>2. \A node \in Spellings \X Files : after(node) \in Nat
    <2> TAKE node \in Spellings \X Files
    <2>1. graph.files[node] \in Nat /\ counted("Created", node[2]) \in Nat /\ counted("Deleted", node[2]) \in Nat
      BY <1>1 DEF Graphs
    <2> HIDE DEF counted
    <2> QED BY <2>1
  <1>3. DOMAIN graph.files = Spellings \X Files
    BY DEF Graphs
  <1> DEFINE new == [node \in DOMAIN graph.files |-> after(node)]
  <1>4. new \in [Spellings \X Files -> Nat]
    BY <1>2, <1>3
  <1>5. Flushed(graph) = [graph EXCEPT !.files = new]
    BY DEF Flushed
  <1> HIDE DEF new
  <1> QED BY <1>4, <1>5 DEF Graphs

LEMMA AppliedIsGraph ==
  ASSUME NEW g \in Graphs, NEW kind, NEW f \in Files PROVE Applied(g, kind, f) \in Graphs
  <1>1. Dir[f] \in Dirs /\ Abs(Dir[f]) \in Spellings \X Dirs
    BY DEF Abs, Spellings
  <1>2. EventParent(g, f) \in Graphs
    <2>1. [g EXCEPT !.dirs[Abs(Dir[f])] = @ + 1] \in Graphs
      BY <1>1 DEF Graphs
    <2> QED BY <2>1 DEF EventParent
  <1>3. ASSUME NEW h \in Graphs PROVE [h EXCEPT !.files[Abs(f)] = @ + 1] \in Graphs
    <2>1. h.files[Abs(f)] + 1 \in Nat
      BY RelIsNode DEF Graphs
    <2> QED BY <2>1, RelIsNode DEF Graphs
  <1>4. ASSUME g.files[Abs(f)] > 0 PROVE [g EXCEPT !.files[Abs(f)] = @ - 1] \in Graphs
    <2>1. g.files[Abs(f)] - 1 \in Nat
      BY <1>4, RelIsNode DEF Graphs
    <2> QED BY <2>1, RelIsNode DEF Graphs
  <1> QED BY <1>2, <1>3, <1>4 DEF Applied

\* No count of nodes ever falls below zero.
THEOREM CountsStayCounts == SyncSpec => []SyncTypeOK
  <1>1. SyncInit => SyncTypeOK
    <2> SUFFICES ASSUME SyncInit PROVE SyncTypeOK
      OBVIOUS
    <2>1. EmptyGraph \in Graphs
      BY DEF EmptyGraph, Graphs
    <2>2. IsManifest(seen)
      BY DEF SyncInit, IsManifest, Nothing
    <2> QED BY <2>1, <2>2 DEF SyncInit, SyncTypeOK
  <1>2. SyncTypeOK /\ [SyncNext]_syncVars => SyncTypeOK'
    <2> SUFFICES ASSUME SyncTypeOK, [SyncNext]_syncVars PROVE SyncTypeOK'
      OBVIOUS
    <2>0. IsManifest(Manifest)
      BY ManifestOfDisk DEF SyncTypeOK
    <2>1. CASE SyncInitPhase
      BY <2>1 DEF SyncInitPhase, SyncTypeOK, world, stored, events, history
    <2>2. ASSUME BeginBootstrap \/ BeginStartupSync
          PROVE  op' \in {"idle", "bootstrap", "startup"} /\ IsManifest(seen')
      BY <2>0, <2>2 DEF BeginBootstrap, BeginStartupSync, SyncTypeOK
    <2>3. CASE Launch
      BY <2>2, <2>3 DEF Launch, SyncTypeOK, world, stored, events
    <2>4. CASE Open
      BY <2>2, <2>4 DEF Open, SyncTypeOK, world, stored, events
    <2>5. CASE AskSync
      BY <2>2, <2>5 DEF AskSync, SyncTypeOK, world, stored, events
    <2>6. CASE ForceResync
      <3>1. graph' \in Graphs
        BY <2>6 DEF ForceResync, EmptyGraph, Graphs
      <3> QED BY <2>0, <2>6, <3>1 DEF ForceResync, SyncTypeOK, world, events
    <2>7. CASE FinishBootstrap
      <3>1. graph' \in Graphs
        BY <2>7, BootstrapLists DEF FinishBootstrap, SyncTypeOK
      <3> QED BY <2>7, <3>1 DEF FinishBootstrap, SyncTypeOK, world, events
    <2>8. CASE FinishStartupSync
      <3>1. graph' \in Graphs
        BY <2>8, SyncLists DEF FinishStartupSync, SyncTypeOK
      <3> QED BY <2>8, <3>1 DEF FinishStartupSync, SyncTypeOK, world, events
    <2>9. CASE SyncFails
      <3>1. graph' \in Graphs
        BY <2>9, PrefixesAreGraphs DEF SyncFails, SyncTypeOK
      <3> QED BY <2>9, <3>1 DEF SyncFails, SyncTypeOK, world, events
    <2>10. CASE FileChanged
      <3>1. inbox \in Seq(Notices) /\ inbox # <<>>
        BY <2>10 DEF FileChanged, SyncTypeOK
      <3>2. Head(inbox) \in Notices /\ Tail(inbox) \in Seq(Notices)
        BY <3>1, HeadTailProperties
      <3>3. Append(event_batch, Head(inbox)) \in Seq(Notices)
        BY <3>2 DEF SyncTypeOK
      <3>4. event_batch' \in {event_batch, Append(event_batch, Head(inbox))}
        BY <2>10 DEF FileChanged
      <3>5. recent' \subseteq Notices
        BY <2>10, <3>2 DEF FileChanged, SyncTypeOK
      <3>6. inbox' = Tail(inbox) /\ UNCHANGED <<disk, op, seen, graph, hash>>
        BY <2>10 DEF FileChanged, world, actor, stored
      <3> QED BY <3>2, <3>3, <3>4, <3>5, <3>6 DEF SyncTypeOK
    <2>11. CASE Restart
      <3>1. graph' \in Graphs
        BY <2>11, PrefixesAreGraphs DEF Restart, SyncTypeOK
      <3>2. inbox' \in Seq(Notices) /\ event_batch' \in Seq(Notices) /\ recent' \subseteq Notices
        BY <2>11 DEF Restart
      <3>3. op' = "idle" /\ UNCHANGED <<disk, seen, hash>>
        BY <2>11 DEF Restart, world
      <3> QED BY <3>1, <3>2, <3>3 DEF SyncTypeOK
    <2>12. ASSUME NEW f \in Files, NEW size \in {0} \union Sizes, Change(f, size) PROVE SyncTypeOK'
      <3> DEFINE kind == CASE disk[f] = 0 -> "Created" [] size = 0 -> "Deleted" [] OTHER -> "Modified"
      <3>1. [kind |-> kind, file |-> f] \in Notices
        BY DEF Notices, Kinds
      <3>2. inbox' = inbox \/ inbox' = Append(inbox, [kind |-> kind, file |-> f])
        BY <2>12 DEF Change
      <3>3. inbox' \in Seq(Notices)
        <4> DEFINE notice == [kind |-> kind, file |-> f]
        <4>1. inbox \in Seq(Notices)
          BY DEF SyncTypeOK
        <4>2. notice \in Notices /\ inbox' \in {inbox, Append(inbox, notice)}
          BY <3>1, <3>2
        <4> HIDE DEF notice
        <4> QED BY <4>1, <4>2
      <3>4. disk' \in [Files -> {0} \union Sizes]
        BY <2>12 DEF Change, SyncTypeOK
      <3> QED BY <2>12, <3>3, <3>4 DEF Change, SyncTypeOK, actor, stored, history
    <2>13. ASSUME NEW notice \in Notices, WindowOver(notice) PROVE SyncTypeOK'
      BY <2>13 DEF WindowOver, SyncTypeOK, world, actor, stored, history
    <2>14. ASSUME NEW kind \in Kinds, NEW f \in Files, FileEvent(kind, f) PROVE SyncTypeOK'
      <3>1. PICK flushed \in {graph, Flushed(graph)} :
              /\ graph' \in AfterEvent(Applied(flushed, kind, f), kind, f)
              /\ hash' = IF ~rooted THEN hash
                         ELSE IF kind = "Created" THEN {[g \in {f} |-> disk[f]]}
                         ELSE IF event_batch # <<>> /\ flushed = Flushed(graph) THEN {Manifest}
                         ELSE hash
        BY <2>14 DEF FileEvent
      <3>2. Applied(flushed, kind, f) \in Graphs
        BY FlushedIsGraph, AppliedIsGraph DEF SyncTypeOK
      <3>3. graph' \in Graphs
        BY <3>1, <3>2, RebuildBuildsGraph DEF AfterEvent
      <3>4. IsManifest([g \in {f} |-> disk[f]])
        BY DEF IsManifest, SyncTypeOK
      <3>5. \A m \in hash' : IsManifest(m) /\ hash' = {m}
        BY <2>0, <3>1, <3>4 DEF SyncTypeOK
      <3>6. event_batch' \in Seq(Notices) /\ UNCHANGED <<disk, op, seen, inbox, recent>>
        BY <2>14 DEF FileEvent, world, actor
      <3> QED BY <3>3, <3>5, <3>6 DEF SyncTypeOK
    <2>15. CASE UNCHANGED syncVars
      BY <2>15 DEF syncVars, SyncTypeOK, world, actor, stored, events
    <2> QED BY <2>1, <2>3, <2>4, <2>5, <2>6, <2>7, <2>8, <2>9, <2>10, <2>11, <2>12, <2>13, <2>14, <2>15 DEF SyncNext
  <1> QED BY <1>1, <1>2, PTL DEF SyncSpec

-----------------------------------------------------------------------------
(* The stored hash is of files the graph lists, whenever there is a Project *)
(* node and nothing but whole syncs wrote since: the scan that was hashed   *)
(* is the one that was stored.  The property asks it only of the disk's     *)
(* hash, which no step could preserve alone.                                *)
HashIsListed ==
  graph.projects > 0 /\ ~partial => \A manifest \in hash : InGraph(manifest)

\* A startup sync that skips, skips a graph that lists every file.
THEOREM SkippingIsSafe == SyncSpec => []SkipIsSafe
  <1>1. SyncInit => HashIsListed
    BY DEF SyncInit, HashIsListed
  <1>2. SyncTypeOK /\ HashIsListed /\ [SyncNext]_syncVars => HashIsListed'
    <2> SUFFICES ASSUME SyncTypeOK, HashIsListed, [SyncNext]_syncVars PROVE HashIsListed'
      OBVIOUS
    <2>1. ASSUME UNCHANGED <<graph, hash, partial>> PROVE HashIsListed'
      BY <2>1 DEF HashIsListed, InGraph
    <2>2. CASE SyncInitPhase
      BY <2>1, <2>2 DEF SyncInitPhase, stored, history
    <2>3. CASE Launch \/ Open \/ AskSync
      BY <2>1, <2>3 DEF Launch, Open, AskSync, stored
    <2>4. CASE ForceResync
      BY <2>4 DEF ForceResync, EmptyGraph, HashIsListed
    <2>5. CASE FinishBootstrap
      <3>1. \A f \in DOMAIN seen : graph'.files[Rel(f)] > 0
        BY <2>5, BootstrapLists DEF FinishBootstrap, SyncTypeOK
      <3>2. hash' = {seen}
        BY <2>5 DEF FinishBootstrap
      <3> QED BY <3>1, <3>2 DEF HashIsListed, InGraph
    <2>6. CASE FinishStartupSync
      <3>1. \A f \in DOMAIN seen : graph'.files[Rel(f)] > 0
        BY <2>6, SyncLists DEF FinishStartupSync, SyncTypeOK
      <3>2. hash' = {seen}
        BY <2>6 DEF FinishStartupSync
      <3> QED BY <3>1, <3>2 DEF HashIsListed, InGraph
    <2>7. CASE SyncFails
      <3>1. CASE graph' = graph
        <4>1. hash' = hash /\ (~partial' => ~partial)
          BY <2>7 DEF SyncFails
        <4> QED BY <3>1, <4>1 DEF HashIsListed, InGraph
      <3>2. CASE graph' # graph
        BY <2>7, <3>2 DEF SyncFails, HashIsListed
      <3> QED BY <3>1, <3>2
    <2>8. CASE Restart
      <3>1. CASE graph' = graph
        <4>1. hash' = hash /\ (~partial' => ~partial)
          BY <2>8 DEF Restart
        <4> QED BY <3>1, <4>1 DEF HashIsListed, InGraph
      <3>2. CASE graph' # graph
        BY <2>8, <3>2 DEF Restart, HashIsListed
      <3> QED BY <3>1, <3>2
    <2>9. CASE FileChanged \/ \E notice \in Notices : WindowOver(notice)
      BY <2>1, <2>9 DEF FileChanged, WindowOver, stored, history
    <2>10. CASE \E f \in Files, size \in {0} \union Sizes : Change(f, size)
      BY <2>1, <2>10 DEF Change, stored, history
    <2>11. CASE \E kind \in Kinds, f \in Files : FileEvent(kind, f)
      BY <2>11 DEF FileEvent, HashIsListed
    <2>12. CASE UNCHANGED syncVars
      BY <2>1, <2>12 DEF syncVars, stored, history
    <2> QED BY <2>2, <2>3, <2>4, <2>5, <2>6, <2>7, <2>8, <2>9, <2>10, <2>11, <2>12 DEF SyncNext
  <1>3. HashIsListed => SkipIsSafe
    BY DEF HashIsListed, SkipIsSafe
  <1> QED BY <1>1, <1>2, <1>3, CountsStayCounts, PTL DEF SyncSpec
-----------------------------------------------------------------------------
(* No ghosts.                                                               *)

Once(g) == \A f \in Files : g.files[Rel(f)] <= 1
Empty(g) == \A f \in Files : g.files[Rel(f)] = 0
\* What a sync of this manifest leaves, each file once.
Exactly(g, manifest) == \A f \in Files : g.files[Rel(f)] <= 1 /\ (g.files[Rel(f)] > 0 => f \in DOMAIN manifest)

\* A store of files adds one node to each, and to no other.
LEMMA StoreFilesAdds ==
  ASSUME NEW g \in Graphs, NEW paths \in SUBSET Files, NEW f \in Files
  PROVE  StoreFiles(g, paths).files[Rel(f)] = IF f \in paths THEN g.files[Rel(f)] + 1 ELSE g.files[Rel(f)]
  <1>1. Rel(f) \in Spellings \X Files /\ (Rel(f) \in {Rel(e) : e \in paths} <=> f \in paths)
    BY RelIsNode DEF Rel
  <1> QED BY <1>1 DEF StoreFiles, Graphs

\* A deletion takes one node of each doomed path.
LEMMA DeleteFilesTakes ==
  ASSUME NEW g \in Graphs, NEW doomed, NEW f \in Files
  PROVE  DeleteFiles(g, doomed).files[Rel(f)] =
           IF Rel(f) \in doomed THEN g.files[Rel(f)] - 1 ELSE g.files[Rel(f)]
  BY RelIsNode DEF DeleteFiles, Graphs

\* A bootstrap over no files, or a part of one, leaves each file it scanned once.
LEMMA BootstrapIsExact ==
  ASSUME NEW g \in Graphs, Empty(g), NEW manifest, IsManifest(manifest), NEW configs
  PROVE  /\ \A h \in DetectPackaging(Bootstrapped(g, manifest, configs)) : Exactly(h, manifest)
         /\ \A h \in BootstrapPrefixes(g, manifest) : Once(h)
  <1> DEFINE paths == DOMAIN manifest
             dirs == StoreDirs(StoreProject(g), Parents(paths))
             tree == StoreFiles(dirs, paths)
  <1>1. paths \in SUBSET Files /\ Cardinality(paths) \in Nat
    BY FS_Subset, FS_CardinalityType DEF IsManifest
  <1>2. StoreProject(g) \in Graphs /\ StoreProject(g).files = g.files
    BY StoreProjectGraph
  <1>3. dirs \in Graphs /\ dirs.files = g.files
    BY <1>2, StoreDirsGraph
  <1>4. ASSUME NEW some \in SUBSET paths, NEW f \in Files
        PROVE  StoreFiles(dirs, some).files[Rel(f)] = IF f \in some THEN 1 ELSE 0
    <2> HIDE DEF dirs
    <2> QED BY <1>1, <1>3, StoreFilesAdds DEF Empty
  <1>5. tree \in Graphs
    <2> HIDE DEF dirs
    <2> QED BY <1>1, <1>3, StoreFilesGraph
  <1>6. ASSUME NEW h \in DetectPackaging(Bootstrapped(g, manifest, configs)) PROVE Exactly(h, manifest)
    <2>1. h.files = tree.files
      <3>1. Bootstrapped(g, manifest, configs) = StoreBuilds(tree, Cardinality(paths), configs)
        BY DEF Bootstrapped
      <3> HIDE DEF tree
      <3>2. Bootstrapped(g, manifest, configs) \in Graphs /\ Bootstrapped(g, manifest, configs).files = tree.files
        BY <1>1, <1>5, <3>1, StoreBuildsGraph
      <3> QED BY <1>6, <3>2, PackagingGraph
    <2>2. \A f \in Files : tree.files[Rel(f)] = IF f \in paths THEN 1 ELSE 0
      BY <1>4
    <2> HIDE DEF tree
    <2> QED BY <2>1, <2>2 DEF Exactly
  <1>7. ASSUME NEW h \in BootstrapPrefixes(g, manifest) PROVE Once(h)
    <2>1. CASE h \in {StoreProject(g), dirs}
      BY <1>2, <1>3, <2>1 DEF Once, Empty
    <2>2. ASSUME NEW some \in SUBSET paths, h = StoreFiles(dirs, some) PROVE Once(h)
      <3> HIDE DEF dirs
      <3> QED BY <1>4, <2>2 DEF Once
    <2> QED BY <1>7, <2>1, <2>2 DEF BootstrapPrefixes
  <1> QED BY <1>6, <1>7

\* A startup sync over files listed once leaves those it scanned, once; a part
\* of one lists nothing twice.
LEMMA SyncIsExact ==
  ASSUME NEW g \in Graphs, Once(g), NEW manifest, IsManifest(manifest), NEW configs
  PROVE  /\ \A h \in Synced(g, manifest, configs) : Exactly(h, manifest)
         /\ \A h \in SyncPrefixes(g, manifest) : Once(h)
  <1> DEFINE doomed == Doomed(g, manifest)
             new == Missing(g, manifest)
  <1>1. \A f \in Files : Rel(f) \in doomed <=> g.files[Rel(f)] > 0 /\ f \notin DOMAIN manifest
    BY RelIsNode DEF Doomed, Rel
  <1>2. \A f \in Files : g.files[Rel(f)] \in {0, 1}
    <2>1. \A f \in Files : g.files[Rel(f)] \in Nat  BY RelIsNode DEF Graphs
    <2> QED BY <2>1 DEF Once
  <1>3. ASSUME NEW p \in Graphs, p.files = g.files, NEW some \in SUBSET doomed, NEW f \in Files
        PROVE  /\ DeleteFiles(p, some) \in Graphs
               /\ DeleteFiles(p, some).files[Rel(f)] = IF Rel(f) \in some THEN 0 ELSE g.files[Rel(f)]
    <2>1. \A node \in Spellings \X Files : node \in some => p.files[node] > 0
      BY <1>3 DEF Doomed
    <2>2. DeleteFiles(p, some) \in Graphs
      BY <2>1, DeleteFilesGraph
    <2>3. DeleteFiles(p, some).files[Rel(f)] = IF Rel(f) \in some THEN g.files[Rel(f)] - 1 ELSE g.files[Rel(f)]
      BY <1>3, DeleteFilesTakes
    <2>4. Rel(f) \in some => g.files[Rel(f)] = 1
      BY <1>1, <1>2, <1>3
    <2> QED BY <2>2, <2>3, <2>4
  <1>4. ASSUME NEW h \in Synced(g, manifest, configs) PROVE Exactly(h, manifest)
    <2>1. PICK p \in DeleteProject(g) :
            h = RebuildBuilds(StoreFiles(StoreDirs(DeleteFiles(p, doomed), MissingDirs(g, new)), new), configs)
      BY <1>4 DEF Synced
    <2> DEFINE left == DeleteFiles(p, doomed)
               dirs == StoreDirs(left, MissingDirs(g, new))
               tree == StoreFiles(dirs, new)
    <2>2. p \in Graphs /\ p.files = g.files
      BY DeleteProjectGraph
    <2>3. new \in SUBSET Files /\ \A f \in Files : f \in new <=> f \in DOMAIN manifest /\ g.files[Rel(f)] = 0
      BY DEF Missing, IsManifest
    <2>4. CASE Files = {}
      BY <2>4 DEF Exactly
    <2>5. CASE Files # {}
      <3>1. left \in Graphs /\ \A f \in Files : left.files[Rel(f)] = IF Rel(f) \in doomed THEN 0 ELSE g.files[Rel(f)]
        <4> HIDE DEF doomed
        <4> QED BY <1>3, <2>2, <2>5
      <3> HIDE DEF left
      <3>2. dirs \in Graphs /\ dirs.files = left.files
        BY <3>1, StoreDirsGraph
      <3> HIDE DEF dirs, new
      <3>3. tree \in Graphs /\ \A f \in Files :
              tree.files[Rel(f)] = IF f \in new THEN left.files[Rel(f)] + 1 ELSE left.files[Rel(f)]
        BY <2>3, <3>2, StoreFilesGraph, StoreFilesAdds
      <3> HIDE DEF tree
      <3>4. h.files = tree.files
        BY <2>1, <3>3, RebuildBuildsGraph DEF tree, dirs, left, new
      <3> HIDE DEF doomed
      <3>5. ASSUME NEW f \in Files
            PROVE  h.files[Rel(f)] <= 1 /\ (h.files[Rel(f)] > 0 => f \in DOMAIN manifest)
        BY <1>1, <1>2, <2>3, <3>1, <3>3, <3>4
      <3> QED BY <3>5 DEF Exactly
    <2> QED BY <2>4, <2>5
  <1>5. ASSUME NEW h \in SyncPrefixes(g, manifest) PROVE Once(h)
    <2>1. ASSUME NEW p \in Graphs, p.files = g.files, NEW some \in SUBSET doomed PROVE Once(DeleteFiles(p, some))
      <3> HIDE DEF doomed
      <3> QED BY <1>2, <1>3, <2>1 DEF Once
    <2>2. CASE \E some \in SUBSET doomed : h = DeleteFiles(g, some)
      BY <2>1, <2>2
    <2>3. CASE \E p \in DeleteProject(g) : h = DeleteFiles(p, doomed)
      BY <2>1, <2>3, DeleteProjectGraph
    <2> QED BY <1>5, <2>2, <2>3 DEF SyncPrefixes
  <1> QED BY <1>4, <1>5

\* An event, and the batch before it, store other nodes than a sync does.
LEMMA EventSparesScans ==
  ASSUME graph \in Graphs, event_batch \in Seq(Notices), NEW kind, NEW f \in Files,
         NEW flushed \in {graph, Flushed(graph)}, NEW h \in AfterEvent(Applied(flushed, kind, f), kind, f),
         NEW e \in Files
  PROVE  h.files[Rel(e)] = graph.files[Rel(e)]
  <1>1. flushed \in Graphs /\ flushed.files[Rel(e)] = graph.files[Rel(e)]
    <2>1. Flushed(graph).files[Rel(e)] = graph.files[Rel(e)]
      BY RelIsNode DEF Flushed, Graphs, Rel
    <2> QED BY <2>1, FlushedIsGraph
  <1>2. Applied(flushed, kind, f) \in Graphs
    BY <1>1, AppliedIsGraph
  <1>3. Applied(flushed, kind, f).files[Rel(e)] = flushed.files[Rel(e)]
    <2>1. Rel(e) # Abs(f) /\ Rel(e) \in Spellings \X Files /\ Abs(f) \in Spellings \X Files
      BY RelIsNode DEF Rel, Abs
    <2>2. EventParent(flushed, f).files = flushed.files
      BY <1>1 DEF EventParent, Graphs
    <2>3. EventParent(flushed, f) = flushed \/ \E dirs : EventParent(flushed, f) = [flushed EXCEPT !.dirs = dirs]
      BY DEF EventParent
    <2>4. ASSUME NEW g, "files" \in DOMAIN g, g.files = flushed.files, NEW n
          PROVE  [g EXCEPT !.files[Abs(f)] = n].files[Rel(e)] = flushed.files[Rel(e)]
      BY <1>1, <2>1, <2>4 DEF Graphs
    <2>5. "files" \in DOMAIN EventParent(flushed, f) /\ "files" \in DOMAIN flushed
      BY <1>1, <2>3 DEF Graphs
    <2> QED BY <2>2, <2>4, <2>5 DEF Applied
  <1>4. h.files = Applied(flushed, kind, f).files
    BY <1>2, RebuildBuildsGraph DEF AfterEvent
  <1> QED BY <1>1, <1>3, <1>4
\* While every tree was stored over no files, each file is listed once, and a
\* hash is of all that is listed unless something but a whole sync wrote.
GhostInv ==
  single =>
    /\ Once(graph)
    /\ op = "bootstrap" => Empty(graph)
    /\ ~partial => \A manifest \in hash : Exactly(graph, manifest)

LEMMA GhostKept ==
  ASSUME GhostInv, graph' = graph, hash' = hash, single' => single, ~partial' => ~partial,
         single' /\ op' = "bootstrap" => op = "bootstrap" \/ Empty(graph)
  PROVE  GhostInv'
  BY DEF GhostInv, Once, Empty, Exactly

LEMMA GhostNext ==
  SyncTypeOK /\ GhostInv /\ [SyncNext]_syncVars => GhostInv'
  <1> SUFFICES ASSUME SyncTypeOK, GhostInv, [SyncNext]_syncVars PROVE GhostInv'
    OBVIOUS
  <1> USE DEF SyncTypeOK
  <1>1. ASSUME BeginBootstrap \/ BeginStartupSync
        PROVE  (single' => single) /\ (single' /\ op' = "bootstrap" => op = "bootstrap" \/ Empty(graph))
    <2>1. ~Populated(graph) => Empty(graph)
      <3> SUFFICES ASSUME ~Populated(graph), NEW f \in Files PROVE graph.files[Rel(f)] = 0
        BY DEF Empty
      <3>1. Rel(f) \in DOMAIN graph.files /\ graph.files[Rel(f)] \in Nat  BY RelIsNode DEF Graphs
      <3> QED BY <3>1 DEF Populated
    <2> QED BY <1>1, <2>1 DEF BeginBootstrap, BeginStartupSync
  <1>2. CASE Launch \/ Open \/ AskSync
    BY <1>1, <1>2, GhostKept DEF Launch, Open, AskSync, stored
  <1>3. CASE ForceResync
    <2>1. \A f \in Files : graph'.files[Rel(f)] = 0
      BY <1>3, RelIsNode DEF ForceResync, EmptyGraph
    <2>2. hash' = hash  BY <1>3 DEF ForceResync
    <2> QED BY <2>1, <2>2 DEF GhostInv, Once, Empty, Exactly
  <1>4. CASE FinishBootstrap
    <2>1. CASE ~single'  BY <2>1 DEF GhostInv
    <2>2. CASE single'
      <3>1. Empty(graph)  BY <1>4, <2>2 DEF FinishBootstrap, GhostInv
      <3>2. Exactly(graph', seen)  BY <1>4, <3>1, BootstrapIsExact DEF FinishBootstrap
      <3>3. hash' = {seen} /\ op' = "idle"  BY <1>4 DEF FinishBootstrap
      <3> QED BY <3>2, <3>3 DEF GhostInv, Once, Exactly
    <2> QED BY <2>1, <2>2 DEF GhostInv
  <1>5. CASE FinishStartupSync
    <2>1. CASE ~single'  BY <2>1 DEF GhostInv
    <2>2. CASE single'
      <3>1. Once(graph)  BY <1>5, <2>2 DEF FinishStartupSync, GhostInv
      <3>2. Exactly(graph', seen)  BY <1>5, <3>1, SyncIsExact DEF FinishStartupSync
      <3>3. hash' = {seen} /\ op' = "idle"  BY <1>5 DEF FinishStartupSync
      <3> QED BY <3>2, <3>3 DEF GhostInv, Once, Exactly
    <2> QED BY <2>1, <2>2 DEF GhostInv
  <1>6. CASE SyncFails \/ Restart
    <2>1. op' = "idle" /\ hash' = hash /\ single' = single /\ partial' = (partial \/ graph' # graph)
      BY <1>6 DEF SyncFails, Restart
    <2>2. CASE graph' = graph  BY <2>1, <2>2, GhostKept
    <2>3. CASE graph' # graph
      <3>1. CASE ~single  BY <2>1, <3>1 DEF GhostInv
      <3>2. CASE single
        <4>1. \/ op = "bootstrap" /\ graph' \in BootstrapPrefixes(graph, seen)
              \/ op = "startup" /\ graph' \in SyncPrefixes(graph, seen)
          BY <1>6, <2>3 DEF SyncFails, Restart
        <4>2. Once(graph) /\ (op = "bootstrap" => Empty(graph))  BY <3>2 DEF GhostInv
        <4>3. Once(graph')  BY <4>1, <4>2, BootstrapIsExact, SyncIsExact
        <4> QED BY <2>1, <2>3, <4>3 DEF GhostInv, Once
      <3> QED BY <3>1, <3>2
    <2> QED BY <2>2, <2>3
  <1>7. CASE SyncInitPhase \/ FileChanged \/ \E notice \in Notices : WindowOver(notice)
    BY <1>7, GhostKept DEF SyncInitPhase, FileChanged, WindowOver, actor, stored, history
  <1>8. CASE \E f \in Files, size \in {0} \union Sizes : Change(f, size)
    BY <1>8, GhostKept DEF Change, actor, stored, history
  <1>9. ASSUME NEW kind \in Kinds, NEW f \in Files, FileEvent(kind, f) PROVE GhostInv'
    <2>1. op' = op /\ op = "idle" /\ single' = single /\ partial'
      BY <1>9 DEF FileEvent, actor
    <2>2. \A e \in Files : graph'.files[Rel(e)] = graph.files[Rel(e)]
      <3>1. PICK flushed \in {graph, Flushed(graph)} : graph' \in AfterEvent(Applied(flushed, kind, f), kind, f)
        BY <1>9 DEF FileEvent
      <3> QED BY <3>1, EventSparesScans
    <2> QED BY <2>1, <2>2 DEF GhostInv, Once
  <1>10. CASE UNCHANGED syncVars
    BY <1>10, GhostKept DEF syncVars, actor, stored, history
  <1> QED BY <1>2, <1>3, <1>4, <1>5, <1>6, <1>7, <1>8, <1>9, <1>10 DEF SyncNext

(* "Nodes for files that no longer exist on disk" are deleted: while no     *)
(* bootstrap stored a tree beside another, a graph whose hash is the disk's *)
(* lists no file that is gone, whatever failed, ended or changed before.    *)
THEOREM NothingGoneIsListed == SyncSpec => []NoGhosts
  <1>1. SyncInit => GhostInv
    BY RelIsNode DEF SyncInit, GhostInv, Once, Empty, EmptyGraph
  <1>2. GhostInv => NoGhosts
    BY DEF GhostInv, Exactly, NoGhosts, Manifest
  <1> QED BY <1>1, <1>2, GhostNext, CountsStayCounts, PTL DEF SyncSpec
=============================================================================
