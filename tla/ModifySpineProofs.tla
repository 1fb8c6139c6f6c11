-------------------------- MODULE ModifySpineProofs --------------------------
(***************************************************************************)
(* What the modify spine guarantees for every set of targets, every round  *)
(* limit and whatever the driver answers.                                  *)
(***************************************************************************)
EXTENDS ModifySpine, TLAPS

(* A round limit of zero still runs one round.                              *)
LEMMA RoundLimitNat == RoundLimit \in Nat /\ RoundLimit > 0
  BY SpineAssumption DEF RoundLimit

LEMMA InitEstablishesInv == SpineInit => TypeOK /\ SpineInv
  <1> SUFFICES ASSUME SpineInit PROVE TypeOK /\ SpineInv
    OBVIOUS
  <1>1. TypeOK
    BY RoundLimitNat DEF SpineInit, TypeOK, PCs
  <1>2. SpineInv
    BY DEF SpineInit, SpineInv
  <1> QED BY <1>1, <1>2

(* The actions of one step each keep the bookkeeping; a module that drives  *)
(* the spine reuses this lemma for the spine's half of its own steps.       *)
LEMMA StepKeepsInv == TypeOK /\ SpineInv /\ SpineStep => TypeOK' /\ SpineInv'
  <1> SUFFICES ASSUME TypeOK, SpineInv, SpineStep PROVE TypeOK' /\ SpineInv'
    OBVIOUS
  <1> USE RoundLimitNat DEF report
  <1>1. CASE \E targets \in SUBSET Targets : BeginRound(targets)
    <2> PICK targets \in SUBSET Targets : BeginRound(targets)
      BY <1>1
    <2>1. TypeOK'
      BY DEF BeginRound, TypeOK, PCs
    <2>2. SpineInv'
      BY DEF BeginRound, SpineInv, TypeOK
    <2> QED BY <2>1, <2>2
  <1>2. CASE \E targets \in SUBSET Targets : LeaveLoop(targets)
    <2> PICK targets \in SUBSET Targets : LeaveLoop(targets)
      BY <1>2
    <2>1. TypeOK'
      BY DEF LeaveLoop, TypeOK, PCs
    <2>2. SpineInv'
      BY DEF LeaveLoop, SpineInv, TypeOK
    <2> QED BY <2>1, <2>2
  <1>3. CASE \E t \in Targets : Skip(t)
    <2> PICK t \in Targets : Skip(t)
      BY <1>3
    <2>1. TypeOK'
      BY DEF Skip, TypeOK
    <2>2. SpineInv'
      BY DEF Skip, SpineInv
    <2> QED BY <2>1, <2>2
  <1>4. CASE \E t \in Targets : Write(t)
    <2> PICK t \in Targets : Write(t)
      BY <1>4
    <2>1. TypeOK'
      BY DEF Write, TypeOK
    <2>2. SpineInv'
      BY DEF Write, SpineInv
    <2> QED BY <2>1, <2>2
  <1>5. CASE \E t \in Targets : Revert(t)
    <2> PICK t \in Targets : Revert(t)
      BY <1>5
    <2>1. TypeOK'
      BY DEF Revert, TypeOK
    <2>2. SpineInv'
      BY DEF Revert, SpineInv
    <2> QED BY <2>1, <2>2
  <1>6. CASE \E t \in Targets : Keep(t)
    <2> PICK t \in Targets : Keep(t)
      BY <1>6
    <2>1. TypeOK'
      BY DEF Keep, TypeOK
    <2>2. SpineInv'
      BY DEF Keep, SpineInv
    <2> QED BY <2>1, <2>2
  <1>7. CASE \E rejected \in BOOLEAN : JudgeRound(rejected)
    <2>1. TypeOK'
      BY <1>7 DEF JudgeRound, TypeOK, PCs
    <2>2. SpineInv'
      BY <1>7 DEF JudgeRound, SpineInv
    <2> QED BY <2>1, <2>2
  <1>8. CASE MeasureBefore
    BY <1>8 DEF MeasureBefore, TypeOK, PCs, SpineInv
  <1>9. CASE NothingWritten
    BY <1>9 DEF NothingWritten, TypeOK, PCs, SpineInv
  <1>10. CASE MeasureAfter
    BY <1>10 DEF MeasureAfter, TypeOK, PCs, SpineInv
  <1>11. CASE EndRound
    BY <1>11 DEF EndRound, TypeOK, PCs, SpineInv
  <1>12. CASE MeasureFinal
    BY <1>12 DEF MeasureFinal, TypeOK, PCs, SpineInv
  <1> QED
    BY <1>1, <1>2, <1>3, <1>4, <1>5, <1>6, <1>7, <1>8, <1>9, <1>10, <1>11, <1>12
    DEF SpineStep

LEMMA StutterKeepsInv ==
  TypeOK /\ SpineInv /\ UNCHANGED spineVars => TypeOK' /\ SpineInv'
  BY DEF TypeOK, SpineInv, spineVars

(* The loop's state is always of its type, and its report's lists always    *)
(* partition the targets it attempted.                                      *)
THEOREM Bookkeeping == Spec => [](TypeOK /\ SpineInv)
  <1>1. TypeOK /\ SpineInv /\ [SpineStep]_spineVars => (TypeOK /\ SpineInv)'
    BY StepKeepsInv, StutterKeepsInv
  <1> QED BY <1>1, InitEstablishesInv, PTL DEF Spec

THEOREM TypeCorrect == Spec => []TypeOK
  BY Bookkeeping, PTL

(* When the loop returns, every target it attempted is reported as kept,    *)
(* reverted or skipped.                                                     *)
THEOREM Accounted == Spec => []EveryAttemptAccounted
  <1>1. SpineInv => EveryAttemptAccounted
    BY DEF SpineInv, EveryAttemptAccounted
  <1> QED BY <1>1, Bookkeeping, PTL

(* No step writes a target that was rolled back or skipped before.          *)
THEOREM NoRetry == Spec => NeverRetried
  <1>1. TypeOK /\ SpineInv /\ [SpineStep]_spineVars
        => [wrote' \ wrote \subseteq Targets \ (reverted \union skipped)]_spineVars
    <2> SUFFICES ASSUME TypeOK, SpineInv, SpineStep
                 PROVE wrote' \ wrote \subseteq Targets \ (reverted \union skipped)
      OBVIOUS
    <2>1. CASE \E t \in Targets : Write(t)
      BY <2>1 DEF Write, SpineInv
    <2>2. CASE ~ \E t \in Targets : Write(t)
      <3>1. wrote' \subseteq wrote
        BY <2>2 DEF SpineStep, BeginRound, LeaveLoop, Skip, Revert, Keep, JudgeRound,
                    MeasureBefore, NothingWritten, MeasureAfter, EndRound, MeasureFinal
      <3> QED BY <3>1
    <2> QED BY <2>1, <2>2
  <1> QED BY <1>1, Bookkeeping, PTL DEF Spec, NeverRetried

-----------------------------------------------------------------------------
(* The refinement.  Each step of the loop is a step of the promise, or      *)
(* leaves every target's status alone.                                      *)
StatusMap == [t \in Targets |-> Status(t)]

LEMMA SameStatus ==
  UNCHANGED <<wrote, kept, reverted, skipped>> => StatusMap' = StatusMap
  BY DEF StatusMap, Status

LEMMA StepImplementsPromise ==
  TypeOK /\ SpineInv /\ [SpineStep]_spineVars => [Promise!Next]_(Promise!vars)
  <1> SUFFICES ASSUME TypeOK, SpineInv, [SpineStep]_spineVars
               PROVE [Promise!Next]_(Promise!vars)
    OBVIOUS
  <1> USE DEF Promise!vars, Promise!Next
  <1>0. CASE UNCHANGED spineVars
    BY <1>0, SameStatus DEF spineVars, StatusMap
  <1>1. CASE \E targets \in SUBSET Targets : BeginRound(targets) \/ LeaveLoop(targets)
    BY <1>1, SameStatus DEF BeginRound, LeaveLoop, report, StatusMap
  <1>2. CASE \E t \in Targets : Skip(t)
    <2> PICK t \in Targets : Skip(t)
      BY <1>2
    <2>1. CASE t \in kept
      <3>1. StatusMap' = StatusMap
        BY <2>1 DEF Skip, SpineInv, StatusMap, Status
      <3> QED BY <3>1 DEF Skip, StatusMap
    <2>2. CASE t \notin kept
      <3>1. Status(t) = "untouched"
        BY <2>2 DEF Skip, SpineInv, Status
      <3>2. StatusMap' = [StatusMap EXCEPT ![t] = "declined"]
        BY <2>2 DEF Skip, SpineInv, StatusMap, Status
      <3>3. Promise!Decline(t)
        BY <3>1, <3>2 DEF Promise!Decline, Promise!Set, Skip, StatusMap
      <3> QED BY <3>3
    <2> QED BY <2>1, <2>2
  <1>3. CASE \E t \in Targets : Write(t)
    <2> PICK t \in Targets : Write(t)
      BY <1>3
    <2>1. Status(t) \in {"untouched", "kept"}
      BY DEF Write, SpineInv, Status
    <2>2. StatusMap' = [StatusMap EXCEPT ![t] = "written"]
      BY DEF Write, StatusMap, Status
    <2>3. Promise!Write(t)
      BY <2>1, <2>2 DEF Promise!Write, Promise!Set, Write, StatusMap
    <2> QED BY <2>3
  <1>4. CASE \E t \in Targets : Revert(t)
    <2> PICK t \in Targets : Revert(t)
      BY <1>4
    <2>1. Status(t) = "written"
      BY DEF Revert, Status
    <2>2. StatusMap' = [StatusMap EXCEPT ![t] = "restored"]
      BY DEF Revert, StatusMap, Status
    <2>3. Promise!Judge(t, "restored")
      BY <2>1, <2>2 DEF Promise!Judge, Promise!Set, Revert, StatusMap
    <2> QED BY <2>3
  <1>5. CASE \E t \in Targets : Keep(t)
    <2> PICK t \in Targets : Keep(t)
      BY <1>5
    <2>1. Status(t) = "written"
      BY DEF Keep, Status
    <2>2. StatusMap' = [StatusMap EXCEPT ![t] = "kept"]
      BY DEF Keep, SpineInv, StatusMap, Status
    <2>3. Promise!Judge(t, "kept")
      BY <2>1, <2>2 DEF Promise!Judge, Promise!Set, Keep, StatusMap
    <2> QED BY <2>3
  <1>6. CASE \/ \E rejected \in BOOLEAN : JudgeRound(rejected)
             \/ MeasureBefore \/ NothingWritten \/ MeasureAfter \/ EndRound
    <2>1. UNCHANGED <<wrote, kept, reverted, skipped>> /\ pc # "done" /\ pc' # "done"
      BY <1>6 DEF JudgeRound, MeasureBefore, NothingWritten, MeasureAfter, EndRound, report
    <2> QED BY <2>1, SameStatus DEF StatusMap
  <1>7. CASE MeasureFinal
    <2>1. \A t \in Targets : Status(t) # "written"
      BY <1>7 DEF MeasureFinal, SpineInv, Status
    <2>2. StatusMap' = StatusMap
      BY <1>7, SameStatus DEF MeasureFinal, report
    <2>3. Promise!Finish
      BY <1>7, <2>1, <2>2 DEF Promise!Finish, MeasureFinal, StatusMap
    <2> QED BY <2>3
  <1> QED
    BY <1>0, <1>1, <1>2, <1>3, <1>4, <1>5, <1>6, <1>7 DEF SpineStep

(* The loop implements the promise of unattended modification: whatever it  *)
(* writes gets a verdict, a verdict against a target is final, and it does  *)
(* not return while a rewrite is unjudged.                                  *)
THEOREM KeepsPromise == Spec => ImplementsPromise
  <1>1. SpineInit => Promise!Init
    BY DEF SpineInit, Promise!Init, Status
  <1> QED
    BY <1>1, StepImplementsPromise, Bookkeeping, PTL
    DEF Spec, ImplementsPromise, Promise!Spec
=============================================================================
