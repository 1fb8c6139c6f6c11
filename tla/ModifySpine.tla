---------------------------- MODULE ModifySpine ----------------------------
(***************************************************************************)
(* run_modify_loop of src/modify.rs: propose, apply, verify, keep or roll  *)
(* back.  The loop is generic over a driver; here the driver's answers     *)
(* (its targets, whether it proposes, whether a write lands, its verdicts) *)
(* are arbitrary, and the modules Autofix, CodeModify and ContractModify   *)
(* extend the actions below with what each driver really does.             *)
(***************************************************************************)
EXTENDS Naturals, FiniteSets

CONSTANTS Targets,    \* every identity a driver can name
          MaxRounds   \* the caller's max_rounds

ASSUME SpineAssumption == MaxRounds \in Nat

VARIABLES
  pc,        \* where the loop is
  round,     \* rounds begun
  pending,   \* targets of this round not proposed for yet
  wrote,     \* writes of this round that have no verdict yet
  tried,     \* targets never to be attempted again
  attempted, kept, reverted, skipped,   \* the report's lists, as sets
  rounds     \* the report's count of rounds that wrote

spineVars == <<pc, round, pending, wrote, tried, attempted, kept, reverted,
               skipped, rounds>>

report == <<attempted, kept, reverted, skipped, rounds>>

\* for round in 0..max_rounds.max(1)
RoundLimit == IF MaxRounds = 0 THEN 1 ELSE MaxRounds

SpineInit ==
  /\ pc = "begin"
  /\ round = 0 /\ rounds = 0
  /\ pending = {} /\ wrote = {} /\ tried = {}
  /\ attempted = {} /\ kept = {} /\ reverted = {} /\ skipped = {}

\* A round starts with the driver's targets that were not ruled out before.
BeginRound(targets) ==
  /\ pc = "begin"
  /\ round < RoundLimit
  /\ targets \ tried # {}
  /\ pending' = targets \ tried
  /\ round' = round + 1
  /\ pc' = "before"
  /\ UNCHANGED <<wrote, tried, report>>

\* Bug: the used-up rounds do not end the loop.
LeaveLoopWhenEmpty(targets) ==
  /\ pc = "begin"
  /\ targets \ tried = {}
  /\ pc' = "final"
  /\ UNCHANGED <<round, pending, wrote, tried, report>>

\* The rounds are used up, or nothing is pending.
LeaveLoop(targets) ==
  /\ pc = "begin"
  /\ round = RoundLimit \/ targets \ tried = {}
  /\ pc' = "final"
  /\ UNCHANGED <<round, pending, wrote, tried, report>>

MeasureBefore ==
  /\ pc = "before"
  /\ pc' = "write"
  /\ UNCHANGED <<round, pending, wrote, tried, report>>

\* No proposal, or the write failed: skipped, and never retried.
Skip(t) ==
  /\ pc = "write"
  /\ t \in pending
  /\ pending' = pending \ {t}
  /\ attempted' = attempted \union {t}
  /\ skipped' = skipped \union {t}
  /\ tried' = tried \union {t}
  /\ UNCHANGED <<pc, round, wrote, kept, reverted, rounds>>

Write(t) ==
  /\ pc = "write"
  /\ t \in pending
  /\ pending' = pending \ {t}
  /\ attempted' = attempted \union {t}
  /\ wrote' = wrote \union {t}
  /\ UNCHANGED <<pc, round, tried, kept, reverted, skipped, rounds>>

NothingWritten ==
  /\ pc = "write"
  /\ pending = {} /\ wrote = {}
  /\ pc' = "final"
  /\ UNCHANGED <<round, pending, wrote, tried, report>>

MeasureAfter ==
  /\ pc = "write"
  /\ pending = {} /\ wrote # {}
  /\ pc' = "judge"
  /\ rounds' = round
  /\ UNCHANGED <<round, pending, wrote, tried, attempted, kept, reverted, skipped>>

\* reject_round: the whole round goes, or each target gets a verdict of its own.
JudgeRound(rejected) ==
  /\ pc = "judge"
  /\ pc' = IF rejected THEN "reject" ELSE "accept"
  /\ UNCHANGED <<round, pending, wrote, tried, report>>

\* Bug: a rolled-back target is not put in tried.
RevertEligible(t) ==
  /\ pc \in {"reject", "accept"}
  /\ t \in wrote
  /\ wrote' = wrote \ {t}
  /\ reverted' = reverted \union {t}
  /\ UNCHANGED <<pc, round, pending, tried, attempted, kept, skipped, rounds>>

Revert(t) ==
  /\ pc \in {"reject", "accept"}
  /\ t \in wrote
  /\ wrote' = wrote \ {t}
  /\ tried' = tried \union {t}
  /\ reverted' = reverted \union {t}
  /\ UNCHANGED <<pc, round, pending, attempted, kept, skipped, rounds>>

\* A kept target stays eligible: an improving change may not be finished.
Keep(t) ==
  /\ pc = "accept"
  /\ t \in wrote
  /\ wrote' = wrote \ {t}
  /\ kept' = kept \union {t}
  /\ UNCHANGED <<pc, round, pending, tried, attempted, reverted, skipped, rounds>>

EndRound ==
  /\ pc \in {"reject", "accept"}
  /\ wrote = {}
  /\ pc' = "begin"
  /\ UNCHANGED <<round, pending, wrote, tried, report>>

\* report.success = driver.verify().is_clean()
MeasureFinal ==
  /\ pc = "final"
  /\ pc' = "done"
  /\ UNCHANGED <<round, pending, wrote, tried, report>>

\* A caller that runs the loop again starts it from nothing.
Rerun ==
  /\ pc = "done" /\ pc' = "begin"
  /\ round' = 0 /\ rounds' = 0
  /\ pending' = {} /\ wrote' = {} /\ tried' = {}
  /\ attempted' = {} /\ kept' = {} /\ reverted' = {} /\ skipped' = {}

SpineStep ==
  \/ \E targets \in SUBSET Targets : BeginRound(targets) \/ LeaveLoop(targets)
  \/ \E t \in Targets : Skip(t) \/ Write(t) \/ Revert(t) \/ Keep(t)
  \/ \E rejected \in BOOLEAN : JudgeRound(rejected)
  \/ MeasureBefore \/ NothingWritten \/ MeasureAfter \/ EndRound \/ MeasureFinal

Spec == SpineInit /\ [][SpineStep]_spineVars

\* The driver's calls (a model answer, a build, a file write) return.
FairSpec == Spec /\ WF_spineVars(SpineStep)

-----------------------------------------------------------------------------
PCs == {"begin", "before", "write", "judge", "reject", "accept", "final", "done"}

\* Every list holds targets only and the loop stays within its rounds.
TypeOK ==
  /\ pc \in PCs
  /\ round \in 0..RoundLimit
  /\ rounds \in 0..RoundLimit
  /\ pending \subseteq Targets /\ wrote \subseteq Targets /\ tried \subseteq Targets
  /\ attempted \subseteq Targets /\ kept \subseteq Targets
  /\ reverted \subseteq Targets /\ skipped \subseteq Targets

(* What makes the loop's bookkeeping inductive.  Only eligible targets are  *)
(* pending, nothing is written twice in a round, and the report's lists     *)
(* partition what was attempted.                                            *)
SpineInv ==
  /\ tried = reverted \union skipped
  /\ pending \intersect tried = {} /\ wrote \intersect tried = {}
  /\ pending \intersect wrote = {}
  /\ attempted = kept \union reverted \union skipped \union wrote
  /\ pc \notin {"before", "write"} => pending = {}
  /\ pc \notin {"write", "judge", "reject", "accept"} => wrote = {}
  /\ pc \in {"begin", "judge", "reject", "accept"} => rounds = round
  /\ pc \in {"before", "write"} => rounds + 1 = round
  /\ pc \in {"final", "done"} => round \in {rounds, rounds + 1}
  /\ rounds > 0 => kept \union reverted \union wrote # {}

(* The report accounts for every target the loop attempted: when the loop   *)
(* returns, each one is listed as kept, reverted or skipped, and no write   *)
(* of it is without a verdict.                                              *)
EveryAttemptAccounted ==
  pc = "done" => /\ wrote = {}
                 /\ attempted = kept \union reverted \union skipped

(* "A target that is skipped or rolled back is never retried"               *)
(* (modify.rs:174): no step writes a target that some earlier round, or     *)
(* this one, reverted or skipped.                                           *)
NeverRetried == [][wrote' \ wrote \subseteq Targets \ (reverted \union skipped)]_spineVars

\* The promise the loop implements.
Status(t) ==
  IF t \in wrote THEN "written"
  ELSE IF t \in reverted THEN "restored"
  ELSE IF t \in kept THEN "kept"
  ELSE IF t \in skipped THEN "declined"
  ELSE "untouched"

Promise == INSTANCE ReversibleEdit
             WITH status <- [t \in Targets |-> Status(t)], finished <- pc = "done"

(* The loop implements ReversibleEdit: its rounds, its tried set and its    *)
(* two ways of rolling back are one verdict per write, and final ones.      *)
ImplementsPromise == Promise!Spec
=============================================================================
