----------------------------- MODULE CodeModify -----------------------------
(***************************************************************************)
(* run_code_modify (src/build/modify_code.rs): one plan from the model,    *)
(* applied in one round of the spine, kept or rolled back as a whole.  The *)
(* backends are the coordinator's: modify/code (CoordinatorCodeModify) and *)
(* idf_component_edit (CoordinatorComponentModify), with or without a chip *)
(* named.  The component backends run the host tests only when the host    *)
(* build succeeded, and the third leg of the one with a chip is the chip   *)
(* build.  modify/code asks the tool registry for device/test, a name it   *)
(* does not have, so that leg never runs.  What the tools say of a tree is *)
(* arbitrary but repeatable; whether the chip build's call answers is not. *)
(***************************************************************************)
EXTENDS ModifySpine, Oracle

CONSTANT MaxErrors        \* most compile errors a build reports

ASSUME CodeModifyAssumption == MaxErrors \in Nat

\* What the model may consider: the sources of the project, or the files of
\* the component.
Files == Targets

VARIABLES
  backend,    \* "code", "component" or "chip": a component and a chip to build for
  stage,      \* "request", "plan", "loop", "reported"; "refused"; "answered"
  plan,       \* targets the driver still hands out: taken once
  dropped,    \* files asked for whose rewrite was unusable
  disk,       \* file -> "old", "new" (the planned rewrite) or "torn"
  failed,     \* files a read, write or restore of which failed (for the properties)
  truth,      \* tree -> what building and testing it says, once measured
  backups,    \* files whose original bytes were read
  current,    \* latest measurement
  first,      \* the first measurement, the report's "before"
  judged,     \* what the round ended on, before a rollback
  before,     \* measurement the round started from
  measured,   \* whether there has been one
  stale,      \* needs_measure: a rollback since the last one
  result,     \* ModifyCodeReport
  record      \* the component's EditRecord of the run, if the graph took it

planVars == <<backend, stage, plan, dropped>>
fileVars == <<disk, failed, backups>>
measureVars == <<truth, current, first, measured, stale>>
codeVars == <<planVars, fileVars, measureVars, before, judged, result, record>>
vars == <<spineVars, codeVars>>

Original == [f \in Files |-> "old"]

\* A leg that never ran is "none".
Legs == {"pass", "fail", "none"}
NoObs == [errors |-> 0, host |-> "none", target |-> "none"]

\* What the tools can say of a tree.
Measures ==
  {m \in [errors : 0..MaxErrors, host : Legs,
          target : IF backend = "chip" THEN {"pass", "fail"} ELSE {"none"}] :
     backend # "code" /\ m.errors > 0 => m.host = "none"}

EmptyReport ==
  [success |-> FALSE, upToDate |-> FALSE, changed |-> {}, reverted |-> {},
   verified |-> "HostOnly", was |-> NoObs, now |-> NoObs, proposed |-> TRUE]

Init ==
  /\ SpineInit
  /\ backend \in {"code", "component", "chip"}
  /\ stage = "request" /\ plan = {} /\ dropped = {}
  /\ disk = Original /\ failed = {} /\ backups = {}
  /\ truth = Nothing
  /\ current = NoObs /\ first = NoObs /\ before = NoObs /\ judged = NoObs
  /\ measured = FALSE /\ stale = FALSE
  /\ result = EmptyReport /\ record = EmptyReport

-----------------------------------------------------------------------------
\* modify/code is refused without a path, a prompt, a platform to build for
\* or a file to consider.
HandleModifyCode ==
  /\ stage = "request" /\ backend = "code"
  /\ stage' \in {"plan", "refused"}
  /\ UNCHANGED <<spineVars, backend, plan, dropped, fileVars, measureVars, before, judged, result, record>>

\* idf_component_edit is refused without a component there is a request for,
\* and when its host test cannot be run before anything is planned.
HandleComponentEdit ==
  /\ stage = "request" /\ backend # "code"
  /\ stage' \in {"plan", "refused"}
  /\ UNCHANGED <<spineVars, backend, plan, dropped, fileVars, measureVars, before, judged, result, record>>

\* plan_rewrites: the files the model was asked to rewrite, those whose
\* rewrite is usable and differs, and those it gave back unchanged.  A rewrite
\* that fails to parse, an unreadable file and a failed call are dropped.
Plan(asked, changes, same) ==
  /\ stage = "plan"
  /\ backend # "code" => asked = Files
  /\ changes \union same \subseteq asked /\ changes \intersect same = {}
  /\ dropped' = asked \ (changes \union same)
  /\ IF changes # {}
     THEN /\ stage' = "loop"
          /\ plan' = changes
          /\ UNCHANGED result
     ELSE /\ stage' = "reported"
          /\ result' = IF same # {}
                       THEN [result EXCEPT !.upToDate = TRUE, !.success = TRUE]
                       ELSE [result EXCEPT !.proposed = FALSE]
          /\ UNCHANGED plan
  /\ UNCHANGED <<spineVars, backend, fileVars, measureVars, before, judged, record>>

\* targets() takes the plan, so a second round finds nothing to do.
StartRound ==
  /\ stage = "loop"
  /\ BeginRound(plan) \/ LeaveLoop(plan)
  /\ plan' = {}
  /\ UNCHANGED <<backend, stage, dropped, fileVars, measureVars, before, judged, result, record>>

\* verify(): build, host tests, and the target leg if its call answers.
Measure ==
  /\ \E m \in Answers(truth, disk, Measures), answers \in BOOLEAN :
       /\ truth' = Learn(truth, disk, m)
       /\ current' = IF answers THEN m ELSE [m EXCEPT !.target = "none"]
  /\ first' = IF measured THEN first ELSE current'
  /\ measured' = TRUE
  /\ stale' = FALSE

\* verify() without a write since the last one: the cached answer, unless
\* there is none yet or a rollback made it stale.
VerifyCached ==
  IF measured /\ ~stale THEN UNCHANGED measureVars ELSE Measure

VerifyBefore ==
  /\ MeasureBefore
  /\ VerifyCached
  /\ before' = current'
  /\ UNCHANGED <<planVars, fileVars, judged, result, record>>

ApplyFile(f) ==
  /\ Write(f)
  /\ backups' = backups \union {f}
  /\ disk' = [disk EXCEPT ![f] = "new"]
  /\ UNCHANGED <<planVars, failed, measureVars, before, judged, result, record>>

\* The original could not be read, or the write failed: fs::write truncates
\* before it writes, so the file may be left torn.  Either way the spine
\* skips the target, and a target it skipped is never reverted.
ApplyFails(f) ==
  /\ Skip(f)
  /\ failed' = failed \union {f}
  /\ \/ UNCHANGED <<backups, disk>>
     \/ /\ backups' = backups \union {f}
        /\ \E left \in {"old", "torn"} : disk' = [disk EXCEPT ![f] = left]
  /\ UNCHANGED <<planVars, measureVars, before, judged, result, record>>

GiveUpRound == NothingWritten /\ UNCHANGED codeVars

VerifyAfter ==
  /\ MeasureAfter
  /\ Measure
  /\ UNCHANGED <<planVars, fileVars, before, judged, result, record>>

\* A leg got worse only when it passed and then failed.
Worse(was, now) == was = "pass" /\ now = "fail"

\* Bug: the round is judged on the build alone.
ProjectWorseBuildOnly == current.errors > before.errors

ProjectWorse ==
  \/ current.errors > before.errors
  \/ Worse(before.host, current.host)
  \/ Worse(before.target, current.target)

\* reject_round remembers what it judged: a rollback hides it from the disk.
JudgePlan ==
  /\ JudgeRound(ProjectWorse)
  /\ judged' = current
  /\ UNCHANGED <<planVars, fileVars, measureVars, before, result, record>>

\* accept() keeps every file of a round that was not rejected.
KeepFile(f) ==
  /\ Keep(f)
  /\ result' = [result EXCEPT !.changed = @ \union {f}]
  /\ UNCHANGED <<planVars, fileVars, measureVars, before, judged, record>>

\* Bug: files of an accepted round can still be rolled back one by one.
RevertFileAlone(f) ==
  /\ Revert(f)
  /\ f \in backups
  /\ disk' = [disk EXCEPT ![f] = "old"]
  /\ stale' = TRUE
  /\ result' = [result EXCEPT !.reverted = @ \union {f}]
  /\ UNCHANGED <<planVars, failed, backups, truth, current, first, measured, before, judged, record>>

\* The result of writing the original back is ignored.
RevertFile(f) ==
  /\ pc = "reject"
  /\ Revert(f)
  /\ f \in backups
  /\ \/ disk' = [disk EXCEPT ![f] = "old"] /\ UNCHANGED failed
     \/ /\ \E left \in {"new", "torn"} : disk' = [disk EXCEPT ![f] = left]
        /\ failed' = failed \union {f}
  /\ stale' = TRUE
  /\ result' = [result EXCEPT !.reverted = @ \union {f}]
  /\ UNCHANGED <<planVars, backups, truth, current, first, measured, before, judged, record>>

CloseRound == EndRound /\ UNCHANGED codeVars

VerifyFinal ==
  /\ MeasureFinal
  /\ VerifyCached
  /\ UNCHANGED <<planVars, fileVars, before, judged, result, record>>

\* Bug: a build that compiles is clean.
CleanBuildOnly(obs) == obs.errors = 0

Clean(obs) == obs.errors = 0 /\ obs.host # "fail" /\ obs.target # "fail"

\* into_report: success is a change that landed in a healthy project; the
\* figures are those the round was judged on, or the last ones without a round.
Report ==
  /\ stage = "loop" /\ pc = "done"
  /\ stage' = "reported"
  /\ result' = [result EXCEPT
       !.success = Clean(current) /\ result.changed # {},
       !.was = first,
       !.now = IF judged = NoObs THEN current ELSE judged,
       !.verified = IF current.target # "none" THEN "WithTarget" ELSE "HostOnly"]
  /\ UNCHANGED <<spineVars, backend, plan, dropped, fileVars, measureVars, before, judged, record>>

\* The report is answered; that of a component edit is first recorded in the
\* graph, where it answers, and an edit that is not recorded stays made.
AnswerRequest ==
  /\ stage = "reported" /\ stage' = "answered"
  /\ record' \in IF backend = "code" THEN {record} ELSE {record, result}
  /\ UNCHANGED <<spineVars, backend, plan, dropped, fileVars, measureVars, before, judged, result>>

Next ==
  \/ \E asked, changes, same \in SUBSET Files : Plan(asked, changes, same)
  \/ HandleModifyCode \/ HandleComponentEdit \/ AnswerRequest
  \/ StartRound \/ VerifyBefore \/ GiveUpRound \/ VerifyAfter \/ JudgePlan
  \/ \E f \in Files : ApplyFile(f) \/ ApplyFails(f) \/ KeepFile(f) \/ RevertFile(f)
  \/ CloseRound \/ VerifyFinal \/ Report

CodeSpec == Init /\ [][Next]_vars

-----------------------------------------------------------------------------
Done == stage \in {"reported", "answered"} /\ result.proposed /\ ~result.upToDate

(* "One round: a plan is a single intent, applied or rolled back as a       *)
(* whole" (coordinator.rs:826): when no read or write of a file failed, a   *)
(* finished run leaves the planned files all rewritten or all as they were. *)
AppliedAsAWhole ==
  Done /\ failed = {} => disk = Original \/ \A f \in attempted : disk[f] = "new"

(* "anything that made the project worse is restored byte-for-byte"         *)
(* (modify_code.rs:16): the tree a run leaves behind does not build with    *)
(* more errors than the one it found, nor fail host tests that passed,      *)
(* unless a read or write failed on the way.                                *)
NeverLeftWorse ==
  Done /\ failed = {} =>
    /\ disk \in DOMAIN truth
    /\ truth[disk].errors <= truth[Original].errors
    /\ ~Worse(truth[Original].host, truth[disk].host)

(* success with files listed means the tree on disk, and no other, was      *)
(* built and tested clean; WithTarget means the target leg ran on it and    *)
(* passed ("A run that never reached the hardware is not presented as fully *)
(* verified", modify_code.rs:22).                                           *)
SuccessIsVerified ==
  Done /\ result.success =>
    /\ result.changed # {}
    /\ disk \in DOMAIN truth
    /\ truth[disk].errors = 0 /\ truth[disk].host # "fail"
    /\ result.verified = "WithTarget" => truth[disk].target = "pass"
=============================================================================
