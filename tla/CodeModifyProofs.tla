-------------------------- MODULE CodeModifyProofs --------------------------
(***************************************************************************)
(* What run_code_modify guarantees of the tree it leaves behind, for any   *)
(* number of files, rounds and errors, and whatever the tools answer.      *)
(***************************************************************************)
EXTENDS CodeModify, ModifySpineProofs

Obs == [errors : 0..MaxErrors, host : Legs, target : Legs]

Reports ==
  [success : BOOLEAN, upToDate : BOOLEAN, proposed : BOOLEAN,
   changed : SUBSET Files, reverted : SUBSET Files,
   verified : {"HostOnly", "WithTarget"}, was : Obs, now : Obs]

\* Every variable holds a value of its type.
CodeTypeOK ==
  /\ backend \in {"code", "component", "chip"}
  /\ stage \in {"request", "plan", "loop", "reported", "refused", "answered"}
  /\ plan \subseteq Files /\ dropped \subseteq Files
  /\ failed \subseteq Files /\ backups \subseteq Files
  /\ disk \in [Files -> {"old", "new", "torn"}]
  /\ \A tree \in DOMAIN truth : truth[tree] \in Obs
  /\ current \in Obs /\ first \in Obs /\ judged \in Obs /\ before \in Obs
  /\ measured \in BOOLEAN /\ stale \in BOOLEAN
  /\ result \in Reports /\ record \in Reports

\* The plan is handed out in the first round and is gone in every later one.
PlanTakenOnce ==
  /\ plan # {} => round = 0 /\ stage = "loop"
  /\ stage \in {"request", "plan", "refused"} => round = 0
  /\ round = 0 => pc = "begin" /\ attempted = {}
  /\ round = 0 /\ stage = "loop" => plan # {}
  /\ pc = "before" => attempted = {}
  /\ Done => pc = "done"

\* So the run judges once: it keeps what it wrote, or puts it all back.
OneVerdict ==
  /\ kept = {} \/ reverted = {}
  /\ pc \notin {"accept", "begin", "final", "done"} => kept = {}
  /\ pc \notin {"reject", "begin", "final", "done"} => reverted = {}
  /\ round > 0 => pending \union attempted # {}

\* The bytes of a file follow the list of the report it is on.
DiskFollows ==
  /\ skipped \subseteq failed
  /\ \A f \in Files \ attempted : disk[f] = "old"
  /\ \A f \in wrote \union kept : disk[f] = "new"
  /\ \A f \in reverted \ failed : disk[f] = "old"

\* obs is what the tools said of tree, but for a chip build that did not answer.
Observes(obs, tree) ==
  /\ tree \in DOMAIN truth
  /\ obs.errors = truth[tree].errors /\ obs.host = truth[tree].host
  /\ obs.target \in {truth[tree].target, "none"}

\* The measurement the round started from is of the untouched tree, and the
\* latest is of the tree on disk wherever a verdict or a report rests on it.
MeasuredTree ==
  /\ stale => reverted # {}
  /\ reverted # {} /\ pc \in {"reject", "begin", "final"} => stale
  /\ round > 0 /\ pc # "before" => measured /\ Observes(before, Original)
  /\ round = 0 \/ pc = "before" => ~measured
  /\ pc = "write" => current = before
  /\ pc \in {"judge", "accept"} \/ kept # {} => Observes(current, disk)
  /\ pc = "done" /\ failed = {} => Observes(current, disk)

\* What is kept was judged no worse than what the round started from.
KeptIsNoWorse ==
  pc = "accept" \/ kept # {} =>
    current.errors <= before.errors /\ ~Worse(before.host, current.host)

ReportFollows ==
  /\ result.changed = kept
  /\ Done /\ result.success => Clean(current) /\ kept # {}
  /\ Done /\ result.verified = "WithTarget" => current.target # "none"

IInv == /\ TypeOK /\ SpineInv /\ CodeTypeOK /\ PlanTakenOnce /\ OneVerdict
        /\ DiskFollows /\ MeasuredTree /\ KeptIsNoWorse /\ ReportFollows

-----------------------------------------------------------------------------
(* verify() leaves an observation of the tree on disk and forgets none.     *)
LEMMA MeasureObserves ==
  ASSUME CodeTypeOK, Measure
  PROVE  /\ measured' = TRUE /\ stale' = FALSE
         /\ \A tree \in DOMAIN truth : tree \in DOMAIN truth' /\ truth'[tree] = truth[tree]
         /\ \A tree \in DOMAIN truth' : truth'[tree] \in Obs
         /\ current' \in Obs /\ first' \in Obs
         /\ disk \in DOMAIN truth'
         /\ current'.errors = truth'[disk].errors /\ current'.host = truth'[disk].host
         /\ current'.target \in {truth'[disk].target, "none"}
  <1>1. PICK m \in Answers(truth, disk, Measures) :
          /\ truth' = Learn(truth, disk, m)
          /\ current' = m \/ current' = [m EXCEPT !.target = "none"]
    BY DEF Measure
  <1>2. Measures \subseteq Obs
    BY DEF Measures, Obs, Legs
  <1>3. m \in Obs
    BY <1>2 DEF Answers, CodeTypeOK
  <1>4. /\ DOMAIN truth' = DOMAIN truth \union {disk}
        /\ truth'[disk] = m
        /\ \A t \in DOMAIN truth : truth'[t] = truth[t]
    BY <1>1 DEF Answers, Learn
  <1>5. \A tree \in DOMAIN truth' : truth'[tree] \in Obs
    BY <1>3, <1>4 DEF CodeTypeOK
  <1>6. /\ current' \in Obs
        /\ current'.errors = m.errors /\ current'.host = m.host
        /\ current'.target \in {m.target, "none"}
    BY <1>1, <1>3 DEF Obs, Legs
  <1>7. first' \in Obs
    BY <1>6 DEF Measure, CodeTypeOK
  <1> QED BY <1>4, <1>5, <1>6, <1>7 DEF Measure

LEMMA InitEstablishes == Init => IInv
  <1> SUFFICES ASSUME Init PROVE IInv
    OBVIOUS
  <1>1. TypeOK /\ SpineInv
    BY InitEstablishesInv DEF Init
  <1>2. CodeTypeOK
    <2>1. DOMAIN truth = {} /\ NoObs \in Obs
      BY CodeModifyAssumption DEF Init, Nothing, NoObs, Obs, Legs
    <2> QED BY <2>1 DEF Init, CodeTypeOK, Original, EmptyReport, Reports
  <1>3. PlanTakenOnce /\ OneVerdict /\ ReportFollows
    BY DEF Init, SpineInit, PlanTakenOnce, OneVerdict, ReportFollows, Done, EmptyReport
  <1>4. DiskFollows /\ MeasuredTree /\ KeptIsNoWorse
    BY DEF Init, SpineInit, DiskFollows, MeasuredTree, KeptIsNoWorse, Original
  <1> QED BY <1>1, <1>2, <1>3, <1>4 DEF IInv

(* Every step of the run is a step of the spine or leaves the spine alone.  *)
LEMMA NextDrivesSpine == CodeTypeOK /\ Next => SpineStep \/ UNCHANGED spineVars
  <1> SUFFICES ASSUME CodeTypeOK, Next PROVE SpineStep \/ UNCHANGED spineVars
    OBVIOUS
  <1>1. CASE StartRound
    <2>1. plan \in SUBSET Targets
      BY DEF CodeTypeOK, Files
    <2> QED BY <1>1, <2>1 DEF StartRound, SpineStep
  <1>2. CASE JudgePlan
    <2>1. JudgeRound(TRUE) \/ JudgeRound(FALSE)
      BY <1>2 DEF JudgePlan, JudgeRound
    <2> QED BY <2>1 DEF SpineStep
  <1>3. CASE \E f \in Files : ApplyFile(f) \/ ApplyFails(f) \/ KeepFile(f) \/ RevertFile(f)
    BY <1>3 DEF ApplyFile, ApplyFails, KeepFile, RevertFile, SpineStep, Files
  <1>4. CASE VerifyBefore \/ GiveUpRound \/ VerifyAfter \/ CloseRound \/ VerifyFinal
    BY <1>4 DEF VerifyBefore, GiveUpRound, VerifyAfter, CloseRound, VerifyFinal, SpineStep
  <1>5. CASE \/ \E asked, changes, same \in SUBSET Files : Plan(asked, changes, same)
             \/ HandleModifyCode \/ HandleComponentEdit \/ AnswerRequest \/ Report
    BY <1>5 DEF Plan, HandleModifyCode, HandleComponentEdit, AnswerRequest, Report
  <1> QED BY <1>1, <1>2, <1>3, <1>4, <1>5 DEF Next

LEMMA NextKeepsTypes == IInv /\ Next => CodeTypeOK'
  <1> SUFFICES ASSUME IInv, Next PROVE CodeTypeOK'
    OBVIOUS
  <1>0. CodeTypeOK
    BY DEF IInv
  <1> USE DEF planVars, fileVars, measureVars, codeVars
  <1>1. CASE VerifyBefore \/ VerifyFinal
    <2>1. CASE VerifyCached /\ UNCHANGED measureVars
      BY <1>0, <1>1, <2>1 DEF VerifyBefore, VerifyFinal, CodeTypeOK
    <2>2. CASE Measure
      BY <1>0, <1>1, <2>2, MeasureObserves DEF VerifyBefore, VerifyFinal, CodeTypeOK
    <2> QED BY <1>1, <2>1, <2>2 DEF VerifyBefore, VerifyFinal, VerifyCached
  <1>2. CASE VerifyAfter
    BY <1>0, <1>2, MeasureObserves DEF VerifyAfter, CodeTypeOK
  <1>3. CASE \E f \in Files : ApplyFile(f) \/ ApplyFails(f)
    BY <1>0, <1>3 DEF ApplyFile, ApplyFails, CodeTypeOK
  <1>4. CASE \E f \in Files : KeepFile(f) \/ RevertFile(f)
    <2>1. PICK f \in Files : KeepFile(f) \/ RevertFile(f)
      BY <1>4
    <2>2. CASE KeepFile(f)
      BY <1>0, <2>2 DEF KeepFile, CodeTypeOK, Reports
    <2>3. CASE RevertFile(f)
      BY <1>0, <2>3 DEF RevertFile, CodeTypeOK, Reports
    <2> QED BY <2>1, <2>2, <2>3
  <1>5. CASE \E asked, changes, same \in SUBSET Files : Plan(asked, changes, same)
    <2>1. PICK asked, changes, same \in SUBSET Files : Plan(asked, changes, same)
      BY <1>5
    <2>2. /\ plan' \in {plan, changes} /\ dropped' \subseteq Files /\ stage' \in {"loop", "reported"}
          /\ UNCHANGED <<backend, failed, backups, disk, record>>
          /\ UNCHANGED <<truth, current, first, judged, before, measured, stale>>
      BY <2>1 DEF Plan
    <2>3. result' \in Reports
      <3>1. \/ result' = result
            \/ result' = [result EXCEPT !.upToDate = TRUE, !.success = TRUE]
            \/ result' = [result EXCEPT !.proposed = FALSE]
        BY <2>1 DEF Plan
      <3>2. result \in Reports
        BY <1>0 DEF CodeTypeOK
      <3>3. [result EXCEPT !.upToDate = TRUE, !.success = TRUE] \in Reports
        BY <3>2 DEF Reports
      <3>4. [result EXCEPT !.proposed = FALSE] \in Reports
        BY <3>2 DEF Reports
      <3> QED BY <3>1, <3>2, <3>3, <3>4
    <2> QED BY <1>0, <2>2, <2>3 DEF CodeTypeOK
  <1>6. CASE HandleModifyCode \/ HandleComponentEdit \/ AnswerRequest \/ Report
    BY <1>0, <1>6 DEF HandleModifyCode, HandleComponentEdit, AnswerRequest, Report, CodeTypeOK, Reports
  <1>7. CASE StartRound \/ GiveUpRound \/ JudgePlan \/ CloseRound
    BY <1>0, <1>7 DEF StartRound, GiveUpRound, JudgePlan, CloseRound, CodeTypeOK
  <1> QED BY <1>1, <1>2, <1>3, <1>4, <1>5, <1>6, <1>7 DEF Next

LEMMA NextKeepsPlan == IInv /\ Next => PlanTakenOnce'
  <1> SUFFICES ASSUME IInv, Next PROVE PlanTakenOnce'
    OBVIOUS
  <1>0. TypeOK /\ SpineInv /\ CodeTypeOK /\ PlanTakenOnce
    BY DEF IInv
  <1> USE RoundLimitNat DEF planVars, codeVars, PlanTakenOnce, Done, report
  <1>1. CASE StartRound
    <2>1. CASE BeginRound(plan)
      BY <1>0, <1>1, <2>1 DEF StartRound, BeginRound, TypeOK, SpineInv
    <2>2. CASE LeaveLoop(plan)
      BY <1>0, <1>1, <2>2 DEF StartRound, LeaveLoop, TypeOK, SpineInv
    <2> QED BY <1>1, <2>1, <2>2 DEF StartRound
  <1>2. CASE VerifyBefore \/ VerifyAfter \/ VerifyFinal
    BY <1>0, <1>2 DEF VerifyBefore, VerifyAfter, VerifyFinal,
                      MeasureBefore, MeasureAfter, MeasureFinal
  <1>3. CASE \E f \in Files : ApplyFile(f) \/ ApplyFails(f)
    BY <1>0, <1>3 DEF ApplyFile, ApplyFails, Write, Skip
  <1>4. CASE \E f \in Files : KeepFile(f) \/ RevertFile(f)
    <2>1. result'.proposed = result.proposed /\ result'.upToDate = result.upToDate
      BY <1>0, <1>4 DEF KeepFile, RevertFile, CodeTypeOK, Reports
    <2> QED BY <1>0, <1>4, <2>1 DEF KeepFile, RevertFile, Keep, Revert
  <1>5. CASE \E asked, changes, same \in SUBSET Files : Plan(asked, changes, same)
    BY <1>0, <1>5 DEF Plan, spineVars, CodeTypeOK, Reports
  <1>6. CASE HandleModifyCode \/ HandleComponentEdit \/ AnswerRequest \/ Report
    BY <1>0, <1>6 DEF HandleModifyCode, HandleComponentEdit, AnswerRequest, Report, spineVars
  <1>7. CASE GiveUpRound \/ JudgePlan \/ CloseRound
    BY <1>0, <1>7 DEF GiveUpRound, JudgePlan, CloseRound, NothingWritten, JudgeRound, EndRound
  <1> QED BY <1>1, <1>2, <1>3, <1>4, <1>5, <1>6, <1>7 DEF Next

LEMMA NextKeepsVerdict == IInv /\ Next => OneVerdict'
  <1> SUFFICES ASSUME IInv, Next PROVE OneVerdict'
    OBVIOUS
  <1>0. TypeOK /\ SpineInv /\ CodeTypeOK /\ PlanTakenOnce /\ OneVerdict
    BY DEF IInv
  <1> USE RoundLimitNat DEF OneVerdict, report
  <1>1. CASE StartRound
    <2>1. CASE BeginRound(plan)
      BY <1>0, <1>1, <2>1 DEF BeginRound, PlanTakenOnce, SpineInv
    <2>2. CASE LeaveLoop(plan)
      BY <1>0, <1>1, <2>2 DEF LeaveLoop
    <2> QED BY <1>1, <2>1, <2>2 DEF StartRound
  <1>2. CASE VerifyBefore
    BY <1>0, <1>2 DEF VerifyBefore, MeasureBefore
  <1>3. CASE VerifyAfter \/ VerifyFinal
    BY <1>0, <1>3 DEF VerifyAfter, VerifyFinal, MeasureAfter, MeasureFinal
  <1>4. CASE \E f \in Files : ApplyFile(f) \/ ApplyFails(f)
    BY <1>0, <1>4 DEF ApplyFile, ApplyFails, Write, Skip
  <1>5. CASE \E f \in Files : KeepFile(f) \/ RevertFile(f)
    BY <1>0, <1>5 DEF KeepFile, RevertFile, Keep, Revert
  <1>6. CASE \/ \E asked, changes, same \in SUBSET Files : Plan(asked, changes, same)
             \/ HandleModifyCode \/ HandleComponentEdit \/ AnswerRequest \/ Report
    BY <1>0, <1>6 DEF Plan, HandleModifyCode, HandleComponentEdit, AnswerRequest, Report, spineVars
  <1>7. CASE GiveUpRound \/ JudgePlan \/ CloseRound
    BY <1>0, <1>7 DEF GiveUpRound, JudgePlan, CloseRound, NothingWritten, JudgeRound, EndRound
  <1> QED BY <1>1, <1>2, <1>3, <1>4, <1>5, <1>6, <1>7 DEF Next

LEMMA NextKeepsDisk == IInv /\ Next => DiskFollows'
  <1> SUFFICES ASSUME IInv, Next PROVE DiskFollows'
    OBVIOUS
  <1>0. TypeOK /\ SpineInv /\ CodeTypeOK /\ OneVerdict /\ DiskFollows
    BY DEF IInv
  <1> USE DEF planVars, fileVars, measureVars, codeVars, report
  <1>1. CASE \E f \in Files : ApplyFile(f)
    <2> PICK f \in Files : ApplyFile(f)
      BY <1>1
    <2> QED BY <1>0 DEF ApplyFile, Write, DiskFollows, CodeTypeOK, SpineInv, OneVerdict
  <1>2. CASE \E f \in Files : ApplyFails(f)
    <2> PICK f \in Files : ApplyFails(f)
      BY <1>2
    <2>1. \A g \in Files \ {f} : disk'[g] = disk[g]
      BY <1>0 DEF ApplyFails, CodeTypeOK
    <2>2. f \notin wrote /\ kept = {}
      BY <1>0 DEF ApplyFails, Skip, SpineInv, OneVerdict
    <2> QED BY <1>0, <2>1, <2>2 DEF ApplyFails, Skip, DiskFollows, TypeOK, Files
  <1>3. CASE \E f \in Files : KeepFile(f)
    BY <1>0, <1>3 DEF KeepFile, Keep, DiskFollows
  <1>4. CASE \E f \in Files : RevertFile(f)
    <2> PICK f \in Files : RevertFile(f)
      BY <1>4
    <2>1. /\ \A g \in Files \ {f} : disk'[g] = disk[g]
          /\ f \notin failed' => disk'[f] = "old"
          /\ failed \subseteq failed'
      BY <1>0 DEF RevertFile, CodeTypeOK
    <2>2. f \in attempted /\ kept = {}
      BY <1>0 DEF RevertFile, Revert, SpineInv, OneVerdict
    <2> QED BY <1>0, <2>1, <2>2 DEF RevertFile, Revert, DiskFollows, TypeOK, Files
  <1>5. CASE StartRound
    BY <1>0, <1>5 DEF StartRound, BeginRound, LeaveLoop, DiskFollows
  <1>6. CASE \/ VerifyBefore \/ VerifyAfter \/ VerifyFinal
             \/ GiveUpRound \/ JudgePlan \/ CloseRound
    <2>1. UNCHANGED <<attempted, skipped, wrote, kept, reverted, failed, disk>>
      BY <1>6 DEF VerifyBefore, VerifyAfter, VerifyFinal, GiveUpRound, JudgePlan, CloseRound,
                  MeasureBefore, MeasureAfter, MeasureFinal, NothingWritten, JudgeRound, EndRound
    <2> QED BY <1>0, <2>1 DEF DiskFollows
  <1>7. CASE \/ \E asked, changes, same \in SUBSET Files : Plan(asked, changes, same)
             \/ HandleModifyCode \/ HandleComponentEdit \/ AnswerRequest \/ Report
    <2>1. UNCHANGED <<attempted, skipped, wrote, kept, reverted, failed, disk>>
      BY <1>7 DEF Plan, HandleModifyCode, HandleComponentEdit, AnswerRequest, Report, spineVars
    <2> QED BY <1>0, <2>1 DEF DiskFollows
  <1> QED BY <1>1, <1>2, <1>3, <1>4, <1>5, <1>6, <1>7 DEF Next

LEMMA NextKeepsReport == IInv /\ Next => ReportFollows'
  <1> SUFFICES ASSUME IInv, Next PROVE ReportFollows'
    OBVIOUS
  <1>0. TypeOK /\ SpineInv /\ CodeTypeOK /\ PlanTakenOnce /\ OneVerdict /\ ReportFollows
    BY DEF IInv
  <1> USE DEF planVars, fileVars, measureVars, codeVars, report, ReportFollows, Done
  <1>1. CASE \/ StartRound \/ VerifyBefore \/ VerifyAfter \/ VerifyFinal
             \/ GiveUpRound \/ JudgePlan \/ CloseRound
    <2>1. pc # "done" /\ kept' = kept /\ stage' = stage /\ result' = result
      BY <1>1 DEF StartRound, VerifyBefore, VerifyAfter, VerifyFinal, GiveUpRound, JudgePlan,
                  CloseRound, BeginRound, LeaveLoop, MeasureBefore, MeasureAfter, MeasureFinal,
                  NothingWritten, JudgeRound, EndRound
    <2>2. ~Done
      BY <1>0, <2>1 DEF PlanTakenOnce
    <2> QED BY <1>0, <2>1, <2>2
  <1>2. CASE \E f \in Files : ApplyFile(f) \/ ApplyFails(f) \/ KeepFile(f) \/ RevertFile(f)
    <2> PICK f \in Files : ApplyFile(f) \/ ApplyFails(f) \/ KeepFile(f) \/ RevertFile(f)
      BY <1>2
    <2>1. /\ pc # "done" /\ stage' = stage
          /\ result'.proposed = result.proposed /\ result'.upToDate = result.upToDate
          /\ result.changed = kept => result'.changed = kept'
      BY <1>0 DEF ApplyFile, ApplyFails, KeepFile, RevertFile, Write, Skip, Keep, Revert,
                  CodeTypeOK, Reports
    <2>2. ~Done
      BY <1>0, <2>1 DEF PlanTakenOnce
    <2> QED BY <1>0, <2>1, <2>2
  <1>3. CASE \E asked, changes, same \in SUBSET Files : Plan(asked, changes, same)
    BY <1>0, <1>3 DEF Plan, spineVars, CodeTypeOK, Reports
  <1>4. CASE HandleModifyCode \/ HandleComponentEdit
    BY <1>0, <1>4 DEF HandleModifyCode, HandleComponentEdit, spineVars
  <1>5. CASE AnswerRequest
    BY <1>0, <1>5 DEF AnswerRequest, spineVars
  <1>6. CASE Report
    BY <1>0, <1>6 DEF Report, spineVars, CodeTypeOK, Reports
  <1> QED BY <1>1, <1>2, <1>3, <1>4, <1>5, <1>6 DEF Next

LEMMA NextKeepsMeasured == IInv /\ Next => MeasuredTree'
  <1> SUFFICES ASSUME IInv, Next PROVE MeasuredTree'
    OBVIOUS
  <1>0. /\ TypeOK /\ SpineInv /\ CodeTypeOK /\ PlanTakenOnce /\ OneVerdict
        /\ DiskFollows /\ MeasuredTree
    BY DEF IInv
  <1> USE RoundLimitNat DEF planVars, fileVars, measureVars, codeVars, report
  <1>1. CASE StartRound
    <2>1. CASE BeginRound(plan)
      <3>1. round = 0 /\ kept = {} /\ reverted = {} /\ ~measured /\ pc' = "before"
        BY <1>0, <2>1 DEF BeginRound, PlanTakenOnce, SpineInv, MeasuredTree
      <3> QED BY <1>0, <1>1, <2>1, <3>1 DEF StartRound, BeginRound, MeasuredTree, Observes
    <2>2. CASE LeaveLoop(plan)
      <3>1. round > 0 /\ pc = "begin" /\ pc' = "final" /\ UNCHANGED <<round, kept, reverted>>
        BY <1>0, <1>1, <2>2 DEF StartRound, LeaveLoop, PlanTakenOnce, TypeOK, SpineInv
      <3> QED BY <1>0, <1>1, <3>1 DEF StartRound, MeasuredTree, Observes
    <2> QED BY <1>1, <2>1, <2>2 DEF StartRound
  <1>2. CASE VerifyBefore
    <2>1. Measure /\ disk = Original /\ kept = {} /\ reverted = {}
      BY <1>0, <1>2 DEF VerifyBefore, VerifyCached, MeasureBefore, MeasuredTree,
                        PlanTakenOnce, OneVerdict, DiskFollows, CodeTypeOK, Original
    <2> QED BY <1>0, <1>2, <2>1, MeasureObserves
            DEF VerifyBefore, MeasureBefore, MeasuredTree, Observes, PlanTakenOnce
  <1>3. CASE VerifyAfter
    <2>1. kept = {} /\ reverted = {} /\ round > 0
      BY <1>0, <1>3 DEF VerifyAfter, MeasureAfter, OneVerdict, PlanTakenOnce, TypeOK
    <2> QED BY <1>0, <1>3, <2>1, MeasureObserves
            DEF VerifyAfter, MeasureAfter, MeasuredTree, Observes
  <1>4. CASE VerifyFinal
    <2>1. round > 0 /\ measured /\ Observes(before, Original)
      BY <1>0, <1>4 DEF VerifyFinal, MeasureFinal, PlanTakenOnce, MeasuredTree, TypeOK
    <2>2. CASE stale
      <3>1. Measure /\ kept = {}
        BY <1>0, <1>4, <2>2 DEF VerifyFinal, VerifyCached, MeasuredTree, OneVerdict
      <3> QED BY <1>0, <1>4, <2>1, <3>1, MeasureObserves
              DEF VerifyFinal, MeasureFinal, MeasuredTree, Observes
    <2>3. CASE ~stale
      <3>1. UNCHANGED measureVars
        BY <1>4, <2>1, <2>3 DEF VerifyFinal, VerifyCached
      <3>2. failed = {} => Observes(current, disk)
        BY <1>0, <1>4, <2>1, <2>3
        DEF VerifyFinal, MeasureFinal, SpineInv, OneVerdict, DiskFollows, MeasuredTree
      <3> QED BY <1>0, <1>4, <2>1, <2>3, <3>1, <3>2
              DEF VerifyFinal, MeasureFinal, MeasuredTree, Observes
    <2> QED BY <2>2, <2>3
  <1>5. CASE \E f \in Files : ApplyFile(f) \/ ApplyFails(f)
    <2>1. /\ pc = "write" /\ kept = {} /\ reverted = {}
          /\ UNCHANGED <<pc, round, kept, reverted, measureVars, before>>
      BY <1>0, <1>5 DEF ApplyFile, ApplyFails, Write, Skip, OneVerdict
    <2> QED BY <1>0, <2>1 DEF MeasuredTree, Observes
  <1>6. CASE \E f \in Files : KeepFile(f)
    <2>1. /\ pc = "accept" /\ reverted = {}
          /\ UNCHANGED <<pc, round, reverted, measureVars, before, fileVars>>
      BY <1>0, <1>6 DEF KeepFile, Keep, OneVerdict
    <2> QED BY <1>0, <2>1 DEF MeasuredTree, Observes
  <1>7. CASE \E f \in Files : RevertFile(f)
    <2>1. /\ pc = "reject" /\ kept = {} /\ reverted' # {} /\ stale'
          /\ UNCHANGED <<pc, round, kept, truth, current, measured, before>>
      BY <1>0, <1>7 DEF RevertFile, Revert, OneVerdict
    <2> QED BY <1>0, <2>1 DEF MeasuredTree, Observes
  <1>8. CASE GiveUpRound \/ JudgePlan \/ CloseRound
    <2>1. /\ UNCHANGED <<round, kept, reverted, measureVars, before, disk, failed>>
          /\ \/ pc = "write" /\ pc' = "final"
             \/ pc = "judge" /\ pc' \in {"reject", "accept"}
             \/ pc \in {"reject", "accept"} /\ pc' = "begin"
      BY <1>8 DEF GiveUpRound, JudgePlan, CloseRound, NothingWritten, JudgeRound, EndRound
    <2>2. /\ reverted # {} /\ pc \in {"write", "judge", "accept"} => FALSE
          /\ round > 0
      BY <1>0, <2>1 DEF OneVerdict, PlanTakenOnce, TypeOK
    <2> QED BY <1>0, <2>1, <2>2 DEF MeasuredTree, Observes
  <1>9. CASE \/ \E asked, changes, same \in SUBSET Files : Plan(asked, changes, same)
             \/ HandleModifyCode \/ HandleComponentEdit \/ AnswerRequest \/ Report
    <2>1. UNCHANGED <<spineVars, measureVars, before, disk, failed>>
      BY <1>9 DEF Plan, HandleModifyCode, HandleComponentEdit, AnswerRequest, Report
    <2> QED BY <1>0, <2>1 DEF MeasuredTree, Observes, spineVars
  <1> QED BY <1>1, <1>2, <1>3, <1>4, <1>5, <1>6, <1>7, <1>8, <1>9 DEF Next

LEMMA NextKeepsNoWorse == IInv /\ Next => KeptIsNoWorse'
  <1> SUFFICES ASSUME IInv, Next PROVE KeptIsNoWorse'
    OBVIOUS
  <1>0. /\ TypeOK /\ SpineInv /\ CodeTypeOK /\ PlanTakenOnce /\ OneVerdict
        /\ MeasuredTree /\ KeptIsNoWorse
    BY DEF IInv
  <1> USE CodeModifyAssumption DEF planVars, fileVars, measureVars, codeVars, report, KeptIsNoWorse
  <1>1. CASE JudgePlan
    <2>1. pc' = "accept" => ~ProjectWorse
      BY <1>1 DEF JudgePlan, JudgeRound
    <2>2. current.errors \in Nat /\ before.errors \in Nat /\ kept = {}
      BY <1>0, <1>1 DEF CodeTypeOK, Obs, JudgePlan, JudgeRound, OneVerdict
    <2>3. ~ProjectWorse => current.errors <= before.errors /\ ~Worse(before.host, current.host)
      BY <2>2 DEF ProjectWorse
    <2> QED BY <1>1, <2>1, <2>2, <2>3 DEF JudgePlan, JudgeRound
  <1>2. CASE \E f \in Files : KeepFile(f)
    BY <1>0, <1>2 DEF KeepFile, Keep
  <1>3. CASE CloseRound
    BY <1>0, <1>3 DEF CloseRound, EndRound
  <1>4. CASE VerifyFinal
    <2>1. CASE kept = {}
      BY <1>4, <2>1 DEF VerifyFinal, MeasureFinal
    <2>2. CASE kept # {}
      <3>1. measured /\ ~stale
        BY <1>0, <1>4, <2>2 DEF VerifyFinal, MeasureFinal, MeasuredTree, OneVerdict, PlanTakenOnce, TypeOK
      <3> QED BY <1>0, <1>4, <3>1 DEF VerifyFinal, VerifyCached, MeasureFinal
    <2> QED BY <2>1, <2>2
  <1>5. CASE VerifyBefore \/ VerifyAfter \/ GiveUpRound
    BY <1>0, <1>5 DEF VerifyBefore, VerifyAfter, GiveUpRound, MeasureBefore, MeasureAfter,
                      NothingWritten, OneVerdict
  <1>6. CASE \E f \in Files : ApplyFile(f) \/ ApplyFails(f) \/ RevertFile(f)
    BY <1>0, <1>6 DEF ApplyFile, ApplyFails, RevertFile, Write, Skip, Revert, OneVerdict
  <1>7. CASE StartRound
    BY <1>0, <1>7 DEF StartRound, BeginRound, LeaveLoop
  <1>8. CASE \/ \E asked, changes, same \in SUBSET Files : Plan(asked, changes, same)
             \/ HandleModifyCode \/ HandleComponentEdit \/ AnswerRequest \/ Report
    <2>1. UNCHANGED <<spineVars, measureVars, before>>
      BY <1>8 DEF Plan, HandleModifyCode, HandleComponentEdit, AnswerRequest, Report
    <2> QED BY <1>0, <2>1 DEF spineVars
  <1> QED BY <1>1, <1>2, <1>3, <1>4, <1>5, <1>6, <1>7, <1>8 DEF Next

(* Everything that does not touch a variable keeps what is said of it.      *)
LEMMA NextKeeps == IInv /\ [Next]_vars => IInv'
  <1>1. ASSUME IInv, Next PROVE IInv'
    <2>1. TypeOK' /\ SpineInv'
      BY <1>1, NextDrivesSpine, StepKeepsInv, StutterKeepsInv DEF IInv
    <2> QED BY <1>1, <2>1, NextKeepsTypes, NextKeepsPlan, NextKeepsVerdict, NextKeepsDisk,
               NextKeepsMeasured, NextKeepsNoWorse, NextKeepsReport DEF IInv
  <1>2. ASSUME IInv, UNCHANGED vars PROVE IInv'
    <2> USE DEF vars, codeVars, planVars, fileVars, measureVars
    <2>1. TypeOK' /\ SpineInv'
      BY <1>2, StutterKeepsInv DEF IInv
    <2>2. CodeTypeOK' /\ PlanTakenOnce' /\ OneVerdict'
      BY <1>2 DEF IInv, CodeTypeOK, PlanTakenOnce, OneVerdict, Done, spineVars
    <2>3. DiskFollows' /\ MeasuredTree' /\ KeptIsNoWorse' /\ ReportFollows'
      BY <1>2 DEF IInv, DiskFollows, MeasuredTree, Observes, KeptIsNoWorse, ReportFollows,
                  Done, spineVars
    <2> QED BY <2>1, <2>2, <2>3 DEF IInv
  <1> QED BY <1>1, <1>2

-----------------------------------------------------------------------------
(* What holds of a run at every moment, for every set of files, every round *)
(* limit and every number of errors.                                        *)
THEOREM CodeModifyInvariant == CodeSpec => []IInv
  BY InitEstablishes, NextKeeps, PTL DEF CodeSpec

(* The run's state is always of its type.                                   *)
THEOREM CodeModifyTypes == CodeSpec => []CodeTypeOK
  <1>1. IInv => CodeTypeOK
    BY DEF IInv
  <1> QED BY <1>1, CodeModifyInvariant, PTL

(* The lists of a run that has ended divide what was planned.               *)
LEMMA EndedRun ==
  IInv /\ Done => /\ attempted = kept \union reverted \union skipped
                  /\ round > 0 /\ pc = "done"
                  /\ failed = {} => Observes(current, disk) /\ skipped = {}
                  /\ kept # {} => Observes(current, disk)
                  /\ Observes(before, Original)
  BY DEF IInv, SpineInv, PlanTakenOnce, DiskFollows, MeasuredTree, TypeOK

(* Nothing kept, and no read or write failed: the tree is the one found.    *)
LEMMA PutBack == IInv /\ Done /\ failed = {} /\ kept = {} => disk = Original
  <1> SUFFICES ASSUME IInv, Done, failed = {}, kept = {} PROVE disk = Original
    OBVIOUS
  <1>1. \A f \in Files : disk[f] = "old"
    BY EndedRun DEF IInv, DiskFollows
  <1> QED BY <1>1 DEF IInv, CodeTypeOK, Original

(* A plan is applied or rolled back as a whole, however many files it       *)
(* names: unless a read or a write failed, a finished run leaves all of     *)
(* them rewritten or all of them as they were.                              *)
THEOREM PlanIsOneIntent == CodeSpec => []AppliedAsAWhole
  <1>1. IInv => AppliedAsAWhole
    <2> SUFFICES ASSUME IInv, Done, failed = {}, kept # {}
                 PROVE \A f \in attempted : disk[f] = "new"
      BY PutBack DEF AppliedAsAWhole
    <2> QED BY EndedRun DEF IInv, OneVerdict, DiskFollows
  <1> QED BY <1>1, CodeModifyInvariant, PTL

(* The tree a run leaves behind is no worse than the one it found, in the   *)
(* errors of its build and in its host tests, for any tools whose answers   *)
(* about a tree are repeatable, unless a read or a write failed.            *)
THEOREM LeavesNothingWorse == CodeSpec => []NeverLeftWorse
  <1>1. IInv => NeverLeftWorse
    <2> SUFFICES ASSUME IInv, Done, failed = {}
                 PROVE /\ disk \in DOMAIN truth
                       /\ truth[disk].errors <= truth[Original].errors
                       /\ ~Worse(truth[Original].host, truth[disk].host)
      BY DEF NeverLeftWorse
    <2>1. Observes(current, disk) /\ Observes(before, Original)
      BY EndedRun
    <2>2. CASE kept = {}
      <3>1. disk = Original /\ truth[Original] \in Obs
        BY <2>1, <2>2, PutBack DEF IInv, CodeTypeOK, Observes
      <3>2. truth[Original].errors \in Nat
        BY <3>1, CodeModifyAssumption DEF Obs
      <3> QED BY <2>1, <3>1, <3>2 DEF Observes, Worse
    <2>3. CASE kept # {}
      BY <2>1, <2>3 DEF IInv, KeptIsNoWorse, Observes
    <2> QED BY <2>2, <2>3
  <1> QED BY <1>1, CodeModifyInvariant, PTL

(* A run that reports success kept something, and the tools found the very  *)
(* tree on disk clean; WithTarget is said only of a target leg that passed  *)
(* on it.  This holds even of a run in which reads or writes failed.        *)
THEOREM SuccessWasVerified == CodeSpec => []SuccessIsVerified
  <1>1. IInv => SuccessIsVerified
    <2> SUFFICES ASSUME IInv, Done, result.success
                 PROVE /\ result.changed # {}
                       /\ disk \in DOMAIN truth
                       /\ truth[disk].errors = 0 /\ truth[disk].host # "fail"
                       /\ result.verified = "WithTarget" => truth[disk].target = "pass"
      BY DEF SuccessIsVerified
    <2>1. result.changed # {} /\ Clean(current) /\ Observes(current, disk)
      BY EndedRun DEF IInv, ReportFollows
    <2>2. result.verified = "WithTarget" => current.target # "none"
      BY DEF IInv, ReportFollows
    <2>3. truth[disk].target \in Legs
      BY <2>1 DEF IInv, CodeTypeOK, Observes, Obs
    <2> QED BY <2>1, <2>2, <2>3 DEF Observes, Clean, Legs
  <1> QED BY <1>1, CodeModifyInvariant, PTL
=============================================================================
