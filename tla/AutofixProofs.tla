---------------------------- MODULE AutofixProofs ----------------------------
(***************************************************************************)
(* What the two phases of run_autofix guarantee for any number of files,   *)
(* rewrites, errors and warnings.                                          *)
(***************************************************************************)
EXTENDS Autofix, ModifySpineProofs, FiniteSetTheorems, WellFoundedInduction

Inv == TypeOK /\ SpineInv /\ AutofixTypeOK /\ TreeInv

(* Induction, for a set of naturals.                                        *)
LEMMA NaturalsInSet ==
  ASSUME NEW P, 0 \in P, \A n \in Nat : n \in P => n + 1 \in P
  PROVE  Nat \subseteq P
  <1> DEFINE below == {p \in Nat \X Nat : p[1] < p[2]}
  <1>1. IsWellFoundedOn(below, Nat)
    BY NatLessThanWellFounded DEF OpToRel
  <1>2. \A n \in Nat \ {0} : n - 1 \in Nat /\ <<n - 1, n>> \in below /\ (n - 1) + 1 = n
    OBVIOUS
  <1> HIDE DEF below
  <1> SUFFICES ASSUME Nat \ P # {} PROVE FALSE
    OBVIOUS
  <1>3. PICK n \in Nat \ P : \A m \in Nat \ P : <<m, n>> \notin below
    BY <1>1, WFMin
  <1> QED BY <1>2, <1>3

(* The diagnostics of finitely many files add up to a number.               *)
LEMMA SumIsNat ==
  ASSUME NEW S, IsFiniteSet(S), NEW counts \in [S -> Nat]
  PROVE  SumFunction(counts) \in Nat
  <1> DEFINE Any(s) == CHOOSE x \in s : TRUE
             Step(f, s) == IF s = {} THEN 0 ELSE counts[Any(s)] + f[s \ {Any(s)}]
             Below(n) == {s \in SUBSET S : Cardinality(s) < n}
             P == {n \in Nat : \E f \in [Below(n) -> Nat] : \A s \in Below(n) : f[s] = Step(f, s)}
             Solves(f) == f = [s \in SUBSET S |-> Step(f, s)]
             Q(f) == {n \in Nat : \A s \in Below(n) : f[s] \in Nat}
             sum == CHOOSE f : Solves(f)
  <1>1. /\ Cardinality(S) \in Nat
        /\ \A s \in SUBSET S : Cardinality(s) \in Nat /\ Cardinality(s) <= Cardinality(S)
    BY FS_CardinalityType, FS_Subset
  <1>2. \A s \in SUBSET S : s # {} =>
          /\ Any(s) \in S /\ s \ {Any(s)} \in SUBSET S
          /\ Cardinality(s \ {Any(s)}) < Cardinality(s)
    <2> SUFFICES ASSUME NEW s \in SUBSET S, s # {}
                 PROVE  /\ Any(s) \in S /\ s \ {Any(s)} \in SUBSET S
                        /\ Cardinality(s \ {Any(s)}) < Cardinality(s)
      OBVIOUS
    <2>1. Any(s) \in s
      OBVIOUS
    <2>2. IsFiniteSet(s)
      BY FS_Subset
    <2> HIDE DEF Any
    <2>3. Cardinality(s \ {Any(s)}) = Cardinality(s) - 1
      BY <2>1, <2>2, FS_RemoveElement
    <2> QED BY <1>1, <2>1, <2>3
  <1> HIDE DEF Any
  <1>3. \A n \in Nat : \A s \in Below(n + 1) : s # {} => s \ {Any(s)} \in Below(n)
    BY <1>1, <1>2
  <1>4. Nat \subseteq P
    <2>1. 0 \in P
      <3>1. Below(0) = {}
        BY <1>1
      <3>2. [s \in Below(0) |-> 0] \in [Below(0) -> Nat]
        OBVIOUS
      <3> QED BY <3>1, <3>2
    <2>2. ASSUME NEW n \in Nat, n \in P PROVE n + 1 \in P
      <3>1. PICK f \in [Below(n) -> Nat] : \A s \in Below(n) : f[s] = Step(f, s)
        BY <2>2
      <3> DEFINE g == [s \in Below(n + 1) |-> Step(f, s)]
      <3>2. \A s \in Below(n) : s \in Below(n + 1) /\ g[s] = f[s]
        BY <1>1, <3>1
      <3>3. g \in [Below(n + 1) -> Nat]
        BY <1>2, <1>3, <3>1
      <3>4. \A s \in Below(n + 1) : g[s] = Step(g, s)
        BY <1>3, <3>2
      <3> HIDE DEF g, Step, Below
      <3>5. n + 1 \in Nat
        OBVIOUS
      <3> QED BY <3>3, <3>4, <3>5
    <2> HIDE DEF P
    <2> QED BY <2>1, <2>2, NaturalsInSet
  <1>5. ASSUME NEW f, Solves(f) PROVE Nat \subseteq Q(f)
    <2>1. 0 \in Q(f)
      BY <1>1
    <2>2. ASSUME NEW n \in Nat, n \in Q(f) PROVE n + 1 \in Q(f)
      <3> SUFFICES ASSUME NEW s \in Below(n + 1) PROVE f[s] \in Nat
        OBVIOUS
      <3>1. f[s] = Step(f, s)
        BY <1>5
      <3> QED BY <1>2, <1>3, <2>2, <3>1
    <2> HIDE DEF Q
    <2> QED BY <2>1, <2>2, NaturalsInSet
  <1>6. Below(Cardinality(S) + 1) = SUBSET S
    BY <1>1
  <1>7. Solves(sum)
    <2>1. PICK f \in [SUBSET S -> Nat] : \A s \in SUBSET S : f[s] = Step(f, s)
      <3>1. Cardinality(S) + 1 \in P
        <4> HIDE DEF P
        <4> QED BY <1>1, <1>4
      <3>2. \E f \in [Below(Cardinality(S) + 1) -> Nat] :
              \A s \in Below(Cardinality(S) + 1) : f[s] = Step(f, s)
        BY <3>1
      <3> HIDE DEF Below, Step
      <3> QED BY <1>6, <3>2
    <2>2. Solves(f)
      <3> HIDE DEF Step
      <3> QED BY <2>1
    <2> HIDE DEF Solves
    <2> QED BY <2>2
  <1>8. SumFunction(counts) = sum[S]
    <2>1. DOMAIN counts = S
      OBVIOUS
    <2> QED
      BY <2>1 DEF SumFunction, SumFunctionOnSet, FoldFunctionOnSet, MapThenFoldSet, Any
  <1>9. Cardinality(S) + 1 \in Q(sum)
    <2> HIDE DEF Solves, Q, sum
    <2> QED BY <1>1, <1>5, <1>7
  <1> HIDE DEF sum
  <1> QED BY <1>6, <1>8, <1>9
-----------------------------------------------------------------------------
(* A measurement answers for the tree it was taken of, and keeps the record *)
(* of earlier ones.                                                         *)
LEMMA LearnRecords ==
  ASSUME NEW known, NEW tree, NEW trees, NEW possible,
         NEW answer \in Answers(known, tree, possible),
         DOMAIN known \subseteq trees, tree \in trees, Range(known) \subseteq possible
  PROVE  /\ answer \in possible
         /\ tree \in DOMAIN Learn(known, tree, answer)
         /\ Learn(known, tree, answer)[tree] = answer
         /\ DOMAIN Learn(known, tree, answer) \subseteq trees
         /\ Range(Learn(known, tree, answer)) \subseteq possible
  BY DEF Answers, Learn, Range

LEMMA InitEstablishes == Init => Inv
  <1> SUFFICES ASSUME Init PROVE Inv
    OBVIOUS
  <1> USE AutofixAssumption
  <1>1. TypeOK /\ SpineInv
    BY InitEstablishesInv DEF Init
  <1>2. PICK errors \in Errors :
          /\ compiled = Learn(Nothing, Pristine, errors)
          /\ current = [errors |-> errors, warnings |-> NoCounts]
          /\ result = EmptyReport(errors)
    BY DEF Init, Errors
  <1>3. Pristine \in Trees /\ NoCounts \in Warnings
    BY DEF Pristine, Trees, NoCounts, Warnings
  <1>4. DOMAIN compiled = {Pristine} /\ compiled[Pristine] = errors /\ Range(compiled) = {errors}
    BY <1>2 DEF Learn, Nothing, Range
  <1>5. DOMAIN Nothing = {} /\ Range(Nothing) = {}
    BY DEF Nothing, Range
  <1>6. AutofixTypeOK
    <2>1. {current, before} \subseteq [errors : Errors, warnings : Warnings]
      BY <1>2, <1>3 DEF Init
    <2>2. /\ DOMAIN result = {"errorsBefore", "errorsAfter", "fixed", "warningsFixed",
                              "warningsReverted", "success"}
          /\ result.fixed = {} /\ result.warningsFixed = {}
      BY <1>2 DEF EmptyReport
    <2>3. /\ DOMAIN compiled \subseteq Trees /\ Range(compiled) \subseteq Errors
          /\ DOMAIN linted \subseteq Trees /\ Range(linted) \subseteq Warnings
          /\ DOMAIN backups \subseteq Files /\ Range(backups) \subseteq {0}
      BY <1>2, <1>3, <1>4, <1>5 DEF Init
    <2> QED BY <1>3, <2>1, <2>2, <2>3 DEF Init, AutofixTypeOK
  <1>7. TreeInv
    BY <1>2, <1>4, <1>5 DEF Init, TreeInv, SpineInit, Pristine, Fresh
  <1> QED BY <1>1, <1>6, <1>7 DEF Inv

-----------------------------------------------------------------------------
(* verify(): the part of a step that measures leaves a fresh observation.   *)
LEMMA RemeasureFresh ==
  ASSUME AutofixTypeOK, Remeasure
  PROVE  /\ DOMAIN compiled' \subseteq Trees /\ Range(compiled') \subseteq Errors
         /\ DOMAIN linted' \subseteq Trees /\ Range(linted') \subseteq Warnings
         /\ current' \in [errors : Errors, warnings : Warnings]
         /\ stale' = FALSE
         /\ disk \in DOMAIN compiled' /\ current'.errors = compiled'[disk]
         /\ phase # "errors" => disk \in DOMAIN linted' /\ current'.warnings = linted'[disk]
  <1> USE AutofixAssumption DEF AutofixTypeOK
  <1>1. PICK errors \in Answers(compiled, disk, Errors) :
          /\ compiled' = Learn(compiled, disk, errors)
          /\ IF phase = "errors"
             THEN /\ current' = [errors |-> errors, warnings |-> NoCounts]
                  /\ UNCHANGED linted
             ELSE \E warnings \in Answers(linted, disk, Warnings) :
                    /\ linted' = Learn(linted, disk, warnings)
                    /\ current' = [errors |-> errors, warnings |-> warnings]
    BY DEF Remeasure
  <1>2. disk \in Trees /\ DOMAIN compiled \subseteq Trees /\ Range(compiled) \subseteq Errors
        /\ DOMAIN linted \subseteq Trees /\ Range(linted) \subseteq Warnings
    OBVIOUS
  <1>3. /\ errors \in Errors
        /\ DOMAIN compiled' \subseteq Trees /\ Range(compiled') \subseteq Errors
        /\ disk \in DOMAIN compiled' /\ compiled'[disk] = errors
    <2> HIDE DEF AutofixTypeOK
    <2> QED BY <1>1, <1>2, LearnRecords
  <1>4. stale' = FALSE
    BY DEF Remeasure
  <1>5. CASE phase = "errors"
    <2>1. NoCounts \in Warnings
      BY DEF NoCounts, Warnings
    <2> QED BY <1>1, <1>2, <1>3, <1>4, <1>5, <2>1
  <1>6. CASE phase # "errors"
    <2> HIDE DEF AutofixTypeOK
    <2>1. PICK warnings \in Answers(linted, disk, Warnings) :
            /\ linted' = Learn(linted, disk, warnings)
            /\ current' = [errors |-> errors, warnings |-> warnings]
      BY <1>1, <1>6
    <2>2. /\ warnings \in Warnings
          /\ DOMAIN linted' \subseteq Trees /\ Range(linted') \subseteq Warnings
          /\ disk \in DOMAIN linted' /\ linted'[disk] = warnings
      BY <1>2, <2>1, LearnRecords
    <2> QED BY <1>3, <1>4, <1>6, <2>1, <2>2
  <1> QED BY <1>5, <1>6

-----------------------------------------------------------------------------
(* Each step of a phase is a step of the spine, the start of the warning    *)
(* phase starts it over, and the report leaves it alone.                    *)
LEMMA NextDrivesSpine == Next => SpineStep \/ Rerun \/ UNCHANGED spineVars
  <1> SUFFICES ASSUME Next PROVE SpineStep \/ Rerun \/ UNCHANGED spineVars
    OBVIOUS
  <1>1. Fixable \in SUBSET Targets
    BY DEF Fixable, Reported, Files
  <1>2. ASSUME JudgeFiles PROVE JudgeRound(TRUE) \/ JudgeRound(FALSE)
    BY <1>2 DEF JudgeFiles, JudgeRound
  <1>3. CASE \E f \in Files : SkipFile(f) \/ WriteFile(f) \/ RevertFile(f) \/ KeepFile(f)
    BY <1>3 DEF SkipFile, WriteFile, RevertFile, KeepFile, SpineStep, Files
  <1>4. CASE StartRound
    BY <1>1, <1>4 DEF StartRound, SpineStep
  <1>5. CASE JudgeFiles
    BY <1>2, <1>5 DEF SpineStep
  <1>6. CASE VerifyBefore \/ GiveUpRound \/ VerifyAfter \/ CloseRound \/ VerifyFinal
    BY <1>6 DEF VerifyBefore, GiveUpRound, VerifyAfter, CloseRound, VerifyFinal, SpineStep
  <1>7. CASE StartWarnings \/ ReportErrors \/ ReportWarnings
    BY <1>7 DEF StartWarnings, ReportErrors, ReportWarnings
  <1> QED BY <1>3, <1>4, <1>5, <1>6, <1>7 DEF Next

LEMMA RerunKeepsInv == Rerun => TypeOK' /\ SpineInv'
  <1> SUFFICES ASSUME Rerun PROVE TypeOK' /\ SpineInv'
    OBVIOUS
  <1>1. TypeOK'
    BY RoundLimitNat DEF Rerun, TypeOK, PCs
  <1>2. SpineInv'
    BY DEF Rerun, SpineInv
  <1> QED BY <1>1, <1>2

LEMMA NextKeepsTypes == Inv /\ Next => AutofixTypeOK'
  <1> SUFFICES ASSUME Inv, Next PROVE AutofixTypeOK'
    OBVIOUS
  <1> USE DEF adapterVars
  <1>0. AutofixTypeOK /\ TreeInv
    BY DEF Inv
  <1>1. CASE StartRound \/ GiveUpRound \/ JudgeFiles \/ CloseRound
    BY <1>0, <1>1 DEF StartRound, GiveUpRound, JudgeFiles, CloseRound, AutofixTypeOK
  <1>2. CASE VerifyBefore
    <2>1. CASE stale
      BY <1>0, <1>2, <2>1, RemeasureFresh DEF VerifyBefore, AutofixTypeOK
    <2>2. CASE ~stale
      BY <1>0, <1>2, <2>2 DEF VerifyBefore, AutofixTypeOK
    <2> QED BY <2>1, <2>2
  <1>3. CASE VerifyAfter
    BY <1>0, <1>3, RemeasureFresh DEF VerifyAfter, AutofixTypeOK
  <1>4. CASE VerifyFinal
    <2>1. CASE stale
      BY <1>0, <1>4, <2>1, RemeasureFresh DEF VerifyFinal, AutofixTypeOK
    <2>2. CASE ~stale
      BY <1>0, <1>4, <2>2 DEF VerifyFinal, AutofixTypeOK
    <2> QED BY <2>1, <2>2
  <1>5. ASSUME NEW f \in Files, BackUp(f) \/ UNCHANGED backups
        PROVE  DOMAIN backups' \subseteq Files /\ Range(backups') \subseteq {0}
    BY <1>0, <1>5 DEF BackUp, Learn, AutofixTypeOK, TreeInv, Range
  <1>6. CASE \E f \in Files : SkipFile(f)
    BY <1>0, <1>5, <1>6 DEF SkipFile, AutofixTypeOK
  <1>7. CASE \E f \in Files : WriteFile(f)
    <2> PICK f \in Files, v \in Versions : WriteFile(f) /\ disk' = [disk EXCEPT ![f] = v]
      BY <1>7 DEF WriteFile
    <2>1. disk' \in Trees
      BY <1>0 DEF AutofixTypeOK, Trees
    <2> QED BY <1>0, <1>5, <2>1 DEF WriteFile, AutofixTypeOK
  <1>8. CASE \E f \in Files : RevertFile(f)
    <2> PICK f \in Files : RevertFile(f)
      BY <1>8
    <2>1. backups[f] = 0
      BY <1>0 DEF RevertFile, Revert, TreeInv, AutofixTypeOK, Range
    <2>2. disk' \in Trees
      BY <1>0, <2>1 DEF RevertFile, AutofixTypeOK, Trees
    <2>3. DOMAIN result' = DOMAIN result /\ result'.fixed = result.fixed
          /\ result'.warningsFixed = result.warningsFixed
      BY <1>0 DEF RevertFile, AutofixTypeOK
    <2> QED BY <1>0, <2>2, <2>3 DEF RevertFile, AutofixTypeOK
  <1>9. CASE \E f \in Files : KeepFile(f)
    <2> PICK f \in Files : KeepFile(f)
      BY <1>9
    <2>1. DOMAIN result' = DOMAIN result /\ result'.fixed \subseteq Files
          /\ result'.warningsFixed \subseteq Files
      BY <1>0 DEF KeepFile, AutofixTypeOK
    <2> QED BY <1>0, <2>1 DEF KeepFile, AutofixTypeOK
  <1>10. CASE StartWarnings
    <2> PICK warnings \in Answers(linted, disk, Warnings) :
          /\ linted' = Learn(linted, disk, warnings)
          /\ current' = [errors |-> NoCounts, warnings |-> warnings]
      BY <1>10 DEF StartWarnings
    <2>1. disk \in Trees /\ DOMAIN linted \subseteq Trees /\ Range(linted) \subseteq Warnings
      BY <1>0 DEF AutofixTypeOK
    <2>2. warnings \in Warnings /\ DOMAIN linted' \subseteq Trees /\ Range(linted') \subseteq Warnings
      BY <2>1, LearnRecords
    <2>3. NoCounts \in Errors
      BY AutofixAssumption DEF NoCounts, Errors
    <2>4. DOMAIN result' = DOMAIN result /\ result'.fixed = result.fixed
          /\ result'.warningsFixed = result.warningsFixed
      BY <1>0, <1>10 DEF StartWarnings, AutofixTypeOK
    <2>5. {current', before'} \subseteq [errors : Errors, warnings : Warnings]
      BY <1>10, <2>2, <2>3 DEF StartWarnings
    <2>6. phase' = "warnings" /\ stale' = FALSE /\ UNCHANGED <<disk, compiled, backups>>
      BY <1>10 DEF StartWarnings
    <2> QED BY <1>0, <2>2, <2>4, <2>5, <2>6 DEF AutofixTypeOK
  <1>11. CASE ReportErrors \/ ReportWarnings
    <2>1. DOMAIN result' = DOMAIN result /\ result'.fixed = result.fixed
          /\ result'.warningsFixed = result.warningsFixed
      BY <1>0, <1>11 DEF ReportErrors, ReportWarnings, AutofixTypeOK
    <2> QED BY <1>0, <1>11, <2>1 DEF ReportErrors, ReportWarnings, AutofixTypeOK
  <1> QED
    BY <1>1, <1>2, <1>3, <1>4, <1>6, <1>7, <1>8, <1>9, <1>10, <1>11 DEF Next

LEMMA NextKeepsTree == Inv /\ Next => TreeInv'
  <1> SUFFICES ASSUME Inv, Next PROVE TreeInv'
    OBVIOUS
  <1> USE DEF adapterVars, report, Fresh
  <1>0. TypeOK /\ SpineInv /\ AutofixTypeOK /\ TreeInv
    BY DEF Inv
  <1>1. CASE StartRound
    BY <1>0, <1>1 DEF StartRound, BeginRound, LeaveLoop, TreeInv, SpineInv
  <1>2. CASE GiveUpRound \/ CloseRound
    BY <1>0, <1>2 DEF GiveUpRound, NothingWritten, CloseRound, EndRound, TreeInv
  <1>3. CASE JudgeFiles
    BY <1>0, <1>3 DEF JudgeFiles, JudgeRound, TreeInv
  <1>4. CASE VerifyBefore
    <2>1. CASE stale
      BY <1>0, <1>4, <2>1, RemeasureFresh DEF VerifyBefore, MeasureBefore, TreeInv
    <2>2. CASE ~stale
      BY <1>0, <1>4, <2>2 DEF VerifyBefore, MeasureBefore, TreeInv
    <2> QED BY <2>1, <2>2
  <1>5. CASE VerifyAfter
    BY <1>0, <1>5, RemeasureFresh DEF VerifyAfter, MeasureAfter, TreeInv
  <1>6. CASE VerifyFinal
    <2>1. CASE stale
      BY <1>0, <1>6, <2>1, RemeasureFresh DEF VerifyFinal, MeasureFinal, TreeInv
    <2>2. CASE ~stale
      BY <1>0, <1>6, <2>2 DEF VerifyFinal, MeasureFinal, TreeInv
    <2> QED BY <2>1, <2>2
  <1>7. CASE \E f \in Files : SkipFile(f)
    <2> PICK f \in Files : SkipFile(f)
      BY <1>7
    <2>1. DOMAIN backups \subseteq DOMAIN backups'
      BY DEF SkipFile, BackUp, Learn
    <2> QED BY <1>0, <2>1 DEF SkipFile, Skip, TreeInv, SpineInv
  <1>8. CASE \E f \in Files : WriteFile(f)
    <2> PICK f \in Files, v \in Versions : WriteFile(f) /\ disk' = [disk EXCEPT ![f] = v]
      BY <1>8 DEF WriteFile
    <2>1. DOMAIN backups' = DOMAIN backups \union {f}
      BY DEF WriteFile, BackUp, Learn
    <2>2. \A g \in Files : g # f => disk'[g] = disk[g]
      BY <1>0 DEF AutofixTypeOK, Trees
    <2> QED BY <1>0, <2>1, <2>2 DEF WriteFile, Write, TreeInv
  <1>9. CASE \E f \in Files : RevertFile(f)
    <2> PICK f \in Files : RevertFile(f)
      BY <1>9
    <2>1. backups[f] = 0
      BY <1>0 DEF RevertFile, Revert, TreeInv, AutofixTypeOK, Range
    <2>2. disk'[f] = 0 /\ \A g \in Files : g # f => disk'[g] = disk[g]
      BY <1>0, <2>1 DEF RevertFile, AutofixTypeOK, Trees
    <2>3. result'.fixed = result.fixed /\ result'.warningsFixed = result.warningsFixed
      BY <1>0 DEF RevertFile, AutofixTypeOK
    <2> QED BY <1>0, <2>2, <2>3 DEF RevertFile, Revert, TreeInv
  <1>10. CASE \E f \in Files : KeepFile(f)
    <2> PICK f \in Files : KeepFile(f)
      BY <1>10
    <2>1. /\ result.fixed \union result.warningsFixed \union {f}
               \subseteq result'.fixed \union result'.warningsFixed
      BY <1>0 DEF KeepFile, AutofixTypeOK
    <2>2. f \notin reverted
      BY <1>0 DEF KeepFile, Keep, SpineInv
    <2> QED BY <1>0, <2>1, <2>2 DEF KeepFile, Keep, TreeInv
  <1>11. CASE StartWarnings
    <2> PICK warnings \in Answers(linted, disk, Warnings) :
          /\ linted' = Learn(linted, disk, warnings)
          /\ current' = [errors |-> NoCounts, warnings |-> warnings]
      BY <1>11 DEF StartWarnings
    <2>1. disk \in Trees /\ DOMAIN linted \subseteq Trees /\ Range(linted) \subseteq Warnings
      BY <1>0 DEF AutofixTypeOK
    <2>2. disk \in DOMAIN linted' /\ linted'[disk] = warnings
      BY <2>1, LearnRecords
    <2>3. result'.fixed = result.fixed /\ result'.warningsFixed = result.warningsFixed
      BY <1>0, <1>11 DEF StartWarnings, AutofixTypeOK
    <2>4. wrote = {} /\ wrote' = {} /\ reverted' = {} /\ pc' = "begin"
      BY <1>0, <1>11 DEF StartWarnings, Rerun, SpineInv
    <2>5. phase' = "warnings" /\ stale' = FALSE /\ UNCHANGED <<disk, backups>>
      BY <1>11 DEF StartWarnings
    <2> QED BY <1>0, <2>2, <2>3, <2>4, <2>5 DEF TreeInv
  <1>12. CASE ReportErrors \/ ReportWarnings
    <2>1. result'.fixed = result.fixed /\ result'.warningsFixed = result.warningsFixed
      BY <1>0, <1>12 DEF ReportErrors, ReportWarnings, AutofixTypeOK
    <2>2. phase' = "reported" /\ UNCHANGED <<spineVars, disk, backups, stale>>
      BY <1>12 DEF ReportErrors, ReportWarnings
    <2> QED BY <1>0, <2>1, <2>2 DEF TreeInv, spineVars
  <1> QED
    BY <1>1, <1>2, <1>3, <1>4, <1>5, <1>6, <1>7, <1>8, <1>9, <1>10, <1>11, <1>12 DEF Next

LEMMA NextKeepsInv == Inv /\ [Next]_vars => Inv'
  <1> SUFFICES ASSUME Inv, [Next]_vars PROVE Inv'
    OBVIOUS
  <1>1. CASE UNCHANGED vars
    BY <1>1 DEF vars, adapterVars, spineVars, Inv, TypeOK, SpineInv, AutofixTypeOK, TreeInv, Fresh
  <1>2. CASE Next
    <2>1. TypeOK' /\ SpineInv'
      BY <1>2, NextDrivesSpine, StepKeepsInv, RerunKeepsInv, StutterKeepsInv DEF Inv
    <2> QED BY <1>2, <2>1, NextKeepsTypes, NextKeepsTree DEF Inv
  <1> QED BY <1>1, <1>2

-----------------------------------------------------------------------------
(* What makes the report honest, as long as nothing was rolled back.  The   *)
(* error phase compares each round with the one before it, so no accepted   *)
(* round may end above the count the run began with; the warning phase      *)
(* starts from a tree that compiles and an accepted round leaves one.       *)
HonestInv ==
  /\ pc = "judge" => wrote # {}
  /\ pc = "reject" => wrote \union reverted # {}
  /\ phase = "reported" => pc = "done"
  /\ pc = "judge"
       => disk \in DOMAIN compiled /\ current.errors = compiled[disk]
  /\ result.errorsBefore \in Nat
  /\ phase = "errors" /\ reverted = {} =>
       /\ ~stale
       /\ pc \notin {"judge", "reject"} => Total(current.errors) <= result.errorsBefore
       /\ pc \in {"write", "judge"} => Total(before.errors) <= result.errorsBefore
  /\ phase = "warnings" =>
       /\ reverted \subseteq result.warningsReverted
       /\ result.errorsAfter = 0
  /\ phase = "warnings" /\ result.warningsReverted = {} =>
       /\ ~stale
       /\ pc \notin {"judge", "reject"} /\ (pc = "write" => wrote = {}) =>
            disk \in DOMAIN compiled /\ Total(compiled[disk]) = 0
  /\ phase = "reported" /\ result.warningsReverted = {}
       => (result.success <=> Total(compiled[disk]) = 0)

LEMMA TotalIsNat == \A counts \in Errors : Total(counts) \in Nat
  BY AutofixAssumption, SumIsNat DEF Total, Errors, Files

LEMMA InitIsHonest == Init => HonestInv
  <1> SUFFICES ASSUME Init PROVE HonestInv
    OBVIOUS
  <1>1. PICK errors \in Errors :
          /\ current = [errors |-> errors, warnings |-> NoCounts]
          /\ result = EmptyReport(errors)
    BY DEF Init, Errors
  <1>2. current.errors = errors /\ result.errorsBefore = Total(errors) /\ Total(errors) \in Nat
    BY <1>1, TotalIsNat DEF EmptyReport
  <1> QED BY <1>2 DEF Init, SpineInit, HonestInv

LEMMA NextKeepsHonest == Inv /\ HonestInv /\ Next => HonestInv'
  <1> SUFFICES ASSUME Inv, HonestInv, Next PROVE HonestInv'
    OBVIOUS
  <1> USE DEF adapterVars, report
  <1>0. TypeOK /\ SpineInv /\ AutofixTypeOK /\ TreeInv
    BY DEF Inv
  <1>t. /\ Total(current.errors) \in Nat /\ Total(before.errors) \in Nat
        /\ result.errorsBefore \in Nat
    BY <1>0, TotalIsNat DEF AutofixTypeOK, HonestInv
  <1>1. CASE StartRound
    BY <1>0, <1>1 DEF StartRound, BeginRound, LeaveLoop, HonestInv
  <1>2. CASE GiveUpRound
    BY <1>0, <1>2 DEF GiveUpRound, NothingWritten, HonestInv
  <1>3. CASE CloseRound
    BY <1>0, <1>3 DEF CloseRound, EndRound, HonestInv
  <1>4. CASE JudgeFiles
    <2>1. /\ pc = "judge" /\ UNCHANGED <<wrote, reverted>>
          /\ pc' = IF ProjectWorse THEN "reject" ELSE "accept"
          /\ UNCHANGED <<phase, adapterVars>>
      BY <1>4 DEF JudgeFiles, JudgeRound
    <2>2. CASE ProjectWorse
      BY <2>1, <2>2 DEF HonestInv
    <2>3. CASE ~ProjectWorse
      BY <1>t, <2>1, <2>3 DEF HonestInv, ProjectWorse
    <2> QED BY <2>2, <2>3
  <1>5. CASE VerifyBefore
    <2>1. CASE stale
      BY <1>0, <1>5, <2>1, RemeasureFresh DEF VerifyBefore, MeasureBefore, HonestInv
    <2>2. CASE ~stale
      BY <1>0, <1>5, <2>2 DEF VerifyBefore, MeasureBefore, HonestInv
    <2> QED BY <2>1, <2>2
  <1>6. CASE VerifyAfter
    BY <1>0, <1>6, RemeasureFresh DEF VerifyAfter, MeasureAfter, HonestInv
  <1>7. CASE VerifyFinal
    <2>1. CASE stale
      BY <1>0, <1>7, <2>1, RemeasureFresh DEF VerifyFinal, MeasureFinal, HonestInv
    <2>2. CASE ~stale
      BY <1>0, <1>7, <2>2 DEF VerifyFinal, MeasureFinal, HonestInv
    <2> QED BY <2>1, <2>2
  <1>8. CASE \E f \in Files : SkipFile(f)
    BY <1>0, <1>8 DEF SkipFile, Skip, HonestInv
  <1>9. CASE \E f \in Files : WriteFile(f)
    BY <1>0, <1>9 DEF WriteFile, Write, HonestInv
  <1>10. CASE \E f \in Files : RevertFile(f)
    <2> PICK f \in Files : RevertFile(f)
      BY <1>10
    <2>1. /\ pc \in {"reject", "accept"} /\ pc' = pc /\ phase' = phase
          /\ reverted' = reverted \union {f}
      BY DEF RevertFile, Revert
    <2>2. /\ result'.errorsBefore = result.errorsBefore
          /\ result'.errorsAfter = result.errorsAfter
          /\ phase = "warnings" => result'.warningsReverted = result.warningsReverted \union {f}
      BY <1>0, <2>1 DEF RevertFile, AutofixTypeOK
    <2> QED BY <2>1, <2>2 DEF HonestInv
  <1>11. CASE \E f \in Files : KeepFile(f)
    <2> PICK f \in Files : KeepFile(f)
      BY <1>11
    <2>1. /\ pc = "accept" /\ pc' = pc
          /\ UNCHANGED <<phase, reverted, disk, compiled, current, before, stale>>
      BY DEF KeepFile, Keep
    <2>2. /\ result'.errorsBefore = result.errorsBefore
          /\ result'.errorsAfter = result.errorsAfter
          /\ result'.warningsReverted = result.warningsReverted
      BY <1>0 DEF KeepFile, AutofixTypeOK
    <2> QED BY <2>1, <2>2 DEF HonestInv
  <1>12. CASE StartWarnings
    <2>1. /\ phase = "errors" /\ pc = "done" /\ phase' = "warnings" /\ pc' = "begin"
          /\ reverted' = {} /\ wrote' = {} /\ stale' = FALSE
          /\ Total(current.errors) = 0 /\ UNCHANGED <<disk, compiled>>
      BY <1>12 DEF StartWarnings, Rerun
    <2>2. result'.errorsBefore = result.errorsBefore /\ result'.errorsAfter = 0
      BY <1>0, <1>12 DEF StartWarnings, AutofixTypeOK
    <2>3. disk \in DOMAIN compiled /\ current.errors = compiled[disk]
      BY <1>0, <2>1 DEF TreeInv, Fresh
    <2> QED BY <2>1, <2>2, <2>3 DEF HonestInv
  <1>13. CASE ReportErrors
    <2>1. /\ phase = "errors" /\ pc = "done" /\ phase' = "reported" /\ pc' = pc
          /\ Total(current.errors) > 0 /\ UNCHANGED <<wrote, reverted, disk, compiled>>
      BY <1>13 DEF ReportErrors, spineVars
    <2>2. result'.errorsBefore = result.errorsBefore /\ result'.success = FALSE
      BY <1>0, <1>13 DEF ReportErrors, AutofixTypeOK
    <2>3. current.errors = compiled[disk]
      BY <1>0, <2>1 DEF TreeInv, Fresh
    <2> QED BY <1>t, <2>1, <2>2, <2>3 DEF HonestInv
  <1>14. CASE ReportWarnings
    <2>1. /\ phase = "warnings" /\ pc = "done" /\ phase' = "reported" /\ pc' = pc
          /\ UNCHANGED <<wrote, reverted, disk, compiled>>
      BY <1>14 DEF ReportWarnings, spineVars
    <2>2. /\ result'.errorsBefore = result.errorsBefore
          /\ result'.warningsReverted = result.warningsReverted
          /\ result'.success = (result.errorsAfter = 0)
      BY <1>0, <1>14 DEF ReportWarnings, AutofixTypeOK
    <2> QED BY <2>1, <2>2 DEF HonestInv
  <1> QED
    BY <1>1, <1>2, <1>3, <1>4, <1>5, <1>6, <1>7, <1>8, <1>9, <1>10, <1>11, <1>12, <1>13,
       <1>14 DEF Next

-----------------------------------------------------------------------------
LEMMA InvAlways == AutofixSpec => []Inv
  BY InitEstablishes, NextKeepsInv, PTL DEF AutofixSpec

(* The state of a run is always of its type.                                *)
THEOREM AutofixTypeCorrect == AutofixSpec => []AutofixTypeOK
  <1>1. Inv => AutofixTypeOK
    BY DEF Inv
  <1> QED BY <1>1, InvAlways, PTL

(* A run is one pass of the spine per phase and nothing else, so the        *)
(* spine's bookkeeping holds in it.                                         *)
THEOREM AutofixDrivesSpine == AutofixSpec => DrivesSpine
  <1>1. [Next]_vars => [SpineStep \/ Rerun]_spineVars
    BY NextDrivesSpine DEF vars
  <1> QED BY <1>1, PTL DEF AutofixSpec, DrivesSpine

(* A rewrite that was not kept, or was rolled back, is nowhere on disk when *)
(* a phase ends.                                                            *)
THEOREM RolledBackIsGone == AutofixSpec => []OnlyKeptRewritesSurvive
  <1>1. Inv => OnlyKeptRewritesSurvive
    BY DEF Inv, SpineInv, TreeInv, OnlyKeptRewritesSurvive
  <1> QED BY <1>1, InvAlways, PTL

(* What a phase reports was measured on the files it leaves behind.         *)
THEOREM ReportIsFresh == AutofixSpec => []ReportDescribesDisk
  <1>1. Inv => ReportDescribesDisk
    BY DEF Inv, SpineInv, TreeInv, Fresh, ReportDescribesDisk
  <1> QED BY <1>1, InvAlways, PTL

(* Until something is rolled back the error phase never ends with more     *)
(* errors than the run began with; and unless a warning fix was rolled     *)
(* back, success is whether the tree left on disk compiles.                *)
THEOREM ReportIsHonest == AutofixSpec => []HonestUnlessRolledBack
  <1>1. HonestInv /\ UNCHANGED vars => HonestInv'
    BY DEF HonestInv, vars, spineVars, adapterVars
  <1>2. HonestInv /\ Inv /\ [Next]_vars => HonestInv'
    BY <1>1, NextKeepsHonest
  <1>3. AutofixSpec => []HonestInv
    BY <1>2, InitIsHonest, InvAlways, PTL DEF AutofixSpec
  <1>4. HonestInv => HonestUnlessRolledBack
    BY DEF HonestInv, HonestUnlessRolledBack
  <1> QED BY <1>3, <1>4, PTL
=============================================================================
