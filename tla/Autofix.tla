------------------------------ MODULE Autofix ------------------------------
(***************************************************************************)
(* run_autofix (src/build/autofix.rs): two passes of the modify spine,     *)
(* compile errors first and then, on a clean compile, the warnings that    *)
(* are safe to fix.  A tree gives each file a version, 0 being the bytes   *)
(* it had before the run.  What the compiler and the linter say of a tree  *)
(* is arbitrary but repeatable (Oracle).                                   *)
(***************************************************************************)
EXTENDS ModifySpine, Oracle, Functions

CONSTANTS Versions,      \* rewrites the model can produce: positive numbers
          MaxErrors,     \* most compile errors one file reports
          MaxWarnings    \* most safely fixable warnings one file reports

ASSUME AutofixAssumption ==
  /\ IsFiniteSet(Targets)
  /\ Versions \subseteq Nat \ {0}
  /\ MaxErrors \in Nat /\ MaxWarnings \in Nat

\* Every target is a file with diagnostics.
Files == Targets

VARIABLES
  phase,        \* "errors", "warnings"; "reported" once run_autofix returned
  disk,         \* file -> version
  compiled,     \* tree -> file -> errors, for every tree built so far
  linted,       \* tree -> file -> safe warnings, for every tree linted so far
  backups,      \* file -> version, taken once, before its first proposal
  current,      \* the adapter's latest observation
  before,       \* the observation the running round started from
  stale,        \* needs_rebuild: something was rolled back since measuring
  safeBefore,   \* the baseline of the warning phase
  result        \* AutofixReport

adapterVars == <<disk, compiled, linted, backups, current, before, stale,
                 safeBefore, result>>
vars == <<spineVars, phase, adapterVars>>

Pristine == [f \in Files |-> 0]
NoCounts == [f \in Files |-> 0]

\* What the compiler and the linter can say of a tree, per file.
Errors == [Files -> 0..MaxErrors]
Warnings == [Files -> 0..MaxWarnings]

Total(counts) == SumFunction(counts)
Reported(counts) == {f \in Files : counts[f] > 0}

EmptyReport(errors) ==
  [errorsBefore |-> Total(errors), errorsAfter |-> 0,
   fixed |-> {}, warningsFixed |-> {}, warningsReverted |-> {}, success |-> FALSE]

\* The caller built before it called run_autofix, so the recorded errors are
\* those of the tree on disk.
Init ==
  /\ SpineInit
  /\ phase = "errors"
  /\ disk = Pristine
  /\ \E errors \in [Files -> 0..MaxErrors] :
       /\ compiled = Learn(Nothing, Pristine, errors)
       /\ current = [errors |-> errors, warnings |-> NoCounts]
       /\ result = EmptyReport(errors)
  /\ before = current
  /\ linted = Nothing /\ backups = Nothing
  /\ stale = FALSE
  /\ safeBefore = 0

-----------------------------------------------------------------------------
\* targets(): read off the latest observation, which a rollback makes stale.
Fixable ==
  IF phase = "errors" THEN Reported(current.errors) ELSE Reported(current.warnings)

StartRound ==
  /\ BeginRound(Fixable) \/ LeaveLoop(Fixable)
  /\ UNCHANGED <<phase, adapterVars>>

\* verify() when something changed: rebuild, and in the warning phase lint too.
Remeasure ==
  /\ \E errors \in Answers(compiled, disk, Errors) :
       /\ compiled' = Learn(compiled, disk, errors)
       /\ IF phase = "errors"
          THEN /\ current' = [errors |-> errors, warnings |-> NoCounts]
               /\ UNCHANGED linted
          ELSE \E warnings \in Answers(linted, disk, Warnings) :
                 /\ linted' = Learn(linted, disk, warnings)
                 /\ current' = [errors |-> errors, warnings |-> warnings]
  /\ stale' = FALSE

\* verify() before the writes: the recorded diagnostics, unless a rollback
\* left them describing files that are no longer on disk.
VerifyBefore ==
  /\ MeasureBefore
  /\ IF stale THEN Remeasure ELSE UNCHANGED <<compiled, linted, current, stale>>
  /\ before' = current'
  /\ UNCHANGED <<phase, disk, backups, safeBefore, result>>

\* The ORIGINAL bytes, once, before the model can touch them.
BackUp(f) ==
  backups' = IF f \in DOMAIN backups THEN backups ELSE Learn(backups, f, disk[f])

\* No such file, unreadable, no proposal, an empty one, or a write that fails
\* and leaves the file as it was; the first two before the backup is taken.
SkipFile(f) ==
  /\ Skip(f)
  /\ BackUp(f) \/ UNCHANGED backups
  /\ UNCHANGED <<phase, disk, compiled, linted, current, before, stale, safeBefore, result>>

WriteFile(f) ==
  /\ Write(f)
  /\ BackUp(f)
  /\ \E v \in Versions : disk' = [disk EXCEPT ![f] = v]
  /\ UNCHANGED <<phase, compiled, linted, current, before, stale, safeBefore, result>>

GiveUpRound ==
  /\ NothingWritten
  /\ UNCHANGED <<phase, adapterVars>>

VerifyAfter ==
  /\ MeasureAfter
  /\ Remeasure
  /\ UNCHANGED <<phase, disk, backups, before, safeBefore, result>>

\* Errors: the project total rose.  Warnings: an error appeared, or the safe
\* warnings did not fall below where the phase began.
ProjectWorse ==
  IF phase = "errors"
  THEN Total(current.errors) > Total(before.errors)
  ELSE Total(current.errors) > 0 \/ Total(current.warnings) >= safeBefore

JudgeFiles ==
  /\ JudgeRound(ProjectWorse)
  /\ UNCHANGED <<phase, adapterVars>>

\* accept(): in the error phase the file's own count must go down; a warning
\* round is kept or rolled back as a whole.
Earned(f) == phase = "warnings" \/ current.errors[f] < before.errors[f]

\* Bugs: needs_rebuild is not set; the backup is not written back.
RevertFileSilently(f) ==
  /\ Revert(f)
  /\ pc = "reject" \/ ~Earned(f)
  /\ disk' = [disk EXCEPT ![f] = backups[f]]
  /\ result' = IF phase = "errors" THEN result
               ELSE [result EXCEPT !.warningsReverted = @ \union {f}]
  /\ UNCHANGED <<phase, compiled, linted, backups, current, before, stale, safeBefore>>

RevertFileInNameOnly(f) ==
  /\ Revert(f)
  /\ pc = "reject" \/ ~Earned(f)
  /\ stale' = TRUE
  /\ result' = IF phase = "errors" THEN result
               ELSE [result EXCEPT !.warningsReverted = @ \union {f}]
  /\ UNCHANGED <<phase, disk, compiled, linted, backups, current, before, safeBefore>>

RevertFile(f) ==
  /\ Revert(f)
  /\ pc = "reject" \/ ~Earned(f)
  /\ disk' = [disk EXCEPT ![f] = backups[f]]
  /\ stale' = TRUE
  /\ result' = IF phase = "errors" THEN result
               ELSE [result EXCEPT !.warningsReverted = @ \union {f}]
  /\ UNCHANGED <<phase, compiled, linted, backups, current, before, safeBefore>>

KeepFile(f) ==
  /\ Keep(f)
  /\ Earned(f)
  /\ result' = IF phase = "errors" THEN [result EXCEPT !.fixed = @ \union {f}]
               ELSE [result EXCEPT !.warningsFixed = @ \union {f}]
  /\ UNCHANGED <<phase, disk, compiled, linted, backups, current, before, stale, safeBefore>>

CloseRound ==
  /\ EndRound
  /\ UNCHANGED <<phase, adapterVars>>

VerifyFinal ==
  /\ MeasureFinal
  /\ IF stale THEN Remeasure ELSE UNCHANGED <<compiled, linted, current, stale>>
  /\ UNCHANGED <<phase, disk, backups, before, safeBefore, result>>

-----------------------------------------------------------------------------

\* The error phase returned: lint, and go on to warnings only if it compiles.
StartWarnings ==
  /\ phase = "errors"
  /\ Total(current.errors) = 0
  /\ phase' = "warnings"
  /\ Rerun
  /\ \E warnings \in Answers(linted, disk, Warnings) :
       /\ linted' = Learn(linted, disk, warnings)
       /\ current' = [errors |-> NoCounts, warnings |-> warnings]
       /\ safeBefore' = Total(warnings)
  /\ before' = current'
  /\ stale' = FALSE
  /\ result' = [result EXCEPT !.errorsAfter = 0]
  /\ UNCHANGED <<disk, compiled, backups>>

\* Bug: fewer errors counts as success.
ReportErrorsImproved ==
  /\ phase = "errors" /\ pc = "done"
  /\ Total(current.errors) > 0
  /\ phase' = "reported"
  /\ result' = [result EXCEPT !.errorsAfter = Total(current.errors),
                              !.success = Total(current.errors) < result.errorsBefore]
  /\ UNCHANGED <<spineVars, disk, compiled, linted, backups, current, before, stale, safeBefore>>

ReportErrors ==
  /\ phase = "errors" /\ pc = "done"
  /\ Total(current.errors) > 0
  /\ phase' = "reported"
  /\ result' = [result EXCEPT !.errorsAfter = Total(current.errors), !.success = FALSE]
  /\ UNCHANGED <<spineVars, disk, compiled, linted, backups, current, before, stale, safeBefore>>

\* success is errors_after = 0, as the error phase left it.
ReportWarnings ==
  /\ phase = "warnings" /\ pc = "done"
  /\ phase' = "reported"
  /\ result' = [result EXCEPT !.success = (result.errorsAfter = 0)]
  /\ UNCHANGED <<spineVars, disk, compiled, linted, backups, current, before, stale, safeBefore>>

Next ==
  \/ StartRound \/ VerifyBefore \/ GiveUpRound \/ VerifyAfter
  \/ JudgeFiles \/ CloseRound \/ VerifyFinal
  \/ \E f \in Files : SkipFile(f) \/ WriteFile(f) \/ RevertFile(f) \/ KeepFile(f)
  \/ StartWarnings \/ ReportErrors \/ ReportWarnings

AutofixSpec == Init /\ [][Next]_vars

\* One thread runs the loop to its end: the compiler and the model answer.
FairAutofix == AutofixSpec /\ WF_vars(Next)

-----------------------------------------------------------------------------
Trees == [Files -> {0} \union Versions]

AutofixTypeOK ==
  /\ phase \in {"errors", "warnings", "reported"}
  /\ disk \in Trees
  /\ DOMAIN compiled \subseteq Trees /\ Range(compiled) \subseteq Errors
  /\ DOMAIN linted \subseteq Trees /\ Range(linted) \subseteq Warnings
  /\ DOMAIN backups \subseteq Files /\ Range(backups) \subseteq {0}
  /\ {current, before} \subseteq [errors : Errors, warnings : Warnings]
  /\ stale \in BOOLEAN
  /\ DOMAIN result = {"errorsBefore", "errorsAfter", "fixed", "warningsFixed",
                      "warningsReverted", "success"}
  /\ result.fixed \subseteq Files /\ result.warningsFixed \subseteq Files

\* The latest observation is of the tree on disk.
Fresh == ~stale /\ (pc = "write" => wrote = {})

(* What makes the two invariants below inductive.  Bytes are backed up      *)
(* before they change; a file that differs from its pre-run bytes is either *)
(* awaiting its verdict or reported as fixed and not rolled back since; and *)
(* only a rollback, or a write not yet verified, outdates the observation.  *)
TreeInv ==
  /\ wrote \subseteq DOMAIN backups
  /\ \A f \in Files : f \notin DOMAIN backups => disk[f] = 0
  /\ \A f \in Files : disk[f] # 0 /\ f \notin wrote =>
       /\ f \in result.fixed \union result.warningsFixed
       /\ f \notin reverted
  /\ pc \in {"write", "judge", "done"} => ~stale
  /\ Fresh /\ phase = "errors" => disk \in DOMAIN compiled /\ current.errors = compiled[disk]
  /\ Fresh /\ phase = "warnings" => disk \in DOMAIN linted /\ current.warnings = linted[disk]

(* The loop hands back a measurement of the tree it leaves behind, never    *)
(* one taken before a rollback changed the files again (needs_rebuild,      *)
(* autofix.rs:890).  What the UI lists as remaining is on disk.             *)
ReportDescribesDisk ==
  pc = "done" =>
    /\ phase = "errors" => current.errors = compiled[disk]
    /\ phase = "warnings" => current.warnings = linted[disk]

(* A rewrite the loop did not keep is nowhere on disk when a phase ends: a  *)
(* file differs from its pre-run bytes only if the report names it as fixed *)
(* and this phase did not roll it back (autofix.rs:12).                     *)
OnlyKeptRewritesSurvive ==
  pc = "done" =>
    \A f \in Files : disk[f] # 0 =>
      /\ f \in result.fixed \union result.warningsFixed
      /\ f \notin reverted

(* The error phase is judged round by round, and per file inside a round:   *)
(* if no file had to be rolled back, the rounds together did not raise the  *)
(* project's error count above what the run began with.  And unless the     *)
(* warning phase rolled something back, success says whether the tree left  *)
(* on disk compiles (both figures are taken once, before the warning phase  *)
(* changes files again: autofix.rs:940).                                    *)
HonestUnlessRolledBack ==
  /\ phase = "errors" /\ pc = "done" /\ reverted = {}
       => Total(current.errors) <= result.errorsBefore
  /\ phase = "reported" /\ result.warningsReverted = {}
       => (result.success <=> Total(compiled[disk]) = 0)

(* Both phases end and the run reports, whatever the tools and the model    *)
(* answer.  Kept files stay eligible for the next round, so only the round  *)
(* bound and the tried set stop the loop (modify.rs:181).                   *)
Reports == <>(phase = "reported")

(* Each phase is one run of the spine, from a fresh report and a fresh      *)
(* tried set: a file the error phase gave up on may still be offered to the *)
(* warning phase.                                                           *)
DrivesSpine == [][SpineStep \/ Rerun]_spineVars
=============================================================================
