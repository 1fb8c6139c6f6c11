---------------------------- MODULE ContractModify ----------------------------
(***************************************************************************)
(* run_contract_modify (src/build/modify_contract.rs) over the coordinator *)
(* backend: each HAL interface a platform does not implement is a target,  *)
(* and the change is one run of hal_generate_impl.  The files of an        *)
(* interface are its slots: slot 0 is the scaffold <iface>_stub, slot 1    *)
(* the pair <iface>_<plat>, slot n the pair <iface>_<plat>_<n>.            *)
(***************************************************************************)
EXTENDS ModifySpine, Oracle, Functions, FiniteSetsExt

CONSTANTS Methods,     \* methods every interface declares
          MaxSlots,    \* highest numbered pair: one per round is enough
          MaxErrors,   \* most compile errors a build reports
          Generated    \* pairs the model can produce: [ok, drifted] sets of methods

Interfaces == Targets
Slots == 0..MaxSlots

ASSUME ContractAssumption ==
  /\ IsFiniteSet(Methods) /\ Methods # {}
  /\ MaxSlots \in Nat /\ MaxSlots >= RoundLimit + 1
  /\ MaxErrors \in Nat
  /\ Generated \subseteq [ok : SUBSET Methods, drifted : SUBSET Methods]

Absent == [kind |-> "absent", ok |-> {}, drifted |-> {}]
Stub == [kind |-> "stub", ok |-> {}, drifted |-> {}]
Real(code) == [kind |-> "real", ok |-> code.ok, drifted |-> code.drifted]

VARIABLES
  stage,     \* "seed", "loop", "reported"
  files,     \* interface -> slot -> contents
  meson,     \* interface -> slots its hal/meson.build list names
  found,     \* the tree as the run found it (for the properties)
  built,     \* tree -> errors, for every tree built so far
  planned,   \* interface -> the slot its latest plan listed; 0 for none
  absent,    \* <<interface, slot>> backed up, all recorded as absent
  current,   \* latest measurement
  before,    \* measurement the round started from
  stale,     \* needs_measure
  result     \* ModifyContractReport

diskVars == <<files, meson>>
contractVars == <<stage, diskVars, found, built, planned, absent, current, before,
                  stale, result>>
vars == <<spineVars, contractVars>>

Tree == <<files, meson>>

-----------------------------------------------------------------------------
(* What the coverage analysis says of an interface's slots.  A stub        *)
(* anywhere makes every method missing; a method is drifted when the first *)
(* file that defines it does so with another signature.                    *)
Defining(slots, m) == {n \in Slots : m \in slots[n].ok \union slots[n].drifted}
Stubbed(slots) == \E n \in Slots : slots[n].kind = "stub"
Missing(slots) ==
  IF Stubbed(slots) THEN Methods ELSE {m \in Methods : Defining(slots, m) = {}}
Drifted(slots) ==
  IF Stubbed(slots) THEN {}
  ELSE {m \in Methods \ Missing(slots) : m \in slots[Min(Defining(slots, m))].drifted}
Implemented(slots) == Missing(slots) = {} /\ Drifted(slots) = {}

\* hal_gaps: the gaps that are open, and how much each one misses.  A gap's
\* drifted list is left empty whatever the analysis found.
Gaps == [open |-> {i \in Interfaces : ~Implemented(files[i])},
         size |-> [i \in Interfaces |-> Cardinality(Missing(files[i]))]]
Total(gaps) == SumFunction(gaps.size)

\* Drift, then a build: what the tools say of a tree is repeatable.
Measure ==
  \E errors \in Answers(built, Tree, 0..MaxErrors) :
    /\ built' = Learn(built, Tree, errors)
    /\ current' = [gaps |-> Gaps, errors |-> errors]

\* Trees a run can find: a scaffold or not, a first pair or not, and a
\* meson.build that lists what is there.
InitialSlots ==
  {[n \in Slots |-> IF n = 0 THEN scaffold ELSE IF n = 1 THEN pair ELSE Absent] :
     scaffold \in {Absent, Stub}, pair \in {Absent, Stub} \union {Real(c) : c \in Generated}}
Listed(slots) == {n \in Slots : slots[n].kind # "absent"}

NoReport == [closed |-> {}, reverted |-> {}, success |-> FALSE, remaining |-> {}]

Init ==
  /\ SpineInit
  /\ stage = "seed"
  /\ files \in [Interfaces -> InitialSlots]
  /\ meson = [i \in Interfaces |-> Listed(files[i])]
  /\ found = Tree
  /\ built = Nothing
  /\ planned = [i \in Interfaces |-> 0]
  /\ absent = {}
  /\ current = [gaps |-> Gaps, errors |-> 0] /\ before = current
  /\ stale = FALSE
  /\ result = NoReport

-----------------------------------------------------------------------------
\* One measurement before the loop, because the loop asks for targets first.
Seed ==
  /\ stage = "seed"
  /\ stage' = "loop"
  /\ Measure
  /\ UNCHANGED <<spineVars, diskVars, found, planned, absent, before, stale, result>>

\* targets(): open gaps something is missing from.
Fillable == {i \in current.gaps.open : current.gaps.size[i] > 0}

StartRound ==
  /\ stage = "loop"
  /\ BeginRound(Fillable) \/ LeaveLoop(Fillable)
  /\ UNCHANGED contractVars

VerifyCached == IF stale THEN Measure ELSE UNCHANGED <<built, current>>

VerifyBefore ==
  /\ MeasureBefore
  /\ VerifyCached
  /\ before' = current'
  /\ stale' = FALSE
  /\ UNCHANGED <<stage, diskVars, found, planned, absent, result>>

\* resolve_hal_impl_names: the first numbered pair not on disk.
FreeSlot(slots) == Min({n \in Slots \ {0} : slots[n].kind = "absent"})

\* resolve_semantic_hal_impl_names, the generator's: the base pair when it is
\* free or a stub.
TargetSlot(slots) == IF slots[1].kind = "real" THEN FreeSlot(slots) ELSE 1

\* plan() lists FreeSlot, and apply() records it as absent before it runs the
\* generator.
Backup(i) ==
  /\ planned' = [planned EXCEPT ![i] = FreeSlot(files[i])]
  /\ absent' = absent \union {<<i, FreeSlot(files[i])>>}

\* hal_generate_apply: write the pair, remove what is still a stub, and list
\* the new source in meson.build, where it supersedes the scaffold's entry.
Generate(i) ==
  /\ Write(i)
  /\ Backup(i)
  /\ \E code \in Generated :
       LET written == [files[i] EXCEPT ![TargetSlot(files[i])] = Real(code)]
       IN files' = [files EXCEPT
            ![i] = [n \in Slots |-> IF written[n] = Stub THEN Absent ELSE written[n]]]
  /\ meson' = [meson EXCEPT ![i] = (@ \ {0}) \union {TargetSlot(files[i])}]
  /\ UNCHANGED <<stage, found, built, current, before, stale, result>>

\* The generator fails before it writes, or, once the model answered, half
\* way: the new header stands and the source does not.  The spine skips the
\* gap and never reverts it.
GenerateFails(i) ==
  /\ Skip(i)
  /\ Backup(i)
  /\ \/ UNCHANGED files
     \/ LET n == TargetSlot(files[i])
        IN files' = [files EXCEPT ![i][n] = IF @ = Absent THEN Real([ok |-> {}, drifted |-> {}]) ELSE @]
  /\ UNCHANGED <<stage, meson, found, built, current, before, stale, result>>

GiveUpRound == NothingWritten /\ UNCHANGED contractVars

VerifyAfter ==
  /\ MeasureAfter
  /\ Measure
  /\ stale' = FALSE
  /\ UNCHANGED <<stage, diskVars, found, planned, absent, before, result>>

ProjectWorse ==
  \/ Total(current.gaps) > Total(before.gaps)
  \/ current.errors > before.errors

JudgeRoundOfGaps == JudgeRound(ProjectWorse) /\ UNCHANGED contractVars

\* accept(): this gap must shrink.
Shrank(i) == current.gaps.size[i] < before.gaps.size[i]

\* Bugs: the new pair stays; the base pair goes instead of the new one.
RevertGapInNameOnly(i) ==
  /\ Revert(i)
  /\ pc = "reject" \/ ~Shrank(i)
  /\ stale' = TRUE
  /\ result' = [result EXCEPT !.reverted = @ \union {i}]
  /\ UNCHANGED <<stage, diskVars, found, built, planned, absent, current, before>>

\* Every path a plan lists was absent, so putting it back is removing it.
RevertGap(i) ==
  /\ Revert(i)
  /\ pc = "reject" \/ ~Shrank(i)
  /\ files' = IF <<i, planned[i]>> \in absent
              THEN [files EXCEPT ![i][planned[i]] = Absent] ELSE files
  /\ stale' = TRUE
  /\ result' = [result EXCEPT !.reverted = @ \union {i}]
  /\ UNCHANGED <<stage, meson, found, built, planned, absent, current, before>>

KeepGap(i) ==
  /\ Keep(i)
  /\ Shrank(i)
  /\ result' = [result EXCEPT !.closed = @ \union {i}]
  /\ UNCHANGED <<stage, diskVars, found, built, planned, absent, current, before, stale>>

CloseRound == EndRound /\ UNCHANGED contractVars

VerifyFinal ==
  /\ MeasureFinal
  /\ VerifyCached
  /\ stale' = FALSE
  /\ UNCHANGED <<stage, diskVars, found, planned, absent, before, result>>

Report ==
  /\ stage = "loop" /\ pc = "done"
  /\ stage' = "reported"
  /\ result' = [result EXCEPT
       !.success = Total(current.gaps) = 0 /\ current.errors = 0,
       !.remaining = current.gaps.open]
  /\ UNCHANGED <<spineVars, diskVars, found, built, planned, absent, current, before, stale>>

Next ==
  \/ Seed \/ StartRound \/ VerifyBefore \/ GiveUpRound \/ VerifyAfter
  \/ JudgeRoundOfGaps \/ CloseRound \/ VerifyFinal \/ Report
  \/ \E i \in Interfaces : Generate(i) \/ GenerateFails(i) \/ RevertGap(i) \/ KeepGap(i)

ContractSpec == Init /\ [][Next]_vars

-----------------------------------------------------------------------------
(* "Real implementations are never overwritten" (build_manager.rs:172): no  *)
(* round, and no rollback, changes a pair that was working code when the    *)
(* run began.  And a round that is undone takes back every file it created: *)
(* an interface whose change was rolled back, that was never kept and that  *)
(* held no stub, has its files as the run found them                        *)
(* (modify_contract.rs:432).                                                *)
FoundFilesRespected ==
  /\ \A i \in Interfaces, n \in Slots :
       found[1][i][n].kind = "real" => files[i][n] = found[1][i][n]
  /\ stage = "reported" =>
       \A i \in result.reverted \ result.closed :
         ~Stubbed(found[1][i]) => files[i] = found[1][i]

=============================================================================
