------------------------ MODULE ContractModifyProofs ------------------------
(***************************************************************************)
(* What run_contract_modify guarantees of the files it found, for any      *)
(* number of interfaces, methods, rounds and errors and any code the model *)
(* may generate.                                                           *)
(***************************************************************************)
EXTENDS ContractModify, ModifySpineProofs, WellFoundedInduction

Contents ==
  {Absent, Stub} \union {Real(code) : code \in [ok : SUBSET Methods, drifted : SUBSET Methods]}
Original == found[1]

\* The variables the properties rest on hold values of their types.
ContractTypeOK ==
  /\ stage \in {"seed", "loop", "reported"}
  /\ files \in [Interfaces -> [Slots -> Contents]]
  /\ Original \in [Interfaces -> [Slots -> Contents]]
  /\ planned \in [Interfaces -> Slots]
  /\ absent \subseteq Interfaces \X Slots
  /\ current.gaps.open \subseteq Interfaces
  /\ DOMAIN result = {"closed", "reverted", "success", "remaining"}

\* Each round takes one slot of an interface at most, so there is one left
\* for every interface that waits for its generator.
SlotsLeft ==
  \A i \in Interfaces, n \in Slots :
    n > round + 1 \/ (i \in pending /\ n > round) => files[i][n] = Absent

\* No working code the run found is lost, and none of it is ever in a backup
\* as a file that was absent.
FoundKept ==
  /\ \A i \in Interfaces, n \in Slots :
       Original[i][n].kind = "real" => files[i][n] = Original[i][n]
  /\ \A i \in Interfaces, n \in Slots : <<i, n>> \in absent => Original[i][n].kind # "real"

\* An interface that held no stub differs from what was found in the slot its
\* plan listed, and only while that write stands.
DiffersInPlanned ==
  \A i \in Interfaces : ~Stubbed(Original[i]) =>
    /\ i \notin attempted \/ i \in reverted \ kept => files[i] = Original[i]
    /\ i \in wrote \ kept =>
         /\ <<i, planned[i]>> \in absent
         /\ Original[i][planned[i]] = Absent
         /\ \A n \in Slots \ {planned[i]} : files[i][n] = Original[i][n]

ListsAgree == result.reverted = reverted /\ result.closed = kept

IInv == /\ TypeOK /\ SpineInv /\ ContractTypeOK /\ SlotsLeft /\ FoundKept
        /\ DiffersInPlanned /\ ListsAgree

-----------------------------------------------------------------------------
(* A set of naturals that is not empty has a least element.                 *)
LEMMA LeastOf ==
  ASSUME NEW S \in SUBSET Nat, S # {}
  PROVE  Min(S) \in S /\ \A y \in S : Min(S) <= y
  <1> DEFINE below == {p \in Nat \X Nat : p[1] < p[2]}
  <1>1. IsWellFoundedOn(below, Nat)
    BY NatLessThanWellFounded DEF OpToRel
  <1>2. \A x, y \in Nat : <<y, x>> \notin below => x <= y
    OBVIOUS
  <1> HIDE DEF below
  <1>3. PICK x \in S : \A y \in S : <<y, x>> \notin below
    BY <1>1, WFMin
  <1>4. \A y \in S : x <= y
    BY <1>2, <1>3
  <1> QED BY <1>4 DEF Min

LEMMA SlotsAreNumbers == Slots \subseteq Nat /\ 0 \in Slots /\ 1 \in Slots
  BY ContractAssumption, RoundLimitNat DEF Slots

(* The three kinds of contents are told apart by their kind.                *)
LEMMA Kinds ==
  /\ Absent.kind = "absent" /\ Stub.kind = "stub"
  /\ \A code : Real(code).kind = "real"
  /\ \A c \in Contents : /\ c.kind = "absent" => c = Absent
                         /\ c.kind = "stub" => c = Stub
                         /\ c.kind \in {"absent", "stub", "real"}
  BY DEF Absent, Stub, Real, Contents

(* FreeSlot finds a slot that is absent, no higher than the round after     *)
(* this one, whenever the interface still waits for its generator.          *)
LEMMA FreeSlotIsFree ==
  ASSUME TypeOK, ContractTypeOK, SlotsLeft, NEW i \in pending, pc = "write"
  PROVE  LET n == FreeSlot(files[i])
         IN /\ n \in Slots \ {0} /\ n <= round + 1
            /\ files[i][n] = Absent
            /\ files[i][1].kind = "absent" => n = 1
  <1> DEFINE free == {n \in Slots \ {0} : files[i][n].kind = "absent"}
  <1>1. i \in Interfaces /\ round \in Nat /\ round + 1 \in Slots \ {0} /\ round + 1 > round
    BY RoundLimitNat, ContractAssumption DEF TypeOK, Interfaces, Slots
  <1>2. files[i][round + 1] = Absent
    BY <1>1 DEF SlotsLeft
  <1>3. free \in SUBSET Nat /\ round + 1 \in free
    BY <1>1, <1>2, SlotsAreNumbers, Kinds
  <1>4. Min(free) \in free /\ \A n \in free : Min(free) <= n
    BY <1>3, LeastOf
  <1> DEFINE least == Min(free)
  <1>5. least \in Slots \ {0} /\ files[i][least].kind = "absent" /\ least <= round + 1
    BY <1>3, <1>4
  <1>6. files[i][1].kind = "absent" => least <= 1
    BY <1>4, SlotsAreNumbers
  <1>7. FreeSlot(files[i]) = least
    BY DEF FreeSlot
  <1> HIDE DEF least
  <1>8. files[i][least] \in Contents
    BY <1>1, <1>5 DEF ContractTypeOK
  <1>9. least \in Nat /\ least # 0
    BY <1>5, SlotsAreNumbers
  <1> QED BY <1>5, <1>6, <1>7, <1>8, <1>9, Kinds

(* Where the generator writes there is no working code; where no stub is,   *)
(* it is the slot the plan listed.                                          *)
LEMMA TargetIsFree ==
  ASSUME TypeOK, ContractTypeOK, SlotsLeft, NEW i \in pending, pc = "write"
  PROVE  LET n == TargetSlot(files[i])
         IN /\ n \in Slots \ {0} /\ n <= round + 1
            /\ files[i][n].kind # "real"
            /\ ~Stubbed(files[i]) => n = FreeSlot(files[i])
  <1>1. /\ FreeSlot(files[i]) \in Slots \ {0} /\ FreeSlot(files[i]) <= round + 1
        /\ files[i][FreeSlot(files[i])].kind = "absent"
        /\ files[i][1].kind = "absent" => FreeSlot(files[i]) = 1
    BY FreeSlotIsFree, Kinds
  <1>2. i \in Interfaces /\ round \in Nat /\ 1 \in Slots \ {0} /\ 1 <= round + 1
    BY RoundLimitNat, SlotsAreNumbers DEF TypeOK, Interfaces
  <1>3. files[i][1] \in Contents
    BY <1>2 DEF ContractTypeOK
  <1>4. CASE files[i][1].kind = "real"
    BY <1>1, <1>4 DEF TargetSlot
  <1>5. CASE files[i][1].kind # "real"
    <2>1. ~Stubbed(files[i]) => files[i][1].kind = "absent"
      BY <1>2, <1>3, <1>5, Kinds DEF Stubbed
    <2> QED BY <1>1, <1>2, <1>5, <2>1 DEF TargetSlot
  <1> QED BY <1>4, <1>5

(* What the generator leaves in the slots of its interface.                 *)
LEMMA GenerateWrites ==
  ASSUME IInv, NEW i \in Interfaces, Generate(i)
  PROVE  /\ files' \in [Interfaces -> [Slots -> Contents]]
         /\ \A j \in Interfaces \ {i} : files'[j] = files[j]
         /\ \A n \in Slots \ {TargetSlot(files[i])} :
              files'[i][n] = IF files[i][n] = Stub THEN Absent ELSE files[i][n]
  <1> DEFINE target == TargetSlot(files[i])
  <1>1. /\ target \in Slots /\ files[i] \in [Slots -> Contents]
        /\ files \in [Interfaces -> [Slots -> Contents]]
    BY TargetIsFree DEF IInv, Generate, Write, ContractTypeOK
  <1>2. PICK code \in Generated :
          files' = [files EXCEPT
            ![i] = [n \in Slots |-> IF [files[i] EXCEPT ![target] = Real(code)][n] = Stub
                                    THEN Absent ELSE [files[i] EXCEPT ![target] = Real(code)][n]]]
    BY DEF Generate
  <1> HIDE DEF target
  <1>3. Real(code) \in Contents /\ Absent \in Contents
    BY ContractAssumption DEF Contents
  <1>4. [files[i] EXCEPT ![target] = Real(code)] \in [Slots -> Contents]
    BY <1>1, <1>3
  <1>5. [n \in Slots |-> IF [files[i] EXCEPT ![target] = Real(code)][n] = Stub
                         THEN Absent ELSE [files[i] EXCEPT ![target] = Real(code)][n]]
          \in [Slots -> Contents]
    BY <1>3, <1>4
  <1>6. \A n \in Slots \ {target} : files'[i][n] = IF files[i][n] = Stub THEN Absent ELSE files[i][n]
    BY <1>1, <1>2
  <1> QED BY <1>1, <1>2, <1>5, <1>6 DEF target

(* A generator that failed wrote nothing, or a header in a free slot.       *)
LEMMA FailureWrites ==
  ASSUME IInv, NEW i \in Interfaces, GenerateFails(i)
  PROVE  /\ files' \in [Interfaces -> [Slots -> Contents]]
         /\ \A j \in Interfaces \ {i} : files'[j] = files[j]
         /\ \A n \in Slots \ {TargetSlot(files[i])} : files'[i][n] = files[i][n]
  <1> DEFINE target == TargetSlot(files[i])
  <1>1. /\ target \in Slots /\ files[i] \in [Slots -> Contents]
        /\ files \in [Interfaces -> [Slots -> Contents]]
    BY TargetIsFree DEF IInv, GenerateFails, Skip, ContractTypeOK
  <1>2. Real([ok |-> {}, drifted |-> {}]) \in Contents
    BY DEF Contents
  <1>3. CASE files' = files
    BY <1>1, <1>3
  <1>4. CASE files' = [files EXCEPT ![i][target] = IF @ = Absent THEN Real([ok |-> {}, drifted |-> {}]) ELSE @]
    <2> HIDE DEF target
    <2> QED BY <1>1, <1>2, <1>4 DEF target
  <1> QED BY <1>3, <1>4 DEF GenerateFails

LEMMA BackupRecords ==
  ASSUME IInv, NEW i \in pending, pc = "write", Backup(i)
  PROVE  /\ planned' \in [Interfaces -> Slots] /\ planned'[i] = FreeSlot(files[i])
         /\ \A j \in Interfaces \ {i} : planned'[j] = planned[j]
         /\ absent' = absent \union {<<i, FreeSlot(files[i])>>}
         /\ absent' \subseteq Interfaces \X Slots
  <1>1. FreeSlot(files[i]) \in Slots /\ i \in Interfaces
    BY FreeSlotIsFree DEF IInv, TypeOK, Interfaces
  <1>2. planned \in [Interfaces -> Slots] /\ absent \subseteq Interfaces \X Slots
    BY DEF IInv, ContractTypeOK
  <1> QED BY <1>1, <1>2 DEF Backup

(* A rollback removes at most the slot that was planned, and that one only  *)
(* when it is on record as absent.                                          *)
LEMMA RevertRemoves ==
  ASSUME IInv, NEW i \in Interfaces, RevertGap(i)
  PROVE  /\ files' \in [Interfaces -> [Slots -> Contents]]
         /\ \A j \in Interfaces \ {i} : files'[j] = files[j]
         /\ \A n \in Slots \ {planned[i]} : files'[i][n] = files[i][n]
         /\ files'[i][planned[i]] = IF <<i, planned[i]>> \in absent THEN Absent
                                    ELSE files[i][planned[i]]
  <1>1. Absent \in Contents
    BY DEF Contents
  <1>2. /\ files \in [Interfaces -> [Slots -> Contents]]
        /\ planned[i] \in Slots
    BY DEF IInv, ContractTypeOK
  <1> QED BY <1>1, <1>2 DEF RevertGap

-----------------------------------------------------------------------------
LEMMA InitEstablishes == Init => IInv
  <1> SUFFICES ASSUME Init PROVE IInv
    OBVIOUS
  <1>1. TypeOK /\ SpineInv
    BY InitEstablishesInv DEF Init
  <1>2. /\ files \in [Interfaces -> [Slots -> Contents]] /\ Original = files
        /\ \A i \in Interfaces, n \in Slots : n > 1 => files[i][n] = Absent
    <2>1. \A c \in Generated : Real(c) \in Contents
      BY ContractAssumption DEF Contents
    <2>2. Absent \in Contents /\ Stub \in Contents
      BY DEF Contents
    <2>3. \A s \in InitialSlots : /\ s \in [Slots -> Contents]
                                  /\ \A n \in Slots : n > 1 => s[n] = Absent
      <3> SUFFICES ASSUME NEW scaffold \in {Absent, Stub},
                          NEW pair \in {Absent, Stub} \union {Real(c) : c \in Generated}
                   PROVE  LET s == [n \in Slots |-> IF n = 0 THEN scaffold
                                                    ELSE IF n = 1 THEN pair ELSE Absent]
                          IN /\ s \in [Slots -> Contents]
                             /\ \A n \in Slots : n > 1 => s[n] = Absent
        BY DEF InitialSlots
      <3>1. scaffold \in Contents /\ pair \in Contents
        BY <2>1, <2>2
      <3> QED BY <2>2, <3>1, SlotsAreNumbers
    <2> QED BY <2>3 DEF Init, Tree, Original
  <1>3. ContractTypeOK
    <2>1. current.gaps.open \subseteq Interfaces
      BY DEF Init, Gaps
    <2> QED BY <1>2, <2>1, SlotsAreNumbers DEF Init, ContractTypeOK, NoReport
  <1>4. SlotsLeft
    BY <1>2 DEF Init, SpineInit, SlotsLeft
  <1>5. FoundKept /\ DiffersInPlanned /\ ListsAgree
    BY <1>2 DEF Init, SpineInit, NoReport, FoundKept, DiffersInPlanned, ListsAgree
  <1> QED BY <1>1, <1>3, <1>4, <1>5 DEF IInv

(* Every step of the run is a step of the spine or leaves the spine alone.  *)
LEMMA NextDrivesSpine == ContractTypeOK /\ Next => SpineStep \/ UNCHANGED spineVars
  <1> SUFFICES ASSUME ContractTypeOK, Next PROVE SpineStep \/ UNCHANGED spineVars
    OBVIOUS
  <1>1. CASE StartRound
    <2>1. Fillable \in SUBSET Targets
      BY DEF Fillable, ContractTypeOK, Interfaces
    <2> QED BY <1>1, <2>1 DEF StartRound, SpineStep
  <1>2. CASE JudgeRoundOfGaps
    <2>1. JudgeRound(TRUE) \/ JudgeRound(FALSE)
      BY <1>2 DEF JudgeRoundOfGaps, JudgeRound
    <2> QED BY <2>1 DEF SpineStep
  <1>3. CASE \E i \in Interfaces : Generate(i) \/ GenerateFails(i) \/ RevertGap(i) \/ KeepGap(i)
    BY <1>3 DEF Generate, GenerateFails, RevertGap, KeepGap, SpineStep, Interfaces
  <1>4. CASE VerifyBefore \/ GiveUpRound \/ VerifyAfter \/ CloseRound \/ VerifyFinal
    BY <1>4 DEF VerifyBefore, GiveUpRound, VerifyAfter, CloseRound, VerifyFinal, SpineStep
  <1>5. CASE Seed \/ Report
    BY <1>5 DEF Seed, Report
  <1> QED BY <1>1, <1>2, <1>3, <1>4, <1>5 DEF Next

(* The steps that touch no file: what they change of the bookkeeping.       *)
LEMMA QuietSteps ==
  ASSUME IInv, \/ Seed \/ StartRound \/ VerifyBefore \/ GiveUpRound \/ VerifyAfter
               \/ JudgeRoundOfGaps \/ CloseRound \/ VerifyFinal \/ Report
  PROVE  /\ UNCHANGED <<files, found, planned, absent, attempted, kept, reverted, wrote>>
         /\ stage' \in {"seed", "loop", "reported"}
         /\ current'.gaps.open \subseteq Interfaces
         /\ DOMAIN result' = DOMAIN result
         /\ result'.reverted = result.reverted /\ result'.closed = result.closed
         /\ (pending' = pending /\ round' = round) \/ round' = round + 1
  <1> USE DEF IInv, ContractTypeOK, contractVars, diskVars, report, spineVars
  <1>1. Measure => current'.gaps.open \subseteq Interfaces
    BY DEF Measure, Gaps
  <1>2. VerifyCached => current'.gaps.open \subseteq Interfaces
    BY <1>1 DEF VerifyCached
  <1>3. CASE Seed
    BY <1>1, <1>3 DEF Seed
  <1>4. CASE StartRound
    BY <1>4 DEF StartRound, BeginRound, LeaveLoop
  <1>5. CASE VerifyBefore \/ VerifyFinal
    BY <1>2, <1>5 DEF VerifyBefore, VerifyFinal, MeasureBefore, MeasureFinal
  <1>6. CASE VerifyAfter
    BY <1>1, <1>6 DEF VerifyAfter, MeasureAfter
  <1>7. CASE GiveUpRound \/ JudgeRoundOfGaps \/ CloseRound
    BY <1>7 DEF GiveUpRound, JudgeRoundOfGaps, CloseRound, NothingWritten, JudgeRound, EndRound
  <1>8. CASE Report
    BY <1>8 DEF Report
  <1> QED BY <1>3, <1>4, <1>5, <1>6, <1>7, <1>8

LEMMA QuietKeeps ==
  ASSUME IInv, TypeOK', SpineInv',
         \/ Seed \/ StartRound \/ VerifyBefore \/ GiveUpRound \/ VerifyAfter
         \/ JudgeRoundOfGaps \/ CloseRound \/ VerifyFinal \/ Report
  PROVE  IInv'
  <1>0. /\ UNCHANGED <<files, found, planned, absent, attempted, kept, reverted, wrote>>
        /\ stage' \in {"seed", "loop", "reported"}
        /\ current'.gaps.open \subseteq Interfaces
        /\ DOMAIN result' = DOMAIN result
        /\ result'.reverted = result.reverted /\ result'.closed = result.closed
        /\ (pending' = pending /\ round' = round) \/ round' = round + 1
    BY QuietSteps
  <1>1. ContractTypeOK' /\ FoundKept' /\ DiffersInPlanned' /\ ListsAgree'
    BY <1>0 DEF IInv, ContractTypeOK, FoundKept, DiffersInPlanned, ListsAgree, Original
  <1>2. SlotsLeft'
    <2>1. CASE pending' = pending /\ round' = round
      BY <1>0, <2>1 DEF IInv, SlotsLeft
    <2>2. CASE round' = round + 1
      <3>1. \A n \in Slots : n > round + 1 + 1 => n > round + 1
        BY RoundLimitNat, SlotsAreNumbers DEF IInv, TypeOK
      <3> QED BY <1>0, <2>2, <3>1 DEF IInv, SlotsLeft
    <2> QED BY <1>0, <2>1, <2>2
  <1> QED BY <1>1, <1>2 DEF IInv

LEMMA GenerateKeeps ==
  ASSUME IInv, TypeOK', SpineInv', NEW i \in Interfaces, Generate(i)
  PROVE  IInv'
  <1> DEFINE target == TargetSlot(files[i])
             free == FreeSlot(files[i])
  <1>0. /\ TypeOK /\ SpineInv /\ ContractTypeOK /\ SlotsLeft /\ FoundKept
        /\ DiffersInPlanned /\ ListsAgree
    BY DEF IInv
  <1>1. /\ pc = "write" /\ i \in pending /\ pending' = pending \ {i} /\ wrote' = wrote \union {i}
        /\ attempted' = attempted \union {i}
        /\ UNCHANGED <<round, kept, reverted, stage, found, current, result>>
    BY DEF Generate, Write
  <1>2. i \notin wrote /\ i \notin reverted
    BY <1>0, <1>1 DEF SpineInv
  <1>3. /\ target \in Slots \ {0} /\ target <= round + 1 /\ files[i][target].kind # "real"
        /\ ~Stubbed(files[i]) => target = free
    BY <1>0, <1>1, TargetIsFree
  <1>4. free \in Slots /\ files[i][free] = Absent
    BY <1>0, <1>1, FreeSlotIsFree
  <1>5. /\ files' \in [Interfaces -> [Slots -> Contents]]
        /\ \A j \in Interfaces \ {i} : files'[j] = files[j]
        /\ \A n \in Slots \ {target} : files'[i][n] = IF files[i][n] = Stub THEN Absent ELSE files[i][n]
    BY GenerateWrites
  <1>6. /\ planned' \in [Interfaces -> Slots] /\ planned'[i] = free
        /\ \A j \in Interfaces \ {i} : planned'[j] = planned[j]
        /\ absent' = absent \union {<<i, free>>} /\ absent' \subseteq Interfaces \X Slots
    BY <1>1, BackupRecords DEF Generate
  <1> HIDE DEF target, free
  <1>7. ContractTypeOK'
    BY <1>0, <1>1, <1>5, <1>6 DEF ContractTypeOK, Original
  <1>8. SlotsLeft'
    <2> SUFFICES ASSUME NEW j \in Interfaces, NEW n \in Slots,
                        n > round + 1 \/ (j \in pending' /\ n > round)
                 PROVE  files'[j][n] = Absent
      BY <1>1 DEF SlotsLeft
    <2>1. CASE j # i
      BY <1>0, <1>1, <1>5, <2>1 DEF SlotsLeft
    <2>2. CASE j = i
      <3>1. n # target /\ n > round + 1
        BY <1>0, <1>1, <1>3, <2>2, RoundLimitNat, SlotsAreNumbers DEF TypeOK
      <3>2. files[i][n] = Absent
        BY <1>0, <3>1 DEF SlotsLeft
      <3> QED BY <1>5, <2>2, <3>1, <3>2
    <2> QED BY <2>1, <2>2
  <1>9. FoundKept'
    <2>1. ASSUME NEW j \in Interfaces, NEW n \in Slots, Original[j][n].kind = "real"
          PROVE  files'[j][n] = Original[j][n]
      <3>1. files[j][n] = Original[j][n]
        BY <1>0, <2>1 DEF FoundKept
      <3>2. CASE j # i
        BY <1>5, <3>1, <3>2
      <3>3. CASE j = i
        <4>1. n # target /\ files[i][n] # Stub
          BY <1>3, <2>1, <3>1, <3>3, Kinds
        <4> QED BY <1>5, <3>1, <3>3, <4>1
      <3> QED BY <3>2, <3>3
    <2>2. Original[i][free].kind # "real"
      BY <1>0, <1>4, Kinds DEF FoundKept
    <2> QED BY <1>0, <1>1, <1>6, <2>1, <2>2 DEF FoundKept, Original
  <1>10. DiffersInPlanned'
    <2> SUFFICES ASSUME NEW j \in Interfaces, ~Stubbed(Original[j])
                 PROVE  /\ j \notin attempted' \/ j \in reverted \ kept => files'[j] = Original[j]
                        /\ j \in wrote' \ kept =>
                             /\ <<j, planned'[j]>> \in absent'
                             /\ Original[j][planned'[j]] = Absent
                             /\ \A n \in Slots \ {planned'[j]} : files'[j][n] = Original[j][n]
      BY <1>1 DEF DiffersInPlanned, Original
    <2>1. CASE j # i
      BY <1>0, <1>1, <1>5, <1>6, <2>1 DEF DiffersInPlanned
    <2>2. CASE j = i
      <3> SUFFICES ASSUME i \notin kept
                   PROVE  /\ <<i, free>> \in absent' /\ Original[i][free] = Absent
                          /\ \A n \in Slots \ {free} : files'[i][n] = Original[i][n]
        BY <1>1, <1>2, <1>6, <2>2
      <3>1. i \notin attempted
        <4>1. i \notin skipped
          BY <1>0, <1>1 DEF SpineInv
        <4> QED BY <1>0, <1>2, <4>1 DEF SpineInv
      <3>2. files[i] = Original[i]
        BY <1>0, <2>2, <3>1 DEF DiffersInPlanned
      <3>3. target = free /\ \A n \in Slots : files[i][n] # Stub
        BY <1>3, <2>2, <3>2, Kinds DEF Stubbed
      <3> QED BY <1>4, <1>5, <1>6, <3>2, <3>3
    <2> QED BY <2>1, <2>2
  <1>11. ListsAgree'
    BY <1>0, <1>1 DEF ListsAgree
  <1> QED BY <1>7, <1>8, <1>9, <1>10, <1>11 DEF IInv

LEMMA FailsKeeps ==
  ASSUME IInv, TypeOK', SpineInv', NEW i \in Interfaces, GenerateFails(i)
  PROVE  IInv'
  <1> DEFINE target == TargetSlot(files[i])
             free == FreeSlot(files[i])
  <1>0. /\ TypeOK /\ SpineInv /\ ContractTypeOK /\ SlotsLeft /\ FoundKept
        /\ DiffersInPlanned /\ ListsAgree
    BY DEF IInv
  <1>1. /\ pc = "write" /\ i \in pending /\ pending' = pending \ {i}
        /\ attempted' = attempted \union {i}
        /\ UNCHANGED <<round, wrote, kept, reverted, stage, found, current, result>>
    BY DEF GenerateFails, Skip
  <1>2. i \notin wrote /\ i \notin reverted
    BY <1>0, <1>1 DEF SpineInv
  <1>3. target \in Slots \ {0} /\ target <= round + 1 /\ files[i][target].kind # "real"
    BY <1>0, <1>1, TargetIsFree
  <1>4. free \in Slots /\ files[i][free] = Absent
    BY <1>0, <1>1, FreeSlotIsFree
  <1>5. /\ files' \in [Interfaces -> [Slots -> Contents]]
        /\ \A j \in Interfaces \ {i} : files'[j] = files[j]
        /\ \A n \in Slots \ {target} : files'[i][n] = files[i][n]
    BY FailureWrites
  <1>6. /\ planned' \in [Interfaces -> Slots]
        /\ \A j \in Interfaces \ {i} : planned'[j] = planned[j]
        /\ absent' = absent \union {<<i, free>>} /\ absent' \subseteq Interfaces \X Slots
    BY <1>1, BackupRecords DEF GenerateFails
  <1> HIDE DEF target, free
  <1>7. ContractTypeOK'
    BY <1>0, <1>1, <1>5, <1>6 DEF ContractTypeOK, Original
  <1>8. SlotsLeft'
    <2> SUFFICES ASSUME NEW j \in Interfaces, NEW n \in Slots,
                        n > round + 1 \/ (j \in pending' /\ n > round)
                 PROVE  files'[j][n] = Absent
      BY <1>1 DEF SlotsLeft
    <2>1. CASE j # i
      BY <1>0, <1>1, <1>5, <2>1 DEF SlotsLeft
    <2>2. CASE j = i
      <3>1. n # target /\ n > round + 1
        BY <1>0, <1>1, <1>3, <2>2, RoundLimitNat, SlotsAreNumbers DEF TypeOK
      <3> QED BY <1>0, <1>5, <2>2, <3>1 DEF SlotsLeft
    <2> QED BY <2>1, <2>2
  <1>9. FoundKept'
    <2>1. ASSUME NEW j \in Interfaces, NEW n \in Slots, Original[j][n].kind = "real"
          PROVE  files'[j][n] = Original[j][n]
      <3>1. files[j][n] = Original[j][n]
        BY <1>0, <2>1 DEF FoundKept
      <3>2. j # i \/ n # target
        BY <1>3, <2>1, <3>1
      <3> QED BY <1>5, <3>1, <3>2
    <2>2. Original[i][free].kind # "real"
      BY <1>0, <1>4, Kinds DEF FoundKept
    <2> QED BY <1>0, <1>1, <1>6, <2>1, <2>2 DEF FoundKept, Original
  <1>10. DiffersInPlanned'
    <2> SUFFICES ASSUME NEW j \in Interfaces, ~Stubbed(Original[j])
                 PROVE  /\ j \notin attempted' \/ j \in reverted \ kept => files'[j] = Original[j]
                        /\ j \in wrote \ kept =>
                             /\ <<j, planned'[j]>> \in absent'
                             /\ Original[j][planned'[j]] = Absent
                             /\ \A n \in Slots \ {planned'[j]} : files'[j][n] = Original[j][n]
      BY <1>1 DEF DiffersInPlanned, Original
    <2>1. CASE j # i
      BY <1>0, <1>1, <1>5, <1>6, <2>1 DEF DiffersInPlanned
    <2>2. CASE j = i
      BY <1>1, <1>2, <2>2
    <2> QED BY <2>1, <2>2
  <1>11. ListsAgree'
    BY <1>0, <1>1 DEF ListsAgree
  <1> QED BY <1>7, <1>8, <1>9, <1>10, <1>11 DEF IInv

LEMMA RevertKeeps ==
  ASSUME IInv, TypeOK', SpineInv', NEW i \in Interfaces, RevertGap(i)
  PROVE  IInv'
  <1> DEFINE slot == planned[i]
  <1>0. /\ TypeOK /\ SpineInv /\ ContractTypeOK /\ SlotsLeft /\ FoundKept
        /\ DiffersInPlanned /\ ListsAgree
    BY DEF IInv
  <1>1. /\ i \in wrote /\ wrote' = wrote \ {i} /\ reverted' = reverted \union {i}
        /\ result' = [result EXCEPT !.reverted = @ \union {i}]
        /\ UNCHANGED <<round, pending, attempted, kept, stage, found, planned, absent, current>>
    BY DEF RevertGap, Revert
  <1>2. i \in attempted
    BY <1>0, <1>1 DEF SpineInv
  <1>3. /\ files' \in [Interfaces -> [Slots -> Contents]]
        /\ \A j \in Interfaces \ {i} : files'[j] = files[j]
        /\ \A n \in Slots \ {slot} : files'[i][n] = files[i][n]
        /\ files'[i][slot] = IF <<i, slot>> \in absent THEN Absent ELSE files[i][slot]
    BY RevertRemoves
  <1>4. /\ slot \in Slots /\ Original[i] \in [Slots -> Contents]
        /\ files'[i] \in [Slots -> Contents]
    BY <1>0, <1>3 DEF ContractTypeOK
  <1> HIDE DEF slot
  <1>5. DOMAIN result' = DOMAIN result
        /\ result'.reverted = reverted' /\ result'.closed = kept
    BY <1>0, <1>1 DEF ListsAgree, ContractTypeOK
  <1>6. ContractTypeOK'
    BY <1>0, <1>1, <1>3, <1>5 DEF ContractTypeOK, Original
  <1>7. SlotsLeft'
    <2> SUFFICES ASSUME NEW j \in Interfaces, NEW n \in Slots,
                        n > round + 1 \/ (j \in pending /\ n > round)
                 PROVE  files'[j][n] = Absent
      BY <1>1 DEF SlotsLeft
    <2>1. files[j][n] = Absent
      BY <1>0 DEF SlotsLeft
    <2> QED BY <1>3, <2>1
  <1>8. FoundKept'
    <2>1. ASSUME NEW j \in Interfaces, NEW n \in Slots, Original[j][n].kind = "real"
          PROVE  files'[j][n] = Original[j][n]
      <3>1. files[j][n] = Original[j][n] /\ <<j, n>> \notin absent
        BY <1>0, <2>1 DEF FoundKept
      <3> QED BY <1>3, <3>1
    <2> QED BY <1>0, <1>1, <2>1 DEF FoundKept, Original
  <1>9. DiffersInPlanned'
    <2> SUFFICES ASSUME NEW j \in Interfaces, ~Stubbed(Original[j])
                 PROVE  /\ j \notin attempted \/ j \in reverted' \ kept => files'[j] = Original[j]
                        /\ j \in wrote' \ kept =>
                             /\ <<j, planned[j]>> \in absent
                             /\ Original[j][planned[j]] = Absent
                             /\ \A n \in Slots \ {planned[j]} : files'[j][n] = Original[j][n]
      BY <1>1 DEF DiffersInPlanned, Original
    <2>1. CASE j # i
      BY <1>0, <1>1, <1>3, <2>1 DEF DiffersInPlanned
    <2>2. CASE j = i
      <3> SUFFICES ASSUME i \notin kept PROVE files'[i] = Original[i]
        BY <1>1, <1>2, <2>2
      <3>1. /\ <<i, slot>> \in absent /\ Original[i][slot] = Absent
            /\ \A n \in Slots \ {slot} : files[i][n] = Original[i][n]
        BY <1>0, <1>1, <2>2 DEF DiffersInPlanned, slot
      <3>2. \A n \in Slots : files'[i][n] = Original[i][n]
        BY <1>3, <3>1
      <3> QED BY <1>4, <3>2
    <2> QED BY <2>1, <2>2
  <1>10. ListsAgree'
    BY <1>1, <1>5 DEF ListsAgree
  <1> QED BY <1>6, <1>7, <1>8, <1>9, <1>10 DEF IInv

LEMMA KeepKeeps ==
  ASSUME IInv, TypeOK', SpineInv', NEW i \in Interfaces, KeepGap(i)
  PROVE  IInv'
  <1>0. /\ TypeOK /\ SpineInv /\ ContractTypeOK /\ SlotsLeft /\ FoundKept
        /\ DiffersInPlanned /\ ListsAgree
    BY DEF IInv
  <1>1. /\ i \in wrote /\ wrote' = wrote \ {i} /\ kept' = kept \union {i}
        /\ result' = [result EXCEPT !.closed = @ \union {i}]
        /\ UNCHANGED <<round, pending, attempted, reverted, stage, files, found, planned, absent, current>>
    BY DEF KeepGap, Keep, diskVars
  <1>2. DOMAIN result' = DOMAIN result
        /\ result'.reverted = reverted /\ result'.closed = kept'
    BY <1>0, <1>1 DEF ListsAgree, ContractTypeOK
  <1>3. ContractTypeOK' /\ SlotsLeft' /\ FoundKept'
    BY <1>0, <1>1, <1>2 DEF ContractTypeOK, SlotsLeft, FoundKept, Original
  <1>4. i \in attempted
    BY <1>0, <1>1 DEF SpineInv
  <1>5. DiffersInPlanned'
    BY <1>0, <1>1, <1>4 DEF DiffersInPlanned, Original
  <1>6. ListsAgree'
    BY <1>1, <1>2 DEF ListsAgree
  <1> QED BY <1>3, <1>5, <1>6 DEF IInv

LEMMA NextKeeps == IInv /\ [Next]_vars => IInv'
  <1> SUFFICES ASSUME IInv, [Next]_vars PROVE IInv'
    OBVIOUS
  <1>1. TypeOK' /\ SpineInv'
    <2>1. SpineStep \/ UNCHANGED spineVars
      BY NextDrivesSpine DEF IInv, vars
    <2> QED BY <2>1, StepKeepsInv, StutterKeepsInv DEF IInv
  <1>2. CASE UNCHANGED vars
    BY <1>1, <1>2 DEF IInv, vars, spineVars, contractVars, diskVars, ContractTypeOK, SlotsLeft,
                      FoundKept, DiffersInPlanned, ListsAgree, Original
  <1>3. CASE \/ Seed \/ StartRound \/ VerifyBefore \/ GiveUpRound \/ VerifyAfter
             \/ JudgeRoundOfGaps \/ CloseRound \/ VerifyFinal \/ Report
    BY <1>1, <1>3, QuietKeeps
  <1>4. CASE \E i \in Interfaces : Generate(i) \/ GenerateFails(i) \/ RevertGap(i) \/ KeepGap(i)
    BY <1>1, <1>4, GenerateKeeps, FailsKeeps, RevertKeeps, KeepKeeps
  <1> QED BY <1>2, <1>3, <1>4 DEF Next

(* The inductive invariant of run_contract_modify.                          *)
THEOREM ContractInvariant == ContractSpec => []IInv
  <1> QED BY InitEstablishes, NextKeeps, PTL DEF ContractSpec

(* Working code the run found is never overwritten or removed, and an       *)
(* interface whose change was rolled back and never kept has the files the  *)
(* run found, when none of them was a stub.                                 *)
THEOREM FoundFilesKept == ContractSpec => []FoundFilesRespected
  <1>1. IInv => FoundFilesRespected
    <2> SUFFICES ASSUME IInv PROVE FoundFilesRespected
      OBVIOUS
    <2>1. \A i \in Interfaces, n \in Slots :
            found[1][i][n].kind = "real" => files[i][n] = found[1][i][n]
      BY DEF IInv, FoundKept, Original
    <2>2. \A i \in result.reverted \ result.closed :
            ~Stubbed(found[1][i]) => files[i] = found[1][i]
      <3>1. result.reverted \subseteq Interfaces
        BY DEF IInv, ListsAgree, TypeOK, Interfaces
      <3> QED BY <3>1 DEF IInv, DiffersInPlanned, ListsAgree, Original
    <2> QED BY <2>1, <2>2 DEF FoundFilesRespected
  <1> QED BY <1>1, ContractInvariant, PTL

(* The cascade is a run of the modify loop and keeps its promise: one       *)
(* verdict per write, and a verdict that stands.                            *)
THEOREM CascadeKeepsPromise == ContractSpec => ImplementsPromise
  <1>1. SpineInit => Promise!Init
    BY DEF SpineInit, Promise!Init, Status
  <1>2. Init => SpineInit
    BY DEF Init
  <1>3. IInv /\ [Next]_vars => [Promise!Next]_(Promise!vars)
    <2>1. IInv /\ [Next]_vars => [SpineStep]_spineVars
      BY NextDrivesSpine DEF IInv, vars
    <2> QED BY <2>1, StepImplementsPromise DEF IInv
  <1> QED
    BY <1>1, <1>2, <1>3, ContractInvariant, PTL
    DEF ContractSpec, ImplementsPromise, Promise!Spec
=============================================================================
