---------------------------- MODULE CreationSheet ----------------------------
(* The New Project sheet (CreateProjectSheet.swift, create) driving the     *)
(* creation actor: scaffold, fill, write, verify, finalize, build and       *)
(* repair, each a round trip through the coordinator, while other clients,  *)
(* a person and the end of the process go on beside it.  The sheet holds a  *)
(* copy of the design, and the steps of a plan, from one round trip to the  *)
(* next; the contract they are run under is the actor's, and is whatever    *)
(* the last plan or fill of anybody put there.  Every step is a step of     *)
(* ProjectCreation or changes nothing of it.                                *)
EXTENDS ProjectCreation, SequencesExt

CONSTANTS
  MaxSheets,     \* creations started
  MaxBeside,     \* what happens beside them: requests, edits, the end of the process
  MaxReply       \* longest reply of the model, in elements

ASSUME SheetConstantsOK == {MaxSheets, MaxBeside, MaxReply} \subseteq Nat /\ None \notin Trees

VARIABLES
  sheet,     \* the creation in progress, or the last one
  left       \* what is left of the creations and of what happens beside them

sheetVars == <<vars, sheet, left>>

\* The rounds of for pass in 0...2.
LastPass == 2

NoSheet == [at |-> "idle", tree |-> None, design |-> None, plan |-> <<>>, pass |-> 0,
            checked |-> None, gaps |-> FALSE, built |-> None, baseline |-> None,
            disturbed |-> FALSE]

SheetInit ==
  /\ Init
  /\ sheet = NoSheet
  /\ left = [sheets |-> MaxSheets, beside |-> MaxBeside]

Here == disk[sheet.tree]
Goto(at) == sheet' = [sheet EXCEPT !.at = at]
Stop == sheet' = [NoSheet EXCEPT !.at = "stopped"]

\* The actor answers the sheet: no other message is taken.
Busy == sheet.at \in {"planning", "writing", "rewriting"}

-----------------------------------------------------------------------------
(* A plan of the model.                                                     *)

\* An element that is no step, one that never ends, and one that builds.
Junk == [part |-> "junk", text |-> None]
Cut == [part |-> "cut", text |-> None]
BuildStep == [part |-> "build_step", text |-> None]
Write(part, text) == [part |-> part, text |-> text]

PlanElements ==
  {Junk, Cut, BuildStep} \union
  UNION {{Write(part, text) : text \in Texts(part)} : part \in {"main", "composition"}}

Replies == SeqOf(PlanElements, MaxReply)

StepFrom(e) == e \notin {Junk, Cut}

\* A reply that does not parse is searched for elements, up to the one that
\* never ends.
Salvaged(reply) ==
  SelectSeq(SubSeq(reply, 1, SelectInSeq(reply, LAMBDA e : e = Cut) - 1), StepFrom)

ParseSteps(reply) ==
  IF Contains(reply, Cut) THEN Salvaged(reply) ELSE SelectSeq(reply, StepFrom)

\* One more try when the first reply holds no step.
Planned(first, second) ==
  IF ParseSteps(first) # <<>> THEN ParseSteps(first) ELSE ParseSteps(second)

Plans == {Planned(first, second) : first \in Replies, second \in Replies} \ {<<>>}

\* What a fill plans from: the tree's design, never one that is broken.
Plannable(files) == Read(files) # Broken

\* writableSteps: the sheet builds last, and by itself.
WritableSteps(plan) == SelectSeq(plan, LAMBDA e : e # BuildStep)

-----------------------------------------------------------------------------
(* The sheet.                                                               *)

\* create(): the design goes to the library first, and a library that
\* refuses it ends the creation.
Create(t, d) ==
  /\ sheet.at \in {"idle", "stopped"}
  /\ left.sheets > 0
  /\ left' = [left EXCEPT !.sheets = @ - 1]
  /\ \E at \in {"scaffold"} \union IF d = None THEN {} ELSE {"stopped"} :
       sheet' = IF at = "stopped" THEN [NoSheet EXCEPT !.at = at]
                ELSE [NoSheet EXCEPT !.at = at, !.tree = t, !.design = d]
  /\ UNCHANGED vars

\* The door of a design opened from a file is the file.
SheetScaffolds ==
  /\ sheet.at = "scaffold"
  /\ \/ /\ Scaffold(sheet.tree, sheet.design,
                    IF sheet.design = None THEN None ELSE "composition_file")
        /\ Goto("scaffolding")
     \/ Refused /\ Stop
  /\ UNCHANGED left

\* ensure_scaffold_git: what the commit holds, where git is there, is
\* everything the tree holds; without git the scaffold goes on.
CommitBaseline ==
  /\ sheet.at = "scaffolding" /\ job.at \in {"load", "analyze"}
  /\ sheet' = [sheet EXCEPT !.at = "scaffolded", !.baseline = Here]
  /\ UNCHANGED <<vars, left>>

\* The sheet's own scaffold goes on; it is told of an error when a file could
\* not be written, and when the analysis after it failed.
ScaffoldGoesOn ==
  /\ \/ sheet.at = "scaffolding" /\ (WriteFile \/ WriteFails)
     \/ sheet.at = "scaffolded" /\ (LoadDecision \/ StoreComposition \/ StoreDecision \/ Analyze)
  /\ IF job' # Idle THEN UNCHANGED sheet
     ELSE \/ Stop
          \/ /\ sheet.at = "scaffolded"
             /\ Goto(IF sheet.design = None THEN "closed" ELSE "fill")
  /\ UNCHANGED left

\* The contract of the fill is the scaffold's own, handed back.  A record that
\* could not be written, or a composition that is broken, is an error before
\* the model is asked.
SheetFills ==
  /\ sheet.at = "fill"
  /\ FillProject(sheet.tree, "application")
  /\ IF Plannable(Here) /\ disk'[sheet.tree].record # Broken THEN Goto("planning") ELSE Stop
  /\ UNCHANGED left

\* The plan, or none: a model that fails, or gives no usable step twice.
FillAnswers ==
  /\ sheet.at = "planning"
  /\ \/ Stop
     \/ \E plan \in Plans :
          sheet' = [sheet EXCEPT !.at = "write", !.plan = WritableSteps(plan)]
  /\ UNCHANGED <<vars, left>>

\* ExecutePlan: the steps in order, in one message; a step that is refused,
\* or fails, does not end the plan.
SendPlan ==
  /\ sheet.at \in {"write", "rewrite"} /\ job = Idle
  /\ Goto(IF sheet.at = "write" THEN "writing" ELSE "rewriting")
  /\ UNCHANGED <<vars, left>>

RunStep ==
  /\ sheet.at \in {"writing", "rewriting"} /\ sheet.plan # <<>>
  /\ \/ \E part \in {"main", "composition"} : \E text \in Texts(part) :
          /\ Head(sheet.plan) = Write(part, text)
          /\ Message /\ Permits(part) /\ Writes(sheet.tree, part, text, "step")
     \/ Refused
  /\ sheet' = [sheet EXCEPT !.plan = Tail(@)]
  /\ UNCHANGED left

\* Bug: a last repair is taken for a build.
AfterRewriteTrusting == IF sheet.pass < LastPass THEN "build" ELSE "closed"

\* After the last pass the repair is written all the same, and not built.
AfterRewrite == IF sheet.pass < LastPass THEN "build" ELSE "stopped"

PlanDone ==
  /\ sheet.plan = <<>>
  /\ \/ sheet.at = "writing" /\ Goto("verify")
     \/ sheet.at = "rewriting" /\ sheet' = [sheet EXCEPT !.at = AfterRewrite, !.pass = @ + 1]
  /\ UNCHANGED <<vars, left>>

\* A pass that finds no design in force, or a broken one, is refused.
NoDesign == Resolve(Here, sheet.design) \notin Designs

\* composition_gaps reads the sources with the design; without a source it
\* finds one gap at least.
SheetVerifies ==
  /\ sheet.at = "verify"
  /\ \/ /\ VerifyReads(sheet.tree, sheet.design)
        /\ \E gaps \in {TRUE, Here.main = "none"} :
             sheet' = [sheet EXCEPT !.at = "verifying", !.gaps = gaps,
                                    !.checked = Resolve(Here, sheet.design)]
     \/ NoDesign /\ Stop /\ UNCHANGED vars
  /\ UNCHANGED left

\* How fresh the decision is, is told; only the gaps end the creation.
SheetVerified ==
  /\ sheet.at = "verifying"
  /\ VerifyAnswers
  /\ Goto(IF sheet.gaps THEN "stopped" ELSE "finalize")
  /\ UNCHANGED left

SheetFinalizes ==
  /\ sheet.at = "finalize"
  /\ \/ FinalizeManifest(sheet.tree, sheet.design) /\ Goto("build")
     \/ NoDesign /\ Stop /\ UNCHANGED vars
  /\ UNCHANGED left

\* What can compile: build files and sources, and board support where the
\* sources reach for it.
Compiles(files) ==
  /\ files.build \in Designs
  /\ files.main # "none"
  /\ files.main = "board" => Bsp[files.build] \subseteq files.manifest

SheetBuilds ==
  /\ sheet.at = "build"
  /\ \/ Compiles(Here) /\ sheet' = [sheet EXCEPT !.at = "closed", !.built = Here]
     \/ Goto("repair")
  /\ UNCHANGED <<vars, left>>

\* What a repair may rewrite: the files under the fill roots that are there.
RepairSteps == {Write("main", text) : text \in {x \in Texts("main") : Here.main # "none"}}

\* createProject/RepairFromBuild answers with rewrites, with none (nothing
\* it may touch is to blame, or every proposal was refused), or with an error.
SheetRepairs ==
  /\ sheet.at = "repair"
  /\ \/ Stop
     \/ \E e \in RepairSteps : sheet' = [sheet EXCEPT !.at = "rewrite", !.plan = <<e>>]
  /\ UNCHANGED <<vars, left>>

SheetSteps ==
  \/ SheetScaffolds \/ CommitBaseline \/ ScaffoldGoesOn \/ SheetFills \/ FillAnswers
  \/ SendPlan \/ RunStep \/ PlanDone \/ SheetVerifies \/ SheetVerified \/ SheetFinalizes
  \/ SheetBuilds \/ SheetRepairs

-----------------------------------------------------------------------------
(* Beside the sheet.                                                        *)

\* The sheet's tree, or the contract its steps run under, changed under it.
Beside ==
  sheet' = [sheet EXCEPT !.disturbed =
              @ \/ (sheet.tree # None /\ (disk'[sheet.tree] # Here \/ contract' # contract))]

Another ==
  /\ left.beside > 0
  /\ left' = [left EXCEPT !.beside = @ - 1]

\* The coordinator's handlers: what they are given is decoded, handed to the
\* actor, and its answer waited for.  A request that is refused changes nothing.
ClientPlans(t, d) == Another /\ ~Busy /\ (PlanScaffold(t, d) \/ PlanLibrary) /\ Beside

\* Of a design it found in the tree a client names no door.
ClientScaffolds(t, d) ==
  Another /\ ~Busy /\ Scaffold(t, d, IF d = None THEN None ELSE "answered") /\ Beside

\* A spec that does not parse is the empty one.
ClientFills(t, given) == Another /\ ~Busy /\ FillProject(t, given) /\ Beside

\* A step that does not parse builds; a directory, a dependency of a Cargo
\* manifest, a tool, a parse, a build and a test leave the design alone.
ClientRunsStep(t, part) == Another /\ ~Busy /\ (WriteStep(t, part) \/ HalContractStep(t, part)) /\ Beside

\* A pass of another client over a design, the tree's before its own.
ClientPasses(t, d) == Another /\ (FinalizeManifest(t, d) \/ VerifyReads(t, d)) /\ Beside

ClientGoesOn ==
  /\ \/ sheet.at \notin {"scaffolding", "scaffolded"} /\ CarryOn
     \/ sheet.at # "verifying" /\ VerifyAnswers
  /\ Beside /\ UNCHANGED left

PersonWrites(t, text) == Another /\ PersonEdits(t, text) /\ Beside

\* The sheet and the core are one process.
ProcessEnds == Another /\ Restart /\ sheet' = NoSheet

SheetNext ==
  \/ SheetSteps \/ ClientGoesOn \/ ProcessEnds
  \/ \E t \in Trees, d \in Stated :
       \/ Create(t, d) \/ ClientPlans(t, d) \/ ClientScaffolds(t, d) \/ ClientPasses(t, d)
  \/ \E t \in Trees, c \in {"empty", "application"} : ClientFills(t, c)
  \/ \E t \in Trees, part \in {"composition", "record", "build", "main"} : ClientRunsStep(t, part)
  \/ \E t \in Trees, text \in Contents : PersonWrites(t, text)

SheetSpec == SheetInit /\ [][SheetNext]_sheetVars

-----------------------------------------------------------------------------
(* "a gap stops the pipeline here rather than building, dismissing, and     *)
(* handing over an application nobody designed" (CreateProjectSheet.swift:  *)
(* 885): when the sheet closes over a designed application, and neither a   *)
(* person nor another client changed the tree or the contract meanwhile,    *)
(* the files on disk are the ones that were built, they state one design,   *)
(* the sources were checked against that design after they were filled, and *)
(* the commit to go back to holds that design and no fill.                  *)
HandedOver ==
  sheet.at = "closed" /\ sheet.design # None /\ ~sheet.disturbed =>
    /\ Here = sheet.built
    /\ Here.composition \in Designs
    /\ {Here.record, Here.build, sheet.checked} = {Here.composition}
    /\ sheet.baseline.composition = Here.composition /\ sheet.baseline.main = "stub"
=============================================================================
