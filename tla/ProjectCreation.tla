--------------------------- MODULE ProjectCreation ---------------------------
(* Creating and re-creating an ESP-IDF application: the actor of            *)
(* subsystems/project/project_creation.rs plans, scaffolds, fills and runs  *)
(* steps, one message at a time, while the coordinator finalizes the        *)
(* manifest and verifies the application beside it and a person edits       *)
(* composition.spire.  A design is stated four times: in the composition a  *)
(* person edits, in the record and the build files of the tree, and, with   *)
(* the decision behind it, in the memory graph, which knows a project by    *)
(* its name.                                                                *)
EXTENDS Integers, Sequences

CONSTANTS
  Trees,       \* project directories
  Name,        \* the project name each is created under
  Designs,     \* the application designs there are
  Bsp,         \* [Designs -> SUBSET components]: the board support it states
  Published,   \* [Designs -> SUBSET components]: its published components
  None,        \* no file, no design, no door
  Broken       \* a file that states no design that holds together

ASSUME ConstantsOK == None \notin Designs /\ Broken \notin Designs /\ None # Broken

VARIABLES
  disk,      \* tree -> the files that state its design, and the product file
  graph,     \* name -> the composition and the decision the graph holds
  contract,  \* active_spec: what the steps of a plan may write
  job,       \* the scaffold being carried out, or Idle
  check,     \* the verification being carried out, or Idle
  answer,    \* the last freshness a verification answered with
  settled,   \* history: tree -> "writing", "yes": its last scaffold was not disturbed
  author,    \* history: tree -> who wrote its composition
  accepted   \* history: the designs decided for each tree

vars == <<disk, graph, contract, job, check, answer, settled, author, accepted>>
history == <<settled, author, accepted>>

Names == {Name[t] : t \in Trees}
Doors == {"answered", "composition_file"}
Stated == Designs \union {None}
Contents == Stated \union {Broken}
Idle == [tree |-> None]

-----------------------------------------------------------------------------
(* What the tree states.                                                    *)

\* Board support counts only if the product includes it, or the scaffold
\* asks before there is a product.
Deps(d, board) == (IF board THEN Bsp[d] ELSE {}) \union Published[d]

\* The composition decides; one that is there and broken is never replaced
\* by the record.
Read(files) == IF files.composition # None THEN files.composition ELSE files.record

\* Bug: the copy the caller reviewed decides.
ResolveCallerFirst(files, requested) ==
  IF requested # None THEN requested ELSE Read(files)

\* The tree's design when it states one, and the caller's otherwise.
Resolve(files, requested) ==
  IF Read(files) # None THEN Read(files) ELSE requested

Dropped(files, requested) ==
  /\ requested # None
  /\ Read(files) # None
  /\ requested # Read(files)

EmptyTree == [composition |-> None, record |-> None, build |-> None,
              main |-> "none", manifest |-> {}]

Init ==
  /\ disk = [t \in Trees |-> EmptyTree]
  /\ graph = [n \in Names |-> [anchor |-> None,
                               decision |-> [design |-> None, door |-> None, version |-> 0]]]
  /\ contract = "none"
  /\ job = Idle
  /\ check = Idle
  /\ answer = [tree |-> None]
  /\ settled = [t \in Trees |-> "no"]
  /\ author = [t \in Trees |-> "nobody"]
  /\ accepted = [t \in Trees |-> {}]

\* The actor takes its next message.
Message == job = Idle

-----------------------------------------------------------------------------
(* What a plan's step may write (the structural guard).                     *)

\* Bug: a composition that was kept is not listed as structural.
LockedAsWritten == [none |-> {}, empty |-> {}, library |-> {"build"},
                    application |-> {"record", "build", "manifest"}]

Locked == [none |-> {}, empty |-> {}, library |-> {"build"},
           application |-> {"composition", "record", "build", "manifest"}]

\* The fill roots, main and components, hold the product file; the contract
\* of a library names no root, and so confines nothing.
Permits(part) == part \notin Locked[contract]

\* createProject/Plan: the contract is in force before the model is asked,
\* and stays when it does not answer.
PlanScaffold(t, requested) ==
  /\ Message
  /\ Resolve(disk[t], requested) # Broken
  /\ contract' = "application"
  /\ UNCHANGED <<disk, graph, job, check, answer, history>>

PlanLibrary ==
  /\ Message
  /\ contract' = "library"
  /\ UNCHANGED <<disk, graph, job, check, answer, history>>

\* createProject/Fill: the contract is the caller's spec, or the empty one
\* when that does not parse.  The record is brought into agreement with the
\* composition before the model is asked; a write that fails may tear it.
FillProject(t, given) ==
  /\ Message
  /\ contract' = given
  /\ \/ disk' = IF Read(disk[t]) = Broken THEN disk
                ELSE [disk EXCEPT ![t].record = Read(disk[t])]
     \/ /\ Read(disk[t]) \notin {Broken, disk[t].record}
        /\ disk' = [disk EXCEPT ![t].record = Broken]
  /\ UNCHANGED <<graph, job, check, answer, history>>

-----------------------------------------------------------------------------
(* createProject/Scaffold.                                                  *)

\* The order application_scaffold lists the files in, and those it lists.
Order == <<"build", "main", "composition", "record", "manifest">>

Listed(d) ==
  {"build", "main"} \union
  IF d = None THEN {}
  ELSE {"composition", "record"} \union IF Deps(d, TRUE) = {} THEN {} ELSE {"manifest"}

\* The design is resolved once; a tree whose composition is broken is refused.
Scaffold(t, requested, door) ==
  /\ Message
  /\ LET d == Resolve(disk[t], requested)
     IN /\ d # Broken
        /\ job' = [tree |-> t, at |-> "write", design |-> d, next |-> 1,
                   door |-> IF door = None /\ Dropped(disk[t], requested)
                            THEN "composition_file" ELSE door,
                   version |-> 1, unread |-> FALSE]
  /\ settled' = [settled EXCEPT ![t] = "writing"]
  /\ UNCHANGED <<disk, graph, contract, check, answer, author, accepted>>

\* A plan or a scaffold that is refused by name, or that the build manager
\* cannot lay out, changes nothing.
Refused ==
  /\ Message
  /\ UNCHANGED <<disk, graph, contract, job, check, answer, history>>

Content(part, d) ==
  CASE part = "main" -> "stub"
    [] part = "manifest" -> Deps(d, TRUE)
    [] OTHER -> d

\* Bug: the scaffold renders the composition over the one that is there.
KeptNever(t, part) == FALSE

\* A composition that is there already is left alone, byte for byte.
Kept(t, part) == part = "composition" /\ disk[t].composition # None

\* materialize_scaffold_files: the next file of the list.
WriteFile ==
  /\ job # Idle /\ job.at = "write"
  /\ LET t == job.tree
         part == Order[job.next]
         last == job.next = Len(Order)
     IN /\ IF part \notin Listed(job.design) \/ Kept(t, part)
           THEN UNCHANGED <<disk, author>>
           ELSE /\ disk' = [disk EXCEPT ![t][part] = Content(part, job.design)]
                /\ author' = IF part = "composition"
                             THEN [author EXCEPT ![t] = "scaffold"] ELSE author
        /\ job' = IF ~last THEN [job EXCEPT !.next = @ + 1]
                  ELSE [job EXCEPT !.at = IF job.design = None THEN "analyze" ELSE "load"]
        /\ settled' = IF last /\ settled[t] = "writing"
                      THEN [settled EXCEPT ![t] = "yes"] ELSE settled
  /\ UNCHANGED <<graph, contract, check, answer, accepted>>

\* fs::write is not atomic: what the failing write leaves is the old file,
\* or a torn one.
Tears(t, part) ==
  IF part \notin Listed(job.design) \/ Kept(t, part) \/ part = "manifest" THEN UNCHANGED <<disk, author>>
  ELSE \/ UNCHANGED <<disk, author>>
       \/ /\ disk' = [disk EXCEPT ![t][part] = IF part = "main" THEN "plain" ELSE Broken]
          /\ author' = IF part = "composition"
                       THEN [author EXCEPT ![t] = "scaffold"] ELSE author

WriteFails ==
  /\ job # Idle /\ job.at = "write"
  /\ Tears(job.tree, Order[job.next])
  /\ job' = Idle
  /\ settled' = [settled EXCEPT ![job.tree] = "no"]
  /\ UNCHANGED <<graph, contract, check, answer, accepted>>

-----------------------------------------------------------------------------
(* store_accepted_design: the decision, once the files are written.         *)

\* Bug: a node's name without its project.
MemNameShared(t) == Name[CHOOSE u \in Trees : TRUE]

\* Nodes are known by project and name, so the store of one project does
\* not meet another's.
MemName(t) == Name[t]

Decision(t) == graph[MemName(t)].decision

\* Bug: every scaffold is a decision.
RatifiesNever(t, d) == FALSE

Ratifies(t, d) == Decision(t).design = d

\* A decision that cannot be read does not block a fresh one: the count of
\* versions starts again.
LoadDecision ==
  /\ job # Idle /\ job.at = "load"
  /\ \/ /\ Ratifies(job.tree, job.design)
        /\ job' = [job EXCEPT !.at = "analyze"]
     \/ /\ ~Ratifies(job.tree, job.design)
        /\ job' = [job EXCEPT !.at = "composition", !.version = Decision(job.tree).version + 1]
     \/ job' = [job EXCEPT !.at = "composition", !.unread = TRUE]
  /\ UNCHANGED <<disk, graph, contract, check, answer, history>>

\* The anchor is one node, replaced.  The units of a design are nodes of
\* their own, stored one by one and never taken away: nothing here reads them.
StoreComposition ==
  /\ job # Idle /\ job.at = "composition"
  /\ LET n == MemName(job.tree)
     IN \/ /\ job' = [job EXCEPT !.at = "analyze"]
           /\ UNCHANGED graph
        \/ /\ graph' = [graph EXCEPT ![n].anchor = job.design]
           /\ job' = [job EXCEPT !.at = IF job.door = None THEN "analyze" ELSE "decision"]
  /\ UNCHANGED <<disk, contract, check, answer, history>>

\* A record without a composition to ratify is not stored.
StoreDecision ==
  /\ job # Idle /\ job.at = "decision"
  /\ LET t == job.tree
     IN \/ UNCHANGED <<graph, accepted>>
        \/ /\ graph[MemName(t)].anchor # None
           /\ graph' = [graph EXCEPT ![MemName(t)].decision =
                            [design |-> job.design, door |-> job.door, version |-> job.version]]
           /\ accepted' = [accepted EXCEPT ![t] = @ \union {job.design}]
  /\ job' = [job EXCEPT !.at = "analyze"]
  /\ UNCHANGED <<disk, contract, check, answer, settled, author>>

\* Last, the structure is analysed; failing that, the caller is told of an
\* error although everything has been written.
Analyze ==
  /\ job # Idle /\ job.at = "analyze"
  /\ job' = Idle
  /\ UNCHANGED <<disk, graph, contract, check, answer, history>>

-----------------------------------------------------------------------------
(* createProject/ExecuteStep, and each step of ExecutePlan.                 *)

Texts(part) == IF part = "main" THEN {"plain", "board"} ELSE Designs \union {Broken}

Writes(t, part, text, who) ==
  /\ disk' = [disk EXCEPT ![t][part] = text]
  /\ author' = IF part = "composition" THEN [author EXCEPT ![t] = who] ELSE author
  /\ settled' = IF part = "main" THEN settled ELSE [settled EXCEPT ![t] = "no"]
  /\ UNCHANGED <<graph, contract, job, check, answer, accepted>>

\* write_build_config, write_source_file, write_hal_implementation.
WriteStep(t, part) ==
  /\ Message
  /\ Permits(part)
  /\ \E text \in Texts(part) : Writes(t, part, text, "step")

\* write_hal_contract validates its text, an abstract class, and asks the
\* guard nothing: over a design it leaves none.
HalContractStep(t, part) ==
  /\ Message
  /\ Writes(t, part, IF part = "main" THEN "plain" ELSE Broken, "contract")

-----------------------------------------------------------------------------
(* Beside the actor: the coordinator, the person and the end of the process.*)

\* createProject/FinalizeManifest: the dependencies of the design in force,
\* the board's only if the product includes it.
FinalizeManifest(t, requested) ==
  /\ LET d == Resolve(disk[t], requested)
     IN /\ d \in Designs
        /\ disk' = [disk EXCEPT ![t].manifest = Deps(d, disk[t].main = "board")]
  /\ UNCHANGED <<graph, contract, job, check, answer, history>>

\* createProject/VerifyApplication reads the design and the sources, then
\* asks the graph.
VerifyReads(t, requested) ==
  /\ check = Idle
  /\ Resolve(disk[t], requested) \in Designs
  /\ check' = [tree |-> t, design |-> Resolve(disk[t], requested)]
  /\ UNCHANGED <<disk, graph, contract, job, answer, history>>

Freshness(decision, d) ==
  IF decision.design = None THEN "absent"
  ELSE IF decision.design = d THEN "current" ELSE "stale"

VerifyAnswers ==
  /\ check # Idle
  /\ \E state \in {Freshness(Decision(check.tree), check.design), "unknown"} :
       answer' = [tree |-> check.tree, design |-> check.design, state |-> state]
  /\ check' = Idle
  /\ UNCHANGED <<disk, graph, contract, job, history>>

\* A person writes, breaks or removes the composition, at any time.
PersonEdits(t, text) ==
  /\ text # disk[t].composition
  /\ disk' = [disk EXCEPT ![t].composition = text]
  /\ author' = [author EXCEPT ![t] = "person"]
  /\ settled' = [settled EXCEPT ![t] = "no"]
  /\ UNCHANGED <<graph, contract, job, check, answer, accepted>>

\* The files and the graph stay; the file being written may be torn.
Restart ==
  /\ IF job # Idle /\ job.at = "write"
     THEN /\ Tears(job.tree, Order[job.next])
          /\ settled' = [settled EXCEPT ![job.tree] = "no"]
     ELSE UNCHANGED <<disk, author, settled>>
  /\ contract' = "none"
  /\ job' = Idle /\ check' = Idle
  /\ UNCHANGED <<graph, answer, accepted>>

-----------------------------------------------------------------------------
CarryOn == WriteFile \/ WriteFails \/ LoadDecision \/ StoreComposition \/ StoreDecision \/ Analyze

Next ==
  \/ CarryOn
  \/ PlanLibrary \/ VerifyAnswers \/ Restart
  \/ \E t \in Trees, d \in Stated :
       \/ PlanScaffold(t, d) \/ FinalizeManifest(t, d) \/ VerifyReads(t, d)
       \/ \E door \in Doors \union {None} : Scaffold(t, d, door)
  \/ \E t \in Trees, c \in {"empty", "application"} : FillProject(t, c)
  \/ \E t \in Trees, part \in {"composition", "record", "build", "main"} :
       WriteStep(t, part) \/ HalContractStep(t, part)
  \/ \E t \in Trees, text \in Contents : PersonEdits(t, text)

Spec == Init /\ [][Next]_vars

-----------------------------------------------------------------------------
CreationTypeOK ==
  /\ disk \in [Trees -> [composition : Contents, record : Contents, build : Contents,
                         main : {"none", "stub", "plain", "board"},
                         manifest : SUBSET UNION {Bsp[d] \union Published[d] : d \in Designs}]]
  /\ graph \in [Names -> [anchor : Stated,
                          decision : [design : Stated, door : Doors \union {None}, version : Nat]]]
  /\ \A n \in Names : graph[n].decision.design # None => graph[n].anchor # None
  /\ contract \in DOMAIN Locked
  /\ job # Idle => job.at \in {"write", "load", "composition", "decision", "analyze"}
  /\ job # Idle => job.next \in 1..Len(Order)
  /\ job # Idle /\ job.at = "decision" => job.door \in Doors
  /\ settled \in [Trees -> {"no", "writing", "yes"}]
  /\ accepted \in [Trees -> SUBSET Designs]

(* "one design, not two reads of it" (project_creation.rs:2763): a scaffold *)
(* that was not disturbed leaves a tree whose composition, record and build *)
(* files state one design, whichever of them were there before, and nothing *)
(* but a person, a step no contract of its own held back, or a crash undoes *)
(* it.                                                                      *)
TreeStatesOneDesign ==
  \A t \in Trees : settled[t] = "yes" =>
    /\ disk[t].composition \in Stated
    /\ disk[t].record = disk[t].composition
    /\ disk[t].build = disk[t].composition

(* The composition a person wrote is kept "exactly as it is, byte for byte" *)
(* (project_creation.rs:3132) by every scaffold, fill and finalization, and *)
(* by every step the guard sees while an application's contract is in force.*)
PersonsFileKept ==
  [][\A t \in Trees :
       author[t] = "person" /\ disk[t].composition \notin {None, disk'[t].composition} =>
         \/ author'[t] \in {"person", "contract"}
         \/ author'[t] = "step" /\ contract # "application"]_vars

(* "re-running the scaffold on a design nobody changed is not a new         *)
(* decision" (project_creation.rs:1341): a decision is replaced only by one *)
(* for another design, one version later, unless it could not be read.      *)
OneDecisionPerDesign ==
  [][\A n \in Names :
       LET old == graph[n].decision
           new == graph'[n].decision
       IN new # old /\ ~job.unread =>
            new.design # old.design /\ new.version = old.version + 1]_vars

(* A verification that calls the decision current speaks of a design that   *)
(* was accepted for this very project, however its tree, other projects and *)
(* the graph changed while it was asking.                                   *)
CurrentMeansAccepted ==
  answer.tree # None /\ answer.state = "current" =>
    answer.design \in accepted[answer.tree]
=============================================================================
