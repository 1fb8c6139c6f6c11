----------------------- MODULE ProjectCreationProofs -----------------------
(***************************************************************************)
(* What a project is created from.  First ProjectCreation, for every set   *)
(* of trees, names and designs: the types, that an undisturbed tree states *)
(* one design, that a person's composition is kept, and what replaces or   *)
(* answers with a decision; then that the create sheet and all that goes   *)
(* on beside it implement the creation, and what an undisturbed sheet      *)
(* hands over.  Then the AppSpec, for every set of specs and texts: that a *)
(* design session that says decided has all of its spec in the project's   *)
(* graph, and that what is stored is read back as it was.                  *)
(***************************************************************************)
EXTENDS CreationSheet, SpecDesign, SpecGraphProofs

Steps == {"write", "load", "composition", "decision", "analyze"}

Files == [composition : Contents, record : Contents, build : Contents,
          main : {"none", "stub", "plain", "board"},
          manifest : SUBSET UNION {Bsp[d] \union Published[d] : d \in Designs}]

Entries == [anchor : Stated,
            decision : [design : Stated, door : Doors \union {None}, version : Nat]]

Jobs == [tree : Trees, at : Steps, design : Stated, next : 1..5,
         door : Doors \union {None}, version : Nat, unread : BOOLEAN]

\* Strengthens the type invariant: a job past its files has a design, and
\* only a job with a door reaches the decision.
TypesOK ==
  /\ disk \in [Trees -> Files]
  /\ graph \in [Names -> Entries]
  /\ contract \in DOMAIN Locked
  /\ job = Idle \/ job \in Jobs
  /\ job # Idle => (job.at \in {"load", "composition", "decision"} => job.design \in Designs)
  /\ job # Idle => (job.at = "decision" => job.door \in Doors)
  /\ settled \in [Trees -> {"no", "writing", "yes"}]
  /\ author \in [Trees -> {"nobody", "person", "scaffold", "step", "contract"}]
  /\ accepted \in [Trees -> SUBSET Designs]

Anchored == \A n \in Names : graph[n].decision.design # None => graph[n].anchor # None

-----------------------------------------------------------------------------
(* The operators the actions are built from.                                *)

(* What a tree resolves to is a design, nothing, or broken.                 *)
LEMMA ResolveType ==
  ASSUME NEW f \in Files, NEW r \in Stated
  PROVE  Resolve(f, r) \in Contents /\ Read(f) \in Contents
BY DEF Files, Resolve, Read, Contents, Stated

(* The dependencies of a design are among those there are.                  *)
LEMMA DepsType ==
  ASSUME NEW d \in Designs, NEW b \in BOOLEAN
  PROVE  Deps(d, b) \in SUBSET UNION {Bsp[e] \union Published[e] : e \in Designs}
<1>1. Deps(d, b) \subseteq Bsp[d] \union Published[d]  BY DEF Deps
<1>2. Bsp[d] \union Published[d] \in {Bsp[e] \union Published[e] : e \in Designs}  OBVIOUS
<1> QED  BY <1>1, <1>2

(* The list of files a scaffold goes through.                               *)
LEMMA OrderFacts ==
  /\ Len(Order) = 5
  /\ Order[1] = "build" /\ Order[2] = "main" /\ Order[3] = "composition"
  /\ Order[4] = "record" /\ Order[5] = "manifest"
BY DEF Order

(* Replacing one file of one tree keeps the type of the disk.               *)
LEMMA DiskType ==
  ASSUME disk \in [Trees -> Files], NEW t \in Trees,
         NEW part \in {"composition", "record", "build", "main", "manifest"}, NEW text,
         part \in {"composition", "record", "build"} => text \in Contents,
         part = "main" => text \in {"none", "stub", "plain", "board"},
         part = "manifest" => text \in SUBSET UNION {Bsp[d] \union Published[d] : d \in Designs}
  PROVE  [disk EXCEPT ![t][part] = text] \in [Trees -> Files]
<1>1. [disk[t] EXCEPT ![part] = text] \in Files  BY DEF Files
<1> QED  BY <1>1

(* What a scaffold writes has the type of the file it writes it to.         *)
LEMMA ContentType ==
  ASSUME NEW d \in Stated, NEW part \in Listed(d)
  PROVE  /\ part \in {"composition", "record", "build", "main", "manifest"}
         /\ part \in {"composition", "record", "build"} => Content(part, d) = d
         /\ part = "main" => Content(part, d) = "stub"
         /\ part = "manifest" =>
              Content(part, d) \in SUBSET UNION {Bsp[e] \union Published[e] : e \in Designs}
<1>1. part \in {"composition", "record", "build", "main", "manifest"}  BY DEF Listed
<1>2. part = "manifest" => d \in Designs  BY DEF Listed, Stated
<1> QED  BY <1>1, <1>2, DepsType DEF Content

-----------------------------------------------------------------------------
(* Types.                                                                   *)

LEMMA TypesInit == Init => TypesOK /\ Anchored
<1> SUFFICES ASSUME Init PROVE TypesOK /\ Anchored
  OBVIOUS
<1> USE DEF Init
<1>1. disk \in [Trees -> Files]
  BY DEF EmptyTree, Files, Contents, Stated
<1>2. graph \in [Names -> Entries]
  BY DEF Entries, Stated
<1>3. contract \in DOMAIN Locked  BY DEF Locked
<1> QED  BY <1>1, <1>2, <1>3 DEF TypesOK, Anchored

\* The parts of the state a job does not touch itself.
LEMMA WriteFileTypes ==
  ASSUME TypesOK, WriteFile
  PROVE  TypesOK'
<1> DEFINE t == job.tree
           part == Order[job.next]
           d == job.design
<1>1. job \in Jobs /\ job # Idle /\ job.at = "write"
  BY DEF TypesOK, WriteFile
<1>2. t \in Trees /\ d \in Stated /\ job.next \in 1..5
  BY <1>1 DEF Jobs
<1>3. disk' \in [Trees -> Files]
  <2>1. CASE part \notin Listed(d) \/ Kept(t, part)
    BY <2>1 DEF WriteFile, TypesOK
  <2>2. CASE ~(part \notin Listed(d) \/ Kept(t, part))
    <3>1. disk' = [disk EXCEPT ![t][part] = Content(part, d)]
      BY <2>2 DEF WriteFile
    <3>2. part \in Listed(d)  BY <2>2
    <3>3. d \in Contents  BY <1>2 DEF Contents
    <3>4. disk \in [Trees -> Files]  BY DEF TypesOK
    <3> DEFINE text == Content(part, d)
    <3>5. /\ part \in {"composition", "record", "build", "main", "manifest"}
          /\ part \in {"composition", "record", "build"} => text \in Contents
          /\ part = "main" => text \in {"none", "stub", "plain", "board"}
          /\ part = "manifest" =>
               text \in SUBSET UNION {Bsp[e] \union Published[e] : e \in Designs}
      <4> HIDE DEF t, part, d
      <4> QED  BY <1>2, <3>2, <3>3, ContentType
    <3>6. disk' = [disk EXCEPT ![t][part] = text]  BY <3>1
    <3> HIDE DEF t, part, d, text
    <3> QED  BY <1>2, <3>4, <3>5, <3>6, DiskType
  <2> QED  BY <2>1, <2>2
<1>4. author' \in [Trees -> {"nobody", "person", "scaffold", "step", "contract"}]
  BY DEF WriteFile, TypesOK
<1>5. job' \in Jobs /\ (job' # Idle => (job'.at \in {"load", "composition", "decision"} => job'.design \in Designs))
                    /\ (job' # Idle => (job'.at = "decision" => job'.door \in Doors))
  <2>1. CASE job.next # 5
    <3>1. job' = [job EXCEPT !.next = job.next + 1]
      BY <2>1, OrderFacts DEF WriteFile
    <3>2. job.next + 1 \in 1..5  BY <1>2, <2>1
    <3> QED  BY <1>1, <3>1, <3>2 DEF Jobs, Steps
  <2>2. CASE job.next = 5
    <3>1. job' = [job EXCEPT !.at = IF job.design = None THEN "analyze" ELSE "load"]
      BY <2>2, OrderFacts DEF WriteFile
    <3> QED  BY <1>1, <1>2, <3>1 DEF Jobs, Steps, Stated
  <2> QED  BY <2>1, <2>2
<1>6. settled' \in [Trees -> {"no", "writing", "yes"}]
  BY DEF WriteFile, TypesOK
<1> QED  BY <1>3, <1>4, <1>5, <1>6 DEF WriteFile, TypesOK

\* What a write that is cut short leaves has the types of a file.
LEMMA TearsTypes ==
  ASSUME TypesOK, job # Idle, job.at = "write", Tears(job.tree, Order[job.next])
  PROVE  /\ disk' \in [Trees -> Files]
         /\ author' \in [Trees -> {"nobody", "person", "scaffold", "step", "contract"}]
<1> DEFINE t == job.tree
           part == Order[job.next]
           text == IF part = "main" THEN "plain" ELSE Broken
<1>1. t \in Trees /\ job.design \in Stated
  BY DEF TypesOK, Jobs
<1>2. disk \in [Trees -> Files] /\ author \in [Trees -> {"nobody", "person", "scaffold", "step", "contract"}]
  BY DEF TypesOK
<1>3. CASE UNCHANGED <<disk, author>>
  BY <1>2, <1>3
<1>4. CASE /\ part \in Listed(job.design) /\ part # "manifest"
           /\ disk' = [disk EXCEPT ![t][part] = text]
           /\ author' = IF part = "composition" THEN [author EXCEPT ![t] = "scaffold"] ELSE author
  <2>1. part \in {"composition", "record", "build", "main"}
    BY <1>1, <1>4, ContentType
  <2>2. text \in Contents \/ part = "main"  BY DEF Contents
  <2>3. part = "main" => text \in {"none", "stub", "plain", "board"}
    OBVIOUS
  <2>4. disk' \in [Trees -> Files]
    <3> HIDE DEF t, part, text
    <3> QED  BY <1>1, <1>2, <1>4, <2>1, <2>2, <2>3, DiskType
  <2> QED  BY <1>1, <1>2, <1>4, <2>4
<1> QED  BY <1>3, <1>4 DEF Tears

\* Every other step.
LEMMA TypesNext ==
  ASSUME TypesOK, [Next]_vars
  PROVE  TypesOK'
<1> USE DEF TypesOK
<1>1. CASE WriteFile  BY <1>1, WriteFileTypes
<1>2. CASE WriteFails
  BY <1>2, TearsTypes DEF WriteFails
<1>3. CASE LoadDecision
  <2>1. job \in Jobs /\ job # Idle  BY <1>3 DEF LoadDecision
  <2>2. Decision(job.tree).version + 1 \in Nat
    BY <2>1 DEF Decision, MemName, Names, Entries, Jobs
  <2>3. job' \in Jobs /\ job'.design = job.design /\ job'.at \in {"analyze", "composition"}
    <3> DEFINE w == Decision(job.tree).version + 1
    <3>1. \/ job' = [job EXCEPT !.at = "analyze"]
          \/ job' = [job EXCEPT !.at = "composition", !.version = w]
          \/ job' = [job EXCEPT !.at = "composition", !.unread = TRUE]
      BY <1>3 DEF LoadDecision
    <3>2. w \in Nat  BY <2>2
    <3> HIDE DEF w
    <3> QED  BY <2>1, <3>1, <3>2 DEF Jobs, Steps
  <2> QED  BY <1>3, <2>1, <2>3 DEF LoadDecision, history
<1>4. CASE StoreComposition
  <2>1. job \in Jobs /\ job # Idle /\ job.design \in Designs  BY <1>4 DEF StoreComposition
  <2>2. job' \in Jobs /\ job'.design = job.design /\ (job'.at = "decision" => job'.door \in Doors)
    BY <1>4, <2>1 DEF StoreComposition, Jobs, Steps
  <2>3. graph' \in [Names -> Entries]
    <3> DEFINE n == MemName(job.tree)
    <3>1. n \in Names  BY <2>1 DEF Jobs, MemName, Names
    <3>2. CASE UNCHANGED graph  BY <3>2
    <3>3. CASE graph' = [graph EXCEPT ![n].anchor = job.design]
      <4>1. [graph[n] EXCEPT !.anchor = job.design] \in Entries
        BY <2>1, <3>1 DEF Entries, Stated
      <4> HIDE DEF n
      <4> QED  BY <3>1, <3>3, <4>1
    <3> QED  BY <1>4, <3>1, <3>2, <3>3 DEF StoreComposition
  <2> QED  BY <1>4, <2>1, <2>2, <2>3 DEF StoreComposition, history
<1>5. CASE StoreDecision
  <2>1. job \in Jobs /\ job # Idle /\ job.design \in Designs /\ job.door \in Doors
    BY <1>5 DEF StoreDecision
  <2>2. job' \in Jobs /\ job'.at = "analyze"
    BY <1>5, <2>1 DEF StoreDecision, Jobs, Steps
  <2>3. graph' \in [Names -> Entries]
    BY <1>5, <2>1 DEF StoreDecision, Jobs, MemName, Names, Entries, Stated
  <2>4. accepted' \in [Trees -> SUBSET Designs]
    BY <1>5, <2>1 DEF StoreDecision, Jobs
  <2> QED  BY <1>5, <2>1, <2>2, <2>3, <2>4 DEF StoreDecision
<1>6. CASE Analyze  BY <1>6 DEF Analyze, history
<1>7. CASE PlanLibrary  BY <1>7 DEF PlanLibrary, Message, Locked, history
<1>9. CASE VerifyAnswers  BY <1>9 DEF VerifyAnswers, history
<1>10. CASE Restart
  <2>1. contract' \in DOMAIN Locked /\ job' = Idle  BY <1>10 DEF Restart, Locked
  <2>2. CASE job # Idle /\ job.at = "write"
    <3>1. /\ Tears(job.tree, Order[job.next])
          /\ settled' = [settled EXCEPT ![job.tree] = "no"]
          /\ UNCHANGED <<graph, accepted>>
      BY <1>10, <2>2 DEF Restart
    <3>2. disk' \in [Trees -> Files] /\ author' \in [Trees -> {"nobody", "person", "scaffold", "step", "contract"}]
      BY <2>2, <3>1, TearsTypes
    <3> QED  BY <2>1, <3>1, <3>2
  <2>3. CASE ~(job # Idle /\ job.at = "write")
    BY <1>10, <2>1, <2>3 DEF Restart
  <2> QED  BY <2>2, <2>3
<1>11. ASSUME NEW t \in Trees, NEW d \in Stated,
              \/ PlanScaffold(t, d) \/ VerifyReads(t, d)
       PROVE  TypesOK'
  BY <1>11 DEF PlanScaffold, VerifyReads, Locked, history
<1>12. ASSUME NEW t \in Trees, NEW d \in Stated, FinalizeManifest(t, d)
       PROVE  TypesOK'
  <2> DEFINE e == Resolve(disk[t], d)
             text == Deps(e, disk[t].main = "board")
  <2>1. e \in Designs /\ disk' = [disk EXCEPT ![t]["manifest"] = text]
    BY <1>12 DEF FinalizeManifest
  <2>2. text \in SUBSET UNION {Bsp[f] \union Published[f] : f \in Designs}
    <3> HIDE DEF e
    <3> QED  BY <2>1, DepsType
  <2>3. disk' \in [Trees -> Files]
    <3> HIDE DEF text
    <3> QED  BY <2>1, <2>2, DiskType
  <2> QED  BY <1>12, <2>3 DEF FinalizeManifest, history
<1>13. ASSUME NEW t \in Trees, NEW d \in Stated, NEW door \in Doors \union {None}, Scaffold(t, d, door)
       PROVE  TypesOK'
  <2>1. Resolve(disk[t], d) \in Stated
    BY <1>13, ResolveType DEF Scaffold, Contents
  <2>2. Dropped(disk[t], d) \in BOOLEAN  BY DEF Dropped
  <2>3. job' \in Jobs /\ job'.at = "write"
    <3> DEFINE e == Resolve(disk[t], d)
               g == Dropped(disk[t], d)
    <3>1. job' = [tree |-> t, at |-> "write", design |-> e, next |-> 1,
                  door |-> IF door = None /\ g THEN "composition_file" ELSE door,
                  version |-> 1, unread |-> FALSE]
      BY <1>13 DEF Scaffold
    <3>2. e \in Stated /\ g \in BOOLEAN  BY <2>1, <2>2
    <3> HIDE DEF e, g
    <3> QED  BY <3>1, <3>2 DEF Jobs, Steps, Doors
  <2> QED  BY <1>13, <2>3 DEF Scaffold
<1>14. ASSUME NEW t \in Trees, NEW c \in {"empty", "application"}, FillProject(t, c)
       PROVE  TypesOK'
  <2>1. contract' \in DOMAIN Locked  BY <1>14 DEF FillProject, Locked
  <2>2. disk[t] \in Files  OBVIOUS
  <2>3. Read(disk[t]) \in Contents  BY <2>2 DEF Read, Files
  <2>4. disk' \in [Trees -> Files]
    <3>1. CASE disk' = disk  BY <3>1
    <3>2. CASE disk' = [disk EXCEPT ![t]["record"] = Read(disk[t])]
      <4> DEFINE text == Read(disk[t])
      <4>1. text \in Contents /\ disk' = [disk EXCEPT ![t]["record"] = text]
        BY <2>3, <3>2
      <4> HIDE DEF text
      <4> QED  BY <4>1, DiskType
    <3>3. CASE disk' = [disk EXCEPT ![t]["record"] = Broken]
      BY <3>3, DiskType DEF Contents
    <3> QED  BY <1>14, <3>1, <3>2, <3>3 DEF FillProject
  <2> QED  BY <1>14, <2>1, <2>4 DEF FillProject, history
<1>15. ASSUME NEW t \in Trees, NEW part \in {"composition", "record", "build", "main"},
              NEW text \in Texts(part), NEW who \in {"step", "contract"}, Writes(t, part, text, who)
       PROVE  TypesOK'
  <2>1. part \in {"composition", "record", "build"} => text \in Contents
    BY DEF Texts, Contents, Stated
  <2>2. part = "main" => text \in {"none", "stub", "plain", "board"}
    BY DEF Texts
  <2>3. disk' \in [Trees -> Files]
    BY <1>15, <2>1, <2>2, DiskType DEF Writes
  <2> QED  BY <1>15, <2>3 DEF Writes
<1>16. ASSUME NEW t \in Trees, NEW part \in {"composition", "record", "build", "main"},
              WriteStep(t, part) \/ HalContractStep(t, part)
       PROVE  TypesOK'
  BY <1>15, <1>16 DEF WriteStep, HalContractStep, Texts
<1>17. ASSUME NEW t \in Trees, NEW text \in Contents, PersonEdits(t, text)
       PROVE  TypesOK'
  <2>1. disk' \in [Trees -> Files]
    BY <1>17, DiskType DEF PersonEdits
  <2> QED  BY <1>17, <2>1 DEF PersonEdits
<1>18. CASE UNCHANGED vars  BY <1>18 DEF vars
<1> QED
  BY <1>1, <1>2, <1>3, <1>4, <1>5, <1>6, <1>7, <1>9, <1>10, <1>11, <1>12, <1>13, <1>14,
     <1>16, <1>17, <1>18 DEF Next, CarryOn

LEMMA AnchoredNext ==
  ASSUME TypesOK, Anchored, [Next]_vars
  PROVE  Anchored'
<1> USE DEF Anchored
<1>1. CASE StoreComposition
  <2> DEFINE n == MemName(job.tree)
  <2>1. job.design # None  BY <1>1, ConstantsOK DEF StoreComposition, TypesOK
  <2>2. CASE UNCHANGED graph  BY <2>2
  <2>3. CASE graph' = [graph EXCEPT ![n].anchor = job.design]
    <3>1. graph' = [graph EXCEPT ![n].anchor = job.design]  BY <2>3
    <3>2. graph \in [Names -> Entries]  BY DEF TypesOK
    <3> SUFFICES ASSUME NEW m \in Names, graph'[m].decision.design # None
                 PROVE  graph'[m].anchor # None
      OBVIOUS
    <3>3. CASE m = n
      <4>1. graph'[m] = [graph[m] EXCEPT !.anchor = job.design]
        BY <3>1, <3>2, <3>3
      <4>2. graph[m] \in Entries  BY <3>2
      <4> QED  BY <2>1, <4>1, <4>2 DEF Entries
    <3>4. CASE m # n
      <4>1. graph'[m] = graph[m]
        <5> HIDE DEF n
        <5> QED  BY <3>1, <3>2, <3>4
      <4> QED  BY <4>1
    <3> QED  BY <3>3, <3>4
  <2> QED  BY <1>1, <2>2, <2>3 DEF StoreComposition
<1>2. CASE StoreDecision
  BY <1>2 DEF StoreDecision, TypesOK, Entries
<1>3. CASE UNCHANGED graph  BY <1>3
<1> QED
  BY <1>1, <1>2, <1>3 DEF Next, CarryOn, vars, history, WriteFile, WriteFails, LoadDecision, Analyze,
     PlanLibrary, VerifyAnswers, Restart, PlanScaffold, FinalizeManifest, VerifyReads,
     Scaffold, FillProject, WriteStep, HalContractStep, Writes, PersonEdits

LEMMA TypesAlways == Spec => [](TypesOK /\ Anchored)
<1>1. (TypesOK /\ Anchored) /\ [Next]_vars => (TypesOK /\ Anchored)'
  BY TypesNext, AnchoredNext
<1> QED  BY TypesInit, <1>1, PTL DEF Spec

(* The type invariant: among it, that no design is stored as decided        *)
(* without a composition to ratify, and that a decision has a door.         *)
THEOREM CreationTypes == Spec => []CreationTypeOK
<1>1. TypesOK /\ Anchored => CreationTypeOK
  <2> SUFFICES ASSUME TypesOK, Anchored PROVE CreationTypeOK
    OBVIOUS
  <2>1. job # Idle => job \in Jobs  BY DEF TypesOK
  <2> QED  BY <2>1, OrderFacts DEF TypesOK, Anchored, CreationTypeOK, Files, Entries, Jobs, Steps
<1> QED  BY TypesAlways, <1>1, PTL

-----------------------------------------------------------------------------
(* The decision.                                                            *)

\* A job that has read the decision still has it before it: nothing else
\* replaces a decision, and one job runs at a time.
ReadDecision ==
  job # Idle /\ job.at \in {"composition", "decision"} /\ ~job.unread =>
    /\ job.design # Decision(job.tree).design
    /\ job.version = Decision(job.tree).version + 1

LEMMA ReadDecisionNext ==
  ASSUME TypesOK, ReadDecision, [Next]_vars
  PROVE  ReadDecision'
<1> USE DEF ReadDecision
<1>1. CASE WriteFile
  <2>1. job \in Jobs /\ job # Idle  BY <1>1 DEF WriteFile, TypesOK
  <2>2. job'.at \notin {"composition", "decision"}
    <3>1. CASE job.next = Len(Order)
      BY <1>1, <2>1, <3>1 DEF WriteFile, Jobs
    <3>2. CASE job.next # Len(Order)
      <4>1. job' = [job EXCEPT !.next = job.next + 1] /\ job.at = "write"
        BY <1>1, <3>2 DEF WriteFile
      <4> QED  BY <2>1, <4>1 DEF Jobs
    <3> QED  BY <3>1, <3>2
  <2> QED  BY <2>2
<1>2. CASE LoadDecision
  <2>1. job \in Jobs /\ job # Idle  BY <1>2 DEF LoadDecision, TypesOK
  <2> DEFINE w == Decision(job.tree).version + 1
  <2>2. \/ job' = [job EXCEPT !.at = "analyze"]
        \/ ~Ratifies(job.tree, job.design) /\ job' = [job EXCEPT !.at = "composition", !.version = w]
        \/ job' = [job EXCEPT !.at = "composition", !.unread = TRUE]
    BY <1>2 DEF LoadDecision
  <2>3. UNCHANGED graph  BY <1>2 DEF LoadDecision
  <2>4. CASE job' = [job EXCEPT !.at = "analyze"]
    BY <2>1, <2>4 DEF Jobs
  <2>5. CASE ~Ratifies(job.tree, job.design) /\ job' = [job EXCEPT !.at = "composition", !.version = w]
    <3>1. job'.version = w /\ job'.design = job.design /\ job'.tree = job.tree
      <4> HIDE DEF w
      <4> QED  BY <2>1, <2>5 DEF Jobs
    <3> QED  BY <2>3, <2>5, <3>1 DEF Ratifies, Decision, MemName
  <2>6. CASE job' = [job EXCEPT !.at = "composition", !.unread = TRUE]
    BY <2>1, <2>6 DEF Jobs
  <2> QED  BY <2>2, <2>4, <2>5, <2>6
<1>3. CASE StoreComposition
  <2>1. job \in Jobs /\ job # Idle /\ job.at = "composition"  BY <1>3 DEF StoreComposition, TypesOK
  <2>2. \A n \in Names : graph'[n].decision = graph[n].decision
    <3> DEFINE n == MemName(job.tree)
    <3>1. graph \in [Names -> Entries]  BY DEF TypesOK
    <3>2. CASE UNCHANGED graph  BY <3>2
    <3>3. CASE graph' = [graph EXCEPT ![n].anchor = job.design]
      <4> HIDE DEF n
      <4> QED  BY <3>1, <3>3 DEF Entries
    <3> QED  BY <1>3, <3>2, <3>3 DEF StoreComposition
  <2>3. MemName(job.tree) \in Names  BY <2>1 DEF Jobs, MemName, Names
  <2>4. job'.tree = job.tree /\ job'.design = job.design /\ job'.version = job.version /\ job'.unread = job.unread
    BY <1>3, <2>1 DEF StoreComposition, Jobs
  <2> QED  BY <2>1, <2>2, <2>3, <2>4 DEF Decision, MemName
<1>4. CASE StoreDecision
  <2>1. job'.at = "analyze"  BY <1>4 DEF StoreDecision, TypesOK, Jobs
  <2> QED  BY <2>1
<1>5. CASE job' = Idle  BY <1>5
<1>6. CASE UNCHANGED <<graph, job>>  BY <1>6 DEF Decision
<1>7. ASSUME NEW t \in Trees, NEW d \in Stated, NEW door \in Doors \union {None}, Scaffold(t, d, door)
      PROVE  ReadDecision'
  <2>1. job'.at = "write"  BY <1>7 DEF Scaffold
  <2> QED  BY <2>1
<1> QED
  BY <1>1, <1>2, <1>3, <1>4, <1>5, <1>6, <1>7 DEF Next, CarryOn, vars, history, WriteFails, Analyze,
     PlanLibrary, VerifyAnswers, Restart, PlanScaffold, FinalizeManifest, VerifyReads,
     FillProject, WriteStep, HalContractStep, Writes, PersonEdits

\* Only StoreDecision replaces a decision.
LEMMA DecisionKept ==
  ASSUME TypesOK, [Next]_vars, ~StoreDecision
  PROVE  \A n \in Names : graph'[n].decision = graph[n].decision
<1>1. CASE StoreComposition
  <2> DEFINE m == MemName(job.tree)
  <2>1. graph \in [Names -> Entries]  BY DEF TypesOK
  <2>2. CASE UNCHANGED graph  BY <2>2
  <2>3. CASE graph' = [graph EXCEPT ![m].anchor = job.design]
    <3> HIDE DEF m
    <3> QED  BY <2>1, <2>3 DEF Entries
  <2> QED  BY <1>1, <2>2, <2>3 DEF StoreComposition
<1>2. CASE UNCHANGED graph  BY <1>2
<1> QED
  BY <1>1, <1>2 DEF Next, CarryOn, vars, history, WriteFile, WriteFails, LoadDecision, Analyze,
     PlanLibrary, VerifyAnswers, Restart, PlanScaffold, FinalizeManifest, VerifyReads,
     Scaffold, FillProject, WriteStep, HalContractStep, Writes, PersonEdits

LEMMA ReadDecisionAlways == Spec => []ReadDecision
<1>1. Init => ReadDecision  BY DEF Init, ReadDecision
<1>2. (TypesOK /\ Anchored) /\ ReadDecision /\ [Next]_vars => ReadDecision'
  BY ReadDecisionNext
<1> QED  BY <1>1, <1>2, TypesAlways, PTL DEF Spec

(* A decision is replaced only by one for another design, one version       *)
(* later, unless it could not be read (store_accepted_design).              *)
THEOREM DecisionOnce == Spec => OneDecisionPerDesign
<1>1. TypesOK /\ ReadDecision /\ [Next]_vars =>
        [\A n \in Names :
           LET old == graph[n].decision
               new == graph'[n].decision
           IN new # old /\ ~job.unread =>
                new.design # old.design /\ new.version = old.version + 1]_vars
  <2> SUFFICES ASSUME TypesOK, ReadDecision, [Next]_vars,
                      NEW n \in Names, graph'[n].decision # graph[n].decision, ~job.unread
               PROVE  /\ graph'[n].decision.design # graph[n].decision.design
                      /\ graph'[n].decision.version = graph[n].decision.version + 1
    OBVIOUS
  <2>1. StoreDecision  BY DecisionKept
  <2>2. job \in Jobs /\ job # Idle /\ job.at = "decision"  BY <2>1 DEF StoreDecision, TypesOK
  <2> DEFINE m == MemName(job.tree)
             new == [design |-> job.design, door |-> job.door, version |-> job.version]
  <2>3. graph' = graph \/ graph' = [graph EXCEPT ![m].decision = new]
    BY <2>1 DEF StoreDecision
  <2>4. graph \in [Names -> Entries]  BY DEF TypesOK
  <2>5. m = n /\ graph'[n].decision = new
    <3> HIDE DEF m, new
    <3> QED  BY <2>3, <2>4 DEF Entries
  <2> QED  BY <2>2, <2>5 DEF ReadDecision, Decision
<1> QED  BY <1>1, TypesAlways, ReadDecisionAlways, PTL DEF Spec, OneDecisionPerDesign

\* What is decided under the name of a tree was accepted for the tree.
DecidedIsAccepted ==
  /\ \A t \in Trees : Decision(t).design \in accepted[t] \union {None}
  /\ check # Idle => check.tree \in Trees /\ check.design \in Designs
  /\ answer.tree # None => answer.tree \in Trees
  /\ CurrentMeansAccepted

LEMMA AcceptedNext ==
  ASSUME \A t, u \in Trees : Name[t] = Name[u] => t = u,
         TypesOK, DecidedIsAccepted, [Next]_vars
  PROVE  DecidedIsAccepted'
<1> USE DEF DecidedIsAccepted, CurrentMeansAccepted
<1>1. CASE StoreDecision
  <2>1. job \in Jobs /\ job # Idle  BY <1>1 DEF StoreDecision, TypesOK
  <2> DEFINE m == MemName(job.tree)
             new == [design |-> job.design, door |-> job.door, version |-> job.version]
  <2>2. \/ UNCHANGED <<graph, accepted>>
        \/ /\ graph' = [graph EXCEPT ![m].decision = new]
           /\ accepted' = [accepted EXCEPT ![job.tree] = accepted[job.tree] \union {job.design}]
    BY <1>1 DEF StoreDecision
  <2>3. UNCHANGED <<check, answer>>  BY <1>1 DEF StoreDecision
  <2>4. CASE UNCHANGED <<graph, accepted>>  BY <2>3, <2>4 DEF Decision
  <2>5. CASE /\ graph' = [graph EXCEPT ![m].decision = new]
             /\ accepted' = [accepted EXCEPT ![job.tree] = accepted[job.tree] \union {job.design}]
    <3>1. graph \in [Names -> Entries] /\ accepted \in [Trees -> SUBSET Designs] /\ job.tree \in Trees
      BY <2>1 DEF TypesOK, Jobs
    <3>2. \A t \in Trees : accepted[t] \subseteq accepted'[t]  BY <2>5, <3>1
    <3>3. ASSUME NEW t \in Trees PROVE Decision(t)'.design \in accepted'[t] \union {None}
      <4>1. Name[t] \in Names /\ m \in Names  BY <3>1 DEF Names, MemName
      <4>2. CASE t = job.tree
        <5>1. graph'[m].decision = new
          <6> HIDE DEF m, new
          <6> QED  BY <2>5, <3>1, <4>1 DEF Entries
        <5>2. job.design \in accepted'[t]  BY <2>5, <3>1, <4>2
        <5> QED  BY <4>2, <5>1, <5>2 DEF Decision, MemName
      <4>3. CASE t # job.tree
        <5>1. Name[t] # m  BY <3>1, <4>3 DEF MemName
        <5>2. graph'[Name[t]] = graph[Name[t]]
          <6> HIDE DEF m, new
          <6> QED  BY <2>5, <3>1, <4>1, <5>1
        <5> QED  BY <3>2, <5>2 DEF Decision, MemName
      <4> QED  BY <4>2, <4>3
    <3> QED  BY <2>3, <3>2, <3>3
  <2> QED  BY <2>2, <2>4, <2>5
<1>2. CASE VerifyAnswers
  <2>1. PICK state \in {Freshness(Decision(check.tree), check.design), "unknown"} :
          answer' = [tree |-> check.tree, design |-> check.design, state |-> state]
    BY <1>2 DEF VerifyAnswers
  <2>2. check.tree \in Trees /\ check.design \in Designs /\ UNCHANGED <<graph, accepted>> /\ check' = Idle
    BY <1>2 DEF VerifyAnswers, history
  <2>3. state = "current" => Decision(check.tree).design = check.design /\ check.design # None
    BY <2>1, <2>2, ConstantsOK DEF Freshness
  <2> QED  BY <2>1, <2>2, <2>3 DEF Decision, MemName
<1>3. ASSUME NEW t \in Trees, NEW d \in Stated, VerifyReads(t, d)
      PROVE  DecidedIsAccepted'
  BY <1>3 DEF VerifyReads, Decision, MemName, history
<1>4. CASE Restart
  <2>1. UNCHANGED <<graph, answer, accepted>> /\ check' = Idle
    BY <1>4 DEF Restart
  <2> QED  BY <2>1 DEF Decision, MemName
<1>5. CASE ~StoreDecision /\ UNCHANGED <<check, answer, accepted>>
  <2>1. \A t \in Trees : Decision(t)' = Decision(t)
    BY <1>5, DecisionKept DEF Decision, MemName, Names
  <2> QED  BY <1>5, <2>1
<1> QED
  BY <1>1, <1>2, <1>3, <1>4, <1>5 DEF Next, CarryOn, vars, history, WriteFile, WriteFails, LoadDecision,
     StoreComposition, Analyze, PlanLibrary, PlanScaffold, FinalizeManifest,
     Scaffold, FillProject, WriteStep, HalContractStep, Writes, PersonEdits

(* When no two projects share a name, a verification that calls the         *)
(* decision current speaks of a design accepted for this very project.      *)
THEOREM CurrentIsAccepted ==
  ASSUME \A t, u \in Trees : Name[t] = Name[u] => t = u
  PROVE  Spec => []CurrentMeansAccepted
<1>1. Init => DecidedIsAccepted
  <2> SUFFICES ASSUME Init PROVE DecidedIsAccepted
    OBVIOUS
  <2>1. \A t \in Trees : Decision(t).design = None
    BY DEF Init, Decision, MemName, Names
  <2> QED  BY <2>1 DEF Init, DecidedIsAccepted, CurrentMeansAccepted
<1>2. (TypesOK /\ Anchored) /\ DecidedIsAccepted /\ [Next]_vars => DecidedIsAccepted'
  BY AcceptedNext
<1>3. DecidedIsAccepted => CurrentMeansAccepted  BY DEF DecidedIsAccepted
<1> QED  BY <1>1, <1>2, <1>3, TypesAlways, PTL DEF Spec

-----------------------------------------------------------------------------
(* The files of a tree.                                                     *)

(* The composition a person wrote is kept by every scaffold, fill and       *)
(* finalization, and by every step the guard sees while an application's    *)
(* contract is in force (materialize_scaffold_files, execute_step).         *)
THEOREM PersonsFile == Spec => PersonsFileKept
<1>1. TypesOK /\ [Next]_vars =>
        [\A t \in Trees :
           author[t] = "person" /\ disk[t].composition \notin {None, disk'[t].composition} =>
             \/ author'[t] \in {"person", "contract"}
             \/ author'[t] = "step" /\ contract # "application"]_vars
  <2> SUFFICES ASSUME TypesOK, Next,
                      NEW t \in Trees, author[t] = "person",
                      disk[t].composition \notin {None, disk'[t].composition}
               PROVE  \/ author'[t] \in {"person", "contract"}
                      \/ author'[t] = "step" /\ contract # "application"
    BY DEF vars
  <2>1. disk \in [Trees -> Files] /\ author \in [Trees -> {"nobody", "person", "scaffold", "step", "contract"}]
    BY DEF TypesOK
  <2>2. CASE UNCHANGED author  BY <2>2
  <2>3. CASE WriteFile
    <3>1. job \in Jobs /\ job.tree \in Trees /\ job.next \in 1..5
      BY <2>3 DEF WriteFile, TypesOK, Jobs
    <3>2. CASE Order[job.next] = "composition" /\ ~Kept(job.tree, Order[job.next])
      BY <2>1, <2>3, <3>1, <3>2 DEF WriteFile, Kept
    <3>3. CASE Order[job.next] # "composition" \/ Kept(job.tree, Order[job.next])
      BY <2>2, <2>3, <3>3 DEF WriteFile, Kept
    <3> QED  BY <3>2, <3>3
  <2>4. CASE WriteFails \/ Restart
    <3>1. CASE UNCHANGED author  BY <3>1
    <3>2. CASE author' # author
      <4>1. job # Idle /\ job.at = "write" /\ Tears(job.tree, Order[job.next])
        BY <2>4, <3>2 DEF WriteFails, Restart
      <4>2. job.tree \in Trees  BY <4>1 DEF TypesOK, Jobs
      <4>3. /\ Order[job.next] = "composition" /\ ~Kept(job.tree, Order[job.next])
            /\ disk' = [disk EXCEPT ![job.tree]["composition"] = Broken]
            /\ author' = [author EXCEPT ![job.tree] = "scaffold"]
        BY <3>2, <4>1 DEF Tears
      <4> QED  BY <2>1, <4>2, <4>3 DEF Kept
    <3> QED  BY <3>1, <3>2
  <2>5. ASSUME NEW u \in Trees, NEW part \in {"composition", "record", "build", "main"}, WriteStep(u, part)
        PROVE  \/ author'[t] \in {"person", "contract"}
               \/ author'[t] = "step" /\ contract # "application"
    <3>1. author' = IF part = "composition" THEN [author EXCEPT ![u] = "step"] ELSE author
      BY <2>5 DEF WriteStep, Writes
    <3>2. part = "composition" => contract # "application"
      BY <2>5 DEF WriteStep, Permits, Locked
    <3> QED  BY <2>1, <2>2, <3>1, <3>2
  <2>6. ASSUME NEW u \in Trees, NEW part \in {"composition", "record", "build", "main"}, HalContractStep(u, part)
        PROVE  author'[t] \in {"person", "contract"}
    BY <2>1, <2>6 DEF HalContractStep, Writes
  <2>7. ASSUME NEW u \in Trees, NEW text \in Contents, PersonEdits(u, text)
        PROVE  author'[t] = "person"
    BY <2>1, <2>7 DEF PersonEdits
  <2> QED
    BY <2>2, <2>3, <2>4, <2>5, <2>6, <2>7 DEF Next, CarryOn, vars, history, LoadDecision, StoreComposition,
       StoreDecision, Analyze, PlanLibrary, VerifyAnswers, PlanScaffold, FinalizeManifest,
       VerifyReads, Scaffold, FillProject
<1> QED  BY <1>1, TypesAlways, PTL DEF Spec, PersonsFileKept

\* How far the scaffold of a tree nobody disturbed has come: the files it
\* has gone past state its design, and so does a composition that was there.
Underway(t) ==
  /\ job \in Jobs /\ job # Idle /\ job.at = "write" /\ job.tree = t
  /\ disk[t].composition \in {None, job.design}
  /\ job.design = None => disk[t].record = None
  /\ job.next > 1 => disk[t].build = job.design
  /\ job.next > 3 => disk[t].composition = job.design
  /\ job.next > 4 => disk[t].record = job.design

ScaffoldOK ==
  /\ \A t \in Trees : settled[t] = "writing" => Underway(t)
  /\ job # Idle /\ job.at = "write" => settled[job.tree] # "yes"
  /\ TreeStatesOneDesign

\* A file of a scaffold written or kept.
LEMMA FileWritten ==
  ASSUME TypesOK, ScaffoldOK, WriteFile
  PROVE  ScaffoldOK'
<1> DEFINE t == job.tree
           d == job.design
<1>1. job \in Jobs /\ job # Idle /\ job.at = "write" /\ t \in Trees /\ d \in Stated /\ job.next \in 1..5
  BY DEF WriteFile, TypesOK, Jobs
<1>2. disk \in [Trees -> Files] /\ settled \in [Trees -> {"no", "writing", "yes"}]
  BY DEF TypesOK
<1>3. \A u \in Trees : u # t => disk'[u] = disk[u] /\ settled'[u] = settled[u] /\ settled[u] # "writing"
  <2>1. \A u \in Trees : u # t => disk'[u] = disk[u] /\ settled'[u] = settled[u]
    <3>1. disk' = disk \/ \E part, text : disk' = [disk EXCEPT ![t][part] = text]
      BY DEF WriteFile
    <3>2. settled' = settled \/ settled' = [settled EXCEPT ![t] = "yes"]
      BY DEF WriteFile
    <3> HIDE DEF t
    <3> QED  BY <1>1, <1>2, <3>1, <3>2
  <2> QED  BY <2>1 DEF ScaffoldOK, Underway
<1>4. job.next < 5 => job' = [job EXCEPT !.next = job.next + 1]
  BY <1>1, OrderFacts DEF WriteFile
<1>5. job.next = 5 => job'.at \in {"analyze", "load"}
  <2>1. job.next = 5 => job' = [job EXCEPT !.at = IF job.design = None THEN "analyze" ELSE "load"]
    BY OrderFacts DEF WriteFile
  <2> QED  BY <1>1, <2>1 DEF Jobs
<1>6. job.next < 5 => /\ job'.next = job.next + 1 /\ job'.at = "write" /\ job'.tree = t
                      /\ job'.design = d /\ job' \in Jobs /\ job' # Idle
  <2> SUFFICES ASSUME job.next < 5
               PROVE  /\ job'.next = job.next + 1 /\ job'.at = "write" /\ job'.tree = t
                      /\ job'.design = d /\ job' \in Jobs /\ job' # Idle
    OBVIOUS
  <2>1. job.next + 1 \in 1..5 /\ job' = [job EXCEPT !.next = job.next + 1]
    BY <1>1, <1>4
  <2>2. job'.next = job.next + 1 /\ job'.at = "write" /\ job'.tree = t /\ job'.design = d /\ job' \in Jobs
    BY <1>1, <2>1 DEF Jobs
  <2>3. job' # Idle
    <3>1. DOMAIN job' = DOMAIN job  BY <2>1
    <3>2. "at" \in DOMAIN job /\ "at" \notin DOMAIN Idle  BY <1>1 DEF Jobs, Idle
    <3> QED  BY <3>1, <3>2
  <2> QED  BY <2>2, <2>3
<1>7. CASE settled[t] # "writing"
  <2>1. settled[t] = "no" /\ settled' = settled
    BY <1>1, <1>2, <1>7 DEF ScaffoldOK, WriteFile
  <2>2. job'.at = "write" => job'.tree = t
    BY <1>1, <1>5, <1>6
  <2>3. \A u \in Trees : settled'[u] # "writing"  BY <1>3, <2>1
  <2>4. TreeStatesOneDesign'
    BY <1>3, <2>1 DEF ScaffoldOK, TreeStatesOneDesign
  <2> QED  BY <2>1, <2>2, <2>3, <2>4 DEF ScaffoldOK
<1>8. CASE settled[t] = "writing"
  <2>1. /\ disk[t].composition \in {None, d}
        /\ d = None => disk[t].record = None
        /\ job.next > 1 => disk[t].build = d
        /\ job.next > 3 => disk[t].composition = d
        /\ job.next > 4 => disk[t].record = d
    BY <1>1, <1>8 DEF ScaffoldOK, Underway
  <2>2. /\ disk'[t].composition \in {None, d}
        /\ d = None => disk'[t].record = None
        /\ job.next >= 1 => disk'[t].build = d
        /\ job.next >= 3 => disk'[t].composition = d
        /\ job.next >= 4 => disk'[t].record = d
    <3> DEFINE part == Order[job.next]
               text == Content(part, d)
    <3>1. disk[t] \in Files  BY <1>1, <1>2
    <3>2. CASE part \notin Listed(d) \/ Kept(t, part)
      <4>1. disk' = disk  BY <3>2 DEF WriteFile
      <4>2. job.next # 1  BY <3>2, OrderFacts DEF Listed, Kept
      <4>3. job.next = 3 => disk[t].composition = d
        BY <2>1, <3>2, OrderFacts DEF Listed, Kept
      <4>4. job.next = 4 => d = None
        BY <3>2, OrderFacts DEF Listed, Kept
      <4> QED  BY <1>1, <2>1, <4>1, <4>2, <4>3, <4>4
    <3>3. CASE ~(part \notin Listed(d) \/ Kept(t, part))
      <4>1. disk' = [disk EXCEPT ![t][part] = text]  BY <3>3 DEF WriteFile
      <4>2. disk'[t] = [disk[t] EXCEPT ![part] = text]
        <5> HIDE DEF t, part, text
        <5> QED  BY <1>1, <1>2, <4>1
      <4>3. /\ part = "build" => disk'[t].build = text
            /\ part # "build" => disk'[t].build = disk[t].build
            /\ part = "composition" => disk'[t].composition = text
            /\ part # "composition" => disk'[t].composition = disk[t].composition
            /\ part = "record" => disk'[t].record = text
            /\ part # "record" => disk'[t].record = disk[t].record
        <5> HIDE DEF t, part, text
        <5> QED  BY <3>1, <4>2 DEF Files
      <4>4. part \in {"build", "composition", "record"} => text = d
        BY DEF Content
      <4>5. part = "record" => d # None
        BY <3>3 DEF Listed
      <4>6. /\ job.next = 1 <=> part = "build"
            /\ job.next = 3 <=> part = "composition"
            /\ job.next = 4 <=> part = "record"
        BY <1>1, OrderFacts
      <4> HIDE DEF t, part, text, d
      <4> QED  BY <1>1, <2>1, <4>3, <4>4, <4>5, <4>6
    <3> QED  BY <3>2, <3>3
  <2>3. CASE job.next < 5
    <3>1. settled' = settled  BY <2>3, OrderFacts DEF WriteFile
    <3>2. ASSUME NEW u \in Trees, settled'[u] = "writing" PROVE Underway(u)'
      <4>1. u = t  BY <1>3, <3>1, <3>2
      <4> QED  BY <1>1, <1>6, <2>2, <2>3, <4>1 DEF Underway
    <3>3. \A u \in Trees : settled'[u] = "writing" => Underway(u)'
      BY <3>2
    <3>4. job'.tree = t /\ settled'[t] # "yes"  BY <1>6, <1>8, <2>3, <3>1
    <3>5. TreeStatesOneDesign'
      BY <1>3, <1>8, <3>1 DEF ScaffoldOK, TreeStatesOneDesign
    <3> QED  BY <3>3, <3>4, <3>5 DEF ScaffoldOK
  <2>4. CASE job.next = 5
    <3>1. settled' = [settled EXCEPT ![t] = "yes"]
      BY <1>8, <2>4, OrderFacts DEF WriteFile
    <3>2. \A u \in Trees : settled'[u] # "writing"
      BY <1>2, <1>3, <3>1
    <3>3. TreeStatesOneDesign'
      BY <1>1, <1>2, <1>3, <2>2, <2>4 DEF ScaffoldOK, TreeStatesOneDesign
    <3> QED  BY <1>5, <2>4, <3>2, <3>3 DEF ScaffoldOK
  <2> QED  BY <1>1, <2>3, <2>4
<1> QED  BY <1>7, <1>8

\* A job that ends, or goes on past its files, leaves the trees as they are.
LEMMA ScaffoldNext ==
  ASSUME TypesOK, ScaffoldOK, [Next]_vars
  PROVE  ScaffoldOK'
<1>1. disk \in [Trees -> Files] /\ settled \in [Trees -> {"no", "writing", "yes"}] /\ (job = Idle \/ job \in Jobs)
  BY DEF TypesOK
<1>2. CASE WriteFile  BY <1>2, FileWritten
<1>3. CASE /\ WriteFails \/ Restart
           /\ job # Idle /\ job.at = "write"
  <2>1. job.tree \in Trees /\ job' = Idle /\ settled' = [settled EXCEPT ![job.tree] = "no"]
    BY <1>1, <1>3 DEF WriteFails, Restart, Jobs
  <2>2. Tears(job.tree, Order[job.next])  BY <1>3 DEF WriteFails, Restart
  <2>3. \A u \in Trees : u # job.tree => disk'[u] = disk[u]
    <3> DEFINE t == job.tree
    <3>1. disk' = disk \/ \E part, text : disk' = [disk EXCEPT ![t][part] = text]
      BY <2>2 DEF Tears
    <3> HIDE DEF t
    <3> QED  BY <1>1, <3>1 DEF t
  <2>4. \A u \in Trees : settled'[u] # "writing"
    BY <1>1, <2>1 DEF ScaffoldOK, Underway
  <2>5. TreeStatesOneDesign'
    BY <1>1, <2>1, <2>3 DEF ScaffoldOK, TreeStatesOneDesign
  <2> QED  BY <2>1, <2>4, <2>5 DEF ScaffoldOK
<1>4. ASSUME NEW t \in Trees, NEW d \in Stated, NEW door \in Doors \union {None}, Scaffold(t, d, door)
      PROVE  ScaffoldOK'
  <2> DEFINE e == Resolve(disk[t], d)
             g == Dropped(disk[t], d)
  <2>1. /\ job = Idle /\ e # Broken /\ disk' = disk /\ settled' = [settled EXCEPT ![t] = "writing"]
        /\ job' = [tree |-> t, at |-> "write", design |-> e, next |-> 1,
                   door |-> IF door = None /\ g THEN "composition_file" ELSE door,
                   version |-> 1, unread |-> FALSE]
    BY <1>4 DEF Scaffold, Message
  <2>2. e \in Stated /\ g \in BOOLEAN
    BY <1>1, <2>1, ResolveType DEF Contents, Dropped
  <2>3. job' \in Jobs /\ job'.at = "write" /\ job'.tree = t /\ job'.design = e /\ job'.next = 1 /\ job' # Idle
    <3> HIDE DEF e, g
    <3>1. job' \in Jobs /\ job'.at = "write" /\ job'.tree = t /\ job'.design = e /\ job'.next = 1
      BY <2>1, <2>2 DEF Jobs, Steps, Doors
    <3>2. "at" \in DOMAIN job' /\ "at" \notin DOMAIN Idle  BY <2>1 DEF Idle
    <3> QED  BY <3>1, <3>2
  <2>4. disk[t].composition \in {None, e} /\ (e = None => disk[t].record = None)
    BY DEF Resolve, Read
  <2>5. Underway(t)'
    BY <2>1, <2>3, <2>4 DEF Underway
  <2>6. \A u \in Trees : u # t => settled'[u] # "writing" /\ settled'[u] = settled[u]
    BY <1>1, <2>1 DEF ScaffoldOK, Underway
  <2>7. settled'[t] = "writing"  BY <1>1, <2>1
  <2>8. TreeStatesOneDesign'
    BY <2>1, <2>6, <2>7 DEF ScaffoldOK, TreeStatesOneDesign
  <2> HIDE DEF e, g
  <2> QED  BY <2>3, <2>5, <2>6, <2>7, <2>8 DEF ScaffoldOK
<1>5. ASSUME NEW t \in Trees, NEW c \in {"empty", "application"}, FillProject(t, c)
      PROVE  ScaffoldOK'
  <2>1. job = Idle /\ job' = Idle /\ settled' = settled  BY <1>5 DEF FillProject, Message, history
  <2>2. \A u \in Trees : settled[u] # "writing"  BY <2>1 DEF ScaffoldOK, Underway
  <2>3. ASSUME NEW u \in Trees, settled[u] = "yes" PROVE disk'[u] = disk[u]
    <3>1. disk[u].composition \in Stated /\ disk[u].record = disk[u].composition
      BY <2>3 DEF ScaffoldOK, TreeStatesOneDesign
    <3>2. Read(disk[u]) = disk[u].record  BY <3>1 DEF Read
    <3>3. Read(disk[u]) # Broken
      BY <3>1, <3>2, ConstantsOK DEF Stated
    <3>4. CASE u = t
      <4>1. disk' = [disk EXCEPT ![t].record = Read(disk[t])]
        BY <1>5, <3>2, <3>3, <3>4 DEF FillProject
      <4>2. disk' = [disk EXCEPT ![u].record = disk[u].record]
        BY <3>2, <3>4, <4>1
      <4> QED  BY <1>1, <4>2 DEF Files
    <3>5. CASE u # t
      <4>1. disk' = disk \/ \E text : disk' = [disk EXCEPT ![t]["record"] = text]
        BY <1>5 DEF FillProject
      <4> QED  BY <1>1, <3>5, <4>1
    <3> QED  BY <3>4, <3>5
  <2> QED  BY <2>1, <2>2, <2>3 DEF ScaffoldOK, TreeStatesOneDesign
<1>6. ASSUME NEW t \in Trees, NEW d \in Stated, FinalizeManifest(t, d)
      PROVE  ScaffoldOK'
  <2>1. job' = job /\ settled' = settled
    BY <1>6 DEF FinalizeManifest, history
  <2>2. \A u \in Trees : /\ disk'[u].composition = disk[u].composition
                         /\ disk'[u].record = disk[u].record
                         /\ disk'[u].build = disk[u].build
    <3>1. PICK text : disk' = [disk EXCEPT ![t].manifest = text]
      BY <1>6 DEF FinalizeManifest
    <3> QED  BY <1>1, <3>1 DEF Files
  <2> QED  BY <2>1, <2>2 DEF ScaffoldOK, TreeStatesOneDesign, Underway
<1>7. ASSUME NEW t \in Trees, NEW part \in {"composition", "record", "build", "main"},
             WriteStep(t, part) \/ HalContractStep(t, part)
      PROVE  ScaffoldOK'
  <2>1. job = Idle /\ job' = Idle  BY <1>7 DEF WriteStep, HalContractStep, Message, Writes
  <2>2. \A u \in Trees : settled[u] # "writing"  BY <2>1 DEF ScaffoldOK, Underway
  <2>3. PICK text : disk' = [disk EXCEPT ![t][part] = text]
    BY <1>7 DEF WriteStep, HalContractStep, Writes
  <2>4. settled' = IF part = "main" THEN settled ELSE [settled EXCEPT ![t] = "no"]
    BY <1>7 DEF WriteStep, HalContractStep, Writes
  <2>5. ASSUME NEW u \in Trees, settled'[u] = "yes"
        PROVE  /\ settled[u] = "yes"
               /\ disk'[u].composition = disk[u].composition
               /\ disk'[u].record = disk[u].record
               /\ disk'[u].build = disk[u].build
    <3>1. settled[u] = "yes" /\ (u # t \/ part = "main")  BY <1>1, <2>4, <2>5
    <3> QED  BY <1>1, <2>3, <3>1 DEF Files
  <2>6. \A u \in Trees : settled'[u] # "writing"  BY <1>1, <2>2, <2>4
  <2> QED  BY <2>1, <2>5, <2>6 DEF ScaffoldOK, TreeStatesOneDesign
<1>8. ASSUME NEW t \in Trees, NEW text \in Contents, PersonEdits(t, text)
      PROVE  ScaffoldOK'
  <2>1. /\ job' = job /\ settled' = [settled EXCEPT ![t] = "no"]
        /\ disk' = [disk EXCEPT ![t].composition = text]
    BY <1>8 DEF PersonEdits
  <2>2. \A u \in Trees : u # t => disk'[u] = disk[u] /\ settled'[u] = settled[u]
    BY <1>1, <2>1
  <2>3. settled'[t] = "no"  BY <1>1, <2>1
  <2>4. \A u \in Trees : settled'[u] = "writing" => Underway(u)'
    BY <2>1, <2>2, <2>3 DEF ScaffoldOK, Underway
  <2>5. job' # Idle /\ job'.at = "write" => settled'[job'.tree] # "yes"
    BY <1>1, <2>1, <2>2, <2>3 DEF ScaffoldOK, Jobs
  <2> QED  BY <2>2, <2>3, <2>4, <2>5 DEF ScaffoldOK, TreeStatesOneDesign
<1>9. CASE UNCHANGED <<disk, job, settled>>
  BY <1>9 DEF ScaffoldOK, TreeStatesOneDesign, Underway
<1>10. CASE /\ UNCHANGED <<disk, settled>>
            /\ job = Idle \/ job.at # "write"
            /\ job' = Idle \/ job'.at # "write"
  BY <1>10 DEF ScaffoldOK, TreeStatesOneDesign, Underway
<1>11. CASE LoadDecision \/ StoreComposition \/ StoreDecision \/ Analyze
  <2>1. job # Idle /\ job \in Jobs /\ job.at # "write" /\ UNCHANGED <<disk, settled>>
    BY <1>1, <1>11 DEF LoadDecision, StoreComposition, StoreDecision, Analyze, history
  <2>2. CASE job' = Idle  BY <1>10, <2>1, <2>2
  <2>4. CASE \E at \in Steps \ {"write"} : job' = [job EXCEPT !.at = at]
    BY <1>10, <2>1, <2>4 DEF Jobs
  <2>5. CASE LoadDecision
    <3>1. job'.at \in {"analyze", "composition"}
      <4> DEFINE w == Decision(job.tree).version + 1
      <4>1. \/ job' = [job EXCEPT !.at = "analyze"]
            \/ job' = [job EXCEPT !.at = "composition", !.version = w]
            \/ job' = [job EXCEPT !.at = "composition", !.unread = TRUE]
        BY <2>5 DEF LoadDecision
      <4> HIDE DEF w
      <4> QED  BY <2>1, <4>1 DEF Jobs
    <3> QED  BY <1>10, <2>1, <3>1
  <2>6. CASE StoreComposition
    <3>1. job' = [job EXCEPT !.at = "analyze"] \/ job' = [job EXCEPT !.at = "decision"]
      BY <2>6 DEF StoreComposition
    <3> QED  BY <2>1, <2>4, <3>1 DEF Steps
  <2>7. CASE StoreDecision
    <3>1. job' = [job EXCEPT !.at = "analyze"]  BY <2>7 DEF StoreDecision
    <3> QED  BY <2>1, <2>4, <3>1 DEF Steps
  <2>8. CASE Analyze  BY <2>2, <2>8 DEF Analyze
  <2> QED  BY <1>11, <2>5, <2>6, <2>7, <2>8
<1>12. CASE Restart /\ (job = Idle \/ job.at # "write")
  <2>1. UNCHANGED <<disk, settled>> /\ job' = Idle  BY <1>12 DEF Restart
  <2> QED  BY <1>10, <1>12, <2>1
<1>13. CASE WriteFails  BY <1>3, <1>13 DEF WriteFails
<1> QED
  BY <1>2, <1>3, <1>4, <1>5, <1>6, <1>7, <1>8, <1>9, <1>11, <1>12, <1>13 DEF Next, CarryOn, vars,
     history, PlanLibrary, VerifyAnswers, PlanScaffold, VerifyReads

(* "one design, not two reads of it": after a scaffold nobody disturbed,    *)
(* composition, record and build files state one design.                    *)
THEOREM OneDesign == Spec => []TreeStatesOneDesign
<1>1. Init => ScaffoldOK
  BY DEF Init, ScaffoldOK, TreeStatesOneDesign
<1>2. (TypesOK /\ Anchored) /\ ScaffoldOK /\ [Next]_vars => ScaffoldOK'
  BY ScaffoldNext
<1>3. ScaffoldOK => TreeStatesOneDesign  BY DEF ScaffoldOK
<1> QED  BY <1>1, <1>2, <1>3, TypesAlways, PTL DEF Spec

-----------------------------------------------------------------------------
(* The sheet drives the creation and nothing else.                          *)

Fields == {"at", "tree", "design", "plan", "pass", "checked", "gaps", "built", "baseline", "disturbed"}

\* The sheet has the fields it is given, and a creation in progress is of a
\* tree and a design there are.
SheetInv ==
  /\ sheet = [f \in Fields |-> sheet[f]]
  /\ sheet.disturbed \in BOOLEAN
  /\ sheet.at \notin {"idle", "stopped"} => sheet.tree \in Trees /\ sheet.design \in Stated

\* A step that leaves tree and design as they are, or gives the creation up.
LEMMA SheetInvKept ==
  ASSUME SheetInv,
         \/ sheet' = sheet
         \/ sheet' = NoSheet
         \/ Stop
         \/ /\ sheet.at \notin {"idle", "stopped"}
            /\ sheet' = [f \in Fields |-> sheet'[f]]
            /\ sheet'.tree = sheet.tree /\ sheet'.design = sheet.design
            /\ sheet'.disturbed = sheet.disturbed
  PROVE  SheetInv'
<1>1. CASE sheet' = sheet  BY <1>1 DEF SheetInv
<1>2. CASE sheet' = NoSheet  BY <1>2 DEF SheetInv, NoSheet, Fields
<1>3. CASE Stop  BY <1>3 DEF SheetInv, Stop, NoSheet, Fields
<1>4. CASE /\ sheet.at \notin {"idle", "stopped"}
           /\ sheet' = [f \in Fields |-> sheet'[f]]
           /\ sheet'.tree = sheet.tree /\ sheet'.design = sheet.design
           /\ sheet'.disturbed = sheet.disturbed
  BY <1>4 DEF SheetInv
<1> QED  BY <1>1, <1>2, <1>3, <1>4

LEMMA GotoKeeps ==
  ASSUME SheetInv, sheet.at \notin {"idle", "stopped"}, NEW at, Goto(at)
  PROVE  SheetInv'
<1>1. sheet' = [sheet EXCEPT !.at = at]  BY DEF Goto
<1>2. sheet' = [f \in Fields |-> sheet'[f]]  BY <1>1 DEF SheetInv
<1>3. sheet'.tree = sheet.tree /\ sheet'.design = sheet.design /\ sheet'.disturbed = sheet.disturbed
  BY <1>1 DEF SheetInv, Fields
<1> QED  BY <1>2, <1>3, SheetInvKept

\* What happens beside the sheet marks it as disturbed and no more.
LEMMA BesideKeeps == SheetInv /\ Beside => SheetInv'
<1> SUFFICES ASSUME SheetInv, Beside PROVE SheetInv'
  OBVIOUS
<1> DEFINE changed == sheet.tree # None /\ (disk'[sheet.tree] # Here \/ contract' # contract)
<1>1. sheet' = [sheet EXCEPT !.disturbed = sheet.disturbed \/ changed]  BY DEF Beside
<1>2. (sheet.disturbed \/ changed) \in BOOLEAN  BY DEF SheetInv
<1> HIDE DEF changed
<1>3. sheet' = [f \in Fields |-> sheet'[f]]  BY <1>1 DEF SheetInv
<1>4. /\ sheet'.tree = sheet.tree /\ sheet'.design = sheet.design /\ sheet'.at = sheet.at
      /\ sheet'.disturbed = (sheet.disturbed \/ changed)
  BY <1>1 DEF SheetInv, Fields
<1> QED  BY <1>2, <1>3, <1>4 DEF SheetInv

LEMMA CreationStep ==
  /\ CarryOn \/ PlanLibrary \/ VerifyAnswers \/ Restart => Next
  /\ \A t \in Trees, d \in Stated : \A door \in Doors \union {None} :
       PlanScaffold(t, d) \/ FinalizeManifest(t, d) \/ VerifyReads(t, d) \/ Scaffold(t, d, door) => Next
  /\ \A t \in Trees, c \in {"empty", "application"} : FillProject(t, c) => Next
  /\ \A t \in Trees, part \in {"composition", "record", "build", "main"} :
       WriteStep(t, part) \/ HalContractStep(t, part) => Next
  /\ \A t \in Trees, text \in Contents : PersonEdits(t, text) => Next
<1>1. \A t \in Trees, d \in Stated : \A door \in Doors \union {None} :
        PlanScaffold(t, d) \/ FinalizeManifest(t, d) \/ VerifyReads(t, d) \/ Scaffold(t, d, door) => Next
  <2> SUFFICES ASSUME NEW t \in Trees, NEW d \in Stated, NEW door \in Doors \union {None}
               PROVE  PlanScaffold(t, d) \/ FinalizeManifest(t, d) \/ VerifyReads(t, d)
                        \/ Scaffold(t, d, door) => Next
    OBVIOUS
  <2> QED  BY DEF Next
<1>2. \A t \in Trees, c \in {"empty", "application"} : FillProject(t, c) => Next  BY DEF Next
<1>3. \A t \in Trees, part \in {"composition", "record", "build", "main"} :
        WriteStep(t, part) \/ HalContractStep(t, part) => Next
  BY DEF Next
<1>4. \A t \in Trees, text \in Contents : PersonEdits(t, text) => Next  BY DEF Next
<1>5. CarryOn \/ PlanLibrary \/ VerifyAnswers \/ Restart => Next  BY DEF Next
<1> QED  BY <1>1, <1>2, <1>3, <1>4, <1>5

\* Every step of the sheet, and of what goes on beside it, is a step of the
\* creation or leaves it alone.
LEMMA SheetStep == SheetInv /\ [SheetNext]_sheetVars => [Next]_vars /\ SheetInv'
<1> SUFFICES ASSUME SheetInv, [SheetNext]_sheetVars PROVE [Next]_vars /\ SheetInv'
  OBVIOUS
<1>0. Refused => UNCHANGED vars  BY DEF Refused, vars, history
<1>1. CASE SheetScaffolds
  <2>1. sheet.tree \in Trees /\ sheet.design \in Stated  BY <1>1 DEF SheetInv, SheetScaffolds
  <2>2. \A door \in Doors \union {None} : Scaffold(sheet.tree, sheet.design, door) => Next
    BY <2>1, CreationStep
  <2>3. (IF sheet.design = None THEN None ELSE "composition_file") \in Doors \union {None}
    BY DEF Doors
  <2> QED  BY <1>0, <1>1, <2>2, <2>3, GotoKeeps, SheetInvKept DEF SheetScaffolds
<1>2. CASE CommitBaseline
  <2>1. /\ sheet.at = "scaffolding"
        /\ sheet' = [sheet EXCEPT !.at = "scaffolded", !.baseline = Here]
    BY <1>2 DEF CommitBaseline
  <2>2. sheet' = [f \in Fields |-> sheet'[f]]  BY <2>1 DEF SheetInv
  <2>3. sheet'.tree = sheet.tree /\ sheet'.design = sheet.design /\ sheet'.disturbed = sheet.disturbed
    BY <2>1 DEF SheetInv, Fields
  <2> QED  BY <1>2, <2>1, <2>2, <2>3, SheetInvKept DEF CommitBaseline
<1>3. CASE ScaffoldGoesOn
  <2>1. CarryOn /\ sheet.at \notin {"idle", "stopped"}  BY <1>3 DEF ScaffoldGoesOn, CarryOn
  <2>2. sheet' = sheet \/ Stop \/ \E at : Goto(at)  BY <1>3 DEF ScaffoldGoesOn
  <2> QED  BY <2>1, <2>2, CreationStep, GotoKeeps, SheetInvKept
<1>4. CASE SheetFills
  <2>1. sheet.tree \in Trees  BY <1>4 DEF SheetInv, SheetFills
  <2> QED  BY <1>4, <2>1, CreationStep, GotoKeeps, SheetInvKept DEF SheetFills
<1>5. CASE FillAnswers
  <2>1. CASE Stop  BY <1>5, <2>1, SheetInvKept DEF FillAnswers
  <2>2. CASE \E plan \in Plans :
               sheet' = [sheet EXCEPT !.at = "write", !.plan = WritableSteps(plan)]
    <3>1. PICK plan : sheet' = [sheet EXCEPT !.at = "write", !.plan = plan]  BY <2>2
    <3>2. sheet' = [f \in Fields |-> sheet'[f]]  BY <3>1 DEF SheetInv
    <3>3. sheet'.tree = sheet.tree /\ sheet'.design = sheet.design /\ sheet'.disturbed = sheet.disturbed
      BY <3>1 DEF SheetInv, Fields
    <3> QED  BY <1>5, <3>2, <3>3, SheetInvKept DEF FillAnswers
  <2> QED  BY <1>5, <2>1, <2>2 DEF FillAnswers
<1>6. CASE SendPlan
  BY <1>6, GotoKeeps DEF SendPlan
<1>7. CASE RunStep
  <2>1. sheet.tree \in Trees  BY <1>7 DEF SheetInv, RunStep
  <2>2. ASSUME NEW part \in {"main", "composition"}, NEW text \in Texts(part),
               Message, Permits(part), Writes(sheet.tree, part, text, "step")
        PROVE  Next
    BY <2>1, <2>2, CreationStep DEF WriteStep
  <2>3. /\ sheet' = [f \in Fields |-> sheet'[f]]
        /\ sheet'.tree = sheet.tree /\ sheet'.design = sheet.design /\ sheet'.disturbed = sheet.disturbed
    <3>1. PICK rest : sheet' = [sheet EXCEPT !.plan = rest]  BY <1>7 DEF RunStep
    <3> QED  BY <3>1 DEF SheetInv, Fields
  <2> QED  BY <1>0, <1>7, <2>2, <2>3, SheetInvKept DEF RunStep
<1>8. CASE PlanDone
  <2>1. sheet.at \notin {"idle", "stopped"}  BY <1>8 DEF PlanDone
  <2>2. \/ Goto("verify")
        \/ /\ sheet' = [f \in Fields |-> sheet'[f]]
           /\ sheet'.tree = sheet.tree /\ sheet'.design = sheet.design /\ sheet'.disturbed = sheet.disturbed
    <3>1. Goto("verify") \/ \E at, pass : sheet' = [sheet EXCEPT !.at = at, !.pass = pass]
      BY <1>8 DEF PlanDone
    <3> QED  BY <3>1 DEF SheetInv, Fields
  <2> QED  BY <1>8, <2>1, <2>2, GotoKeeps, SheetInvKept DEF PlanDone
<1>9. CASE SheetVerifies
  <2>1. sheet.tree \in Trees /\ sheet.design \in Stated  BY <1>9 DEF SheetInv, SheetVerifies
  <2>2. CASE Stop  BY <1>9, <2>1, <2>2, CreationStep, SheetInvKept DEF SheetVerifies
  <2>3. CASE VerifyReads(sheet.tree, sheet.design) /\ ~Stop
    <3>1. PICK gaps, design : sheet' = [sheet EXCEPT !.at = "verifying", !.gaps = gaps, !.checked = design]
      BY <1>9, <2>3 DEF SheetVerifies
    <3>2. sheet' = [f \in Fields |-> sheet'[f]]  BY <3>1 DEF SheetInv
    <3>3. sheet'.tree = sheet.tree /\ sheet'.design = sheet.design /\ sheet'.disturbed = sheet.disturbed
      BY <3>1 DEF SheetInv, Fields
    <3>4. Next  BY <2>1, <2>3, CreationStep DEF Doors
    <3> QED  BY <1>9, <3>2, <3>3, <3>4, SheetInvKept DEF SheetVerifies
  <2> QED  BY <1>9, <2>2, <2>3 DEF SheetVerifies
<1>10. CASE SheetVerified
  BY <1>10, CreationStep, GotoKeeps DEF SheetVerified
<1>11. CASE SheetFinalizes
  <2>1. sheet.tree \in Trees /\ sheet.design \in Stated  BY <1>11 DEF SheetInv, SheetFinalizes
  <2> QED  BY <1>11, <2>1, CreationStep, GotoKeeps, SheetInvKept DEF SheetFinalizes
<1>12. CASE SheetBuilds
  <2>1. sheet.at = "build" /\ UNCHANGED vars  BY <1>12 DEF SheetBuilds
  <2>2. CASE Goto("repair")  BY <2>1, <2>2, GotoKeeps
  <2>3. CASE sheet' = [sheet EXCEPT !.at = "closed", !.built = Here]
    <3>1. sheet' = [f \in Fields |-> sheet'[f]]  BY <2>3 DEF SheetInv
    <3>2. sheet'.tree = sheet.tree /\ sheet'.design = sheet.design /\ sheet'.disturbed = sheet.disturbed
      BY <2>3 DEF SheetInv, Fields
    <3> QED  BY <2>1, <3>1, <3>2, SheetInvKept
  <2> QED  BY <1>12, <2>2, <2>1, <2>3 DEF SheetBuilds
<1>13. CASE SheetRepairs
  <2>1. sheet.at = "repair" /\ UNCHANGED vars  BY <1>13 DEF SheetRepairs
  <2>2. CASE Stop  BY <2>1, <2>2, SheetInvKept
  <2>3. CASE ~Stop
    <3>1. PICK plan : sheet' = [sheet EXCEPT !.at = "rewrite", !.plan = plan]
      BY <1>13, <2>3 DEF SheetRepairs
    <3>2. sheet' = [f \in Fields |-> sheet'[f]]  BY <3>1 DEF SheetInv
    <3>3. sheet'.tree = sheet.tree /\ sheet'.design = sheet.design /\ sheet'.disturbed = sheet.disturbed
      BY <3>1 DEF SheetInv, Fields
    <3> QED  BY <2>1, <3>2, <3>3, SheetInvKept
  <2> QED  BY <2>2, <2>3
<1>14. CASE ClientGoesOn
  BY <1>14, CreationStep, BesideKeeps DEF ClientGoesOn
<1>15. CASE ProcessEnds
  BY <1>15, CreationStep, SheetInvKept DEF ProcessEnds
<1>16. ASSUME NEW t \in Trees, NEW d \in Stated,
              \/ Create(t, d) \/ ClientPlans(t, d) \/ ClientScaffolds(t, d) \/ ClientPasses(t, d)
       PROVE  [Next]_vars /\ SheetInv'
  <2>1. CASE Create(t, d)
    <3>1. UNCHANGED vars  BY <2>1 DEF Create
    <3>2. \/ sheet' = [NoSheet EXCEPT !.at = "stopped"]
          \/ sheet' = [NoSheet EXCEPT !.at = "scaffold", !.tree = t, !.design = d]
      BY <2>1 DEF Create
    <3> QED  BY <3>1, <3>2 DEF SheetInv, NoSheet, Fields
  <2>2. CASE ClientPlans(t, d)
    BY <2>2, CreationStep, BesideKeeps DEF ClientPlans, Doors
  <2>3. CASE ClientScaffolds(t, d)
    <3>1. (IF d = None THEN None ELSE "answered") \in Doors \union {None}  BY DEF Doors
    <3> QED  BY <2>3, <3>1, CreationStep, BesideKeeps DEF ClientScaffolds
  <2>4. CASE ClientPasses(t, d)
    BY <2>4, CreationStep, BesideKeeps DEF ClientPasses, Doors
  <2> QED  BY <1>16, <2>1, <2>2, <2>3, <2>4
<1>17. ASSUME NEW t \in Trees, NEW c \in {"empty", "application"}, ClientFills(t, c)
       PROVE  [Next]_vars /\ SheetInv'
  BY <1>17, CreationStep, BesideKeeps DEF ClientFills
<1>18. ASSUME NEW t \in Trees, NEW part \in {"composition", "record", "build", "main"},
              ClientRunsStep(t, part)
       PROVE  [Next]_vars /\ SheetInv'
  BY <1>18, CreationStep, BesideKeeps DEF ClientRunsStep
<1>19. ASSUME NEW t \in Trees, NEW text \in Contents, PersonWrites(t, text)
       PROVE  [Next]_vars /\ SheetInv'
  BY <1>19, CreationStep, BesideKeeps DEF PersonWrites
<1>20. CASE UNCHANGED sheetVars
  BY <1>20, SheetInvKept DEF sheetVars
<1> QED
  BY <1>1, <1>2, <1>3, <1>4, <1>5, <1>6, <1>7, <1>8, <1>9, <1>10, <1>11, <1>12, <1>13, <1>14,
     <1>15, <1>16, <1>17, <1>18, <1>19, <1>20 DEF SheetNext, SheetSteps

(* The sheet with everything beside it implements ProjectCreation, so that  *)
(* what is proved of the creation holds under the sheet.                    *)
THEOREM SheetImplements == SheetSpec => Spec
<1>1. SheetInit => Init /\ SheetInv
  BY DEF SheetInit, SheetInv, NoSheet, Fields
<1> QED  BY <1>1, SheetStep, PTL DEF SheetSpec, Spec

-----------------------------------------------------------------------------
(* What the sheet hands over.                                               *)

\* The file of the scaffold's list is behind it.
Past(k) == job.at # "write" \/ job.next > k

\* How far the sheet's own scaffold has come.
Writing ==
  /\ job \in Jobs /\ job # Idle
  /\ job.at \in {"write", "load"}
  /\ job.tree = sheet.tree /\ job.design \in Designs
  /\ Here.composition \in {None, job.design}
  /\ Past(1) => Here.build = job.design
  /\ Past(2) => Here.main = "stub"
  /\ Past(3) => Here.composition = job.design
  /\ Past(4) => Here.record = job.design

\* The three statements of the design agree, and the commit to go back to
\* holds it and no fill.
Agreed == Here.composition \in Designs /\ Here.record = Here.composition /\ Here.build = Here.composition
Based == sheet.baseline.composition = Here.composition /\ sheet.baseline.main = "stub"

Verified == {"verifying", "finalize", "build", "repair", "rewrite", "rewriting", "closed"}

\* What an undisturbed sheet knows of its tree, at each of its places.
HandInv ==
  sheet.at \notin {"idle", "stopped", "scaffold"} /\ sheet.design # None /\ ~sheet.disturbed =>
    /\ sheet.at = "scaffolding" => Writing
    /\ sheet.at # "scaffolding" => Agreed /\ Based
    /\ sheet.at = "scaffolded" => job # Idle /\ job.at # "write"
    /\ sheet.at \notin {"scaffolding", "scaffolded", "fill"} => contract = "application"
    /\ sheet.at \in Verified => sheet.checked = Here.composition
    /\ sheet.at = "closed" => Here = sheet.built

\* A step of the sheet that leaves alone what states the design.
LEMMA Onward ==
  ASSUME HandInv, sheet.at \notin {"idle", "stopped", "scaffold", "scaffolding", "scaffolded"},
         sheet'.tree = sheet.tree, sheet'.design = sheet.design,
         sheet'.disturbed = sheet.disturbed, sheet'.baseline = sheet.baseline,
         disk'[sheet.tree].composition = Here.composition,
         disk'[sheet.tree].record = Here.record,
         disk'[sheet.tree].build = Here.build,
         sheet'.at \notin {"scaffolding", "scaffolded", "closed"},
         sheet.at = "fill" /\ sheet'.at # "fill" => contract' = "application",
         sheet.at # "fill" => contract' = contract,
         sheet'.at \in Verified =>
           \/ sheet'.checked = Here.composition
           \/ sheet.at \in Verified /\ sheet'.checked = sheet.checked
  PROVE  HandInv'
BY DEF HandInv, Agreed, Based, Here, Verified

\* Beside the sheet: what changes its tree or its contract disturbs it.
LEMMA BesideSpares ==
  ASSUME SheetInv, HandInv, Beside,
         sheet.at \in {"scaffolding", "scaffolded"} /\ sheet.design # None /\ ~sheet.disturbed => job' = job
  PROVE  HandInv'
<1> DEFINE changed == sheet.tree # None /\ (disk'[sheet.tree] # Here \/ contract' # contract)
<1>1. sheet' = [sheet EXCEPT !.disturbed = sheet.disturbed \/ changed]  BY DEF Beside
<1>2. /\ sheet'.at = sheet.at /\ sheet'.tree = sheet.tree /\ sheet'.design = sheet.design
      /\ sheet'.baseline = sheet.baseline /\ sheet'.checked = sheet.checked
      /\ sheet'.built = sheet.built
  BY <1>1 DEF SheetInv, Fields
<1>3. sheet'.disturbed = (sheet.disturbed \/ changed)
  <2> HIDE DEF changed
  <2> QED  BY <1>1 DEF SheetInv, Fields
<1>4. CASE sheet'.disturbed \/ sheet.at \in {"idle", "stopped", "scaffold"}
  BY <1>2, <1>4 DEF HandInv
<1>5. CASE ~sheet'.disturbed /\ sheet.at \notin {"idle", "stopped", "scaffold"}
  <2>1. ~sheet.disturbed /\ ~changed  BY <1>3, <1>5
  <2>2. sheet.tree # None  BY <1>5, SheetConstantsOK DEF SheetInv
  <2>3. disk'[sheet.tree] = disk[sheet.tree] /\ contract' = contract  BY <2>1, <2>2 DEF Here
  <2>4. Here' = Here  BY <1>2, <2>3 DEF Here
  <2>5. CASE sheet.design = None  BY <1>2, <2>5 DEF HandInv
  <2>6. CASE sheet.at = "scaffolding" /\ sheet.design # None
    <3>1. Writing /\ job' = job  BY <2>1, <2>6 DEF HandInv
    <3>2. Writing'  BY <1>2, <2>4, <3>1 DEF Writing, Past
    <3> QED  BY <1>2, <2>6, <3>2 DEF HandInv, Verified
  <2>7. CASE sheet.at # "scaffolding" /\ sheet.design # None
    <3>1. sheet.at = "scaffolded" => job' = job  BY <2>1, <2>7
    <3> QED  BY <1>2, <1>5, <2>1, <2>3, <2>4, <2>7, <3>1 DEF HandInv, Agreed, Based
  <2> QED  BY <2>5, <2>6, <2>7
<1> QED  BY <1>4, <1>5
\* Moving the sheet to another place changes nothing else of it.
LEMMA GotoFields ==
  ASSUME SheetInv, NEW at, Goto(at)
  PROVE  /\ sheet'.at = at /\ sheet'.tree = sheet.tree /\ sheet'.design = sheet.design
         /\ sheet'.disturbed = sheet.disturbed /\ sheet'.baseline = sheet.baseline
         /\ sheet'.checked = sheet.checked
BY DEF Goto, SheetInv, Fields

\* A creation given up has nothing to hand over.
LEMMA StopSpares ==
  ASSUME Stop \/ sheet' = NoSheet
  PROVE  HandInv'
BY DEF Stop, NoSheet, HandInv

\* A creation that is undisturbed and of a design.
Quiet == sheet.at \notin {"idle", "stopped", "scaffold"} /\ sheet.design # None /\ ~sheet.disturbed

\* The next file of the sheet's own scaffold.
LEMMA ScaffoldWrites ==
  ASSUME TypesOK, SheetInv, Writing, WriteFile, sheet' = sheet,
         sheet.at \notin {"idle", "stopped"}
  PROVE  Writing'
<1> DEFINE t == job.tree
           d == job.design
           part == Order[job.next]
           text == Content(part, d)
<1>1. /\ job \in Jobs /\ job # Idle /\ job.at = "write" /\ t \in Trees /\ d \in Designs
      /\ job.next \in 1..5 /\ t = sheet.tree
  BY DEF WriteFile, Writing, Jobs
<1>2. disk \in [Trees -> Files] /\ disk[t] \in Files /\ d # None
  BY <1>1, ConstantsOK DEF TypesOK
<1>3. /\ disk[t].composition \in {None, d}
      /\ job.next > 1 => disk[t].build = d
      /\ job.next > 2 => disk[t].main = "stub"
      /\ job.next > 3 => disk[t].composition = d
      /\ job.next > 4 => disk[t].record = d
  BY <1>1 DEF Writing, Past, Here
<1>4. /\ disk'[t].composition \in {None, d}
      /\ job.next >= 1 => disk'[t].build = d
      /\ job.next >= 2 => disk'[t].main = "stub"
      /\ job.next >= 3 => disk'[t].composition = d
      /\ job.next >= 4 => disk'[t].record = d
  <2>1. CASE part \notin Listed(d) \/ Kept(t, part)
    <3>1. disk' = disk  BY <2>1 DEF WriteFile
    <3>2. job.next \notin {1, 2, 4}  BY <1>2, <2>1, OrderFacts DEF Listed, Kept
    <3>3. job.next = 3 => disk[t].composition = d
      BY <1>2, <1>3, <2>1, OrderFacts DEF Listed, Kept
    <3> QED  BY <1>1, <1>3, <3>1, <3>2, <3>3
  <2>2. CASE ~(part \notin Listed(d) \/ Kept(t, part))
    <3>1. disk' = [disk EXCEPT ![t][part] = text]  BY <2>2 DEF WriteFile
    <3>2. disk'[t] = [disk[t] EXCEPT ![part] = text]
      <4> HIDE DEF t, part, text
      <4> QED  BY <1>1, <1>2, <3>1
    <3>3. /\ part = "build" => disk'[t].build = text
          /\ part # "build" => disk'[t].build = disk[t].build
          /\ part = "main" => disk'[t].main = text
          /\ part # "main" => disk'[t].main = disk[t].main
          /\ part = "composition" => disk'[t].composition = text
          /\ part # "composition" => disk'[t].composition = disk[t].composition
          /\ part = "record" => disk'[t].record = text
          /\ part # "record" => disk'[t].record = disk[t].record
      <4> HIDE DEF t, part, text
      <4> QED  BY <1>2, <3>2 DEF Files
    <3>4. part \in {"build", "composition", "record"} => text = d  BY DEF Content
    <3>5. part = "main" => text = "stub"  BY DEF Content
    <3>6. /\ job.next = 1 <=> part = "build"
          /\ job.next = 2 <=> part = "main"
          /\ job.next = 3 <=> part = "composition"
          /\ job.next = 4 <=> part = "record"
      BY <1>1, OrderFacts
    <3> HIDE DEF t, part, text, d
    <3> QED  BY <1>1, <1>3, <3>3, <3>4, <3>5, <3>6
  <2> QED  BY <2>1, <2>2
<1>5. CASE job.next < 5
  <2>1. job' = [job EXCEPT !.next = job.next + 1]
    BY <1>1, <1>5, OrderFacts DEF WriteFile
  <2>2. /\ job' \in Jobs /\ job'.next = job.next + 1 /\ job'.at = "write"
        /\ job'.tree = t /\ job'.design = d
    BY <1>1, <1>5, <2>1 DEF Jobs
  <2>3. job' # Idle
    <3>1. "at" \in DOMAIN job' /\ "at" \notin DOMAIN Idle  BY <1>1, <2>1 DEF Jobs, Idle
    <3> QED  BY <3>1
  <2> HIDE DEF t, d
  <2> QED  BY <1>1, <1>4, <1>5, <2>2, <2>3 DEF Writing, Past, Here
<1>6. CASE job.next = 5
  <2>1. job' = [job EXCEPT !.at = "load"]
    BY <1>1, <1>2, <1>6, OrderFacts DEF WriteFile
  <2>2. job' \in Jobs /\ job'.at = "load" /\ job'.tree = t /\ job'.design = d
    BY <1>1, <2>1 DEF Jobs, Steps
  <2>3. job' # Idle
    <3>1. "at" \in DOMAIN job' /\ "at" \notin DOMAIN Idle  BY <1>1, <2>1 DEF Jobs, Idle
    <3> QED  BY <3>1
  <2> HIDE DEF t, d
  <2> QED  BY <1>1, <1>4, <1>6, <2>2, <2>3 DEF Writing, Past, Here
<1> QED  BY <1>1, <1>5, <1>6

\* A job past its files stays past them.
LEMMA PastFiles ==
  ASSUME TypesOK, job # Idle, job.at # "write", job' # Idle,
         LoadDecision \/ StoreComposition \/ StoreDecision \/ Analyze
  PROVE  job'.at # "write" /\ UNCHANGED <<disk, contract>>
<1>1. job \in Jobs  BY DEF TypesOK
<1>2. CASE LoadDecision
  <2> DEFINE w == Decision(job.tree).version + 1
  <2>1. \/ job' = [job EXCEPT !.at = "analyze"]
        \/ job' = [job EXCEPT !.at = "composition", !.version = w]
        \/ job' = [job EXCEPT !.at = "composition", !.unread = TRUE]
    BY <1>2 DEF LoadDecision
  <2> HIDE DEF w
  <2> QED  BY <1>1, <1>2, <2>1 DEF Jobs, LoadDecision
<1>3. CASE StoreComposition
  <2>1. job' = [job EXCEPT !.at = "analyze"] \/ job' = [job EXCEPT !.at = "decision"]
    BY <1>3 DEF StoreComposition
  <2> QED  BY <1>1, <1>3, <2>1 DEF Jobs, StoreComposition
<1>4. CASE StoreDecision
  BY <1>1, <1>4 DEF Jobs, StoreDecision
<1>5. CASE Analyze  BY <1>5 DEF Analyze
<1> QED  BY <1>2, <1>3, <1>4, <1>5
\* The scaffold, its commit and what follows it, up to the fill.
LEMMA ScaffoldHands ==
  ASSUME TypesOK, SheetInv, HandInv, SheetScaffolds \/ CommitBaseline \/ ScaffoldGoesOn
  PROVE  HandInv'
<1>1. CASE SheetScaffolds
  <2> DEFINE t == sheet.tree
             e == Resolve(disk[t], sheet.design)
             door == IF sheet.design = None THEN None ELSE "composition_file"
  <2>1. t \in Trees /\ sheet.design \in Stated /\ disk[t] \in Files
    BY <1>1 DEF SheetInv, SheetScaffolds, TypesOK
  <2>2. CASE Stop  BY <2>2, StopSpares
  <2>3. CASE Scaffold(t, sheet.design, door) /\ Goto("scaffolding")
    <3>1. /\ e # Broken /\ disk' = disk
          /\ job' = [tree |-> t, at |-> "write", design |-> e, next |-> 1,
                     door |-> IF door = None /\ Dropped(disk[t], sheet.design)
                              THEN "composition_file" ELSE door,
                     version |-> 1, unread |-> FALSE]
      BY <2>3 DEF Scaffold
    <3>2. CASE sheet.design = None  BY <2>3, <3>2, GotoFields DEF HandInv
    <3>3. CASE sheet.design # None
      <4>1. e \in Designs /\ disk[t].composition \in {None, e}
        <5>1. e \in Contents  BY <2>1, ResolveType
        <5>2. e # None  BY <3>3 DEF Resolve
        <5>3. disk[t].composition \in {None, e}  BY DEF Resolve, Read
        <5> QED  BY <3>1, <5>1, <5>2, <5>3 DEF Contents, Stated
      <4>2. Dropped(disk[t], sheet.design) \in BOOLEAN /\ door \in Doors  BY <3>3 DEF Dropped, Doors
      <4>3. job' \in Jobs /\ job'.at = "write" /\ job'.tree = t /\ job'.design = e /\ job'.next = 1
        <5> HIDE DEF e, door
        <5> QED  BY <2>1, <3>1, <4>1, <4>2 DEF Jobs, Steps, Stated, Doors
      <4>4. job' # Idle
        <5>1. "at" \in DOMAIN job' /\ "at" \notin DOMAIN Idle  BY <3>1 DEF Idle
        <5> QED  BY <5>1
      <4>5. sheet'.tree = t /\ sheet'.at = "scaffolding"  BY <2>3, GotoFields
      <4>6. Writing'
        <5> HIDE DEF e, t
        <5> QED  BY <3>1, <4>1, <4>3, <4>4, <4>5 DEF Writing, Past, Here
      <4> QED  BY <4>5, <4>6 DEF HandInv, Verified
    <3> QED  BY <3>2, <3>3
  <2> QED  BY <1>1, <2>2, <2>3 DEF SheetScaffolds
<1>2. CASE CommitBaseline
  <2>1. /\ sheet.at = "scaffolding" /\ job.at \in {"load", "analyze"} /\ UNCHANGED vars
        /\ sheet' = [sheet EXCEPT !.at = "scaffolded", !.baseline = Here]
    BY <1>2 DEF CommitBaseline
  <2>2. /\ sheet'.at = "scaffolded" /\ sheet'.baseline = Here /\ sheet'.tree = sheet.tree
        /\ sheet'.design = sheet.design /\ sheet'.disturbed = sheet.disturbed
    BY <2>1 DEF SheetInv, Fields
  <2>3. CASE sheet.design = None \/ sheet.disturbed  BY <2>2, <2>3 DEF HandInv
  <2>4. CASE sheet.design # None /\ ~sheet.disturbed
    <3>1. Writing  BY <2>1, <2>4 DEF HandInv
    <3>2. job # Idle /\ job.at = "load"  BY <2>1, <3>1 DEF Writing
    <3>3. Agreed /\ Here.main = "stub"  BY <3>1, <3>2 DEF Writing, Past, Agreed
    <3>4. Here' = Here /\ job' = job  BY <2>1, <2>2 DEF Here, vars
    <3>5. Agreed' /\ Based'  BY <2>2, <3>3, <3>4 DEF Agreed, Based
    <3> QED  BY <2>2, <3>2, <3>4, <3>5 DEF HandInv, Verified
  <2> QED  BY <2>3, <2>4
<1>3. CASE ScaffoldGoesOn
  <2>1. sheet.at \in {"scaffolding", "scaffolded"}  BY <1>3 DEF ScaffoldGoesOn
  <2>2. CASE Stop  BY <2>2, StopSpares
  <2>3. CASE sheet' = sheet /\ job' # Idle
    <3>1. CASE ~Quiet  BY <2>3, <3>1 DEF HandInv, Quiet
    <3>2. CASE Quiet /\ sheet.at = "scaffolding"
      <4>1. Writing /\ WriteFile
        BY <1>3, <2>3, <3>2 DEF HandInv, Quiet, ScaffoldGoesOn, WriteFails
      <4>2. Writing'  BY <2>3, <3>2, <4>1, ScaffoldWrites
      <4> QED  BY <2>3, <3>2, <4>2 DEF HandInv, Verified
    <3>3. CASE Quiet /\ sheet.at = "scaffolded"
      <4>1. Agreed /\ Based /\ job # Idle /\ job.at # "write"  BY <3>3 DEF HandInv, Quiet
      <4>2. job'.at # "write" /\ UNCHANGED <<disk, contract>>
        BY <1>3, <2>3, <3>3, <4>1, PastFiles DEF ScaffoldGoesOn
      <4>3. Agreed' /\ Based'  BY <2>3, <4>1, <4>2 DEF Agreed, Based, Here
      <4> QED  BY <2>3, <3>3, <4>2, <4>3 DEF HandInv, Verified
    <3> QED  BY <2>1, <3>1, <3>2, <3>3
  <2>4. CASE job' = Idle /\ sheet.at = "scaffolded"
             /\ Goto(IF sheet.design = None THEN "closed" ELSE "fill")
    <3> DEFINE at == IF sheet.design = None THEN "closed" ELSE "fill"
    <3>1. /\ sheet'.at = at /\ sheet'.tree = sheet.tree /\ sheet'.design = sheet.design
          /\ sheet'.disturbed = sheet.disturbed /\ sheet'.baseline = sheet.baseline
      <4> HIDE DEF at
      <4> QED  BY <2>4, GotoFields DEF at
    <3>2. CASE ~Quiet  BY <2>4, <3>1, <3>2 DEF HandInv, Quiet
    <3>3. CASE Quiet
      <4>1. Agreed /\ Based /\ job # Idle /\ job.at # "write"  BY <2>4, <3>3 DEF HandInv, Quiet
      <4>2. UNCHANGED disk
        BY <1>3, <2>4, <4>1 DEF ScaffoldGoesOn, LoadDecision, StoreComposition, StoreDecision, Analyze
      <4>3. Agreed' /\ Based'  BY <3>1, <4>1, <4>2 DEF Agreed, Based, Here
      <4>4. sheet'.at = "fill"  BY <3>1, <3>3 DEF Quiet
      <4> QED  BY <4>3, <4>4 DEF HandInv, Verified
    <3> QED  BY <3>2, <3>3
  <2> QED  BY <1>3, <2>1, <2>2, <2>3, <2>4 DEF ScaffoldGoesOn
<1> QED  BY <1>1, <1>2, <1>3
\* A step of a plan under an application's contract rewrites the product file.
LEMMA StepHands ==
  ASSUME TypesOK, SheetInv, HandInv, RunStep
  PROVE  HandInv'
<1>1. sheet.at \in {"writing", "rewriting"} /\ sheet.tree \in Trees
  BY DEF RunStep, SheetInv
<1>2. /\ sheet'.at = sheet.at /\ sheet'.tree = sheet.tree /\ sheet'.design = sheet.design
      /\ sheet'.disturbed = sheet.disturbed /\ sheet'.baseline = sheet.baseline
      /\ sheet'.checked = sheet.checked
  <2>1. PICK rest : sheet' = [sheet EXCEPT !.plan = rest]  BY DEF RunStep
  <2> QED  BY <2>1 DEF SheetInv, Fields
<1>3. CASE sheet.design = None \/ sheet.disturbed  BY <1>2, <1>3 DEF HandInv
<1>4. CASE sheet.design # None /\ ~sheet.disturbed
  <2>1. contract = "application"  BY <1>1, <1>4 DEF HandInv
  <2>2. contract' = contract /\ (disk' = disk \/ \E text : disk' = [disk EXCEPT ![sheet.tree].main = text])
    <3>1. CASE Refused  BY <3>1 DEF Refused
    <3>2. ASSUME NEW part \in {"main", "composition"}, NEW text \in Texts(part),
                 Permits(part), Writes(sheet.tree, part, text, "step")
          PROVE  contract' = contract /\ \E x : disk' = [disk EXCEPT ![sheet.tree].main = x]
      <4>1. part = "main"  BY <2>1, <3>2 DEF Permits, Locked
      <4> QED  BY <3>2, <4>1 DEF Writes
    <3> QED  BY <3>1, <3>2 DEF RunStep
  <2>3. /\ disk'[sheet.tree].composition = Here.composition
        /\ disk'[sheet.tree].record = Here.record
        /\ disk'[sheet.tree].build = Here.build
    <3>1. disk \in [Trees -> Files]  BY DEF TypesOK
    <3> QED  BY <1>1, <2>2, <3>1 DEF Files, Here
  <2> QED  BY <1>1, <1>2, <2>2, <2>3, Onward DEF Verified
<1> QED  BY <1>3, <1>4

\* The fill brings a record that agrees already into agreement.
LEMMA FillHands ==
  ASSUME TypesOK, SheetInv, HandInv, SheetFills
  PROVE  HandInv'
<1>1. sheet.at = "fill" /\ sheet.tree \in Trees /\ FillProject(sheet.tree, "application")
  BY DEF SheetFills, SheetInv
<1>2. Stop \/ Goto("planning")  BY DEF SheetFills
<1>3. CASE Stop  BY <1>3, StopSpares
<1>4. CASE Goto("planning")
  <2>1. CASE sheet.design = None \/ sheet.disturbed  BY <1>4, <2>1, GotoFields DEF HandInv
  <2>2. CASE sheet.design # None /\ ~sheet.disturbed
    <3>1. Agreed  BY <1>1, <2>2 DEF HandInv
    <3>2. Read(disk[sheet.tree]) = Here.record /\ Here.record # Broken
      BY <3>1, ConstantsOK DEF Agreed, Read, Here
    <3>3. contract' = "application" /\ disk' = [disk EXCEPT ![sheet.tree].record = Here.record]
      BY <1>1, <3>2 DEF FillProject, Here
    <3>4. /\ disk'[sheet.tree].composition = Here.composition
          /\ disk'[sheet.tree].record = Here.record
          /\ disk'[sheet.tree].build = Here.build
      <4>1. disk \in [Trees -> Files]  BY DEF TypesOK
      <4>2. \A r : disk' = [disk EXCEPT ![sheet.tree].record = r] =>
                     /\ disk'[sheet.tree].composition = Here.composition
                     /\ disk'[sheet.tree].record = r
                     /\ disk'[sheet.tree].build = Here.build
        BY <1>1, <4>1 DEF Files, Here
      <4> QED  BY <3>3, <4>2
    <3>5. /\ sheet'.at = "planning" /\ sheet'.tree = sheet.tree /\ sheet'.design = sheet.design
          /\ sheet'.disturbed = sheet.disturbed /\ sheet'.baseline = sheet.baseline
      BY <1>4, GotoFields
    <3> QED  BY <1>1, <3>3, <3>4, <3>5, Onward DEF Verified
  <2> QED  BY <2>1, <2>2
<1> QED  BY <1>2, <1>3, <1>4

\* The passes after the fill: verify, finalize, build and repair.
LEMMA PassesHand ==
  ASSUME TypesOK, SheetInv, HandInv,
         \/ FillAnswers \/ SendPlan \/ PlanDone \/ SheetVerifies \/ SheetVerified
         \/ SheetFinalizes \/ SheetBuilds \/ SheetRepairs
  PROVE  HandInv'
<1>0. sheet.at \in {"planning", "write", "rewrite", "writing", "rewriting", "verify", "verifying",
                    "finalize", "build", "repair"}
  BY DEF FillAnswers, SendPlan, PlanDone, SheetVerifies, SheetVerified, SheetFinalizes,
         SheetBuilds, SheetRepairs
<1>1. CASE Stop  BY <1>1, StopSpares
<1>2. CASE /\ ~Stop /\ contract' = contract
           /\ disk'[sheet.tree].composition = Here.composition
           /\ disk'[sheet.tree].record = Here.record
           /\ disk'[sheet.tree].build = Here.build
           /\ sheet'.tree = sheet.tree /\ sheet'.design = sheet.design
           /\ sheet'.disturbed = sheet.disturbed /\ sheet'.baseline = sheet.baseline
           /\ sheet'.at \notin {"scaffolding", "scaffolded", "closed"}
           /\ sheet'.at \in Verified =>
                \/ sheet'.checked = Here.composition
                \/ sheet.at \in Verified /\ sheet'.checked = sheet.checked
  BY <1>0, <1>2, Onward
<1>3. CASE FillAnswers /\ ~Stop
  <2>1. PICK plan : sheet' = [sheet EXCEPT !.at = "write", !.plan = plan]  BY <1>3 DEF FillAnswers
  <2>2. /\ sheet'.tree = sheet.tree /\ sheet'.design = sheet.design /\ sheet'.at = "write"
        /\ sheet'.disturbed = sheet.disturbed /\ sheet'.baseline = sheet.baseline
    BY <2>1 DEF SheetInv, Fields
  <2> QED  BY <1>2, <1>3, <2>2 DEF FillAnswers, vars, Here, Verified
<1>4. CASE SendPlan /\ ~Stop
  BY <1>2, <1>4, GotoFields DEF SendPlan, vars, Here, Verified
<1>5. CASE PlanDone /\ ~Stop
  <2>1. CASE Goto("verify")
    BY <1>2, <1>5, <2>1, GotoFields DEF PlanDone, vars, Here, Verified
  <2>2. CASE sheet.at = "rewriting" /\ sheet' = [sheet EXCEPT !.at = AfterRewrite, !.pass = @ + 1]
    <3>1. AfterRewrite \in {"build", "stopped"}  BY DEF AfterRewrite
    <3>2. /\ sheet'.tree = sheet.tree /\ sheet'.design = sheet.design /\ sheet'.at = AfterRewrite
          /\ sheet'.disturbed = sheet.disturbed /\ sheet'.baseline = sheet.baseline
          /\ sheet'.checked = sheet.checked
      BY <2>2 DEF SheetInv, Fields
    <3> QED  BY <1>2, <1>5, <2>2, <3>1, <3>2 DEF PlanDone, vars, Here, Verified
  <2> QED  BY <1>5, <2>1, <2>2 DEF PlanDone
<1>6. CASE SheetVerifies /\ ~Stop
  <2>1. PICK gaps : sheet' = [sheet EXCEPT !.at = "verifying", !.gaps = gaps,
                                           !.checked = Resolve(Here, sheet.design)]
    BY <1>6 DEF SheetVerifies
  <2>2. /\ sheet'.tree = sheet.tree /\ sheet'.design = sheet.design /\ sheet'.at = "verifying"
        /\ sheet'.disturbed = sheet.disturbed /\ sheet'.baseline = sheet.baseline
        /\ sheet'.checked = Resolve(Here, sheet.design)
    BY <2>1 DEF SheetInv, Fields
  <2>3. UNCHANGED <<disk, contract>>  BY <1>6 DEF SheetVerifies, VerifyReads
  <2>4. CASE sheet.design = None \/ sheet.disturbed  BY <2>2, <2>4 DEF HandInv
  <2>5. CASE sheet.design # None /\ ~sheet.disturbed
    <3>1. Agreed  BY <1>0, <2>5 DEF HandInv
    <3>2. Resolve(Here, sheet.design) = Here.composition
      BY <3>1, ConstantsOK DEF Agreed, Resolve, Read
    <3>3. sheet'.checked = Here.composition  BY <2>2, <3>2
    <3>4. /\ disk'[sheet.tree].composition = Here.composition
          /\ disk'[sheet.tree].record = Here.record
          /\ disk'[sheet.tree].build = Here.build
          /\ contract' = contract
      BY <2>3 DEF Here
    <3>5. sheet'.at \notin {"scaffolding", "scaffolded", "closed"}  BY <2>2
    <3> QED  BY <1>2, <1>6, <2>2, <3>3, <3>4, <3>5
  <2> QED  BY <2>4, <2>5
<1>7. CASE SheetVerified /\ ~Stop
  <2>1. UNCHANGED <<disk, contract>> /\ sheet.at = "verifying"
    BY <1>7 DEF SheetVerified, VerifyAnswers
  <2>2. Goto("stopped") \/ Goto("finalize")  BY <1>7 DEF SheetVerified
  <2> QED  BY <1>2, <1>7, <2>1, <2>2, GotoFields DEF Here, Verified
<1>8. CASE SheetFinalizes /\ ~Stop
  <2>1. sheet.tree \in Trees /\ disk \in [Trees -> Files]
    BY <1>8 DEF SheetFinalizes, SheetInv, TypesOK
  <2>2. contract' = contract /\ \E text : disk' = [disk EXCEPT ![sheet.tree].manifest = text]
    BY <1>8 DEF SheetFinalizes, FinalizeManifest
  <2>3. /\ disk'[sheet.tree].composition = Here.composition
        /\ disk'[sheet.tree].record = Here.record
        /\ disk'[sheet.tree].build = Here.build
    BY <2>1, <2>2 DEF Files, Here
  <2>4. Goto("build") /\ sheet.at = "finalize"  BY <1>8 DEF SheetFinalizes
  <2> QED  BY <1>2, <1>8, <2>2, <2>3, <2>4, GotoFields DEF Verified
<1>9. CASE SheetBuilds /\ ~Stop
  <2>1. sheet.at = "build" /\ UNCHANGED <<disk, contract>>  BY <1>9 DEF SheetBuilds, vars
  <2>2. CASE Goto("repair")
    BY <1>2, <1>9, <2>1, <2>2, GotoFields DEF Here, Verified
  <2>3. CASE sheet' = [sheet EXCEPT !.at = "closed", !.built = Here]
    <3>1. /\ sheet'.tree = sheet.tree /\ sheet'.design = sheet.design /\ sheet'.at = "closed"
          /\ sheet'.disturbed = sheet.disturbed /\ sheet'.baseline = sheet.baseline
          /\ sheet'.checked = sheet.checked /\ sheet'.built = Here
      BY <2>3 DEF SheetInv, Fields
    <3>2. CASE sheet.design = None \/ sheet.disturbed  BY <3>1, <3>2 DEF HandInv
    <3>3. CASE sheet.design # None /\ ~sheet.disturbed
      <4>1. Agreed /\ Based /\ contract = "application" /\ sheet.checked = Here.composition
        BY <2>1, <3>3 DEF HandInv, Verified
      <4>2. Here' = Here  BY <2>1, <3>1 DEF Here
      <4> QED  BY <2>1, <3>1, <4>1, <4>2 DEF HandInv, Agreed, Based
    <3> QED  BY <3>2, <3>3
  <2> QED  BY <1>9, <2>2, <2>3 DEF SheetBuilds
<1>10. CASE SheetRepairs /\ ~Stop
  <2>1. PICK plan : sheet' = [sheet EXCEPT !.at = "rewrite", !.plan = plan]  BY <1>10 DEF SheetRepairs
  <2>2. /\ sheet'.tree = sheet.tree /\ sheet'.design = sheet.design /\ sheet'.at = "rewrite"
        /\ sheet'.disturbed = sheet.disturbed /\ sheet'.baseline = sheet.baseline
        /\ sheet'.checked = sheet.checked
    BY <2>1 DEF SheetInv, Fields
  <2> QED  BY <1>2, <1>10, <2>2 DEF SheetRepairs, vars, Here, Verified
<1> QED  BY <1>1, <1>3, <1>4, <1>5, <1>6, <1>7, <1>8, <1>9, <1>10
\* What goes on beside the sheet.
LEMMA BesideHands ==
  ASSUME TypesOK, SheetInv, HandInv,
         \/ ClientGoesOn
         \/ \E t \in Trees, d \in Stated :
              ClientPlans(t, d) \/ ClientScaffolds(t, d) \/ ClientPasses(t, d)
         \/ \E t \in Trees, c \in {"empty", "application"} : ClientFills(t, c)
         \/ \E t \in Trees, part \in {"composition", "record", "build", "main"} : ClientRunsStep(t, part)
         \/ \E t \in Trees, text \in Contents : PersonWrites(t, text)
  PROVE  HandInv'
<1>1. sheet.at \in {"scaffolding", "scaffolded"} /\ sheet.design # None /\ ~sheet.disturbed => ~Message
  BY DEF HandInv, Writing, Message
<1>2. CASE ClientGoesOn
  <2>1. sheet.at \in {"scaffolding", "scaffolded"} => job' = job
    BY <1>2 DEF ClientGoesOn, VerifyAnswers
  <2> QED  BY <1>2, <2>1, BesideSpares DEF ClientGoesOn
<1>3. ASSUME NEW t \in Trees, NEW d \in Stated,
             ClientPlans(t, d) \/ ClientScaffolds(t, d) \/ ClientPasses(t, d)
      PROVE  HandInv'
  <2>1. CASE ClientPlans(t, d)
    BY <1>1, <2>1, BesideSpares DEF ClientPlans, PlanScaffold, PlanLibrary
  <2>2. CASE ClientScaffolds(t, d)
    BY <1>1, <2>2, BesideSpares DEF ClientScaffolds, Scaffold
  <2>3. CASE ClientPasses(t, d)
    BY <2>3, BesideSpares DEF ClientPasses, FinalizeManifest, VerifyReads
  <2> QED  BY <1>3, <2>1, <2>2, <2>3
<1>4. ASSUME NEW t \in Trees, NEW c \in {"empty", "application"}, ClientFills(t, c)
      PROVE  HandInv'
  BY <1>1, <1>4, BesideSpares DEF ClientFills, FillProject
<1>5. ASSUME NEW t \in Trees, NEW part \in {"composition", "record", "build", "main"},
             ClientRunsStep(t, part)
      PROVE  HandInv'
  BY <1>1, <1>5, BesideSpares DEF ClientRunsStep, WriteStep, HalContractStep
<1>6. ASSUME NEW t \in Trees, NEW text \in Contents, PersonWrites(t, text)
      PROVE  HandInv'
  BY <1>6, BesideSpares DEF PersonWrites, PersonEdits
<1> QED  BY <1>2, <1>3, <1>4, <1>5, <1>6

\* A creation begins with nothing to hand over.
LEMMA CreateHands ==
  ASSUME NEW t, NEW d, Create(t, d)
  PROVE  HandInv'
<1>1. \/ sheet' = [NoSheet EXCEPT !.at = "stopped"]
      \/ sheet' = [NoSheet EXCEPT !.at = "scaffold", !.tree = t, !.design = d]
  BY DEF Create
<1>2. sheet'.at \in {"stopped", "scaffold"}  BY <1>1 DEF NoSheet
<1> QED  BY <1>2 DEF HandInv

LEMMA HandNext == TypesOK /\ SheetInv /\ HandInv /\ [SheetNext]_sheetVars => HandInv'
<1> SUFFICES ASSUME TypesOK, SheetInv, HandInv, [SheetNext]_sheetVars PROVE HandInv'
  OBVIOUS
<1>1. CASE SheetScaffolds \/ CommitBaseline \/ ScaffoldGoesOn  BY <1>1, ScaffoldHands
<1>2. CASE SheetFills  BY <1>2, FillHands
<1>3. CASE RunStep  BY <1>3, StepHands
<1>4. CASE \/ FillAnswers \/ SendPlan \/ PlanDone \/ SheetVerifies \/ SheetVerified
           \/ SheetFinalizes \/ SheetBuilds \/ SheetRepairs
  BY <1>4, PassesHand
<1>5. CASE ProcessEnds  BY <1>5, StopSpares DEF ProcessEnds
<1>6. ASSUME NEW t \in Trees, NEW d \in Stated, Create(t, d) PROVE HandInv'
  BY <1>6, CreateHands
<1>7. CASE \/ ClientGoesOn
           \/ \E t \in Trees, d \in Stated :
                ClientPlans(t, d) \/ ClientScaffolds(t, d) \/ ClientPasses(t, d)
           \/ \E t \in Trees, c \in {"empty", "application"} : ClientFills(t, c)
           \/ \E t \in Trees, part \in {"composition", "record", "build", "main"} :
                ClientRunsStep(t, part)
           \/ \E t \in Trees, text \in Contents : PersonWrites(t, text)
  BY <1>7, BesideHands
<1>8. CASE UNCHANGED sheetVars
  <2>1. UNCHANGED <<sheet, disk, job, contract>>  BY <1>8 DEF sheetVars, vars
  <2> QED  BY <2>1 DEF HandInv, Writing, Past, Agreed, Based, Here
<1> QED  BY <1>1, <1>2, <1>3, <1>4, <1>5, <1>6, <1>7, <1>8 DEF SheetNext, SheetSteps

(* "rather than building, dismissing, and handing over an application       *)
(* nobody designed": what an undisturbed sheet closes over was built, states *)
(* the one design its sources were checked against, and can be gone back to *)
(* as it was before the fill.                                               *)
THEOREM DesignedIsHandedOver == SheetSpec => []HandedOver
<1>1. SheetInit => Init /\ SheetInv /\ HandInv
  BY DEF SheetInit, SheetInv, NoSheet, Fields, HandInv
<1>2. HandInv => HandedOver
  BY DEF HandInv, HandedOver, Agreed, Based, Verified
<1> QED
  BY <1>1, <1>2, SheetStep, HandNext, SheetImplements, TypesAlways, PTL DEF SheetSpec

(* Under the sheet and everything beside it, undisturbed trees state one    *)
(* design, a person's composition is kept and a decision is made once.      *)
THEOREM UnderTheSheet ==
  SheetSpec => []TreeStatesOneDesign /\ PersonsFileKept /\ OneDecisionPerDesign
BY SheetImplements, OneDesign, PersonsFile, DecisionOnce, PTL

-----------------------------------------------------------------------------
(***************************************************************************)
(* What holds between any two steps of a session and of a store.           *)
(***************************************************************************)
KeysApart(s) == Distinct(GraphOf[s].nodes, LAMBDA n : n.key)

\* What a key of a spec's graph is known by in the project's, and an edge there.
EndOf(s, key) ==
  <<(CHOOSE n \in Elements(GraphOf[s].nodes) : n.key = key).type,
    IF key = Root(s) THEN Key(Project) ELSE key>>
StoredEdge(s, e) == Edge(e.predicate, EndOf(s, e.from), EndOf(s, e.to))

Sessions ==
  [started : BOOLEAN, mode : {"freeform", "decided"}, text : Submissions \union {Absent},
   md : Specs \union {Absent, Garbage}, accepted : Nat, of : Submissions \union {Absent}, answered : BOOLEAN]
Sound(r) ==
  /\ r \in Sessions
  /\ r.mode = "decided" => r.md \notin {Absent, Garbage} /\ Valid(r.md)
  /\ r.of = r.text \/ ~r.answered

Job(j) ==
  /\ j = [spec |-> j.spec, at |-> j.at, ids |-> j.ids]
  /\ j.spec \in Specs /\ Valid(j.spec) /\ j.at \in Nat \ {0}

SessionsSound ==
  /\ Sound(session)
  /\ saved # Absent => Sound(saved) /\ saved.started /\ saved.accepted = 0
StoresSound ==
  /\ jobs = [w \in Writers |-> jobs[w]] /\ \A w \in Writers : jobs[w] = NoJob \/ Job(jobs[w])
  /\ stored = [nodes |-> stored.nodes, edges |-> stored.edges]
  /\ faults \in Nat /\ restarts \in Nat /\ mixed \in BOOLEAN

\* A session is saved as it is, but for the count of what was accepted.
SavedFollows == faults = 0 /\ session.started => saved = [session EXCEPT !.accepted = 0]

\* What is stored for a person is what the open session shows.
StoresOpenSession ==
  jobs["session"] # NoJob => Acceptable(session) /\ session.md = jobs["session"].spec

\* What a store has written before its place.
WrittenBefore(s, at, ids) ==
  LET g == GraphOf[s]
  IN  /\ at <= Len(g.nodes) + Len(g.edges) + 1
      /\ DOMAIN ids = {g.nodes[i].key : i \in {i \in DOMAIN g.nodes : i < at}}
      /\ \A i \in DOMAIN g.nodes : i < at =>
           Stored(g.nodes[i]) \in stored.nodes /\ ids[g.nodes[i].key] = Id(g.nodes[i])
      /\ \A i \in DOMAIN g.edges : Len(g.nodes) + i < at => StoredEdge(s, g.edges[i]) \in stored.edges

StoreGoesOn ==
  faults = 0 /\ ~mixed /\ jobs["session"] # NoJob /\ KeysApart(jobs["session"].spec) =>
    WrittenBefore(jobs["session"].spec, jobs["session"].at, jobs["session"].ids)

DecidedIsWhole ==
  faults = 0 /\ ~mixed =>
    \A r \in {session, saved} \ {Absent} : r.mode = "decided" /\ KeysApart(r.md) => InGraph(r.md)

DesignInv ==
  SessionsSound /\ StoresSound /\ SavedFollows /\ StoresOpenSession /\ StoreGoesOn /\ DecidedIsWhole

(* What storing a spec builds on: one anchor, no files, no loose edges.     *)
Placed(s) ==
  /\ IsGraph(GraphOf[s])
  /\ RootNode(s) \in Elements(GraphOf[s].nodes)
  /\ \A n \in Elements(GraphOf[s].nodes) : n = RootNode(s) \/ n.type \in SpecTypes
  /\ \A e \in Elements(GraphOf[s].edges) : e.from \in Keys(GraphOf[s]) /\ e.to \in Keys(GraphOf[s])

LEMMA SpecPlaced ==
  ASSUME NEW s \in Specs, Valid(s)
  PROVE  Placed(s)
  <1>1. IsAppSpec(s) /\ GraphOf[s] = Decompose(s)
    BY SpecsAreTyped DEF GraphOf
  <1>2. Holds(GraphOf[s], SpecNodes(s), SpecEdges(s))
    BY <1>1, DecomposeHolds
  <1>3. /\ IsGraph(GraphOf[s]) /\ Elements(GraphOf[s].nodes) = SpecNodes(s)
        /\ Elements(GraphOf[s].edges) = SpecEdges(s)
    BY <1>2 DEF Holds
  <1>4. Keys(GraphOf[s]) = SpecKeys(s)
    BY <1>3 DEF Keys, SpecKeys, KeysOf
  <1>5. Within(SpecEdges(s), SpecKeys(s))
    BY <1>1, SpecWithin
  <1>6. RootNode(s) \in SpecNodes(s)
    BY DEF SpecNodes, CoreNodes
  <1>7. \A n \in SpecNodes(s) : n = RootNode(s) \/ n.type \in SpecTypes
    BY <1>1, NodeTypes
  <1> QED BY <1>3, <1>4, <1>5, <1>6, <1>7 DEF Placed, Within

(* A node is stored under what its edges will look for.                     *)
LEMMA IdOfNode ==
  ASSUME NEW s, Placed(s), KeysApart(s), NEW n \in Elements(GraphOf[s].nodes)
  PROVE  /\ Id(n) = EndOf(s, n.key) /\ Id(Stored(n)) = Id(n)
         /\ Id(n)[1] \in SpecTypes \union {"appspec"}
         /\ \A m \in Elements(GraphOf[s].nodes) : Id(m) = Id(n) => m = n
  <1> DEFINE g == GraphOf[s]
             N == Elements(g.nodes)
  <1>1. \A a, b \in N : a.key = b.key => a = b
    <2>1. \A i, j \in DOMAIN g.nodes : g.nodes[i].key = g.nodes[j].key => i = j
      BY DEF KeysApart, Distinct
    <2> QED BY <2>1 DEF Elements, ToSet
  <1>2. /\ RootNode(s).type = "appspec" /\ RootNode(s).key = Root(s)
        /\ Stored(RootNode(s)) = Node("appspec", Key(Project), 0, NoProps)
    BY DEF RootNode, Node, Stored
  <1>3. RootNode(s) \in N /\ \A m \in N : m = RootNode(s) \/ m.type \in SpecTypes
    BY DEF Placed
  <1>4. "appspec" \notin SpecTypes
    BY DEF SpecTypes
  <1>5. \A m \in N : /\ (m = RootNode(s) <=> m.key = Root(s))
                     /\ m # RootNode(s) => m.type \in SpecTypes /\ Stored(m) = m
    BY <1>1, <1>2, <1>3, <1>4 DEF Stored
  <1>6. \A m \in N : Id(m) = <<m.type, IF m.key = Root(s) THEN Key(Project) ELSE m.key>>
    <2> TAKE m \in N
    <2>1. CASE m = RootNode(s)
      <3>1. Stored(m).key = Key(Project)
        BY <1>2, <2>1, NodeFields
      <3> QED BY <1>2, <2>1, <3>1 DEF Id
    <2>2. CASE m # RootNode(s)
      BY <1>5, <2>2 DEF Id
    <2> QED BY <2>1, <2>2
  <1>7. \A m \in N : (CHOOSE x \in N : x.key = m.key) = m
    BY <1>1
  <1>8. Id(n) = EndOf(s, n.key)
    BY <1>6, <1>7 DEF EndOf
  <1>9. Id(n)[1] \in SpecTypes \union {"appspec"}
    BY <1>2, <1>3, <1>6
  <1>10. Id(Stored(n)) = Id(n)
    <2>1. CASE n = RootNode(s)
      <3> DEFINE a == Node("appspec", Key(Project), 0, NoProps)
      <3>1. a.type = "appspec" /\ Stored(a).key = Key(Project)
        BY DEF Node, Stored
      <3>2. Id(a) = <<"appspec", Key(Project)>>
        BY <3>1 DEF Id
      <3> QED BY <1>2, <1>6, <2>1, <3>2
    <2>2. CASE n # RootNode(s)
      BY <1>5, <2>2
    <2> QED BY <2>1, <2>2
  <1>11. ASSUME NEW m \in N, Id(m) = Id(n) PROVE m = n
    <2>1. m.type = n.type /\ (IF m.key = Root(s) THEN Key(Project) ELSE m.key)
                               = (IF n.key = Root(s) THEN Key(Project) ELSE n.key)
      <3> DEFINE k(x) == IF x.key = Root(s) THEN Key(Project) ELSE x.key
      <3>1. Id(m) = <<m.type, k(m)>> /\ Id(n) = <<n.type, k(n)>>
        BY <1>6
      <3> HIDE DEF k
      <3>2. <<m.type, k(m)>> = <<n.type, k(n)>>
        BY <1>11, <3>1
      <3>3. m.type = n.type /\ k(m) = k(n)
        BY <3>2
      <3> QED BY <3>3 DEF k
    <2>2. m = RootNode(s) <=> n = RootNode(s)
      BY <1>2, <1>3, <1>4, <2>1
    <2>3. m.key = n.key
      BY <1>5, <2>1, <2>2
    <2> QED BY <1>1, <2>3
  <1> QED BY <1>8, <1>9, <1>10, <1>11

(***************************************************************************)
(* What a step leaves of a spec in the graph.                              *)
(***************************************************************************)
Keeps(s) ==
  /\ \A n \in Elements(GraphOf[s].nodes) : Stored(n) \in stored.nodes => Stored(n) \in stored'.nodes
  /\ \A e \in Elements(GraphOf[s].edges) : StoredEdge(s, e) \in stored.edges => StoredEdge(s, e) \in stored'.edges

LEMMA AllEdges ==
  ASSUME NEW s
  PROVE  InGraph(s) <=> /\ \A n \in Elements(GraphOf[s].nodes) : Stored(n) \in stored.nodes
                        /\ \A e \in Elements(GraphOf[s].edges) : StoredEdge(s, e) \in stored.edges
  BY DEF InGraph, StoredEdge, EndOf

LEMMA KeepsWhole ==
  ASSUME NEW s, Keeps(s), InGraph(s)
  PROVE  InGraph(s)'
  <1>1. /\ \A n \in Elements(GraphOf[s].nodes) : Stored(n) \in stored.nodes
        /\ \A e \in Elements(GraphOf[s].edges) : StoredEdge(s, e) \in stored.edges
    BY AllEdges
  <1>2. /\ \A n \in Elements(GraphOf[s].nodes) : Stored(n) \in stored'.nodes
        /\ \A e \in Elements(GraphOf[s].edges) : StoredEdge(s, e) \in stored'.edges
    BY <1>1 DEF Keeps
  <1> QED BY <1>2 DEF InGraph, StoredEdge, EndOf

LEMMA KeepsWritten ==
  ASSUME NEW s, Keeps(s), NEW at, NEW ids, WrittenBefore(s, at, ids)
  PROVE  WrittenBefore(s, at, ids)'
  <1>1. \A i \in DOMAIN GraphOf[s].nodes : GraphOf[s].nodes[i] \in Elements(GraphOf[s].nodes)
    BY DEF Elements, ToSet
  <1>2. \A i \in DOMAIN GraphOf[s].edges : GraphOf[s].edges[i] \in Elements(GraphOf[s].edges)
    BY DEF Elements, ToSet
  <1> QED BY <1>1, <1>2 DEF WrittenBefore, Keeps

LEMMA SameKeeps ==
  ASSUME NEW s, stored' = stored \/ (stored'.nodes = stored.nodes /\ stored.edges \subseteq stored'.edges)
  PROVE  Keeps(s)
  BY DEF Keeps

(* Merging a file's node, which is of no type a spec's node is of.          *)
LEMMA FileKeeps ==
  ASSUME NEW s, Placed(s), KeysApart(s), stored' = Merged(Artifact)
  PROVE  Keeps(s)
  <1> DEFINE f == Artifact
  <1>1. Id(f)[1] \notin SpecTypes \union {"appspec"}
    BY DEF Artifact, Node, Id, SpecTypes
  <1> HIDE DEF f
  <1>2. /\ stored'.nodes = {m \in stored.nodes : Id(m) # Id(f)} \union {Stored(f)}
        /\ stored'.edges = IF detaches THEN {e \in stored.edges : Id(f) \notin {e.from, e.to}} ELSE stored.edges
    BY DEF Merged, f
  <1>3. ASSUME NEW n \in Elements(GraphOf[s].nodes), Stored(n) \in stored.nodes PROVE Stored(n) \in stored'.nodes
    <2>1. Id(Stored(n)) # Id(f)
      BY <1>1, IdOfNode
    <2> QED BY <1>2, <1>3, <2>1
  <1>4. ASSUME NEW key \in Keys(GraphOf[s]) PROVE EndOf(s, key) # Id(f)
    <2>1. PICK n \in Elements(GraphOf[s].nodes) : n.key = key
      BY DEF Keys
    <2> QED BY <1>1, <2>1, IdOfNode
  <1>5. ASSUME NEW e \in Elements(GraphOf[s].edges), StoredEdge(s, e) \in stored.edges
        PROVE  StoredEdge(s, e) \in stored'.edges
    <2>1. e.from \in Keys(GraphOf[s]) /\ e.to \in Keys(GraphOf[s])
      BY DEF Placed
    <2>2. StoredEdge(s, e).from # Id(f) /\ StoredEdge(s, e).to # Id(f)
      BY <1>4, <2>1, EdgeFields DEF StoredEdge
    <2> QED BY <1>2, <1>5, <2>2
  <1> QED BY <1>3, <1>5 DEF Keeps

LEMMA LinkKeeps ==
  ASSUME NEW s, NEW e, stored = [nodes |-> stored.nodes, edges |-> stored.edges],
         stored' = [stored EXCEPT !.edges = @ \union {e}]
  PROVE  Keeps(s)
  <1>1. stored'.nodes = stored.nodes /\ stored'.edges = stored.edges \union {e}
    OBVIOUS
  <1> QED BY <1>1, SameKeeps

LEMMA GraphLists ==
  ASSUME NEW s, Placed(s)
  PROVE  LET g == GraphOf[s]
         IN  /\ Len(g.nodes) \in Nat /\ DOMAIN g.nodes = 1..Len(g.nodes)
             /\ Len(g.edges) \in Nat /\ DOMAIN g.edges = 1..Len(g.edges)
             /\ \A i \in DOMAIN g.nodes : g.nodes[i] \in Elements(g.nodes)
             /\ \A i \in DOMAIN g.edges : g.edges[i] \in Elements(g.edges)
             /\ \A n \in Elements(g.nodes) : \E i \in DOMAIN g.nodes : g.nodes[i] = n
             /\ \A e \in Elements(g.edges) : \E i \in DOMAIN g.edges : g.edges[i] = e
  BY ListProperties DEF Placed, IsGraph

(* One more node is merged.                                                 *)
LEMMA MergeWrites ==
  ASSUME NEW s, Placed(s), KeysApart(s), NEW at \in Nat \ {0}, at \in DOMAIN GraphOf[s].nodes,
         NEW ids, WrittenBefore(s, at, ids), stored' = Merged(GraphOf[s].nodes[at])
  PROVE  WrittenBefore(s, at + 1, WithId(ids, GraphOf[s].nodes[at]))'
  <1> DEFINE g == GraphOf[s]
             n == g.nodes[at]
             more == WithId(ids, n)
  <1>0. /\ Len(g.nodes) \in Nat /\ DOMAIN g.nodes = 1..Len(g.nodes)
        /\ Len(g.edges) \in Nat /\ DOMAIN g.edges = 1..Len(g.edges)
        /\ \A i \in DOMAIN g.nodes : g.nodes[i] \in Elements(g.nodes)
    BY GraphLists
  <1>1. /\ DOMAIN ids = {g.nodes[i].key : i \in {i \in DOMAIN g.nodes : i < at}}
        /\ \A i \in DOMAIN g.nodes : i < at =>
             Stored(g.nodes[i]) \in stored.nodes /\ ids[g.nodes[i].key] = Id(g.nodes[i])
    BY DEF WrittenBefore
  <1>2. \A i, j \in DOMAIN g.nodes : g.nodes[i].key = g.nodes[j].key => i = j
    BY DEF KeysApart, Distinct
  <1>3. stored'.nodes = {m \in stored.nodes : Id(m) # Id(n)} \union {Stored(n)}
    BY DEF Merged
  <1>4. ASSUME NEW i \in DOMAIN g.nodes, i < at PROVE Id(Stored(g.nodes[i])) # Id(n)
    <2>1. g.nodes[i].key # n.key
      BY <1>0, <1>2, <1>4
    <2>2. /\ Id(Stored(g.nodes[i])) = Id(g.nodes[i])
          /\ Id(g.nodes[i]) = Id(n) => g.nodes[i] = n
      BY <1>0, IdOfNode
    <2> QED BY <2>1, <2>2
  <1>5. DOMAIN more = DOMAIN ids \union {n.key}
        /\ \A key \in DOMAIN more : more[key] = IF key = n.key THEN Id(n) ELSE ids[key]
    BY DEF WithId
  <1>6. at + 1 <= Len(g.nodes) + Len(g.edges) + 1
    <2> DEFINE p == Len(g.nodes)
               q == Len(g.edges)
    <2>1. p \in Nat /\ q \in Nat /\ at \in 1..p
      BY <1>0
    <2> HIDE DEF p, q
    <2>2. at + 1 <= p + q + 1
      BY <2>1
    <2> QED BY <2>2 DEF p, q
  <1> HIDE DEF g, n, more
  <1>7. \A i \in DOMAIN g.nodes : i < at + 1 <=> i < at \/ i = at
    BY <1>0
  <1>8. DOMAIN more = {g.nodes[i].key : i \in {i \in DOMAIN g.nodes : i < at + 1}}
    BY <1>1, <1>5, <1>7 DEF n, g
  <1>9. ASSUME NEW i \in DOMAIN g.nodes, i < at + 1
        PROVE  Stored(g.nodes[i]) \in stored'.nodes /\ more[g.nodes[i].key] = Id(g.nodes[i])
    <2>1. CASE i < at
      <3>1. Stored(g.nodes[i]) \in stored.nodes /\ ids[g.nodes[i].key] = Id(g.nodes[i])
        BY <1>1, <2>1
      <3>2. Stored(g.nodes[i]) \in stored'.nodes
        BY <1>3, <1>4, <2>1, <3>1
      <3>3. g.nodes[i].key # n.key
        BY <1>0, <1>2, <2>1 DEF n, g
      <3>4. g.nodes[i].key \in DOMAIN more
        BY <1>1, <1>5, <2>1
      <3> QED BY <1>5, <3>1, <3>2, <3>3, <3>4
    <2>2. CASE i = at
      BY <1>3, <1>5, <2>2 DEF n
    <2> QED BY <1>7, <1>9, <2>1, <2>2
  <1>10. \A i \in DOMAIN g.edges : ~(Len(g.nodes) + i < at + 1)
    BY <1>0 DEF g
  <1> QED BY <1>6, <1>8, <1>9, <1>10 DEF WrittenBefore, g, n, more

(* One more edge is created: its ends are there.                            *)
LEMMA CreateWrites ==
  ASSUME NEW s, Placed(s), KeysApart(s), NEW at \in Nat \ {0}, at - Len(GraphOf[s].nodes) \in DOMAIN GraphOf[s].edges,
         NEW ids, WrittenBefore(s, at, ids), stored = [nodes |-> stored.nodes, edges |-> stored.edges]
  PROVE  LET e == GraphOf[s].edges[at - Len(GraphOf[s].nodes)]
         IN  /\ {e.from, e.to} \subseteq DOMAIN ids
             /\ stored' = [stored EXCEPT !.edges = @ \union {Edge(e.predicate, ids[e.from], ids[e.to])}]
                  => WrittenBefore(s, at + 1, ids)'
  <1> DEFINE g == GraphOf[s]
             k == at - Len(g.nodes)
             e == g.edges[k]
  <1>0. /\ Len(g.nodes) \in Nat /\ DOMAIN g.nodes = 1..Len(g.nodes)
        /\ Len(g.edges) \in Nat /\ DOMAIN g.edges = 1..Len(g.edges)
        /\ e \in Elements(g.edges)
        /\ \A n \in Elements(g.nodes) : \E i \in DOMAIN g.nodes : g.nodes[i] = n
    BY GraphLists
  <1>1. /\ DOMAIN ids = {g.nodes[i].key : i \in {i \in DOMAIN g.nodes : i < at}}
        /\ \A i \in DOMAIN g.nodes : i < at =>
             Stored(g.nodes[i]) \in stored.nodes /\ ids[g.nodes[i].key] = Id(g.nodes[i])
        /\ \A i \in DOMAIN g.edges : Len(g.nodes) + i < at => StoredEdge(s, g.edges[i]) \in stored.edges
    BY DEF WrittenBefore
  <1>2. \A i \in DOMAIN g.nodes : i < at /\ i < at + 1
    BY <1>0
  <1>3. k \in DOMAIN g.edges /\ at = Len(g.nodes) + k /\ at + 1 <= Len(g.nodes) + Len(g.edges) + 1
        /\ \A i \in DOMAIN g.edges : Len(g.nodes) + i < at + 1 <=> Len(g.nodes) + i < at \/ i = k
    <2> DEFINE p == Len(g.nodes)
               q == Len(g.edges)
    <2>1. p \in Nat /\ q \in Nat /\ k \in 1..q /\ k = at - p /\ DOMAIN g.edges = 1..q
      BY <1>0
    <2> HIDE DEF p, q, k
    <2>2. at = p + k /\ at + 1 <= p + q + 1 /\ \A i \in 1..q : p + i < at + 1 <=> p + i < at \/ i = k
      BY <2>1
    <2> QED BY <2>1, <2>2 DEF p, q
  <1> HIDE DEF k
  <1>4. ASSUME NEW key \in Keys(g) PROVE key \in DOMAIN ids /\ ids[key] = EndOf(s, key)
    <2>1. PICK n \in Elements(g.nodes) : n.key = key
      BY DEF Keys
    <2>2. PICK i \in DOMAIN g.nodes : g.nodes[i] = n
      BY <1>0, <2>1
    <2>3. Id(n) = EndOf(s, n.key)
      BY IdOfNode
    <2> QED BY <1>1, <1>2, <2>1, <2>2, <2>3
  <1>5. e.from \in Keys(g) /\ e.to \in Keys(g)
    BY <1>0 DEF Placed
  <1>6. Edge(e.predicate, ids[e.from], ids[e.to]) = StoredEdge(s, e)
    BY <1>4, <1>5 DEF StoredEdge
  <1> HIDE DEF e, g
  <1>7. ASSUME stored' = [stored EXCEPT !.edges = @ \union {StoredEdge(s, e)}]
        PROVE  WrittenBefore(s, at + 1, ids)'
    <2>1. stored'.nodes = stored.nodes /\ stored'.edges = stored.edges \union {StoredEdge(s, e)}
      BY <1>7
    <2>2. DOMAIN ids = {g.nodes[i].key : i \in {i \in DOMAIN g.nodes : i < at + 1}}
      BY <1>1, <1>2
    <2>3. \A i \in DOMAIN g.nodes : Stored(g.nodes[i]) \in stored'.nodes /\ ids[g.nodes[i].key] = Id(g.nodes[i])
      BY <1>1, <1>2, <2>1
    <2>4. \A i \in DOMAIN g.edges : Len(g.nodes) + i < at + 1 => StoredEdge(s, g.edges[i]) \in stored'.edges
      BY <1>1, <1>3, <2>1 DEF e
    <2> QED BY <1>3, <2>2, <2>3, <2>4 DEF WrittenBefore, g
  <1>8. {e.from, e.to} \subseteq DOMAIN ids
    BY <1>4, <1>5
  <1> QED BY <1>6, <1>7, <1>8 DEF e, g, k

LEMMA AllWritten ==
  ASSUME NEW s, Placed(s), NEW at \in Nat, NEW ids, WrittenBefore(s, at, ids),
         at > Len(GraphOf[s].nodes) + Len(GraphOf[s].edges)
  PROVE  InGraph(s)
  <1> DEFINE g == GraphOf[s]
  <1>0. /\ Len(g.nodes) \in Nat /\ DOMAIN g.nodes = 1..Len(g.nodes)
        /\ Len(g.edges) \in Nat /\ DOMAIN g.edges = 1..Len(g.edges)
        /\ \A n \in Elements(g.nodes) : \E i \in DOMAIN g.nodes : g.nodes[i] = n
        /\ \A e \in Elements(g.edges) : \E i \in DOMAIN g.edges : g.edges[i] = e
    BY GraphLists
  <1>1. /\ \A i \in DOMAIN g.nodes : i < at => Stored(g.nodes[i]) \in stored.nodes
        /\ \A i \in DOMAIN g.edges : Len(g.nodes) + i < at => StoredEdge(s, g.edges[i]) \in stored.edges
    BY DEF WrittenBefore
  <1>2. /\ \A i \in DOMAIN g.nodes : i < at
        /\ \A i \in DOMAIN g.edges : Len(g.nodes) + i < at
    <2> DEFINE p == Len(g.nodes)
               q == Len(g.edges)
    <2>1. p \in Nat /\ q \in Nat /\ DOMAIN g.nodes = 1..p /\ DOMAIN g.edges = 1..q /\ at > p + q
      BY <1>0
    <2> HIDE DEF p, q
    <2>2. (\A i \in 1..p : i < at) /\ (\A i \in 1..q : p + i < at)
      BY <2>1
    <2> QED BY <2>1, <2>2 DEF p, q
  <1> HIDE DEF g
  <1>3. /\ \A i \in DOMAIN g.nodes : Stored(g.nodes[i]) \in stored.nodes
        /\ \A i \in DOMAIN g.edges : StoredEdge(s, g.edges[i]) \in stored.edges
    BY <1>1, <1>2
  <1>4. /\ \A n \in Elements(g.nodes) : Stored(n) \in stored.nodes
        /\ \A e \in Elements(g.edges) : StoredEdge(s, e) \in stored.edges
    BY <1>0, <1>3
  <1> QED BY <1>4, AllEdges DEF g

(***************************************************************************)
(* The steps.                                                              *)
(***************************************************************************)
LEMMA FaultCounts ==
  ASSUME faults \in Nat, Fault
  PROVE  faults' \in Nat /\ faults' # 0
  BY DEF Fault

(* A session record with another count, or open again.                      *)
LEMMA SessionFields ==
  ASSUME NEW r \in Sessions
  PROVE  /\ [r EXCEPT !.accepted = 0] \in Sessions
         /\ [r EXCEPT !.accepted = 0].accepted = 0
         /\ \A f \in {"started", "mode", "text", "md", "of", "answered"} : [r EXCEPT !.accepted = 0][f] = r[f]
         /\ r.started \in BOOLEAN /\ r.mode \in {"freeform", "decided"} /\ r.accepted \in Nat
         /\ r.md \in Specs \union {Absent, Garbage}
  BY DEF Sessions

LEMMA SoundSaved ==
  ASSUME NEW r, Sound(r)
  PROVE  LET k == [r EXCEPT !.accepted = 0]
         IN  Sound(k) /\ k.started = r.started /\ k.accepted = 0 /\ k.mode = r.mode /\ k.md = r.md
  <1> DEFINE k == [r EXCEPT !.accepted = 0]
  <1>1. r \in Sessions
    BY DEF Sound
  <1>2. k \in Sessions /\ k.accepted = 0 /\ k.started = r.started /\ k.mode = r.mode /\ k.md = r.md
        /\ k.text = r.text /\ k.of = r.of /\ k.answered = r.answered
    BY <1>1 DEF Sessions
  <1> HIDE DEF k
  <1>3. Sound(k)
    BY <1>2 DEF Sound
  <1> QED BY <1>2, <1>3 DEF k

LEMMA DecidedPlaced ==
  ASSUME NEW r, Sound(r), r.mode = "decided"
  PROVE  r.md \in Specs /\ Placed(r.md)
  <1>1. r.md \in Specs /\ Valid(r.md)
    BY DEF Sound, Sessions
  <1> QED BY <1>1, SpecPlaced

LEMMA FreshSession ==
  LET r == [NoSession EXCEPT !.started = TRUE]
  IN  Sound(r) /\ r.started /\ r.mode = "freeform"
  <1> DEFINE q == NoSession
             r == [q EXCEPT !.started = TRUE]
  <1>1. q \in Sessions /\ q.mode = "freeform" /\ q.of = q.text
    BY DEF NoSession, Sessions
  <1> HIDE DEF q
  <1>2. r \in Sessions /\ r.mode = "freeform" /\ r.started /\ r.of = r.text
    BY <1>1 DEF Sessions
  <1> HIDE DEF r
  <1>3. Sound(r)
    BY <1>2 DEF Sound
  <1> QED BY <1>2, <1>3 DEF r, q

(* A step of the session while nothing is stored for it: what is decided    *)
(* after it was decided before it.                                          *)
LEMMA SessionStep ==
  ASSUME DesignInv, Ready, UNCHANGED <<stored, jobs, mixed, restarts>>,
         faults' \in Nat, faults' = 0 => faults = 0,
         SessionsSound', SavedFollows',
         session' \in {session, saved} \/ session'.mode = "freeform",
         saved' = saved \/ saved'.mode = "freeform" \/ saved' = Absent
  PROVE  DesignInv'
  <1>0. stored' = stored /\ jobs' = jobs /\ mixed' = mixed /\ restarts' = restarts
    OBVIOUS
  <1>1. StoresSound'
    BY <1>0 DEF DesignInv, StoresSound
  <1>2. StoresOpenSession' /\ StoreGoesOn'
    BY <1>0 DEF Ready, StoresOpenSession, StoreGoesOn
  <1>3. DecidedIsWhole'
    <2> SUFFICES ASSUME faults' = 0, ~mixed', NEW r \in {session', saved'} \ {Absent}, r.mode = "decided", KeysApart(r.md)
                 PROVE  InGraph(r.md)'
      BY DEF DecidedIsWhole, KeysApart, Distinct
    <2>1. r \in {session, saved} \ {Absent}
      <3>1. CASE r = session'
        BY <3>1
      <3>2. CASE r = saved'
        BY <3>2
      <3> QED BY <3>1, <3>2
    <2>2. InGraph(r.md)
      BY <2>1 DEF DesignInv, DecidedIsWhole
    <2>3. Keeps(r.md)
      BY <1>0, SameKeeps
    <2> QED BY <2>2, <2>3, KeepsWhole
  <1> QED BY <1>1, <1>2, <1>3 DEF DesignInv

(* Whether the write went well or not, what is saved is sound and follows.  *)
LEMMA Persisted ==
  ASSUME SessionsSound, faults \in Nat, Sound(session'), session'.started, Persist(session')
  PROVE  /\ faults' \in Nat /\ (faults' = 0 => faults = 0)
         /\ SessionsSound' /\ SavedFollows'
         /\ saved' = saved \/ saved'.mode = session'.mode
  <1> DEFINE k == [session' EXCEPT !.accepted = 0]
  <1>1. Sound(k) /\ k.started /\ k.accepted = 0 /\ k.mode = session'.mode
    BY SoundSaved
  <1>2. CASE Fine /\ saved' = k
    <2>1. faults' = faults
      BY <1>2 DEF Fine
    <2> QED BY <1>1, <1>2, <2>1 DEF SessionsSound, SavedFollows
  <1>3. CASE Fault /\ saved' = saved
    <2>1. faults' \in Nat /\ faults' # 0
      BY <1>3, FaultCounts
    <2> QED BY <1>3, <2>1 DEF SessionsSound, SavedFollows
  <1> QED BY <1>2, <1>3 DEF Persist

LEMMA StartKeeps ==
  ASSUME DesignInv, NEW reset \in BOOLEAN, Start(reset)
  PROVE  DesignInv'
  <1> DEFINE fresh == [NoSession EXCEPT !.started = TRUE]
  <1>0. Ready /\ UNCHANGED <<stored, jobs, mixed, restarts>>
    BY DEF Start
  <1>1. SessionsSound /\ SavedFollows /\ faults \in Nat
    BY DEF DesignInv, StoresSound
  <1>2. Sound(fresh) /\ fresh.started /\ fresh.mode = "freeform"
    BY FreshSession
  <1>3. CASE saved # Absent /\ Fine /\ session' = saved /\ saved' = saved
    <2>1. faults' = faults
      BY <1>3 DEF Fine
    <2>2. Sound(saved) /\ saved.started /\ saved.accepted = 0
      BY <1>1, <1>3 DEF SessionsSound
    <2>3. [saved EXCEPT !.accepted = 0] = saved
      BY <2>2 DEF Sound, Sessions
    <2>4. SessionsSound' /\ SavedFollows'
      BY <1>3, <2>2, <2>3 DEF SessionsSound, SavedFollows
    <2> QED BY <1>0, <1>1, <1>3, <2>1, <2>4, SessionStep
  <1>4. CASE session' = fresh /\ Persist(session')
    <2>1. Sound(session') /\ session'.started /\ session'.mode = "freeform"
      BY <1>2, <1>4
    <2> HIDE DEF fresh
    <2>2. /\ faults' \in Nat /\ (faults' = 0 => faults = 0)
          /\ SessionsSound' /\ SavedFollows'
          /\ saved' = saved \/ saved'.mode = session'.mode
      BY <1>1, <1>4, <2>1, Persisted
    <2> QED BY <1>0, <2>1, <2>2, SessionStep
  <1>5. CASE Fault /\ session' = fresh /\ saved' = [session' EXCEPT !.accepted = 0]
    <2>1. faults' \in Nat /\ faults' # 0
      BY <1>1, <1>5, FaultCounts
    <2>2. Sound(session') /\ session'.started /\ session'.mode = "freeform"
      BY <1>2, <1>5
    <2> HIDE DEF fresh
    <2>3. Sound(saved') /\ saved'.started /\ saved'.accepted = 0 /\ saved'.mode = "freeform"
      BY <1>5, <2>2, SoundSaved
    <2>4. SessionsSound' /\ SavedFollows'
      BY <2>1, <2>2, <2>3 DEF SessionsSound, SavedFollows
    <2> QED BY <1>0, <2>1, <2>2, <2>3, <2>4, SessionStep
  <1> QED BY <1>3, <1>4, <1>5 DEF Start

LEMMA ReopenKeeps ==
  ASSUME DesignInv, Reopen
  PROVE  DesignInv'
  <1>0. Ready /\ UNCHANGED <<stored, jobs, mixed, restarts>> /\ session.started
        /\ session' = [session EXCEPT !.mode = "freeform"] /\ Persist(session')
    BY DEF Reopen
  <1>1. SessionsSound /\ faults \in Nat /\ Sound(session)
    BY DEF DesignInv, StoresSound, SessionsSound
  <1>2. Sound(session') /\ session'.started /\ session'.mode = "freeform"
    <2> DEFINE r == [session EXCEPT !.mode = "freeform"]
    <2>1. r \in Sessions /\ r.mode = "freeform" /\ r.started /\ r.of = session.of /\ r.text = session.text
          /\ r.answered = session.answered
      BY <1>0, <1>1 DEF Sound, Sessions
    <2>2. session' = r
      BY <1>0
    <2> HIDE DEF r
    <2>3. Sound(r)
      BY <1>1, <2>1 DEF Sound
    <2> QED BY <2>1, <2>2, <2>3
  <1>3. /\ faults' \in Nat /\ (faults' = 0 => faults = 0)
        /\ SessionsSound' /\ SavedFollows'
        /\ saved' = saved \/ saved'.mode = session'.mode
    BY <1>0, <1>1, <1>2, Persisted
  <1> QED BY <1>0, <1>2, <1>3, SessionStep

LEMMA ConvertKeeps ==
  ASSUME DesignInv, NEW text \in Submissions, Convert(text)
  PROVE  DesignInv'
  <1> DEFINE open == Converting(text)
  <1>0. Ready /\ UNCHANGED <<stored, jobs, mixed, restarts>> /\ session.started
    BY DEF Convert
  <1>1. SessionsSound /\ faults \in Nat /\ session \in Sessions
    BY DEF DesignInv, StoresSound, SessionsSound, Sound
  <1>2. open \in Sessions /\ open.started /\ open.mode = "freeform" /\ ~open.answered /\ open.text = text
    BY <1>0, <1>1 DEF Converting, Sessions
  <1> HIDE DEF open
  <1>3. ASSUME NEW md \in Answers[text] \union {Garbage},
               session' = [open EXCEPT !.md = md, !.of = text, !.answered = TRUE], Persist(session')
        PROVE  DesignInv'
    <2> DEFINE r == [open EXCEPT !.md = md, !.of = text, !.answered = TRUE]
    <2>1. md \in Specs \union {Absent, Garbage}
      BY DEF Specs
    <2>2. r \in Sessions /\ r.mode = "freeform" /\ r.started /\ r.of = text /\ r.text = text
      BY <1>2, <2>1 DEF Sessions
    <2>3. session' = r
      BY <1>3
    <2> HIDE DEF r
    <2>4. Sound(r)
      BY <2>2 DEF Sound
    <2>5. Sound(session') /\ session'.started /\ session'.mode = "freeform"
      BY <2>2, <2>3, <2>4
    <2>6. /\ faults' \in Nat /\ (faults' = 0 => faults = 0)
          /\ SessionsSound' /\ SavedFollows'
          /\ saved' = saved \/ saved'.mode = session'.mode
      BY <1>1, <1>3, <2>5, Persisted
    <2> QED BY <1>0, <2>5, <2>6, SessionStep
  <1>4. ASSUME Fault, session' = open, saved' = saved PROVE DesignInv'
    <2>1. faults' \in Nat /\ faults' # 0
      BY <1>1, <1>4, FaultCounts
    <2>2. Sound(open)
      BY <1>2 DEF Sound
    <2>3. SessionsSound' /\ SavedFollows' /\ session'.mode = "freeform"
      BY <1>1, <1>2, <1>4, <2>1, <2>2 DEF SessionsSound, SavedFollows
    <2> QED BY <1>0, <1>4, <2>1, <2>3, SessionStep
  <1> QED BY <1>3, <1>4 DEF Convert, open

(* A step that leaves the session and its store alone.                      *)
LEMMA GraphStep ==
  ASSUME DesignInv, UNCHANGED <<session, saved>>, jobs'["session"] = jobs["session"],
         StoresSound', faults' = 0 => faults = 0, ~mixed' => ~mixed,
         faults' = 0 /\ ~mixed' => \A s \in Specs : Placed(s) /\ KeysApart(s) => Keeps(s)
  PROVE  DesignInv'
  <1>0. session' = session /\ saved' = saved
    OBVIOUS
  <1>1. SessionsSound' /\ SavedFollows' /\ StoresOpenSession'
    BY <1>0 DEF DesignInv, SessionsSound, SavedFollows, StoresOpenSession
  <1>2. StoreGoesOn'
    <2> DEFINE j == jobs["session"]
    <2> SUFFICES ASSUME faults' = 0, ~mixed', j # NoJob, KeysApart(j.spec)
                 PROVE  WrittenBefore(j.spec, j.at, j.ids)'
      BY DEF StoreGoesOn, KeysApart, Distinct
    <2>1. WrittenBefore(j.spec, j.at, j.ids)
      BY DEF DesignInv, StoreGoesOn
    <2>2. j.spec \in Specs /\ Placed(j.spec)
      <3>1. Job(j)
        BY DEF DesignInv, StoresSound, Writers
      <3> QED BY <3>1, SpecPlaced DEF Job
    <2>3. Keeps(j.spec)
      BY <2>2
    <2>4. ASSUME NEW s, NEW at, NEW ids, s = j.spec, at = j.at, ids = j.ids PROVE WrittenBefore(s, at, ids)'
      BY <2>1, <2>3, <2>4, KeepsWritten
    <2> QED BY <2>4
  <1>3. DecidedIsWhole'
    <2> SUFFICES ASSUME faults' = 0, ~mixed', NEW r \in {session', saved'} \ {Absent}, r.mode = "decided", KeysApart(r.md)
                 PROVE  InGraph(r.md)'
      BY DEF DecidedIsWhole, KeysApart, Distinct
    <2>1. r \in {session, saved} \ {Absent}
      BY <1>0
    <2>2. Sound(r)
      BY <2>1 DEF DesignInv, SessionsSound
    <2>3. InGraph(r.md)
      BY <2>1 DEF DesignInv, DecidedIsWhole
    <2>4. Keeps(r.md)
      BY <2>2, DecidedPlaced
    <2> QED BY <2>3, <2>4, KeepsWhole
  <1> QED BY <1>1, <1>2, <1>3 DEF DesignInv

LEMMA NewJob ==
  ASSUME NEW s \in Specs, Valid(s)
  PROVE  LET j == [spec |-> s, at |-> 1, ids |-> <<>>]
         IN  Job(j) /\ j # NoJob /\ j.spec = s /\ j.at = 1 /\ j.ids = <<>>
  BY DEF Job, NoJob

\* The jobs after one of them is replaced.
LEMMA JobReplaced ==
  ASSUME StoresSound, NEW w \in Writers, NEW j, j = NoJob \/ Job(j), jobs' = [jobs EXCEPT ![w] = j],
         stored' = [nodes |-> stored'.nodes, edges |-> stored'.edges],
         faults' \in Nat, restarts' \in Nat, mixed' \in BOOLEAN
  PROVE  /\ StoresSound' /\ jobs'[w] = j
         /\ \A v \in Writers : v # w => jobs'[v] = jobs[v]
  <1>1. jobs = [v \in Writers |-> jobs[v]] /\ \A v \in Writers : jobs[v] = NoJob \/ Job(jobs[v])
    BY DEF StoresSound
  <1>2. jobs'[w] = j /\ \A v \in Writers : v # w => jobs'[v] = jobs[v]
    BY <1>1
  <1>3. jobs' = [v \in Writers |-> jobs'[v]]
    BY <1>1
  <1>4. \A v \in Writers : jobs'[v] = NoJob \/ Job(jobs'[v])
    BY <1>1, <1>2
  <1> QED BY <1>2, <1>3, <1>4 DEF StoresSound, Job

LEMMA GenerateSpecKeeps ==
  ASSUME DesignInv, GenerateSpec
  PROVE  DesignInv'
  <1>1. PICK s \in Emitted : BeginStore("creator", s)
    BY DEF GenerateSpec
  <1>2. s \in Specs /\ Valid(s)
    BY DEF Emitted, ValidNamed, Specs
  <1>3. session' = session /\ saved' = saved /\ stored' = stored /\ faults' = faults
        /\ restarts' = restarts /\ mixed' = mixed
    BY DEF GenerateSpec
  <1> DEFINE j == [spec |-> s, at |-> 1, ids |-> <<>>]
  <1>4. Job(j)
    BY <1>2, NewJob
  <1>5. jobs' = [jobs EXCEPT !["creator"] = j]
    BY <1>1 DEF BeginStore
  <1> HIDE DEF j
  <1>6. StoresSound /\ "creator" \in Writers /\ "session" \in Writers
    BY DEF DesignInv, Writers
  <1>7. StoresSound' /\ jobs'["session"] = jobs["session"]
    BY <1>3, <1>4, <1>5, <1>6, JobReplaced DEF StoresSound
  <1>8. \A x : Keeps(x)
    BY <1>3, SameKeeps
  <1> QED BY <1>3, <1>7, <1>8, GraphStep

LEMMA GeneratedKeeps ==
  ASSUME DesignInv, Generated
  PROVE  DesignInv'
  <1>3. session' = session /\ saved' = saved /\ stored' = stored /\ faults' = faults
        /\ restarts' = restarts /\ mixed' = mixed /\ jobs' = [jobs EXCEPT !["creator"] = NoJob]
    BY DEF Generated
  <1>6. StoresSound /\ "creator" \in Writers /\ "session" \in Writers
    BY DEF DesignInv, Writers
  <1>7. StoresSound' /\ jobs'["session"] = jobs["session"]
    BY <1>3, <1>6, JobReplaced DEF StoresSound
  <1>8. \A x : Keeps(x)
    BY <1>3, SameKeeps
  <1> QED BY <1>3, <1>7, <1>8, GraphStep

(* The generators' own writes.                                              *)
LEMMA CodeSound ==
  ASSUME StoresSound, UNCHANGED <<jobs, restarts, mixed>>, Fine \/ Fault,
         stored' = [nodes |-> stored'.nodes, edges |-> stored'.edges]
  PROVE  /\ StoresSound' /\ jobs'["session"] = jobs["session"] /\ mixed' = mixed
         /\ faults' = 0 => Fine
  <1>1. jobs' = jobs /\ restarts' = restarts /\ mixed' = mixed
    OBVIOUS
  <1>2. faults \in Nat
    BY DEF StoresSound
  <1>3. faults' \in Nat /\ (faults' = 0 => Fine)
    BY <1>2, FaultCounts DEF Fine
  <1> QED BY <1>1, <1>3 DEF StoresSound

LEMMA GenerateCodeKeeps ==
  ASSUME DesignInv, GenerateCode
  PROVE  DesignInv'
  <1>1. session' = session /\ saved' = saved /\ stored' = stored /\ UNCHANGED <<jobs, restarts, mixed>>
        /\ (Fine \/ Fault)
    BY DEF GenerateCode
  <1>2. StoresSound /\ stored' = [nodes |-> stored'.nodes, edges |-> stored'.edges]
    BY <1>1 DEF DesignInv, StoresSound
  <1>3. StoresSound' /\ jobs'["session"] = jobs["session"] /\ mixed' = mixed /\ (faults' = 0 => faults = 0)
    BY <1>1, <1>2, CodeSound DEF Fine
  <1>4. \A x : Keeps(x)
    BY <1>1, SameKeeps
  <1> QED BY <1>1, <1>3, <1>4, GraphStep

LEMMA StoreFileKeeps ==
  ASSUME DesignInv, StoreFile
  PROVE  DesignInv'
  <1>1. session' = session /\ saved' = saved /\ UNCHANGED <<jobs, restarts, mixed>>
        /\ ((Fine /\ stored' = Merged(Artifact)) \/ (Fault /\ stored' = stored))
    BY DEF StoreFile
  <1>2. StoresSound /\ stored' = [nodes |-> stored'.nodes, edges |-> stored'.edges]
    BY <1>1 DEF DesignInv, StoresSound, Merged
  <1>3. StoresSound' /\ jobs'["session"] = jobs["session"] /\ mixed' = mixed /\ (faults' = 0 => Fine)
    BY <1>1, <1>2, CodeSound
  <1>4. ASSUME NEW s \in Specs, Placed(s), KeysApart(s) PROVE Keeps(s)
    BY <1>1, <1>4, FileKeeps, SameKeeps
  <1> QED BY <1>1, <1>3, <1>4, GraphStep DEF Fine

LEMMA LinkFileKeeps ==
  ASSUME DesignInv, LinkFile
  PROVE  DesignInv'
  <1> DEFINE e == Edge("GENERATED_FROM", Id(Artifact), Anchor)
  <1>1. session' = session /\ saved' = saved /\ UNCHANGED <<jobs, restarts, mixed>>
        /\ ((Fine /\ stored' = [stored EXCEPT !.edges = @ \union {e}]) \/ (Fault /\ stored' = stored))
    BY DEF LinkFile
  <1> HIDE DEF e
  <1>2. StoresSound /\ stored = [nodes |-> stored.nodes, edges |-> stored.edges]
    BY DEF DesignInv, StoresSound
  <1>3. stored' = [nodes |-> stored'.nodes, edges |-> stored'.edges]
    BY <1>1, <1>2
  <1>4. StoresSound' /\ jobs'["session"] = jobs["session"] /\ mixed' = mixed /\ (faults' = 0 => Fine)
    BY <1>1, <1>2, <1>3, CodeSound
  <1>5. \A s : Keeps(s)
    BY <1>1, <1>2, LinkKeeps, SameKeeps
  <1> QED BY <1>1, <1>4, <1>5, GraphStep DEF Fine

LEMMA AcceptKeeps ==
  ASSUME DesignInv, Accept
  PROVE  DesignInv'
  <1> DEFINE s == session.md
             j == [spec |-> s, at |-> 1, ids |-> <<>>]
  <1>1. session' = session /\ saved' = saved /\ stored' = stored /\ faults' = faults
        /\ restarts' = restarts /\ mixed' = mixed
    BY DEF Accept
  <1>2. Acceptable(session) /\ s \in Specs /\ Valid(s)
    <2>1. Acceptable(session) /\ session \in Sessions
      BY DEF Accept, DesignInv, SessionsSound, Sound
    <2> QED BY <2>1 DEF Acceptable, Sessions
  <1>3. jobs' = [jobs EXCEPT !["session"] = j]
    BY DEF Accept, BeginStore
  <1> HIDE DEF s
  <1>4. Job(j) /\ j # NoJob /\ j.spec = s /\ j.at = 1 /\ j.ids = <<>>
    BY <1>2, NewJob
  <1> HIDE DEF j
  <1>5. StoresSound /\ SessionsSound /\ "session" \in Writers
    BY DEF DesignInv, Writers
  <1>6. StoresSound' /\ jobs'["session"] = j
    BY <1>1, <1>3, <1>4, <1>5, JobReplaced DEF StoresSound
  <1>7. SessionsSound' /\ SavedFollows'
    BY <1>1 DEF DesignInv, SessionsSound, SavedFollows
  <1>8. StoresOpenSession'
    BY <1>1, <1>2, <1>4, <1>6 DEF StoresOpenSession, Acceptable, s
  <1>9. StoreGoesOn'
    <2>1. Placed(s)
      BY <1>2, SpecPlaced
    <2>2. ASSUME NEW x, NEW at, NEW ids, x = s, at = 1, ids = <<>> PROVE WrittenBefore(x, at, ids)'
      <3> DEFINE g == GraphOf[x]
                 p == Len(g.nodes)
                 q == Len(g.edges)
      <3>1. p \in Nat /\ q \in Nat /\ DOMAIN g.nodes = 1..p /\ DOMAIN g.edges = 1..q
        BY <2>1, <2>2, GraphLists
      <3>2. /\ at <= p + q + 1 /\ \A i \in DOMAIN g.nodes : ~(i < at)
            /\ \A i \in DOMAIN g.edges : ~(p + i < at)
        <4> HIDE DEF p, q, g
        <4> QED BY <2>2, <3>1
      <3>3. DOMAIN ids = {}
        BY <2>2
      <3> HIDE DEF g
      <3>4. DOMAIN ids = {g.nodes[i].key : i \in {i \in DOMAIN g.nodes : i < at}}
        BY <3>2, <3>3
      <3> QED BY <3>2, <3>4 DEF WrittenBefore, g
    <2>4. ASSUME NEW k, k = jobs'["session"] PROVE WrittenBefore(k.spec, k.at, k.ids)'
      BY <1>4, <1>6, <2>2, <2>4
    <2> QED BY <2>4 DEF StoreGoesOn
  <1>10. DecidedIsWhole'
    <2> SUFFICES ASSUME faults' = 0, ~mixed', NEW r \in {session', saved'} \ {Absent}, r.mode = "decided", KeysApart(r.md)
                 PROVE  InGraph(r.md)'
      BY DEF DecidedIsWhole, KeysApart, Distinct
    <2>1. InGraph(r.md)
      BY <1>1 DEF DesignInv, DecidedIsWhole
    <2>2. Keeps(r.md)
      BY <1>1, SameKeeps
    <2> QED BY <2>1, <2>2, KeepsWhole
  <1> QED BY <1>6, <1>7, <1>8, <1>9, <1>10 DEF DesignInv

LEMMA DecideKeeps ==
  ASSUME DesignInv, Decide
  PROVE  DesignInv'
  <1> DEFINE j == jobs["session"]
             r == [session EXCEPT !.mode = "decided", !.accepted = @ + 1]
  <1>1. stored' = stored /\ restarts' = restarts /\ mixed' = mixed /\ session' = r /\ Persist(session')
        /\ jobs' = [jobs EXCEPT !["session"] = NoJob]
    BY DEF Decide
  <1>2. j # NoJob /\ j.at > Len(GraphOf[j.spec].nodes) + Len(GraphOf[j.spec].edges)
    BY DEF Decide, Written, Nodes, Edges
  <1>3. StoresSound /\ SessionsSound /\ "session" \in Writers /\ Sound(session)
    BY DEF DesignInv, Writers, SessionsSound
  <1>4. Job(j) /\ Acceptable(session) /\ session.md = j.spec
    BY <1>2, <1>3 DEF DesignInv, StoresSound, StoresOpenSession
  <1>5. j.spec \in Specs /\ Valid(j.spec) /\ Placed(j.spec) /\ j.at \in Nat
    BY <1>4, SpecPlaced DEF Job
  <1>6. r.mode = "decided" /\ r.md = session.md /\ r.started /\ Sound(r)
    <2>0. session \in Sessions /\ session.started
      BY <1>3, <1>4 DEF Sound, Acceptable
    <2>1. r \in Sessions /\ r.mode = "decided" /\ r.md = session.md /\ r.started /\ r.of = session.of
          /\ r.text = session.text /\ r.answered = session.answered
      <3> DEFINE n == session.accepted + 1
                 o == [session EXCEPT !.mode = "decided", !.accepted = n]
      <3>1. n \in Nat
        BY <2>0 DEF Sessions
      <3>2. r = o
        OBVIOUS
      <3> HIDE DEF n, r
      <3>3. o \in Sessions /\ o.mode = "decided" /\ o.md = session.md /\ o.started
            /\ o.of = session.of /\ o.text = session.text /\ o.answered = session.answered
        BY <2>0, <3>1 DEF Sessions
      <3> QED BY <3>2, <3>3
    <2>2. session.md \notin {Absent, Garbage}
      BY <1>4 DEF Acceptable
    <2> HIDE DEF r
    <2> QED BY <1>3, <1>4, <1>5, <2>1, <2>2 DEF Sound
  <1> HIDE DEF r, j
  <1>7. /\ faults' \in Nat /\ (faults' = 0 => faults = 0)
        /\ SessionsSound' /\ SavedFollows'
        /\ saved' = saved \/ saved'.mode = session'.mode
    <2>1. Sound(session') /\ session'.started /\ faults \in Nat
      BY <1>1, <1>3, <1>6 DEF StoresSound
    <2> QED BY <1>1, <1>3, <2>1, Persisted
  <1>8. StoresSound' /\ jobs'["session"] = NoJob
    BY <1>1, <1>3, <1>7, JobReplaced DEF StoresSound
  <1>9. StoresOpenSession' /\ StoreGoesOn'
    BY <1>8 DEF StoresOpenSession, StoreGoesOn
  <1>10. DecidedIsWhole'
    <2> SUFFICES ASSUME faults' = 0, ~mixed', NEW x \in {session', saved'} \ {Absent}, x.mode = "decided", KeysApart(x.md)
                 PROVE  InGraph(x.md)'
      BY DEF DecidedIsWhole, KeysApart, Distinct
    <2>1. faults = 0 /\ ~mixed
      BY <1>1, <1>7
    <2>2. saved' = [session' EXCEPT !.accepted = 0] /\ session' \in Sessions
      BY <1>1, <1>6, <1>7 DEF SavedFollows, Sound
    <2>3. session'.md = session.md /\ saved'.md = session.md
      <3>1. [session' EXCEPT !.accepted = 0].md = session'.md
        BY <2>2 DEF Sessions
      <3> QED BY <1>1, <1>6, <2>2, <3>1
    <2>4. x.md = j.spec
      BY <1>4, <2>3
    <2>5. WrittenBefore(j.spec, j.at, j.ids)
      BY <1>2, <2>1, <2>4 DEF DesignInv, StoreGoesOn, j
    <2>6. InGraph(j.spec)
      BY <1>2, <1>5, <2>5, AllWritten
    <2>7. InGraph(x.md)
      BY <2>4, <2>6
    <2>8. Keeps(x.md)
      BY <1>1, SameKeeps
    <2> QED BY <2>7, <2>8, KeepsWhole
  <1> QED BY <1>7, <1>8, <1>9, <1>10 DEF DesignInv

LEMMA RelaunchKeeps ==
  ASSUME DesignInv, Relaunch
  PROVE  DesignInv'
  <1>1. session' = NoSession /\ saved' = saved /\ stored' = stored /\ faults' = faults /\ mixed' = mixed
        /\ restarts' = restarts + 1 /\ jobs' = [w \in Writers |-> NoJob]
    BY DEF Relaunch
  <1>2. StoresSound'
    BY <1>1 DEF DesignInv, StoresSound
  <1>3. Sound(NoSession) /\ ~NoSession.started /\ NoSession.mode = "freeform"
    <2> DEFINE q == NoSession
    <2>1. q \in Sessions /\ q.mode = "freeform" /\ q.of = q.text /\ ~q.started
      BY DEF NoSession, Sessions
    <2> HIDE DEF q
    <2>2. Sound(q)
      BY <2>1 DEF Sound
    <2> QED BY <2>1, <2>2 DEF q
  <1>4. SessionsSound' /\ SavedFollows'
    BY <1>1, <1>3 DEF DesignInv, SessionsSound, SavedFollows
  <1>5. StoresOpenSession' /\ StoreGoesOn'
    <2>1. jobs'["session"] = NoJob
      BY <1>1 DEF Writers
    <2> QED BY <2>1 DEF StoresOpenSession, StoreGoesOn
  <1>6. DecidedIsWhole'
    <2> SUFFICES ASSUME faults' = 0, ~mixed', NEW r \in {session', saved'} \ {Absent}, r.mode = "decided", KeysApart(r.md)
                 PROVE  InGraph(r.md)'
      BY DEF DecidedIsWhole, KeysApart, Distinct
    <2>1. r = saved
      BY <1>1, <1>3
    <2>2. InGraph(r.md)
      BY <1>1, <2>1 DEF DesignInv, DecidedIsWhole
    <2>3. Keeps(r.md)
      BY <1>1, SameKeeps
    <2> QED BY <2>2, <2>3, KeepsWhole
  <1> QED BY <1>2, <1>4, <1>5, <1>6 DEF DesignInv

(* A write of a store: it succeeds, or it is counted as a fault.            *)
LEMMA WriteSound ==
  ASSUME StoresSound, NEW w \in Writers, Job(jobs[w]), NEW at \in Nat \ {0}, NEW ids,
         jobs' = [jobs EXCEPT ![w] = [spec |-> jobs[w].spec, at |-> at, ids |-> ids]],
         stored' = [nodes |-> stored'.nodes, edges |-> stored'.edges],
         Fine \/ Fault, restarts' = restarts, mixed' \in BOOLEAN
  PROVE  /\ StoresSound' /\ jobs'[w] = [spec |-> jobs[w].spec, at |-> at, ids |-> ids]
         /\ \A v \in Writers : v # w => jobs'[v] = jobs[v]
         /\ faults' = 0 => Fine
  <1> DEFINE j == [spec |-> jobs[w].spec, at |-> at, ids |-> ids]
  <1>1. Job(j)
    BY DEF Job
  <1>2. faults \in Nat /\ restarts \in Nat
    BY DEF StoresSound
  <1>3. faults' \in Nat /\ (faults' = 0 => Fine) /\ restarts' \in Nat
    BY <1>2, FaultCounts DEF Fine
  <1> HIDE DEF j
  <1>4. jobs' = [jobs EXCEPT ![w] = j]
    BY DEF j
  <1>5. StoresSound' /\ jobs'[w] = j /\ \A v \in Writers : v # w => jobs'[v] = jobs[v]
    BY <1>1, <1>3, <1>4, JobReplaced
  <1> QED BY <1>3, <1>5 DEF j

\* What a write of a store does to it, and to the graph.
Wrote(w, s, at, ids) ==
  /\ at \in Nat \ {0}
  /\ jobs' = [jobs EXCEPT ![w] = [spec |-> s, at |-> at, ids |-> ids]]
  /\ stored' = [nodes |-> stored'.nodes, edges |-> stored'.edges]
  /\ Fine \/ Fault
  /\ Fine /\ KeysApart(s) /\ WrittenBefore(s, jobs[w].at, jobs[w].ids) => WrittenBefore(s, at, ids)'

LEMMA MergeStep ==
  ASSUME StoresSound, NEW w \in Writers, NEW s \in Specs, Placed(s), NEW a \in Nat \ {0}, NEW i,
         jobs[w] = [spec |-> s, at |-> a, ids |-> i], MergeNode(w)
  PROVE  \E at, ids : Wrote(w, s, at, ids)
  <1> DEFINE g == GraphOf[s]
             n == g.nodes[a]
  <1>1. jobs[w].spec = s /\ jobs[w].at = a /\ jobs[w].ids = i
    OBVIOUS
  <1>2. Nodes(w) = g.nodes /\ Edges(w) = g.edges
    BY <1>1 DEF Nodes, Edges
  <1>3. a \in DOMAIN g.nodes
    BY <1>1, <1>2 DEF MergeNode
  <1>4. stored = [nodes |-> stored.nodes, edges |-> stored.edges]
    BY DEF StoresSound
  <1>5. CASE Fine /\ stored' = Merged(n) /\ Advance(w, a + 1, WithId(i, n))
    <2> DEFINE at == a + 1
               ids == WithId(i, n)
    <2>1. jobs' = [jobs EXCEPT ![w] = [spec |-> s, at |-> at, ids |-> ids]]
      BY <1>1, <1>5 DEF Advance
    <2>2. stored' = [nodes |-> stored'.nodes, edges |-> stored'.edges]
      BY <1>5 DEF Merged
    <2>3. KeysApart(s) /\ WrittenBefore(s, a, i) => WrittenBefore(s, at, ids)'
      BY <1>3, <1>5, MergeWrites
    <2>4. at \in Nat \ {0}
      OBVIOUS
    <2> HIDE DEF at, ids
    <2> QED BY <1>1, <1>5, <2>1, <2>2, <2>3, <2>4 DEF Wrote
  <1>6. ASSUME NEW at \in Nat \ {0}, Fault, stored' = stored, Advance(w, at, i)
        PROVE  \E x, ids : Wrote(w, s, x, ids)
    <2>1. jobs' = [jobs EXCEPT ![w] = [spec |-> s, at |-> at, ids |-> i]]
      BY <1>1, <1>6 DEF Advance
    <2>2. ~Fine
      BY <1>6, FaultCounts DEF Fault, Fine, StoresSound
    <2> QED BY <1>4, <1>6, <2>1, <2>2 DEF Wrote
  <1>7. CASE Fault /\ stored' = stored
             /\ Advance(w, IF n.type = "appspec" THEN Len(g.nodes) + Len(g.edges) + 1 ELSE a + 1, i)
    <2> DEFINE at == IF n.type = "appspec" THEN Len(g.nodes) + Len(g.edges) + 1 ELSE a + 1
    <2>1. at \in Nat \ {0}
      <3> DEFINE p == Len(g.nodes)
                 q == Len(g.edges)
      <3>1. p \in Nat /\ q \in Nat
        BY GraphLists
      <3> HIDE DEF p, q
      <3>2. p + q + 1 \in Nat \ {0} /\ a + 1 \in Nat \ {0}
        BY <3>1
      <3> QED BY <3>2 DEF p, q
    <2>2. Advance(w, at, i)
      BY <1>7
    <2> HIDE DEF at
    <2> QED BY <1>6, <1>7, <2>1, <2>2
  <1> HIDE DEF g, n
  <1> QED BY <1>1, <1>2, <1>5, <1>7 DEF MergeNode, n, g

LEMMA CreateStep ==
  ASSUME StoresSound, NEW w \in Writers, NEW s \in Specs, Placed(s), NEW a \in Nat \ {0}, NEW i,
         jobs[w] = [spec |-> s, at |-> a, ids |-> i], CreateEdge(w)
  PROVE  \E at, ids : Wrote(w, s, at, ids)
  <1> DEFINE g == GraphOf[s]
             k == a - Len(g.nodes)
             e == g.edges[k]
             at == a + 1
             more == [stored EXCEPT !.edges = @ \union {Edge(e.predicate, i[e.from], i[e.to])}]
  <1>1. jobs[w].spec = s /\ jobs[w].at = a /\ jobs[w].ids = i
    OBVIOUS
  <1>2. Nodes(w) = g.nodes /\ Edges(w) = g.edges
    BY <1>1 DEF Nodes, Edges
  <1>3. k \in DOMAIN g.edges /\ Advance(w, at, i)
    BY <1>1, <1>2 DEF CreateEdge
  <1>4. stored = [nodes |-> stored.nodes, edges |-> stored.edges]
    BY DEF StoresSound
  <1>5. jobs' = [jobs EXCEPT ![w] = [spec |-> s, at |-> at, ids |-> i]]
    BY <1>1, <1>3 DEF Advance
  <1>6. IF {e.from, e.to} \subseteq DOMAIN i
        THEN (Fine /\ stored' = more) \/ (Fault /\ stored' = stored)
        ELSE Fine /\ stored' = stored
    BY <1>1, <1>2 DEF CreateEdge
  <1>7. KeysApart(s) /\ WrittenBefore(s, a, i) =>
          {e.from, e.to} \subseteq DOMAIN i /\ (stored' = more => WrittenBefore(s, at, i)')
    BY <1>3, <1>4, CreateWrites
  <1>8. stored' = [nodes |-> stored'.nodes, edges |-> stored'.edges]
    <2>1. stored' = more \/ stored' = stored
      BY <1>6
    <2>2. more = [nodes |-> more.nodes, edges |-> more.edges]
      <3> DEFINE x == {Edge(e.predicate, i[e.from], i[e.to])}
      <3> HIDE DEF x
      <3>1. \A q : q = [nodes |-> q.nodes, edges |-> q.edges]
                   => [q EXCEPT !.edges = @ \union x] = [nodes |-> q.nodes, edges |-> q.edges \union x]
        OBVIOUS
      <3>2. [stored EXCEPT !.edges = @ \union x] = [nodes |-> stored.nodes, edges |-> stored.edges \union x]
        BY <1>4, <3>1
      <3> QED BY <3>2 DEF x
    <2> QED BY <1>4, <2>1, <2>2
  <1>9. ~(Fine /\ Fault)
    BY FaultCounts DEF Fault, Fine, StoresSound
  <1>10. at \in Nat \ {0}
    OBVIOUS
  <1> HIDE DEF at, e, more
  <1>11. Fine /\ KeysApart(s) /\ WrittenBefore(s, a, i) => WrittenBefore(s, at, i)'
    BY <1>6, <1>7, <1>9
  <1> QED BY <1>1, <1>5, <1>6, <1>8, <1>10, <1>11 DEF Wrote

LEMMA StoreKeeps ==
  ASSUME DesignInv, NEW w \in Writers, Store(w)
  PROVE  DesignInv'
  <1>1. /\ jobs[w] # NoJob /\ (MergeNode(w) \/ CreateEdge(w))
        /\ mixed' = (mixed \/ w = "creator")
        /\ session' = session /\ saved' = saved /\ restarts' = restarts
    BY DEF Store
  <1>2. StoresSound /\ Job(jobs[w])
    BY <1>1 DEF DesignInv, StoresSound
  <1>3. PICK s, a, i : jobs[w] = [spec |-> s, at |-> a, ids |-> i]
    BY <1>2 DEF Job
  <1>4. jobs[w].spec = s /\ jobs[w].at = a /\ jobs[w].ids = i
    BY <1>3
  <1>5. s \in Specs /\ Placed(s) /\ a \in Nat \ {0}
    BY <1>2, <1>4, SpecPlaced DEF Job
  <1>6. PICK at, ids : Wrote(w, s, at, ids)
    BY <1>1, <1>2, <1>3, <1>5, MergeStep, CreateStep
  <1>7. mixed' \in BOOLEAN
    BY <1>1, <1>2 DEF StoresSound
  <1> DEFINE j == [spec |-> s, at |-> at, ids |-> ids]
  <1>8. /\ StoresSound' /\ jobs'[w] = j
        /\ \A v \in Writers : v # w => jobs'[v] = jobs[v]
        /\ faults' = 0 => Fine
    BY <1>1, <1>2, <1>4, <1>6, <1>7, WriteSound DEF Wrote
  <1>9. CASE w = "creator"
    <2>1. mixed' /\ jobs'["session"] = jobs["session"]
      BY <1>1, <1>8, <1>9 DEF Writers
    <2> QED BY <1>1, <1>8, <2>1, GraphStep DEF Fine
  <1>10. CASE w = "session"
    <2>1. SessionsSound' /\ SavedFollows'
      BY <1>1, <1>8 DEF DesignInv, SessionsSound, SavedFollows, Fine
    <2>2. Acceptable(session) /\ session.md = s
      BY <1>1, <1>4, <1>10 DEF DesignInv, StoresOpenSession
    <2>3. StoresOpenSession'
      BY <1>1, <1>8, <1>10, <2>2 DEF StoresOpenSession, Acceptable
    <2>4. StoreGoesOn'
      <3> SUFFICES ASSUME faults' = 0, ~mixed', KeysApart(s) PROVE WrittenBefore(s, at, ids)'
        <4>1. ASSUME NEW k, k = jobs'["session"], faults' = 0, ~mixed', KeysApart(k.spec)
              PROVE  WrittenBefore(k.spec, k.at, k.ids)'
          BY <1>8, <1>10, <4>1
        <4> QED BY <4>1 DEF StoreGoesOn, KeysApart, Distinct
      <3>1. Fine /\ faults = 0 /\ ~mixed
        BY <1>1, <1>8 DEF Fine
      <3>2. WrittenBefore(s, a, i)
        BY <1>1, <1>4, <1>10, <3>1 DEF DesignInv, StoreGoesOn
      <3> QED BY <1>4, <1>6, <3>1, <3>2 DEF Wrote
    <2>5. DecidedIsWhole'
      <3> SUFFICES ASSUME faults' = 0, NEW r \in {session', saved'}, r.mode = "decided" PROVE FALSE
        BY DEF DecidedIsWhole
      <3>1. saved = [session EXCEPT !.accepted = 0] /\ session.mode = "freeform" /\ session \in Sessions
        BY <1>8, <2>2 DEF DesignInv, SavedFollows, SessionsSound, Sound, Acceptable, Fine
      <3>2. saved.mode = "freeform"
        BY <3>1 DEF Sessions
      <3> QED BY <1>1, <3>1, <3>2
    <2> QED BY <1>8, <2>1, <2>3, <2>4, <2>5 DEF DesignInv
  <1> QED BY <1>9, <1>10 DEF Writers

LEMMA DesignStutters ==
  ASSUME DesignInv, UNCHANGED designVars
  PROVE  DesignInv'
  <1>1. /\ session' = session /\ saved' = saved /\ stored' = stored /\ jobs' = jobs
        /\ faults' = faults /\ restarts' = restarts /\ mixed' = mixed
    BY DEF designVars
  <1>2. StoresSound'
    BY <1>1 DEF DesignInv, StoresSound
  <1>3. \A x : Keeps(x)
    BY <1>1, SameKeeps
  <1> QED BY <1>1, <1>2, <1>3, GraphStep

LEMMA DesignStarts ==
  ASSUME DesignInit
  PROVE  DesignInv
  <1>1. Sound(NoSession) /\ ~NoSession.started /\ NoSession.mode = "freeform"
    <2> DEFINE q == NoSession
    <2>1. q \in Sessions /\ q.mode = "freeform" /\ q.of = q.text /\ ~q.started
      BY DEF NoSession, Sessions
    <2> HIDE DEF q
    <2>2. Sound(q)
      BY <2>1 DEF Sound
    <2> QED BY <2>1, <2>2 DEF q
  <1>2. session = NoSession /\ saved = Absent /\ jobs = [w \in Writers |-> NoJob] /\ jobs["session"] = NoJob
    BY DEF DesignInit, Writers
  <1>3. StoresSound
    BY <1>2 DEF DesignInit, StoresSound
  <1>4. SessionsSound /\ SavedFollows /\ StoresOpenSession /\ StoreGoesOn /\ DecidedIsWhole
    BY <1>1, <1>2 DEF SessionsSound, SavedFollows, StoresOpenSession, StoreGoesOn, DecidedIsWhole
  <1> QED BY <1>3, <1>4 DEF DesignInv

(* In every reachable state the session and the store agree: what is        *)
(* decided was whole when it was decided, and no later step but the other   *)
(* writer's, or one that fails, takes anything of it away (spec_design.rs). *)
THEOREM DesignHolds == DesignSpec => []DesignInv
  <1>1. DesignInit => DesignInv
    BY DesignStarts
  <1>2. DesignInv /\ [DesignNext]_designVars => DesignInv'
    <2> SUFFICES ASSUME DesignInv, [DesignNext]_designVars PROVE DesignInv'
      OBVIOUS
    <2>1. ASSUME NEW reset \in BOOLEAN, Start(reset) PROVE DesignInv'
      BY <2>1, StartKeeps
    <2>2. ASSUME NEW text \in Submissions, Convert(text) PROVE DesignInv'
      BY <2>2, ConvertKeeps
    <2>3. ASSUME NEW w \in Writers, Store(w) PROVE DesignInv'
      BY <2>3, StoreKeeps
    <2> QED BY <2>1, <2>2, <2>3, AcceptKeeps, DecideKeeps, ReopenKeeps, GenerateSpecKeeps, GeneratedKeeps,
               GenerateCodeKeeps, StoreFileKeeps, LinkFileKeeps, RelaunchKeeps, DesignStutters DEF DesignNext
  <1> QED BY <1>1, <1>2, PTL DEF DesignSpec

(* A session that says decided, in memory or as a later launch will find    *)
(* it, holds a valid spec, of the text it shows unless the last conversion  *)
(* got no answer, and where nothing failed and the requirements pass wrote  *)
(* nothing the project's graph holds all of that spec (spec_design.rs).     *)
THEOREM DecidedSessionIsStored == DesignSpec => []DecidedIsStored
  <1>1. DesignInv => DecidedIsStored
    <2> SUFFICES ASSUME DesignInv, NEW r \in {session, saved} \ {Absent}, r.mode = "decided"
                 PROVE  /\ r.md \notin {Absent, Garbage} /\ Valid(r.md)
                        /\ r.of = r.text \/ ~r.answered
                        /\ faults = 0 /\ ~mixed /\ KeysApart(r.md) => InGraph(r.md)
      BY DEF DecidedIsStored, KeysApart, Distinct
    <2>1. Sound(r)
      BY DEF DesignInv, SessionsSound
    <2>2. faults = 0 /\ ~mixed /\ KeysApart(r.md) => InGraph(r.md)
      BY DEF DesignInv, DecidedIsWhole
    <2> QED BY <2>1, <2>2 DEF Sound
  <1> QED BY <1>1, DesignHolds, PTL

(* When a store begins, by a person's accept or by the requirements pass,   *)
(* its spec obeys the rules; and when its names are apart and can be spelt  *)
(* in a type, the graph it is made into gives it back: reconstruct rebuilds *)
(* the very spec, and the generators read its types, methods and screens    *)
(* as they are and send every method to the one actor that handles it       *)
(* (spec_graph.rs, spec_codegen.rs).                                        *)
THEOREM StoredSpecComesBack == DesignSpec => []StoredSpecRoundTrips
  <1>1. DesignInv => StoredSpecRoundTrips
    <2> SUFFICES ASSUME DesignInv, NEW w \in Writers, jobs[w].at = 1
                 PROVE  LET s == jobs[w].spec
                            g == GraphOf[s]
                        IN  /\ Valid(s)
                            /\ Apart(s) /\ Spelt(s) =>
                                /\ Reconstruct(g) = {s}
                                /\ Codegen(g) = {[types |-> s.types, dispatch |-> Dispatch(g),
                                                  bridge |-> s.bridge, screens |-> s.ui]}
                                /\ Routed(Dispatch(g)) = Handled(s)
      BY DEF StoredSpecRoundTrips
    <2> DEFINE s == jobs[w].spec
    <2>1. jobs[w] # NoJob
      BY DEF NoJob
    <2>2. s \in Specs /\ Valid(s)
      BY <2>1 DEF DesignInv, StoresSound, Job
    <2>3. IsAppSpec(s) /\ GraphOf[s] = Decompose(s)
      BY <2>2, SpecsAreTyped DEF GraphOf
    <2> HIDE DEF s
    <2>4. ASSUME Apart(s), Spelt(s)
          PROVE  /\ Reconstruct(Decompose(s)) = {s}
                 /\ Codegen(Decompose(s)) = {[types |-> s.types, dispatch |-> Dispatch(Decompose(s)),
                                              bridge |-> s.bridge, screens |-> s.ui]}
                 /\ Routed(Dispatch(Decompose(s))) = Handled(s)
      <3>1. Once(s)
        BY <2>2, <2>3, <2>4, NamesOnce
      <3>2. HandlerRule(s)
        BY <2>2 DEF Valid
      <3>3. Reconstruct(Decompose(s)) = {s}
        BY <2>3, <2>4, <3>1, Reconstructed
      <3>4. Codegen(Decompose(s)) = {[types |-> s.types, dispatch |-> Dispatch(Decompose(s)),
                                      bridge |-> s.bridge, screens |-> s.ui]}
        BY <2>3, <2>4, <3>1, CodegenReads
      <3>5. Routed(Dispatch(Decompose(s))) = Handled(s)
        BY <2>3, <3>1, <3>2, DispatchHandles
      <3> QED BY <3>3, <3>4, <3>5
    <2>5. /\ Valid(s)
          /\ Apart(s) /\ Spelt(s) =>
              /\ Reconstruct(GraphOf[s]) = {s}
              /\ Codegen(GraphOf[s]) = {[types |-> s.types, dispatch |-> Dispatch(GraphOf[s]),
                                         bridge |-> s.bridge, screens |-> s.ui]}
              /\ Routed(Dispatch(GraphOf[s])) = Handled(s)
      BY <2>2, <2>3, <2>4
    <2> QED BY <2>5 DEF s
  <1> QED BY <1>1, DesignHolds, PTL
=============================================================================
