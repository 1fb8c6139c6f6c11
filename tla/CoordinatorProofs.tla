-------------------------- MODULE CoordinatorProofs --------------------------
(***************************************************************************)
(* What holds of the requests a coordinator answers, for any directories,  *)
(* build systems, scopes, intents and words, and any number of requests;   *)
(* of the library of components its tools write, for any names, any designs*)
(* and any outcome of the writes; of the search for a cycle in a design;   *)
(* of the graph a design is stored as, and of reading it back; and of the  *)
(* run of a plan, for every plan, with whatever cycles and wrong indices it*)
(* comes with.                                                             *)
(***************************************************************************)
EXTENDS Conversation, ComponentLibrary, PlanOrchestrator, TLAPS, WellFoundedInduction, SequenceTheorems,
        FiniteSetTheorems

(***************************************************************************)
(* The requests.                                                           *)
(***************************************************************************)

\* A task that ended shows how it ended, and only a build has a step after it.
TaskOK(i) ==
  /\ DOMAIN tasks[i] = {"state", "outcome", "slot", "ran"}
  /\ tasks[i].state \in {"new", "begun", "ran", "done", "panicked"}
  /\ tasks[i].slot \in {"none", "running", "success", "error"}
  /\ tasks[i].state = "ran" => call.tool = "build"
  /\ tasks[i].slot \in {"success", "error"} =>
       tasks[i].state = "done" /\ (tasks[i].slot = "success" <=> tasks[i].outcome = "success")

\* The lists the databases hold, and the directories the program works on.
RequestTypeOK ==
  /\ systems \in [Dirs -> Seq(BuildSystem)]
  /\ opened \in Places /\ graph \in Places
  /\ DOMAIN turn = {"stage", "form", "pending", "told", "barred", "did"}

\* Unless it went astray, all of the program points at what was opened.
Pointed ==
  ~astray => /\ graph = opened /\ buildRoot = opened /\ analysis \in {NoDir, opened}
             /\ answer.of \subseteq {opened}

\* One task for each system of the call, in the open project or in the
\* directory of the process, and results that are those of ended tasks.
CallUnderWay ==
  Busy =>
    /\ turn.stage = "build"
    /\ call.todo \in Seq(Range(call.todo)) /\ Len(tasks) = Len(call.todo)
    /\ tasks \in Seq(Range(tasks))
    /\ results \in Seq(Range(results)) /\ Len(results) <= Len(tasks)
    /\ \A i \in DOMAIN tasks : TaskOK(i) /\ Dir(i)[1] \in {buildRoot, NoDir}
    /\ \A i \in DOMAIN results : Ended(i) /\ results[i] = Result(i)

\* The list on the screen says of a system what its task last said.
ListFollows ==
  Busy /\ call.tool = "build" =>
    /\ ~final
    /\ HasFfi \/ \A i \in DOMAIN widget : widget[i] # "pending" =>
         i \in DOMAIN tasks /\ widget[i] = tasks[i].slot /\ tasks[i].slot # "none"

\* A build has a task for every system its scope stands for.
ScopeCovered ==
  Busy /\ call.tool = "build" /\ ~astray /\ opened # NoDir =>
    \A s \in Meant(call.scope, Range(systems[opened])) : s.path # <<>> \/ s.dotted =>
      \E i \in DOMAIN call.todo : Dir(i) = <<opened, s.path>> /\ call.todo[i].type = s.type
IInv == /\ RequestTypeOK /\ Pointed /\ CallUnderWay /\ ListFollows /\ ScopeCovered
        /\ SuccessMeansBuilt /\ NothingUngatedRuns

-----------------------------------------------------------------------------
(* Induction, for a set of naturals.                                        *)
LEMMA NaturalsInSet ==
  ASSUME NEW P, 0 \in P, \A n \in Nat : n \in P => n + 1 \in P
  PROVE  Nat \subseteq P
  <1> DEFINE below == {p \in Nat \X Nat : p[1] < p[2]}
  <1>1. IsWellFoundedOn(below, Nat)
    BY NatLessThanWellFounded DEF OpToRel
  <1>2. \A n \in Nat \ {0} : n - 1 \in Nat /\ <<n - 1, n>> \in below /\ (n - 1) + 1 = n
    OBVIOUS
  <1> HIDE DEF below
  <1> SUFFICES ASSUME Nat \ P # {} PROVE FALSE
    OBVIOUS
  <1>3. PICK n \in Nat \ P : \A m \in Nat \ P : <<m, n>> \notin below
    BY <1>1, WFMin
  <1> QED BY <1>2, <1>3

LEMMA RangeOfAppend ==
  ASSUME NEW S, NEW s \in Seq(S), NEW x \in S
  PROVE  Range(Append(s, x)) = Range(s) \union {x}
  <1> DEFINE t == Append(s, x)
  <1>1. /\ DOMAIN t = DOMAIN s \union {Len(s) + 1} /\ t[Len(s) + 1] = x
        /\ \A i \in DOMAIN s : t[i] = s[i]
    OBVIOUS
  <1> HIDE DEF t
  <1> QED BY <1>1 DEF Range, t

LEMMA RangeOfTail ==
  ASSUME NEW S, NEW l \in Seq(S), l # <<>>
  PROVE  Range(l) = {Head(l)} \union Range(Tail(l))
  <1> DEFINE t == Tail(l)
  <1>1. /\ DOMAIN l = 1..Len(l) /\ DOMAIN t = 1..(Len(l) - 1) /\ Len(l) \in Nat /\ Len(l) >= 1
        /\ \A i \in 1..(Len(l) - 1) : t[i] = l[i + 1]
        /\ Head(l) = l[1]
    BY HeadTailProperties, EmptySeq, LenProperties
  <1> HIDE DEF t
  <1>2. \A i \in 1..Len(l) : i = 1 \/ (i - 1 \in 1..(Len(l) - 1) /\ (i - 1) + 1 = i)
    BY <1>1
  <1>3. \A i \in 1..(Len(l) - 1) : i + 1 \in 1..Len(l)
    BY <1>1
  <1>4. ASSUME NEW x \in Range(l) PROVE x \in {Head(l)} \union Range(t)
    <2>1. PICK i \in 1..Len(l) : x = l[i]
      BY <1>1 DEF Range
    <2>2. CASE i = 1
      BY <1>1, <2>1, <2>2
    <2>3. CASE i - 1 \in 1..(Len(l) - 1) /\ (i - 1) + 1 = i
      <3>1. t[i - 1] = l[i]
        BY <1>1, <2>3
      <3>2. t[i - 1] \in Range(t)
        BY <1>1, <2>3 DEF Range
      <3> QED BY <2>1, <3>1, <3>2
    <2> QED BY <1>2, <2>2, <2>3
  <1>5. ASSUME NEW x \in {Head(l)} \union Range(t) PROVE x \in Range(l)
    BY <1>1, <1>3 DEF Range
  <1> QED BY <1>4, <1>5 DEF t

(* A recursive definition defines something, when every call it makes has a *)
(* smaller argument: body turns a guess at the function into a better one,  *)
(* may look at the guess below its argument only, and keeps it in F, the    *)
(* functions whose values fit their arguments.                              *)
Descends(X, V, Fits, rank, body, F) ==
  /\ Fits \in [X -> SUBSET V] /\ \A x \in X : Fits[x] # {}
  /\ rank \in [X -> Nat]
  /\ \A f : f \in F <=> f \in [X -> V] /\ \A x \in X : f[x] \in Fits[x]
  /\ \A f \in F : body[f] \in F
  /\ \A f, g \in F, x \in X :
       (\A y \in X : rank[y] < rank[x] => f[y] = g[y]) => body[f][x] = body[g][x]

LEMMA RecursionExists ==
  ASSUME NEW X, NEW V, NEW Fits, NEW rank, NEW body, NEW F,
         Descends(X, V, Fits, rank, body, F)
  PROVE  \E f \in F : body[f] = f
  <1>d. /\ Fits \in [X -> SUBSET V] /\ \A x \in X : Fits[x] # {}
        /\ rank \in [X -> Nat]
        /\ \A f : f \in F <=> f \in [X -> V] /\ \A x \in X : f[x] \in Fits[x]
        /\ \A f \in F : body[f] \in F
        /\ \A f, g \in F, x \in X :
             (\A y \in X : rank[y] < rank[x] => f[y] = g[y]) => body[f][x] = body[g][x]
    BY DEF Descends
  <1> USE <1>d
  <1> DEFINE Solved(f, w) == \A x \in X : rank[x] < w => f[x] = body[f][x]
             P == {w \in Nat : \E f \in F : Solved(f, w)}
  <1>0. \A f : f \in F <=> f \in [X -> V] /\ \A x \in X : f[x] \in Fits[x]
    OBVIOUS
  <1>r. \A x \in X : rank[x] \in Nat
    OBVIOUS
  <1>1. Nat \subseteq P
    <2>1. 0 \in P
      <3> DEFINE some == [x \in X |-> CHOOSE v \in Fits[x] : TRUE]
      <3>1. \A x \in X : (CHOOSE v \in Fits[x] : TRUE) \in Fits[x]
        OBVIOUS
      <3>2. some \in F
        BY <1>0, <3>1
      <3>3. Solved(some, 0)
        BY <1>r
      <3> HIDE DEF some
      <3> QED BY <3>2, <3>3
    <2>2. ASSUME NEW w \in Nat, w \in P PROVE w + 1 \in P
      <3>1. PICK f \in F : Solved(f, w)
        BY <2>2
      <3>2. body[f] \in F
        OBVIOUS
      <3>3. ASSUME NEW x \in X, rank[x] < w + 1 PROVE body[f][x] = body[body[f]][x]
        <4>1. \A y \in X : rank[y] < rank[x] => f[y] = body[f][y]
          BY <1>r, <3>1, <3>3
        <4> QED BY <3>2, <4>1
      <3>4. w + 1 \in Nat
        OBVIOUS
      <3> QED BY <3>2, <3>3, <3>4
    <2> HIDE DEF P
    <2> QED BY <2>1, <2>2, NaturalsInSet
  <1>2. ASSUME NEW f \in F, NEW g \in F, NEW w \in Nat, Solved(f, w), Solved(g, w),
               NEW x \in X, rank[x] < w
        PROVE  f[x] = g[x]
    <2> DEFINE Q == {v \in Nat : \A z \in X : rank[z] < v /\ rank[z] < w => f[z] = g[z]}
    <2>1. 0 \in Q
      BY <1>r
    <2>2. ASSUME NEW v \in Nat, v \in Q PROVE v + 1 \in Q
      <3> SUFFICES ASSUME NEW z \in X, rank[z] < v + 1, rank[z] < w PROVE f[z] = g[z]
        OBVIOUS
      <3>1. \A y \in X : rank[y] < rank[z] => f[y] = g[y]
        BY <1>r, <2>2
      <3>2. body[f][z] = body[g][z]
        BY <3>1
      <3> QED BY <1>2, <3>2
    <2>3. Nat \subseteq Q
      <3> HIDE DEF Q
      <3> QED BY <2>1, <2>2, NaturalsInSet
    <2>4. w \in Q
      BY <2>3
    <2> QED BY <1>2, <2>4
  <1> DEFINE upto(x) == CHOOSE f \in F : Solved(f, rank[x] + 1)
             whole == [x \in X |-> upto(x)[x]]
  <1>3. ASSUME NEW x \in X PROVE upto(x) \in F /\ Solved(upto(x), rank[x] + 1)
    <2>1. rank[x] + 1 \in P
      BY <1>1, <1>r
    <2>2. \E f \in F : Solved(f, rank[x] + 1)
      BY <2>1
    <2> HIDE DEF Solved
    <2> QED BY <2>2
  <1> HIDE DEF upto
  <1>4. whole \in F
    BY <1>0, <1>3
  <1>5. ASSUME NEW x \in X PROVE whole[x] = body[whole][x]
    <2>1. upto(x)[x] = body[upto(x)][x]
      BY <1>3, <1>r
    <2>2. ASSUME NEW y \in X, rank[y] < rank[x] PROVE upto(x)[y] = whole[y]
      <3>1. rank[y] + 1 \in Nat /\ rank[y] < rank[y] + 1
        BY <1>r
      <3>2. Solved(upto(x), rank[y] + 1)
        BY <1>3, <1>r, <2>2
      <3>3. upto(y) \in F /\ upto(x) \in F /\ Solved(upto(y), rank[y] + 1)
        BY <1>3
      <3>4. upto(x)[y] = upto(y)[y]
        <4> HIDE DEF Solved
        <4> QED BY <1>2, <3>1, <3>2, <3>3
      <3> QED BY <3>4
    <2>3. upto(x) \in F
      BY <1>3
    <2> HIDE DEF whole
    <2>4. body[upto(x)][x] = body[whole][x]
      BY <1>4, <2>2, <2>3
    <2> QED BY <2>1, <2>4 DEF whole
  <1> HIDE DEF whole
  <1>6. body[whole] = whole
    BY <1>0, <1>4, <1>5
  <1> QED BY <1>4, <1>6

(* What Only keeps: the chosen elements of the list and no other.           *)
LEMMA OnlyKeeps ==
  ASSUME NEW S, NEW list \in Seq(S), NEW chosen
  PROVE  /\ Only(list, chosen) \in Seq(S)
         /\ Range(Only(list, chosen)) = Range(list) \intersect chosen
  <1> DEFINE Grown(f, k) == IF k = 0 THEN <<>>
                            ELSE IF list[k] \in chosen THEN Append(f[k - 1], list[k]) ELSE f[k - 1]
             Solves(f, n) == f = [k \in 0..n |-> Grown(f, k)]
             P == {n \in Nat : n <= Len(list) => \E f : Solves(f, n)}
             Q(f) == {n \in Nat : n <= Len(list) =>
                        /\ f[n] \in Seq(S)
                        /\ Range(f[n]) = {list[j] : j \in 1..n} \intersect chosen}
  <1>1. Nat \subseteq P
    <2>1. 0 \in P
      <3> DEFINE f == [k \in 0..0 |-> <<>>]
      <3>1. Solves(f, 0)
        OBVIOUS
      <3> HIDE DEF Solves, f
      <3> QED BY <3>1
    <2>2. ASSUME NEW n \in Nat, n \in P PROVE n + 1 \in P
      <3> SUFFICES ASSUME n + 1 <= Len(list) PROVE \E f : Solves(f, n + 1)
        OBVIOUS
      <3>0. n <= Len(list)
        OBVIOUS
      <3>1. PICK g : Solves(g, n)
        BY <2>2, <3>0
      <3> DEFINE f == [k \in 0..(n + 1) |-> IF k = n + 1 THEN Grown(g, n + 1) ELSE g[k]]
      <3>2. \A k \in 0..n : f[k] = g[k] /\ g[k] = Grown(g, k)
        <4> HIDE DEF Grown
        <4> QED BY <3>1
      <3>3. \A k \in 0..(n + 1) : f[k] = Grown(f, k)
        <4> SUFFICES ASSUME NEW k \in 0..(n + 1) PROVE f[k] = Grown(f, k)
          OBVIOUS
        <4>1. k # 0 => k - 1 \in 0..n /\ f[k - 1] = g[k - 1]
          BY <3>2
        <4>2. Grown(f, k) = Grown(g, k)
          BY <4>1
        <4> HIDE DEF Grown
        <4> QED BY <3>2, <4>2
      <3>4. Solves(f, n + 1)
        <4> HIDE DEF Grown
        <4> QED BY <3>3
      <3> HIDE DEF Solves, f
      <3> QED BY <3>4
    <2> HIDE DEF P
    <2> QED BY <2>1, <2>2, NaturalsInSet
  <1>2. ASSUME NEW f, Solves(f, Len(list)) PROVE Nat \subseteq Q(f)
    <2>0. \A k \in 0..Len(list) : f[k] = Grown(f, k)
      BY <1>2
    <2>1. 0 \in Q(f)
      <3>1. f[0] = <<>>
        BY <2>0
      <3>2. Range(f[0]) = {} /\ {list[j] : j \in 1..0} = {} /\ f[0] \in Seq(S)
        BY <3>1 DEF Range
      <3> QED BY <3>2
    <2>2. ASSUME NEW n \in Nat, n \in Q(f) PROVE n + 1 \in Q(f)
      <3> SUFFICES ASSUME n + 1 <= Len(list)
                   PROVE  /\ f[n + 1] \in Seq(S)
                          /\ Range(f[n + 1]) = {list[j] : j \in 1..(n + 1)} \intersect chosen
        OBVIOUS
      <3>1. /\ f[n] \in Seq(S) /\ Range(f[n]) = {list[j] : j \in 1..n} \intersect chosen
            /\ f[n + 1] = IF list[n + 1] \in chosen THEN Append(f[n], list[n + 1]) ELSE f[n]
        BY <2>0, <2>2
      <3>2. {list[j] : j \in 1..(n + 1)} = {list[j] : j \in 1..n} \union {list[n + 1]}
        <4>1. 1..(n + 1) = 1..n \union {n + 1}
          OBVIOUS
        <4> QED BY <4>1
      <3>3. list[n + 1] \in S
        OBVIOUS
      <3>4. CASE list[n + 1] \in chosen
        <4>1. Range(Append(f[n], list[n + 1])) = Range(f[n]) \union {list[n + 1]}
          BY <3>1, <3>3, RangeOfAppend
        <4> QED BY <3>1, <3>2, <3>3, <3>4, <4>1
      <3>5. CASE list[n + 1] \notin chosen
        BY <3>1, <3>2, <3>5
      <3> QED BY <3>4, <3>5
    <2> HIDE DEF Q
    <2> QED BY <2>1, <2>2, NaturalsInSet
  <1>3. \E f : Solves(f, Len(list))
    BY <1>1
  <1> DEFINE upto == CHOOSE f : Solves(f, Len(list))
  <1>4. Solves(upto, Len(list))
    <2> HIDE DEF Solves
    <2> QED BY <1>3
  <1>5. Only(list, chosen) = upto[Len(list)]
    BY DEF Only
  <1>6. Len(list) \in Q(upto)
    <2> HIDE DEF Solves, upto, Q
    <2> QED BY <1>2, <1>4
  <1>7. Range(list) = {list[j] : j \in 1..Len(list)}
    BY DEF Range
  <1> HIDE DEF upto
  <1> QED BY <1>5, <1>6, <1>7

(* What a request names stands for one of the directories.                  *)
LEMMA ResolveRootIsDir == \A d \in Dirs : ResolveRoot[d] \in Dirs
  <1>0. PICK height \in [Dirs -> 0..Cardinality(Dirs)] :
          \A d \in Dirs : \A sub \in Subdirs[d] : height[sub] < height[d]
    BY OpenAssumption
  <1> DEFINE Sub(d) == CHOOSE sub \in Subdirs[d] : TRUE
             Stops(d) == d \in Marked \/ Cardinality(Subdirs[d]) # 1
             Step(f, d) == IF Stops(d) THEN d ELSE f[Sub(d)]
             Below(n) == {d \in Dirs : height[d] < n}
             P == {n \in Nat : \E f \in [Below(n) -> Dirs] : \A d \in Below(n) : f[d] = Step(f, d)}
             Solves(f) == f = [d \in Dirs |-> Step(f, d)]
             Q(f) == {n \in Nat : \A d \in Below(n) : f[d] \in Dirs}
  <1>1. Cardinality(Dirs) \in Nat /\ \A d \in Dirs : height[d] \in Nat
    BY OpenAssumption, FS_CardinalityType
  <1>2. \A d \in Dirs : ~Stops(d) => Sub(d) \in Dirs /\ height[Sub(d)] < height[d]
    <2> SUFFICES ASSUME NEW d \in Dirs, ~Stops(d) PROVE Sub(d) \in Subdirs[d]
      BY <1>0, OpenAssumption
    <2>1. Subdirs[d] # {}
      BY FS_EmptySet
    <2> QED BY <2>1
  <1> HIDE DEF Sub, Stops
  <1>3. \A n \in Nat : \A d \in Below(n + 1) : ~Stops(d) => Sub(d) \in Below(n)
    BY <1>1, <1>2
  <1>4. Nat \subseteq P
    <2>1. 0 \in P
      <3>1. Below(0) = {}
        BY <1>1
      <3>2. [d \in Below(0) |-> d] \in [Below(0) -> Dirs]
        BY <3>1
      <3> QED BY <3>1, <3>2
    <2>2. ASSUME NEW n \in Nat, n \in P PROVE n + 1 \in P
      <3>1. PICK f \in [Below(n) -> Dirs] : \A d \in Below(n) : f[d] = Step(f, d)
        BY <2>2
      <3> DEFINE g == [d \in Below(n + 1) |-> Step(f, d)]
      <3>2. \A d \in Below(n) : d \in Below(n + 1) /\ g[d] = f[d]
        BY <1>1, <3>1
      <3>3. g \in [Below(n + 1) -> Dirs]
        BY <1>3, <3>1
      <3>4. \A d \in Below(n + 1) : g[d] = Step(g, d)
        BY <1>3, <3>2
      <3> HIDE DEF g, Step, Below
      <3>5. n + 1 \in Nat
        OBVIOUS
      <3> QED BY <3>3, <3>4, <3>5
    <2> HIDE DEF P
    <2> QED BY <2>1, <2>2, NaturalsInSet
  <1>5. ASSUME NEW f, Solves(f) PROVE Nat \subseteq Q(f)
    <2>1. 0 \in Q(f)
      BY <1>1
    <2>2. ASSUME NEW n \in Nat, n \in Q(f) PROVE n + 1 \in Q(f)
      <3> SUFFICES ASSUME NEW d \in Below(n + 1) PROVE f[d] \in Dirs
        OBVIOUS
      <3>1. f[d] = Step(f, d)
        BY <1>5
      <3> QED BY <1>3, <2>2, <3>1
    <2> HIDE DEF Q
    <2> QED BY <2>1, <2>2, NaturalsInSet
  <1>6. Below(Cardinality(Dirs) + 1) = Dirs
    BY <1>0, <1>1
  <1>7. \E f : Solves(f)
    <2>1. PICK f \in [Dirs -> Dirs] : \A d \in Dirs : f[d] = Step(f, d)
      BY <1>1, <1>4, <1>6
    <2>2. f = [d \in Dirs |-> Step(f, d)]
      <3> HIDE DEF Step
      <3> QED BY <2>1
    <2> HIDE DEF Step
    <2> QED BY <2>2
  <1>8. Solves(ResolveRoot)
    <2> DEFINE r == CHOOSE f : Solves(f)
    <2>1. ResolveRoot = r
      BY DEF ResolveRoot, Stops, Sub
    <2>2. Solves(r)
      <3> HIDE DEF Solves
      <3> QED BY <1>7
    <2> HIDE DEF Solves, r
    <2> QED BY <2>1, <2>2
  <1>9. Cardinality(Dirs) + 1 \in Q(ResolveRoot)
    <2> HIDE DEF Solves, Q
    <2> QED BY <1>1, <1>5, <1>8
  <1> QED BY <1>6, <1>9

-----------------------------------------------------------------------------
(* What a scope is resolved to.                                             *)
LEMMA ScopeIsSeq ==
  ASSUME NEW scope, NEW list \in Seq(BuildSystem)
  PROVE  ResolveScope(scope, list) \in Seq(BuildSystem)
  <1>1. \A chosen : Only(list, chosen) \in Seq(BuildSystem)
    BY OnlyKeeps
  <1> QED BY <1>1 DEF ResolveScope, ByType, ByPath, ByName

LEMMA ScopeCoversMeant ==
  ASSUME NEW scope, NEW list \in Seq(BuildSystem)
  PROVE  Meant(scope, Range(list)) \subseteq Range(ResolveScope(scope, list))
  <1> SUFFICES ASSUME NEW s \in Meant(scope, Range(list))
               PROVE  s \in Range(ResolveScope(scope, list))
    OBVIOUS
  <1>1. \A chosen : Range(Only(list, chosen)) = Range(list) \intersect chosen
    BY OnlyKeeps
  <1>2. Range(<<>>) = {} /\ Range(list) \subseteq BuildSystem
    BY DEF Range
  <1>3. CASE scope = <<>>
    BY <1>3 DEF Meant, ResolveScope
  <1>4. CASE scope # <<>> /\ \E r \in Range(list) : r.type = scope
    <2>1. s \in Range(ByType(scope, list))
      BY <1>1, <1>4 DEF Meant, ByType
    <2> QED BY <1>2, <1>4, <2>1 DEF ResolveScope
  <1>5. CASE scope # <<>> /\ ~\E r \in Range(list) : r.type = scope
    <2>1. s \in Range(list) /\ s.path = scope /\ s.path \in Seq(STRING)
      BY <1>2, <1>5 DEF Meant, BuildSystem
    <2>2. Within(scope, s.path)
      <3>1. SubSeq(s.path, 0 + 1, 0 + Len(scope)) = scope /\ 0 \in 0..(Len(s.path) - Len(scope))
        BY <2>1
      <3> QED BY <3>1 DEF Within
    <2>3. s \in Range(ByPath(scope, list))
      BY <1>1, <2>1, <2>2 DEF ByPath
    <2>4. ByType(scope, list) = <<>>
      <3>1. ByType(scope, list) \in Seq(BuildSystem) /\ Range(ByType(scope, list)) = {}
        BY <1>1, <1>5, OnlyKeeps DEF ByType
      <3>2. DOMAIN ByType(scope, list) = {}
        BY <3>1 DEF Range
      <3> QED BY <3>1, <3>2
    <2> QED BY <1>2, <1>5, <2>3, <2>4 DEF ResolveScope
  <1> QED BY <1>3, <1>4, <1>5

(* What a call dispatches: a task in the project of the builds or in the    *)
(* directory of the process, and for a build one for each system meant.     *)
Serves(asked, tool, scope, list) ==
  /\ asked \in Seq(Range(asked))
  /\ \A i \in DOMAIN asked : asked[i].dir[1] \in {buildRoot, NoDir}
  /\ tool = "build" =>
       \A s \in Meant(scope, Range(list)) : s.path # <<>> \/ s.dotted =>
         \E i \in DOMAIN asked : asked[i].dir = <<buildRoot, s.path>> /\ asked[i].type = s.type
  /\ list = <<>> => asked = <<>>

LEMMA DispatchesServe ==
  ASSUME NEW tool, NEW scope, NEW list \in Seq(BuildSystem)
  PROVE  Serves(Dispatches(tool, scope, list), tool, scope, list)
  <1> DEFINE asked == Dispatches(tool, scope, list)
             resolved == ResolveScope(scope, list)
  <1>1. resolved \in Seq(BuildSystem) /\ Meant(scope, Range(list)) \subseteq Range(resolved)
    BY ScopeIsSeq, ScopeCoversMeant
  <1>2. /\ DOMAIN asked = DOMAIN resolved
        /\ \A i \in DOMAIN asked :
             /\ asked[i].dir[1] \in {buildRoot, NoDir}
             /\ tool = "build" => /\ asked[i].dir = <<buildRoot, ResolveBuildPath(resolved[i])>>
                                  /\ asked[i].type = resolved[i].type
    <2> HIDE DEF resolved
    <2> QED BY DEF Dispatches, BuildDispatches, TestDispatches, LintDispatches, InstallDispatches,
                   Map, Dispatch, Here, resolved
  <1>3. \E n \in Nat : DOMAIN resolved = 1..n
    BY <1>1
  <1>4. asked = [i \in DOMAIN asked |-> asked[i]]
    <2> HIDE DEF resolved
    <2> QED BY DEF Dispatches, BuildDispatches, TestDispatches, LintDispatches, InstallDispatches,
                   Map, resolved
  <1> HIDE DEF asked, resolved
  <1>5. asked \in Seq(Range(asked))
    BY <1>2, <1>3, <1>4 DEF Range
  <1>6. ASSUME tool = "build", NEW s \in Meant(scope, Range(list)), s.path # <<>> \/ s.dotted
        PROVE  \E i \in DOMAIN asked : asked[i].dir = <<buildRoot, s.path>> /\ asked[i].type = s.type
    <2>1. PICK i \in DOMAIN resolved : resolved[i] = s
      BY <1>1 DEF Range
    <2>2. ResolveBuildPath(s) = s.path
      BY <1>6 DEF ResolveBuildPath
    <2> QED BY <1>2, <1>6, <2>1, <2>2
  <1>7. list = <<>> => asked = <<>>
    <2> SUFFICES ASSUME list = <<>> PROVE asked = <<>>
      OBVIOUS
    <2>0. Range(list) = {}
      BY DEF Range
    <2>1. \A chosen : /\ Range(Only(list, chosen)) = Range(list) \intersect chosen
                      /\ Only(list, chosen) \in Seq(BuildSystem)
      BY OnlyKeeps
    <2>2. \A chosen : DOMAIN Only(list, chosen) = {}
      BY <2>0, <2>1 DEF Range
    <2>3. \A chosen : Only(list, chosen) = <<>>
      BY <2>1, <2>2
    <2>4. resolved = <<>>
      BY <2>3 DEF resolved, ResolveScope, ByType, ByPath, ByName
    <2> QED BY <1>2, <1>5, <2>4
  <1> QED BY <1>2, <1>5, <1>6, <1>7 DEF asked, Serves

-----------------------------------------------------------------------------
(* What keeps the invariant.                                                *)
LEMMA RequestInit == Init => IInv
  <1> SUFFICES ASSUME Init PROVE IInv
    OBVIOUS
  <1> USE DEF Init, OpenInit, ToolsInit
  <1>1. RequestTypeOK
    <2>1. systems \in [Dirs -> Seq(BuildSystem)]
      <3>1. \A d \in Dirs : systems[d] \in {<<>>, Systems[d]}
        OBVIOUS
      <3>2. PICK S : systems \in [Dirs -> S]
        OBVIOUS
      <3>3. \A d \in Dirs : systems[d] \in Seq(BuildSystem)
        <4>1. <<>> \in Seq(BuildSystem)
          OBVIOUS
        <4> HIDE DEF Init, OpenInit, ToolsInit
        <4> QED BY <3>1, <4>1, ToolsAssumption
      <3> HIDE DEF Init, OpenInit, ToolsInit
      <3> QED BY <3>2, <3>3
    <2>2. opened \in Places /\ graph \in Places
      BY OpenAssumption DEF Places
    <2> QED BY <2>1, <2>2 DEF RequestTypeOK, Quiet
  <1>2. ~Busy
    BY DEF Busy
  <1>3. Pointed
    BY DEF Pointed, NoAnswer
  <1>4. SuccessMeansBuilt /\ NothingUngatedRuns
    BY DEF SuccessMeansBuilt, NothingUngatedRuns, NoReply, Quiet
  <1> QED BY <1>1, <1>2, <1>3, <1>4 DEF IInv, CallUnderWay, ListFollows, ScopeCovered

(* A step outside a call that points nothing elsewhere.                     *)
LEMMA TalkKeeps ==
  ASSUME IInv, ~Busy, UNCHANGED <<call, reply, pointers, systems, history>>,
         answer' = answer \/ answer'.of = {},
         DOMAIN turn' = {"stage", "form", "pending", "told", "barred", "did"},
         turn'.barred => turn'.did = "nothing"
  PROVE  IInv'
  <1>1. ~Busy'
    BY DEF Busy
  <1>2. RequestTypeOK' /\ Pointed'
    BY DEF IInv, RequestTypeOK, Pointed, pointers, history
  <1>3. SuccessMeansBuilt' /\ NothingUngatedRuns'
    BY <1>1 DEF IInv, SuccessMeansBuilt, NothingUngatedRuns, history
  <1> QED BY <1>1, <1>2, <1>3 DEF IInv, CallUnderWay, ListFollows, ScopeCovered

(* Opening, analyzing, reading and restarting: what is pointed elsewhere is *)
(* pointed at what was opened, or known to have gone astray.                *)
LEMMA ProjectKeeps == ASSUME IInv, ProjectRequest PROVE IInv'
  <1>0. /\ ~Busy /\ ~Busy' /\ reply' = NoReply /\ turn' = Quiet
        /\ RequestTypeOK /\ Pointed
    BY DEF ProjectRequest, Idle, IInv, CallUnderWay, Busy
  <1> USE DEF pointers, stored, history, Says
  <1>1. systems' = systems /\ opened' \in Places /\ graph' \in Places /\ Pointed'
    <2> USE DEF RequestTypeOK, Pointed
    <2>1. CASE \E folder \in Dirs : OpenProject(folder)
      <3> PICK folder \in Dirs : OpenProject(folder)
        BY <2>1
      <3> DEFINE d == ResolveRoot[folder]
      <3>1. d \in Places
        BY ResolveRootIsDir DEF Places
      <3> HIDE DEF d
      <3>2. CASE NotAttached("open") \/ (HasFfi /\ Says("open", {}) /\ UNCHANGED <<pointers, stored, history>>)
        BY <1>0, <3>2 DEF NotAttached
      <3>3. CASE OpenFails(d)
        BY <1>0, <3>1, <3>3 DEF OpenFails, PointGraph
      <3>4. CASE OpenSucceeds(d) /\ Says("open", {d})
        BY <1>0, <3>1, <3>4 DEF OpenSucceeds, PointGraph
      <3> QED BY <3>2, <3>3, <3>4 DEF OpenProject, d
    <2>2. CASE AnalyzeProject
      <3>1. CASE NotAttached("analysis")
        BY <1>0, <3>1 DEF NotAttached
      <3>2. CASE UNCHANGED stored /\ CachedAnalysis
        BY <1>0, <3>2 DEF CachedAnalysis
      <3>3. ASSUME NEW folder \in Dirs, UNCHANGED stored, AnalyzeRoot(folder)
            PROVE  systems' = systems /\ opened' \in Places /\ graph' \in Places /\ Pointed'
        <4> DEFINE d == ResolveRoot[folder]
        <4> HIDE DEF d
        <4>1. CASE Says("analysis", {}) /\ UNCHANGED <<pointers, history>>
          BY <1>0, <3>3, <4>1
        <4>2. CASE /\ root' = d /\ buildRoot' = d
                   /\ UNCHANGED <<analysis, graph, query, watched, servers, opened>>
                   /\ Says("analysis", {d})
                   /\ astray' = (astray \/ d # opened)
          BY <1>0, <3>3, <4>2
        <4> QED BY <3>3, <4>1, <4>2 DEF AnalyzeRoot, d
      <3> QED BY <2>2, <3>1, <3>2, <3>3 DEF AnalyzeProject
    <2>3. CASE Read
      BY <1>0, <2>3 DEF Read, GetBuildTarget, BuildStatus, Diagnostics, OfGraph
    <2>4. CASE Restart
      BY <1>0, <2>4 DEF Restart, NoAnswer, Places
    <2> QED BY <2>1, <2>2, <2>3, <2>4 DEF ProjectRequest
  <1>2. RequestTypeOK'
    BY <1>0, <1>1 DEF RequestTypeOK, Quiet
  <1>3. SuccessMeansBuilt' /\ NothingUngatedRuns'
    BY <1>0 DEF SuccessMeansBuilt, NothingUngatedRuns, NoReply, Quiet
  <1> QED BY <1>0, <1>1, <1>2, <1>3 DEF IInv, CallUnderWay, ListFollows, ScopeCovered

(* A tool is called, by name or because the words ask for a build.          *)
LEMMA CallKeeps ==
  ASSUME IInv, NEW tool, NEW scope, CallTool(tool, scope),
         UNCHANGED <<pointers, systems, history>>,
         turn'.stage = IF call' = NoCall THEN "idle" ELSE "build",
         DOMAIN turn' = {"stage", "form", "pending", "told", "barred", "did"},
         ~turn'.barred
  PROVE  IInv'
  <1>1. RequestTypeOK' /\ Pointed' /\ NothingUngatedRuns'
    BY DEF IInv, RequestTypeOK, Pointed, pointers, history, CallTool, Says, NothingUngatedRuns
  <1>2. UNCHANGED <<systems, opened, astray, buildRoot, graph>> /\ ~Busy
    BY DEF pointers, history, CallTool
  <1>3. CASE Refused(tool, scope)
    <2>1. ~Busy' /\ SuccessMeansBuilt'
      BY <1>2, <1>3 DEF Refused, Reply, SuccessMeansBuilt, Busy
    <2> QED BY <1>1, <2>1 DEF IInv, CallUnderWay, ListFollows, ScopeCovered
  <1>4. ASSUME NEW config \in BuildConfig, Nothing(tool, scope, config)
        PROVE  IInv'
    <2> DEFINE told == tool # "build" \/ config.list = <<>>
    <2>0. ~Busy' /\ reply' = [tool |-> tool, scope |-> scope, success |-> told,
                              results |-> <<>>, blind |-> config.failed]
      BY <1>2, <1>4, Zenon DEF Nothing, Reply, Busy
    <2>1. /\ ~Busy'
          /\ reply'.tool = tool /\ reply'.scope = scope /\ reply'.blind = config.failed
          /\ reply'.success = told
      <3> HIDE DEF told
      <3> QED BY <2>0
    <2>2. SuccessMeansBuilt'
      <3> SUFFICES ASSUME tool = "build", config.list = <<>>, ~config.failed, ~astray, opened # NoDir
                   PROVE  Meant(scope, Range(systems[opened])) = {}
        BY <1>2, <2>1 DEF SuccessMeansBuilt
      <3>1. systems[opened] = <<>>
        BY <1>2 DEF BuildConfig, IInv, Pointed
      <3> QED BY <3>1 DEF Meant, Range
    <2> QED BY <1>1, <2>1, <2>2 DEF IInv, CallUnderWay, ListFollows, ScopeCovered
  <1>5. ASSUME NEW config \in BuildConfig,
               Dispatches(tool, scope, config.list) # <<>>,
               Started(tool, scope, Dispatches(tool, scope, config.list))
        PROVE  IInv'
    <2> DEFINE asked == Dispatches(tool, scope, config.list)
    <2>1. config.list \in Seq(BuildSystem)
      <3>0. \/ config = [failed |-> TRUE, list |-> <<>>]
            \/ graph # NoDir /\ config = [failed |-> FALSE, list |-> systems[graph]]
        BY Zenon DEF BuildConfig
      <3>1. config.list = <<>> \/ (graph # NoDir /\ config.list = systems[graph])
        BY <3>0
      <3>2. <<>> \in Seq(BuildSystem)
        OBVIOUS
      <3> QED BY <3>1, <3>2 DEF IInv, RequestTypeOK, Places
    <2>2. Serves(asked, tool, scope, config.list)
      BY <2>1, DispatchesServe
    <2> HIDE DEF asked
    <2>3. /\ call' = [tool |-> tool, scope |-> scope, todo |-> asked]
          /\ tasks' = [i \in DOMAIN asked |-> NewTask]
          /\ results' = <<>> /\ reply' = NoReply
      BY <1>5 DEF Started, Map, asked
    <2>4. Busy' /\ call' # NoCall
      <3>1. "todo" \in DOMAIN call' /\ "todo" \notin DOMAIN NoCall
        BY <2>3 DEF NoCall
      <3> QED BY <3>1 DEF Busy
    <2>5. CallUnderWay'
      <3>1. tasks' \in Seq(Range(tasks')) /\ Len(tasks') = Len(asked) /\ DOMAIN tasks' = DOMAIN asked
        <4>1. \E n \in Nat : DOMAIN asked = 1..n
          BY <2>2 DEF Serves
        <4> QED BY <2>2, <2>3, <4>1 DEF Range, Serves
      <3>2. \A i \in DOMAIN tasks' : TaskOK(i)'
        BY <2>3 DEF TaskOK, NewTask
      <3>3. \A i \in DOMAIN tasks' : Dir(i)'[1] \in {buildRoot, NoDir}
        BY <2>2, <2>3, <3>1 DEF Dir, Serves
      <3>4. results' \in Seq(Range(results')) /\ Len(results') <= Len(tasks') /\ DOMAIN results' = {}
        BY <2>2, <2>3, <3>1 DEF Range, Serves
      <3>5. turn'.stage = "build" /\ call'.todo = asked
        BY <2>3, <2>4
      <3> QED BY <1>2, <2>2, <3>1, <3>2, <3>3, <3>4, <3>5 DEF CallUnderWay, Serves
    <2>6. ListFollows'
      <3> SUFFICES ASSUME tool = "build"
                   PROVE  ~final' /\ (HasFfi' \/ \A i \in DOMAIN widget' : widget'[i] = "pending")
        BY <2>3 DEF ListFollows
      <3>1. final' = FALSE /\ kept' = [i \in DOMAIN asked |-> "pending"]
            /\ widget' = IF HasFfi THEN Shown ELSE kept'
        BY <1>5 DEF Started, Map, asked
      <3>2. \A i \in DOMAIN widget' : widget'[i] = "pending"
        BY <3>1 DEF Shown
      <3> QED BY <3>1, <3>2
    <2>7. ScopeCovered'
      <3> SUFFICES ASSUME tool = "build", ~astray, opened # NoDir,
                          NEW s \in Meant(scope, Range(systems[opened])), s.path # <<>> \/ s.dotted
                   PROVE  \E i \in DOMAIN asked : asked[i].dir = <<opened, s.path>> /\ asked[i].type = s.type
        BY <1>2, <2>3 DEF ScopeCovered, Dir
      <3>1. graph = opened /\ buildRoot = opened
        BY DEF IInv, Pointed
      <3>2. CASE config.failed
        <4>1. config.list = <<>>
          BY <3>2 DEF BuildConfig
        <4> QED BY <1>5, <2>2, <4>1 DEF asked, Serves
      <3>3. CASE ~config.failed
        <4>1. config.list = systems[opened]
          BY <3>1, <3>3 DEF BuildConfig
        <4> QED BY <2>2, <3>1, <4>1 DEF Serves
      <3> QED BY <3>2, <3>3
    <2>8. SuccessMeansBuilt'
      BY <2>3 DEF SuccessMeansBuilt, NoReply
    <2> QED BY <1>1, <2>5, <2>6, <2>7, <2>8 DEF IInv
  <1> QED BY <1>3, <1>4, <1>5 DEF CallTool

(* A step of a task: the others are as they were, it had not ended, and     *)
(* what it shows comes after what it showed.                                *)
LEMMA TaskMoves ==
  ASSUME IInv, Busy, NEW i \in DOMAIN tasks, TaskStep(i), UNCHANGED call
  PROVE  /\ \A j \in DOMAIN tasks \ {i} : tasks'[j] = tasks[j]
         /\ TaskOK(i)' /\ ~Ended(i)
         /\ tasks[i].slot \in {"none", "running"} /\ tasks'[i].slot \in {tasks[i].slot, "running", "success", "error"}
         /\ DOMAIN tasks' = DOMAIN tasks
  <1>1. TaskOK(i)
    BY DEF IInv, CallUnderWay
  <1>2. ~Ended(i) /\ tasks[i].slot \in {"none", "running"}
    BY <1>1 DEF TaskOK, TaskStep, TaskBegin, TaskRun, TaskEnd, TaskPanics, Ended
  <1> USE DEF TaskOK
  <1>3. CASE TaskBegin(i)
    <2>1. tasks' = [tasks EXCEPT ![i].state = "begun", ![i].slot = "running"]
      BY <1>3 DEF TaskBegin
    <2> QED BY <1>1, <1>2, <2>1
  <1>4. CASE TaskEnd(i)
    <2>1. /\ tasks' = [tasks EXCEPT ![i].state = "done",
                         ![i].slot = IF tasks[i].outcome = "success" THEN "success" ELSE "error"]
          /\ tasks[i].state = "ran"
      BY <1>4 DEF TaskEnd
    <2> QED BY <1>1, <1>2, <2>1
  <1>5. CASE TaskPanics(i)
    <2>1. tasks' = [tasks EXCEPT ![i].state = "panicked"]
      BY <1>5 DEF TaskPanics
    <2> QED BY <1>1, <1>2, <2>1
  <1>6. CASE TaskRun(i)
    <2>1. PICK ran \in Operations(i) : \E outcome \in Outcomes(ran) :
            tasks' = [tasks EXCEPT ![i] = [@ EXCEPT !.outcome = outcome, !.ran = ran,
                        !.state = IF call.tool = "build" THEN "ran" ELSE "done"]]
      BY <1>6 DEF TaskRun
    <2>2. PICK outcome \in Outcomes(ran) :
            tasks' = [tasks EXCEPT ![i] = [@ EXCEPT !.outcome = outcome, !.ran = ran,
                        !.state = IF call.tool = "build" THEN "ran" ELSE "done"]]
      BY <2>1
    <2> QED BY <1>1, <1>2, <2>2
  <1> QED BY <1>3, <1>4, <1>5, <1>6 DEF TaskStep

LEMMA TaskKeeps ==
  ASSUME IInv, Busy, NEW i \in DOMAIN tasks, TaskStep(i),
         UNCHANGED <<call, results, reply, answer, turn, host, pointers, systems, history>>
  PROVE  IInv'
  <1>0. /\ RequestTypeOK /\ Pointed /\ CallUnderWay /\ ListFollows /\ ScopeCovered
        /\ SuccessMeansBuilt /\ NothingUngatedRuns /\ Busy'
    BY DEF IInv, Busy
  <1>1. /\ \A j \in DOMAIN tasks \ {i} : tasks'[j] = tasks[j]
        /\ TaskOK(i)' /\ ~Ended(i)
        /\ tasks[i].slot \in {"none", "running"} /\ tasks'[i].slot \in {tasks[i].slot, "running", "success", "error"}
        /\ DOMAIN tasks' = DOMAIN tasks
    BY TaskMoves
  <1>2. /\ RequestTypeOK' /\ Pointed' /\ ScopeCovered' /\ SuccessMeansBuilt' /\ NothingUngatedRuns'
    BY <1>0 DEF RequestTypeOK, Pointed, ScopeCovered, SuccessMeansBuilt, NothingUngatedRuns, Busy,
                pointers, history, Dir
  <1>3. CallUnderWay'
    <2>1. tasks' \in Seq(Range(tasks')) /\ Len(tasks') = Len(tasks)
      <3>1. PICK t : tasks' = [tasks EXCEPT ![i] = t]
        BY DEF TaskStep, TaskBegin, TaskEnd, TaskPanics, TaskRun
      <3>2. tasks \in Seq(Range(tasks))
        BY <1>0 DEF CallUnderWay
      <3>3. DOMAIN tasks = 1..Len(tasks) /\ Len(tasks) \in Nat
        BY <3>2
      <3>4. tasks' = [j \in 1..Len(tasks) |-> tasks'[j]]
        BY <3>1, <3>3
      <3>5. \A j \in 1..Len(tasks) : tasks'[j] \in Range(tasks')
        BY <3>1, <3>3 DEF Range
      <3> QED BY <3>3, <3>4, <3>5
    <2>2. \A j \in DOMAIN tasks : TaskOK(j)'
      BY <1>0, <1>1 DEF CallUnderWay, TaskOK
    <2>3. \A j \in DOMAIN results : j # i /\ j \in DOMAIN tasks
      BY <1>0, <1>1 DEF CallUnderWay
    <2>4. \A j \in DOMAIN results : Ended(j)' /\ Result(j)' = Result(j)
      BY <1>0, <1>1, <2>3 DEF CallUnderWay, Ended, Result, Dir
    <2> QED BY <1>0, <1>1, <2>1, <2>2, <2>4 DEF CallUnderWay, Dir, pointers
  <1>4. ListFollows'
    <2> SUFFICES ASSUME call.tool = "build"
                 PROVE  /\ ~final'
                        /\ HasFfi \/ \A j \in DOMAIN widget' : widget'[j] # "pending" =>
                             j \in DOMAIN tasks /\ widget'[j] = tasks'[j].slot /\ tasks'[j].slot # "none"
      BY <1>1 DEF ListFollows, HasFfi
    <2>1. /\ ~final
          /\ HasFfi \/ \A j \in DOMAIN widget : widget[j] # "pending" =>
               j \in DOMAIN tasks /\ widget[j] = tasks[j].slot /\ tasks[j].slot # "none"
      BY <1>0 DEF ListFollows
    <2>2. CASE TaskBegin(i) \/ TaskEnd(i)
      <3>1. final' = final /\ widget' = IF HasFfi THEN widget ELSE Slots(tasks')
        BY <2>2 DEF TaskBegin, TaskEnd, EmitWidgetUpdate
      <3> QED BY <1>1, <2>1, <3>1 DEF Slots
    <2>3. CASE TaskRun(i) \/ TaskPanics(i)
      <3>1. UNCHANGED listVars
        BY <2>3 DEF TaskRun, TaskPanics
      <3>2. tasks'[i].slot = tasks[i].slot
        <4>1. TaskOK(i)
          BY <1>0 DEF CallUnderWay
        <4> QED BY <2>3, <4>1 DEF TaskRun, TaskPanics, TaskOK
      <3> QED BY <1>1, <2>1, <3>1, <3>2 DEF listVars
    <2> QED BY <2>2, <2>3 DEF TaskStep
  <1> QED BY <1>2, <1>3, <1>4 DEF IInv

LEMMA CollectKeeps ==
  ASSUME IInv, Busy, Collect, UNCHANGED <<turn, host, pointers, systems, history>>
  PROVE  IInv'
  <1> DEFINE n == Len(results) + 1
  <1>0. /\ RequestTypeOK /\ Pointed /\ CallUnderWay /\ ListFollows /\ ScopeCovered
        /\ SuccessMeansBuilt /\ NothingUngatedRuns /\ Busy'
    BY DEF IInv, Busy, Collect
  <1>1. /\ UNCHANGED <<tasks, reply, widget, final, kept, call, answer>>
        /\ Len(results) < Len(tasks) /\ Ended(n) /\ results' = Append(results, Result(n))
    BY DEF Collect, listVars
  <1>2. /\ RequestTypeOK' /\ Pointed' /\ ScopeCovered' /\ SuccessMeansBuilt' /\ NothingUngatedRuns'
        /\ ListFollows'
    BY <1>0, <1>1 DEF RequestTypeOK, Pointed, ScopeCovered, SuccessMeansBuilt, NothingUngatedRuns, Busy,
                      ListFollows, HasFfi, pointers, history, Dir
  <1>3. CallUnderWay'
    <2>1. /\ results \in Seq(Range(results)) /\ Len(tasks) \in Nat
          /\ \A i \in DOMAIN results : Ended(i) /\ results[i] = Result(i)
      BY <1>0 DEF CallUnderWay
    <2> DEFINE S == Range(results) \union {Result(n)}
    <2>2. results \in Seq(S) /\ Result(n) \in S
      BY <2>1
    <2> HIDE DEF S
    <2>3. /\ Append(results, Result(n)) \in Seq(S) /\ Len(Append(results, Result(n))) = n
          /\ \A i \in 1..n : Append(results, Result(n))[i] = IF i = n THEN Result(n) ELSE results[i]
          /\ DOMAIN results = 1..Len(results) /\ Len(results) \in Nat
      BY <2>2
    <2>4. /\ DOMAIN results' = 1..n /\ Len(results') = n /\ n \in Nat /\ n <= Len(tasks)
          /\ results' = [i \in 1..n |-> results'[i]]
      BY <1>1, <2>1, <2>3
    <2>5. \A i \in 1..n : Ended(i) /\ results'[i] = Result(i)
      BY <1>1, <2>1, <2>3
    <2>6. results' \in Seq(Range(results'))
      BY <2>4 DEF Range
    <2>7. \A i \in 1..n : Ended(i)' /\ Result(i)' = Result(i)
      BY <1>1, <2>5 DEF Ended, Result, Dir
    <2> HIDE DEF n
    <2> QED BY <1>0, <1>1, <2>4, <2>5, <2>6, <2>7 DEF CallUnderWay, TaskOK, Dir, pointers
  <1> QED BY <1>2, <1>3 DEF IInv

(* What the result of a task says.                                          *)
LEMMA ResultSays ==
  \A i : /\ Result(i).ok => Result(i) = [dir |-> Dir(i), type |-> call.todo[i].type, ok |-> TRUE]
         /\ Result(i).dir = Dir(i) \/ Result(i).dir = <<NoDir, <<>>>>
         /\ Result(i).ok <=> tasks[i].state = "done" /\ tasks[i].outcome = "success"
  <1> TAKE i
  <1> DEFINE won == tasks[i].outcome = "success"
  <1>1. Result(i) = IF tasks[i].state = "done"
                    THEN [dir |-> Dir(i), type |-> call.todo[i].type, ok |-> won]
                    ELSE [dir |-> <<NoDir, <<>>>>, type |-> <<>>, ok |-> FALSE]
    BY Zenon DEF Result
  <1>2. won \in BOOLEAN /\ (won <=> tasks[i].outcome = "success")
    OBVIOUS
  <1> HIDE DEF won
  <1>3. CASE tasks[i].state = "done"
    <2>1. Result(i) = [dir |-> Dir(i), type |-> call.todo[i].type, ok |-> won]
      BY <1>1, <1>3
    <2>2. CASE won = TRUE
      BY <1>2, <1>3, <2>1, <2>2
    <2>3. CASE won = FALSE
      BY <1>2, <1>3, <2>1, <2>3
    <2> QED BY <1>2, <2>2, <2>3
  <1>4. CASE tasks[i].state # "done"
    <2>1. Result(i) = [dir |-> <<NoDir, <<>>>>, type |-> <<>>, ok |-> FALSE]
      BY <1>1, <1>4
    <2> QED BY <1>4, <2>1
  <1> QED BY <1>3, <1>4

(* The results that were collected are those of the whole call.             *)
LEMMA ResultsAtEnd ==
  ASSUME IInv, Busy, Finish
  PROVE  /\ DOMAIN results = DOMAIN call.todo /\ DOMAIN results = DOMAIN tasks
         /\ \A i \in DOMAIN results : /\ results[i] = Result(i) /\ Ended(i) /\ TaskOK(i)
                                      /\ results[i].ok => results[i] = [dir |-> Dir(i),
                                           type |-> call.todo[i].type, ok |-> TRUE]
                                      /\ results[i].dir[1] \in {buildRoot, NoDir}
  <1>1. /\ results \in Seq(Range(results)) /\ Len(results) = Len(tasks)
        /\ tasks \in Seq(Range(tasks)) /\ call.todo \in Seq(Range(call.todo))
        /\ Len(tasks) = Len(call.todo)
        /\ \A i \in DOMAIN tasks : TaskOK(i) /\ Dir(i)[1] \in {buildRoot, NoDir}
        /\ \A i \in DOMAIN results : Ended(i) /\ results[i] = Result(i)
    BY DEF IInv, CallUnderWay, Finish, Collected
  <1>2. DOMAIN results = DOMAIN call.todo /\ DOMAIN results = DOMAIN tasks
    BY <1>1
  <1>4. \A i \in DOMAIN results : results[i].dir[1] \in {buildRoot, NoDir}
    BY <1>1, <1>2, ResultSays
  <1> QED BY <1>1, <1>2, <1>4, ResultSays

LEMMA FinishKeeps ==
  ASSUME IInv, Busy, Finish, UNCHANGED <<host, pointers, systems, history>>, Answered
  PROVE  IInv'
  <1>0. /\ RequestTypeOK /\ Pointed /\ CallUnderWay /\ ScopeCovered /\ NothingUngatedRuns
    BY DEF IInv
  <1>1. ~Busy'
    BY DEF Busy, Finish
  <1>2. RequestTypeOK' /\ NothingUngatedRuns'
    <2>1. turn' = [turn EXCEPT !.stage = "idle", !.form = "text", !.told = <<>>]
      BY DEF Answered
    <2>2. /\ DOMAIN turn' = {"stage", "form", "pending", "told", "barred", "did"}
          /\ turn'.barred = turn.barred /\ turn'.did = turn.did
      BY <1>0, <2>1 DEF RequestTypeOK
    <2> QED BY <1>0, <1>1, <2>2 DEF RequestTypeOK, NothingUngatedRuns, pointers, history
  <1>3. Pointed'
    <2>1. answer'.of = {results[i].dir[1] : i \in DOMAIN results} \ {NoDir}
      BY DEF Finish, Says
    <2>2. answer'.of \subseteq {buildRoot}
      BY <2>1, ResultsAtEnd
    <2> QED BY <1>0, <2>2 DEF Pointed, pointers, history
  <1>4. SuccessMeansBuilt'
    <2>1. /\ reply'.tool = call.tool /\ reply'.scope = call.scope
          /\ reply'.results = results /\ reply'.success = Success(results)
      <3> DEFINE won == Success(results)
      <3>1. reply' = [tool |-> call.tool, scope |-> call.scope, success |-> won,
                      results |-> results, blind |-> FALSE]
        BY Zenon DEF Finish, Reply
      <3> HIDE DEF won
      <3> QED BY <3>1 DEF won
    <2> SUFFICES ASSUME call.tool = "build", Success(results), ~astray, opened # NoDir,
                        NEW s \in Meant(call.scope, Range(systems[opened])), s.path # <<>> \/ s.dotted
                 PROVE  [dir |-> <<opened, s.path>>, type |-> s.type, ok |-> TRUE] \in Range(results)
      BY <2>1 DEF SuccessMeansBuilt, history
    <2>2. PICK i \in DOMAIN call.todo : Dir(i) = <<opened, s.path>> /\ call.todo[i].type = s.type
      BY <1>0 DEF ScopeCovered
    <2>3. i \in DOMAIN results /\ results[i].ok
      BY <2>2, ResultsAtEnd DEF Success
    <2>4. results[i] = [dir |-> <<opened, s.path>>, type |-> s.type, ok |-> TRUE]
      BY <2>2, <2>3, ResultsAtEnd
    <2> QED BY <2>3, <2>4 DEF Range
  <1> QED BY <1>1, <1>2, <1>3, <1>4 DEF IInv, CallUnderWay, ListFollows, ScopeCovered

LEMMA RunToolKeeps == ASSUME IInv, RunTool PROVE IInv'
  <1>1. /\ Busy /\ UNCHANGED <<host, pointers, systems, history>>
        /\ call' = NoCall => Answered
        /\ call' # NoCall => UNCHANGED turn
    BY DEF RunTool, ToolStep
  <1>2. ASSUME NEW i \in DOMAIN tasks, TaskStep(i), UNCHANGED <<call, results, reply, answer>>
        PROVE  IInv'
    <2>1. UNCHANGED turn
      BY <1>1, <1>2 DEF Busy
    <2> QED BY <1>1, <1>2, <2>1, TaskKeeps
  <1>3. CASE Collect
    <2>1. UNCHANGED turn
      BY <1>1, <1>3 DEF Busy, Collect
    <2> QED BY <1>1, <1>3, <2>1, CollectKeeps
  <1>4. CASE Finish
    BY <1>1, <1>4, FinishKeeps DEF Finish
  <1> QED BY <1>2, <1>3, <1>4 DEF RunTool, ToolStep

-----------------------------------------------------------------------------
(* A route past the gate is the route of an intent that may be taken.       *)
LEMMA GatedRoutes ==
  ASSUME NEW words, NEW route \in RouteQuery(words)
  PROVE  route.kind \in {"build", "plan"} => ~route.barred
  <1>1. ASSUME NEW i, NEW check \in MissingStates(i)
        PROVE  /\ Gate(i, check) \in {"build", "plan"} => ~Barred(i, check)
               /\ SemanticGate(i, check) \in {"build", "plan"} => ~Barred(i, check)
    <2>1. check.missing # {} => ~check.failed /\ Intents[i].needs # {}
      BY <1>1 DEF MissingStates
    <2> QED BY <2>1 DEF Gate, SemanticGate, Barred
  <1>2. \A kind, barred : Route(kind, barred).kind = kind /\ Route(kind, barred).barred = barred
    BY DEF Route
  <1>3. CASE route = Route("chat", FALSE)
    BY <1>2, <1>3
  <1>4. ASSUME NEW i, NEW check \in MissingStates(i),
               \/ route = Route(Gate(i, check), Barred(i, check))
               \/ route = Route(SemanticGate(i, check), Barred(i, check))
        PROVE  route.kind \in {"build", "plan"} => ~route.barred
    <2> DEFINE barred == Barred(i, check)
               gate == Gate(i, check)
               other == SemanticGate(i, check)
    <2>1. /\ gate \in {"build", "plan"} => ~barred
          /\ other \in {"build", "plan"} => ~barred
      BY <1>1
    <2>2. route = Route(gate, barred) \/ route = Route(other, barred)
      BY <1>4
    <2> HIDE DEF barred, gate, other
    <2> QED BY <1>2, <2>1, <2>2
  <1> QED BY <1>3, <1>4 DEF RouteQuery

LEMMA IdleIsNotBusy == IInv /\ turn.stage # "build" => ~Busy
  BY DEF IInv, CallUnderWay

LEMMA CompleteKeeps == ASSUME IInv, NEW words, Complete(words) PROVE IInv'
  <1>1. PICK route \in RouteQuery(words) :
          CASE route.kind = "build" -> RouteBuild(words, route.barred)
            [] route.kind = "plan" -> RoutePlan(route.barred)
            [] OTHER -> RouteElse(route.kind, route.barred)
    BY DEF Complete
  <1>2. ~Busy
    BY IdleIsNotBusy DEF Complete, Begin, Idle
  <1>3. route.kind \in {"build", "plan"} => ~route.barred
    BY GatedRoutes
  <1> DEFINE barred == route.barred
  <1> HIDE DEF barred
  <1>4. CASE route.kind = "build"
    <2>1. /\ CallTool("build", BuildScope(words)) /\ UNCHANGED <<pointers, systems, history>>
          /\ turn' = [Quiet EXCEPT !.stage = IF call' = NoCall THEN "idle" ELSE "build",
                                   !.barred = barred, !.did = "build"]
      BY <1>1, <1>4 DEF RouteBuild, barred
    <2>2. /\ turn'.stage = IF call' = NoCall THEN "idle" ELSE "build"
          /\ DOMAIN turn' = {"stage", "form", "pending", "told", "barred", "did"}
          /\ turn'.barred = barred
      BY <2>1 DEF Quiet
    <2> QED BY <1>3, <1>4, <2>1, <2>2, CallKeeps DEF barred
  <1>5. CASE route.kind = "plan"
    <2>1. /\ UNCHANGED <<call, reply, pointers, systems, history>> /\ answer'.of = {}
          /\ turn' = [Quiet EXCEPT !.barred = barred, !.did = "plan"]
      BY <1>1, <1>5 DEF RoutePlan, Says, callVars, stored, barred
    <2>2. /\ DOMAIN turn' = {"stage", "form", "pending", "told", "barred", "did"}
          /\ turn'.barred = barred
      BY <2>1 DEF Quiet
    <2> QED BY <1>2, <1>3, <1>5, <2>1, <2>2, TalkKeeps DEF barred
  <1>6. CASE route.kind \notin {"build", "plan"}
    <2> DEFINE stage == IF route.kind = "blocked" THEN "idle" ELSE "model"
    <2>1. /\ UNCHANGED <<call, reply, pointers, systems, history>> /\ answer'.of = {}
          /\ turn' = [Quiet EXCEPT !.stage = stage, !.barred = barred]
      BY <1>1, <1>6 DEF RouteElse, Says, callVars, stored, barred
    <2> HIDE DEF stage
    <2>2. /\ DOMAIN turn' = {"stage", "form", "pending", "told", "barred", "did"}
          /\ turn'.did = "nothing"
      BY <2>1 DEF Quiet
    <2> QED BY <1>2, <2>1, <2>2, TalkKeeps
  <1> QED BY <1>4, <1>5, <1>6

LEMMA ModelKeeps == ASSUME IInv, ModelStep \/ EditorAnswers PROVE IInv'
  <1>1. turn.stage \in {"model", "calls", "editor"}
    BY DEF ModelStep, ModelAnswers, RunJsonCall, RunXmlCall, Calling, ModelSums, EditorAnswers
  <1>2. /\ ~Busy
        /\ DOMAIN turn = {"stage", "form", "pending", "told", "barred", "did"}
        /\ turn.barred => turn.did = "nothing"
    BY <1>1, IdleIsNotBusy DEF IInv, RequestTypeOK, NothingUngatedRuns
  <1>3. UNCHANGED <<call, reply, pointers, systems, history, answer>>
    BY DEF ModelStep, ModelAnswers, RunJsonCall, RunXmlCall, ModelSums, EditorAnswers, RunCall,
           Elsewhere, projectVars, callVars, stored
  <1>4. /\ DOMAIN turn' = {"stage", "form", "pending", "told", "barred", "did"}
        /\ turn'.barred = turn.barred /\ turn'.did = turn.did
    <2>1. \A tool, as : Tell(tool, as) =>
            /\ DOMAIN turn' = {"stage", "form", "pending", "told", "barred", "did"}
            /\ turn'.barred = turn.barred /\ turn'.did = turn.did
      BY <1>2 DEF Tell
    <2>2. CASE Answered
      BY <1>2, <2>2 DEF Answered
    <2>3. CASE \E form \in {"json", "xml"}, calls \in CallLists :
                 turn' = [turn EXCEPT !.stage = "calls", !.form = form, !.pending = calls]
      BY <1>2, <2>3
    <2>4. ASSUME NEW tool, RunCall(tool)
          PROVE  /\ DOMAIN turn' = {"stage", "form", "pending", "told", "barred", "did"}
                 /\ turn'.barred = turn.barred /\ turn'.did = turn.did
      <3>1. (\E as : Tell(tool, as)) \/ turn' = [turn EXCEPT !.stage = "editor"]
        BY <2>4 DEF RunCall, CallEditor, CallQuery, CallServer
      <3>2. CASE turn' = [turn EXCEPT !.stage = "editor"]
        BY <1>2, <3>2
      <3> QED BY <2>1, <3>1, <3>2
    <2>5. CASE EditorAnswers
      BY <2>1, <2>5 DEF EditorAnswers
    <2> QED BY <2>2, <2>3, <2>4, <2>5
            DEF ModelStep, ModelAnswers, RunJsonCall, RunXmlCall, ModelSums
  <1> QED BY <1>2, <1>3, <1>4, TalkKeeps

LEMMA RequestNext == IInv /\ [Next]_vars => IInv'
  <1> SUFFICES ASSUME IInv, [Next]_vars PROVE IInv'
    OBVIOUS
  <1>1. CASE ProjectRequest
    BY <1>1, ProjectKeeps
  <1>2. ASSUME NEW tool, NEW scope, ToolsCall(tool, scope) PROVE IInv'
    <2>1. /\ CallTool(tool, scope) /\ UNCHANGED <<pointers, systems, history>>
          /\ turn' = [Quiet EXCEPT !.stage = IF call' = NoCall THEN "idle" ELSE "build"]
      BY <1>2 DEF ToolsCall
    <2>2. /\ turn'.stage = IF call' = NoCall THEN "idle" ELSE "build"
          /\ DOMAIN turn' = {"stage", "form", "pending", "told", "barred", "did"}
          /\ ~turn'.barred
      BY <2>1 DEF Quiet
    <2> QED BY <2>1, <2>2, CallKeeps
  <1>3. CASE \E words \in Queries : Complete(words)
    BY <1>3, CompleteKeeps
  <1>4. CASE PlanCreate
    <2>1. /\ ~Busy /\ turn' = Quiet /\ answer'.of = {}
          /\ UNCHANGED <<call, reply, pointers, systems, history>>
      BY <1>4, IdleIsNotBusy DEF PlanCreate, Begin, Idle, Says, callVars, stored
    <2> QED BY <2>1, TalkKeeps DEF Quiet
  <1>5. CASE RunTool
    BY <1>5, RunToolKeeps
  <1>6. CASE ModelStep \/ EditorAnswers
    BY <1>6, ModelKeeps
  <1>7. CASE UNCHANGED vars
    BY <1>7 DEF vars, projectVars, callVars, listVars, pointers, stored, history, IInv, RequestTypeOK,
                Pointed, CallUnderWay, TaskOK, ListFollows, ScopeCovered, SuccessMeansBuilt,
                NothingUngatedRuns, Busy, HasFfi, Ended, Result, Dir
  <1> QED BY <1>1, <1>2, <1>3, <1>4, <1>5, <1>6, <1>7 DEF Next

(* The inductive invariant of the requests.                                 *)
THEOREM RequestInvariant == Spec => []IInv
  BY RequestInit, RequestNext, PTL DEF Spec

(* As long as nothing was pointed elsewhere, every answer is about the      *)
(* project that was opened.                                                 *)
THEOREM AnswersAreOfOpen == Spec => []AnswersAboutOpenProject
  <1>1. IInv => AnswersAboutOpenProject
    BY DEF IInv, Pointed, AnswersAboutOpenProject
  <1> QED BY <1>1, RequestInvariant, PTL

(* A build that says success ran all its scope stands for, in the project   *)
(* that was opened, and each of them succeeded.                             *)
THEOREM BuildsWhatItSays == Spec => []SuccessMeansBuilt
  <1>1. IInv => SuccessMeansBuilt
    BY DEF IInv
  <1> QED BY <1>1, RequestInvariant, PTL

(* Words that stand for an intent that needs an approval, or a state that   *)
(* was found missing, start no build and make no plan.                      *)
THEOREM GateHolds == Spec => []NothingUngatedRuns
  <1>1. IInv => NothingUngatedRuns
    BY DEF IInv
  <1> QED BY <1>1, RequestInvariant, PTL

-----------------------------------------------------------------------------
(* The list on the screen.                                                  *)
Settles ==
  ~(call = NoCall /\ call' # NoCall /\ call'.tool = "build") =>
    Onward(widget, widget') /\ (final => widget' = widget)

LEMMA SameListSettles == widget' = widget => Settles
  BY DEF Settles, Onward

LEMMA TaskSettles ==
  ASSUME IInv, Busy, NEW i \in DOMAIN tasks, TaskStep(i), UNCHANGED call
  PROVE  Settles
  <1>1. CASE TaskRun(i) \/ TaskPanics(i)
    BY <1>1, SameListSettles DEF TaskRun, TaskPanics, listVars
  <1>2. CASE TaskBegin(i) \/ TaskEnd(i)
    <2>1. /\ \A j \in DOMAIN tasks \ {i} : tasks'[j] = tasks[j]
          /\ tasks[i].slot \in {"none", "running"} /\ tasks'[i].slot \in {tasks[i].slot, "running", "success", "error"}
          /\ DOMAIN tasks' = DOMAIN tasks
      BY TaskMoves
    <2>2. call.tool = "build" /\ widget' = IF HasFfi THEN widget ELSE Slots(tasks')
      <3>1. TaskOK(i)
        BY DEF IInv, CallUnderWay
      <3> QED BY <1>2, <3>1 DEF TaskBegin, TaskEnd, TaskOK, EmitWidgetUpdate
    <2>3. CASE HasFfi
      BY <2>2, <2>3, SameListSettles
    <2>4. CASE ~HasFfi
      <3>1. /\ ~final
            /\ \A j \in DOMAIN widget : widget[j] # "pending" =>
                 j \in DOMAIN tasks /\ widget[j] = tasks[j].slot /\ tasks[j].slot # "none"
        BY <2>2, <2>4 DEF IInv, ListFollows
      <3>2. ASSUME NEW j \in DOMAIN widget, widget[j] # "pending"
            PROVE  /\ j \in DOMAIN widget'
                   /\ Rank(widget[j]) < Rank(widget'[j]) \/ widget[j] = widget'[j]
        <4>1. /\ j \in DOMAIN tasks /\ widget[j] = tasks[j].slot /\ tasks[j].slot # "none"
              /\ tasks'[j].slot \in {tasks[j].slot, "running", "success", "error"}
              /\ j = i => tasks[j].slot = "running"
              /\ j # i => tasks'[j].slot = tasks[j].slot
          BY <2>1, <3>1, <3>2
        <4>2. j \in DOMAIN widget' /\ widget'[j] = tasks'[j].slot
          BY <2>1, <2>2, <2>4, <4>1 DEF Slots
        <4> QED BY <4>1, <4>2 DEF Rank
      <3> QED BY <3>1, <3>2 DEF Settles, Onward
    <2> QED BY <2>3, <2>4
  <1> QED BY <1>1, <1>2 DEF TaskStep

LEMMA FinishSettles == ASSUME IInv, Busy, Finish PROVE Settles
  <1>1. CASE call.tool # "build" \/ HasFfi
    BY <1>1, SameListSettles DEF Finish, listVars
  <1>2. CASE call.tool = "build" /\ ~HasFfi
    <2>1. widget' = [i \in DOMAIN results |-> IF results[i].ok THEN "success" ELSE "error"]
      BY <1>2 DEF Finish, Map
    <2>2. /\ ~final
          /\ \A j \in DOMAIN widget : widget[j] # "pending" =>
               j \in DOMAIN tasks /\ widget[j] = tasks[j].slot /\ tasks[j].slot # "none"
      BY <1>2 DEF IInv, ListFollows
    <2>3. ASSUME NEW j \in DOMAIN widget, widget[j] # "pending"
          PROVE  /\ j \in DOMAIN widget'
                 /\ Rank(widget[j]) < Rank(widget'[j]) \/ widget[j] = widget'[j]
      <3>1. j \in DOMAIN tasks /\ widget[j] = tasks[j].slot /\ tasks[j].slot # "none"
        BY <2>2, <2>3
      <3>2. j \in DOMAIN results /\ results[j] = Result(j) /\ TaskOK(j)
        BY <3>1, ResultsAtEnd
      <3>3. widget[j] \in {"running", "success", "error"}
        BY <3>1, <3>2 DEF TaskOK
      <3>4. widget[j] = "success" => results[j].ok
        BY <3>1, <3>2, ResultSays DEF TaskOK
      <3>5. widget[j] = "error" => ~results[j].ok
        BY <3>1, <3>2, ResultSays DEF TaskOK
      <3> QED BY <2>1, <3>2, <3>3, <3>4, <3>5 DEF Rank
    <2> QED BY <2>2, <2>3 DEF Settles, Onward
  <1> QED BY <1>1, <1>2

(* What is shown running stays in the list and only goes on, and after the  *)
(* closing update the list stays as it is.                                  *)
THEOREM ListSettles == Spec => WidgetSettles
  <1>1. ASSUME IInv, Next PROVE Settles
    <2>1. ASSUME NEW tool, NEW scope, CallTool(tool, scope) PROVE Settles
      <3>1. CASE Refused(tool, scope) \/ \E config \in BuildConfig : Nothing(tool, scope, config)
        BY <3>1, SameListSettles DEF Refused, Nothing, listVars
      <3>2. ASSUME NEW asked, Started(tool, scope, asked) PROVE Settles
        <4>1. CASE tool = "build"
          <5>1. call' = [tool |-> "build", scope |-> scope, todo |-> asked] /\ call = NoCall
            BY <2>1, <3>2, <4>1 DEF Started, CallTool, Busy
          <5>2. "todo" \in DOMAIN call' /\ "todo" \notin DOMAIN NoCall
            BY <5>1 DEF NoCall
          <5> QED BY <5>1, <5>2 DEF Settles
        <4>2. CASE tool # "build"
          BY <3>2, <4>2, SameListSettles DEF Started, listVars
        <4> QED BY <4>1, <4>2
      <3> QED BY <2>1, <3>1, <3>2 DEF CallTool
    <2>2. CASE \E tool \in Offered, scope \in Scopes : ToolsCall(tool, scope)
      BY <2>1, <2>2 DEF ToolsCall
    <2>3. CASE \E words \in Queries : Complete(words)
      <3>1. (\E words : CallTool("build", BuildScope(words))) \/ UNCHANGED callVars
        BY <2>3 DEF Complete, RouteBuild, RoutePlan, RouteElse
      <3> QED BY <2>1, <3>1, SameListSettles DEF callVars, listVars
    <2>4. CASE ProjectRequest \/ PlanCreate \/ ModelStep \/ EditorAnswers
      <3>1. UNCHANGED listVars
        BY <2>4 DEF ProjectRequest, PlanCreate, ModelStep, ModelAnswers, RunJsonCall, RunXmlCall,
                    ModelSums, EditorAnswers, RunCall, Elsewhere, callVars
      <3> QED BY <3>1, SameListSettles DEF listVars
    <2>5. CASE RunTool
      <3>1. CASE Collect
        BY <3>1, SameListSettles DEF Collect, listVars
      <3>2. CASE Finish
        BY <1>1, <2>5, <3>2, FinishSettles DEF RunTool, ToolStep
      <3>3. ASSUME NEW i \in DOMAIN tasks, TaskStep(i), UNCHANGED call PROVE Settles
        BY <1>1, <2>5, <3>3, TaskSettles DEF RunTool, ToolStep
      <3> QED BY <2>5, <3>1, <3>2, <3>3 DEF RunTool, ToolStep
    <2> QED BY <1>1, <2>2, <2>3, <2>4, <2>5 DEF Next
  <1>2. UNCHANGED vars => UNCHANGED <<call, widget, final>>
    BY DEF vars, callVars, listVars
  <1>3. IInv /\ [Next]_vars => [Settles]_<<call, widget, final>>
    BY <1>1, <1>2
  <1> QED BY <1>3, RequestInvariant, PTL DEF Spec, WidgetSettles, Settles

(***************************************************************************)
(* The library.  It keeps what components are built on, and a design       *)
(* applied to it keeps what was filled.                                    *)
(***************************************************************************)

\* An addition, however far it gets, takes no manifest away.
LEMMA WrittenKeepsManifest ==
    ASSUME LibraryTypeOK, NEW c \in Idents, NEW o \in WriteOutcomes
    PROVE  /\ Written(c, o) \in [manifest : BOOLEAN, code : Code]
           /\ library[c].manifest => Written(c, o).manifest
<1>1. library[c] \in [manifest : BOOLEAN, code : Code]
  BY DEF LibraryTypeOK
<1>2. CASE o = "failed"
  BY <1>1, <1>2 DEF Written
<1>3. CASE o = "manifest"
  BY <1>1, <1>3 DEF Written
<1>4. CASE o = "torn"
  BY <1>4 DEF Written, Code
<1>5. CASE o = "done"
  BY <1>5 DEF Written, Code
<1> QED
  BY <1>2, <1>3, <1>4, <1>5 DEF WriteOutcomes

\* The stubs of a design go into directories of the library.
LEMMA TargetsAreIdents ==
    ASSUME NEW d
    PROVE  Targets(d) \subseteq Idents
  BY DEF Targets, Stubs, Writable, Idents

LibraryInv == LibraryTypeOK /\ RequiredStays

LEMMA LibraryInvInit == LibraryInit => LibraryInv
<1> SUFFICES ASSUME LibraryInit PROVE LibraryInv
  OBVIOUS
<1>1. library \in [Idents -> [manifest : BOOLEAN, code : Code]]
  BY DEF LibraryInit, Shipped, Absent, Code
<1> QED
  BY <1>1 DEF LibraryInit, LibraryInv, LibraryTypeOK, RequiredStays

LEMMA InvApply ==
    ASSUME LibraryInv, NEW d, NEW outcome \in [Targets(d) -> WriteOutcomes], ApplyDesign(d, outcome)
    PROVE  LibraryInv'
<1>1. LibraryTypeOK
  BY DEF LibraryInv
<1>2. library' = [c \in Idents |-> IF c \in Targets(d) THEN Written(c, outcome[c]) ELSE library[c]]
  BY DEF ApplyDesign
<1>3. \A c \in Idents : /\ library'[c] \in [manifest : BOOLEAN, code : Code]
                        /\ library[c].manifest => library'[c].manifest
  <2> SUFFICES ASSUME NEW c \in Idents
               PROVE  /\ library'[c] \in [manifest : BOOLEAN, code : Code]
                      /\ library[c].manifest => library'[c].manifest
    OBVIOUS
  <2>1. CASE c \in Targets(d)
    <3>1. outcome[c] \in WriteOutcomes
      BY <2>1
    <3>2. library'[c] = Written(c, outcome[c])
      BY <1>2, <2>1
    <3> QED
      BY <1>1, <3>1, <3>2, WrittenKeepsManifest
  <2>2. CASE c \notin Targets(d)
    BY <1>1, <1>2, <2>2 DEF LibraryTypeOK
  <2> QED
    BY <2>1, <2>2
<1>4. LibraryTypeOK'
  <2>1. library' \in [Idents -> [manifest : BOOLEAN, code : Code]]
    BY <1>2, <1>3
  <2> QED
    BY <1>1, <2>1 DEF LibraryTypeOK, ApplyDesign
<1>5. RequiredStays'
  <2>1. requires' \subseteq requires
    BY DEF ApplyDesign
  <2> QED
    BY <1>3, <2>1 DEF LibraryInv, RequiredStays, ComponentNames
<1> QED
  BY <1>4, <1>5 DEF LibraryInv

LEMMA InvAdd ==
    ASSUME LibraryInv, NEW name \in Names, NEW kind, NEW bus, NEW o \in WriteOutcomes,
           AddComponent(name, kind, bus, o)
    PROVE  LibraryInv'
<1> DEFINE c == IdentOf[name]
<1>1. c \in Idents
  BY DEF Idents
<1>2. LibraryTypeOK
  BY DEF LibraryInv
<1>3. /\ Written(c, o) \in [manifest : BOOLEAN, code : Code]
      /\ library[c].manifest => Written(c, o).manifest
  BY <1>1, <1>2, WrittenKeepsManifest
<1>4. library' = [library EXCEPT ![c] = Written(c, o)]
  BY DEF AddComponent
<1>5. library' \in [Idents -> [manifest : BOOLEAN, code : Code]]
  BY <1>1, <1>2, <1>3, <1>4 DEF LibraryTypeOK
<1>6. \A b \in Idents : library[b].manifest => library'[b].manifest
  BY <1>1, <1>2, <1>3, <1>4 DEF LibraryTypeOK
<1>7. requires' \subseteq requires
  BY DEF AddComponent
<1>8. LibraryTypeOK'
  BY <1>2, <1>5, <1>7 DEF LibraryTypeOK, AddComponent, Request
<1> QED
  BY <1>6, <1>7, <1>8 DEF LibraryInv, RequiredStays, ComponentNames

\* A component goes only when no other names it, and its own REQUIRES go with it.
LEMMA InvRemove ==
    ASSUME LibraryInv, NEW c \in Idents, RemoveComponent(c)
    PROVE  LibraryInv'
<1>1. LibraryTypeOK
  BY DEF LibraryInv
<1>2. PICK left \in Remains(c) : library' = [library EXCEPT ![c] = left]
  BY DEF RemoveComponent
<1>3. left \in [manifest : BOOLEAN, code : Code]
  <2>1. library[c] \in [manifest : BOOLEAN, code : Code]
    BY <1>1 DEF LibraryTypeOK
  <2> QED
    BY <2>1 DEF Remains, Code
<1>4. requires' = {p \in requires : library'[p[1]].manifest}
  BY DEF RemoveComponent
<1>5. LibraryTypeOK'
  BY <1>1, <1>2, <1>3, <1>4 DEF LibraryTypeOK, RemoveComponent, Request
<1>6. RequiredStays'
  <2> SUFFICES ASSUME NEW p \in requires'
               PROVE  p[1] \in ComponentNames' /\ p[2] \in ComponentNames'
    BY DEF RequiredStays
  <2>1. p \in requires /\ library'[p[1]].manifest
    BY <1>4
  <2>2. p \in Idents \X Idents /\ p[1] \in ComponentNames /\ p[2] \in ComponentNames
    BY <2>1 DEF LibraryInv, LibraryTypeOK, RequiredStays
  <2>3. p[1] \in ComponentNames'
    BY <2>1, <2>2 DEF ComponentNames
  <2>4. CASE p[2] = c
    <3>1. p[1] = c
      <4>1. RequiredBy(c) = {}
        BY DEF RemoveComponent
      <4>2. p = <<p[1], c>>
        BY <2>2, <2>4
      <4> QED
        BY <2>1, <2>2, <4>1, <4>2 DEF RequiredBy
    <3> QED
      BY <2>3, <2>4, <3>1
  <2>5. CASE p[2] # c
    <3>1. p[2] \in Idents /\ library[p[2]].manifest
      BY <2>2 DEF ComponentNames
    <3>2. library'[p[2]] = library[p[2]]
      BY <1>1, <1>2, <2>5, <3>1 DEF LibraryTypeOK
    <3>3. p[2] \in ComponentNames'
      BY <3>1, <3>2 DEF ComponentNames
    <3> QED
      BY <2>3, <3>3
  <2> QED
    BY <2>3, <2>4, <2>5
<1> QED
  BY <1>5, <1>6 DEF LibraryInv

LEMMA InvFill ==
    ASSUME LibraryInv, NEW c \in Idents, Fill(c)
    PROVE  LibraryInv'
<1>1. LibraryTypeOK
  BY DEF LibraryInv
<1>2. library[c] \in [manifest : BOOLEAN, code : Code]
  BY <1>1 DEF LibraryTypeOK
<1>3. library' = [library EXCEPT ![c] = [@ EXCEPT !.code = "filled"]]
  BY DEF Fill
<1> DEFINE full == [library[c] EXCEPT !.code = "filled"]
<1>4. full \in [manifest : BOOLEAN, code : Code] /\ full.manifest = library[c].manifest
  BY <1>2 DEF Code
<1>5. library' = [library EXCEPT ![c] = full]
  BY <1>3
<1> HIDE DEF full
<1>6. library' \in [Idents -> [manifest : BOOLEAN, code : Code]]
  BY <1>1, <1>4, <1>5 DEF LibraryTypeOK
<1>7. \A b \in Idents : library[b].manifest => library'[b].manifest
  BY <1>1, <1>4, <1>5 DEF LibraryTypeOK
<1> QED
  BY <1>1, <1>6, <1>7 DEF LibraryInv, LibraryTypeOK, RequiredStays, ComponentNames, Fill

LEMMA LibraryInvNext == LibraryInv /\ [LibraryNext]_libraryVars => LibraryInv'
<1> SUFFICES ASSUME LibraryInv, [LibraryNext]_libraryVars PROVE LibraryInv'
  OBVIOUS
<1>1. CASE Open
  BY <1>1 DEF Open, LibraryInv, LibraryTypeOK, RequiredStays, ComponentNames
<1>2. ASSUME NEW d \in Revisions, Edit(d) PROVE LibraryInv'
  BY <1>2 DEF Edit, LibraryInv, LibraryTypeOK, RequiredStays, ComponentNames
<1>3. CASE Apply
  BY <1>3, InvApply DEF Apply
<1>4. ASSUME NEW name \in Names, NEW kind \in {"driver", "library"}, NEW bus \in Buses,
             NEW o \in WriteOutcomes, AddComponent(name, kind, bus, o)
      PROVE  LibraryInv'
  BY <1>4, InvAdd
<1>5. ASSUME NEW c \in Idents, RemoveComponent(c) PROVE LibraryInv'
  BY <1>5, InvRemove
<1>6. ASSUME NEW c \in Idents, Fill(c) PROVE LibraryInv'
  BY <1>6, InvFill
<1>7. ASSUME NEW b \in Idents, NEW c \in Idents, Require(b, c) PROVE LibraryInv'
  BY <1>7 DEF Require, Request, LibraryInv, LibraryTypeOK, RequiredStays, ComponentNames
<1>8. CASE UNCHANGED libraryVars
  BY <1>8 DEF libraryVars, LibraryInv, LibraryTypeOK, RequiredStays, ComponentNames
<1> QED
  BY <1>1, <1>2, <1>3, <1>4, <1>5, <1>6, <1>7, <1>8 DEF LibraryNext

\* However components are added over, torn, removed and filled, every name a
\* manifest requires is a component that is there (remove_component refuses what
\* others are built on).
THEOREM RequirementsResolve == LibrarySpec => []RequiredStays
<1>1. LibraryInv => RequiredStays
  BY DEF LibraryInv
<1> QED
  BY LibraryInvInit, LibraryInvNext, <1>1, PTL DEF LibrarySpec

\* Applying a design a second time, or any other design whose names are names of
\* directories, writes over no component that somebody filled (component_plan).
THEOREM DesignSparesWork == LibrarySpec => DesignKeepsWork
<1>1. ASSUME LibraryInv, [LibraryNext]_libraryVars, \A d \in accepted : Spelt(d), Apply,
             NEW c \in ComponentNames, library[c].code = "filled"
      PROVE  library'[c].code = "filled"
  <2>0. PICK d \in accepted : \E outcome \in [Targets(d) -> WriteOutcomes] : ApplyDesign(d, outcome)
    BY <1>1 DEF Apply
  <2>1. PICK outcome \in [Targets(d) -> WriteOutcomes] : ApplyDesign(d, outcome)
    BY <2>0
  <2>2. c \notin Targets(d)
    <3> SUFFICES ASSUME c \in Targets(d) PROVE FALSE
      OBVIOUS
    <3>1. PICK u \in Stubs(d) : c = IdentOf[u.id]
      BY DEF Targets
    <3>2. u \in ToAdd(d, ComponentNames) /\ u.id \in Names
      BY <3>1 DEF Stubs, Writable
    <3>3. u \in Components(d) /\ u.id \notin ComponentNames
      BY <3>2 DEF ToAdd, Shaped, Present
    <3>4. u.id = c
      BY <1>1, <3>1, <3>2, <3>3 DEF Spelt
    <3> QED
      BY <1>1, <3>3, <3>4
  <2>3. c \in Idents
    BY <1>1 DEF ComponentNames
  <2>4. library'[c] = library[c]
    BY <2>1, <2>2, <2>3 DEF ApplyDesign
  <2> QED
    BY <1>1, <2>4
<1>2. LibraryInv /\ [LibraryNext]_libraryVars =>
          [\A c \in ComponentNames :
               library[c].code = "filled" /\ library'[c].code # "filled" =>
                   ~((\A d \in accepted : Spelt(d)) /\ Apply)]_libraryVars
  BY <1>1
<1> QED
  BY LibraryInvInit, LibraryInvNext, <1>2, PTL DEF LibrarySpec, DesignKeepsWork

-----------------------------------------------------------------------------
(* What an application requires.                                           *)

\* The designs at hand are among those that can be stated.
DesignsStated == text \cup accepted \cup report.about \subseteq Texts \cup Revisions

\* A design applied without an error or a problem has its components in the
\* library: there already, or written whole just now.
LEMMA ApplyResolves ==
    ASSUME LibraryInv, NEW d \in Texts \cup Revisions, NEW outcome \in [Targets(d) -> WriteOutcomes],
           ApplyDesign(d, outcome)
    PROVE  RequiresResolve'
<1> SUFFICES ASSUME Agreed(d), report'.errors \cup report'.problems = {}
             PROVE  RequiresBlock(d) \subseteq Framework \cup Emitted(d) \cup ComponentNames'
  <2>1. report'.about = {d}
    BY DEF ApplyDesign
  <2> QED
    BY <2>1 DEF RequiresResolve
<1> DEFINE added == {u \in Stubs(d) : outcome[IdentOf[u.id]] = "done"}
<1>1. /\ report'.errors = IdsOf(ToAdd(d, ComponentNames) \ added)
      /\ report'.problems = PlanProblems(d, ComponentNames)
  BY DEF ApplyDesign
<1>2. library' = [c \in Idents |-> IF c \in Targets(d) THEN Written(c, outcome[c]) ELSE library[c]]
  BY DEF ApplyDesign
<1>3. \A u : u \notin ToAdd(d, ComponentNames) \ added
  BY <1>1 DEF IdsOf
<1>4. \A u : u \notin Conflicts(d, ComponentNames) \cup Claimed(d, ComponentNames)
                          \cup (Components(d) \ (Published(d) \cup Shaped(d)))
  BY <1>1 DEF PlanProblems, IdsOf
<1>5. ASSUME NEW u \in Components(d) \ Published(d)
      PROVE  ComponentIdent[u.id] \in ComponentNames'
  <2>1. u \in Present(d, ComponentNames) \cup added
    BY <1>3, <1>4 DEF ToAdd
  <2>2. CASE u \in Present(d, ComponentNames)
    <3>1. u.id \in ComponentNames
      BY <2>2 DEF Present
    <3>2. u.id \in Idents /\ library[u.id].manifest /\ ComponentIdent[u.id] = u.id
      BY <3>1, LibraryAssumption DEF ComponentNames, Idents
    <3>3. library'[u.id].manifest
      <4>1. CASE u.id \in Targets(d)
        <5>1. outcome[u.id] \in WriteOutcomes /\ library'[u.id] = Written(u.id, outcome[u.id])
          BY <1>2, <3>2, <4>1
        <5> QED
          BY <3>2, <5>1, WrittenKeepsManifest DEF LibraryInv
      <4>2. CASE u.id \notin Targets(d)
        BY <1>2, <3>2, <4>2
      <4> QED
        BY <4>1, <4>2
    <3> QED
      BY <3>2, <3>3 DEF ComponentNames
  <2>3. CASE u \in added
    <3>1. u \in Stubs(d) /\ outcome[IdentOf[u.id]] = "done" /\ u.id \in Names
      BY <2>3 DEF Stubs, Writable
    <3>2. IdentOf[u.id] \in Targets(d) /\ IdentOf[u.id] \in Idents
      BY <3>1 DEF Targets, Idents
    <3>3. library'[IdentOf[u.id]] = Written(IdentOf[u.id], "done")
      BY <1>2, <3>1, <3>2
    <3>4. library'[IdentOf[u.id]].manifest
      BY <3>3 DEF Written
    <3>5. ComponentIdent[u.id] = IdentOf[u.id]
      BY <3>1 DEF Agreed
    <3> QED
      BY <3>2, <3>4, <3>5 DEF ComponentNames
  <2> QED
    BY <2>1, <2>2, <2>3
<1>6. Frameworks[d.framework] \subseteq Framework
  BY LibraryAssumption DEF Framework, IsDesign
<1> QED
  BY <1>5, <1>6 DEF RequiresBlock

LEMMA ResolveInit == LibraryInit => DesignsStated /\ RequiresResolve
  BY DEF LibraryInit, DesignsStated, RequiresResolve, NoReport

\* Every step but the application of a design leaves the library as the answer
\* found it, or takes the answer away.
LEMMA ResolveNext ==
    ASSUME LibraryInv, DesignsStated, RequiresResolve, [LibraryNext]_libraryVars
    PROVE  DesignsStated' /\ RequiresResolve'
<1>1. ASSUME library' = library, report' = report, text' \cup accepted' \subseteq Texts \cup Revisions
      PROVE  DesignsStated' /\ RequiresResolve'
  BY <1>1 DEF DesignsStated, RequiresResolve, ComponentNames
<1>2. ASSUME report' = NoReport, text' = text, accepted' = accepted
      PROVE  DesignsStated' /\ RequiresResolve'
  BY <1>2 DEF DesignsStated, RequiresResolve, NoReport
<1>3. CASE Open
  BY <1>1, <1>3 DEF Open, DesignsStated
<1>4. ASSUME NEW d \in Revisions, Edit(d) PROVE DesignsStated' /\ RequiresResolve'
  BY <1>1, <1>4 DEF Edit, DesignsStated
<1>5. CASE Apply
  <2>1. PICK d \in accepted : \E outcome \in [Targets(d) -> WriteOutcomes] : ApplyDesign(d, outcome)
    BY <1>5 DEF Apply
  <2>2. PICK outcome \in [Targets(d) -> WriteOutcomes] : ApplyDesign(d, outcome)
    BY <2>1
  <2>3. d \in Texts \cup Revisions
    BY DEF DesignsStated
  <2>4. DesignsStated'
    <3>1. text' = text /\ accepted' = accepted /\ report'.about = {d}
      BY <2>2 DEF ApplyDesign
    <3> QED
      BY <2>3, <3>1 DEF DesignsStated
  <2> QED
    BY <2>2, <2>3, <2>4, ApplyResolves
<1>6. ASSUME NEW name \in Names, NEW kind \in {"driver", "library"}, NEW bus \in Buses,
             NEW o \in WriteOutcomes, AddComponent(name, kind, bus, o)
      PROVE  DesignsStated' /\ RequiresResolve'
  BY <1>2, <1>6 DEF AddComponent, Request
<1>7. ASSUME NEW c \in Idents, RemoveComponent(c) \/ Fill(c) PROVE DesignsStated' /\ RequiresResolve'
  BY <1>2, <1>7 DEF RemoveComponent, Fill, Request
<1>8. ASSUME NEW b \in Idents, NEW c \in Idents, Require(b, c) PROVE DesignsStated' /\ RequiresResolve'
  BY <1>2, <1>8 DEF Require, Request
<1>9. CASE UNCHANGED libraryVars
  BY <1>1, <1>9 DEF libraryVars, DesignsStated
<1> QED
  BY <1>3, <1>4, <1>5, <1>6, <1>7, <1>8, <1>9 DEF LibraryNext

\* When a design was applied without an error and without a problem, the manifest
\* of the application it describes requires nothing that is missing, for as long
\* as the library is as the answer left it (apply_component_plan, requires_block).
THEOREM DesignResolves == LibrarySpec => []RequiresResolve
<1> DEFINE R == LibraryInv /\ DesignsStated /\ RequiresResolve
<1>1. LibraryInit => R
  BY LibraryInvInit, ResolveInit
<1>2. R /\ [LibraryNext]_libraryVars => R'
  BY LibraryInvNext, ResolveNext
<1>3. R => RequiresResolve
  OBVIOUS
<1> QED
  BY <1>1, <1>2, <1>3, PTL DEF LibrarySpec

(***************************************************************************)
(* The cycles of a design.                                                 *)
(***************************************************************************)

(* Where the wiring leads: the ends of the edges that leave a node.         *)
LEMMA SuccessorsAreEnds ==
  ASSUME NEW V, NEW d, d.wiring \in Seq({<<>>} \union (V \X V)), NEW node \in V
  PROVE  /\ Successors(d, node) \in Seq(V)
         /\ Len(Successors(d, node)) <= Len(d.wiring)
         /\ \A m \in V : m \in Range(Successors(d, node)) <=> <<node, m>> \in Edges(d)
  <1> DEFINE w == d.wiring
             n == Len(w)
             Leaves(k) == w[k] # <<>> /\ w[k][1] = node
             Grown(f, k) == IF k = 0 THEN <<>>
                            ELSE IF w[k] # <<>> /\ w[k][1] = node
                                 THEN Append(f[k - 1], w[k][2])
                                 ELSE f[k - 1]
             X == 0..n
             Fits == [k \in X |-> Seq(V)]
             rank == [k \in X |-> k]
             F == [X -> Seq(V)]
             body == [f \in F |-> [k \in X |-> Grown(f, k)]]
             Solves(f) == f = [k \in X |-> Grown(f, k)]
             out == CHOOSE f : Solves(f)
             EndsBy(k) == {m \in V : \E i \in 1..k : w[i] = <<node, m>>}
             Q == {k \in Nat : k <= n => Len(out[k]) <= k /\ Range(out[k]) = EndsBy(k)}
  <1>0. n \in Nat
    BY LenProperties
  <1>1. ASSUME NEW k \in 1..n PROVE w[k] = <<>> \/ w[k] \in V \X V
    BY <1>1
  <1>2. ASSUME NEW k \in 1..n, Leaves(k) PROVE w[k] = <<node, w[k][2]>> /\ w[k][2] \in V
    BY <1>1, <1>2
  <1>3. ASSUME NEW k \in 1..n, ~Leaves(k), NEW m \in V PROVE w[k] # <<node, m>>
    <2> SUFFICES ASSUME w[k] = <<node, m>> PROVE FALSE
      OBVIOUS
    <2>1. w[k] # <<>> /\ w[k][1] = node
      BY <1>1
    <2> QED BY <1>3, <2>1
  <1> HIDE DEF w
  <1>4. Descends(X, Seq(V), Fits, rank, body, F)
    <2>1. Fits \in [X -> SUBSET Seq(V)] /\ \A k \in X : Fits[k] # {}
      <3>1. <<>> \in Seq(V)
        OBVIOUS
      <3> QED BY <3>1
    <2>2. rank \in [X -> Nat]
      BY <1>0
    <2>3. \A f : f \in F <=> f \in [X -> Seq(V)] /\ \A k \in X : f[k] \in Fits[k]
      OBVIOUS
    <2>4. \A f \in F : body[f] \in F
      <3> SUFFICES ASSUME NEW f \in F, NEW k \in X PROVE Grown(f, k) \in Seq(V)
        <4> HIDE DEF Grown, X
        <4> QED OBVIOUS
      <3>1. CASE k = 0
        BY <3>1
      <3>2. CASE k # 0
        <4>1. k \in 1..n /\ k - 1 \in X
          BY <1>0, <3>2
        <4>2. f[k - 1] \in Seq(V)
          BY <4>1
        <4> QED BY <1>2, <3>2, <4>1, <4>2
      <3> QED BY <3>1, <3>2
    <2>5. \A f, g \in F, k \in X :
            (\A j \in X : rank[j] < rank[k] => f[j] = g[j]) => body[f][k] = body[g][k]
      <3> SUFFICES ASSUME NEW f \in F, NEW g \in F, NEW k \in X,
                          \A j \in X : j < k => f[j] = g[j]
                   PROVE  Grown(f, k) = Grown(g, k)
        <4>1. \A f \in F, k \in X : body[f][k] = Grown(f, k)
          OBVIOUS
        <4>2. \A k \in X : rank[k] = k
          OBVIOUS
        <4> HIDE DEF body, rank, Grown, F, X
        <4> QED BY <4>1, <4>2
      <3>1. CASE k = 0
        BY <3>1
      <3>2. CASE k # 0
        <4>1. k - 1 \in X /\ k - 1 < k
          BY <1>0, <3>2
        <4>2. f[k - 1] = g[k - 1]
          BY <4>1
        <4> QED BY <3>2, <4>2
      <3> QED BY <3>1, <3>2
    <2> HIDE DEF Fits, rank, F, X, body
    <2> QED BY <2>1, <2>2, <2>3, <2>4, <2>5 DEF Descends
  <1>5. PICK f \in F : body[f] = f
    <2> HIDE DEF Fits, rank, F, X, body
    <2> QED BY <1>4, RecursionExists
  <1>6. \E g \in F : Solves(g)
    <2> HIDE DEF Grown, X
    <2> QED BY <1>5
  <1>7. Solves(out)
    <2> HIDE DEF Solves
    <2> QED BY <1>6
  <1>8. Successors(d, node) = out[n]
    BY DEF Successors, w
  <1> HIDE DEF out
  <1>9. \A k \in X : out[k] = Grown(out, k)
    <2> HIDE DEF Grown, X
    <2> QED BY <1>7
  <1>10. out[0] = <<>> /\ \A k \in 1..n : out[k] = IF Leaves(k) THEN Append(out[k - 1], w[k][2]) ELSE out[k - 1]
    BY <1>0, <1>9
  <1> DEFINE R == {k \in Nat : k <= n => out[k] \in Seq(V) /\ Len(out[k]) <= k /\ Range(out[k]) = EndsBy(k)}
  <1>11. 0 \in R
    <2>1. out[0] = <<>>
      BY <1>10
    <2>2. EndsBy(0) = {} /\ Range(out[0]) = {}
      BY <2>1 DEF Range
    <2> HIDE DEF EndsBy
    <2>3. out[0] \in Seq(V) /\ Len(out[0]) <= 0
      BY <2>1
    <2> QED BY <2>2, <2>3
  <1>12. ASSUME NEW k \in Nat, k \in R PROVE k + 1 \in R
    <2> HIDE DEF EndsBy, Leaves
    <2> SUFFICES ASSUME k + 1 <= n
                 PROVE  /\ out[k + 1] \in Seq(V) /\ Len(out[k + 1]) <= k + 1
                        /\ Range(out[k + 1]) = EndsBy(k + 1)
      OBVIOUS
    <2>1. k + 1 \in 1..n /\ (k + 1) - 1 = k /\ k <= n
      BY <1>0
    <2>2. out[k] \in Seq(V) /\ Len(out[k]) <= k /\ Range(out[k]) = EndsBy(k)
      BY <1>12, <2>1
    <2>3. \A i \in 1..(k + 1) : i \in 1..k \/ i = k + 1
      OBVIOUS
    <2>4. \A i \in 1..k : i \in 1..(k + 1)
      OBVIOUS
    <2>5. out[k + 1] = IF Leaves(k + 1) THEN Append(out[k], w[k + 1][2]) ELSE out[k]
      BY <1>10, <2>1
    <2>6. CASE Leaves(k + 1)
      <3> DEFINE m == w[k + 1][2]
      <3>1. w[k + 1] = <<node, m>> /\ m \in V
        BY <1>2, <2>1, <2>6
      <3>2. out[k + 1] = Append(out[k], m)
        BY <2>5, <2>6
      <3> HIDE DEF m
      <3>3. Range(out[k + 1]) = Range(out[k]) \union {m}
        BY <2>2, <3>1, <3>2, RangeOfAppend
      <3>4. EndsBy(k + 1) = EndsBy(k) \union {m}
        <4>1. k + 1 \in 1..(k + 1)
          OBVIOUS
        <4> QED BY <2>3, <2>4, <3>1, <4>1 DEF EndsBy
      <3>5. out[k + 1] \in Seq(V) /\ Len(out[k + 1]) = Len(out[k]) + 1 /\ Len(out[k]) \in Nat
        BY <2>2, <3>1, <3>2
      <3> QED BY <2>2, <3>3, <3>4, <3>5
    <2>7. CASE ~Leaves(k + 1)
      <3>1. EndsBy(k + 1) = EndsBy(k)
        <4>1. \A m \in V : w[k + 1] # <<node, m>>
          BY <1>3, <2>1, <2>7
        <4> QED BY <2>3, <2>4, <4>1 DEF EndsBy
      <3>2. Len(out[k]) \in Nat
        BY <2>2
      <3> QED BY <2>2, <2>5, <2>7, <3>1, <3>2
    <2> QED BY <2>6, <2>7
  <1>13. n \in R
    <2> HIDE DEF R
    <2> QED BY <1>0, <1>11, <1>12, NaturalsInSet
  <1>14. EndsBy(n) = {m \in V : <<node, m>> \in Edges(d)}
    <2>1. Edges(d) = {e \in {w[i] : i \in 1..n} : e # <<>>}
      <3>1. DOMAIN w = 1..n
        BY LenProperties DEF w
      <3> QED BY <3>1 DEF Edges, Elements, ToSet, w
    <2> QED BY <2>1
  <1>15. /\ out[n] \in Seq(V) /\ Len(out[n]) <= n /\ Range(out[n]) = EndsBy(n)
    <2> HIDE DEF EndsBy
    <2> QED BY <1>0, <1>13
  <1> HIDE DEF EndsBy
  <1> QED BY <1>8, <1>14, <1>15 DEF w

-----------------------------------------------------------------------------
(* The depth-first search of find_cycle over any finite graph, next[n] the  *)
(* list of where n leads: the walk below a node, the walk after one that is *)
(* finished, the walk after one that is finished now, and the cycle that is *)
(* there when a node is met on its own path.                                *)
Leads(V, next, most) ==
  /\ IsFiniteSet(V)
  /\ next \in [V -> Seq(V)]
  /\ most \in Nat /\ \A n \in V : Len(next[n]) <= most

Walks(V)         == [left : Seq(V), path : Seq(V), done : SUBSET V, cycle : Seq(V)]
WalkInto(next, s) == [s EXCEPT !.left = next[Head(s.left)], !.path = Append(s.path, Head(s.left))]
WalkPast(s)      == [s EXCEPT !.left = Tail(s.left)]
WalkBack(s, b)   == [s EXCEPT !.left = Tail(s.left), !.done = b.done \union {Head(s.left)}]
Met(s)           == CHOOSE i \in DOMAIN s.path : s.path[i] = Head(s.left)
WalkFound(s)     == [s EXCEPT !.cycle = Append(SubSeq(s.path, Met(s), Len(s.path)), Head(s.left))]

Walk(next, f, s) ==
  IF s.left = <<>> THEN s
  ELSE IF Head(s.left) \in Range(s.path) THEN WalkFound(s)
  ELSE IF Head(s.left) \in s.done THEN f[WalkPast(s)]
  ELSE IF f[WalkInto(next, s)].cycle # <<>> THEN f[WalkInto(next, s)]
  ELSE f[WalkBack(s, f[WalkInto(next, s)])]

LEMMA WalksClosed ==
  ASSUME NEW V, NEW next \in [V -> Seq(V)], NEW s \in Walks(V), s.left # <<>>
  PROVE  /\ Head(s.left) \in V /\ Tail(s.left) \in Seq(V)
         /\ WalkPast(s) = [left |-> Tail(s.left), path |-> s.path, done |-> s.done, cycle |-> s.cycle]
         /\ WalkPast(s) \in Walks(V)
         /\ WalkInto(next, s) = [left |-> next[Head(s.left)], path |-> Append(s.path, Head(s.left)),
                                 done |-> s.done, cycle |-> s.cycle]
         /\ WalkInto(next, s) \in Walks(V)
         /\ \A b \in Walks(V) :
              /\ WalkBack(s, b) = [left |-> Tail(s.left), path |-> s.path,
                                   done |-> b.done \union {Head(s.left)}, cycle |-> s.cycle]
              /\ WalkBack(s, b) \in Walks(V)
  <1> DEFINE h == Head(s.left)
             t == Tail(s.left)
  <1>1. /\ s.left \in Seq(V) /\ s.path \in Seq(V) /\ s.done \in SUBSET V /\ s.cycle \in Seq(V)
        /\ s = [left |-> s.left, path |-> s.path, done |-> s.done, cycle |-> s.cycle]
    BY DEF Walks
  <1>2. h \in V /\ t \in Seq(V)
    BY <1>1, HeadTailProperties
  <1>3. next[h] \in Seq(V) /\ Append(s.path, h) \in Seq(V)
    <2> HIDE DEF h
    <2> QED BY <1>1, <1>2
  <1> DEFINE p == Append(s.path, h)
  <1>4. WalkPast(s) = [s EXCEPT !.left = t] /\ WalkInto(next, s) = [s EXCEPT !.left = next[h], !.path = p]
    BY DEF WalkPast, WalkInto
  <1>5. \A b : WalkBack(s, b) = [s EXCEPT !.left = t, !.done = b.done \union {h}]
    BY DEF WalkBack
  <1> HIDE DEF h, t, p
  <1>6. WalkPast(s) = [left |-> t, path |-> s.path, done |-> s.done, cycle |-> s.cycle]
    BY <1>4 DEF Walks
  <1>7. WalkInto(next, s) = [left |-> next[h], path |-> p, done |-> s.done, cycle |-> s.cycle]
    BY <1>4 DEF Walks
  <1>8. ASSUME NEW b \in Walks(V)
        PROVE  WalkBack(s, b) = [left |-> t, path |-> s.path, done |-> b.done \union {h}, cycle |-> s.cycle]
    BY <1>5 DEF Walks
  <1>9. \A b \in Walks(V) : b.done \union {h} \in SUBSET V
    BY <1>2 DEF Walks
  <1>10. p \in Seq(V)
    BY <1>3 DEF p
  <1>11. WalkPast(s) \in Walks(V)
    BY <1>1, <1>2, <1>6 DEF Walks
  <1>12. WalkInto(next, s) \in Walks(V)
    BY <1>1, <1>3, <1>7, <1>10 DEF Walks
  <1>13. ASSUME NEW b \in Walks(V) PROVE WalkBack(s, b) \in Walks(V)
    <2> DEFINE finished == b.done \union {h}
    <2>1. WalkBack(s, b) = [left |-> t, path |-> s.path, done |-> finished, cycle |-> s.cycle]
      BY <1>8, <1>13
    <2>2. finished \in SUBSET V
      BY <1>9, <1>13
    <2> HIDE DEF finished
    <2> QED BY <1>1, <1>2, <2>1, <2>2 DEF Walks
  <1> QED BY <1>2, <1>6, <1>7, <1>8, <1>11, <1>12, <1>13 DEF h, t, p

(* A node met on its own path: what is reported is in the graph.            *)
LEMMA FoundIsWalk ==
  ASSUME NEW V, NEW s \in Walks(V), s.left # <<>>, Head(s.left) \in Range(s.path)
  PROVE  LET c == WalkFound(s).cycle
             k == Len(s.path) - Met(s) + 1
         IN  /\ WalkFound(s) \in Walks(V)
             /\ Met(s) \in 1..Len(s.path) /\ k \in Nat /\ k >= 1
             /\ Len(c) = k + 1
             /\ \A i \in 1..k : c[i] = s.path[Met(s) + i - 1]
             /\ c[k + 1] = Head(s.left)
             /\ s.path[Met(s)] = Head(s.left)
  <1> DEFINE h == Head(s.left)
             p == s.path
             m == Met(s)
             k == Len(p) - m + 1
             b == SubSeq(p, m, Len(p))
             c == Append(b, h)
  <1>1. /\ s.left \in Seq(V) /\ p \in Seq(V) /\ s.done \in SUBSET V /\ s.cycle \in Seq(V)
        /\ s = [left |-> s.left, path |-> p, done |-> s.done, cycle |-> s.cycle]
    BY DEF Walks
  <1>2. h \in V
    BY <1>1, HeadTailProperties
  <1>3. m \in DOMAIN p /\ p[m] = h
    <2>1. \E i \in DOMAIN p : p[i] = h
      BY DEF Range
    <2> QED BY <2>1 DEF Met
  <1>4. WalkFound(s) = [s EXCEPT !.cycle = c]
    BY DEF WalkFound
  <1> HIDE DEF h, m
  <1>5. m \in 1..Len(p) /\ Len(p) \in Nat
    BY <1>1, <1>3
  <1>6. k \in Nat /\ k >= 1
    BY <1>5
  <1>7. b \in Seq(V) /\ Len(b) = k /\ \A i \in 1..k : b[i] = p[m + i - 1]
    <2> HIDE DEF p
    <2> QED BY <1>1, <1>5, SubSeqProperties
  <1> HIDE DEF b, k
  <1>8. c \in Seq(V) /\ Len(c) = k + 1 /\ c[k + 1] = h /\ \A i \in 1..k : c[i] = b[i]
    BY <1>2, <1>6, <1>7
  <1> HIDE DEF c
  <1>9. WalkFound(s) = [left |-> s.left, path |-> p, done |-> s.done, cycle |-> c]
    BY <1>4 DEF Walks
  <1>10. WalkFound(s) \in Walks(V) /\ WalkFound(s).cycle = c
    BY <1>1, <1>8, <1>9 DEF Walks
  <1> QED BY <1>3, <1>5, <1>6, <1>7, <1>8, <1>10 DEF h, m, k

(* Every call of the search has less to do: fewer nodes off the path, or a  *)
(* shorter list with the same path.                                         *)
WalkShrinks(V, next, rank) ==
  \A s \in Walks(V) : s.left # <<>> =>
    /\ rank[WalkPast(s)] < rank[s]
    /\ \A b \in Walks(V) : rank[WalkBack(s, b)] < rank[s]
    /\ Head(s.left) \notin Range(s.path) => rank[WalkInto(next, s)] < rank[s]

LEMMA WalksShrink ==
  ASSUME NEW V, NEW next, NEW most, Leads(V, next, most)
  PROVE  \E rank \in [Walks(V) -> Nat] : WalkShrinks(V, next, rank)
  <1> DEFINE All == Walks(V)
             Off(s) == Cardinality(V \ Range(s.path))
             rank == [s \in All |-> Off(s) * (most + 1) + Len(s.left)]
  <1>0. /\ IsFiniteSet(V) /\ next \in [V -> Seq(V)] /\ most \in Nat
        /\ \A n \in V : Len(next[n]) <= most
    BY DEF Leads
  <1>1. \A s \in All : /\ s.left \in Seq(V) /\ s.path \in Seq(V)
                       /\ Off(s) \in Nat /\ Len(s.left) \in Nat
    <2> SUFFICES ASSUME NEW s \in All
                 PROVE  s.left \in Seq(V) /\ s.path \in Seq(V) /\ Off(s) \in Nat /\ Len(s.left) \in Nat
      OBVIOUS
    <2>1. IsFiniteSet(V \ Range(s.path))
      BY <1>0, FS_Subset
    <2>2. s.left \in Seq(V) /\ s.path \in Seq(V)
      BY DEF Walks
    <2> QED BY <2>1, <2>2, FS_CardinalityType, LenProperties
  <1>2. ASSUME NEW s \in All, NEW t \in All, NEW h \in V \ Range(s.path), t.path = Append(s.path, h)
        PROVE  Off(t) = Off(s) - 1
    <2> DEFINE off == V \ Range(s.path)
    <2>1. IsFiniteSet(off) /\ h \in off
      BY <1>0, FS_Subset
    <2>2. Range(t.path) = Range(s.path) \union {h}
      <3>1. s.path \in Seq(V) /\ h \in V
        BY <1>1
      <3> QED BY <1>2, <3>1, RangeOfAppend
    <2>3. V \ Range(t.path) = off \ {h}
      BY <2>2
    <2> HIDE DEF off
    <2>4. Cardinality(off \ {h}) = Cardinality(off) - 1
      BY <2>1, FS_RemoveElement
    <2> QED BY <2>3, <2>4 DEF off
  <1>3. \A s, t \in All : s.path = t.path => Off(s) = Off(t)
    OBVIOUS
  <1> HIDE DEF Off
  <1>4. \A u, w \in Nat : u * w \in Nat /\ (u + 1) * w = u * w + w
    OBVIOUS
  <1>5. rank \in [All -> Nat]
    <2> SUFFICES ASSUME NEW s \in All PROVE Off(s) * (most + 1) + Len(s.left) \in Nat
      OBVIOUS
    <2>1. Off(s) * (most + 1) \in Nat
      BY <1>0, <1>1, <1>4
    <2> QED BY <1>1, <2>1
  <1>6. ASSUME NEW s \in All, s.left # <<>>
        PROVE  /\ \A t \in All : t.path = s.path /\ t.left = Tail(s.left) => rank[t] < rank[s]
               /\ Head(s.left) \notin Range(s.path) => rank[WalkInto(next, s)] < rank[s]
    <2>1. Len(Tail(s.left)) = Len(s.left) - 1 /\ Len(s.left) \in Nat /\ Len(s.left) >= 1
      BY <1>1, <1>6, HeadTailProperties, EmptySeq, LenProperties
    <2>2. ASSUME NEW t \in All, t.path = s.path, t.left = Tail(s.left)
          PROVE  rank[t] < rank[s]
      <3> DEFINE x == Off(s) * (most + 1)
                 l == Len(s.left)
      <3>1. x \in Nat /\ Off(t) = Off(s)
        BY <1>0, <1>1, <1>3, <1>4, <2>2
      <3>2. rank[t] = x + (l - 1) /\ rank[s] = x + l /\ l \in Nat
        BY <2>1, <2>2, <3>1
      <3> HIDE DEF x, l, rank
      <3> QED BY <3>1, <3>2
    <2>3. ASSUME Head(s.left) \notin Range(s.path) PROVE rank[WalkInto(next, s)] < rank[s]
      <3> DEFINE t == WalkInto(next, s)
                 h == Head(s.left)
                 x == Off(t) * (most + 1)
                 p == Len(t.left)
                 q == Len(s.left)
      <3>1. h \in V /\ t \in All /\ t.path = Append(s.path, h) /\ t.left = next[h]
        BY <1>0, <1>6, WalksClosed
      <3> HIDE DEF t, h
      <3>2. Off(t) = Off(s) - 1 /\ Off(t) \in Nat /\ Off(s) \in Nat
        <4>1. h \in V \ Range(s.path)
          BY <2>3, <3>1 DEF h
        <4> QED BY <1>1, <1>2, <3>1, <4>1
      <3>3. Off(s) = Off(t) + 1
        BY <3>2
      <3>4. Off(s) * (most + 1) = x + (most + 1) /\ x \in Nat
        BY <1>0, <1>4, <3>2, <3>3
      <3>5. p <= most /\ p \in Nat /\ q \in Nat /\ q >= 1
        BY <1>0, <1>1, <2>1, <3>1
      <3>6. rank[t] = x + p /\ rank[s] = x + (most + 1) + q
        BY <3>1, <3>4
      <3> HIDE DEF x, p, q, rank
      <3>7. rank[t] < rank[s]
        BY <1>0, <3>4, <3>5, <3>6
      <3> QED BY <3>7 DEF t
    <2> QED BY <2>2, <2>3
  <1> HIDE DEF rank
  <1>7. ASSUME NEW s \in All, s.left # <<>>
        PROVE  /\ rank[WalkPast(s)] < rank[s]
               /\ \A b \in All : rank[WalkBack(s, b)] < rank[s]
    <2>0. /\ WalkPast(s) \in All
          /\ WalkPast(s) = [left |-> Tail(s.left), path |-> s.path, done |-> s.done, cycle |-> s.cycle]
          /\ \A b \in All :
               /\ WalkBack(s, b) = [left |-> Tail(s.left), path |-> s.path,
                                    done |-> b.done \union {Head(s.left)}, cycle |-> s.cycle]
               /\ WalkBack(s, b) \in All
      BY <1>0, <1>7, WalksClosed
    <2> HIDE DEF All
    <2>1. WalkPast(s) \in All /\ WalkPast(s).path = s.path /\ WalkPast(s).left = Tail(s.left)
      BY <2>0
    <2>2. \A b \in All : /\ WalkBack(s, b) \in All /\ WalkBack(s, b).path = s.path
                         /\ WalkBack(s, b).left = Tail(s.left)
      <3> SUFFICES ASSUME NEW b \in All
                   PROVE  /\ WalkBack(s, b) \in All /\ WalkBack(s, b).path = s.path
                          /\ WalkBack(s, b).left = Tail(s.left)
        OBVIOUS
      <3> DEFINE finished == b.done \union {Head(s.left)}
      <3>1. /\ WalkBack(s, b) \in All
            /\ WalkBack(s, b) = [left |-> Tail(s.left), path |-> s.path, done |-> finished, cycle |-> s.cycle]
        BY <2>0
      <3> HIDE DEF finished
      <3> QED BY <3>1
    <2> QED BY <1>6, <1>7, <2>1, <2>2
  <1>8. WalkShrinks(V, next, rank)
    BY <1>6, <1>7 DEF WalkShrinks
  <1> QED BY <1>5, <1>8

LEMMA WalkExists ==
  ASSUME NEW V, NEW next, NEW most, Leads(V, next, most)
  PROVE  \E f \in [Walks(V) -> Walks(V)] : f = [s \in Walks(V) |-> Walk(next, f, s)]
  <1> DEFINE All == Walks(V)
             Fits == [s \in All |-> All]
             F == [All -> All]
             body == [f \in F |-> [s \in All |-> Walk(next, f, s)]]
  <1>0. next \in [V -> Seq(V)]
    BY DEF Leads
  <1>1. PICK rank \in [All -> Nat] : WalkShrinks(V, next, rank)
    BY WalksShrink
  <1>2. Fits \in [All -> SUBSET All] /\ \A s \in All : Fits[s] # {}
    OBVIOUS
  <1>3. \A f : f \in F <=> f \in [All -> All] /\ \A s \in All : f[s] \in Fits[s]
    OBVIOUS
  <1>4. \A s \in All : s.left # <<>> =>
          /\ WalkPast(s) \in All /\ WalkInto(next, s) \in All
          /\ \A b \in All : WalkBack(s, b) \in All
          /\ Head(s.left) \in Range(s.path) => WalkFound(s) \in All
    BY <1>0, WalksClosed, FoundIsWalk
  <1>5. \A s \in All : s.left # <<>> =>
          /\ rank[WalkPast(s)] < rank[s]
          /\ \A b \in All : rank[WalkBack(s, b)] < rank[s]
          /\ Head(s.left) \notin Range(s.path) => rank[WalkInto(next, s)] < rank[s]
    BY <1>1 DEF WalkShrinks
  <1> HIDE DEF All
  <1>6. \A f \in F : body[f] \in F
    <2> SUFFICES ASSUME NEW f \in F, NEW s \in All PROVE Walk(next, f, s) \in All
      OBVIOUS
    <2>1. CASE s.left = <<>>
      BY <2>1 DEF Walk
    <2>2. CASE s.left # <<>>
      BY <1>4, <2>2 DEF Walk
    <2> QED BY <2>1, <2>2
  <1>7. ASSUME NEW f \in F, NEW g \in F, NEW s \in All,
               \A t \in All : rank[t] < rank[s] => f[t] = g[t]
        PROVE  body[f][s] = body[g][s]
    <2>1. body[f][s] = Walk(next, f, s) /\ body[g][s] = Walk(next, g, s)
      OBVIOUS
    <2> HIDE DEF body
    <2>2. CASE s.left = <<>> \/ Head(s.left) \in Range(s.path)
      BY <2>1, <2>2 DEF Walk
    <2>3. CASE s.left # <<>> /\ Head(s.left) \notin Range(s.path)
      <3>1. f[WalkPast(s)] = g[WalkPast(s)] /\ f[WalkInto(next, s)] = g[WalkInto(next, s)]
        BY <1>4, <1>5, <1>7, <2>3
      <3>2. \A b \in All : f[WalkBack(s, b)] = g[WalkBack(s, b)]
        BY <1>4, <1>5, <1>7, <2>3
      <3>3. f[WalkInto(next, s)] \in All
        BY <1>4, <2>3
      <3> QED BY <2>1, <2>3, <3>1, <3>2, <3>3 DEF Walk
    <2> QED BY <2>2, <2>3
  <1>8. PICK f \in F : body[f] = f
    <2> HIDE DEF Fits, body, F
    <2>1. \A f, g \in F, s \in All :
            (\A t \in All : rank[t] < rank[s] => f[t] = g[t]) => body[f][s] = body[g][s]
      BY <1>7
    <2>2. Descends(All, All, Fits, rank, body, F)
      BY <1>1, <1>2, <1>3, <1>6, <2>1 DEF Descends
    <2> QED BY <2>2, RecursionExists
  <1>9. f \in [All -> All] /\ f = [s \in All |-> Walk(next, f, s)]
    BY <1>8
  <1> QED BY <1>9 DEF All

LEMMA WalkTyped ==
  ASSUME NEW V, NEW next, NEW most, Leads(V, next, most),
         NEW f, f = [s \in Walks(V) |-> Walk(next, f, s)]
  PROVE  f \in [Walks(V) -> Walks(V)]
  <1> DEFINE All == Walks(V)
  <1>0. next \in [V -> Seq(V)]
    BY DEF Leads
  <1>1. PICK rank \in [All -> Nat] : WalkShrinks(V, next, rank)
    BY WalksShrink
  <1> DEFINE P == {w \in Nat : \A s \in All : rank[s] < w => f[s] \in All}
  <1>2. \A s \in All : rank[s] \in Nat /\ f[s] = Walk(next, f, s)
    BY <1>1
  <1>3. 0 \in P
    BY <1>2
  <1>4. ASSUME NEW w \in Nat, w \in P PROVE w + 1 \in P
    <2> SUFFICES ASSUME NEW s \in All, rank[s] < w + 1 PROVE f[s] \in All
      OBVIOUS
    <2>0. \A t \in All : rank[t] < rank[s] => f[t] \in All
      BY <1>2, <1>4
    <2>1. f[s] = Walk(next, f, s)
      BY <1>2
    <2>2. s.left # <<>> =>
            /\ WalkPast(s) \in All /\ WalkInto(next, s) \in All
            /\ \A b \in All : WalkBack(s, b) \in All
            /\ Head(s.left) \in Range(s.path) => WalkFound(s) \in All
      BY <1>0, WalksClosed, FoundIsWalk
    <2>3. s.left # <<>> =>
            /\ rank[WalkPast(s)] < rank[s]
            /\ \A b \in All : rank[WalkBack(s, b)] < rank[s]
            /\ Head(s.left) \notin Range(s.path) => rank[WalkInto(next, s)] < rank[s]
      BY <1>1 DEF WalkShrinks
    <2> HIDE DEF All
    <2> QED BY <2>0, <2>1, <2>2, <2>3 DEF Walk
  <1>5. Nat \subseteq P
    <2> HIDE DEF P
    <2> QED BY <1>3, <1>4, NaturalsInSet
  <1>6. \A s \in All : rank[s] + 1 \in P /\ rank[s] < rank[s] + 1
    BY <1>2, <1>5
  <1>7. \A s \in All : f[s] \in All
    BY <1>6
  <1>8. DOMAIN f = All
    OBVIOUS
  <1>9. f = [s \in All |-> f[s]]
    BY <1>8
  <1> HIDE DEF All
  <1> QED BY <1>7, <1>9 DEF All

(* The graph's cycles: a set of nodes nobody need leave, and the path a     *)
(* cycle is.                                                                *)
Loops(next, S) == \A n \in S : \E m \in S : m \in Range(next[n])

Circular(next, c) ==
  /\ Len(c) > 1 /\ c[1] = c[Len(c)]
  /\ \A i \in 1..(Len(c) - 1) : c[i + 1] \in Range(next[c[i]])

(* No cycle goes through a node that is finished; the path leads from node  *)
(* to node and on to each that is left.                                     *)
Acyclic(V, next, ended) == \A S \in SUBSET V : Loops(next, S) => S \intersect ended = {}

OnPath(V, next, s) ==
  /\ s.cycle = <<>>
  /\ \A i \in 1..(Len(s.path) - 1) : s.path[i + 1] \in Range(next[s.path[i]])
  /\ s.path # <<>> => Range(s.left) \subseteq Range(next[s.path[Len(s.path)]])
  /\ Acyclic(V, next, s.done)

Walked(V, next, s, t) ==
  IF t.cycle # <<>> THEN Circular(next, t.cycle)
  ELSE Acyclic(V, next, t.done) /\ s.done \union Range(s.left) \subseteq t.done

LEMMA FoundIsCircular ==
  ASSUME NEW V, NEW next \in [V -> Seq(V)], NEW s \in Walks(V), OnPath(V, next, s),
         s.left # <<>>, Head(s.left) \in Range(s.path)
  PROVE  WalkFound(s).cycle # <<>> /\ Circular(next, WalkFound(s).cycle)
  <1> DEFINE c == WalkFound(s).cycle
             m == Met(s)
             l == Len(s.path)
             k == l - m + 1
             h == Head(s.left)
  <1>1. /\ WalkFound(s) \in Walks(V)
        /\ m \in 1..l /\ k \in Nat /\ k >= 1 /\ Len(c) = k + 1
        /\ \A i \in 1..k : c[i] = s.path[m + i - 1]
        /\ c[k + 1] = h /\ s.path[m] = h
    BY FoundIsWalk
  <1>2. s.left \in Seq(V) /\ s.path \in Seq(V) /\ l \in Nat
    BY DEF Walks
  <1>3. /\ \A i \in 1..(l - 1) : s.path[i + 1] \in Range(next[s.path[i]])
        /\ s.path # <<>> => Range(s.left) \subseteq Range(next[s.path[l]])
    BY DEF OnPath
  <1>4. h \in Range(s.left) /\ s.path # <<>>
    <2>1. Range(s.left) = {h} \union Range(Tail(s.left))
      BY <1>2, RangeOfTail
    <2>2. l # 0
      BY <1>1, <1>2
    <2> HIDE DEF h
    <2> QED BY <1>2, <2>1, <2>2, EmptySeq
  <1> HIDE DEF c, m, l, h
  <1>5. c[1] = h
    <2>1. 1 \in 1..k /\ m + 1 - 1 = m
      BY <1>1, <1>2
    <2> QED BY <1>1, <2>1
  <1>6. ASSUME NEW i \in 1..k PROVE c[i + 1] \in Range(next[c[i]])
    <2>1. c[i] = s.path[m + i - 1]
      BY <1>1
    <2>2. CASE i = k
      <3>1. m + i - 1 = l /\ c[i + 1] = h
        BY <1>1, <1>2, <2>2
      <3> QED BY <1>3, <1>4, <2>1, <3>1
    <2>3. CASE i # k
      <3>1. /\ i + 1 \in 1..k /\ m + (i + 1) - 1 = (m + i - 1) + 1
            /\ m + i - 1 \in 1..(l - 1)
        BY <1>1, <1>2, <2>3
      <3>2. c[i + 1] = s.path[m + (i + 1) - 1]
        BY <1>1, <3>1
      <3> QED BY <1>3, <2>1, <3>1, <3>2
    <2> QED BY <2>2, <2>3
  <1>7. k + 1 > 1 /\ (k + 1) - 1 = k
    BY <1>1
  <1> HIDE DEF k
  <1>8. c # <<>>
    <2>1. c = <<>> => Len(c) = 0
      OBVIOUS
    <2> QED BY <1>1, <1>7, <2>1
  <1>9. Circular(next, c)
    BY <1>1, <1>5, <1>6, <1>7 DEF Circular
  <1> QED BY <1>8, <1>9 DEF c

(* A node is gone into, what it leads to is walked, and it is finished.     *)
LEMMA IntoIsOnPath ==
  ASSUME NEW V, NEW next \in [V -> Seq(V)], NEW s \in Walks(V), OnPath(V, next, s), s.left # <<>>
  PROVE  OnPath(V, next, WalkInto(next, s))
  <1> DEFINE h == Head(s.left)
             t == WalkInto(next, s)
             p == s.path
             l == Len(p)
  <1>1. /\ h \in V /\ t.left = next[h] /\ t.path = Append(p, h)
        /\ t.done = s.done /\ t.cycle = s.cycle
    BY WalksClosed
  <1>2. s.left \in Seq(V) /\ p \in Seq(V)
    BY DEF Walks
  <1>3. /\ \A i \in 1..(l - 1) : p[i + 1] \in Range(next[p[i]])
        /\ p # <<>> => Range(s.left) \subseteq Range(next[p[l]])
        /\ s.cycle = <<>> /\ Acyclic(V, next, s.done)
    BY DEF OnPath
  <1>4. h \in Range(s.left)
    BY <1>2, RangeOfTail
  <1> HIDE DEF h, t
  <1>5. /\ l \in Nat /\ Len(t.path) = l + 1 /\ t.path[l + 1] = h
        /\ \A i \in 1..l : t.path[i] = p[i]
        /\ l # 0 => p # <<>>
    BY <1>1, <1>2
  <1> HIDE DEF p
  <1>6. ASSUME NEW i \in 1..l PROVE t.path[i + 1] \in Range(next[t.path[i]])
    <2>1. t.path[i] = p[i]
      BY <1>5
    <2>2. CASE i = l
      BY <1>3, <1>4, <1>5, <2>1, <2>2
    <2>3. CASE i # l
      <3>1. i \in 1..(l - 1) /\ i + 1 \in 1..l
        BY <1>5, <2>3
      <3> QED BY <1>3, <1>5, <2>1, <3>1
    <2> QED BY <2>2, <2>3
  <1> HIDE DEF l
  <1>7. (l + 1) - 1 = l
    BY <1>5
  <1>8. OnPath(V, next, t)
    BY <1>1, <1>3, <1>5, <1>6, <1>7 DEF OnPath
  <1> QED BY <1>8 DEF t

LEMMA BackIsOnPath ==
  ASSUME NEW V, NEW next \in [V -> Seq(V)], NEW s \in Walks(V), OnPath(V, next, s), s.left # <<>>,
         NEW b \in Walks(V), b.cycle = <<>>, Walked(V, next, WalkInto(next, s), b)
  PROVE  /\ OnPath(V, next, WalkBack(s, b))
         /\ \A t : Walked(V, next, WalkBack(s, b), t) => Walked(V, next, s, t)
  <1>0. WalkBack(s, b) = [left |-> Tail(s.left), path |-> s.path,
                          done |-> b.done \union {Head(s.left)}, cycle |-> s.cycle]
    <2> DEFINE rest == Tail(s.left)
               finished == b.done \union {Head(s.left)}
    <2>1. WalkBack(s, b) = [s EXCEPT !.left = rest, !.done = finished]
      BY DEF WalkBack
    <2> HIDE DEF rest, finished
    <2>2. WalkBack(s, b) = [left |-> rest, path |-> s.path, done |-> finished, cycle |-> s.cycle]
      BY <2>1 DEF Walks
    <2> QED BY <2>2 DEF rest, finished
  <1> DEFINE h == Head(s.left)
             r == Tail(s.left)
             u == WalkInto(next, s)
             v == WalkBack(s, b)
  <1>1. /\ h \in V /\ r \in Seq(V)
        /\ u = [left |-> next[h], path |-> Append(s.path, h), done |-> s.done, cycle |-> s.cycle]
    BY WalksClosed
  <1>2. v = [left |-> r, path |-> s.path, done |-> b.done \union {h}, cycle |-> s.cycle]
    BY <1>0
  <1>3. Range(s.left) = {h} \union Range(r)
    <2>1. s.left \in Seq(V)
      BY DEF Walks
    <2> QED BY <2>1, RangeOfTail
  <1> HIDE DEF h, r
  <1>4. u.left = next[h] /\ u.done = s.done
    BY <1>1
  <1>5. /\ v.left = r /\ v.path = s.path /\ v.done = b.done \union {h} /\ v.cycle = s.cycle
    BY <1>2
  <1> HIDE DEF u, v
  <1>6. Acyclic(V, next, b.done) /\ s.done \union Range(next[h]) \subseteq b.done
    BY <1>4 DEF Walked, u
  <1>7. Acyclic(V, next, v.done)
    <2> SUFFICES ASSUME NEW S \in SUBSET V, Loops(next, S) PROVE S \intersect v.done = {}
      BY DEF Acyclic
    <2>1. S \intersect b.done = {}
      BY <1>6 DEF Acyclic
    <2>2. h \notin S
      BY <1>6, <2>1 DEF Loops
    <2> QED BY <1>5, <2>1, <2>2
  <1>8. OnPath(V, next, v)
    BY <1>3, <1>5, <1>7 DEF OnPath
  <1>9. ASSUME NEW t, Walked(V, next, v, t) PROVE Walked(V, next, s, t)
    BY <1>3, <1>5, <1>6, <1>9 DEF Walked
  <1> QED BY <1>8, <1>9 DEF v

LEMMA PastIsOnPath ==
  ASSUME NEW V, NEW next \in [V -> Seq(V)], NEW s \in Walks(V), OnPath(V, next, s), s.left # <<>>,
         Head(s.left) \in s.done
  PROVE  /\ OnPath(V, next, WalkPast(s))
         /\ \A t : Walked(V, next, WalkPast(s), t) => Walked(V, next, s, t)
  <1> DEFINE h == Head(s.left)
             r == Tail(s.left)
             v == WalkPast(s)
  <1>1. v = [left |-> r, path |-> s.path, done |-> s.done, cycle |-> s.cycle]
    BY WalksClosed
  <1>2. Range(s.left) = {h} \union Range(r)
    <2>1. s.left \in Seq(V)
      BY DEF Walks
    <2> QED BY <2>1, RangeOfTail
  <1> HIDE DEF h, r
  <1>3. /\ v.left = r /\ v.path = s.path /\ v.done = s.done /\ v.cycle = s.cycle
    BY <1>1
  <1>4. h \in s.done
    BY DEF h
  <1> HIDE DEF v
  <1>5. OnPath(V, next, v)
    BY <1>2, <1>3 DEF OnPath
  <1>6. ASSUME NEW t, Walked(V, next, v, t) PROVE Walked(V, next, s, t)
    BY <1>2, <1>3, <1>4, <1>6 DEF Walked
  <1> QED BY <1>5, <1>6 DEF v

(* A walk answers with a cycle, or finishes all it was to go through.       *)
LEMMA WalkWalks ==
  ASSUME NEW V, NEW next, NEW most, Leads(V, next, most),
         NEW f \in [Walks(V) -> Walks(V)], \A s \in Walks(V) : f[s] = Walk(next, f, s),
         NEW s \in Walks(V), OnPath(V, next, s)
  PROVE  Walked(V, next, s, f[s])
  <1> DEFINE All == Walks(V)
             Good(x) == OnPath(V, next, x) => Walked(V, next, x, f[x])
  <1>0. next \in [V -> Seq(V)]
    BY DEF Leads
  <1>1. PICK rank \in [All -> Nat] : WalkShrinks(V, next, rank)
    BY WalksShrink
  <1> DEFINE P == {w \in Nat : \A x \in All : rank[x] < w => Good(x)}
  <1>2. \A x \in All : rank[x] \in Nat
    BY <1>1
  <1>3. 0 \in P
    BY <1>2
  <1>4. ASSUME NEW w \in Nat, w \in P PROVE w + 1 \in P
    <2> SUFFICES ASSUME NEW x \in All, rank[x] < w + 1, OnPath(V, next, x)
                 PROVE  Walked(V, next, x, f[x])
      OBVIOUS
    <2>0. \A y \in All : rank[y] < rank[x] => Good(y)
      BY <1>2, <1>4
    <2>1. CASE x.left = <<>>
      <3>1. f[x] = x
        BY <2>1 DEF Walk
      <3>2. Range(x.left) = {}
        BY <2>1 DEF Range
      <3> QED BY <3>1, <3>2 DEF Walked, OnPath
    <2>2. CASE x.left # <<>> /\ Head(x.left) \in Range(x.path)
      <3>1. f[x] = WalkFound(x)
        BY <2>2 DEF Walk
      <3> QED BY <1>0, <2>2, <3>1, FoundIsCircular DEF Walked
    <2> DEFINE y == WalkPast(x)
               u == WalkInto(next, x)
               v == WalkBack(x, f[u])
    <2>3. ASSUME x.left # <<>>
          PROVE  /\ y \in All /\ u \in All /\ f[u] \in All /\ v \in All
                 /\ rank[y] < rank[x] /\ rank[v] < rank[x]
                 /\ Head(x.left) \notin Range(x.path) => rank[u] < rank[x]
      <3>1. y \in All /\ u \in All /\ \A b \in All : WalkBack(x, b) \in All
        BY <1>0, <2>3, WalksClosed
      <3>2. f[u] \in All
        BY <3>1
      <3> QED BY <1>1, <2>3, <3>1, <3>2 DEF WalkShrinks
    <2>4. CASE /\ x.left # <<>> /\ Head(x.left) \notin Range(x.path)
               /\ Head(x.left) \in x.done
      <3>1. f[x] = f[y]
        BY <2>4 DEF Walk
      <3>2. OnPath(V, next, y) /\ (Walked(V, next, y, f[y]) => Walked(V, next, x, f[y]))
        BY <1>0, <2>4, PastIsOnPath
      <3> HIDE DEF y, u, v
      <3> QED BY <2>0, <2>3, <2>4, <3>1, <3>2
    <2>5. CASE /\ x.left # <<>> /\ Head(x.left) \notin Range(x.path)
               /\ Head(x.left) \notin x.done
      <3>1. OnPath(V, next, u)
        BY <1>0, <2>5, IntoIsOnPath
      <3>2. Walked(V, next, u, f[u])
        <4> HIDE DEF y, u, v
        <4> QED BY <2>0, <2>3, <2>5, <3>1
      <3>3. CASE f[u].cycle # <<>>
        <4>1. f[x] = f[u]
          BY <2>5, <3>3 DEF Walk
        <4> HIDE DEF u
        <4> QED BY <3>2, <3>3, <4>1 DEF Walked
      <3>4. CASE f[u].cycle = <<>>
        <4>1. f[x] = f[v]
          BY <2>5, <3>4 DEF Walk
        <4>2. OnPath(V, next, v) /\ (Walked(V, next, v, f[v]) => Walked(V, next, x, f[v]))
          BY <1>0, <2>3, <2>5, <3>2, <3>4, BackIsOnPath
        <4> HIDE DEF y, u, v
        <4> QED BY <2>0, <2>3, <2>5, <4>1, <4>2
      <3> QED BY <3>3, <3>4
    <2> QED BY <2>1, <2>2, <2>4, <2>5
  <1>5. Nat \subseteq P
    <2> HIDE DEF P
    <2> QED BY <1>3, <1>4, NaturalsInSet
  <1>6. rank[s] + 1 \in P /\ rank[s] < rank[s] + 1
    BY <1>2, <1>5
  <1> HIDE DEF Good
  <1>7. Good(s)
    BY <1>6
  <1> QED BY <1>7 DEF Good

(* The whole search, from every node in turn.                               *)
LEMMA SearchFinds ==
  ASSUME NEW V, NEW next, NEW most, Leads(V, next, most),
         NEW f \in [Walks(V) -> Walks(V)], \A s \in Walks(V) : f[s] = Walk(next, f, s),
         NEW all \in Seq(V), Range(all) = V
  PROVE  LET c == f[[left |-> all, path |-> <<>>, done |-> {}, cycle |-> <<>>]].cycle
         IN  /\ c \in Seq(V)
             /\ c # <<>> => Circular(next, c)
             /\ c = <<>> => \A S \in SUBSET V : Loops(next, S) => S = {}
  <1> DEFINE start == [left |-> all, path |-> <<>>, done |-> {}, cycle |-> <<>>]
             t == f[start]
  <1>1. /\ start.left = all /\ start.path = <<>> /\ start.done = {} /\ start.cycle = <<>>
        /\ <<>> \in Seq(V) /\ Len(<<>>) = 0
    OBVIOUS
  <1>2. start \in Walks(V)
    BY <1>1 DEF Walks
  <1> HIDE DEF start
  <1>3. OnPath(V, next, start)
    <2>1. Len(start.path) = 0 /\ \A i \in 1..(0 - 1) : FALSE
      BY <1>1
    <2> QED BY <1>1, <2>1 DEF OnPath, Acyclic
  <1>4. t \in Walks(V) /\ Walked(V, next, start, t)
    BY <1>2, <1>3, WalkWalks
  <1>5. t.cycle \in Seq(V)
    BY <1>4 DEF Walks
  <1> HIDE DEF t
  <1>6. t.cycle # <<>> => Circular(next, t.cycle)
    BY <1>4 DEF Walked
  <1>7. ASSUME t.cycle = <<>>, NEW S \in SUBSET V, Loops(next, S) PROVE S = {}
    <2>1. Acyclic(V, next, t.done) /\ V \subseteq t.done
      BY <1>1, <1>4, <1>7 DEF Walked
    <2> QED BY <1>7, <2>1 DEF Acyclic
  <1> QED BY <1>5, <1>6, <1>7 DEF t, start

(* A design whose wiring stays among its units: find_cycle walks its graph. *)
Stated(d) ==
  /\ d.units \in Seq(Units(d))
  /\ d.wiring \in Seq({<<>>} \union (Ends(d) \X Ends(d)))

LEMMA UnitsAreListed ==
  ASSUME NEW d, Stated(d)
  PROVE  /\ IsFiniteSet(Ids(d))
         /\ [i \in DOMAIN d.units |-> d.units[i].id] \in Seq(Ids(d))
         /\ Range([i \in DOMAIN d.units |-> d.units[i].id]) = Ids(d)
  <1> DEFINE n == Len(d.units)
             all == [i \in DOMAIN d.units |-> d.units[i].id]
  <1>1. DOMAIN d.units = 1..n /\ n \in Nat
    BY LenProperties DEF Stated
  <1>2. Ids(d) = {d.units[i].id : i \in 1..n}
    <2>1. Units(d) = {d.units[i] : i \in 1..n}
      BY <1>1 DEF Units, Elements, ToSet
    <2> QED BY <2>1 DEF Ids
  <1>3. all = [i \in 1..n |-> d.units[i].id]
    BY <1>1
  <1> HIDE DEF n, all
  <1>4. all \in [1..n -> Ids(d)] /\ \A x \in Ids(d) : \E i \in 1..n : all[i] = x
    BY <1>2, <1>3
  <1>5. Range(all) = Ids(d)
    BY <1>2, <1>3 DEF Range
  <1>6. all \in Seq(Ids(d))
    BY <1>1, <1>4
  <1>7. IsFiniteSet(Ids(d))
    <2>1. IsFiniteSet(1..n)
      BY <1>1, FS_Interval
    <2>2. all \in Surjection(1..n, Ids(d))
      BY <1>4 DEF Surjection
    <2> QED BY <2>1, <2>2, FS_Surjection
  <1> QED BY <1>5, <1>6, <1>7 DEF all

LEMMA FindCycleFinds ==
  ASSUME NEW d, Stated(d), Ends(d) \subseteq Ids(d)
  PROVE  IF HasCycle(d) THEN IsCycle(d, FindCycle(d)) ELSE FindCycle(d) = <<>>
  <1> DEFINE V == Ids(d)
             next == [n \in V |-> Successors(d, n)]
             most == Len(d.wiring)
             all == [i \in DOMAIN d.units |-> d.units[i].id]
             All == [left : Seq(V), path : Seq(V), done : SUBSET V, cycle : Seq(V)]
             Body(f, s) ==
               IF s.left = <<>> THEN s
               ELSE LET n == Head(s.left)
                        place == CHOOSE i \in DOMAIN s.path : s.path[i] = n
                    IN  IF n \in Elements(s.path)
                        THEN [s EXCEPT !.cycle = Append(SubSeq(s.path, place, Len(s.path)), n)]
                        ELSE IF n \in s.done THEN f[[s EXCEPT !.left = Tail(s.left)]]
                        ELSE LET below == f[[s EXCEPT !.left = Successors(d, n),
                                                      !.path = Append(s.path, n)]]
                             IN  IF below.cycle # <<>> THEN below
                                 ELSE f[[s EXCEPT !.left = Tail(s.left), !.done = below.done \cup {n}]]
             Solves(f) == f = [s \in All |-> Body(f, s)]
             walk == CHOOSE f : Solves(f)
             c == walk[[left |-> all, path |-> <<>>, done |-> {}, cycle |-> <<>>]].cycle
  <1>1. IsFiniteSet(V) /\ all \in Seq(V) /\ Range(all) = V
    BY UnitsAreListed
  <1>2. d.wiring \in Seq({<<>>} \union (V \X V))
    BY DEF Stated
  <1>3. \A n \in V : /\ next[n] = Successors(d, n) /\ next[n] \in Seq(V) /\ Len(next[n]) <= most
                     /\ \A m \in V : m \in Range(next[n]) <=> <<n, m>> \in Edges(d)
    <2> SUFFICES ASSUME NEW n \in V
                 PROVE  /\ next[n] = Successors(d, n) /\ next[n] \in Seq(V) /\ Len(next[n]) <= most
                        /\ \A m \in V : m \in Range(next[n]) <=> <<n, m>> \in Edges(d)
      OBVIOUS
    <2>1. next[n] = Successors(d, n)
      OBVIOUS
    <2> HIDE DEF next, V, all
    <2>2. /\ Successors(d, n) \in Seq(V) /\ Len(Successors(d, n)) <= most
          /\ \A m \in V : m \in Range(Successors(d, n)) <=> <<n, m>> \in Edges(d)
      BY <1>2, SuccessorsAreEnds
    <2> QED BY <2>1, <2>2
  <1>4. Leads(V, next, most)
    <2>1. most \in Nat
      BY <1>2, LenProperties
    <2> QED BY <1>1, <1>3, <2>1 DEF Leads
  <1>5. FindCycle(d) = c
    <2>1. Ids(d) \union Ends(d) = V
      OBVIOUS
    <2> QED BY <2>1 DEF FindCycle, CycleFrom
  <1>6. ASSUME NEW f, NEW s \in Walks(V) PROVE Body(f, s) = Walk(next, f, s)
    <2>1. CASE s.left = <<>>
      BY <2>1 DEF Walk
    <2>2. CASE s.left # <<>>
      <3>1. Head(s.left) \in V
        <4>1. s.left \in Seq(V)
          BY DEF Walks
        <4> QED BY <2>2, <4>1, HeadTailProperties
      <3>2. Successors(d, Head(s.left)) = next[Head(s.left)] /\ Elements(s.path) = Range(s.path)
        BY <1>3, <3>1 DEF Elements, ToSet, Range
      <3> HIDE DEF next
      <3>3. WalkPast(s) = [s EXCEPT !.left = Tail(s.left)]
        BY DEF WalkPast
      <3>4. WalkInto(next, s) = [s EXCEPT !.left = Successors(d, Head(s.left)),
                                          !.path = Append(s.path, Head(s.left))]
        BY <3>2 DEF WalkInto
      <3>5. \A b : WalkBack(s, b) = [s EXCEPT !.left = Tail(s.left),
                                             !.done = b.done \union {Head(s.left)}]
        BY DEF WalkBack
      <3>6. WalkFound(s) = [s EXCEPT !.cycle = Append(SubSeq(s.path, CHOOSE i \in DOMAIN s.path :
                                                                       s.path[i] = Head(s.left),
                                                             Len(s.path)), Head(s.left))]
        BY DEF WalkFound, Met
      <3> QED BY ONLY <2>2, <3>2, <3>3, <3>4, <3>5, <3>6, Zenon DEF Walk
    <2> QED BY <2>1, <2>2
  <1> HIDE DEF next, most, Body, all
  <1>7. All = Walks(V)
    BY DEF Walks
  <1>8. Solves(walk)
    <2>1. PICK f : f = [s \in Walks(V) |-> Walk(next, f, s)]
      BY <1>4, WalkExists
    <2>2. [s \in Walks(V) |-> Walk(next, f, s)] = [s \in All |-> Body(f, s)]
      BY <1>6, <1>7
    <2>3. \E g : Solves(g)
      BY <2>1, <2>2
    <2> HIDE DEF Solves
    <2> QED BY <2>3
  <1> HIDE DEF walk, V, c
  <1>9. walk = [s \in Walks(V) |-> Walk(next, walk, s)]
    BY <1>6, <1>7, <1>8
  <1>10. walk \in [Walks(V) -> Walks(V)]
    BY <1>4, <1>9, WalkTyped
  <1>11. \A s \in Walks(V) : walk[s] = Walk(next, walk, s)
    <2> HIDE DEF All
    <2> QED BY <1>9
  <1>12. /\ c \in Seq(V)
         /\ c # <<>> => Circular(next, c)
         /\ c = <<>> => \A S \in SUBSET V : Loops(next, S) => S = {}
    <2> HIDE DEF All, Solves
    <2> QED BY <1>1, <1>4, <1>10, <1>11, SearchFinds DEF c
  <1> HIDE DEF All, Solves
  <1>13. \A n, m \in V : m \in Range(next[n]) <=> <<n, m>> \in Edges(d)
    BY <1>3
  <1>14. HasCycle(d) <=> \E S \in SUBSET V : S # {} /\ Loops(next, S)
    BY <1>13 DEF HasCycle, Loops, V
  <1>15. CASE c = <<>>
    BY <1>5, <1>12, <1>14, <1>15
  <1>16. CASE c # <<>>
    <2>1. /\ Len(c) > 1 /\ c[1] = c[Len(c)]
          /\ \A i \in 1..(Len(c) - 1) : c[i + 1] \in Range(next[c[i]])
      BY <1>12, <1>16 DEF Circular
    <2>2. Len(c) \in Nat /\ DOMAIN c = 1..Len(c) /\ \A i \in 1..Len(c) : c[i] \in V
      BY <1>12, LenProperties
    <2> DEFINE n == Len(c)
    <2>3. n \in Nat /\ n > 1
      BY <2>1, <2>2
    <2> HIDE DEF n
    <2>4. \A i \in 1..(n - 1) : i \in 1..n /\ i + 1 \in 1..n
      BY <2>3
    <2>5. IsCycle(d, c)
      BY <1>13, <2>1, <2>2, <2>4 DEF IsCycle, n
    <2>6. Loops(next, {c[i] : i \in 1..n})
      <3> SUFFICES ASSUME NEW i \in 1..n
                   PROVE  \E j \in 1..n : c[j] \in Range(next[c[i]])
        BY DEF Loops
      <3>1. CASE i \in 1..(n - 1)
        BY <2>1, <2>4, <3>1 DEF n
      <3>2. CASE i = n
        <4>1. 1 \in 1..(n - 1) /\ 2 \in 1..n /\ 1 + 1 = 2
          BY <2>3
        <4>2. c[2] \in Range(next[c[1]]) /\ c[1] = c[i]
          BY <2>1, <3>2, <4>1 DEF n
        <4> QED BY <4>1, <4>2
      <3> QED BY <2>3, <3>1, <3>2
    <2>7. HasCycle(d)
      <3>1. c[1] \in {c[i] : i \in 1..n} /\ {c[i] : i \in 1..n} \in SUBSET V
        BY <2>2, <2>3 DEF n
      <3> QED BY <1>14, <2>6, <3>1
    <2> QED BY <1>5, <2>5, <2>7
  <1> QED BY <1>15, <1>16

LEMMA TextIsStated == LibrarySpec => [](text \subseteq Texts \union Revisions)
  <1> DEFINE T == text \subseteq Texts \union Revisions
  <1>1. LibraryInit => T
    BY DEF LibraryInit
  <1>2. T /\ [LibraryNext]_libraryVars => T'
    BY DEF LibraryNext, Open, Edit, Apply, ApplyDesign, AddComponent, RemoveComponent, Fill, Require,
           libraryVars
  <1> QED BY <1>1, <1>2, PTL DEF LibrarySpec

(* find_cycle, which carries what earlier walks finished from one to the    *)
(* next, finds a cycle exactly when there is one, and answers with its path,*)
(* whatever design the file states and however often it was edited.         *)
THEOREM CyclesAreFound == LibrarySpec => []CycleIffReported
  <1>1. text \subseteq Texts \union Revisions => CycleIffReported
    <2> SUFFICES ASSUME text \subseteq Texts \union Revisions, NEW d \in text, Ends(d) \subseteq Ids(d)
                 PROVE  IF HasCycle(d) THEN IsCycle(d, FindCycle(d)) ELSE FindCycle(d) = <<>>
      BY DEF CycleIffReported
    <2>1. Stated(d)
      BY LibraryAssumption DEF Stated, IsDesign, IsList, Units
    <2> QED BY <2>1, FindCycleFinds
  <1> QED BY <1>1, TextIsStated, PTL

(***************************************************************************)
(* A design and its graph: first lists, how their places are arranged, and *)
(* how what hangs on a node is read.                                       *)
(***************************************************************************)

(***************************************************************************)
(* Lists: what they hold, and one relation between all that comes earlier  *)
(* and all that comes later in them.                                       *)
(***************************************************************************)
Sorted(s, R) == \A p, q \in DOMAIN s : p < q => <<s[p], s[q]>> \in R

LEMMA ListProperties ==
  ASSUME NEW s, IsList(s)
  PROVE  /\ Len(s) \in Nat /\ DOMAIN s = 1..Len(s)
         /\ \A i \in 1..Len(s) : s[i] \in Elements(s)
         /\ \A x : x \in Elements(s) <=> \E i \in 1..Len(s) : s[i] = x
  <1>1. s \in Seq(Elements(s))
    BY DEF IsList
  <1> QED BY <1>1, LenProperties DEF Elements, ToSet

LEMMA ElementsOfSeq ==
  ASSUME NEW X, NEW s \in Seq(X)
  PROVE  IsList(s) /\ Elements(s) \subseteq X
  <1>1. Len(s) \in Nat /\ DOMAIN s = 1..Len(s) /\ s \in [1..Len(s) -> X]
    BY LenProperties
  <1>2. s \in [1..Len(s) -> Elements(s)]
    BY <1>1 DEF Elements, ToSet
  <1>3. IsList(s)
    BY <1>1, <1>2, SeqDef DEF IsList
  <1> QED BY <1>1, <1>3 DEF Elements, ToSet

LEMMA ListIsSeq ==
  ASSUME NEW X, NEW s, IsList(s), Elements(s) \subseteq X
  PROVE  s \in Seq(X)
  <1>1. Len(s) \in Nat /\ s \in [1..Len(s) -> X]
    BY LenProperties DEF IsList
  <1> QED BY <1>1, SeqDef

LEMMA FunctionIsList ==
  ASSUME NEW n \in Nat, NEW s, s = [i \in 1..n |-> s[i]]
  PROVE  IsList(s) /\ Len(s) = n
  <1>1. s \in [1..n -> Elements(s)]
    BY DEF Elements, ToSet
  <1>2. s \in Seq(Elements(s))
    BY <1>1, SeqDef
  <1> QED BY <1>1, <1>2 DEF IsList

LEMMA Concatenated ==
  ASSUME NEW X, NEW s \in Seq(X), NEW t \in Seq(X)
  PROVE  /\ s \o t \in Seq(X)
         /\ \A x : x \in Elements(s \o t) <=> x \in Elements(s) \/ x \in Elements(t)
         /\ \A R : (/\ Sorted(s, R) /\ Sorted(t, R)
                    /\ \A x \in Elements(s), y \in Elements(t) : <<x, y>> \in R)
                   => Sorted(s \o t, R)
  <1> DEFINE c == s \o t
  <1>1. /\ Len(s) \in Nat /\ Len(t) \in Nat /\ DOMAIN s = 1..Len(s) /\ DOMAIN t = 1..Len(t)
        /\ c \in Seq(X) /\ DOMAIN c = 1..(Len(s) + Len(t))
        /\ \A i \in 1..Len(s) : c[i] = s[i]
        /\ \A i \in 1..Len(t) : c[Len(s) + i] = t[i]
    BY ConcatProperties, LenProperties
  <1>2. ASSUME NEW i \in DOMAIN c
        PROVE  \/ i \in DOMAIN s /\ c[i] = s[i]
               \/ i - Len(s) \in DOMAIN t /\ c[i] = t[i - Len(s)] /\ i > Len(s)
    <2>1. i \in 1..Len(s) \/ (i - Len(s) \in 1..Len(t) /\ Len(s) + (i - Len(s)) = i /\ i > Len(s))
      BY <1>1
    <2> QED BY <1>1, <2>1
  <1>3. ASSUME NEW i \in DOMAIN t PROVE Len(s) + i \in DOMAIN c
    BY <1>1
  <1>4. DOMAIN s \subseteq DOMAIN c
    BY <1>1
  <1> HIDE DEF c
  <1>5. ASSUME NEW x PROVE x \in Elements(c) <=> x \in Elements(s) \/ x \in Elements(t)
    <2>1. ASSUME x \in Elements(c) PROVE x \in Elements(s) \/ x \in Elements(t)
      BY <2>1, <1>2 DEF Elements, ToSet
    <2>2. ASSUME x \in Elements(s) PROVE x \in Elements(c)
      BY <2>2, <1>1, <1>4 DEF Elements, ToSet
    <2>3. ASSUME x \in Elements(t) PROVE x \in Elements(c)
      BY <2>3, <1>1, <1>3 DEF Elements, ToSet
    <2> QED BY <2>1, <2>2, <2>3
  <1>6. ASSUME NEW R, Sorted(s, R), Sorted(t, R),
               \A x \in Elements(s), y \in Elements(t) : <<x, y>> \in R
        PROVE  Sorted(c, R)
    <2> SUFFICES ASSUME NEW p \in DOMAIN c, NEW q \in DOMAIN c, p < q PROVE <<c[p], c[q]>> \in R
      BY DEF Sorted
    <2> DEFINE m == Len(s)
    <2>0. p \in Int /\ q \in Int /\ m \in Int
      BY <1>1
    <2>1. CASE q \in DOMAIN s /\ c[q] = s[q]
      <3>1. p \in DOMAIN s
        BY <1>1, <2>1
      <3>2. c[p] = s[p]
        BY <3>1, <1>1
      <3> QED BY <1>6, <2>1, <3>1, <3>2 DEF Sorted
    <2>2. CASE /\ q - m \in DOMAIN t /\ c[q] = t[q - m]
               /\ p \in DOMAIN s /\ c[p] = s[p]
      <3>1. c[q] \in Elements(t) /\ c[p] \in Elements(s)
        BY <2>2 DEF Elements, ToSet
      <3> QED BY <1>6, <3>1
    <2>3. CASE /\ q - m \in DOMAIN t /\ c[q] = t[q - m]
               /\ p - m \in DOMAIN t /\ c[p] = t[p - m]
      <3>1. p - m < q - m
        BY <2>0
      <3> QED BY <1>6, <2>3, <3>1 DEF Sorted
    <2> QED BY <1>2, <2>1, <2>2, <2>3
  <1> QED BY <1>1, <1>5, <1>6 DEF c

(* A flattened list holds what its parts hold, and keeps a relation they    *)
(* keep within and between them.                                            *)
LEMMA Flattened ==
  ASSUME NEW X, NEW ss \in Seq(Seq(X))
  PROVE  /\ FlattenSeq(ss) \in Seq(X)
         /\ \A x : x \in Elements(FlattenSeq(ss)) <=> \E i \in DOMAIN ss : x \in Elements(ss[i])
         /\ \A R : (/\ \A i \in DOMAIN ss : Sorted(ss[i], R)
                    /\ \A i, j \in DOMAIN ss : i < j =>
                         \A x \in Elements(ss[i]), y \in Elements(ss[j]) : <<x, y>> \in R)
                   => Sorted(FlattenSeq(ss), R)
  <1> DEFINE n == Len(ss)
             Grown(f, k) == IF k = 1 THEN ss[k] ELSE f[k - 1] \o ss[k]
             D == 1..n
             Fits == [k \in D |-> Seq(X)]
             rank == [k \in D |-> k]
             F == [D -> Seq(X)]
             body == [f \in F |-> [k \in D |-> Grown(f, k)]]
             Solves(f) == f = [k \in D |-> Grown(f, k)]
             out == CHOOSE f : Solves(f)
  <1>0. n \in Nat /\ DOMAIN ss = D /\ \A k \in D : ss[k] \in Seq(X)
    BY LenProperties
  <1>1. CASE n = 0
    <2>1. FlattenSeq(ss) = ss /\ ss = <<>>
      BY <1>1, EmptySeq DEF FlattenSeq
    <2>2. ss \in Seq(X) /\ DOMAIN ss = {}
      BY <2>1, <1>0, <1>1
    <2>3. Elements(ss) = {}
      BY <2>2 DEF Elements, ToSet
    <2> QED BY <2>1, <2>2, <2>3 DEF Sorted
  <1>2. CASE n # 0
    <2>1. Descends(D, Seq(X), Fits, rank, body, F)
      <3>1. Fits \in [D -> SUBSET Seq(X)] /\ \A k \in D : Fits[k] # {}
        <4>1. <<>> \in Seq(X)
          OBVIOUS
        <4> QED BY <4>1
      <3>2. rank \in [D -> Nat]
        BY <1>0
      <3>3. \A f : f \in F <=> f \in [D -> Seq(X)] /\ \A k \in D : f[k] \in Fits[k]
        OBVIOUS
      <3>4. \A f \in F : body[f] \in F
        <4> SUFFICES ASSUME NEW f \in F, NEW k \in D PROVE Grown(f, k) \in Seq(X)
          <5> HIDE DEF Grown, D
          <5> QED OBVIOUS
        <4>1. CASE k = 1
          BY <4>1, <1>0
        <4>2. CASE k # 1
          <5>1. k - 1 \in D
            BY <1>0, <4>2
          <5>2. f[k - 1] \in Seq(X)
            BY <5>1
          <5> QED BY <1>0, <4>2, <5>2, ConcatProperties
        <4> QED BY <4>1, <4>2
      <3>5. \A f, g \in F, k \in D :
              (\A j \in D : rank[j] < rank[k] => f[j] = g[j]) => body[f][k] = body[g][k]
        <4> SUFFICES ASSUME NEW f \in F, NEW g \in F, NEW k \in D,
                            \A j \in D : j < k => f[j] = g[j]
                     PROVE  Grown(f, k) = Grown(g, k)
          <5>1. \A f \in F, k \in D : body[f][k] = Grown(f, k)
            OBVIOUS
          <5>2. \A k \in D : rank[k] = k
            OBVIOUS
          <5> HIDE DEF body, rank, Grown, F, D
          <5> QED BY <5>1, <5>2
        <4>1. CASE k = 1
          BY <4>1
        <4>2. CASE k # 1
          <5>1. k - 1 \in D /\ k - 1 < k
            BY <1>0, <4>2
          <5>2. f[k - 1] = g[k - 1]
            BY <5>1
          <5> QED BY <4>2, <5>2
        <4> QED BY <4>1, <4>2
      <3> HIDE DEF Fits, rank, F, D, body
      <3> QED BY <3>1, <3>2, <3>3, <3>4, <3>5 DEF Descends
    <2>2. PICK f \in F : body[f] = f
      <3> HIDE DEF Fits, rank, F, D, body
      <3> QED BY <2>1, RecursionExists
    <2>3. \E g \in F : Solves(g)
      <3> HIDE DEF Grown, D
      <3> QED BY <2>2
    <2>4. Solves(out)
      <3> HIDE DEF Solves
      <3> QED BY <2>3
    <2>5. FlattenSeq(ss) = out[n]
      BY <1>2 DEF FlattenSeq
    <2> HIDE DEF out
    <2>6. \A k \in D : out[k] = Grown(out, k)
      <3> HIDE DEF Grown, D
      <3> QED BY <2>4
    <2>7. 1 \in D /\ n \in D /\ n >= 1
      BY <1>0, <1>2
    <2>8. out[1] = ss[1]
      BY <2>6, <2>7
    <2>9. ASSUME NEW k \in D, k + 1 \in D PROVE out[k + 1] = out[k] \o ss[k + 1]
      <3>1. k + 1 # 1 /\ (k + 1) - 1 = k
        BY <1>0
      <3> QED BY <2>6, <2>9, <3>1
    <2> HIDE DEF Grown, Solves, F, Fits, rank, body
    <2> DEFINE Held(k) == \A x : x \in Elements(out[k]) <=> \E i \in 1..k : x \in Elements(ss[i])
               Q == {k \in Nat : k + 1 <= n => out[k + 1] \in Seq(X) /\ Held(k + 1)}
    <2>10. 0 \in Q
      <3>1. \A i : i \in 1..1 <=> i = 1
        OBVIOUS
      <3>2. Held(1)
        BY <2>8, <3>1
      <3>3. out[1] \in Seq(X)
        BY <2>8, <2>7, <1>0
      <3> HIDE DEF Held
      <3>4. 0 + 1 = 1
        OBVIOUS
      <3> QED BY <3>2, <3>3, <3>4
    <2>11. ASSUME NEW k \in Nat, k \in Q PROVE k + 1 \in Q
      <3> DEFINE m == k + 1
      <3> SUFFICES ASSUME m + 1 <= n PROVE out[m + 1] \in Seq(X) /\ Held(m + 1)
        OBVIOUS
      <3>1. m \in D /\ m + 1 \in D /\ m <= n
        BY <1>0
      <3>2. out[m] \in Seq(X) /\ Held(m)
        BY <3>1, <2>11
      <3>3. out[m + 1] = out[m] \o ss[m + 1] /\ ss[m + 1] \in Seq(X)
        BY <3>1, <2>9, <1>0
      <3>4. \A i : i \in 1..(m + 1) <=> i \in 1..m \/ i = m + 1
        BY <3>1
      <3> HIDE DEF m
      <3>5. out[m + 1] \in Seq(X)
        BY <3>2, <3>3, Concatenated
      <3>6. \A x : x \in Elements(out[m + 1]) <=> x \in Elements(out[m]) \/ x \in Elements(ss[m + 1])
        BY <3>2, <3>3, Concatenated
      <3> QED BY <3>2, <3>4, <3>5, <3>6
    <2>12. ASSUME NEW k \in D PROVE out[k] \in Seq(X) /\ Held(k)
      <3>1. Nat \subseteq Q
        <4> HIDE DEF Q
        <4> QED BY <2>10, <2>11, NaturalsInSet
      <3>2. k - 1 \in Nat /\ (k - 1) + 1 = k /\ k <= n
        BY <1>0
      <3> HIDE DEF Held
      <3> QED BY <3>1, <3>2
    <2>13. ASSUME NEW R, \A i \in DOMAIN ss : Sorted(ss[i], R),
                  \A i, j \in DOMAIN ss : i < j =>
                     \A x \in Elements(ss[i]), y \in Elements(ss[j]) : <<x, y>> \in R
           PROVE  Sorted(out[n], R)
      <3> DEFINE S == {k \in Nat : k + 1 <= n => Sorted(out[k + 1], R)}
      <3>1. 0 \in S
        <4>1. Sorted(ss[1], R)
          BY <1>0, <2>7, <2>13
        <4>2. 0 + 1 = 1 /\ Sorted(out[1], R)
          BY <2>8, <4>1
        <4> QED BY <4>2
      <3>2. ASSUME NEW k \in Nat, k \in S PROVE k + 1 \in S
        <4> DEFINE m == k + 1
        <4> SUFFICES ASSUME m + 1 <= n PROVE Sorted(out[m + 1], R)
          OBVIOUS
        <4>1. m \in D /\ m + 1 \in D /\ m <= n
          BY <1>0
        <4>2. Sorted(out[m], R) /\ out[m] \in Seq(X) /\ Held(m)
          BY <4>1, <3>2, <2>12
        <4>3. out[m + 1] = out[m] \o ss[m + 1] /\ ss[m + 1] \in Seq(X) /\ Sorted(ss[m + 1], R)
          BY <4>1, <2>9, <1>0, <2>13
        <4>4. \A i \in 1..m : i \in DOMAIN ss /\ m + 1 \in DOMAIN ss /\ i < m + 1
          BY <4>1, <1>0
        <4> HIDE DEF m
        <4>5. \A x \in Elements(out[m]), y \in Elements(ss[m + 1]) : <<x, y>> \in R
          BY <4>2, <4>4, <2>13
        <4> HIDE DEF Held
        <4> QED BY <4>2, <4>3, <4>5, Concatenated
      <3>3. Nat \subseteq S
        <4> HIDE DEF S
        <4> QED BY <3>1, <3>2, NaturalsInSet
      <3>4. n - 1 \in Nat /\ (n - 1) + 1 = n /\ n <= n
        BY <1>0, <2>7
      <3> QED BY <3>3, <3>4
    <2>14. out[n] \in Seq(X) /\ \A x : x \in Elements(out[n]) <=> \E i \in D : x \in Elements(ss[i])
      BY <2>7, <2>12
    <2>15. \A R : (/\ \A i \in DOMAIN ss : Sorted(ss[i], R)
                  /\ \A i, j \in DOMAIN ss : i < j =>
                       \A x \in Elements(ss[i]), y \in Elements(ss[j]) : <<x, y>> \in R)
                 => Sorted(FlattenSeq(ss), R)
      <3> SUFFICES ASSUME NEW R, \A i \in DOMAIN ss : Sorted(ss[i], R),
                          \A i, j \in DOMAIN ss : i < j =>
                             \A x \in Elements(ss[i]), y \in Elements(ss[j]) : <<x, y>> \in R
                   PROVE  Sorted(FlattenSeq(ss), R)
        OBVIOUS
      <3>1. Sorted(out[n], R)
        BY <2>13
      <3> QED BY <2>5, <3>1
    <2> HIDE DEF D
    <2> QED BY <1>0, <2>5, <2>14, <2>15
  <1> QED BY <1>1, <1>2

(* A set of places is arranged by what they are given, then as they come.   *)
LEMMA ArrangedOrder ==
  ASSUME NEW I, IsFiniteSet(I), I \subseteq Nat, NEW at \in [I -> Nat]
  PROVE  /\ Cardinality(I) \in Nat /\ DOMAIN Arranged(I, at) = 1..Cardinality(I)
         /\ IsList(Arranged(I, at))
         /\ \A k \in DOMAIN Arranged(I, at) : Arranged(I, at)[k] \in I
         /\ \A i \in I : \E k \in DOMAIN Arranged(I, at) : Arranged(I, at)[k] = i
         /\ \A k, l \in DOMAIN Arranged(I, at) : k < l =>
              \/ at[Arranged(I, at)[k]] < at[Arranged(I, at)[l]]
              \/ at[Arranged(I, at)[k]] = at[Arranged(I, at)[l]] /\ Arranged(I, at)[k] < Arranged(I, at)[l]
  <1> DEFINE n == Cardinality(I)
             less(i, j) == at[i] < at[j] \/ (at[i] = at[j] /\ i < j)
             Before(i) == {j \in I : at[j] < at[i] \/ (at[j] = at[i] /\ j < i)}
             rank == [i \in I |-> Cardinality(Before(i))]
             f == Arranged(I, at)
  <1>1. n \in Nat
    BY FS_CardinalityType
  <1>2. f = [k \in 1..n |-> CHOOSE i \in I : Cardinality(Before(i)) = k - 1]
    BY DEF Arranged
  <1>3. \A i, j \in I : i # j => less(i, j) \/ less(j, i)
    BY SMT
  <1>4. \A i, j, k \in I : less(i, j) /\ less(j, k) => less(i, k)
    BY SMT
  <1>5. \A i, j \in I : less(i, j) => ~less(j, i) /\ i # j
    BY SMT
  <1>6. \A i \in I : Before(i) = {j \in I : less(j, i)}
    OBVIOUS
  <1> HIDE DEF less, Before, f
  <1>7. ASSUME NEW i \in I PROVE /\ IsFiniteSet(Before(i)) /\ Cardinality(Before(i)) \in Nat
                                 /\ Cardinality(Before(i)) < n
    <2>1. Before(i) \in SUBSET I /\ i \notin Before(i)
      BY <1>5, <1>6
    <2>2. IsFiniteSet(Before(i)) /\ Cardinality(Before(i)) <= n /\ (n = Cardinality(Before(i)) => I = Before(i))
      BY <2>1, FS_Subset
    <2>3. Cardinality(Before(i)) \in Nat
      BY <2>2, FS_CardinalityType
    <2> QED BY <1>1, <2>1, <2>2, <2>3
  <1>8. ASSUME NEW i \in I, NEW j \in I, less(i, j)
        PROVE  Cardinality(Before(i)) < Cardinality(Before(j))
    <2>1. Before(i) \in SUBSET Before(j) /\ i \in Before(j) /\ i \notin Before(i)
      BY <1>4, <1>5, <1>6, <1>8
    <2>2. Cardinality(Before(i)) <= Cardinality(Before(j))
          /\ (Cardinality(Before(j)) = Cardinality(Before(i)) => Before(j) = Before(i))
      BY <1>7, <2>1, FS_Subset
    <2> QED BY <1>7, <2>1, <2>2
  <1>9. rank \in Injection(I, 0..(n - 1))
    <2>1. rank \in [I -> 0..(n - 1)]
      BY <1>1, <1>7
    <2>2. ASSUME NEW i \in I, NEW j \in I, i # j PROVE rank[i] # rank[j]
      <3>1. rank[i] < rank[j] \/ rank[j] < rank[i]
        BY <1>3, <1>8, <2>2
      <3>2. rank[i] \in Nat /\ rank[j] \in Nat
        BY <1>7
      <3> HIDE DEF rank
      <3> QED BY <3>1, <3>2
    <2> HIDE DEF rank
    <2> QED BY <2>1, <2>2 DEF Injection, IsInjective
  <1>10. rank \in Surjection(I, 0..(n - 1))
    <2>1. IsFiniteSet(0..(n - 1)) /\ Cardinality(0..(n - 1)) = n
      BY <1>1, FS_Interval
    <2> HIDE DEF rank
    <2> QED BY <1>9, <2>1, FS_Injection
  <1>11. ASSUME NEW k \in 1..n PROVE f[k] \in I /\ Cardinality(Before(f[k])) = k - 1
    <2>1. k - 1 \in 0..(n - 1)
      BY <1>1
    <2>2. \E i \in I : rank[i] = k - 1
      <3> HIDE DEF rank
      <3> QED BY <1>10, <2>1 DEF Surjection
    <2>3. \E i \in I : Cardinality(Before(i)) = k - 1
      BY <2>2
    <2>4. f[k] = CHOOSE i \in I : Cardinality(Before(i)) = k - 1
      BY <1>2
    <2> QED BY <2>3, <2>4
  <1>12. DOMAIN f = 1..n
    BY <1>2
  <1>13. ASSUME NEW i \in I PROVE \E k \in DOMAIN f : f[k] = i
    <2> DEFINE k == Cardinality(Before(i)) + 1
    <2>1. k \in 1..n /\ k - 1 = Cardinality(Before(i))
      BY <1>1, <1>7
    <2>2. f[k] \in I /\ Cardinality(Before(f[k])) = Cardinality(Before(i))
      BY <1>11, <2>1
    <2>3. f[k] = i
      <3>1. ASSUME f[k] # i PROVE FALSE
        <4>1. \/ Cardinality(Before(f[k])) < Cardinality(Before(i))
              \/ Cardinality(Before(i)) < Cardinality(Before(f[k]))
          BY <1>3, <1>8, <2>2, <3>1
        <4> QED BY <1>7, <2>2, <4>1
      <3> QED BY <3>1
    <2> HIDE DEF k
    <2> QED BY <1>12, <2>1, <2>3
  <1>14. ASSUME NEW k \in DOMAIN f, NEW l \in DOMAIN f, k < l PROVE less(f[k], f[l])
    <2>1. /\ f[k] \in I /\ Cardinality(Before(f[k])) = k - 1
          /\ f[l] \in I /\ Cardinality(Before(f[l])) = l - 1 /\ k \in Int /\ l \in Int
      BY <1>11, <1>12
    <2>2. f[k] # f[l]
      BY <1>14, <2>1
    <2>3. ASSUME less(f[l], f[k]) PROVE FALSE
      <3>1. Cardinality(Before(f[l])) < Cardinality(Before(f[k]))
        BY <1>8, <2>1, <2>3
      <3> QED BY <1>14, <2>1, <3>1
    <2> QED BY <1>3, <2>1, <2>2, <2>3
  <1>15. IsList(f)
    <2>1. f = [k \in 1..n |-> f[k]]
      BY <1>2
    <2> QED BY <1>1, <2>1, FunctionIsList
  <1>16. \A k, l \in DOMAIN f : k < l =>
           at[f[k]] < at[f[l]] \/ (at[f[k]] = at[f[l]] /\ f[k] < f[l])
    BY <1>14 DEF less
  <1> QED BY <1>1, <1>11, <1>12, <1>13, <1>15, <1>16 DEF f

LEMMA KeptPlaces ==
  ASSUME NEW s, IsList(s), NEW I, I \subseteq DOMAIN s
  PROVE  LET f == Arranged(I, [i \in I |-> 0])
         IN  /\ IsList(f) /\ IsList(Keep(s, I)) /\ DOMAIN Keep(s, I) = DOMAIN f /\ DOMAIN f = 1..Len(f)
             /\ \A k \in DOMAIN f : f[k] \in I /\ Keep(s, I)[k] = s[f[k]]
             /\ \A i \in I : \E k \in DOMAIN f : f[k] = i
             /\ \A k, l \in DOMAIN f : k < l => f[k] < f[l]
  <1> DEFINE at == [i \in I |-> 0]
             f == Arranged(I, at)
  <1>1. at \in [I -> Nat] /\ \A i \in I : at[i] = 0
    OBVIOUS
  <1>2. IsFiniteSet(I) /\ I \subseteq Nat
    <2>1. DOMAIN s = 1..Len(s) /\ Len(s) \in Nat
      BY ListProperties
    <2>2. IsFiniteSet(1..Len(s))
      BY <2>1, FS_Interval
    <2> QED BY <2>1, <2>2, FS_Subset
  <1> HIDE DEF at
  <1>3. /\ IsList(f) /\ \A k \in DOMAIN f : f[k] \in I
        /\ \A i \in I : \E k \in DOMAIN f : f[k] = i
        /\ \A k, l \in DOMAIN f : k < l =>
              \/ at[f[k]] < at[f[l]]
              \/ at[f[k]] = at[f[l]] /\ f[k] < f[l]
    BY <1>1, <1>2, ArrangedOrder
  <1>4. Keep(s, I) = [k \in DOMAIN f |-> s[f[k]]]
    BY DEF Keep, at
  <1> HIDE DEF f
  <1>5. IsList(Keep(s, I)) /\ DOMAIN Keep(s, I) = DOMAIN f
    <2>1. DOMAIN f = 1..Len(f) /\ Len(f) \in Nat
      BY <1>3, ListProperties
    <2>2. Keep(s, I) = [k \in 1..Len(f) |-> Keep(s, I)[k]]
      BY <1>4, <2>1
    <2> QED BY <1>4, <2>1, <2>2, FunctionIsList
  <1>6. \A k, l \in DOMAIN f : k < l => f[k] < f[l]
    <2>1. \A k \in DOMAIN f : at[f[k]] = 0
      BY <1>1, <1>3
    <2> QED BY <1>3, <2>1
  <1>7. DOMAIN f = 1..Len(f)
    BY <1>3, ListProperties
  <1>8. \A k \in DOMAIN f : f[k] \in I /\ Keep(s, I)[k] = s[f[k]]
    BY <1>3, <1>4
  <1> QED BY <1>3, <1>5, <1>6, <1>7, <1>8 DEF f, at

LEMMA KeptElements ==
  ASSUME NEW s, IsList(s), NEW I, I \subseteq DOMAIN s
  PROVE  IsList(Keep(s, I)) /\ Elements(Keep(s, I)) = {s[i] : i \in I}
  <1> DEFINE f == Arranged(I, [i \in I |-> 0])
             retained == Keep(s, I)
  <1>1. /\ IsList(retained) /\ DOMAIN retained = DOMAIN f
        /\ \A k \in DOMAIN f : f[k] \in I /\ retained[k] = s[f[k]]
        /\ \A i \in I : \E k \in DOMAIN f : f[k] = i
    BY KeptPlaces
  <1> HIDE DEF f, retained
  <1>2. Elements(retained) = {s[i] : i \in I}
    BY <1>1 DEF Elements, ToSet
  <1> QED BY <1>1, <1>2 DEF retained

(* A list of numbers that goes up and reaches each number counts.           *)
Climbs(h, m, n) ==
  /\ \A k, l \in 1..m : k < l => h[k] < h[l]
  /\ \A j \in 1..n : \E k \in 1..m : h[k] = j

LEMMA IncreasingOnto ==
  ASSUME NEW m \in Nat, NEW n \in Nat, NEW h \in [1..m -> 1..n], Climbs(h, m, n)
  PROVE  m = n /\ \A k \in 1..m : h[k] = k
  <1> USE DEF Climbs
  <1> DEFINE P == {j \in Nat : \A k \in Nat : k <= j /\ k \in 1..m => h[k] = k}
  <1>1. 0 \in P
    BY SMT
  <1>2. ASSUME NEW j \in Nat, j \in P PROVE j + 1 \in P
    <2> SUFFICES ASSUME NEW k \in Nat, k <= j + 1, k \in 1..m PROVE h[k] = k
      OBVIOUS
    <2>1. CASE k <= j
      BY <1>2, <2>1
    <2>2. CASE k = j + 1
      <3>1. h[k] \in 1..n
        OBVIOUS
      <3>2. h[k] >= k
        <4>1. CASE k = 1
          BY <3>1, <4>1
        <4>2. CASE k # 1
          <5>1. k - 1 \in Nat /\ k - 1 <= j /\ k - 1 \in 1..m /\ k - 1 < k
            BY <2>2, <4>2
          <5>2. h[k - 1] = k - 1
            BY <1>2, <5>1
          <5>3. h[k - 1] < h[k]
            BY <5>1
          <5> QED BY <3>1, <5>1, <5>2, <5>3
        <4> QED BY <4>1, <4>2
      <3>3. k \in 1..n
        BY <3>1, <3>2
      <3>4. PICK l \in 1..m : h[l] = k
        BY <3>3
      <3>5. CASE l < k
        <4>1. l <= j /\ l \in Nat
          BY <2>2, <3>5
        <4>2. h[l] = l
          BY <1>2, <4>1
        <4> QED BY <3>4, <3>5, <4>2
      <3>6. CASE l > k
        <4>1. h[k] < h[l]
          BY <3>6
        <4> QED BY <3>1, <3>2, <3>4, <4>1
      <3>7. CASE l = k
        BY <3>4, <3>7
      <3> QED BY <3>5, <3>6, <3>7
    <2> QED BY <2>1, <2>2
  <1>3. Nat \subseteq P
    <2> HIDE DEF P
    <2> QED BY <1>1, <1>2, NaturalsInSet
  <1>4. \A k \in 1..m : h[k] = k
    <2>1. m \in P
      BY <1>3
    <2> QED BY <2>1
  <1>5. m <= n
    <2>1. CASE m = 0
      BY <2>1
    <2>2. CASE m # 0
      <3>1. m \in 1..m
        BY <2>2
      <3>2. h[m] \in 1..n /\ h[m] = m
        BY <3>1, <1>4
      <3> QED BY <3>2
    <2> QED BY <2>1, <2>2
  <1>6. n <= m
    <2>1. CASE n = 0
      BY <2>1
    <2>2. CASE n # 0
      <3>1. n \in 1..n
        BY <2>2
      <3>2. PICK k \in 1..m : h[k] = n
        BY <3>1
      <3> QED BY <3>2, <1>4
    <2> QED BY <2>1, <2>2
  <1> QED BY <1>4, <1>5, <1>6

(* Reading a graph back.                                                    *)

\* Where each place of I comes, when h counts them in their order.
Counts(I, at, n, h) ==
  /\ \A j \in 1..n : \E i \in I : h[i] = j
  /\ \A i, k \in I : at[i] < at[k] \/ (at[i] = at[k] /\ i < k) => h[i] < h[k]

LEMMA ArrangedCounts ==
  ASSUME NEW I, IsFiniteSet(I), I \subseteq Nat, NEW at \in [I -> Nat],
         NEW n \in Nat, NEW h \in [I -> 1..n], Counts(I, at, n, h)
  PROVE  DOMAIN Arranged(I, at) = 1..n /\ \A k \in 1..n : Arranged(I, at)[k] \in I /\ h[Arranged(I, at)[k]] = k
  <1> DEFINE f == Arranged(I, at)
             m == Cardinality(I)
             c == [k \in 1..m |-> h[f[k]]]
  <1>1. /\ m \in Nat /\ DOMAIN f = 1..m
        /\ \A k \in DOMAIN f : f[k] \in I
        /\ \A i \in I : \E k \in DOMAIN f : f[k] = i
        /\ \A k, l \in DOMAIN f : k < l =>
             \/ at[f[k]] < at[f[l]]
             \/ at[f[k]] = at[f[l]] /\ f[k] < f[l]
    BY ArrangedOrder
  <1> HIDE DEF f, m
  <1>2. \A k \in 1..m : f[k] \in I /\ c[k] = h[f[k]]
    BY <1>1
  <1>3. c \in [1..m -> 1..n]
    BY <1>2
  <1>4. ASSUME NEW k \in 1..m, NEW l \in 1..m, k < l PROVE c[k] < c[l]
    <2>1. \/ at[f[k]] < at[f[l]]
          \/ at[f[k]] = at[f[l]] /\ f[k] < f[l]
      BY <1>1, <1>4
    <2>2. h[f[k]] < h[f[l]]
      BY <1>2, <2>1 DEF Counts
    <2> QED BY <2>2
  <1>5. ASSUME NEW j \in 1..n PROVE \E k \in 1..m : c[k] = j
    <2>1. PICK i \in I : h[i] = j
      BY DEF Counts
    <2>2. PICK k \in 1..m : f[k] = i
      BY <1>1
    <2> QED BY <1>2, <2>1, <2>2
  <1> HIDE DEF c
  <1>6. m = n /\ \A k \in 1..m : c[k] = k
    <2>1. m \in Nat
      BY <1>1
    <2>2. Climbs(c, m, n)
      BY <1>4, <1>5 DEF Climbs
    <2> QED BY <1>3, <2>1, <2>2, IncreasingOnto
  <1> QED BY <1>1, <1>2, <1>6 DEF f

\* The nodes a predicate leads to from a node are found by their keys, each once.
EdgesFrom(g, owner, predicate) == {e \in Elements(g.edges) : e.predicate = predicate /\ e.from = owner}
LeadsOnce(g, owner, predicate) ==
  \A p, q \in DOMAIN g.edges :
    /\ p # q
    /\ g.edges[p].predicate = predicate /\ g.edges[p].from = owner
    /\ g.edges[q].predicate = predicate /\ g.edges[q].from = owner
    => g.edges[p].to # g.edges[q].to
FoundByKey(g, nodes) == \A j \in DOMAIN nodes : nodes[j].key \in Keys(g) /\ NodeAt(g, nodes[j].key) = nodes[j]
InOrder(nodes) ==
  /\ \A j \in DOMAIN nodes : nodes[j].order \in Nat
  /\ \A j, k \in DOMAIN nodes : j < k => nodes[j].order < nodes[k].order

LEMMA ChildrenOfNode ==
  ASSUME NEW g, IsList(g.edges), NEW owner, NEW predicate, LeadsOnce(g, owner, predicate),
         NEW nodes, IsList(nodes), FoundByKey(g, nodes), InOrder(nodes),
         {e.to : e \in EdgesFrom(g, owner, predicate)} = {nodes[j].key : j \in DOMAIN nodes}
  PROVE  Children(g, owner, predicate) = nodes
  <1> DEFINE I == {i \in DOMAIN g.edges : /\ g.edges[i].predicate = predicate
                                          /\ g.edges[i].from = owner
                                          /\ g.edges[i].to \in Keys(g)}
             n == Len(nodes)
             h == [i \in I |-> CHOOSE j \in 1..n : nodes[j].key = g.edges[i].to]
             at == [i \in I |-> NodeAt(g, g.edges[i].to).order]
  <1>1. DOMAIN g.edges = 1..Len(g.edges) /\ Len(g.edges) \in Nat /\ DOMAIN nodes = 1..n /\ n \in Nat
    BY ListProperties
  <1>2. \A i \in I : \E j \in 1..n : nodes[j].key = g.edges[i].to
    <2> SUFFICES ASSUME NEW i \in I PROVE \E j \in DOMAIN nodes : nodes[j].key = g.edges[i].to
      BY <1>1
    <2>1. g.edges[i] \in EdgesFrom(g, owner, predicate)
      BY DEF EdgesFrom, Elements, ToSet
    <2> QED BY <2>1
  <1>3. \A j \in 1..n : \E i \in I : nodes[j].key = g.edges[i].to
    <2> SUFFICES ASSUME NEW j \in DOMAIN nodes PROVE \E i \in I : nodes[j].key = g.edges[i].to
      BY <1>1
    <2>1. PICK e \in EdgesFrom(g, owner, predicate) : e.to = nodes[j].key
      OBVIOUS
    <2>2. nodes[j].key \in Keys(g)
      BY DEF FoundByKey
    <2> QED BY <2>1, <2>2 DEF EdgesFrom, Elements, ToSet
  <1>4. \A i, k \in I : i # k => g.edges[i].to # g.edges[k].to
    BY DEF LeadsOnce
  <1>5. IsFiniteSet(I) /\ I \subseteq Nat
    <2>1. IsFiniteSet(1..Len(g.edges))
      BY <1>1, FS_Interval
    <2> QED BY <1>1, <2>1, FS_Subset
  <1>6. \A i \in I : h[i] \in 1..n /\ nodes[h[i]].key = g.edges[i].to
    <2> HIDE DEF I, n
    <2> QED BY <1>2
  <1>7. \A i \in I : at[i] = NodeAt(g, g.edges[i].to).order
    OBVIOUS
  <1>8. Children(g, owner, predicate) = [k \in DOMAIN Arranged(I, at) |-> NodeAt(g, g.edges[Arranged(I, at)[k]].to)]
    BY DEF Children
  <1>9. h = [i \in I |-> h[i]] /\ at = [i \in I |-> at[i]]
    OBVIOUS
  <1> HIDE DEF I, n, h, at
  <1>10. \A i \in I : NodeAt(g, g.edges[i].to) = nodes[h[i]] /\ at[i] = nodes[h[i]].order
    BY <1>1, <1>6, <1>7 DEF FoundByKey
  <1>11. \A j \in 1..n : nodes[j].order \in Nat
    BY <1>1 DEF InOrder
  <1>12. h \in [I -> 1..n] /\ at \in [I -> Nat]
    BY <1>6, <1>9, <1>10, <1>11
  <1>13. \A i, k \in I : at[i] < at[k] => h[i] < h[k]
    <2> SUFFICES ASSUME NEW i \in I, NEW k \in I, at[i] < at[k], ~(h[i] < h[k]) PROVE FALSE
      OBVIOUS
    <2>1. h[k] = h[i] \/ h[k] < h[i]
      BY <1>12
    <2>2. h[k] < h[i] => nodes[h[k]].order < nodes[h[i]].order
      BY <1>1, <1>6 DEF InOrder
    <2> QED BY <1>6, <1>10, <1>11, <2>1, <2>2
  <1>14. \A j, k \in 1..n : nodes[j].order = nodes[k].order => j = k
    <2> SUFFICES ASSUME NEW j \in 1..n, NEW k \in 1..n, j < k PROVE nodes[j].order < nodes[k].order
      BY <1>1, <1>11
    <2> QED BY <1>1 DEF InOrder
  <1>15. \A i, k \in I : at[i] = at[k] => i = k
    <2> SUFFICES ASSUME NEW i \in I, NEW k \in I, at[i] = at[k] PROVE i = k
      OBVIOUS
    <2>1. h[i] = h[k]
      BY <1>6, <1>10, <1>14
    <2>2. g.edges[i].to = g.edges[k].to
      BY <1>6, <2>1
    <2> QED BY <1>4, <2>2
  <1>16. \A i, k \in I : at[i] < at[k] \/ (at[i] = at[k] /\ i < k) => h[i] < h[k]
    BY <1>5, <1>13, <1>15
  <1>17. \A j \in 1..n : \E i \in I : h[i] = j
    <2> SUFFICES ASSUME NEW j \in 1..n PROVE \E i \in I : h[i] = j
      OBVIOUS
    <2>1. PICK i \in I : nodes[j].key = g.edges[i].to
      BY <1>3
    <2>2. nodes[h[i]] = nodes[j]
      BY <1>1, <1>10, <2>1 DEF FoundByKey
    <2>3. h[i] = j
      BY <1>6, <1>14, <2>2
    <2> QED BY <2>3
  <1>18. DOMAIN Arranged(I, at) = 1..n /\ \A k \in 1..n : Arranged(I, at)[k] \in I /\ h[Arranged(I, at)[k]] = k
    <2>1. Counts(I, at, n, h)
      BY <1>16, <1>17 DEF Counts
    <2> QED BY <1>1, <1>5, <1>12, <2>1, ArrangedCounts
  <1>19. nodes = [k \in 1..n |-> nodes[k]]
    BY <1>1, LenProperties DEF IsList, n
  <1>20. \A k \in 1..n : NodeAt(g, g.edges[Arranged(I, at)[k]].to) = nodes[k]
    BY <1>10, <1>18
  <1> QED BY <1>8, <1>18, <1>19, <1>20

(***************************************************************************)
(* Lists joined from parts: what is found in them first, and what the      *)
(* edges of one predicate are.                                             *)
(***************************************************************************)
LEMMA OneInList ==
  ASSUME NEW a
  PROVE  IsList(<<a>>) /\ DOMAIN <<a>> = {1} /\ <<a>>[1] = a /\ Elements(<<a>>) = {a}
  <1> DEFINE l == <<a>>
  <1>1. l = [i \in 1..1 |-> l[i]] /\ DOMAIN l = {1} /\ l[1] = a
    OBVIOUS
  <1> HIDE DEF l
  <1>2. IsList(l)
    BY <1>1, FunctionIsList
  <1> QED BY <1>1, <1>2 DEF Elements, ToSet, l

LEMMA NoneInList == IsList(<<>>) /\ Elements(<<>>) = {} /\ DOMAIN <<>> = {}
  <1>1. <<>> \in Seq({}) /\ DOMAIN <<>> = {}
    OBVIOUS
  <1> QED BY <1>1, ElementsOfSeq DEF Elements, ToSet

LEMMA MappedList ==
  ASSUME NEW seq, IsList(seq), NEW nodes, nodes = [i \in DOMAIN seq |-> nodes[i]]
  PROVE  IsList(nodes) /\ DOMAIN nodes = DOMAIN seq /\ Len(nodes) = Len(seq)
  <1>1. DOMAIN seq = 1..Len(seq) /\ Len(seq) \in Nat
    BY ListProperties
  <1> QED BY <1>1, FunctionIsList

LEMMA ListsJoined ==
  ASSUME NEW a, IsList(a), NEW b, IsList(b)
  PROVE  /\ IsList(a \o b) /\ Elements(a \o b) = Elements(a) \union Elements(b)
         /\ \A R : (/\ Sorted(a, R) /\ Sorted(b, R)
                    /\ \A x \in Elements(a), y \in Elements(b) : <<x, y>> \in R)
                   => Sorted(a \o b, R)
  <1> DEFINE X == Elements(a) \union Elements(b)
             c == a \o b
  <1>1. a \in Seq(X) /\ b \in Seq(X)
    BY ListIsSeq
  <1>2. /\ c \in Seq(X) /\ \A x : x \in Elements(c) <=> x \in Elements(a) \/ x \in Elements(b)
        /\ \A R : (/\ Sorted(a, R) /\ Sorted(b, R)
                   /\ \A x \in Elements(a), y \in Elements(b) : <<x, y>> \in R)
                  => Sorted(c, R)
    BY <1>1, Concatenated
  <1>3. IsList(c)
    BY <1>2, ElementsOfSeq
  <1> HIDE DEF c
  <1>4. Elements(c) = X
    BY <1>2
  <1> QED BY <1>2, <1>3, <1>4 DEF c

\* A node that is the first of its key, and the keys of a list of nodes.
FirstOf(l, n)  == \E i \in DOMAIN l : l[i] = n /\ \A j \in DOMAIN l : j < i => l[j].key # n.key
KeysIn(l)      == {n.key : n \in Elements(l)}
KeysOnce(l)    == \A i, j \in DOMAIN l : i # j => l[i].key # l[j].key

LEMMA FirstIfOnce ==
  ASSUME NEW l, IsList(l), KeysOnce(l), NEW n \in Elements(l)
  PROVE  FirstOf(l, n)
  <1>1. PICK i \in DOMAIN l : l[i] = n
    BY DEF Elements, ToSet
  <1>2. DOMAIN l = 1..Len(l) /\ Len(l) \in Nat
    BY ListProperties
  <1>3. \A j \in DOMAIN l : j < i => l[j].key # n.key
    BY <1>1, <1>2 DEF KeysOnce
  <1> QED BY <1>1, <1>3 DEF FirstOf

LEMMA FirstInJoined ==
  ASSUME NEW a, IsList(a), NEW b, IsList(b), NEW n,
         FirstOf(a, n) \/ (FirstOf(b, n) /\ n.key \notin KeysIn(a))
  PROVE  FirstOf(a \o b, n)
  <1> DEFINE c == a \o b
  <1>1. /\ Len(a) \in Nat /\ Len(b) \in Nat /\ DOMAIN a = 1..Len(a) /\ DOMAIN b = 1..Len(b)
        /\ DOMAIN c = 1 .. (Len(a) + Len(b))
        /\ \A i \in DOMAIN a : c[i] = a[i]
        /\ \A j \in DOMAIN b : c[Len(a) + j] = b[j]
    <2> DEFINE X == Elements(a) \union Elements(b)
    <2>1. a \in Seq(X) /\ b \in Seq(X)
      BY ListIsSeq
    <2> HIDE DEF X
    <2> QED BY <2>1
  <1>2. \A i \in DOMAIN c : i > Len(a) => i - Len(a) \in DOMAIN b /\ c[i] = b[i - Len(a)]
    <2> SUFFICES ASSUME NEW i \in DOMAIN c, i > Len(a)
                 PROVE  i - Len(a) \in DOMAIN b /\ c[i] = b[i - Len(a)]
      OBVIOUS
    <2> HIDE DEF c
    <2>1. i - Len(a) \in DOMAIN b /\ Len(a) + (i - Len(a)) = i
      BY <1>1
    <2> QED BY <1>1, <2>1
  <1> HIDE DEF c
  <1>3. CASE FirstOf(a, n)
    <2>1. PICK i \in DOMAIN a : a[i] = n /\ \A j \in DOMAIN a : j < i => a[j].key # n.key
      BY <1>3 DEF FirstOf
    <2>2. i \in DOMAIN c /\ c[i] = n
      BY <1>1, <2>1
    <2>3. ASSUME NEW j \in DOMAIN c, j < i PROVE c[j].key # n.key
      <3>1. j \in DOMAIN a /\ c[j] = a[j]
        BY <1>1, <2>1, <2>3
      <3> QED BY <2>1, <2>3, <3>1
    <2> QED BY <2>2, <2>3 DEF FirstOf, c
  <1>4. CASE FirstOf(b, n) /\ n.key \notin KeysIn(a)
    <2>1. PICK i \in DOMAIN b : b[i] = n /\ \A j \in DOMAIN b : j < i => b[j].key # n.key
      BY <1>4 DEF FirstOf
    <2>2. Len(a) + i \in DOMAIN c /\ c[Len(a) + i] = n
      BY <1>1, <2>1
    <2>3. ASSUME NEW j \in DOMAIN c, j < Len(a) + i PROVE c[j].key # n.key
      <3>1. CASE j \in DOMAIN a
        <4>1. a[j] \in Elements(a) /\ c[j] = a[j]
          BY <1>1, <3>1 DEF Elements, ToSet
        <4> QED BY <1>4, <4>1 DEF KeysIn
      <3>2. CASE j > Len(a)
        <4>1. j - Len(a) \in DOMAIN b /\ c[j] = b[j - Len(a)]
          BY <1>2, <3>2
        <4>2. j - Len(a) < i
          BY <1>1, <2>1, <2>3
        <4> QED BY <2>1, <4>1, <4>2
      <3> QED BY <1>1, <3>1, <3>2
    <2> QED BY <2>2, <2>3 DEF FirstOf, c
  <1> QED BY <1>3, <1>4

LEMMA FirstIsFound ==
  ASSUME NEW g, IsList(g.nodes), NEW n, FirstOf(g.nodes, n)
  PROVE  n.key \in Keys(g) /\ NodeAt(g, n.key) = n
  <1> DEFINE key == n.key
             I == {i \in 1..Len(g.nodes) : g.nodes[i].key = key}
  <1>1. DOMAIN g.nodes = 1..Len(g.nodes) /\ Len(g.nodes) \in Nat
    BY ListProperties
  <1>2. PICK p \in DOMAIN g.nodes : g.nodes[p] = n /\ \A j \in DOMAIN g.nodes : j < p => g.nodes[j].key # key
    BY DEF FirstOf
  <1>3. p \in I /\ \A i \in I : i \in Nat /\ p <= i
    BY <1>1, <1>2
  <1>4. NodeAt(g, key) = g.nodes[IF I # {} THEN Min(I) ELSE 0]
    BY DEF NodeAt, SelectInSeq
  <1>5. p \in Nat /\ key \in Keys(g)
    BY <1>1, <1>2 DEF Keys, Elements, ToSet
  <1> HIDE DEF I, key
  <1>6. Min(I) = p
    BY <1>3, <1>5 DEF Min
  <1>7. NodeAt(g, key) = n
    BY <1>2, <1>3, <1>4, <1>6
  <1> QED BY <1>5, <1>7 DEF key

\* The edges a list has of one predicate, when no two of them lead from one
\* node to another.
EdgesDiffer(P, x, y) == x.predicate = P /\ y.predicate = P /\ x.from = y.from => x.to # y.to
Differing(X, P)      == {p \in X \X X : EdgesDiffer(P, p[1], p[2])}
Carries(l, P, E) ==
  /\ IsList(l)
  /\ {e \in Elements(l) : e.predicate = P} = E
  /\ \A i, j \in DOMAIN l : i < j => EdgesDiffer(P, l[i], l[j])

LEMMA DifferSorted ==
  ASSUME NEW l, IsList(l), NEW X, Elements(l) \subseteq X, NEW P
  PROVE  Sorted(l, Differing(X, P)) <=> \A i, j \in DOMAIN l : i < j => EdgesDiffer(P, l[i], l[j])
  <1>1. \A i \in DOMAIN l : l[i] \in X
    BY DEF Elements, ToSet
  <1>2. \A x, y \in X : <<x, y>> \in Differing(X, P) <=> EdgesDiffer(P, x, y)
    BY DEF Differing
  <1> QED BY <1>1, <1>2 DEF Sorted

LEMMA NothingCarried ==
  ASSUME NEW l, IsList(l), NEW P, \A e \in Elements(l) : e.predicate # P
  PROVE  Carries(l, P, {})
  <1>1. \A i \in DOMAIN l : l[i].predicate # P
    BY DEF Elements, ToSet
  <1> QED BY <1>1 DEF Carries, EdgesDiffer

LEMMA AllCarried ==
  ASSUME NEW l, IsList(l), NEW P, \A e \in Elements(l) : e.predicate = P,
         \A i, j \in DOMAIN l : i # j => l[i].to # l[j].to
  PROVE  Carries(l, P, Elements(l))
  <1>1. DOMAIN l = 1..Len(l) /\ Len(l) \in Nat
    BY ListProperties
  <1> QED BY <1>1 DEF Carries, EdgesDiffer

LEMMA CarriedJoined ==
  ASSUME NEW P, NEW a, NEW E, Carries(a, P, E), NEW b, NEW F, Carries(b, P, F), E = {} \/ F = {}
  PROVE  Carries(a \o b, P, E \union F)
  <1> DEFINE X == Elements(a) \union Elements(b)
             c == a \o b
  <1>1. IsList(a) /\ IsList(b)
    BY DEF Carries
  <1>2. /\ IsList(c) /\ Elements(c) = X
        /\ \A R : (/\ Sorted(a, R) /\ Sorted(b, R)
                   /\ \A x \in Elements(a), y \in Elements(b) : <<x, y>> \in R)
                  => Sorted(c, R)
    BY <1>1, ListsJoined
  <1> HIDE DEF c
  <1>3. Sorted(a, Differing(X, P)) /\ Sorted(b, Differing(X, P))
    <2>1. Elements(a) \subseteq X /\ Elements(b) \subseteq X
      OBVIOUS
    <2> HIDE DEF X
    <2> QED BY <1>1, <2>1, DifferSorted DEF Carries
  <1>4. ASSUME NEW x \in Elements(a), NEW y \in Elements(b) PROVE <<x, y>> \in Differing(X, P)
    <2>1. x \in X /\ y \in X
      OBVIOUS
    <2>2. x.predicate # P \/ y.predicate # P
      BY DEF Carries
    <2> QED BY <2>1, <2>2 DEF Differing, EdgesDiffer
  <1>5. Sorted(c, Differing(X, P))
    BY <1>2, <1>3, <1>4
  <1>6. \A i, j \in DOMAIN c : i < j => EdgesDiffer(P, c[i], c[j])
    <2>1. Elements(c) \subseteq X
      BY <1>2
    <2> HIDE DEF X
    <2> QED BY <1>2, <1>5, <2>1, DifferSorted
  <1>7. {e \in Elements(c) : e.predicate = P} = E \union F
    BY <1>2 DEF Carries
  <1> QED BY <1>2, <1>6, <1>7 DEF Carries, c

\* The edges of a list of lists.
CarriesEach(seq, parts, P, E) ==
  /\ IsList(seq) /\ parts = [i \in DOMAIN seq |-> parts[i]]
  /\ \A i \in DOMAIN seq : Carries(parts[i], P, E[i])
  /\ \A i, j \in DOMAIN seq : i < j => \A x \in E[i], y \in E[j] : EdgesDiffer(P, x, y)

LEMMA CarriedFlattened ==
  ASSUME NEW seq, NEW parts, NEW P, NEW E, CarriesEach(seq, parts, P, E)
  PROVE  /\ Carries(FlattenSeq(parts), P, UNION {E[i] : i \in DOMAIN seq})
         /\ \A e : e \in Elements(FlattenSeq(parts)) <=> \E i \in DOMAIN seq : e \in Elements(parts[i])
  <1> DEFINE X == UNION {Elements(parts[i]) : i \in DOMAIN seq}
             c == FlattenSeq(parts)
  <1>1. IsList(parts) /\ DOMAIN parts = DOMAIN seq
    BY MappedList DEF CarriesEach
  <1>2. \A i \in DOMAIN seq : IsList(parts[i]) /\ parts[i] \in Seq(X)
    <2> SUFFICES ASSUME NEW i \in DOMAIN seq PROVE IsList(parts[i]) /\ parts[i] \in Seq(X)
      OBVIOUS
    <2>1. IsList(parts[i]) /\ Elements(parts[i]) \subseteq X
      BY DEF CarriesEach, Carries
    <2> HIDE DEF X
    <2> QED BY <2>1, ListIsSeq
  <1>3. parts \in Seq(Seq(X))
    <2>1. Elements(parts) \subseteq Seq(X)
      BY <1>1, <1>2 DEF Elements, ToSet
    <2> HIDE DEF X
    <2> QED BY <1>1, <2>1, ListIsSeq
  <1>4. /\ c \in Seq(X)
        /\ \A x : x \in Elements(c) <=> \E i \in DOMAIN parts : x \in Elements(parts[i])
        /\ \A R : (/\ \A i \in DOMAIN parts : Sorted(parts[i], R)
                   /\ \A i, j \in DOMAIN parts : i < j =>
                        \A x \in Elements(parts[i]), y \in Elements(parts[j]) : <<x, y>> \in R)
                  => Sorted(c, R)
    <2> HIDE DEF X
    <2> QED BY <1>3, Flattened
  <1>5. IsList(c) /\ Elements(c) \subseteq X
    <2> HIDE DEF X, c
    <2> QED BY <1>4, ElementsOfSeq
  <1> HIDE DEF c
  <1>6. ASSUME NEW i \in DOMAIN seq PROVE Sorted(parts[i], Differing(X, P))
    <2>1. Elements(parts[i]) \subseteq X
      OBVIOUS
    <2> HIDE DEF X
    <2> QED BY <1>2, <2>1, DifferSorted DEF CarriesEach, Carries
  <1>7. ASSUME NEW i \in DOMAIN seq, NEW j \in DOMAIN seq, i < j,
               NEW x \in Elements(parts[i]), NEW y \in Elements(parts[j])
        PROVE  <<x, y>> \in Differing(X, P)
    <2>1. x \in X /\ y \in X
      OBVIOUS
    <2>2. {e \in Elements(parts[i]) : e.predicate = P} = E[i] /\ {e \in Elements(parts[j]) : e.predicate = P} = E[j]
      BY DEF CarriesEach, Carries
    <2>3. EdgesDiffer(P, x, y)
      <3>1. CASE x.predicate = P /\ y.predicate = P
        BY <1>7, <2>2, <3>1 DEF CarriesEach
      <3>2. CASE ~(x.predicate = P /\ y.predicate = P)
        BY <3>2 DEF EdgesDiffer
      <3> QED BY <3>1, <3>2
    <2> QED BY <2>1, <2>3 DEF Differing
  <1>8. Sorted(c, Differing(X, P))
    <2> HIDE DEF X
    <2> QED BY <1>1, <1>4, <1>6, <1>7
  <1>9. \A i, j \in DOMAIN c : i < j => EdgesDiffer(P, c[i], c[j])
    <2> HIDE DEF X
    <2> QED BY <1>5, <1>8, DifferSorted
  <1>10. \A e : e \in Elements(c) <=> \E i \in DOMAIN seq : e \in Elements(parts[i])
    BY <1>1, <1>4
  <1>11. \A i \in DOMAIN seq : {e \in Elements(parts[i]) : e.predicate = P} = E[i]
    BY DEF CarriesEach, Carries
  <1>12. {e \in Elements(c) : e.predicate = P} = UNION {E[i] : i \in DOMAIN seq}
    BY <1>10, <1>11
  <1> QED BY <1>5, <1>9, <1>10, <1>12 DEF Carries, c

LEMMA CarriedOnce ==
  ASSUME NEW g, NEW P, NEW E, Carries(g.edges, P, E), NEW owner
  PROVE  /\ IsList(g.edges) /\ LeadsOnce(g, owner, P)
         /\ EdgesFrom(g, owner, P) = {e \in E : e.from = owner}
  <1>1. IsList(g.edges) /\ DOMAIN g.edges = 1..Len(g.edges) /\ Len(g.edges) \in Nat
    BY ListProperties DEF Carries
  <1>2. LeadsOnce(g, owner, P)
    <2> SUFFICES ASSUME NEW p \in DOMAIN g.edges, NEW q \in DOMAIN g.edges, p # q,
                        g.edges[p].predicate = P, g.edges[p].from = owner,
                        g.edges[q].predicate = P, g.edges[q].from = owner
                 PROVE  g.edges[p].to # g.edges[q].to
      BY DEF LeadsOnce
    <2>1. p < q \/ q < p
      BY <1>1
    <2> QED BY <2>1 DEF Carries, EdgesDiffer
  <1>3. EdgesFrom(g, owner, P) = {e \in E : e.from = owner}
    BY DEF EdgesFrom, Carries
  <1> QED BY <1>1, <1>2, <1>3

LEMMA ChildrenHeld ==
  ASSUME NEW g, IsList(g.edges), NEW owner, NEW P,
         \A e \in EdgesFrom(g, owner, P) : e.to \in Keys(g) /\ NodeAt(g, e.to).order \in Nat
  PROVE  Elements(Children(g, owner, P)) = {NodeAt(g, e.to) : e \in EdgesFrom(g, owner, P)}
  <1> DEFINE I == {i \in DOMAIN g.edges : /\ g.edges[i].predicate = P
                                          /\ g.edges[i].from = owner
                                          /\ g.edges[i].to \in Keys(g)}
             at == [i \in I |-> NodeAt(g, g.edges[i].to).order]
             f == Arranged(I, at)
             c == Children(g, owner, P)
  <1>1. DOMAIN g.edges = 1..Len(g.edges) /\ Len(g.edges) \in Nat
    BY ListProperties
  <1>2. IsFiniteSet(I) /\ I \subseteq Nat
    <2>1. IsFiniteSet(1..Len(g.edges))
      BY <1>1, FS_Interval
    <2> QED BY <1>1, <2>1, FS_Subset
  <1>3. \A i \in I : g.edges[i] \in EdgesFrom(g, owner, P)
    BY DEF EdgesFrom, Elements, ToSet
  <1>4. \A e \in EdgesFrom(g, owner, P) : \E i \in I : g.edges[i] = e
    <2> SUFFICES ASSUME NEW e \in EdgesFrom(g, owner, P) PROVE \E i \in I : g.edges[i] = e
      OBVIOUS
    <2>1. e.to \in Keys(g) /\ e.predicate = P /\ e.from = owner
      BY DEF EdgesFrom
    <2>2. PICK i \in DOMAIN g.edges : g.edges[i] = e
      BY DEF EdgesFrom, Elements, ToSet
    <2> QED BY <2>1, <2>2
  <1>5. at \in [I -> Nat]
    <2>1. \A i \in I : NodeAt(g, g.edges[i].to).order \in Nat
      BY <1>3
    <2> QED BY <2>1
  <1>6. c = [k \in DOMAIN f |-> NodeAt(g, g.edges[f[k]].to)]
    BY DEF Children
  <1> HIDE DEF I, at, c
  <1>7. /\ \A k \in DOMAIN f : f[k] \in I
        /\ \A i \in I : \E k \in DOMAIN f : f[k] = i
    BY <1>2, <1>5, ArrangedOrder
  <1> HIDE DEF f
  <1>8. Elements(c) = {NodeAt(g, e.to) : e \in EdgesFrom(g, owner, P)}
    <2>1. Elements(c) = {c[k] : k \in DOMAIN f}
      BY <1>6 DEF Elements, ToSet
    <2>2. \A k \in DOMAIN f : c[k] = NodeAt(g, g.edges[f[k]].to)
      BY <1>6
    <2>3. ASSUME NEW x \in Elements(c) PROVE x \in {NodeAt(g, e.to) : e \in EdgesFrom(g, owner, P)}
      <3>1. PICK k \in DOMAIN f : x = NodeAt(g, g.edges[f[k]].to)
        BY <2>1, <2>2
      <3>2. g.edges[f[k]] \in EdgesFrom(g, owner, P)
        BY <1>3, <1>7
      <3> QED BY <3>1, <3>2
    <2>4. ASSUME NEW e \in EdgesFrom(g, owner, P) PROVE NodeAt(g, e.to) \in Elements(c)
      <3>1. PICK i \in I : g.edges[i] = e
        BY <1>4
      <3>2. PICK k \in DOMAIN f : f[k] = i
        BY <1>7
      <3> QED BY <2>1, <2>2, <3>1, <3>2
    <2> QED BY <2>3, <2>4
  <1> QED BY <1>8 DEF c

(***************************************************************************)
(* The nodes of a design, kind by kind, and what its keys find.            *)
(***************************************************************************)
AnchorNode(d)    == Node("anchor", Root, 0, [framework |-> d.framework, prose |-> d.prose, wiring |-> d.wiring])
BoardNode(d)     == Node("board", Board, 0, [board |-> d.board])
FactNodes(d)     == [i \in DOMAIN d.facts |-> Node("board_fact", Key("board_fact", i), i, d.facts[i])]
ResourceProps(r) == [p \in {"roles"} \union {q \in {"via", "address"} : r[q] # None} |-> r[p]]
ResourceNodes(d) == [i \in DOMAIN d.resources |->
                       Node("resource", Key("resource", d.resources[i].name), i, ResourceProps(d.resources[i]))]
FacetNodes(d)    == [i \in DOMAIN Facets(d) |->
                       Node("facet", Plain(Facets(d)[i]), 0,
                            [facet |-> Facets(d)[i], detail |-> d.facets[Facets(d)[i]]])]
MailboxNodes(d)  == [i \in DOMAIN Mailboxes(d) |-> Node("message", Plain(Mailboxes(d)[i]), 0, [p \in {} |-> None])]
SetNodes(d)      == [i \in DOMAIN d.messages |->
                       Node("message_set", Key("message_set", d.messages[i].id), i,
                            [kinds |-> d.messages[i].kinds, fields |-> d.messages[i].fields])]
UnitNodes(d)     == [i \in DOMAIN d.units |->
                       Node(d.units[i].kind, Plain(d.units[i].id), i, UnitProps(d.units[i]))]
Anchors(d)       == <<AnchorNode(d), BoardNode(d)>>

LEMMA NodesInParts ==
  ASSUME NEW d
  PROVE  NodesOf(d) = Anchors(d) \o FactNodes(d) \o ResourceNodes(d) \o FacetNodes(d) \o MailboxNodes(d)
                        \o SetNodes(d) \o UnitNodes(d)
  BY Zenon DEF NodesOf, Anchors, AnchorNode, BoardNode, FactNodes, ResourceProps, ResourceNodes, FacetNodes,
           MailboxNodes, SetNodes, UnitNodes

LEMMA FacetOrderList ==
  /\ IsList(FacetOrder) /\ DOMAIN FacetOrder = 1..4
  /\ \A i, j \in 1..4 : i # j => FacetOrder[i] # FacetOrder[j]
  /\ \A f \in Elements(FacetOrder) : f \notin {"composition", "board"}
  <1>1. FacetOrder \in Seq({"power", "storage", "network", "security"}) /\ DOMAIN FacetOrder = 1..4
    BY DEF FacetOrder
  <1>2. \A i, j \in 1..4 : i # j => FacetOrder[i] # FacetOrder[j]
    BY DEF FacetOrder
  <1>3. IsList(FacetOrder) /\ Elements(FacetOrder) \subseteq {"power", "storage", "network", "security"}
    BY <1>1, ElementsOfSeq
  <1> QED BY <1>1, <1>2, <1>3

LEMMA FacetsListed ==
  ASSUME NEW d, IsDesign(d)
  PROVE  /\ IsList(Facets(d)) /\ Elements(Facets(d)) = DOMAIN d.facets
         /\ \A i, j \in DOMAIN Facets(d) : i # j => Facets(d)[i] # Facets(d)[j]
  <1> DEFINE I == {i \in DOMAIN FacetOrder : FacetOrder[i] \in DOMAIN d.facets}
             f == Arranged(I, [i \in I |-> 0])
             l == Keep(FacetOrder, I)
  <1>1. Facets(d) = l /\ I \subseteq DOMAIN FacetOrder
    BY DEF Facets
  <1>2. \A i \in DOMAIN FacetOrder : i \in I <=> FacetOrder[i] \in DOMAIN d.facets
    OBVIOUS
  <1> HIDE DEF I
  <1>3. /\ IsList(f) /\ DOMAIN l = DOMAIN f /\ DOMAIN f = 1..Len(f)
        /\ \A k \in DOMAIN f : f[k] \in I /\ l[k] = FacetOrder[f[k]]
        /\ \A k, m \in DOMAIN f : k < m => f[k] < f[m]
    BY <1>1, FacetOrderList, KeptPlaces
  <1>4. IsList(l) /\ Elements(l) = {FacetOrder[i] : i \in I}
    BY <1>1, FacetOrderList, KeptElements
  <1>5. Len(f) \in Nat
    BY <1>3, ListProperties
  <1> HIDE DEF f, l
  <1>6. Elements(l) = DOMAIN d.facets
    <2>1. \A x \in DOMAIN d.facets : \E i \in DOMAIN FacetOrder : FacetOrder[i] = x
      BY DEF IsDesign, Elements, ToSet
    <2> QED BY <1>1, <1>2, <1>4, <2>1
  <1>7. ASSUME NEW i \in DOMAIN l, NEW j \in DOMAIN l, i # j PROVE l[i] # l[j]
    <2>1. i < j \/ j < i
      BY <1>3, <1>5, <1>7
    <2>2. f[i] \in 1..4 /\ f[j] \in 1..4
      BY <1>1, <1>3, FacetOrderList
    <2>3. f[i] # f[j]
      BY <1>3, <2>1, <2>2
    <2>4. l[i] = FacetOrder[f[i]] /\ l[j] = FacetOrder[f[j]]
      BY <1>3
    <2> QED BY <2>2, <2>3, <2>4, FacetOrderList
  <1> QED BY <1>1, <1>4, <1>6, <1>7

LEMMA MailboxesListed ==
  ASSUME NEW d, IsDesign(d)
  PROVE  IsList(Mailboxes(d))
  <1> DEFINE named == [i \in DOMAIN d.units |-> d.units[i].message]
             I == {i \in DOMAIN named : named[i] # None /\ \A j \in 1 .. i - 1 : named[j] # named[i]}
  <1>1. IsList(named)
    <2>1. IsList(d.units) /\ named = [i \in DOMAIN d.units |-> named[i]]
      BY DEF IsDesign
    <2> HIDE DEF named
    <2> QED BY <2>1, MappedList
  <1>2. Mailboxes(d) = Keep(named, I) /\ I \subseteq DOMAIN named
    BY DEF Mailboxes
  <1> HIDE DEF named, I
  <1> QED BY <1>1, <1>2, KeptElements

LEMMA NodeListed ==
  ASSUME NEW nodes, IsList(nodes), NEW n \in Elements(nodes)
  PROVE  \E i \in DOMAIN nodes : nodes[i] = n
  BY DEF Elements, ToSet

\* The nodes of each kind are lists, and what they are is what the design lists.
LEMMA PartsListed ==
  ASSUME NEW d, IsDesign(d)
  PROVE  /\ IsList(FactNodes(d)) /\ DOMAIN FactNodes(d) = DOMAIN d.facts
         /\ IsList(ResourceNodes(d)) /\ DOMAIN ResourceNodes(d) = DOMAIN d.resources
         /\ IsList(FacetNodes(d)) /\ DOMAIN FacetNodes(d) = DOMAIN Facets(d)
         /\ IsList(MailboxNodes(d)) /\ DOMAIN MailboxNodes(d) = DOMAIN Mailboxes(d)
         /\ IsList(SetNodes(d)) /\ DOMAIN SetNodes(d) = DOMAIN d.messages
         /\ IsList(UnitNodes(d)) /\ DOMAIN UnitNodes(d) = DOMAIN d.units
  <1>1. IsList(d.facts) /\ IsList(d.resources) /\ IsList(d.messages) /\ IsList(d.units)
    BY DEF IsDesign
  <1>2. FactNodes(d) = [i \in DOMAIN d.facts |-> FactNodes(d)[i]]
    BY DEF FactNodes
  <1>3. ResourceNodes(d) = [i \in DOMAIN d.resources |-> ResourceNodes(d)[i]]
    BY DEF ResourceNodes
  <1>4. FacetNodes(d) = [i \in DOMAIN Facets(d) |-> FacetNodes(d)[i]]
    BY DEF FacetNodes
  <1>5. MailboxNodes(d) = [i \in DOMAIN Mailboxes(d) |-> MailboxNodes(d)[i]]
    BY DEF MailboxNodes
  <1>6. SetNodes(d) = [i \in DOMAIN d.messages |-> SetNodes(d)[i]]
    BY DEF SetNodes
  <1>7. UnitNodes(d) = [i \in DOMAIN d.units |-> UnitNodes(d)[i]]
    BY DEF UnitNodes
  <1>8. IsList(Facets(d)) /\ IsList(Mailboxes(d))
    BY FacetsListed, MailboxesListed
  <1>9. IsList(FactNodes(d)) /\ DOMAIN FactNodes(d) = DOMAIN d.facts
    BY <1>1, <1>2, MappedList
  <1>10. IsList(ResourceNodes(d)) /\ DOMAIN ResourceNodes(d) = DOMAIN d.resources
    BY <1>1, <1>3, MappedList
  <1>11. IsList(FacetNodes(d)) /\ DOMAIN FacetNodes(d) = DOMAIN Facets(d)
    BY <1>4, <1>8, MappedList
  <1>12. IsList(MailboxNodes(d)) /\ DOMAIN MailboxNodes(d) = DOMAIN Mailboxes(d)
    BY <1>5, <1>8, MappedList
  <1>13. IsList(SetNodes(d)) /\ DOMAIN SetNodes(d) = DOMAIN d.messages
    BY <1>1, <1>6, MappedList
  <1>14. IsList(UnitNodes(d)) /\ DOMAIN UnitNodes(d) = DOMAIN d.units
    BY <1>1, <1>7, MappedList
  <1> QED BY <1>9, <1>10, <1>11, <1>12, <1>13, <1>14

\* A design that obeys the rules repeats no name where its graph has a key.
NamesOnce(d) ==
  /\ \A i, j \in DOMAIN d.units : i # j => d.units[i].id # d.units[j].id
  /\ \A i, j \in DOMAIN d.resources : i # j => d.resources[i].name # d.resources[j].name
  /\ \A i, j \in DOMAIN d.messages : i # j => d.messages[i].id # d.messages[j].id

LEMMA SaidNone ==
  ASSUME NEW rule, NEW names, Said(rule, names) = {}
  PROVE  names = {}
  BY DEF Said

LEMMA ValidNamesOnce ==
  ASSUME NEW d, IsDesign(d), Valid(d)
  PROVE  NamesOnce(d)
  <1>1. FrameworkRule(d) = {} /\ MessageRule(d) = {} /\ ResourceRule(d) = {}
    BY DEF Valid, Problems
  <1>2. ASSUME NEW s, IsList(s), NEW i \in DOMAIN s, NEW j \in DOMAIN s, i # j
        PROVE  \/ j \in 1 .. i - 1
               \/ i \in 1 .. j - 1
    BY <1>2, ListProperties
  <1>3. IsList(d.units) /\ IsList(d.resources) /\ IsList(d.messages)
    BY DEF IsDesign
  <1>4. ASSUME NEW i \in DOMAIN d.units, NEW j \in DOMAIN d.units, i # j PROVE d.units[i].id # d.units[j].id
    <2>1. Said("declared twice", Twice(d.units, LAMBDA u : u.id)) = {}
      BY <1>1 DEF FrameworkRule
    <2>2. Twice(d.units, LAMBDA u : u.id) = {}
      BY <2>1, SaidNone
    <2>3. \A k \in DOMAIN d.units : \A m \in 1 .. k - 1 : d.units[m].id # d.units[k].id
      BY <2>2 DEF Twice
    <2> QED BY <1>2, <1>3, <1>4, <2>3
  <1>5. ASSUME NEW i \in DOMAIN d.resources, NEW j \in DOMAIN d.resources, i # j
        PROVE  d.resources[i].name # d.resources[j].name
    <2>1. Said("declared twice", Twice(d.resources, LAMBDA r : r.name)) = {}
      BY <1>1 DEF ResourceRule
    <2>2. Twice(d.resources, LAMBDA r : r.name) = {}
      BY <2>1, SaidNone
    <2>3. \A k \in DOMAIN d.resources : \A m \in 1 .. k - 1 : d.resources[m].name # d.resources[k].name
      BY <2>2 DEF Twice
    <2> QED BY <1>2, <1>3, <1>5, <2>3
  <1>6. ASSUME NEW i \in DOMAIN d.messages, NEW j \in DOMAIN d.messages, i # j
        PROVE  d.messages[i].id # d.messages[j].id
    <2>1. Said("declared twice", Twice(d.messages, TypeOf) \ {None}) = {}
      BY <1>1 DEF MessageRule
    <2>2. Twice(d.messages, TypeOf) \ {None} = {}
      BY <2>1, SaidNone
    <2>3. \A k \in DOMAIN d.messages : \A m \in 1 .. k - 1 :
             TypeOf(d.messages[m]) = TypeOf(d.messages[k]) => TypeOf(d.messages[k]) = None
      BY <2>2 DEF Twice
    <2>4. Said("no id", IF Decls(d) # Elements(d.messages) THEN {None} ELSE {}) = {}
      BY <1>1 DEF MessageRule
    <2>5. Decls(d) = Elements(d.messages)
      BY <2>4, SaidNone
    <2>6. \A k \in DOMAIN d.messages : TypeName[d.messages[k].id] # None
      BY <2>5 DEF Decls, Elements, ToSet
    <2> QED BY <1>2, <1>3, <1>6, <2>3, <2>6 DEF TypeOf
  <1> QED BY <1>4, <1>5, <1>6 DEF NamesOnce

LEMMA KeyParts ==
  ASSUME NEW prefix, NEW name
  PROVE  Key(prefix, name)[1] = prefix /\ Key(prefix, name)[2] = name /\ Plain(name) = Key(None, name)
  BY DEF Key, Plain

LEMMA AnchorsListed ==
  ASSUME NEW d
  PROVE  /\ IsList(Anchors(d)) /\ Elements(Anchors(d)) = {AnchorNode(d), BoardNode(d)}
         /\ KeysOnce(Anchors(d))
         /\ AnchorNode(d).key = Root /\ BoardNode(d).key = Board
  <1> DEFINE X == {AnchorNode(d), BoardNode(d)}
             l == Anchors(d)
  <1>1. l \in Seq(X) /\ DOMAIN l = {1, 2} /\ l[1] = AnchorNode(d) /\ l[2] = BoardNode(d)
    <2> HIDE DEF X
    <2>1. AnchorNode(d) \in X /\ BoardNode(d) \in X
      BY DEF X
    <2> QED BY <2>1 DEF Anchors
  <1>2. IsList(l)
    <2> HIDE DEF X, l
    <2> QED BY <1>1, ElementsOfSeq
  <1>3. AnchorNode(d).key = Root /\ BoardNode(d).key = Board
    BY DEF AnchorNode, BoardNode, Node
  <1>4. Root # Board
    BY DEF Root, Board, Plain, Key
  <1> HIDE DEF l
  <1>5. Elements(l) = X
    BY <1>1 DEF Elements, ToSet
  <1>6. KeysOnce(l)
    BY <1>1, <1>3, <1>4 DEF KeysOnce
  <1> QED BY <1>2, <1>3, <1>5, <1>6 DEF l

\* The prefix and the name of the key of a node, by its kind.
LEMMA PartKeys ==
  ASSUME NEW d, IsDesign(d)
  PROVE  /\ \A i \in DOMAIN FactNodes(d) : FactNodes(d)[i].key = Key("board_fact", i)
         /\ \A i \in DOMAIN ResourceNodes(d) : ResourceNodes(d)[i].key = Key("resource", d.resources[i].name)
         /\ \A i \in DOMAIN FacetNodes(d) : FacetNodes(d)[i].key = Plain(Facets(d)[i])
         /\ \A i \in DOMAIN MailboxNodes(d) : MailboxNodes(d)[i].key = Plain(Mailboxes(d)[i])
         /\ \A i \in DOMAIN SetNodes(d) : SetNodes(d)[i].key = Key("message_set", d.messages[i].id)
         /\ \A i \in DOMAIN UnitNodes(d) : UnitNodes(d)[i].key = Plain(d.units[i].id)
  <1>1. \A i \in DOMAIN FactNodes(d) : FactNodes(d)[i].key = Key("board_fact", i)
    BY DEF FactNodes, Node
  <1>2. \A i \in DOMAIN ResourceNodes(d) : ResourceNodes(d)[i].key = Key("resource", d.resources[i].name)
    BY DEF ResourceNodes, Node
  <1>3. \A i \in DOMAIN FacetNodes(d) : FacetNodes(d)[i].key = Plain(Facets(d)[i])
    BY DEF FacetNodes, Node
  <1>4. \A i \in DOMAIN MailboxNodes(d) : MailboxNodes(d)[i].key = Plain(Mailboxes(d)[i])
    BY DEF MailboxNodes, Node
  <1>5. \A i \in DOMAIN SetNodes(d) : SetNodes(d)[i].key = Key("message_set", d.messages[i].id)
    BY DEF SetNodes, Node
  <1>6. \A i \in DOMAIN UnitNodes(d) : UnitNodes(d)[i].key = Plain(d.units[i].id)
    BY DEF UnitNodes, Node
  <1> QED BY <1>1, <1>2, <1>3, <1>4, <1>5, <1>6

LEMMA PartKeysOnce ==
  ASSUME NEW d, IsDesign(d), NamesOnce(d)
  PROVE  /\ KeysOnce(FactNodes(d)) /\ KeysOnce(ResourceNodes(d)) /\ KeysOnce(FacetNodes(d))
         /\ KeysOnce(SetNodes(d)) /\ KeysOnce(UnitNodes(d))
  <1> USE KeyParts
  <1>1. KeysOnce(FactNodes(d))
    BY PartKeys DEF KeysOnce, Key
  <1>2. KeysOnce(ResourceNodes(d))
    <2>1. \A i, j \in DOMAIN ResourceNodes(d) : i # j => d.resources[i].name # d.resources[j].name
      BY PartsListed DEF NamesOnce
    <2> QED BY <2>1, PartKeys DEF KeysOnce, Key
  <1>3. KeysOnce(FacetNodes(d))
    <2>1. \A i, j \in DOMAIN FacetNodes(d) : i # j => Facets(d)[i] # Facets(d)[j]
      BY PartsListed, FacetsListed
    <2> QED BY <2>1, PartKeys DEF KeysOnce, Key, Plain
  <1>4. KeysOnce(SetNodes(d))
    <2>1. \A i, j \in DOMAIN SetNodes(d) : i # j => d.messages[i].id # d.messages[j].id
      BY PartsListed DEF NamesOnce
    <2> QED BY <2>1, PartKeys DEF KeysOnce, Key
  <1>5. KeysOnce(UnitNodes(d))
    <2>1. \A i, j \in DOMAIN UnitNodes(d) : i # j => d.units[i].id # d.units[j].id
      BY PartsListed DEF NamesOnce
    <2> QED BY <2>1, PartKeys DEF KeysOnce, Key, Plain
  <1> QED BY <1>1, <1>2, <1>3, <1>4, <1>5


LEMMA KeysOfNodes ==
  ASSUME NEW d, IsDesign(d)
  PROVE  /\ \A k \in KeysIn(Anchors(d)) : k[1] = None /\ k[2] \in {"composition", "board"}
         /\ \A k \in KeysIn(FactNodes(d)) : k[1] = "board_fact"
         /\ \A k \in KeysIn(ResourceNodes(d)) : k[1] = "resource"
         /\ \A k \in KeysIn(FacetNodes(d)) : k[1] = None /\ k[2] \in DOMAIN d.facets
         /\ \A k \in KeysIn(MailboxNodes(d)) : k[1] = None /\ k[2] \in Elements(Mailboxes(d))
         /\ \A k \in KeysIn(SetNodes(d)) : k[1] = "message_set"
         /\ \A k \in KeysIn(UnitNodes(d)) : k[1] = None /\ k[2] \in Ids(d)
  <1>1. ASSUME NEW l, NEW k \in KeysIn(l) PROVE \E i \in DOMAIN l : l[i].key = k
    BY DEF KeysIn, Elements, ToSet
  <1>2. \A k \in KeysIn(Anchors(d)) : k[1] = None /\ k[2] \in {"composition", "board"}
    <2>1. \A k \in KeysIn(Anchors(d)) : k \in {Root, Board}
      BY AnchorsListed DEF KeysIn
    <2> QED BY <2>1 DEF Root, Board, Plain, Key
  <1>3. \A k \in KeysIn(FactNodes(d)) : k[1] = "board_fact"
    BY <1>1, PartKeys, KeyParts
  <1>4. \A k \in KeysIn(ResourceNodes(d)) : k[1] = "resource"
    BY <1>1, PartKeys, KeyParts
  <1>5. \A k \in KeysIn(FacetNodes(d)) : k[1] = None /\ k[2] \in DOMAIN d.facets
    <2> SUFFICES ASSUME NEW k \in KeysIn(FacetNodes(d)) PROVE k[1] = None /\ k[2] \in DOMAIN d.facets
      OBVIOUS
    <2>1. PICK i \in DOMAIN FacetNodes(d) : FacetNodes(d)[i].key = k
      BY <1>1
    <2>2. k = Plain(Facets(d)[i]) /\ i \in DOMAIN Facets(d)
      BY <2>1, PartKeys, PartsListed
    <2>3. Facets(d)[i] \in DOMAIN d.facets
      BY <2>2, FacetsListed DEF Elements, ToSet
    <2> QED BY <2>2, <2>3, KeyParts
  <1>6. \A k \in KeysIn(MailboxNodes(d)) : k[1] = None /\ k[2] \in Elements(Mailboxes(d))
    <2> SUFFICES ASSUME NEW k \in KeysIn(MailboxNodes(d)) PROVE k[1] = None /\ k[2] \in Elements(Mailboxes(d))
      OBVIOUS
    <2>1. PICK i \in DOMAIN MailboxNodes(d) : MailboxNodes(d)[i].key = k
      BY <1>1
    <2>2. k = Plain(Mailboxes(d)[i]) /\ i \in DOMAIN Mailboxes(d)
      BY <2>1, PartKeys, PartsListed
    <2>3. Mailboxes(d)[i] \in Elements(Mailboxes(d))
      BY <2>2 DEF Elements, ToSet
    <2> QED BY <2>2, <2>3, KeyParts
  <1>7. \A k \in KeysIn(SetNodes(d)) : k[1] = "message_set"
    BY <1>1, PartKeys, KeyParts
  <1>8. \A k \in KeysIn(UnitNodes(d)) : k[1] = None /\ k[2] \in Ids(d)
    <2> SUFFICES ASSUME NEW k \in KeysIn(UnitNodes(d)) PROVE k[1] = None /\ k[2] \in Ids(d)
      OBVIOUS
    <2>1. PICK i \in DOMAIN UnitNodes(d) : UnitNodes(d)[i].key = k
      BY <1>1
    <2>2. k = Plain(d.units[i].id) /\ i \in DOMAIN d.units
      BY <2>1, PartKeys, PartsListed
    <2>3. d.units[i].id \in Ids(d)
      BY <2>2 DEF Ids, Units, Elements, ToSet
    <2> QED BY <2>2, <2>3, KeyParts
  <1> QED BY <1>2, <1>3, <1>4, <1>5, <1>6, <1>7, <1>8

\* A part of a list, what it adds to the keys before it, and what is found there first.
LEMMA PartJoined ==
  ASSUME NEW a, IsList(a), NEW b, IsList(b)
  PROVE  /\ IsList(a \o b) /\ Elements(a \o b) = Elements(a) \union Elements(b)
         /\ KeysIn(a \o b) = KeysIn(a) \union KeysIn(b)
         /\ \A n : FirstOf(a, n) => FirstOf(a \o b, n)
         /\ KeysOnce(b) /\ KeysIn(a) \cap KeysIn(b) = {} => \A n \in Elements(b) : FirstOf(a \o b, n)
  <1>1. IsList(a \o b) /\ Elements(a \o b) = Elements(a) \union Elements(b)
    BY ListsJoined
  <1>2. KeysIn(a \o b) = KeysIn(a) \union KeysIn(b)
    BY <1>1 DEF KeysIn
  <1>3. \A n : FirstOf(a, n) => FirstOf(a \o b, n)
    BY FirstInJoined
  <1>4. ASSUME KeysOnce(b), KeysIn(a) \cap KeysIn(b) = {}, NEW n \in Elements(b) PROVE FirstOf(a \o b, n)
    <2>1. FirstOf(b, n)
      BY <1>4, FirstIfOnce
    <2>2. n.key \in KeysIn(b)
      BY DEF KeysIn
    <2> QED BY <1>4, <2>1, <2>2, FirstInJoined
  <1> QED BY <1>1, <1>2, <1>3, <1>4

Given(d) == IsDesign(d) /\ NamesOnce(d) /\ Apart(d)

LEMMA NodesHeld ==
  ASSUME NEW d, Given(d)
  PROVE  /\ IsList(NodesOf(d))
         /\ Elements(NodesOf(d)) = Elements(Anchors(d)) \union Elements(FactNodes(d)) \union Elements(ResourceNodes(d))
                                     \union Elements(FacetNodes(d)) \union Elements(MailboxNodes(d))
                                     \union Elements(SetNodes(d)) \union Elements(UnitNodes(d))
         /\ \A n \in Elements(Anchors(d)) : FirstOf(NodesOf(d), n)
         /\ \A n \in Elements(FactNodes(d)) : FirstOf(NodesOf(d), n)
         /\ \A n \in Elements(ResourceNodes(d)) : FirstOf(NodesOf(d), n)
         /\ \A n \in Elements(FacetNodes(d)) : FirstOf(NodesOf(d), n)
         /\ \A n \in Elements(SetNodes(d)) : FirstOf(NodesOf(d), n)
         /\ \A n \in Elements(UnitNodes(d)) : FirstOf(NodesOf(d), n)
  <1> DEFINE a == Anchors(d)
             b == FactNodes(d)
             c == ResourceNodes(d)
             e == FacetNodes(d)
             f == MailboxNodes(d)
             g == SetNodes(d)
             h == UnitNodes(d)
             l1 == a \o b
             l2 == l1 \o c
             l3 == l2 \o e
             l4 == l3 \o f
             l5 == l4 \o g
             l6 == l5 \o h
  <1>1. NodesOf(d) = l6
    BY NodesInParts
  <1>2. IsDesign(d) /\ NamesOnce(d)
    BY DEF Given
  <1>3. /\ IsList(a) /\ IsList(b) /\ IsList(c) /\ IsList(e) /\ IsList(f) /\ IsList(g) /\ IsList(h)
        /\ KeysOnce(a) /\ KeysOnce(b) /\ KeysOnce(c) /\ KeysOnce(e) /\ KeysOnce(g) /\ KeysOnce(h)
    BY <1>2, PartsListed, AnchorsListed, PartKeysOnce
  <1>4. /\ \A k \in KeysIn(a) : k[1] = None /\ k[2] \in {"composition", "board"}
        /\ \A k \in KeysIn(b) : k[1] = "board_fact"
        /\ \A k \in KeysIn(c) : k[1] = "resource"
        /\ \A k \in KeysIn(e) : k[1] = None /\ k[2] \in DOMAIN d.facets
        /\ \A k \in KeysIn(f) : k[1] = None /\ k[2] \in Elements(Mailboxes(d))
        /\ \A k \in KeysIn(g) : k[1] = "message_set"
        /\ \A k \in KeysIn(h) : k[1] = None /\ k[2] \in Ids(d)
    BY <1>2, KeysOfNodes
  <1>5. DOMAIN d.facets \cap {"composition", "board"} = {}
    BY <1>2, FacetOrderList DEF IsDesign
  <1>6. Ids(d) \cap ({"composition", "board"} \union DOMAIN d.facets \union Elements(Mailboxes(d))) = {}
    BY DEF Given, Apart
  <1> HIDE DEF a, b, c, e, f, g, h
  <1> USE PrefixAssumption
  <1>7. /\ KeysIn(a) \cap KeysIn(b) = {} /\ KeysIn(a) \cap KeysIn(c) = {} /\ KeysIn(a) \cap KeysIn(e) = {}
        /\ KeysIn(a) \cap KeysIn(g) = {} /\ KeysIn(a) \cap KeysIn(h) = {}
    BY <1>4, <1>5, <1>6
  <1>8. /\ KeysIn(b) \cap KeysIn(c) = {} /\ KeysIn(b) \cap KeysIn(e) = {}
        /\ KeysIn(b) \cap KeysIn(g) = {} /\ KeysIn(b) \cap KeysIn(h) = {}
        /\ KeysIn(c) \cap KeysIn(e) = {} /\ KeysIn(c) \cap KeysIn(g) = {} /\ KeysIn(c) \cap KeysIn(h) = {}
    BY <1>4
  <1>9. /\ KeysIn(e) \cap KeysIn(g) = {} /\ KeysIn(f) \cap KeysIn(g) = {} /\ KeysIn(g) \cap KeysIn(h) = {}
    BY <1>4
  <1>10. KeysIn(e) \cap KeysIn(h) = {} /\ KeysIn(f) \cap KeysIn(h) = {}
    BY <1>4, <1>6
  <1>11. \A n \in Elements(a) : FirstOf(a, n)
    BY <1>3, FirstIfOnce
  <1>12. /\ IsList(l1) /\ Elements(l1) = Elements(a) \union Elements(b) /\ KeysIn(l1) = KeysIn(a) \union KeysIn(b)
         /\ \A n \in Elements(a) \union Elements(b) : FirstOf(l1, n)
    BY <1>3, <1>7, <1>11, PartJoined
  <1> HIDE DEF l1
  <1>13. /\ IsList(l2) /\ Elements(l2) = Elements(l1) \union Elements(c) /\ KeysIn(l2) = KeysIn(l1) \union KeysIn(c)
         /\ \A n \in Elements(l1) \union Elements(c) : FirstOf(l2, n)
    <2>1. KeysIn(l1) \cap KeysIn(c) = {}
      BY <1>7, <1>8, <1>12
    <2> QED BY <1>3, <1>12, <2>1, PartJoined
  <1> HIDE DEF l2
  <1>14. /\ IsList(l3) /\ Elements(l3) = Elements(l2) \union Elements(e) /\ KeysIn(l3) = KeysIn(l2) \union KeysIn(e)
         /\ \A n \in Elements(l2) \union Elements(e) : FirstOf(l3, n)
    <2>1. KeysIn(l2) \cap KeysIn(e) = {}
      BY <1>7, <1>8, <1>12, <1>13
    <2> QED BY <1>3, <1>12, <1>13, <2>1, PartJoined
  <1> HIDE DEF l3
  <1>15. /\ IsList(l4) /\ Elements(l4) = Elements(l3) \union Elements(f) /\ KeysIn(l4) = KeysIn(l3) \union KeysIn(f)
         /\ \A n \in Elements(l3) : FirstOf(l4, n)
    BY <1>3, <1>13, <1>14, PartJoined
  <1> HIDE DEF l4
  <1>16. /\ IsList(l5) /\ Elements(l5) = Elements(l4) \union Elements(g) /\ KeysIn(l5) = KeysIn(l4) \union KeysIn(g)
         /\ \A n \in Elements(l3) \union Elements(g) : FirstOf(l5, n)
    <2>1. KeysIn(l4) \cap KeysIn(g) = {}
      BY <1>7, <1>8, <1>9, <1>12, <1>13, <1>14, <1>15
    <2> QED BY <1>3, <1>15, <2>1, PartJoined
  <1> HIDE DEF l5
  <1>17. /\ IsList(l6) /\ Elements(l6) = Elements(l5) \union Elements(h)
         /\ \A n \in Elements(l3) \union Elements(g) \union Elements(h) : FirstOf(l6, n)
    <2>1. KeysIn(l5) \cap KeysIn(h) = {}
      BY <1>7, <1>8, <1>9, <1>10, <1>12, <1>13, <1>14, <1>15, <1>16
    <2> QED BY <1>3, <1>16, <2>1, PartJoined
  <1> HIDE DEF l6
  <1>18. Elements(l6) = Elements(a) \union Elements(b) \union Elements(c) \union Elements(e) \union Elements(f)
                          \union Elements(g) \union Elements(h)
    BY <1>12, <1>13, <1>14, <1>15, <1>16, <1>17
  <1>19. \A n \in Elements(a) \union Elements(b) \union Elements(c) \union Elements(e) \union Elements(g)
                    \union Elements(h) : FirstOf(l6, n)
    BY <1>12, <1>13, <1>14, <1>17
  <1> QED BY <1>1, <1>17, <1>18, <1>19 DEF a, b, c, e, f, g, h

(***************************************************************************)
(* The edges of a design, kind by kind.                                    *)
(***************************************************************************)
Wired(d)         == Keep(d.wiring, {i \in DOMAIN d.wiring : d.wiring[i] # <<>>})
BoardEdges       == <<Edge("HAS_BOARD", Root, Board)>>
FactEdges(d)     == [i \in DOMAIN d.facts |-> Edge("HAS_BOARD_FACT", Board, Key("board_fact", i))]
ResourceEdges(d) == [i \in DOMAIN d.resources |-> Edge("HAS_RESOURCE", Root, Key("resource", d.resources[i].name))]
FacetEdges(d)    == [i \in DOMAIN Facets(d) |-> Edge("HAS_FACET", Root, Plain(Facets(d)[i]))]
SetEdges(d)      == [i \in DOMAIN d.messages |-> Edge("HAS_MESSAGE_SET", Root, Key("message_set", d.messages[i].id))]
WiredEdges(d)    == [i \in DOMAIN Wired(d) |-> Edge("WIRED_TO", Plain(Wired(d)[i][1]), Plain(Wired(d)[i][2]))]
ByUnit(d)        == [i \in DOMAIN d.units |-> UnitEdges(d, d.units[i])]

HasUnit(u)       == Edge("HAS_UNIT", Root, Plain(u.id))
UsesEdges(d, u)  == [i \in DOMAIN u.uses |-> Edge("USES", Plain(u.id), UsedKey(d, u.uses[i]))]
SendsEdges(u)    == [i \in DOMAIN u.sends_to |-> Edge("SENDS_TO", Plain(u.id), Plain(u.sends_to[i]))]
HasMessage(u)    == Edge("HAS_MESSAGE", Plain(u.id), Plain(u.message))
MessageEdges(u)  == IF u.message = None THEN <<>> ELSE <<HasMessage(u)>>

LEMMA EdgesInParts ==
  ASSUME NEW d
  PROVE  /\ EdgesOf(d) = BoardEdges \o FactEdges(d) \o ResourceEdges(d) \o FacetEdges(d) \o SetEdges(d)
                           \o FlattenSeq(ByUnit(d)) \o WiredEdges(d)
         /\ \A u : UnitEdges(d, u) = <<HasUnit(u)>> \o UsesEdges(d, u) \o SendsEdges(u) \o MessageEdges(u)
  <1>1. EdgesOf(d) = BoardEdges \o FactEdges(d) \o ResourceEdges(d) \o FacetEdges(d) \o SetEdges(d)
                       \o FlattenSeq(ByUnit(d)) \o WiredEdges(d)
    BY Zenon DEF EdgesOf, Wired, BoardEdges, FactEdges, ResourceEdges, FacetEdges, SetEdges, WiredEdges, ByUnit
  <1>2. \A u : UnitEdges(d, u) = <<HasUnit(u)>> \o UsesEdges(d, u) \o SendsEdges(u) \o MessageEdges(u)
    BY Zenon DEF UnitEdges, HasUnit, UsesEdges, SendsEdges, MessageEdges, HasMessage
  <1> QED BY <1>1, <1>2

\* A list whose edges are all of one predicate.
AllOf(l, predicate) == \A e \in Elements(l) : e.predicate = predicate

LEMMA ListAllOf ==
  ASSUME NEW seq, IsList(seq), NEW l, l = [i \in DOMAIN seq |-> l[i]], NEW predicate,
         \A i \in DOMAIN seq : l[i].predicate = predicate
  PROVE  IsList(l) /\ DOMAIN l = DOMAIN seq /\ AllOf(l, predicate)
  <1>1. IsList(l) /\ DOMAIN l = DOMAIN seq
    BY MappedList
  <1>2. AllOf(l, predicate)
    BY <1>1 DEF AllOf, Elements, ToSet
  <1> QED BY <1>1, <1>2

LEMMA EdgeFields ==
  ASSUME NEW predicate, NEW from, NEW to
  PROVE  /\ Edge(predicate, from, to).predicate = predicate
         /\ Edge(predicate, from, to).from = from
         /\ Edge(predicate, from, to).to = to
  BY DEF Edge

LEMMA EdgePartsListed ==
  ASSUME NEW d, IsDesign(d)
  PROVE  /\ IsList(BoardEdges) /\ AllOf(BoardEdges, "HAS_BOARD")
         /\ IsList(FactEdges(d)) /\ AllOf(FactEdges(d), "HAS_BOARD_FACT") /\ DOMAIN FactEdges(d) = DOMAIN d.facts
         /\ IsList(ResourceEdges(d)) /\ AllOf(ResourceEdges(d), "HAS_RESOURCE")
         /\ DOMAIN ResourceEdges(d) = DOMAIN d.resources
         /\ IsList(FacetEdges(d)) /\ AllOf(FacetEdges(d), "HAS_FACET") /\ DOMAIN FacetEdges(d) = DOMAIN Facets(d)
         /\ IsList(SetEdges(d)) /\ AllOf(SetEdges(d), "HAS_MESSAGE_SET") /\ DOMAIN SetEdges(d) = DOMAIN d.messages
         /\ IsList(WiredEdges(d)) /\ AllOf(WiredEdges(d), "WIRED_TO")
  <1>1. IsList(BoardEdges) /\ AllOf(BoardEdges, "HAS_BOARD")
    BY OneInList, EdgeFields DEF BoardEdges, AllOf
  <1>2. IsList(d.facts) /\ IsList(d.resources) /\ IsList(d.messages) /\ IsList(Facets(d))
    BY FacetsListed DEF IsDesign
  <1>3. IsList(Wired(d))
    <2>1. IsList(d.wiring)
      BY ElementsOfSeq DEF IsDesign
    <2> QED BY <2>1, KeptElements DEF Wired
  <1>4. /\ FactEdges(d) = [i \in DOMAIN d.facts |-> FactEdges(d)[i]]
        /\ \A i \in DOMAIN d.facts : FactEdges(d)[i].predicate = "HAS_BOARD_FACT"
    BY EdgeFields DEF FactEdges
  <1>5. /\ ResourceEdges(d) = [i \in DOMAIN d.resources |-> ResourceEdges(d)[i]]
        /\ \A i \in DOMAIN d.resources : ResourceEdges(d)[i].predicate = "HAS_RESOURCE"
    BY EdgeFields DEF ResourceEdges
  <1>6. /\ FacetEdges(d) = [i \in DOMAIN Facets(d) |-> FacetEdges(d)[i]]
        /\ \A i \in DOMAIN Facets(d) : FacetEdges(d)[i].predicate = "HAS_FACET"
    BY EdgeFields DEF FacetEdges
  <1>7. /\ SetEdges(d) = [i \in DOMAIN d.messages |-> SetEdges(d)[i]]
        /\ \A i \in DOMAIN d.messages : SetEdges(d)[i].predicate = "HAS_MESSAGE_SET"
    BY EdgeFields DEF SetEdges
  <1>8. /\ WiredEdges(d) = [i \in DOMAIN Wired(d) |-> WiredEdges(d)[i]]
        /\ \A i \in DOMAIN Wired(d) : WiredEdges(d)[i].predicate = "WIRED_TO"
    BY EdgeFields DEF WiredEdges
  <1>9. IsList(FactEdges(d)) /\ AllOf(FactEdges(d), "HAS_BOARD_FACT") /\ DOMAIN FactEdges(d) = DOMAIN d.facts
    BY <1>2, <1>4, ListAllOf
  <1>10. /\ IsList(ResourceEdges(d)) /\ AllOf(ResourceEdges(d), "HAS_RESOURCE")
         /\ DOMAIN ResourceEdges(d) = DOMAIN d.resources
    BY <1>2, <1>5, ListAllOf
  <1>11. IsList(FacetEdges(d)) /\ AllOf(FacetEdges(d), "HAS_FACET") /\ DOMAIN FacetEdges(d) = DOMAIN Facets(d)
    BY <1>2, <1>6, ListAllOf
  <1>12. IsList(SetEdges(d)) /\ AllOf(SetEdges(d), "HAS_MESSAGE_SET") /\ DOMAIN SetEdges(d) = DOMAIN d.messages
    BY <1>2, <1>7, ListAllOf
  <1>13. IsList(WiredEdges(d)) /\ AllOf(WiredEdges(d), "WIRED_TO")
    BY <1>3, <1>8, ListAllOf
  <1> QED BY <1>1, <1>9, <1>10, <1>11, <1>12, <1>13

LEMMA OthersCarryNone ==
  ASSUME NEW l, IsList(l), NEW predicate, AllOf(l, predicate), NEW P, P # predicate
  PROVE  Carries(l, P, {})
  BY NothingCarried DEF AllOf

\* What the edges of one unit carry.
MessageEdgesOf(u) == IF u.message = None THEN {} ELSE {HasMessage(u)}

LEMMA UnitCarries ==
  ASSUME NEW d, NEW u, IsUnit(u)
  PROVE  /\ Carries(UnitEdges(d, u), "HAS_UNIT", {HasUnit(u)})
         /\ Carries(UnitEdges(d, u), "HAS_MESSAGE", MessageEdgesOf(u))
         /\ \A P : P \notin {"HAS_UNIT", "USES", "SENDS_TO", "HAS_MESSAGE"} => Carries(UnitEdges(d, u), P, {})
  <1> DEFINE a == <<HasUnit(u)>>
             b == UsesEdges(d, u)
             c == SendsEdges(u)
             e == MessageEdges(u)
  <1>1. IsList(a) /\ Elements(a) = {HasUnit(u)} /\ DOMAIN a = {1} /\ HasUnit(u).predicate = "HAS_UNIT"
    BY OneInList, EdgeFields DEF HasUnit
  <1>2. IsList(u.uses) /\ IsList(u.sends_to)
    BY DEF IsUnit
  <1>3. IsList(b) /\ AllOf(b, "USES")
    <2>1. b = [i \in DOMAIN u.uses |-> b[i]] /\ \A i \in DOMAIN u.uses : b[i].predicate = "USES"
      BY EdgeFields DEF UsesEdges
    <2> HIDE DEF b
    <2> QED BY <1>2, <2>1, ListAllOf
  <1>4. IsList(c) /\ AllOf(c, "SENDS_TO")
    <2>1. c = [i \in DOMAIN u.sends_to |-> c[i]] /\ \A i \in DOMAIN u.sends_to : c[i].predicate = "SENDS_TO"
      BY EdgeFields DEF SendsEdges
    <2> HIDE DEF c
    <2> QED BY <1>2, <2>1, ListAllOf
  <1>5. /\ IsList(e) /\ Elements(e) = MessageEdgesOf(u) /\ HasMessage(u).predicate = "HAS_MESSAGE"
        /\ \A i, j \in DOMAIN e : i = j
    <2>1. HasMessage(u).predicate = "HAS_MESSAGE"
      BY EdgeFields DEF HasMessage
    <2>2. CASE u.message = None
      BY <2>1, <2>2, NoneInList DEF MessageEdges, MessageEdgesOf
    <2>3. CASE u.message # None
      <3>1. e = <<HasMessage(u)>> /\ MessageEdgesOf(u) = {HasMessage(u)}
        BY <2>3 DEF MessageEdges, MessageEdgesOf
      <3> QED BY <2>1, <3>1, OneInList
    <2> QED BY <2>2, <2>3
  <1>6. UnitEdges(d, u) = a \o b \o c \o e
    BY EdgesInParts
  <1> HIDE DEF a, b, c, e
  <1>7. AllOf(a, "HAS_UNIT") /\ AllOf(e, "HAS_MESSAGE")
    BY <1>1, <1>5 DEF AllOf, MessageEdgesOf
  <1>8. Carries(a, "HAS_UNIT", {HasUnit(u)})
    <2>1. \A i, j \in DOMAIN a : i # j => a[i].to # a[j].to
      BY <1>1
    <2> QED BY <1>1, <1>7, <2>1, AllCarried DEF AllOf
  <1>9. Carries(e, "HAS_MESSAGE", MessageEdgesOf(u))
    <2>1. \A i, j \in DOMAIN e : i # j => e[i].to # e[j].to
      BY <1>5
    <2> QED BY <1>5, <1>7, <2>1, AllCarried DEF AllOf
  <1>10. ASSUME NEW P, NEW A, NEW E, Carries(a, P, A), Carries(e, P, E), A = {} \/ E = {}, P \notin {"USES", "SENDS_TO"}
         PROVE  Carries(UnitEdges(d, u), P, A \union E)
    <2>1. Carries(b, P, {}) /\ Carries(c, P, {})
      BY <1>3, <1>4, <1>10, OthersCarryNone
    <2>2. Carries(a \o b, P, A \union {})
      BY <1>10, <2>1, CarriedJoined
    <2>3. Carries(a \o b, P, A)
      BY <2>2, Zenon
    <2>4. Carries((a \o b) \o c, P, A \union {})
      BY <2>1, <2>3, CarriedJoined
    <2>5. Carries((a \o b) \o c, P, A)
      BY <2>4, Zenon
    <2> QED BY <1>6, <1>10, <2>5, CarriedJoined
  <1>11. Carries(UnitEdges(d, u), "HAS_UNIT", {HasUnit(u)})
    <2>1. Carries(e, "HAS_UNIT", {})
      BY <1>5, <1>7, OthersCarryNone
    <2>2. Carries(UnitEdges(d, u), "HAS_UNIT", {HasUnit(u)} \union {})
      BY <1>8, <1>10, <2>1
    <2>3. {HasUnit(u)} \union {} = {HasUnit(u)}
      OBVIOUS
    <2> QED BY <2>2, <2>3
  <1>12. Carries(UnitEdges(d, u), "HAS_MESSAGE", MessageEdgesOf(u))
    <2>1. Carries(a, "HAS_MESSAGE", {})
      BY <1>1, <1>7, OthersCarryNone
    <2>2. Carries(UnitEdges(d, u), "HAS_MESSAGE", {} \union MessageEdgesOf(u))
      BY <1>9, <1>10, <2>1
    <2>3. {} \union MessageEdgesOf(u) = MessageEdgesOf(u)
      OBVIOUS
    <2> QED BY <2>2, <2>3
  <1>13. ASSUME NEW P, P \notin {"HAS_UNIT", "USES", "SENDS_TO", "HAS_MESSAGE"} PROVE Carries(UnitEdges(d, u), P, {})
    <2>1. Carries(a, P, {}) /\ Carries(e, P, {})
      BY <1>1, <1>5, <1>7, <1>13, OthersCarryNone
    <2>2. Carries(UnitEdges(d, u), P, {} \union {})
      BY <1>10, <1>13, <2>1
    <2>3. {} \union {} = {}
      OBVIOUS
    <2> QED BY <2>2, <2>3
  <1> QED BY <1>11, <1>12, <1>13

\* What the edges of all units carry.
LEMMA UnitsCarry ==
  ASSUME NEW d, Given(d)
  PROVE  /\ Carries(FlattenSeq(ByUnit(d)), "HAS_UNIT", {HasUnit(d.units[i]) : i \in DOMAIN d.units})
         /\ Carries(FlattenSeq(ByUnit(d)), "HAS_MESSAGE", UNION {MessageEdgesOf(d.units[i]) : i \in DOMAIN d.units})
         /\ \A P : P \notin {"HAS_UNIT", "USES", "SENDS_TO", "HAS_MESSAGE"} => Carries(FlattenSeq(ByUnit(d)), P, {})
  <1> DEFINE parts == ByUnit(d)
             U == [i \in DOMAIN d.units |-> {HasUnit(d.units[i])}]
             M == [i \in DOMAIN d.units |-> MessageEdgesOf(d.units[i])]
             N == [i \in DOMAIN d.units |-> {}]
  <1>1. IsDesign(d) /\ IsList(d.units) /\ NamesOnce(d)
    BY DEF Given, IsDesign
  <1>2. /\ parts = [i \in DOMAIN d.units |-> parts[i]]
        /\ \A i \in DOMAIN d.units : parts[i] = UnitEdges(d, d.units[i])
    BY DEF ByUnit
  <1>3. \A i \in DOMAIN d.units : IsUnit(d.units[i])
    BY <1>1 DEF IsDesign, Units, Elements, ToSet
  <1>4. \A i, j \in DOMAIN d.units : i < j => Plain(d.units[i].id) # Plain(d.units[j].id)
    <2>1. DOMAIN d.units = 1..Len(d.units) /\ Len(d.units) \in Nat
      BY <1>1, ListProperties
    <2>2. \A i, j \in DOMAIN d.units : i < j => d.units[i].id # d.units[j].id
      BY <1>1, <2>1 DEF NamesOnce
    <2> QED BY <2>2 DEF Plain, Key
  <1>5. /\ \A i \in DOMAIN d.units : U[i] = {HasUnit(d.units[i])}
        /\ \A i \in DOMAIN d.units : M[i] = MessageEdgesOf(d.units[i])
        /\ \A i \in DOMAIN d.units : N[i] = {}
    OBVIOUS
  <1> HIDE DEF parts, U, M, N
  <1>6. CarriesEach(d.units, parts, "HAS_UNIT", U)
    <2>1. ASSUME NEW i \in DOMAIN d.units PROVE Carries(parts[i], "HAS_UNIT", U[i])
      <3>1. IsUnit(d.units[i]) /\ parts[i] = UnitEdges(d, d.units[i]) /\ U[i] = {HasUnit(d.units[i])}
        BY <1>2, <1>3, <1>5
      <3>2. Carries(UnitEdges(d, d.units[i]), "HAS_UNIT", {HasUnit(d.units[i])})
        BY <3>1, UnitCarries
      <3> QED BY <3>1, <3>2
    <2>2. ASSUME NEW i \in DOMAIN d.units, NEW j \in DOMAIN d.units, i < j, NEW x \in U[i], NEW y \in U[j]
          PROVE  EdgesDiffer("HAS_UNIT", x, y)
      <3>1. x = HasUnit(d.units[i]) /\ y = HasUnit(d.units[j])
        BY <1>5
      <3>2. x.to = Plain(d.units[i].id) /\ y.to = Plain(d.units[j].id)
        BY <3>1, EdgeFields DEF HasUnit
      <3> QED BY <1>4, <2>2, <3>2 DEF EdgesDiffer
    <2>3. \A i, j \in DOMAIN d.units : i < j => \A x \in U[i], y \in U[j] : EdgesDiffer("HAS_UNIT", x, y)
      BY <2>2
    <2> QED BY <1>1, <1>2, <2>1, <2>3, Zenon DEF CarriesEach
  <1>7. CarriesEach(d.units, parts, "HAS_MESSAGE", M)
    <2>1. ASSUME NEW i \in DOMAIN d.units PROVE Carries(parts[i], "HAS_MESSAGE", M[i])
      <3>1. IsUnit(d.units[i]) /\ parts[i] = UnitEdges(d, d.units[i]) /\ M[i] = MessageEdgesOf(d.units[i])
        BY <1>2, <1>3, <1>5
      <3>2. Carries(UnitEdges(d, d.units[i]), "HAS_MESSAGE", MessageEdgesOf(d.units[i]))
        BY <3>1, UnitCarries
      <3> QED BY <3>1, <3>2
    <2>2. ASSUME NEW i \in DOMAIN d.units, NEW j \in DOMAIN d.units, i < j, NEW x \in M[i], NEW y \in M[j]
          PROVE  EdgesDiffer("HAS_MESSAGE", x, y)
      <3>1. x = HasMessage(d.units[i]) /\ y = HasMessage(d.units[j])
        BY <1>5 DEF MessageEdgesOf
      <3>2. x.from = Plain(d.units[i].id) /\ y.from = Plain(d.units[j].id)
        BY <3>1, EdgeFields DEF HasMessage
      <3> QED BY <1>4, <2>2, <3>2 DEF EdgesDiffer
    <2>3. \A i, j \in DOMAIN d.units : i < j => \A x \in M[i], y \in M[j] : EdgesDiffer("HAS_MESSAGE", x, y)
      BY <2>2
    <2> QED BY <1>1, <1>2, <2>1, <2>3, Zenon DEF CarriesEach
  <1>8. ASSUME NEW P, P \notin {"HAS_UNIT", "USES", "SENDS_TO", "HAS_MESSAGE"}
        PROVE  Carries(FlattenSeq(parts), P, {})
    <2>1. ASSUME NEW i \in DOMAIN d.units PROVE Carries(parts[i], P, N[i])
      <3>1. IsUnit(d.units[i]) /\ parts[i] = UnitEdges(d, d.units[i]) /\ N[i] = {}
        BY <1>2, <1>3, <1>5
      <3>2. Carries(UnitEdges(d, d.units[i]), P, {})
        BY <1>8, <3>1, UnitCarries
      <3> QED BY <3>1, <3>2
    <2>2. CarriesEach(d.units, parts, P, N)
      BY <1>1, <1>2, <1>5, <2>1 DEF CarriesEach
    <2>3. Carries(FlattenSeq(parts), P, UNION {N[i] : i \in DOMAIN d.units})
      BY <2>2, CarriedFlattened
    <2>4. UNION {N[i] : i \in DOMAIN d.units} = {}
      BY <1>5
    <2> QED BY <2>3, <2>4
  <1>9. Carries(FlattenSeq(parts), "HAS_UNIT", {HasUnit(d.units[i]) : i \in DOMAIN d.units})
    <2>1. Carries(FlattenSeq(parts), "HAS_UNIT", UNION {U[i] : i \in DOMAIN d.units})
      BY <1>6, CarriedFlattened
    <2>2. UNION {U[i] : i \in DOMAIN d.units} = {HasUnit(d.units[i]) : i \in DOMAIN d.units}
      BY <1>5
    <2> QED BY <2>1, <2>2
  <1>10. Carries(FlattenSeq(parts), "HAS_MESSAGE", UNION {MessageEdgesOf(d.units[i]) : i \in DOMAIN d.units})
    <2>1. Carries(FlattenSeq(parts), "HAS_MESSAGE", UNION {M[i] : i \in DOMAIN d.units})
      BY <1>7, CarriedFlattened
    <2>2. UNION {M[i] : i \in DOMAIN d.units} = UNION {MessageEdgesOf(d.units[i]) : i \in DOMAIN d.units}
      BY <1>5
    <2> QED BY <2>1, <2>2
  <1> QED BY <1>8, <1>9, <1>10 DEF parts

\* The edges of a predicate are those of the one part that has any.
LEMMA EdgesCarried ==
  ASSUME NEW d, NEW P,
         NEW Fa, Carries(FactEdges(d), P, Fa), NEW Re, Carries(ResourceEdges(d), P, Re),
         NEW Fc, Carries(FacetEdges(d), P, Fc), NEW Se, Carries(SetEdges(d), P, Se),
         NEW Un, Carries(FlattenSeq(ByUnit(d)), P, Un),
         Carries(BoardEdges, P, {}), Carries(WiredEdges(d), P, {}),
         Fa = {} \/ Re = {}, Fa \union Re = {} \/ Fc = {}, Fa \union Re \union Fc = {} \/ Se = {},
         Fa \union Re \union Fc \union Se = {} \/ Un = {}
  PROVE  Carries(EdgesOf(d), P, Fa \union Re \union Fc \union Se \union Un)
  <1> DEFINE l1 == BoardEdges \o FactEdges(d)
             l2 == l1 \o ResourceEdges(d)
             l3 == l2 \o FacetEdges(d)
             l4 == l3 \o SetEdges(d)
             l5 == l4 \o FlattenSeq(ByUnit(d))
  <1>1. EdgesOf(d) = l5 \o WiredEdges(d)
    BY EdgesInParts
  <1>2. Carries(l1, P, {} \union Fa)
    BY CarriedJoined
  <1>3. {} \union Fa = Fa
    OBVIOUS
  <1> HIDE DEF l1
  <1>4. Carries(l2, P, Fa \union Re)
    BY <1>2, <1>3, CarriedJoined
  <1> HIDE DEF l2
  <1>5. Carries(l3, P, (Fa \union Re) \union Fc)
    BY <1>4, CarriedJoined
  <1> HIDE DEF l3
  <1>6. Carries(l4, P, (Fa \union Re \union Fc) \union Se)
    BY <1>5, CarriedJoined
  <1> HIDE DEF l4
  <1>7. Carries(l5, P, (Fa \union Re \union Fc \union Se) \union Un)
    BY <1>6, CarriedJoined
  <1> HIDE DEF l5
  <1>8. Carries(l5 \o WiredEdges(d), P, (Fa \union Re \union Fc \union Se \union Un) \union {})
    BY <1>7, CarriedJoined
  <1>9. (Fa \union Re \union Fc \union Se \union Un) \union {} = Fa \union Re \union Fc \union Se \union Un
    OBVIOUS
  <1> QED BY <1>1, <1>8, <1>9

(***************************************************************************)
(* What is read back from the graph of a design.                           *)
(***************************************************************************)
LinksTo(P, owner, nodes) == {Edge(P, owner, nodes[i].key) : i \in DOMAIN nodes}
Reached(g, nodes) ==
  /\ IsList(g.nodes) /\ IsList(nodes)
  /\ \A i \in DOMAIN nodes : FirstOf(g.nodes, nodes[i])

LEMMA LinksFrom ==
  ASSUME NEW P, NEW owner, NEW nodes
  PROVE  /\ {e \in LinksTo(P, owner, nodes) : e.from = owner} = LinksTo(P, owner, nodes)
         /\ {e.to : e \in LinksTo(P, owner, nodes)} = {nodes[i].key : i \in DOMAIN nodes}
  <1>1. \A i \in DOMAIN nodes : /\ Edge(P, owner, nodes[i].key).from = owner
                               /\ Edge(P, owner, nodes[i].key).to = nodes[i].key
    BY EdgeFields
  <1>2. {e \in LinksTo(P, owner, nodes) : e.from = owner} = LinksTo(P, owner, nodes)
    BY <1>1 DEF LinksTo
  <1>3. {e.to : e \in LinksTo(P, owner, nodes)} = {nodes[i].key : i \in DOMAIN nodes}
    BY <1>1 DEF LinksTo
  <1> QED BY <1>2, <1>3

LEMMA ReachedByKey ==
  ASSUME NEW g, NEW nodes, Reached(g, nodes)
  PROVE  FoundByKey(g, nodes)
  BY FirstIsFound DEF Reached, FoundByKey

LEMMA ChildrenListed ==
  ASSUME NEW g, NEW P, NEW owner, NEW nodes, Reached(g, nodes),
         Carries(g.edges, P, LinksTo(P, owner, nodes)),
         \A i \in DOMAIN nodes : nodes[i].order = i
  PROVE  Children(g, owner, P) = nodes
  <1>1. /\ IsList(g.edges) /\ LeadsOnce(g, owner, P)
        /\ EdgesFrom(g, owner, P) = {e \in LinksTo(P, owner, nodes) : e.from = owner}
    BY CarriedOnce
  <1>2. {e.to : e \in EdgesFrom(g, owner, P)} = {nodes[i].key : i \in DOMAIN nodes}
    <2>1. EdgesFrom(g, owner, P) = LinksTo(P, owner, nodes)
      BY <1>1, LinksFrom
    <2>2. {e.to : e \in LinksTo(P, owner, nodes)} = {nodes[i].key : i \in DOMAIN nodes}
      BY LinksFrom
    <2> QED BY <2>1, <2>2, Zenon
  <1>3. IsList(nodes) /\ FoundByKey(g, nodes)
    BY ReachedByKey DEF Reached
  <1>4. InOrder(nodes)
    <2>1. DOMAIN nodes = 1..Len(nodes) /\ Len(nodes) \in Nat
      BY <1>3, ListProperties
    <2>2. \A i \in DOMAIN nodes : nodes[i].order = i /\ i \in Nat
      BY <2>1
    <2> QED BY <2>2 DEF InOrder
  <1> QED BY <1>1, <1>2, <1>3, <1>4, ChildrenOfNode

LEMMA ChildrenGathered ==
  ASSUME NEW g, NEW P, NEW owner, NEW nodes, Reached(g, nodes),
         Carries(g.edges, P, LinksTo(P, owner, nodes)),
         \A i \in DOMAIN nodes : nodes[i].order \in Nat
  PROVE  Elements(Children(g, owner, P)) = Elements(nodes)
  <1>1. /\ IsList(g.edges)
        /\ EdgesFrom(g, owner, P) = LinksTo(P, owner, nodes)
    <2>1. IsList(g.edges) /\ EdgesFrom(g, owner, P) = {e \in LinksTo(P, owner, nodes) : e.from = owner}
      BY CarriedOnce
    <2> QED BY <2>1, LinksFrom
  <1>2. FoundByKey(g, nodes)
    BY ReachedByKey
  <1>3. \A e \in LinksTo(P, owner, nodes) : \E i \in DOMAIN nodes : e.to = nodes[i].key
    BY EdgeFields DEF LinksTo
  <1>4. \A i \in DOMAIN nodes : \E e \in LinksTo(P, owner, nodes) : e.to = nodes[i].key
    BY EdgeFields DEF LinksTo
  <1>5. \A e \in EdgesFrom(g, owner, P) : e.to \in Keys(g) /\ NodeAt(g, e.to).order \in Nat
    BY <1>1, <1>2, <1>3 DEF FoundByKey
  <1>6. Elements(Children(g, owner, P)) = {NodeAt(g, e.to) : e \in EdgesFrom(g, owner, P)}
    BY <1>1, <1>5, ChildrenHeld
  <1>7. {NodeAt(g, e.to) : e \in EdgesFrom(g, owner, P)} = Elements(nodes)
    <2>1. Elements(nodes) = {nodes[i] : i \in DOMAIN nodes}
      BY DEF Elements, ToSet
    <2>2. \A i \in DOMAIN nodes : NodeAt(g, nodes[i].key) = nodes[i]
      BY <1>2 DEF FoundByKey
    <2>3. ASSUME NEW e \in EdgesFrom(g, owner, P) PROVE NodeAt(g, e.to) \in Elements(nodes)
      <3>1. PICK i \in DOMAIN nodes : e.to = nodes[i].key
        BY <1>1, <1>3
      <3> QED BY <2>1, <2>2, <3>1
    <2>4. ASSUME NEW i \in DOMAIN nodes PROVE nodes[i] \in {NodeAt(g, e.to) : e \in EdgesFrom(g, owner, P)}
      <3>1. PICK e \in EdgesFrom(g, owner, P) : e.to = nodes[i].key
        BY <1>1, <1>4
      <3> QED BY <2>2, <3>1
    <2> QED BY <2>1, <2>3, <2>4
  <1> QED BY <1>6, <1>7

LEMMA GraphParts ==
  ASSUME NEW d
  PROVE  Decompose(d).nodes = NodesOf(d) /\ Decompose(d).edges = EdgesOf(d)
  BY DEF Decompose

\* Each list of nodes is reached, and the edges to it are those its part brings.
LEMMA PartsReached ==
  ASSUME NEW d, Given(d)
  PROVE  /\ Reached(Decompose(d), FactNodes(d)) /\ Reached(Decompose(d), ResourceNodes(d))
         /\ Reached(Decompose(d), FacetNodes(d)) /\ Reached(Decompose(d), SetNodes(d))
         /\ Reached(Decompose(d), UnitNodes(d)) /\ Reached(Decompose(d), Anchors(d))
  <1>1. /\ IsList(FactNodes(d)) /\ IsList(ResourceNodes(d)) /\ IsList(FacetNodes(d))
        /\ IsList(SetNodes(d)) /\ IsList(UnitNodes(d)) /\ IsList(Anchors(d))
    BY PartsListed, AnchorsListed DEF Given
  <1>2. ASSUME NEW l, IsList(l), \A n \in Elements(l) : FirstOf(NodesOf(d), n)
        PROVE  Reached(Decompose(d), l)
    <2>1. \A i \in DOMAIN l : l[i] \in Elements(l)
      BY DEF Elements, ToSet
    <2>2. IsList(Decompose(d).nodes) /\ Decompose(d).nodes = NodesOf(d)
      BY GraphParts, NodesHeld
    <2> QED BY <1>2, <2>1, <2>2 DEF Reached
  <1>3. Reached(Decompose(d), FactNodes(d))
    BY <1>1, <1>2, NodesHeld
  <1>4. Reached(Decompose(d), ResourceNodes(d))
    BY <1>1, <1>2, NodesHeld
  <1>5. Reached(Decompose(d), FacetNodes(d))
    BY <1>1, <1>2, NodesHeld
  <1>6. Reached(Decompose(d), SetNodes(d))
    BY <1>1, <1>2, NodesHeld
  <1>7. Reached(Decompose(d), UnitNodes(d))
    BY <1>1, <1>2, NodesHeld
  <1>8. Reached(Decompose(d), Anchors(d))
    BY <1>1, <1>2, NodesHeld
  <1> QED BY <1>3, <1>4, <1>5, <1>6, <1>7, <1>8

LEMMA EdgeLinks ==
  ASSUME NEW d, Given(d)
  PROVE  /\ Elements(FactEdges(d)) = LinksTo("HAS_BOARD_FACT", Board, FactNodes(d))
         /\ Elements(ResourceEdges(d)) = LinksTo("HAS_RESOURCE", Root, ResourceNodes(d))
         /\ Elements(FacetEdges(d)) = LinksTo("HAS_FACET", Root, FacetNodes(d))
         /\ Elements(SetEdges(d)) = LinksTo("HAS_MESSAGE_SET", Root, SetNodes(d))
         /\ {HasUnit(d.units[i]) : i \in DOMAIN d.units} = LinksTo("HAS_UNIT", Root, UnitNodes(d))
  <1> USE DEF Given
  <1>1. ASSUME NEW l, NEW P, NEW owner, NEW nodes, DOMAIN l = DOMAIN nodes,
               \A i \in DOMAIN nodes : l[i] = Edge(P, owner, nodes[i].key)
        PROVE  Elements(l) = LinksTo(P, owner, nodes)
    <2>1. Elements(l) = {l[i] : i \in DOMAIN nodes}
      BY <1>1 DEF Elements, ToSet
    <2> QED BY <1>1, <2>1 DEF LinksTo
  <1>2. Elements(FactEdges(d)) = LinksTo("HAS_BOARD_FACT", Board, FactNodes(d))
    <2>1. \A i \in DOMAIN FactNodes(d) : FactEdges(d)[i] = Edge("HAS_BOARD_FACT", Board, FactNodes(d)[i].key)
      BY PartKeys, PartsListed DEF FactEdges
    <2> QED BY <1>1, <2>1, PartsListed, EdgePartsListed
  <1>3. Elements(ResourceEdges(d)) = LinksTo("HAS_RESOURCE", Root, ResourceNodes(d))
    <2>1. \A i \in DOMAIN ResourceNodes(d) : ResourceEdges(d)[i] = Edge("HAS_RESOURCE", Root, ResourceNodes(d)[i].key)
      BY PartKeys, PartsListed DEF ResourceEdges
    <2> QED BY <1>1, <2>1, PartsListed, EdgePartsListed
  <1>4. Elements(FacetEdges(d)) = LinksTo("HAS_FACET", Root, FacetNodes(d))
    <2>1. \A i \in DOMAIN FacetNodes(d) : FacetEdges(d)[i] = Edge("HAS_FACET", Root, FacetNodes(d)[i].key)
      BY PartKeys, PartsListed DEF FacetEdges
    <2> QED BY <1>1, <2>1, PartsListed, EdgePartsListed
  <1>5. Elements(SetEdges(d)) = LinksTo("HAS_MESSAGE_SET", Root, SetNodes(d))
    <2>1. \A i \in DOMAIN SetNodes(d) : SetEdges(d)[i] = Edge("HAS_MESSAGE_SET", Root, SetNodes(d)[i].key)
      BY PartKeys, PartsListed DEF SetEdges
    <2> QED BY <1>1, <2>1, PartsListed, EdgePartsListed
  <1>6. {HasUnit(d.units[i]) : i \in DOMAIN d.units} = LinksTo("HAS_UNIT", Root, UnitNodes(d))
    <2>1. \A i \in DOMAIN UnitNodes(d) : HasUnit(d.units[i]) = Edge("HAS_UNIT", Root, UnitNodes(d)[i].key)
      BY PartKeys DEF HasUnit
    <2>2. DOMAIN UnitNodes(d) = DOMAIN d.units
      BY PartsListed
    <2> QED BY <2>1, <2>2 DEF LinksTo
  <1> QED BY <1>2, <1>3, <1>4, <1>5, <1>6

LEMMA PartCarries ==
  ASSUME NEW l, NEW P, NEW nodes, IsList(l), AllOf(l, P), KeysOnce(nodes), DOMAIN l = DOMAIN nodes,
         \A i \in DOMAIN nodes : l[i].to = nodes[i].key
  PROVE  Carries(l, P, Elements(l))
  <1>1. \A i, j \in DOMAIN l : i # j => l[i].to # l[j].to
    BY DEF KeysOnce
  <1> QED BY <1>1, AllCarried DEF AllOf

\* What the graph carries of the predicates that are followed.
LEMMA GraphCarries ==
  ASSUME NEW d, Given(d)
  PROVE  /\ Carries(EdgesOf(d), "HAS_BOARD_FACT", LinksTo("HAS_BOARD_FACT", Board, FactNodes(d)))
         /\ Carries(EdgesOf(d), "HAS_RESOURCE", LinksTo("HAS_RESOURCE", Root, ResourceNodes(d)))
         /\ Carries(EdgesOf(d), "HAS_FACET", LinksTo("HAS_FACET", Root, FacetNodes(d)))
         /\ Carries(EdgesOf(d), "HAS_MESSAGE_SET", LinksTo("HAS_MESSAGE_SET", Root, SetNodes(d)))
         /\ Carries(EdgesOf(d), "HAS_UNIT", LinksTo("HAS_UNIT", Root, UnitNodes(d)))
         /\ Carries(EdgesOf(d), "HAS_MESSAGE", UNION {MessageEdgesOf(d.units[i]) : i \in DOMAIN d.units})
  <1> DEFINE F == Elements(FactEdges(d))
             R == Elements(ResourceEdges(d))
             C == Elements(FacetEdges(d))
             S == Elements(SetEdges(d))
             U == {HasUnit(d.units[i]) : i \in DOMAIN d.units}
             M == UNION {MessageEdgesOf(d.units[i]) : i \in DOMAIN d.units}
  <1>1. IsDesign(d) /\ NamesOnce(d)
    BY DEF Given
  <1>2. ASSUME NEW P, P # "HAS_BOARD_FACT" PROVE Carries(FactEdges(d), P, {})
    BY <1>1, <1>2, EdgePartsListed, OthersCarryNone
  <1>3. ASSUME NEW P, P # "HAS_RESOURCE" PROVE Carries(ResourceEdges(d), P, {})
    BY <1>1, <1>3, EdgePartsListed, OthersCarryNone
  <1>4. ASSUME NEW P, P # "HAS_FACET" PROVE Carries(FacetEdges(d), P, {})
    BY <1>1, <1>4, EdgePartsListed, OthersCarryNone
  <1>5. ASSUME NEW P, P # "HAS_MESSAGE_SET" PROVE Carries(SetEdges(d), P, {})
    BY <1>1, <1>5, EdgePartsListed, OthersCarryNone
  <1>6. ASSUME NEW P, P \notin {"HAS_BOARD", "WIRED_TO"}
        PROVE  Carries(BoardEdges, P, {}) /\ Carries(WiredEdges(d), P, {})
    BY <1>1, <1>6, EdgePartsListed, OthersCarryNone
  <1>7. ASSUME NEW P, P \notin {"HAS_UNIT", "USES", "SENDS_TO", "HAS_MESSAGE"}
        PROVE  Carries(FlattenSeq(ByUnit(d)), P, {})
    BY <1>7, UnitsCarry
  <1>8. Carries(FactEdges(d), "HAS_BOARD_FACT", F)
    <2>1. \A i \in DOMAIN FactNodes(d) : FactEdges(d)[i].to = FactNodes(d)[i].key
      BY <1>1, PartKeys, PartsListed, EdgeFields DEF FactEdges
    <2>2. KeysOnce(FactNodes(d))
      BY <1>1, PartKeysOnce
    <2> QED BY <1>1, <2>1, <2>2, PartsListed, EdgePartsListed, PartCarries
  <1>9. Carries(ResourceEdges(d), "HAS_RESOURCE", R)
    <2>1. \A i \in DOMAIN ResourceNodes(d) : ResourceEdges(d)[i].to = ResourceNodes(d)[i].key
      BY <1>1, PartKeys, PartsListed, EdgeFields DEF ResourceEdges
    <2>2. KeysOnce(ResourceNodes(d))
      BY <1>1, PartKeysOnce
    <2> QED BY <1>1, <2>1, <2>2, PartsListed, EdgePartsListed, PartCarries
  <1>10. Carries(FacetEdges(d), "HAS_FACET", C)
    <2>1. \A i \in DOMAIN FacetNodes(d) : FacetEdges(d)[i].to = FacetNodes(d)[i].key
      BY <1>1, PartKeys, PartsListed, EdgeFields DEF FacetEdges
    <2>2. KeysOnce(FacetNodes(d))
      BY <1>1, PartKeysOnce
    <2> QED BY <1>1, <2>1, <2>2, PartsListed, EdgePartsListed, PartCarries
  <1>11. Carries(SetEdges(d), "HAS_MESSAGE_SET", S)
    <2>1. \A i \in DOMAIN SetNodes(d) : SetEdges(d)[i].to = SetNodes(d)[i].key
      BY <1>1, PartKeys, PartsListed, EdgeFields DEF SetEdges
    <2>2. KeysOnce(SetNodes(d))
      BY <1>1, PartKeysOnce
    <2> QED BY <1>1, <2>1, <2>2, PartsListed, EdgePartsListed, PartCarries
  <1>12. Carries(FlattenSeq(ByUnit(d)), "HAS_UNIT", U) /\ Carries(FlattenSeq(ByUnit(d)), "HAS_MESSAGE", M)
    BY UnitsCarry
  <1> HIDE DEF F, R, C, S, U, M
  <1>13. Carries(EdgesOf(d), "HAS_BOARD_FACT", F)
    <2>1. /\ Carries(FactEdges(d), "HAS_BOARD_FACT", F) /\ Carries(ResourceEdges(d), "HAS_BOARD_FACT", {})
          /\ Carries(FacetEdges(d), "HAS_BOARD_FACT", {}) /\ Carries(SetEdges(d), "HAS_BOARD_FACT", {})
          /\ Carries(FlattenSeq(ByUnit(d)), "HAS_BOARD_FACT", {})
          /\ Carries(BoardEdges, "HAS_BOARD_FACT", {}) /\ Carries(WiredEdges(d), "HAS_BOARD_FACT", {})
      BY <1>2, <1>3, <1>4, <1>5, <1>6, <1>7, <1>8
    <2>2. Carries(EdgesOf(d), "HAS_BOARD_FACT", F \union {} \union {} \union {} \union {})
      BY <2>1, EdgesCarried
    <2>3. F \union {} \union {} \union {} \union {} = F
      OBVIOUS
    <2> QED BY <2>2, <2>3
  <1>14. Carries(EdgesOf(d), "HAS_RESOURCE", R)
    <2>1. /\ Carries(FactEdges(d), "HAS_RESOURCE", {}) /\ Carries(ResourceEdges(d), "HAS_RESOURCE", R)
          /\ Carries(FacetEdges(d), "HAS_RESOURCE", {}) /\ Carries(SetEdges(d), "HAS_RESOURCE", {})
          /\ Carries(FlattenSeq(ByUnit(d)), "HAS_RESOURCE", {})
          /\ Carries(BoardEdges, "HAS_RESOURCE", {}) /\ Carries(WiredEdges(d), "HAS_RESOURCE", {})
      BY <1>2, <1>3, <1>4, <1>5, <1>6, <1>7, <1>9
    <2>2. Carries(EdgesOf(d), "HAS_RESOURCE", {} \union R \union {} \union {} \union {})
      BY <2>1, EdgesCarried
    <2>3. {} \union R \union {} \union {} \union {} = R
      OBVIOUS
    <2> QED BY <2>2, <2>3
  <1>15. Carries(EdgesOf(d), "HAS_FACET", C)
    <2>1. /\ Carries(FactEdges(d), "HAS_FACET", {}) /\ Carries(ResourceEdges(d), "HAS_FACET", {})
          /\ Carries(FacetEdges(d), "HAS_FACET", C) /\ Carries(SetEdges(d), "HAS_FACET", {})
          /\ Carries(FlattenSeq(ByUnit(d)), "HAS_FACET", {})
          /\ Carries(BoardEdges, "HAS_FACET", {}) /\ Carries(WiredEdges(d), "HAS_FACET", {})
      BY <1>2, <1>3, <1>4, <1>5, <1>6, <1>7, <1>10
    <2>2. Carries(EdgesOf(d), "HAS_FACET", {} \union {} \union C \union {} \union {})
      BY <2>1, EdgesCarried
    <2>3. {} \union {} \union C \union {} \union {} = C
      OBVIOUS
    <2> QED BY <2>2, <2>3
  <1>16. Carries(EdgesOf(d), "HAS_MESSAGE_SET", S)
    <2>1. /\ Carries(FactEdges(d), "HAS_MESSAGE_SET", {}) /\ Carries(ResourceEdges(d), "HAS_MESSAGE_SET", {})
          /\ Carries(FacetEdges(d), "HAS_MESSAGE_SET", {}) /\ Carries(SetEdges(d), "HAS_MESSAGE_SET", S)
          /\ Carries(FlattenSeq(ByUnit(d)), "HAS_MESSAGE_SET", {})
          /\ Carries(BoardEdges, "HAS_MESSAGE_SET", {}) /\ Carries(WiredEdges(d), "HAS_MESSAGE_SET", {})
      BY <1>2, <1>3, <1>4, <1>5, <1>6, <1>7, <1>11
    <2>2. Carries(EdgesOf(d), "HAS_MESSAGE_SET", {} \union {} \union {} \union S \union {})
      BY <2>1, EdgesCarried
    <2>3. {} \union {} \union {} \union S \union {} = S
      OBVIOUS
    <2> QED BY <2>2, <2>3
  <1>17. Carries(EdgesOf(d), "HAS_UNIT", U)
    <2>1. /\ Carries(FactEdges(d), "HAS_UNIT", {}) /\ Carries(ResourceEdges(d), "HAS_UNIT", {})
          /\ Carries(FacetEdges(d), "HAS_UNIT", {}) /\ Carries(SetEdges(d), "HAS_UNIT", {})
          /\ Carries(FlattenSeq(ByUnit(d)), "HAS_UNIT", U)
          /\ Carries(BoardEdges, "HAS_UNIT", {}) /\ Carries(WiredEdges(d), "HAS_UNIT", {})
      BY <1>2, <1>3, <1>4, <1>5, <1>6, <1>7, <1>12
    <2>2. Carries(EdgesOf(d), "HAS_UNIT", {} \union {} \union {} \union {} \union U)
      BY <2>1, EdgesCarried
    <2>3. {} \union {} \union {} \union {} \union U = U
      OBVIOUS
    <2> QED BY <2>2, <2>3
  <1>18. Carries(EdgesOf(d), "HAS_MESSAGE", M)
    <2>1. /\ Carries(FactEdges(d), "HAS_MESSAGE", {}) /\ Carries(ResourceEdges(d), "HAS_MESSAGE", {})
          /\ Carries(FacetEdges(d), "HAS_MESSAGE", {}) /\ Carries(SetEdges(d), "HAS_MESSAGE", {})
          /\ Carries(FlattenSeq(ByUnit(d)), "HAS_MESSAGE", M)
          /\ Carries(BoardEdges, "HAS_MESSAGE", {}) /\ Carries(WiredEdges(d), "HAS_MESSAGE", {})
      BY <1>2, <1>3, <1>4, <1>5, <1>6, <1>7, <1>12
    <2>2. Carries(EdgesOf(d), "HAS_MESSAGE", {} \union {} \union {} \union {} \union M)
      BY <2>1, EdgesCarried
    <2>3. {} \union {} \union {} \union {} \union M = M
      OBVIOUS
    <2> QED BY <2>2, <2>3
  <1> QED BY <1>13, <1>14, <1>15, <1>16, <1>17, <1>18, EdgeLinks DEF F, R, C, S, U, M

LEMMA MinInSet ==
  ASSUME NEW I, I \subseteq Nat, I # {}
  PROVE  Min(I) \in I
  <1>1. IsWellFoundedOn(OpToRel(<, Nat), Nat)
    BY NatLessThanWellFounded
  <1>2. PICK x \in I : \A y \in I : ~ (<<y, x>> \in OpToRel(<, Nat))
    BY <1>1, WFMin
  <1>3. \A y \in I : ~(y < x)
    BY <1>2 DEF OpToRel
  <1>4. \A y \in I : x <= y
    BY <1>3
  <1> QED BY <1>4 DEF Min

LEMMA ChildrenOfDesign ==
  ASSUME NEW d, Given(d)
  PROVE  /\ Children(Decompose(d), Board, "HAS_BOARD_FACT") = FactNodes(d)
         /\ Children(Decompose(d), Root, "HAS_RESOURCE") = ResourceNodes(d)
         /\ Elements(Children(Decompose(d), Root, "HAS_FACET")) = Elements(FacetNodes(d))
         /\ Children(Decompose(d), Root, "HAS_MESSAGE_SET") = SetNodes(d)
         /\ Children(Decompose(d), Root, "HAS_UNIT") = UnitNodes(d)
  <1> DEFINE g == Decompose(d)
  <1>1. g.edges = EdgesOf(d)
    BY GraphParts
  <1>2. /\ Reached(g, FactNodes(d)) /\ Reached(g, ResourceNodes(d)) /\ Reached(g, FacetNodes(d))
        /\ Reached(g, SetNodes(d)) /\ Reached(g, UnitNodes(d))
    BY PartsReached
  <1> HIDE DEF g
  <1>3. Children(g, Board, "HAS_BOARD_FACT") = FactNodes(d)
    <2>1. \A i \in DOMAIN FactNodes(d) : FactNodes(d)[i].order = i
      BY DEF FactNodes, Node
    <2> QED BY <1>1, <1>2, <2>1, GraphCarries, ChildrenListed
  <1>4. Children(g, Root, "HAS_RESOURCE") = ResourceNodes(d)
    <2>1. \A i \in DOMAIN ResourceNodes(d) : ResourceNodes(d)[i].order = i
      BY DEF ResourceNodes, Node
    <2> QED BY <1>1, <1>2, <2>1, GraphCarries, ChildrenListed
  <1>5. Elements(Children(g, Root, "HAS_FACET")) = Elements(FacetNodes(d))
    <2>1. \A i \in DOMAIN FacetNodes(d) : FacetNodes(d)[i].order \in Nat
      BY DEF FacetNodes, Node
    <2> QED BY <1>1, <1>2, <2>1, GraphCarries, ChildrenGathered
  <1>6. Children(g, Root, "HAS_MESSAGE_SET") = SetNodes(d)
    <2>1. \A i \in DOMAIN SetNodes(d) : SetNodes(d)[i].order = i
      BY DEF SetNodes, Node
    <2> QED BY <1>1, <1>2, <2>1, GraphCarries, ChildrenListed
  <1>7. Children(g, Root, "HAS_UNIT") = UnitNodes(d)
    <2>1. \A i \in DOMAIN UnitNodes(d) : UnitNodes(d)[i].order = i
      BY DEF UnitNodes, Node
    <2> QED BY <1>1, <1>2, <2>1, GraphCarries, ChildrenListed
  <1> QED BY <1>3, <1>4, <1>5, <1>6, <1>7 DEF g

\* What a unit receives is what its one HAS_MESSAGE edge leads to.
LEMMA MessageIsUnits ==
  ASSUME NEW d, Given(d), NEW i \in DOMAIN d.units
  PROVE  MessageOf(Decompose(d), UnitNodes(d)[i]) = d.units[i].message
  <1> DEFINE edges == EdgesOf(d)
             u == d.units[i]
             key == Plain(u.id)
             I == {k \in 1..Len(edges) : edges[k].predicate = "HAS_MESSAGE" /\ edges[k].from = key}
             j == IF I # {} THEN Min(I) ELSE 0
             M == UNION {MessageEdgesOf(d.units[k]) : k \in DOMAIN d.units}
  <1>1. UnitNodes(d)[i].key = key
    BY PartKeys, PartsListed DEF Given
  <1>2. MessageOf(Decompose(d), UnitNodes(d)[i]) = IF j = 0 THEN None ELSE edges[j].to[2]
    BY <1>1, GraphParts DEF MessageOf, SelectInSeq
  <1>3. Carries(edges, "HAS_MESSAGE", M)
    BY GraphCarries
  <1>4. \A k \in DOMAIN d.units : Plain(d.units[k].id) = key => k = i
    BY DEF Given, NamesOnce, Plain, Key
  <1> HIDE DEF edges
  <1>5. DOMAIN edges = 1..Len(edges) /\ Len(edges) \in Nat
    BY <1>3, ListProperties DEF Carries
  <1>6. ASSUME NEW k \in I PROVE u.message # None /\ edges[k].to[2] = u.message
    <2>1. edges[k] \in M
      BY <1>3, <1>5 DEF Carries, Elements, ToSet
    <2>2. PICK m \in DOMAIN d.units : edges[k] \in MessageEdgesOf(d.units[m])
      BY <2>1
    <2>3. d.units[m].message # None /\ edges[k] = HasMessage(d.units[m])
      BY <2>2 DEF MessageEdgesOf
    <2>4. edges[k].from = Plain(d.units[m].id) /\ edges[k].to = Plain(d.units[m].message)
      BY <2>3, EdgeFields DEF HasMessage
    <2>5. m = i
      BY <1>4, <2>4
    <2> QED BY <2>3, <2>4, <2>5, KeyParts
  <1>7. u.message # None => I # {}
    <2> SUFFICES ASSUME u.message # None PROVE I # {}
      OBVIOUS
    <2>1. HasMessage(u) \in M
      BY DEF MessageEdgesOf
    <2>2. HasMessage(u) \in Elements(edges)
      BY <1>3, <2>1 DEF Carries
    <2>3. PICK k \in DOMAIN edges : edges[k] = HasMessage(u)
      BY <2>2 DEF Elements, ToSet
    <2>4. edges[k].predicate = "HAS_MESSAGE" /\ edges[k].from = key
      BY <2>3, EdgeFields DEF HasMessage
    <2> QED BY <1>5, <2>4
  <1>8. I \subseteq Nat /\ \A k \in I : k # 0
    BY <1>5
  <1> HIDE DEF I
  <1>9. CASE I # {}
    <2>1. j \in I /\ j # 0
      BY <1>8, <1>9, MinInSet
    <2> HIDE DEF j
    <2> QED BY <1>2, <1>6, <2>1
  <1>10. CASE I = {}
    BY <1>2, <1>7, <1>10
  <1> QED BY <1>9, <1>10

LEMMA UnitComesBack ==
  ASSUME NEW d, Given(d), NEW i \in DOMAIN d.units
  PROVE  UnitOf(Decompose(d), UnitNodes(d)[i]) = d.units[i]
  <1> DEFINE g == Decompose(d)
             u == d.units[i]
             n == UnitNodes(d)[i]
  <1>1. IsUnit(u)
    BY DEF Given, IsDesign, Units, Elements, ToSet
  <1>2. n = Node(u.kind, Plain(u.id), i, UnitProps(u))
    BY DEF UnitNodes
  <1>3. n.type = u.kind /\ n.key = Plain(u.id) /\ n.props = UnitProps(u)
    BY <1>2 DEF Node
  <1>4. n.key[2] = u.id
    BY <1>3, KeyParts
  <1>5. MessageOf(g, n) = u.message
    BY MessageIsUnits
  <1>6. u = [f \in UnitFields |-> u[f]]
    BY <1>1 DEF IsUnit
  <1> HIDE DEF g, u, n
  <1>7. ASSUME NEW f \in Scalars PROVE Prop(n, f) = u[f]
    BY <1>3 DEF Prop, UnitProps, Scalars
  <1>8. ASSUME NEW f \in {"uses", "sends_to"} PROVE ListProp(n, f) = u[f]
    BY <1>3 DEF ListProp, UnitProps
  <1>9. ASSUME NEW f \in UnitFields PROVE UnitOf(g, n)[f] = u[f]
    <2>1. CASE f = "id"
      BY <1>4, <2>1 DEF UnitOf
    <2>2. CASE f = "kind"
      BY <1>3, <2>2 DEF UnitOf
    <2>3. CASE f = "message"
      BY <1>5, <2>3 DEF UnitOf
    <2>4. CASE f \in Scalars
      <3>1. f \notin {"id", "kind", "message"}
        BY <2>4 DEF Scalars
      <3> QED BY <1>7, <2>4, <3>1 DEF UnitOf
    <2>5. CASE f \in {"uses", "sends_to"}
      <3>1. f \notin {"id", "kind", "message"} /\ f \notin Scalars
        BY <2>5 DEF Scalars
      <3> QED BY <1>8, <2>5, <3>1 DEF UnitOf
    <2> QED BY <2>1, <2>2, <2>3, <2>4, <2>5 DEF UnitFields
  <1>10. UnitOf(g, n) = [f \in UnitFields |-> UnitOf(g, n)[f]]
    BY DEF UnitOf
  <1>11. UnitOf(g, n) = u
    BY <1>6, <1>9, <1>10
  <1> QED BY <1>11 DEF g, u, n

LEMMA ResourceComesBack ==
  ASSUME NEW d, IsDesign(d), NEW i \in DOMAIN d.resources
  PROVE  LET n == ResourceNodes(d)[i]
         IN  [name |-> n.key[2], roles |-> ListProp(n, "roles"), via |-> Prop(n, "via"),
              address |-> Prop(n, "address")] = d.resources[i]
  <1> DEFINE r == d.resources[i]
             n == ResourceNodes(d)[i]
  <1>1. r = [name |-> r.name, roles |-> r.roles, via |-> r.via, address |-> r.address]
    BY DEF IsDesign, IsResource, Elements, ToSet
  <1>2. n = Node("resource", Key("resource", r.name), i, ResourceProps(r))
    BY DEF ResourceNodes
  <1>3. n.key[2] = r.name /\ n.props = ResourceProps(r)
    BY <1>2, KeyParts DEF Node
  <1> HIDE DEF r, n
  <1>4. ListProp(n, "roles") = r.roles
    BY <1>3 DEF ListProp, ResourceProps
  <1>5. Prop(n, "via") = r.via
    BY <1>3 DEF Prop, ResourceProps
  <1>6. Prop(n, "address") = r.address
    BY <1>3 DEF Prop, ResourceProps
  <1> QED BY <1>1, <1>3, <1>4, <1>5, <1>6 DEF r, n

LEMMA MessageSetComesBack ==
  ASSUME NEW d, IsDesign(d), NEW i \in DOMAIN d.messages
  PROVE  LET n == SetNodes(d)[i]
         IN  [id |-> n.key[2], kinds |-> ListProp(n, "kinds"), fields |-> ListProp(n, "fields")] = d.messages[i]
  <1> DEFINE m == d.messages[i]
             n == SetNodes(d)[i]
  <1>1. m = [id |-> m.id, kinds |-> m.kinds, fields |-> m.fields]
    BY DEF IsDesign, IsMessageSet, Elements, ToSet
  <1>2. n = Node("message_set", Key("message_set", m.id), i, [kinds |-> m.kinds, fields |-> m.fields])
    BY DEF SetNodes
  <1>3. n.key[2] = m.id /\ n.props = [kinds |-> m.kinds, fields |-> m.fields]
    BY <1>2, KeyParts DEF Node
  <1> HIDE DEF m, n
  <1>4. ListProp(n, "kinds") = m.kinds /\ ListProp(n, "fields") = m.fields
    BY <1>3 DEF ListProp
  <1> QED BY <1>1, <1>3, <1>4 DEF m, n

\* The facets that are stated, with what is said of each.
LEMMA FacetsComeBack ==
  ASSUME NEW d, IsDesign(d)
  PROVE  LET facets == Elements(FacetNodes(d))
             stated == {f \in Elements(FacetOrder) : \E n \in facets : Prop(n, "facet") = f}
         IN  [f \in stated |-> Prop(CHOOSE n \in facets : Prop(n, "facet") = f, "detail")] = d.facets
  <1> DEFINE nodes == FacetNodes(d)
             facets == Elements(nodes)
             stated == {f \in Elements(FacetOrder) : \E n \in facets : Prop(n, "facet") = f}
             back == [f \in stated |-> Prop(CHOOSE n \in facets : Prop(n, "facet") = f, "detail")]
  <1>1. ASSUME NEW i \in DOMAIN Facets(d)
        PROVE  Prop(nodes[i], "facet") = Facets(d)[i] /\ Prop(nodes[i], "detail") = d.facets[Facets(d)[i]]
    <2>1. nodes[i].props = [facet |-> Facets(d)[i], detail |-> d.facets[Facets(d)[i]]]
      BY DEF FacetNodes, Node
    <2> QED BY <2>1 DEF Prop
  <1>2. DOMAIN nodes = DOMAIN Facets(d)
    BY PartsListed
  <1> HIDE DEF nodes
  <1>3. \A n \in facets : \E i \in DOMAIN Facets(d) : n = nodes[i]
    BY <1>2 DEF Elements, ToSet
  <1>4. \A i \in DOMAIN Facets(d) : nodes[i] \in facets
    BY <1>2 DEF Elements, ToSet
  <1>5. \A f \in DOMAIN d.facets : \E i \in DOMAIN Facets(d) : Facets(d)[i] = f
    BY FacetsListed DEF Elements, ToSet
  <1>6. \A i \in DOMAIN Facets(d) : Facets(d)[i] \in DOMAIN d.facets
    BY FacetsListed DEF Elements, ToSet
  <1>7. \A n \in facets : Prop(n, "facet") \in DOMAIN d.facets /\ Prop(n, "detail") = d.facets[Prop(n, "facet")]
    BY <1>1, <1>3, <1>6
  <1>8. \A f \in DOMAIN d.facets : \E n \in facets : Prop(n, "facet") = f
    BY <1>1, <1>4, <1>5
  <1>9. DOMAIN d.facets \subseteq Elements(FacetOrder) /\ d.facets = [f \in DOMAIN d.facets |-> d.facets[f]]
    BY DEF IsDesign
  <1> HIDE DEF facets
  <1>10. stated = DOMAIN d.facets
    BY <1>7, <1>8, <1>9
  <1>11. ASSUME NEW f \in DOMAIN d.facets
         PROVE  Prop(CHOOSE n \in facets : Prop(n, "facet") = f, "detail") = d.facets[f]
    <2> DEFINE c == CHOOSE n \in facets : Prop(n, "facet") = f
    <2>1. c \in facets /\ Prop(c, "facet") = f
      BY <1>8
    <2> HIDE DEF c
    <2>2. Prop(c, "detail") = d.facets[f]
      BY <1>7, <2>1
    <2> QED BY <2>2 DEF c
  <1>12. back = d.facets
    BY <1>9, <1>10, <1>11
  <1> QED BY <1>12 DEF facets, nodes

LEMMA OneAnchor ==
  ASSUME NEW d, Given(d)
  PROVE  LET nodes == NodesOf(d)
             anchors == Keep(nodes, {i \in DOMAIN nodes : nodes[i].type = "anchor"})
         IN  anchors # <<>> /\ anchors[1] = AnchorNode(d)
  <1> DEFINE nodes == NodesOf(d)
             I == {i \in DOMAIN nodes : nodes[i].type = "anchor"}
             anchors == Keep(nodes, I)
  <1>1. IsDesign(d)
    BY DEF Given
  <1>2. IsList(nodes)
    BY NodesHeld
  <1>3. AnchorNode(d) \in Elements(nodes) /\ AnchorNode(d).type = "anchor"
    BY NodesHeld, AnchorsListed DEF AnchorNode, Node
  <1>4. ASSUME NEW n \in Elements(nodes), n.type = "anchor" PROVE n = AnchorNode(d)
    <2>1. n \notin Elements(FactNodes(d))
      <3>1. \A i \in DOMAIN FactNodes(d) : FactNodes(d)[i].type = "board_fact"
        BY DEF FactNodes, Node
      <3> QED BY <1>1, <1>4, <3>1, NodeListed, PartsListed
    <2>2. n \notin Elements(ResourceNodes(d))
      <3>1. \A i \in DOMAIN ResourceNodes(d) : ResourceNodes(d)[i].type = "resource"
        BY DEF ResourceNodes, Node
      <3> QED BY <1>1, <1>4, <3>1, NodeListed, PartsListed
    <2>3. n \notin Elements(FacetNodes(d))
      <3>1. \A i \in DOMAIN FacetNodes(d) : FacetNodes(d)[i].type = "facet"
        BY DEF FacetNodes, Node
      <3> QED BY <1>1, <1>4, <3>1, NodeListed, PartsListed
    <2>4. n \notin Elements(MailboxNodes(d))
      <3>1. \A i \in DOMAIN MailboxNodes(d) : MailboxNodes(d)[i].type = "message"
        BY DEF MailboxNodes, Node
      <3> QED BY <1>1, <1>4, <3>1, NodeListed, PartsListed
    <2>5. n \notin Elements(SetNodes(d))
      <3>1. \A i \in DOMAIN SetNodes(d) : SetNodes(d)[i].type = "message_set"
        BY DEF SetNodes, Node
      <3> QED BY <1>1, <1>4, <3>1, NodeListed, PartsListed
    <2>6. n \notin Elements(UnitNodes(d))
      <3>1. \A i \in DOMAIN UnitNodes(d) : i \in DOMAIN d.units /\ UnitNodes(d)[i].type = d.units[i].kind
        BY DEF UnitNodes, Node
      <3>2. \A i \in DOMAIN d.units : d.units[i].kind # "anchor"
        BY <1>1 DEF IsDesign, IsUnit, Units, Elements, ToSet
      <3> QED BY <1>1, <1>4, <3>1, <3>2, NodeListed, PartsListed
    <2>7. n \in Elements(Anchors(d))
      BY <2>1, <2>2, <2>3, <2>4, <2>5, <2>6, NodesHeld
    <2>8. BoardNode(d).type = "board"
      BY DEF BoardNode, Node
    <2> QED BY <1>4, <2>7, <2>8, AnchorsListed
  <1>5. I \subseteq DOMAIN nodes
    OBVIOUS
  <1>6. {nodes[i] : i \in I} = {AnchorNode(d)}
    <2>1. \A i \in I : nodes[i] = AnchorNode(d)
      BY <1>4 DEF Elements, ToSet
    <2>2. \E i \in I : nodes[i] = AnchorNode(d)
      BY <1>3 DEF Elements, ToSet
    <2> QED BY <2>1, <2>2
  <1> HIDE DEF nodes, I
  <1>7. IsList(anchors) /\ Elements(anchors) = {AnchorNode(d)}
    BY <1>2, <1>5, <1>6, KeptElements
  <1> HIDE DEF anchors
  <1>8. anchors # <<>>
    BY <1>7, NoneInList
  <1>9. anchors[1] = AnchorNode(d)
    <2>1. PICK i \in DOMAIN anchors : anchors[i] = AnchorNode(d)
      BY <1>7 DEF Elements, ToSet
    <2>2. 1 \in DOMAIN anchors
      BY <1>7, <2>1, ListProperties
    <2> QED BY <1>7, <2>2 DEF Elements, ToSet
  <1> QED BY <1>8, <1>9 DEF anchors, I, nodes

LEMMA DesignRebuilt ==
  ASSUME NEW d, Given(d)
  PROVE  Rebuilt(Decompose(d), AnchorNode(d)) = d
  <1> DEFINE g == Decompose(d)
             a == AnchorNode(d)
             facts == FactNodes(d)
             resources == ResourceNodes(d)
             facets == Elements(FacetNodes(d))
             units == UnitNodes(d)
             messages == SetNodes(d)
             stated == {f \in Elements(FacetOrder) : \E n \in facets : Prop(n, "facet") = f}
  <1>1. IsDesign(d)
    BY DEF Given
  <1>2. a.key = Root /\ a.props = [framework |-> d.framework, prose |-> d.prose, wiring |-> d.wiring]
    BY DEF AnchorNode, Node
  <1>3. Prop(a, "prose") = d.prose /\ Prop(a, "framework") = d.framework /\ ListProp(a, "wiring") = d.wiring
    <2> HIDE DEF a
    <2> QED BY <1>2 DEF Prop, ListProp
  <1>4. Prop(NodeAt(g, Board), "board") = d.board
    <2>1. NodeAt(g, Board) = BoardNode(d)
      <3>1. FirstOf(g.nodes, BoardNode(d)) /\ IsList(g.nodes)
        BY NodesHeld, AnchorsListed, GraphParts
      <3> HIDE DEF g
      <3>2. NodeAt(g, BoardNode(d).key) = BoardNode(d)
        BY <3>1, FirstIsFound
      <3> QED BY <3>2, AnchorsListed
    <2>2. BoardNode(d).props = [board |-> d.board]
      BY DEF BoardNode, Node
    <2> HIDE DEF g
    <2> QED BY <2>1, <2>2 DEF Prop
  <1>5. /\ Children(g, Board, "HAS_BOARD_FACT") = facts
        /\ Children(g, a.key, "HAS_RESOURCE") = resources
        /\ Elements(Children(g, a.key, "HAS_FACET")) = facets
        /\ Children(g, a.key, "HAS_UNIT") = units
        /\ Children(g, a.key, "HAS_MESSAGE_SET") = messages
    BY <1>2, ChildrenOfDesign
  <1>6. [i \in DOMAIN facts |-> facts[i].props] = d.facts
    <2>1. DOMAIN facts = DOMAIN d.facts /\ IsList(d.facts)
      BY <1>1, PartsListed DEF IsDesign
    <2>2. \A i \in DOMAIN d.facts : facts[i].props = d.facts[i]
      BY DEF FactNodes, Node
    <2>3. d.facts = [i \in DOMAIN d.facts |-> d.facts[i]]
      BY <2>1 DEF IsList
    <2> HIDE DEF facts
    <2> QED BY <2>1, <2>2, <2>3
  <1>7. [i \in DOMAIN resources |->
           [name |-> resources[i].key[2], roles |-> ListProp(resources[i], "roles"),
            via |-> Prop(resources[i], "via"), address |-> Prop(resources[i], "address")]] = d.resources
    <2>1. DOMAIN resources = DOMAIN d.resources /\ IsList(d.resources)
      BY <1>1, PartsListed DEF IsDesign
    <2>2. \A i \in DOMAIN d.resources :
            [name |-> resources[i].key[2], roles |-> ListProp(resources[i], "roles"),
             via |-> Prop(resources[i], "via"), address |-> Prop(resources[i], "address")] = d.resources[i]
      BY <1>1, ResourceComesBack
    <2>3. d.resources = [i \in DOMAIN d.resources |-> d.resources[i]]
      BY <2>1 DEF IsList
    <2> HIDE DEF resources
    <2> QED BY <2>1, <2>2, <2>3
  <1>8. [f \in stated |-> Prop(CHOOSE n \in facets : Prop(n, "facet") = f, "detail")] = d.facets
    BY <1>1, FacetsComeBack
  <1>9. [i \in DOMAIN messages |->
           [id |-> messages[i].key[2], kinds |-> ListProp(messages[i], "kinds"),
            fields |-> ListProp(messages[i], "fields")]] = d.messages
    <2>1. DOMAIN messages = DOMAIN d.messages /\ IsList(d.messages)
      BY <1>1, PartsListed DEF IsDesign
    <2>2. \A i \in DOMAIN d.messages :
            [id |-> messages[i].key[2], kinds |-> ListProp(messages[i], "kinds"),
             fields |-> ListProp(messages[i], "fields")] = d.messages[i]
      BY <1>1, MessageSetComesBack
    <2>3. d.messages = [i \in DOMAIN d.messages |-> d.messages[i]]
      BY <2>1 DEF IsList
    <2> HIDE DEF messages
    <2> QED BY <2>1, <2>2, <2>3
  <1>10. [i \in DOMAIN units |-> UnitOf(g, units[i])] = d.units
    <2>1. DOMAIN units = DOMAIN d.units /\ IsList(d.units)
      BY <1>1, PartsListed DEF IsDesign
    <2>2. \A i \in DOMAIN d.units : UnitOf(g, units[i]) = d.units[i]
      BY UnitComesBack
    <2>3. d.units = [i \in DOMAIN d.units |-> d.units[i]]
      BY <2>1 DEF IsList
    <2> HIDE DEF units, g
    <2> QED BY <2>1, <2>2, <2>3
  <1>11. Rebuilt(g, a) =
           [prose     |-> Prop(a, "prose"),
            framework |-> Prop(a, "framework"),
            wiring    |-> ListProp(a, "wiring"),
            board     |-> Prop(NodeAt(g, Board), "board"),
            facts     |-> [i \in DOMAIN facts |-> facts[i].props],
            resources |-> [i \in DOMAIN resources |->
                             [name |-> resources[i].key[2], roles |-> ListProp(resources[i], "roles"),
                              via |-> Prop(resources[i], "via"), address |-> Prop(resources[i], "address")]],
            facets    |-> [f \in stated |-> Prop(CHOOSE n \in facets : Prop(n, "facet") = f, "detail")],
            messages  |-> [i \in DOMAIN messages |->
                             [id |-> messages[i].key[2], kinds |-> ListProp(messages[i], "kinds"),
                              fields |-> ListProp(messages[i], "fields")]],
            units     |-> [i \in DOMAIN units |-> UnitOf(g, units[i])]]
    <2> HIDE DEF g, a, facts, resources, facets, units, messages
    <2> QED BY <1>5, Zenon DEF Rebuilt
  <1>12. d = [prose |-> d.prose, framework |-> d.framework, wiring |-> d.wiring, board |-> d.board,
              facts |-> d.facts, resources |-> d.resources, facets |-> d.facets,
              messages |-> d.messages, units |-> d.units]
    BY <1>1 DEF IsDesign
  <1> HIDE DEF g, a, facts, resources, facets, units, messages, stated
  <1>13. Rebuilt(g, a) = [prose |-> d.prose, framework |-> d.framework, wiring |-> d.wiring, board |-> d.board,
                          facts |-> d.facts, resources |-> d.resources, facets |-> d.facets,
                          messages |-> d.messages, units |-> d.units]
    BY <1>3, <1>4, <1>6, <1>7, <1>8, <1>9, <1>10, <1>11, Zenon
  <1> QED BY <1>12, <1>13 DEF g, a

LEMMA DesignComesBack ==
  ASSUME NEW d, Given(d)
  PROVE  Reconstruct(Decompose(d)) = {d}
  <1> DEFINE g == Decompose(d)
             anchors == Keep(g.nodes, {i \in DOMAIN g.nodes : g.nodes[i].type = "anchor"})
  <1>1. anchors # <<>> /\ anchors[1] = AnchorNode(d)
    BY OneAnchor, GraphParts
  <1>2. Children(g, AnchorNode(d).key, "HAS_UNIT") = UnitNodes(d)
    BY ChildrenOfDesign, AnchorsListed
  <1>3. ASSUME NEW n \in Elements(UnitNodes(d)) PROVE n.type \in {"component", "actor", "stage"}
    <2>1. IsDesign(d)
      BY DEF Given
    <2>2. \A i \in DOMAIN UnitNodes(d) : i \in DOMAIN d.units /\ UnitNodes(d)[i].type = d.units[i].kind
      BY DEF UnitNodes, Node
    <2>3. \A i \in DOMAIN d.units : d.units[i].kind \in {"component", "actor", "stage"}
      BY <2>1 DEF IsDesign, IsUnit, Units, Elements, ToSet
    <2> QED BY <1>3, <2>1, <2>2, <2>3, NodeListed, PartsListed
  <1>4. Rebuilt(g, AnchorNode(d)) = d
    BY DesignRebuilt
  <1>5. Reconstruct(g) =
          IF anchors = <<>> THEN {}
          ELSE IF \E n \in Elements(Children(g, anchors[1].key, "HAS_UNIT")) :
                      n.type \notin {"component", "actor", "stage"} THEN {}
          ELSE {Rebuilt(g, anchors[1])}
    BY Zenon DEF Reconstruct
  <1> HIDE DEF g, anchors
  <1>6. Reconstruct(g) = {d}
    BY <1>1, <1>2, <1>3, <1>4, <1>5
  <1> QED BY <1>6 DEF g

(* A design that holds together, and whose units are not named as another   *)
(* node of its graph is, comes back from the graph exactly as it was stored:*)
(* every list in its order, every unit with what it uses, sends and         *)
(* receives, for designs of any size (composition_graph.rs:16).             *)
THEOREM StoredDesignComesBack == LibrarySpec => []RoundTripsApart
  <1>1. text \subseteq Texts \union Revisions => RoundTripsApart
    <2> SUFFICES ASSUME text \subseteq Texts \union Revisions, NEW d \in text, Valid(d), Apart(d)
                 PROVE  Reconstruct(Decompose(d)) = {d}
      BY DEF RoundTripsApart
    <2>1. IsDesign(d)
      BY LibraryAssumption
    <2>2. Given(d)
      BY <2>1, ValidNamesOnce DEF Given
    <2> QED BY <2>2, DesignComesBack
  <1> QED BY <1>1, TextIsStated, PTL

(***************************************************************************)
(* Plans.                                                                  *)
(***************************************************************************)

(* The depth-first search of resolve_execution_order: the states it goes    *)
(* through, the state a step is entered with, the one it is left with, and  *)
(* the one after a step that is passed over.                                *)
Searches(n) == [left : Seq(Nat), order : Seq(1..n), visited : SUBSET (1..n)]
Into(deps, s) == [left |-> deps[Head(s.left)], order |-> s.order,
                  visited |-> s.visited \union {Head(s.left)}]
Back(s, below) == [left |-> Tail(s.left), order |-> Append(below.order, Head(s.left)),
                   visited |-> below.visited]
Past(s) == [s EXCEPT !.left = Tail(@)]

Enters(deps, s) == s.left # <<>> /\ Head(s.left) \in (1..Len(deps)) \ s.visited

Visit(deps, f, s) ==
  IF s.left = <<>> THEN s
  ELSE IF ~Enters(deps, s) THEN f[Past(s)]
  ELSE f[Back(s, f[Into(deps, s)])]

LEMMA SearchesClosed ==
  ASSUME NEW deps \in Seq(Seq(Nat)), NEW s \in Searches(Len(deps)), s.left # <<>>
  PROVE  /\ Past(s) \in Searches(Len(deps)) /\ Past(s).visited = s.visited
         /\ Past(s).left = Tail(s.left) /\ Past(s).order = s.order
         /\ Enters(deps, s) =>
              /\ Into(deps, s) \in Searches(Len(deps))
              /\ \A below \in Searches(Len(deps)) : Back(s, below) \in Searches(Len(deps))
  <1>1. /\ s.left \in Seq(Nat) /\ s.order \in Seq(1..Len(deps)) /\ s.visited \in SUBSET (1..Len(deps))
        /\ s = [left |-> s.left, order |-> s.order, visited |-> s.visited]
    BY DEF Searches
  <1>2. Head(s.left) \in Nat /\ Tail(s.left) \in Seq(Nat)
    BY <1>1, HeadTailProperties
  <1>3. Past(s) = [left |-> Tail(s.left), order |-> s.order, visited |-> s.visited]
    <2> DEFINE rest == Tail(s.left)
    <2>1. Past(s) = [s EXCEPT !.left = rest]
      BY DEF Past
    <2> HIDE DEF rest
    <2>2. Past(s) = [left |-> rest, order |-> s.order, visited |-> s.visited]
      BY <2>1 DEF Searches
    <2> QED BY <2>2 DEF rest
  <1>4. ASSUME Enters(deps, s), NEW below \in Searches(Len(deps))
        PROVE  Back(s, below) \in Searches(Len(deps))
    <2>1. below.order \in Seq(1..Len(deps)) /\ below.visited \in SUBSET (1..Len(deps))
      BY DEF Searches
    <2>2. Append(below.order, Head(s.left)) \in Seq(1..Len(deps))
      BY <1>4, <2>1 DEF Enters
    <2> QED BY <1>2, <2>1, <2>2 DEF Back, Searches
  <1>5. ASSUME Enters(deps, s) PROVE Into(deps, s) \in Searches(Len(deps))
    <2>1. Head(s.left) \in 1..Len(deps)
      BY <1>5 DEF Enters
    <2>2. deps[Head(s.left)] \in Seq(Nat)
      BY <2>1
    <2> QED BY <1>1, <2>1, <2>2 DEF Into, Searches
  <1> QED BY <1>1, <1>2, <1>3, <1>4, <1>5 DEF Searches

(* The dependency lists of a plan have a longest one.                       *)
LEMMA LongestList ==
  ASSUME NEW deps \in Seq(Seq(Nat))
  PROVE  \E most \in Nat : \A i \in 1..Len(deps) : Len(deps[i]) <= most
  <1> DEFINE Size(i) == Len(deps[i])
             P == {k \in Nat : \E most \in Nat : \A i \in 1..Len(deps) : i <= k => Size(i) <= most}
  <1>0. Len(deps) \in Nat /\ \A i \in 1..Len(deps) : Size(i) \in Nat
    <2> SUFFICES ASSUME NEW i \in 1..Len(deps) PROVE Size(i) \in Nat
      BY LenProperties
    <2>1. deps[i] \in Seq(Nat)
      OBVIOUS
    <2> QED BY <2>1, LenProperties
  <1> HIDE DEF Size
  <1>1. 0 \in P
    <2>1. \A i \in 1..Len(deps) : i <= 0 => Size(i) <= 0
      BY <1>0
    <2> QED BY <2>1
  <1>2. ASSUME NEW k \in Nat, k \in P PROVE k + 1 \in P
    <2>1. PICK most \in Nat : \A i \in 1..Len(deps) : i <= k => Size(i) <= most
      BY <1>2
    <2>2. CASE k + 1 \in 1..Len(deps)
      <3>1. most + Size(k + 1) \in Nat
        BY <1>0, <2>2
      <3>2. \A i \in 1..Len(deps) : i <= k + 1 => Size(i) <= most + Size(k + 1)
        <4> SUFFICES ASSUME NEW i \in 1..Len(deps), i <= k + 1
                     PROVE  Size(i) <= most + Size(k + 1)
          OBVIOUS
        <4>1. i <= k \/ i = k + 1
          BY <1>0
        <4> QED BY <1>0, <2>1, <2>2, <4>1
      <3> QED BY <3>1, <3>2
    <2>3. CASE k + 1 \notin 1..Len(deps)
      <3>1. \A i \in 1..Len(deps) : i <= k + 1 => i <= k
        BY <1>0, <2>3
      <3>2. k + 1 \in Nat
        OBVIOUS
      <3>3. \A i \in 1..Len(deps) : i <= k + 1 => Size(i) <= most
        BY <2>1, <3>1
      <3> QED BY <3>2, <3>3
    <2> QED BY <2>2, <2>3
  <1>3. Len(deps) \in P
    <2> HIDE DEF P
    <2> QED BY <1>0, <1>1, <1>2, NaturalsInSet
  <1> QED BY <1>3 DEF Size

(* Every call of the search has less to do: fewer steps to visit, or a      *)
(* shorter list with the same steps to visit.                               *)
Shrinks(deps, rank) ==
  \A s \in Searches(Len(deps)) : s.left # <<>> =>
    /\ rank[Past(s)] < rank[s]
    /\ Enters(deps, s) =>
         /\ rank[Into(deps, s)] < rank[s]
         /\ \A below \in Searches(Len(deps)) :
              s.visited \subseteq below.visited => rank[Back(s, below)] < rank[s]

LEMMA SearchShrinks ==
  ASSUME NEW deps \in Seq(Seq(Nat))
  PROVE  \E rank \in [Searches(Len(deps)) -> Nat] : Shrinks(deps, rank)
  <1> DEFINE All == Searches(Len(deps))
             Unseen(s) == Cardinality((1..Len(deps)) \ s.visited)
  <1>0. Len(deps) \in Nat
    BY LenProperties
  <1>1. PICK most \in Nat : \A i \in 1..Len(deps) : Len(deps[i]) <= most
    BY LongestList
  <1> DEFINE rank == [s \in All |-> Unseen(s) * (most + 1) + Len(s.left)]
  <1>f. IsFiniteSet(1..Len(deps))
    BY <1>0, FS_Interval
  <1>2. \A s \in All : Unseen(s) \in Nat /\ Len(s.left) \in Nat
    <2> SUFFICES ASSUME NEW s \in All PROVE Unseen(s) \in Nat /\ Len(s.left) \in Nat
      OBVIOUS
    <2>1. IsFiniteSet((1..Len(deps)) \ s.visited)
      BY <1>f, FS_Subset
    <2>2. s.left \in Seq(Nat)
      BY DEF Searches
    <2> QED BY <2>1, <2>2, FS_CardinalityType, LenProperties
  <1>3. ASSUME NEW s \in All, NEW t \in All, s.visited \subseteq t.visited
        PROVE  Unseen(t) <= Unseen(s)
    <2>1. IsFiniteSet((1..Len(deps)) \ s.visited)
      BY <1>f, FS_Subset
    <2>2. (1..Len(deps)) \ t.visited \in SUBSET ((1..Len(deps)) \ s.visited)
      BY <1>3
    <2> QED BY <2>1, <2>2, FS_Subset
  <1>4. ASSUME NEW s \in All, NEW t \in All, NEW i \in (1..Len(deps)) \ s.visited,
               t.visited = s.visited \union {i}
        PROVE  Unseen(t) = Unseen(s) - 1
    <2> DEFINE unseen == (1..Len(deps)) \ s.visited
    <2>1. IsFiniteSet(unseen) /\ i \in unseen
      BY <1>f, FS_Subset
    <2>2. (1..Len(deps)) \ t.visited = unseen \ {i}
      BY <1>4
    <2> HIDE DEF unseen
    <2>3. Cardinality(unseen \ {i}) = Cardinality(unseen) - 1
      BY <2>1, FS_RemoveElement
    <2> QED BY <2>2, <2>3 DEF unseen
  <1> HIDE DEF Unseen
  <1>5. \A u, v, w \in Nat : u <= v => u * w <= v * w
    OBVIOUS
  <1>6. \A u, w \in Nat : u * w \in Nat /\ (u + 1) * w = u * w + w
    OBVIOUS
  <1>7. rank \in [All -> Nat]
    <2> SUFFICES ASSUME NEW s \in All PROVE Unseen(s) * (most + 1) + Len(s.left) \in Nat
      OBVIOUS
    <2>1. Unseen(s) * (most + 1) \in Nat
      BY <1>2, <1>6
    <2> QED BY <1>2, <2>1
  <1>8. ASSUME NEW s \in All, s.left # <<>>
        PROVE  /\ rank[Past(s)] < rank[s]
               /\ Enters(deps, s) =>
                    /\ rank[Into(deps, s)] < rank[s]
                    /\ \A below \in All : s.visited \subseteq below.visited => rank[Back(s, below)] < rank[s]
    <2>1. /\ Past(s) \in All /\ Past(s).visited = s.visited /\ Past(s).left = Tail(s.left)
          /\ Enters(deps, s) =>
               Into(deps, s) \in All /\ \A below \in All : Back(s, below) \in All
      BY <1>8, SearchesClosed
    <2>2. s.left \in Seq(Nat)
      BY DEF Searches
    <2>3. Len(Tail(s.left)) = Len(s.left) - 1 /\ Len(s.left) \in Nat /\ Len(s.left) >= 1
      BY <1>8, <2>2, HeadTailProperties, EmptySeq, LenProperties
    <2>4. ASSUME NEW t \in All, s.visited \subseteq t.visited, t.left = Tail(s.left)
          PROVE  rank[t] < rank[s]
      <3>1. Unseen(t) * (most + 1) <= Unseen(s) * (most + 1)
        <4>1. Unseen(t) <= Unseen(s) /\ Unseen(t) \in Nat /\ Unseen(s) \in Nat /\ most + 1 \in Nat
          BY <1>2, <1>3, <2>4
        <4> QED BY <1>5, <4>1
      <3>2. Unseen(t) * (most + 1) \in Nat /\ Unseen(s) * (most + 1) \in Nat
        BY <1>2, <1>6
      <3> DEFINE x == Unseen(t) * (most + 1)
                 y == Unseen(s) * (most + 1)
      <3>3. x \in Nat /\ y \in Nat /\ x <= y
        BY <3>1, <3>2
      <3>4. rank[t] = x + Len(t.left) /\ rank[s] = y + Len(s.left)
        OBVIOUS
      <3> HIDE DEF x, y, rank
      <3> QED BY <2>3, <2>4, <3>3, <3>4
    <2>5. ASSUME Enters(deps, s) PROVE rank[Into(deps, s)] < rank[s]
      <3> DEFINE t == Into(deps, s)
                 x == Unseen(t) * (most + 1)
                 y == Unseen(s) * (most + 1)
      <3>1. /\ t \in All /\ t.visited = s.visited \union {Head(s.left)}
            /\ t.left = deps[Head(s.left)]
        BY <2>1, <2>5 DEF Into
      <3>2. Head(s.left) \in (1..Len(deps)) \ s.visited
        BY <2>5 DEF Enters
      <3> HIDE DEF t
      <3>3. Unseen(t) = Unseen(s) - 1
        BY <1>4, <3>1, <3>2
      <3>4. Len(t.left) <= most
        BY <1>1, <3>1, <3>2
      <3>5. Unseen(s) = Unseen(t) + 1 /\ Unseen(t) \in Nat /\ Unseen(s) \in Nat /\ most + 1 \in Nat
        BY <1>2, <3>1, <3>3
      <3>6. y = x + (most + 1) /\ x \in Nat
        BY <1>6, <3>5
      <3>7. rank[t] = x + Len(t.left) /\ rank[s] = y + Len(s.left) /\ Len(t.left) \in Nat
        BY <1>2, <3>1
      <3> HIDE DEF x, y, rank
      <3> DEFINE p == Len(t.left)
                 q == Len(s.left)
      <3>8. p \in Nat /\ q \in Nat /\ q >= 1 /\ p <= most /\ rank[t] = x + p /\ rank[s] = y + q
        BY <2>3, <3>4, <3>7
      <3> HIDE DEF p, q
      <3>9. x + p < y + q
        BY <3>6, <3>8
      <3>10. rank[t] < rank[s]
        BY <3>8, <3>9
      <3> QED BY <3>10 DEF t
    <2>6. \A below \in All : Back(s, below).visited = below.visited /\ Back(s, below).left = Tail(s.left)
      BY DEF Back
    <2> HIDE DEF rank, All
    <2> QED BY <2>1, <2>4, <2>5, <2>6
  <1> HIDE DEF rank
  <1>9. Shrinks(deps, rank)
    BY <1>8 DEF Shrinks
  <1> QED BY <1>7, <1>9

LEMMA VisitExists ==
  ASSUME NEW deps \in Seq(Seq(Nat))
  PROVE  \E f : f = [s \in Searches(Len(deps)) |-> Visit(deps, f, s)]
  <1> DEFINE All == Searches(Len(deps))
             Fits == [s \in All |-> {t \in All : s.visited \subseteq t.visited}]
             F == {f \in [All -> All] : \A s \in All : f[s] \in Fits[s]}
             body == [f \in F |-> [s \in All |-> Visit(deps, f, s)]]
  <1>1. PICK rank \in [All -> Nat] : Shrinks(deps, rank)
    BY SearchShrinks
  <1>2. Fits \in [All -> SUBSET All] /\ \A s \in All : Fits[s] # {}
    <2>1. \A s \in All : s \in Fits[s]
      OBVIOUS
    <2>2. \A s \in All : Fits[s] \in SUBSET All
      OBVIOUS
    <2> QED BY <2>1, <2>2
  <1>3. \A s, t \in All : t \in Fits[s] <=> s.visited \subseteq t.visited
    OBVIOUS
  <1>4. \A f \in F : \A s \in All : f[s] \in All /\ s.visited \subseteq f[s].visited
    OBVIOUS
  <1>5. \A f : f \in F <=> f \in [All -> All] /\ \A s \in All : f[s] \in Fits[s]
    OBVIOUS
  <1>6. ASSUME NEW s \in All, s.left # <<>>, Enters(deps, s)
        PROVE  s.visited \subseteq Into(deps, s).visited
    BY DEF Into
  <1>7. \A s, below : Back(s, below).visited = below.visited
    BY DEF Back
  <1> HIDE DEF Fits, F
  <1>8. ASSUME NEW f \in F, NEW s \in All, s.left # <<>>, Enters(deps, s)
        PROVE  /\ Into(deps, s) \in All /\ f[Into(deps, s)] \in All
               /\ s.visited \subseteq f[Into(deps, s)].visited
               /\ Back(s, f[Into(deps, s)]) \in All
    <2>1. /\ Into(deps, s) \in All
          /\ \A below \in All : Back(s, below) \in All
      BY <1>8, SearchesClosed
    <2> HIDE DEF All
    <2> QED BY <1>4, <1>6, <1>8, <2>1
  <1>9. ASSUME NEW f \in F, NEW s \in All PROVE Visit(deps, f, s) \in Fits[s]
    <2>1. CASE s.left = <<>>
      BY <1>3, <2>1 DEF Visit
    <2>2. CASE s.left # <<>> /\ ~Enters(deps, s)
      <3>1. Past(s) \in All /\ Past(s).visited = s.visited
        BY <2>2, SearchesClosed
      <3> HIDE DEF All
      <3> QED BY <1>3, <1>4, <2>2, <3>1 DEF Visit
    <2>3. CASE s.left # <<>> /\ Enters(deps, s)
      <3> HIDE DEF All
      <3> DEFINE t == Back(s, f[Into(deps, s)])
      <3>1. t \in All /\ s.visited \subseteq t.visited
        BY <1>7, <1>8, <2>3
      <3>2. Visit(deps, f, s) = f[t]
        BY <2>3 DEF Visit
      <3> HIDE DEF t
      <3> QED BY <1>3, <1>4, <3>1, <3>2
    <2> QED BY <2>1, <2>2, <2>3
  <1>10. \A f \in F : body[f] \in F
    <2> HIDE DEF All
    <2> SUFFICES ASSUME NEW f \in F PROVE body[f] \in F
      OBVIOUS
    <2>1. \A s \in All : Visit(deps, f, s) \in All /\ Visit(deps, f, s) \in Fits[s]
      BY <1>2, <1>9
    <2>2. body[f] = [s \in All |-> Visit(deps, f, s)]
      OBVIOUS
    <2> HIDE DEF body
    <2> QED BY <1>5, <2>1, <2>2
  <1>11. ASSUME NEW f \in F, NEW g \in F, NEW s \in All,
                \A t \in All : rank[t] < rank[s] => f[t] = g[t]
         PROVE  body[f][s] = body[g][s]
    <2>1. body[f][s] = Visit(deps, f, s) /\ body[g][s] = Visit(deps, g, s)
      OBVIOUS
    <2> HIDE DEF body
    <2>2. CASE s.left = <<>>
      BY <2>1, <2>2 DEF Visit
    <2>3. CASE s.left # <<>> /\ ~Enters(deps, s)
      <3>1. Past(s) \in All /\ rank[Past(s)] < rank[s]
        BY <1>1, <2>3, SearchesClosed DEF Shrinks
      <3> HIDE DEF All
      <3> QED BY <1>11, <2>1, <2>3, <3>1 DEF Visit
    <2>4. CASE s.left # <<>> /\ Enters(deps, s)
      <3>1. /\ rank[Into(deps, s)] < rank[s]
            /\ \A below \in All :
                 s.visited \subseteq below.visited => rank[Back(s, below)] < rank[s]
        BY <1>1, <2>4 DEF Shrinks
      <3> HIDE DEF All
      <3>2. f[Into(deps, s)] = g[Into(deps, s)]
        BY <1>8, <1>11, <2>4, <3>1
      <3>3. LET t == Back(s, f[Into(deps, s)]) IN t \in All /\ rank[t] < rank[s]
        BY <1>8, <2>4, <3>1
      <3>4. f[Back(s, f[Into(deps, s)])] = g[Back(s, f[Into(deps, s)])]
        BY <1>11, <3>3
      <3> QED BY <2>1, <2>4, <3>2, <3>4 DEF Visit
    <2> QED BY <2>2, <2>3, <2>4
  <1>12. PICK f \in F : body[f] = f
    <2> HIDE DEF All, body
    <2>2. \A f, g \in F, s \in All :
            (\A t \in All : rank[t] < rank[s] => f[t] = g[t]) => body[f][s] = body[g][s]
      BY <1>11
    <2>3. \A f \in F : body[f] \in F
      BY <1>10
    <2>4. Descends(All, All, Fits, rank, body, F)
      BY <1>1, <1>2, <1>5, <2>2, <2>3 DEF Descends
    <2> QED BY <2>4, RecursionExists
  <1>13. f = [s \in All |-> Visit(deps, f, s)]
    BY <1>12
  <1> HIDE DEF All
  <1> QED BY <1>13 DEF All

-----------------------------------------------------------------------------
(* What Runnable is: nothing at first, then the steps whose dependencies    *)
(* are in it already, until nothing is added.                               *)
Ready(deps, S) == {i \in 1..Len(deps) : \A p \in DOMAIN deps[i] : deps[i][p] \in S}

Chain(deps, after) ==
  /\ after[0] = {}
  /\ \A k \in 1..Len(deps) : after[k] = Ready(deps, after[k - 1])

LEMMA RunnableIsChainEnd ==
  ASSUME NEW deps \in Seq(Seq(Nat))
  PROVE  \E after : Chain(deps, after) /\ Runnable(deps) = after[Len(deps)]
  <1> DEFINE n == Len(deps)
             Next1(f, k) == IF k = 0 THEN {} ELSE Ready(deps, f[k - 1])
             X == 0..n
             V == SUBSET (1..n)
             Fits == [k \in X |-> V]
             rank == [k \in X |-> k]
             F == [X -> V]
             body == [f \in F |-> [k \in X |-> Next1(f, k)]]
             Solves(f) == f = [k \in X |-> Next1(f, k)]
             after == CHOOSE f : Solves(f)
  <1>0. n \in Nat
    BY LenProperties
  <1>1. \A f, k : Next1(f, k) \in V
    BY DEF Ready
  <1>2. Descends(X, V, Fits, rank, body, F)
    <2>1. Fits \in [X -> SUBSET V] /\ \A k \in X : Fits[k] # {}
      OBVIOUS
    <2>2. rank \in [X -> Nat]
      BY <1>0
    <2>3. \A f : f \in F <=> f \in [X -> V] /\ \A k \in X : f[k] \in Fits[k]
      OBVIOUS
    <2>4. \A f \in F : body[f] \in F
      <3> HIDE DEF X, V, Next1
      <3> QED BY <1>1
    <2>5. \A f, g \in F, k \in X :
            (\A j \in X : rank[j] < rank[k] => f[j] = g[j]) => body[f][k] = body[g][k]
      <3> SUFFICES ASSUME NEW f \in F, NEW g \in F, NEW k \in X,
                          \A j \in X : j < k => f[j] = g[j]
                   PROVE  Next1(f, k) = Next1(g, k)
        <4>1. \A f \in F, k \in X : body[f][k] = Next1(f, k)
          OBVIOUS
        <4>2. \A k \in X : rank[k] = k
          OBVIOUS
        <4> HIDE DEF body, rank, Next1, F, X
        <4> QED BY <4>1, <4>2
      <3>1. CASE k = 0
        BY <3>1
      <3>2. CASE k # 0
        <4>1. k - 1 \in X /\ k - 1 < k
          BY <1>0, <3>2
        <4>2. f[k - 1] = g[k - 1]
          BY <4>1
        <4> QED BY <3>2, <4>2
      <3> QED BY <3>1, <3>2
    <2> HIDE DEF Fits, rank, F, X, V, body
    <2> QED BY <2>1, <2>2, <2>3, <2>4, <2>5 DEF Descends
  <1>3. \E f : Solves(f)
    <2>1. PICK f \in F : body[f] = f
      <3> HIDE DEF Fits, rank, F, X, V, body
      <3> QED BY <1>2, RecursionExists
    <2>2. Solves(f)
      <3> HIDE DEF Next1, X, V
      <3> QED BY <2>1
    <2> HIDE DEF Solves
    <2> QED BY <2>2
  <1>4. Solves(after)
    <2> HIDE DEF Solves
    <2> QED BY <1>3
  <1>5. Runnable(deps) = after[n]
    BY DEF Runnable, Ready
  <1> HIDE DEF after
  <1>6. Chain(deps, after)
    <2>1. \A k \in X : after[k] = Next1(after, k)
      <3> HIDE DEF Next1, X
      <3> QED BY <1>4
    <2> QED BY <1>0, <2>1 DEF Chain
  <1> QED BY <1>5, <1>6

LEMMA ReadyGrows ==
  ASSUME NEW deps, NEW S, NEW T, S \subseteq T
  PROVE  Ready(deps, S) \subseteq Ready(deps, T)
  BY DEF Ready

LEMMA ChainGrows ==
  ASSUME NEW deps \in Seq(Seq(Nat)), NEW after, Chain(deps, after)
  PROVE  \A k \in 0..Len(deps) : after[k] \subseteq 1..Len(deps) /\ after[k] \subseteq Ready(deps, after[k])
  <1> DEFINE P == {k \in Nat : k <= Len(deps) => after[k] \subseteq Ready(deps, after[k])}
  <1>0. Len(deps) \in Nat
    BY LenProperties
  <1>1. 0 \in P
    BY DEF Chain
  <1>2. ASSUME NEW k \in Nat, k \in P PROVE k + 1 \in P
    <2> SUFFICES ASSUME k + 1 <= Len(deps)
                 PROVE  after[k + 1] \subseteq Ready(deps, after[k + 1])
      OBVIOUS
    <2>1. after[k] \subseteq Ready(deps, after[k])
      BY <1>0, <1>2
    <2>2. k + 1 \in 1..Len(deps) /\ (k + 1) - 1 = k
      BY <1>0
    <2>3. after[k + 1] = Ready(deps, after[k])
      BY <2>2 DEF Chain
    <2> QED BY <2>1, <2>3, ReadyGrows
  <1>3. Nat \subseteq P
    <2> HIDE DEF P
    <2> QED BY <1>1, <1>2, NaturalsInSet
  <1>4. \A k \in 0..Len(deps) : after[k] \subseteq 1..Len(deps)
    BY <1>0 DEF Chain, Ready
  <1> QED BY <1>0, <1>3, <1>4

(* A step can run exactly when everything it depends on can.                *)
LEMMA RunnableIsReady ==
  ASSUME NEW deps \in Seq(Seq(Nat))
  PROVE  Runnable(deps) = Ready(deps, Runnable(deps))
  <1>1. PICK after : Chain(deps, after) /\ Runnable(deps) = after[Len(deps)]
    BY RunnableIsChainEnd
  <1> DEFINE n == Len(deps)
             Size(k) == Cardinality(after[k])
             Stays(k) == after[k] = Ready(deps, after[k])
             P == {k \in Nat : k <= n => Size(k) >= k \/ Stays(k)}
  <1>2. n \in Nat
    BY LenProperties
  <1>3. \A k \in 0..n : after[k] \subseteq 1..n /\ after[k] \subseteq Ready(deps, after[k])
    BY <1>1, ChainGrows
  <1>4. IsFiniteSet(1..n) /\ Cardinality(1..n) = n
    <2> HIDE DEF n
    <2>1. Cardinality(1..n) = IF 1 > n THEN 0 ELSE (n - 1) + 1
      BY <1>2, FS_Interval
    <2> QED BY <1>2, <2>1, FS_Interval
  <1>5. \A k \in 0..n : IsFiniteSet(after[k]) /\ Size(k) \in Nat
    BY <1>3, <1>4, FS_Subset, FS_CardinalityType
  <1>6. 0 \in P
    BY <1>2, <1>5
  <1>7. ASSUME NEW k \in Nat, k \in P PROVE k + 1 \in P
    <2> SUFFICES ASSUME k + 1 <= n PROVE Size(k + 1) >= k + 1 \/ Stays(k + 1)
      OBVIOUS
    <2>1. k \in 0..n /\ k + 1 \in 0..n /\ k + 1 \in 1..n /\ (k + 1) - 1 = k
      BY <1>2
    <2>2. after[k + 1] = Ready(deps, after[k])
      BY <1>1, <2>1 DEF Chain
    <2>3. CASE Stays(k)
      BY <2>2, <2>3
    <2>4. CASE Size(k) >= k /\ after[k + 1] # after[k]
      <3>1. after[k] \in SUBSET after[k + 1] /\ IsFiniteSet(after[k + 1])
        BY <1>3, <1>5, <2>1, <2>2
      <3>2. Size(k) <= Size(k + 1) /\ Size(k) # Size(k + 1)
        BY <2>4, <3>1, FS_Subset
      <3> HIDE DEF Size
      <3> QED BY <1>5, <2>1, <2>4, <3>2
    <2>5. CASE after[k + 1] = after[k]
      BY <2>2, <2>5
    <2>6. Size(k) >= k \/ Stays(k)
      BY <1>2, <1>7
    <2> HIDE DEF Size, Stays
    <2> QED BY <2>3, <2>4, <2>5, <2>6
  <1>8. n \in P
    <2> HIDE DEF P
    <2> QED BY <1>2, <1>6, <1>7, NaturalsInSet
  <1>9. n \in 0..n
    BY <1>2
  <1>10. CASE Size(n) >= n
    <2>1. after[n] \in SUBSET (1..n)
      BY <1>3, <1>9
    <2>2. Size(n) <= n
      BY <1>4, <2>1, FS_Subset
    <2>3. Size(n) = Cardinality(1..n)
      <3> HIDE DEF Size
      <3> QED BY <1>2, <1>4, <1>5, <1>9, <1>10, <2>2
    <2>4. after[n] = 1..n
      BY <1>4, <2>1, <2>3, FS_Subset
    <2>5. Ready(deps, after[n]) \subseteq 1..n
      BY DEF Ready
    <2> QED BY <1>1, <1>3, <1>9, <2>4, <2>5
  <1> QED BY <1>1, <1>2, <1>8, <1>10

-----------------------------------------------------------------------------
(* The steps entered and not left yet; what is ordered is ordered once; and *)
(* how far a search goes: through every step of its list, leaving behind it *)
(* what it found open, with every step it adds that can run after all it    *)
(* depends on.                                                              *)
Entered(s) == s.visited \ Range(s.order)

Consistent(s) ==
  /\ \A p, q \in 1..Len(s.order) : s.order[p] = s.order[q] => p = q
  /\ Range(s.order) \subseteq s.visited

After(deps, order, p) == \A d \in Range(deps[order[p]]) : \E q \in 1..(p - 1) : order[q] = d

Covers(deps, able, s, t) ==
  /\ Consistent(t)
  /\ s.visited \subseteq t.visited
  /\ Range(s.left) \intersect (1..Len(deps)) \subseteq t.visited
  /\ Entered(t) = Entered(s)
  /\ Len(s.order) <= Len(t.order)
  /\ \A p \in 1..Len(s.order) : t.order[p] = s.order[p]
  /\ \A p \in (Len(s.order) + 1)..Len(t.order) :
       t.order[p] \in able => After(deps, t.order, p)

(* What an open step can run after, the search goes through below it: so no *)
(* open step is ever among what a step that can run depends on.             *)
Below(deps, after, s) ==
  \A g \in Entered(s), k \in 1..Len(deps) : g \in after[k] => Range(s.left) \subseteq after[k - 1]

LEMMA IntoIsBelow ==
  ASSUME NEW deps \in Seq(Seq(Nat)), NEW after, Chain(deps, after),
         NEW s \in Searches(Len(deps)), Enters(deps, s), Consistent(s), Below(deps, after, s)
  PROVE  /\ Consistent(Into(deps, s)) /\ Below(deps, after, Into(deps, s))
         /\ Entered(Into(deps, s)) = Entered(s) \union {Head(s.left)}
         /\ Head(s.left) \notin Entered(s)
  <1> DEFINE i == Head(s.left)
             t == Into(deps, s)
  <1>1. /\ i \in 1..Len(deps) /\ i \notin s.visited /\ s.left # <<>>
        /\ t.left = deps[i] /\ t.order = s.order /\ t.visited = s.visited \union {i}
    BY DEF Enters, Into
  <1>2. i \in Range(s.left)
    <2>1. s.left \in Seq(Nat)
      BY DEF Searches
    <2> QED BY <1>1, <2>1, RangeOfTail
  <1> HIDE DEF i, t
  <1>3. Consistent(t) /\ Entered(t) = Entered(s) \union {i} /\ i \notin Entered(s)
    BY <1>1 DEF Consistent, Entered
  <1>4. \A k \in 1..Len(deps) : /\ k - 1 \in 0..Len(deps)
                                /\ after[k] = Ready(deps, after[k - 1])
                                /\ after[k - 1] \subseteq Ready(deps, after[k - 1])
    <2>1. \A k \in 1..Len(deps) : k - 1 \in 0..Len(deps)
      BY LenProperties
    <2> QED BY <2>1, ChainGrows DEF Chain
  <1>5. Range(deps[i]) = {deps[i][p] : p \in DOMAIN deps[i]}
    BY DEF Range
  <1>6. ASSUME NEW k \in 1..Len(deps), i \in after[k] PROVE Range(deps[i]) \subseteq after[k - 1]
    <2>1. i \in Ready(deps, after[k - 1])
      BY <1>4, <1>6
    <2>2. \A p \in DOMAIN deps[i] : deps[i][p] \in after[k - 1]
      BY <2>1 DEF Ready
    <2> QED BY <1>5, <2>2
  <1>7. ASSUME NEW g \in Entered(s), NEW k \in 1..Len(deps), g \in after[k]
        PROVE  Range(deps[i]) \subseteq after[k - 1]
    <2>1. i \in after[k - 1]
      BY <1>2, <1>7 DEF Below
    <2>2. i \in after[k]
      BY <1>4, <2>1
    <2> QED BY <1>6, <2>2
  <1>8. Below(deps, after, t)
    BY <1>1, <1>3, <1>6, <1>7 DEF Below
  <1> QED BY <1>3, <1>8 DEF i, t

LEMMA EnteredIsNotBelow ==
  ASSUME NEW deps \in Seq(Seq(Nat)), NEW after, Chain(deps, after), NEW s, Below(deps, after, s),
         NEW d \in Range(s.left) \intersect Entered(s)
  PROVE  d \notin after[Len(deps)]
  <1> DEFINE P == {k \in Nat : k <= Len(deps) => d \notin after[k]}
  <1>0. Len(deps) \in Nat
    BY LenProperties
  <1>1. 0 \in P
    BY DEF Chain
  <1>2. ASSUME NEW k \in Nat, k \in P PROVE k + 1 \in P
    <2> SUFFICES ASSUME k + 1 <= Len(deps) PROVE d \notin after[k + 1]
      OBVIOUS
    <2>1. k + 1 \in 1..Len(deps) /\ (k + 1) - 1 = k /\ k <= Len(deps)
      BY <1>0
    <2> QED BY <1>2, <2>1 DEF Below
  <1>3. Len(deps) \in P
    <2> HIDE DEF P
    <2> QED BY <1>0, <1>1, <1>2, NaturalsInSet
  <1> QED BY <1>0, <1>3

(* A step is entered, what it depends on is gone through, it is added, and  *)
(* the rest of the list is gone through.                                    *)
LEMMA BackIsBelow ==
  ASSUME NEW deps \in Seq(Seq(Nat)), NEW after, Chain(deps, after),
         NEW s \in Searches(Len(deps)), Enters(deps, s), Consistent(s), Below(deps, after, s),
         NEW b \in Searches(Len(deps)), NEW able, Covers(deps, able, Into(deps, s), b)
  PROVE  /\ Consistent(Back(s, b)) /\ Below(deps, after, Back(s, b))
         /\ Entered(Back(s, b)) = Entered(s)
  <1> DEFINE i == Head(s.left)
             t == Back(s, b)
             u == Into(deps, s)
  <1>1. /\ i \in 1..Len(deps) /\ s.left # <<>>
        /\ t.left = Tail(s.left) /\ t.order = Append(b.order, i) /\ t.visited = b.visited
    BY DEF Enters, Back
  <1>2. b.order \in Seq(1..Len(deps)) /\ s.left \in Seq(Nat)
    BY DEF Searches
  <1>3. Entered(u) = Entered(s) \union {i} /\ i \notin Entered(s)
    BY IntoIsBelow
  <1>4. Consistent(b) /\ Entered(b) = Entered(u)
    BY DEF Covers
  <1> HIDE DEF i, t, u
  <1>5. Range(t.order) = Range(b.order) \union {i}
    <2> DEFINE S == 1..Len(deps)
    <2>0. b.order \in Seq(S) /\ i \in S
      BY <1>1, <1>2
    <2> HIDE DEF S
    <2>1. Range(Append(b.order, i)) = Range(b.order) \union {i}
      BY <2>0, RangeOfAppend
    <2> QED BY <1>1, <2>1
  <1>6. i \in b.visited /\ i \notin Range(b.order)
    BY <1>3, <1>4 DEF Entered
  <1>7. Entered(t) = Entered(s)
    BY <1>1, <1>3, <1>4, <1>5, <1>6 DEF Entered
  <1>8. Consistent(t)
    <2>1. Range(t.order) \subseteq t.visited
      BY <1>1, <1>4, <1>5, <1>6 DEF Consistent
    <2>2. /\ Len(b.order) \in Nat /\ Len(t.order) = Len(b.order) + 1
          /\ \A p \in 1..Len(b.order) : t.order[p] = b.order[p]
          /\ t.order[Len(b.order) + 1] = i
      BY <1>1, <1>2
    <2>3. \A p \in 1..Len(b.order) : b.order[p] \in Range(b.order)
      BY <1>2 DEF Range
    <2>4. \A p \in 1..Len(t.order) : p \in 1..Len(b.order) \/ p = Len(b.order) + 1
      BY <2>2
    <2> QED BY <1>4, <1>6, <2>1, <2>2, <2>3, <2>4 DEF Consistent
  <1>9. Range(t.left) \subseteq Range(s.left)
    BY <1>1, <1>2, RangeOfTail
  <1>10. Below(deps, after, t)
    BY <1>7, <1>9 DEF Below
  <1> QED BY <1>7, <1>8, <1>10 DEF i, t

LEMMA EnterCovers ==
  ASSUME NEW deps \in Seq(Seq(Nat)), NEW after, Chain(deps, after),
         NEW s \in Searches(Len(deps)), Enters(deps, s), Consistent(s), Below(deps, after, s),
         NEW b \in Searches(Len(deps)), Covers(deps, after[Len(deps)], Into(deps, s), b),
         NEW t \in Searches(Len(deps)), Covers(deps, after[Len(deps)], Back(s, b), t)
  PROVE  Covers(deps, after[Len(deps)], s, t)
  <1> DEFINE i == Head(s.left)
             able == after[Len(deps)]
             u == Into(deps, s)
             v == Back(s, b)
  <1>1. /\ i \in 1..Len(deps) /\ s.left # <<>>
        /\ u.left = deps[i] /\ u.order = s.order /\ u.visited = s.visited \union {i}
        /\ v.left = Tail(s.left) /\ v.order = Append(b.order, i) /\ v.visited = b.visited
    BY DEF Enters, Back, Into
  <1>2. /\ b.order \in Seq(1..Len(deps)) /\ s.left \in Seq(Nat) /\ t.order \in Seq(1..Len(deps))
        /\ s.order \in Seq(1..Len(deps))
    BY DEF Searches
  <1>3. Entered(u) = Entered(s) \union {i} /\ Below(deps, after, u) /\ Entered(v) = Entered(s)
    BY IntoIsBelow, BackIsBelow
  <1>4. Covers(deps, able, u, b) /\ Covers(deps, able, v, t)
    OBVIOUS
  <1>5. /\ Len(s.order) \in Nat /\ Len(b.order) \in Nat /\ Len(t.order) \in Nat
        /\ Len(v.order) = Len(b.order) + 1
        /\ \A p \in 1..Len(b.order) : v.order[p] = b.order[p]
        /\ v.order[Len(b.order) + 1] = i
    BY <1>1, <1>2
  <1>6. Range(s.left) = {i} \union Range(v.left)
    BY <1>1, <1>2, RangeOfTail
  <1>8. ASSUME i \in able, NEW d \in Range(deps[i])
        PROVE  \E q \in 1..Len(b.order) : b.order[q] = d
    <2>1. d \in able /\ d \in 1..Len(deps)
      <3>1. PICK p \in DOMAIN deps[i] : d = deps[i][p]
        BY DEF Range
      <3>2. /\ Len(deps) \in 1..Len(deps) /\ Len(deps) - 1 \in 0..Len(deps)
            /\ Len(deps) \in 0..Len(deps)
        BY <1>1, LenProperties
      <3>3. able = Ready(deps, after[Len(deps) - 1])
        BY <3>2 DEF Chain
      <3>4. after[Len(deps) - 1] \subseteq Ready(deps, after[Len(deps) - 1])
        BY <3>2, ChainGrows
      <3>5. d \in after[Len(deps) - 1]
        BY <1>8, <3>1, <3>3 DEF Ready
      <3>6. able \subseteq 1..Len(deps)
        BY <3>2, ChainGrows
      <3> QED BY <3>3, <3>4, <3>5, <3>6
    <2> HIDE DEF i, able, u, v
    <2>2. d \notin Entered(u)
      <3>1. d \in Range(u.left)
        BY <1>1
      <3> QED BY <1>3, <2>1, <3>1, EnteredIsNotBelow DEF able
    <2>3. d \in b.visited /\ Entered(b) = Entered(u)
      BY <1>1, <1>4, <2>1 DEF Covers
    <2>4. d \in Range(b.order)
      BY <2>2, <2>3 DEF Entered
    <2> QED BY <1>2, <2>4 DEF Range
  <1> HIDE DEF i, able, u, v
  <1>9. Consistent(t) /\ s.visited \subseteq t.visited /\ Entered(t) = Entered(s)
    BY <1>1, <1>3, <1>4 DEF Covers
  <1>10. Range(s.left) \intersect (1..Len(deps)) \subseteq t.visited
    BY <1>1, <1>4, <1>6 DEF Covers
  <1>11. /\ Len(s.order) <= Len(b.order) /\ Len(b.order) + 1 <= Len(t.order)
         /\ \A p \in 1..Len(s.order) : b.order[p] = s.order[p]
         /\ \A p \in 1..(Len(b.order) + 1) : t.order[p] = v.order[p]
    BY <1>1, <1>4, <1>5 DEF Covers
  <1>12. \A p \in 1..Len(b.order) : t.order[p] = b.order[p]
    <2> SUFFICES ASSUME NEW p \in 1..Len(b.order) PROVE t.order[p] = b.order[p]
      OBVIOUS
    <2>1. p \in 1..(Len(b.order) + 1)
      BY <1>5
    <2>2. t.order[p] = v.order[p] /\ v.order[p] = b.order[p]
      BY <1>5, <1>11, <2>1
    <2> QED BY <2>2
  <1>13. \A p \in 1..Len(s.order) : t.order[p] = s.order[p]
    <2>1. \A p \in 1..Len(s.order) : p \in 1..Len(b.order)
      BY <1>5, <1>11
    <2> QED BY <1>11, <1>12, <2>1
  <1>14. t.order[Len(b.order) + 1] = i
    <2>1. Len(b.order) + 1 \in 1..(Len(b.order) + 1)
      BY <1>5
    <2> QED BY <1>5, <1>11, <2>1
  <1>15. ASSUME NEW p \in (Len(s.order) + 1)..Len(t.order), t.order[p] \in able
         PROVE  After(deps, t.order, p)
    <2>1. CASE p <= Len(b.order)
      <3>1. p \in (Len(s.order) + 1)..Len(b.order) /\ p \in 1..Len(b.order)
        BY <1>5, <2>1
      <3>2. b.order[p] = t.order[p]
        BY <1>12, <3>1
      <3>3. After(deps, b.order, p)
        BY <1>1, <1>4, <1>15, <3>1, <3>2 DEF Covers
      <3>4. \A q \in 1..(p - 1) : t.order[q] = b.order[q]
        BY <1>5, <1>12, <3>1
      <3> QED BY <3>2, <3>3, <3>4 DEF After
    <2>2. CASE p = Len(b.order) + 1
      <3>1. t.order[p] = i /\ i \in able
        BY <1>14, <1>15, <2>2
      <3>2. 1..(p - 1) = 1..Len(b.order)
        BY <1>5, <2>2
      <3> QED BY <1>8, <1>12, <3>1, <3>2 DEF After
    <2>3. CASE p > Len(b.order) + 1
      <3>1. p \in (Len(v.order) + 1)..Len(t.order)
        BY <1>5, <2>3
      <3> QED BY <1>4, <1>15, <3>1 DEF Covers
    <2>4. p <= Len(b.order) \/ p = Len(b.order) + 1 \/ p > Len(b.order) + 1
      BY <1>5
    <2> QED BY <2>1, <2>2, <2>3, <2>4
  <1>16. Len(s.order) <= Len(t.order)
    BY <1>5, <1>11
  <1>17. Covers(deps, able, s, t)
    BY <1>9, <1>10, <1>13, <1>15, <1>16 DEF Covers
  <1> QED BY <1>17 DEF able

(* The whole search of resolve_execution_order: every step once, and every  *)
(* step that can run after all it depends on, whatever else the plan says.  *)
Orders(deps, order) ==
  /\ order \in Seq(1..Len(deps))
  /\ \A p, q \in 1..Len(order) : order[p] = order[q] => p = q
  /\ Range(order) = 1..Len(deps)
  /\ \A p \in 1..Len(order) : order[p] \in Runnable(deps) => After(deps, order, p)

LEMMA SearchCovers ==
  ASSUME NEW deps \in Seq(Seq(Nat)), NEW after, Chain(deps, after), NEW visit,
         \A s \in Searches(Len(deps)) : visit[s] = Visit(deps, visit, s),
         NEW s \in Searches(Len(deps)), Consistent(s), Below(deps, after, s)
  PROVE  visit[s] \in Searches(Len(deps)) /\ Covers(deps, after[Len(deps)], s, visit[s])
  <1> DEFINE All == Searches(Len(deps))
             able == after[Len(deps)]
             Good(x) == Consistent(x) /\ Below(deps, after, x)
             Done(x) == visit[x] \in All /\ Covers(deps, able, x, visit[x])
  <1>1. PICK rank \in [All -> Nat] : Shrinks(deps, rank)
    BY SearchShrinks
  <1> DEFINE P == {w \in Nat : \A x \in All : rank[x] < w /\ Good(x) => Done(x)}
  <1>2. \A x \in All : rank[x] \in Nat
    BY <1>1
  <1>3. 0 \in P
    BY <1>2
  <1>4. ASSUME NEW w \in Nat, w \in P PROVE w + 1 \in P
    <2> SUFFICES ASSUME NEW x \in All, rank[x] < w + 1, Good(x) PROVE Done(x)
      OBVIOUS
    <2>0. \A y \in All : rank[y] < rank[x] /\ Good(y) => Done(y)
      BY <1>2, <1>4
    <2>1. /\ x.left \in Seq(Nat) /\ x.order \in Seq(1..Len(deps)) /\ x.visited \in SUBSET (1..Len(deps))
          /\ Len(x.order) \in Nat
      BY DEF Searches
    <2>2. CASE x.left = <<>>
      <3>1. visit[x] = x
        BY <2>2 DEF Visit
      <3>2. Range(x.left) = {}
        BY <2>2 DEF Range
      <3>3. Covers(deps, able, x, x)
        BY <2>1, <3>2 DEF Covers
      <3> QED BY <3>1, <3>3
    <2>3. CASE x.left # <<>> /\ ~Enters(deps, x)
      <3> DEFINE y == Past(x)
      <3>1. visit[x] = visit[y]
        BY <2>3 DEF Visit
      <3>2. /\ y \in All /\ rank[y] < rank[x]
            /\ y.left = Tail(x.left) /\ y.order = x.order /\ y.visited = x.visited
        BY <1>1, <2>3, SearchesClosed DEF Shrinks
      <3>3. Range(x.left) = {Head(x.left)} \union Range(Tail(x.left))
        BY <2>1, <2>3, RangeOfTail
      <3> HIDE DEF y
      <3>4. Good(y)
        BY <3>2, <3>3 DEF Consistent, Below, Entered
      <3>5. Done(y)
        BY <2>0, <3>2, <3>4
      <3>6. Head(x.left) \in 1..Len(deps) => Head(x.left) \in x.visited
        BY <2>3 DEF Enters
      <3>7. Entered(y) = Entered(x)
        BY <3>2 DEF Entered
      <3>8. Covers(deps, able, x, visit[y])
        BY <3>2, <3>3, <3>5, <3>6, <3>7 DEF Covers
      <3> QED BY <3>1, <3>5, <3>8
    <2>4. CASE x.left # <<>> /\ Enters(deps, x)
      <3> DEFINE y == Into(deps, x)
                 z == Back(x, visit[y])
      <3>1. visit[x] = visit[z]
        BY <2>4 DEF Visit
      <3>2. /\ y \in All /\ rank[y] < rank[x] /\ x.visited \subseteq y.visited
            /\ \A b \in All : /\ Back(x, b) \in All
                              /\ x.visited \subseteq b.visited => rank[Back(x, b)] < rank[x]
        <4>1. x.visited \subseteq y.visited
          BY DEF Into
        <4> QED BY <1>1, <2>4, <4>1, SearchesClosed DEF Shrinks
      <3>3. Good(y)
        BY <2>4, IntoIsBelow
      <3>4. Done(y)
        <4> HIDE DEF y
        <4> QED BY <2>0, <3>2, <3>3
      <3>5. x.visited \subseteq visit[y].visited
        BY <3>2, <3>4 DEF Covers
      <3>6. z \in All /\ rank[z] < rank[x]
        BY <3>2, <3>4, <3>5
      <3>7. Good(z)
        BY <2>4, <3>4, BackIsBelow
      <3>8. Done(z)
        <4> HIDE DEF z
        <4> QED BY <2>0, <3>6, <3>7
      <3>9. Covers(deps, able, x, visit[z])
        BY <2>4, <3>4, <3>8, EnterCovers
      <3> HIDE DEF z
      <3> QED BY <3>1, <3>8, <3>9
    <2> QED BY <2>2, <2>3, <2>4
  <1>5. Nat \subseteq P
    <2> HIDE DEF P
    <2> QED BY <1>3, <1>4, NaturalsInSet
  <1>6. rank[s] + 1 \in P
    BY <1>2, <1>5
  <1>7. rank[s] < rank[s] + 1
    BY <1>2
  <1> HIDE DEF Done
  <1>8. Done(s)
    BY <1>6, <1>7
  <1> QED BY <1>8 DEF Done

LEMMA ExecutionOrderOrders ==
  ASSUME NEW deps \in Seq(Seq(Nat))
  PROVE  Orders(deps, ExecutionOrder(deps))
  <1> DEFINE n == Len(deps)
             All == [left : Seq(Nat), order : Seq(1..n), visited : SUBSET (1..n)]
             Body(f, s) ==
               IF s.left = <<>> THEN s
               ELSE IF Head(s.left) \notin (1..n) \ s.visited THEN f[[s EXCEPT !.left = Tail(@)]]
               ELSE f[[left |-> Tail(s.left),
                       order |-> Append(f[[left |-> deps[Head(s.left)], order |-> s.order,
                                           visited |-> s.visited \union {Head(s.left)}]].order,
                                        Head(s.left)),
                       visited |-> f[[left |-> deps[Head(s.left)], order |-> s.order,
                                      visited |-> s.visited \union {Head(s.left)}]].visited]]
             Solves(f) == f = [s \in All |-> Body(f, s)]
             visit == CHOOSE f : Solves(f)
             start == [left |-> [i \in 1..n |-> i], order |-> <<>>, visited |-> {}]
  <1>0. n \in Nat /\ All = Searches(n)
    BY LenProperties DEF Searches
  <1>1. ExecutionOrder(deps) = visit[start].order
    BY DEF ExecutionOrder
  <1>2. \A f, s : Body(f, s) = Visit(deps, f, s)
    BY DEF Visit, Enters, Past, Into, Back
  <1> HIDE DEF Body
  <1>3. \E f : Solves(f)
    <2>1. PICK f : f = [s \in Searches(n) |-> Visit(deps, f, s)]
      BY VisitExists
    <2>2. [s \in Searches(n) |-> Visit(deps, f, s)] = [s \in All |-> Body(f, s)]
      BY <1>0, <1>2
    <2> QED BY <2>1, <2>2
  <1>4. Solves(visit)
    <2> HIDE DEF Solves
    <2> QED BY <1>3
  <1> HIDE DEF visit
  <1>5. \A s \in Searches(n) : visit[s] = Visit(deps, visit, s)
    <2> HIDE DEF All
    <2> QED BY <1>0, <1>2, <1>4
  <1>6. start \in Searches(n) /\ start.order = <<>> /\ start.visited = {}
        /\ start.left = [i \in 1..n |-> i]
    BY <1>0 DEF Searches
  <1>7. Range(start.left) = 1..n /\ Range(start.order) = {} /\ Len(start.order) = 0
    BY <1>6 DEF Range
  <1> HIDE DEF start
  <1>8. Consistent(start) /\ Entered(start) = {}
    BY <1>6, <1>7 DEF Consistent, Entered
  <1>9. PICK after : Chain(deps, after) /\ Runnable(deps) = after[n]
    BY RunnableIsChainEnd
  <1>10. Below(deps, after, start)
    BY <1>8 DEF Below
  <1> DEFINE end == visit[start]
             order == end.order
  <1>11. end \in Searches(n) /\ Covers(deps, Runnable(deps), start, end)
    <2> HIDE DEF Solves, All
    <2> QED BY <1>5, <1>6, <1>8, <1>9, <1>10, SearchCovers
  <1> HIDE DEF end
  <1>12. order \in Seq(1..n) /\ end.visited \in SUBSET (1..n)
    BY <1>11 DEF Searches
  <1>13. /\ Consistent(end) /\ 1..n \subseteq end.visited /\ Entered(end) = {}
         /\ \A p \in 1..Len(order) : order[p] \in Runnable(deps) => After(deps, order, p)
    <2>1. 0 + 1 = 1
      OBVIOUS
    <2> QED BY <1>7, <1>8, <1>11, <2>1 DEF Covers
  <1>14. Range(order) = 1..n
    BY <1>12, <1>13 DEF Consistent, Entered
  <1>15. Orders(deps, order)
    BY <1>12, <1>13, <1>14 DEF Orders, Consistent
  <1> QED BY <1>1, <1>15 DEF end

-----------------------------------------------------------------------------
(* What is left of an execution order, and what went before it.             *)
Rest(order, rest) ==
  /\ rest \in Seq(Nat) /\ Len(rest) <= Len(order)
  /\ \A p \in 1..Len(rest) : rest[p] = order[Len(order) - Len(rest) + p]

Before(order, rest) == {order[p] : p \in 1..(Len(order) - Len(rest))}

LEMMA WholeOrder ==
  ASSUME NEW deps \in Seq(Seq(Nat)), NEW order, Orders(deps, order)
  PROVE  Rest(order, order) /\ Before(order, order) = {}
  <1>1. order \in Seq(1..Len(deps)) /\ Len(order) \in Nat
    BY DEF Orders
  <1>2. order \in Seq(Nat)
    BY <1>1
  <1>3. Len(order) - Len(order) = 0 /\ \A p \in 1..Len(order) : Len(order) - Len(order) + p = p
    BY <1>1
  <1> QED BY <1>1, <1>2, <1>3 DEF Rest, Before

LEMMA NextInOrder ==
  ASSUME NEW deps \in Seq(Seq(Nat)), NEW order, Orders(deps, order),
         NEW rest, Rest(order, rest), rest # <<>>
  PROVE  /\ Head(rest) \in 1..Len(deps)
         /\ Head(rest) \notin Before(order, rest)
         /\ Before(order, Tail(rest)) = Before(order, rest) \union {Head(rest)}
         /\ Rest(order, Tail(rest))
         /\ Head(rest) \in Runnable(deps) => Range(deps[Head(rest)]) \subseteq Before(order, rest)
  <1> DEFINE N == Len(order)
             k == Len(rest)
             tail == Tail(rest)
             m == Len(tail)
  <1>1. /\ order \in Seq(1..Len(deps)) /\ N \in Nat /\ k \in Nat /\ k <= N /\ rest \in Seq(Nat)
        /\ \A p \in 1..N : order[p] \in 1..Len(deps)
    <2>1. order \in Seq(1..Len(deps))
      BY DEF Orders
    <2>2. rest \in Seq(Nat) /\ k <= N
      BY DEF Rest
    <2>3. N \in Nat /\ k \in Nat
      BY <2>1, <2>2, LenProperties
    <2>4. \A p \in 1..N : order[p] \in 1..Len(deps)
      BY <2>1, ElementOfSeq
    <2> QED BY <2>1, <2>2, <2>3, <2>4
  <1>2. /\ k >= 1 /\ m = k - 1 /\ tail \in Seq(Nat) /\ Head(rest) = rest[1]
        /\ \A p \in 1..m : tail[p] = rest[p + 1]
    <2>1. k # 0
      BY <1>1, EmptySeq
    <2>2. k >= 1
      BY <1>1, <2>1
    <2>3. /\ tail \in Seq(Nat) /\ m = k - 1 /\ Head(rest) = rest[1]
          /\ \A p \in 1..m : tail[p] = rest[p + 1]
      BY <1>1, HeadTailProperties
    <2> QED BY <2>2, <2>3
  <1>3. \A p \in 1..k : rest[p] = order[N - k + p]
    BY DEF Rest
  <1>4. \A p, q \in 1..N : order[p] = order[q] => p = q
    BY DEF Orders
  <1>5. Before(order, rest) = {order[p] : p \in 1..(N - k)}
        /\ Before(order, tail) = {order[p] : p \in 1..(N - m)}
    BY DEF Before
  <1>6. \A p \in 1..N : order[p] \in Runnable(deps) => After(deps, order, p)
    BY DEF Orders
  <1>7. Rest(order, tail) <=> /\ tail \in Seq(Nat) /\ m <= N
                              /\ \A p \in 1..m : tail[p] = order[N - m + p]
    BY DEF Rest
  <1> HIDE DEF N, k, tail, m
  <1>8. N - k + 1 \in 1..N /\ N - m = N - k + 1 /\ Head(rest) = order[N - k + 1]
    BY <1>1, <1>2, <1>3
  <1>9. Head(rest) \notin Before(order, rest)
    <2>1. \A p \in 1..(N - k) : p \in 1..N /\ p # N - k + 1
      BY <1>1, <1>2
    <2> QED BY <1>4, <1>5, <1>8, <2>1
  <1>10. Before(order, tail) = Before(order, rest) \union {Head(rest)}
    <2>1. 1..(N - m) = 1..(N - k) \union {N - k + 1}
      BY <1>1, <1>2
    <2> QED BY <1>5, <1>8, <2>1
  <1>11. Rest(order, tail)
    <2>1. ASSUME NEW p \in 1..m PROVE tail[p] = order[N - m + p]
      <3>1. p + 1 \in 1..k /\ N - k + (p + 1) = N - m + p
        BY <1>1, <1>2
      <3> QED BY <1>2, <1>3, <3>1
    <2>2. m <= N
      BY <1>1, <1>2
    <2> QED BY <1>2, <1>7, <2>1, <2>2
  <1>12. ASSUME Head(rest) \in Runnable(deps), NEW d \in Range(deps[Head(rest)])
         PROVE  d \in Before(order, rest)
    <2>1. PICK q \in 1..((N - k + 1) - 1) : order[q] = d
      BY <1>6, <1>8, <1>12 DEF After
    <2>2. (N - k + 1) - 1 = N - k
      BY <1>1
    <2> QED BY <1>5, <2>1, <2>2
  <1> QED BY <1>1, <1>8, <1>9, <1>10, <1>11, <1>12 DEF tail

-----------------------------------------------------------------------------
(* The dependency lists of the steps of this run, in the run's order.       *)
Deps == [p \in DOMAIN data |-> plan[data[p]]]
Order == ExecutionOrder(Deps)
PassedBy == Before(Order, todo)

PlanTypeOK ==
  /\ plan \in Seq(Seq(Nat))
  /\ DOMAIN stepStatus = Steps
  /\ doing # "idle" => data \in Seq(Steps)

(* What a run keeps to: it goes through the execution order, completes only *)
(* what can run, all of it as long as the tool orchestrator answers, and    *)
(* gives no step out before its turn.                                       *)
RunInv ==
  doing # "idle" =>
    /\ Rest(Order, todo)
    /\ done \subseteq PassedBy \intersect Runnable(Deps)
    /\ ~gone => PassedBy \intersect Runnable(Deps) \subseteq done
    /\ doing = "next" => dispatched \subseteq PassedBy
    /\ doing = "tool" => /\ todo # <<>> /\ Current \in Runnable(Deps)
                         /\ dispatched \subseteq PassedBy \union {Current}

(* As long as the graph misses nothing a run has all steps of the plan, and *)
(* what it completed is marked so.                                          *)
CountInv ==
  doing # "idle" /\ ~lossy =>
    /\ Len(data) = Len(plan) /\ total = Len(plan)
    /\ \A i \in done : stepStatus[i] = "completed"

PlanInv == PlanTypeOK /\ RunInv /\ CountInv

LEMMA DepsTyped ==
  ASSUME NEW p \in Seq(Seq(Nat)), NEW d \in Seq(1..Len(p))
  PROVE  /\ [i \in DOMAIN d |-> p[d[i]]] \in Seq(Seq(Nat))
         /\ Len([i \in DOMAIN d |-> p[d[i]]]) = Len(d)
  <1> DEFINE n == Len(d)
             deps == [i \in DOMAIN d |-> p[d[i]]]
  <1>1. n \in Nat /\ DOMAIN d = 1..n
    OBVIOUS
  <1>2. \A i \in 1..n : p[d[i]] \in Seq(Nat)
    <2>1. \A i \in 1..n : d[i] \in 1..Len(p)
      OBVIOUS
    <2> QED BY <2>1, ElementOfSeq
  <1>3. deps \in [1..n -> Seq(Nat)]
    BY <1>1, <1>2
  <1> HIDE DEF n, deps
  <1>4. deps \in Seq(Seq(Nat)) /\ Len(deps) = n
    BY <1>1, <1>3
  <1> QED BY <1>4 DEF n, deps

LEMMA PlanStepsCounted ==
  ASSUME PlanTypeOK
  PROVE  Cardinality(Steps) = Len(plan) /\ IsFiniteSet(Steps)
  <1> DEFINE n == Len(plan)
  <1>1. Steps = 1..n
    BY DEF Steps
  <1> HIDE DEF n
  <1>2. n \in Nat /\ 1 \in Int /\ n \in Int
    BY LenProperties DEF PlanTypeOK, n
  <1>3. IsFiniteSet(1..n) /\ Cardinality(1..n) = IF 1 > n THEN 0 ELSE n - 1 + 1
    BY <1>2, FS_Interval
  <1>4. Cardinality(1..n) = n
    BY <1>2, <1>3
  <1> QED BY <1>1, <1>3, <1>4 DEF n

(* The run that begins with the given steps.                                *)
LEMMA StepDataTyped ==
  ASSUME PlanTypeOK, NEW d \in StepData
  PROVE  d \in Seq(Steps) /\ (~lossy => Len(d) = Len(plan))
  <1>1. Len(plan) \in Nat
    BY LenProperties DEF PlanTypeOK
  <1>2. CASE cached
    <2>1. d = [i \in 1..Len(plan) |-> i]
      BY <1>2 DEF StepData, Steps
    <2> QED BY <1>1, <2>1 DEF Steps
  <1>3. CASE ~cached
    <2>1. PICK found \in Found : d \in Listed(Cardinality(found))
      BY <1>3 DEF StepData
    <2>2. Cardinality(Steps) = Len(plan) /\ IsFiniteSet(Steps)
      BY PlanStepsCounted
    <2>3. found \subseteq Steps /\ (~lossy => found = Steps)
      BY DEF Found
    <2>4. Cardinality(found) \in Nat
      BY <2>2, <2>3, FS_Subset, FS_CardinalityType
    <2>5. d \in [1..Cardinality(found) -> Steps]
      BY <2>1 DEF Listed
    <2>6. d \in Seq(Steps) /\ Len(d) = Cardinality(found)
      BY <2>4, <2>5
    <2> QED BY <2>2, <2>3, <2>6
  <1> QED BY <1>2, <1>3

(* What a write to a step's node leaves, and what a query's count says.      *)
LEMMA StepStatusSet ==
  ASSUME PlanTypeOK, NEW order, NEW status, SetStepStatus(order, status)
  PROVE  /\ DOMAIN stepStatus' = Steps
         /\ \A i \in Steps : i # order => stepStatus'[i] = stepStatus[i]
         /\ order \in Steps /\ ~lossy => stepStatus'[order] = status
  <1>1. DOMAIN stepStatus = Steps
    BY DEF PlanTypeOK
  <1>2. CASE order \in Steps
    <2>1. stepStatus' \in {[stepStatus EXCEPT ![order] = status]} \union (IF lossy THEN {stepStatus} ELSE {})
      BY <1>2 DEF SetStepStatus
    <2>2. CASE stepStatus' = [stepStatus EXCEPT ![order] = status]
      BY <1>1, <1>2, <2>2
    <2>3. CASE lossy /\ stepStatus' = stepStatus
      BY <1>1, <2>3
    <2> QED BY <2>1, <2>2, <2>3
  <1>3. CASE order \notin Steps
    <2>1. stepStatus' = stepStatus
      BY <1>3 DEF SetStepStatus
    <2> QED BY <1>1, <1>3, <2>1
  <1> QED BY <1>2, <1>3

LEMMA BeginRunKeeps ==
  ASSUME PlanTypeOK, BeginRun, DOMAIN stepStatus' = Steps
  PROVE  PlanInv'
  <1>1. /\ plan' = plan /\ lossy' = lossy /\ doing' = "next" /\ data' \in StepData
        /\ \E found \in IF cached THEN {Steps} ELSE Found : total' = Cardinality(found)
        /\ todo' = ExecutionOrder(Deps') /\ done' = {} /\ dispatched' = {}
    BY DEF BeginRun, planVars, Deps
  <1>2. Steps' = Steps /\ plan \in Seq(Seq(Nat))
    BY <1>1 DEF Steps, PlanTypeOK
  <1>3. data' \in Seq(Steps) /\ (~lossy => Len(data') = Len(plan))
    BY <1>1, StepDataTyped
  <1>4. Deps' \in Seq(Seq(Nat))
    <2>1. \A p \in Seq(Seq(Nat)) : \A d \in Seq(1..Len(p)) : [i \in DOMAIN d |-> p[d[i]]] \in Seq(Seq(Nat))
      BY DepsTyped
    <2> QED BY <1>1, <1>2, <1>3, <2>1 DEF Deps, Steps
  <1>5. Orders(Deps', todo')
    <2>1. \A deps \in Seq(Seq(Nat)) : Orders(deps, ExecutionOrder(deps))
      BY ExecutionOrderOrders
    <2> QED BY <1>1, <1>4, <2>1
  <1>6. Order' = todo'
    BY <1>1 DEF Order
  <1>7. Rest(todo', todo') /\ Before(todo', todo') = {}
    BY <1>4, <1>5, WholeOrder
  <1>8. RunInv'
    <2>1. Rest(Order', todo') /\ PassedBy' = {}
      BY <1>6, <1>7 DEF PassedBy
    <2> QED BY <1>1, <2>1 DEF RunInv
  <1>9. CountInv'
    <2>1. ~lossy => total' = Len(plan)
      BY <1>1, PlanStepsCounted DEF Found
    <2> QED BY <1>1, <1>3, <2>1 DEF CountInv
  <1>10. PlanTypeOK'
    BY <1>1, <1>2, <1>3 DEF PlanTypeOK
  <1> QED BY <1>8, <1>9, <1>10 DEF PlanInv

(* The run is at its next step or at a tool: what it has gone through, and  *)
(* what can be said of the step at hand.                                    *)
LEMMA AtStep ==
  ASSUME PlanTypeOK, RunInv, doing # "idle", todo # <<>>
  PROVE  /\ Current \in 1..Len(data) /\ Current \notin PassedBy
         /\ Before(Order, Tail(todo)) = PassedBy \union {Current}
         /\ Rest(Order, Tail(todo))
         /\ Current \in Runnable(Deps) => Range(plan[data[Current]]) \subseteq PassedBy
         /\ Runnable(Deps) = Ready(Deps, Runnable(Deps))
         /\ Deps[Current] = plan[data[Current]]
  <1>1. plan \in Seq(Seq(Nat)) /\ data \in Seq(1..Len(plan)) /\ DOMAIN data = 1..Len(data)
    BY DEF PlanTypeOK, Steps
  <1>2. Deps \in Seq(Seq(Nat)) /\ Len(Deps) = Len(data)
    BY <1>1, DepsTyped DEF Deps
  <1>3. Orders(Deps, Order)
    BY <1>2, ExecutionOrderOrders DEF Order
  <1>4. Rest(Order, todo)
    BY DEF RunInv
  <1>5. /\ Head(todo) \in 1..Len(Deps)
        /\ Head(todo) \notin Before(Order, todo)
        /\ Before(Order, Tail(todo)) = Before(Order, todo) \union {Head(todo)}
        /\ Rest(Order, Tail(todo))
        /\ Head(todo) \in Runnable(Deps) => Range(Deps[Head(todo)]) \subseteq Before(Order, todo)
    BY <1>2, <1>3, <1>4, NextInOrder
  <1>6. Runnable(Deps) = Ready(Deps, Runnable(Deps))
    BY <1>2, RunnableIsReady
  <1>7. Deps[Current] = plan[data[Current]]
    BY <1>1, <1>2, <1>5 DEF Deps, Current
  <1> QED BY <1>2, <1>5, <1>6, <1>7 DEF Current, PassedBy

(* A step can run exactly when all it waits for can.                        *)
LEMMA RunnableIfMet ==
  ASSUME PlanTypeOK, RunInv, doing # "idle", todo # <<>>
  PROVE  /\ DepsMet => Current \in Runnable(Deps)
         /\ ~DepsMet => gone \/ Current \notin Runnable(Deps)
  <1> DEFINE R == Runnable(Deps)
             list == plan[data[Current]]
  <1>1. /\ Current \in 1..Len(data)
        /\ Current \in R => Range(list) \subseteq PassedBy
        /\ R = Ready(Deps, R) /\ Deps[Current] = list
    BY AtStep
  <1>2. Len(Deps) = Len(data)
    BY DepsTyped DEF PlanTypeOK, Steps, Deps
  <1>3. done \subseteq PassedBy \intersect R /\ (~gone => PassedBy \intersect R \subseteq done)
    BY DEF RunInv
  <1>4. DepsMet <=> \A p \in DOMAIN list : list[p] \in done
    BY DEF DepsMet
  <1> HIDE DEF R, list
  <1>5. Current \in R <=> \A p \in DOMAIN list : list[p] \in R
    BY <1>1, <1>2 DEF Ready
  <1>6. Range(list) = {list[p] : p \in DOMAIN list}
    BY DEF Range
  <1>7. ASSUME ~DepsMet, ~gone, Current \in R PROVE FALSE
    <2>1. PICK p \in DOMAIN list : list[p] \notin done
      BY <1>4, <1>7
    <2>2. list[p] \in R /\ list[p] \in PassedBy
      BY <1>1, <1>5, <1>6, <1>7
    <2> QED BY <1>3, <1>7, <2>1, <2>2
  <1> QED BY <1>3, <1>4, <1>5, <1>7 DEF R

(* What a run completed are steps of the plan, as long as the graph misses  *)
(* nothing.                                                                 *)
LEMMA DoneAreSteps ==
  ASSUME PlanInv, doing # "idle", ~lossy
  PROVE  done \subseteq Steps
  <1>1. Len(data) = Len(plan) /\ data \in Seq(1..Len(plan))
    BY DEF PlanInv, CountInv, PlanTypeOK, Steps
  <1>2. Len(Deps) = Len(data)
    BY <1>1, DepsTyped DEF PlanInv, PlanTypeOK, Deps
  <1>3. Runnable(Deps) \subseteq 1..Len(Deps)
    <2>1. Deps \in Seq(Seq(Nat))
      BY <1>1, DepsTyped DEF PlanInv, PlanTypeOK, Deps
    <2> QED BY <2>1, RunnableIsReady DEF Ready
  <1> QED BY <1>1, <1>2, <1>3 DEF PlanInv, RunInv, Steps

LEMMA PassOverKeeps ==
  ASSUME PlanInv, PassOver
  PROVE  PlanInv'
  <1> USE DEF PlanInv
  <1>1. /\ doing = "next" /\ todo # <<>> /\ ~DepsMet /\ todo' = Tail(todo)
        /\ plan' = plan /\ stepStatus' = stepStatus /\ lossy' = lossy /\ gone' = gone
        /\ doing' = doing /\ data' = data /\ total' = total /\ done' = done
        /\ dispatched' = dispatched
    BY DEF PassOver, planVars, statusVars
  <1>2. Steps' = Steps /\ Deps' = Deps /\ Order' = Order
    BY <1>1 DEF Steps, Deps, Order
  <1>3. /\ Current \notin PassedBy /\ PassedBy' = PassedBy \union {Current}
        /\ Rest(Order, todo') /\ (gone \/ Current \notin Runnable(Deps))
    BY <1>1, <1>2, AtStep, RunnableIfMet DEF PassedBy
  <1>4. RunInv'
    BY <1>1, <1>2, <1>3 DEF RunInv
  <1>5. PlanTypeOK' /\ CountInv'
    BY <1>1, <1>2 DEF PlanTypeOK, CountInv
  <1> QED BY <1>4, <1>5

LEMMA DispatchKeeps ==
  ASSUME PlanInv, DispatchStep
  PROVE  PlanInv'
  <1> USE DEF PlanInv
  <1>1. /\ doing = "next" /\ todo # <<>> /\ DepsMet /\ SetStepStatus(Current, "executing")
        /\ plan' = plan /\ lossy' = lossy /\ gone' = gone
        /\ doing' = "tool" /\ data' = data /\ total' = total /\ done' = done /\ todo' = todo
        /\ dispatched' = dispatched \union {Current}
    BY DEF DispatchStep, planVars
  <1>2. Steps' = Steps /\ Deps' = Deps /\ Order' = Order /\ PassedBy' = PassedBy /\ Current' = Current
    BY <1>1 DEF Steps, Deps, Order, PassedBy, Current
  <1>3. Current \notin PassedBy /\ Current \in Runnable(Deps)
    BY <1>1, AtStep, RunnableIfMet
  <1>4. DOMAIN stepStatus' = Steps /\ \A i \in Steps : i # Current => stepStatus'[i] = stepStatus[i]
    BY <1>1, StepStatusSet
  <1>5. RunInv'
    BY <1>1, <1>2, <1>3 DEF RunInv
  <1>6. PlanTypeOK'
    BY <1>1, <1>2, <1>4 DEF PlanTypeOK
  <1>7. CountInv'
    <2>1. done \subseteq Steps \ {Current} \/ lossy
      BY <1>1, <1>3, DoneAreSteps DEF RunInv
    <2> QED BY <1>1, <1>2, <1>4, <2>1 DEF CountInv
  <1> QED BY <1>5, <1>6, <1>7

LEMMA ToolLeavesKeeps ==
  ASSUME PlanInv, NoOrchestrator
  PROVE  PlanInv'
  <1> USE DEF PlanInv
  <1>1. /\ doing = "tool" /\ SetStepStatus(Current, "pending")
        /\ plan' = plan /\ lossy' = lossy /\ gone' = TRUE
        /\ doing' = "next" /\ data' = data /\ total' = total /\ done' = done
        /\ todo' = Tail(todo) /\ dispatched' = dispatched
    BY DEF NoOrchestrator, planVars
  <1>2. Steps' = Steps /\ Deps' = Deps /\ Order' = Order
    BY <1>1 DEF Steps, Deps, Order
  <1>3. todo # <<>> /\ dispatched \subseteq PassedBy \union {Current}
    BY <1>1 DEF RunInv
  <1>4. Current \notin PassedBy /\ PassedBy' = PassedBy \union {Current} /\ Rest(Order, todo')
    BY <1>1, <1>2, <1>3, AtStep DEF PassedBy
  <1>5. DOMAIN stepStatus' = Steps /\ \A i \in Steps : i # Current => stepStatus'[i] = stepStatus[i]
    BY <1>1, StepStatusSet
  <1>6. RunInv'
    BY <1>1, <1>2, <1>3, <1>4 DEF RunInv
  <1>7. PlanTypeOK'
    BY <1>1, <1>2, <1>5 DEF PlanTypeOK
  <1>8. CountInv'
    <2>1. done \subseteq Steps \ {Current} \/ lossy
      BY <1>1, <1>4, DoneAreSteps DEF RunInv
    <2> QED BY <1>1, <1>2, <1>5, <2>1 DEF CountInv
  <1> QED BY <1>6, <1>7, <1>8

LEMMA StepCompletedKeeps ==
  ASSUME PlanInv, StepCompleted
  PROVE  PlanInv'
  <1> USE DEF PlanInv
  <1>1. /\ doing = "tool" /\ ~gone /\ SetStepStatus(Current, "completed")
        /\ plan' = plan /\ lossy' = lossy /\ gone' = gone
        /\ doing' = "next" /\ data' = data /\ total' = total /\ done' = done \union {Current}
        /\ todo' = Tail(todo) /\ dispatched' = dispatched
    BY DEF StepCompleted, planVars
  <1>2. Steps' = Steps /\ Deps' = Deps /\ Order' = Order
    BY <1>1 DEF Steps, Deps, Order
  <1>3. todo # <<>> /\ dispatched \subseteq PassedBy \union {Current} /\ Current \in Runnable(Deps)
    BY <1>1 DEF RunInv
  <1>4. /\ Current \in 1..Len(data) /\ Current \notin PassedBy
        /\ PassedBy' = PassedBy \union {Current} /\ Rest(Order, todo')
    BY <1>1, <1>2, <1>3, AtStep DEF PassedBy
  <1>5. /\ DOMAIN stepStatus' = Steps
        /\ \A i \in Steps : i # Current => stepStatus'[i] = stepStatus[i]
        /\ Current \in Steps /\ ~lossy => stepStatus'[Current] = "completed"
    BY <1>1, StepStatusSet
  <1>6. RunInv'
    BY <1>1, <1>2, <1>3, <1>4 DEF RunInv
  <1>7. PlanTypeOK'
    BY <1>1, <1>2, <1>5 DEF PlanTypeOK
  <1>8. CountInv'
    <2>1. lossy \/ (done \subseteq Steps /\ Current \in Steps)
      BY <1>1, <1>4, DoneAreSteps DEF CountInv, Steps
    <2> QED BY <1>1, <1>2, <1>5, <2>1 DEF CountInv
  <1> QED BY <1>6, <1>7, <1>8

THEOREM PlanInvHolds == PlanSpec => []PlanInv
  <1>1. PlanInit => PlanInv
    <2> SUFFICES ASSUME PlanInit PROVE PlanInv
      OBVIOUS
    <2>1. plan = <<>> /\ doing = "idle" /\ stepStatus = <<>>
      BY DEF PlanInit
    <2>2. plan \in Seq(Seq(Nat)) /\ Len(plan) = 0 /\ DOMAIN stepStatus = 1..0
      BY <2>1
    <2> QED BY <2>1, <2>2 DEF PlanInv, PlanTypeOK, RunInv, CountInv, Steps
  <1>2. PlanInv /\ [PlanNext]_orchestratorVars => PlanInv'
    <2> SUFFICES ASSUME PlanInv, [PlanNext]_orchestratorVars PROVE PlanInv'
      OBVIOUS
    <2>0. PlanTypeOK /\ DOMAIN stepStatus = Steps
      BY DEF PlanInv, PlanTypeOK
    <2>i. ASSUME doing' = "idle", plan' = plan, DOMAIN stepStatus' = Steps PROVE PlanInv'
      <3>1. Steps' = Steps
        BY <2>i DEF Steps
      <3> QED BY <2>0, <2>i, <3>1 DEF PlanInv, PlanTypeOK, RunInv, CountInv
    <2>1. CASE CreatePlan
      <3>1. /\ plan' \in Seq(Seq(Nat)) /\ doing' = "idle"
            /\ DOMAIN stepStatus' = DOMAIN plan'
        BY <2>1, PlanAssumption DEF CreatePlan
      <3>2. DOMAIN plan' = 1..Len(plan')
        BY <3>1, LenProperties
      <3> QED BY <3>1, <3>2 DEF PlanInv, PlanTypeOK, RunInv, CountInv, Steps
    <2>2. CASE GraphTurnsLossy
      <3>1. /\ plan' = plan /\ stepStatus' = stepStatus /\ lossy' = TRUE /\ gone' = gone
            /\ doing' = doing /\ data' = data /\ total' = total /\ todo' = todo /\ done' = done
            /\ dispatched' = dispatched
        BY <2>2 DEF GraphTurnsLossy, planVars, statusVars, runVars
      <3>2. Steps' = Steps /\ Deps' = Deps /\ Order' = Order /\ PassedBy' = PassedBy /\ Current' = Current
        BY <3>1 DEF Steps, Deps, Order, PassedBy, Current
      <3> QED BY <3>1, <3>2 DEF PlanInv, PlanTypeOK, RunInv, CountInv
    <2>3. CASE Approve
      <3>1. BeginRun /\ stepStatus' = stepStatus
        BY <2>3 DEF Approve
      <3> QED BY <2>0, <3>1, BeginRunKeeps
    <2>4. CASE PlanRestart
      BY <2>0, <2>4, <2>i DEF PlanRestart, RunDropped
    <2>5. CASE PassOver
      BY <2>5, PassOverKeeps
    <2>6. CASE DispatchStep
      BY <2>6, DispatchKeeps
    <2>7. CASE NoOrchestrator
      BY <2>7, ToolLeavesKeeps
    <2>8. CASE StepCompleted
      BY <2>8, StepCompletedKeeps
    <2>9. CASE StepFailed
      <3>1. SetStepStatus(Current, "failed") /\ doing' = "idle" /\ plan' = plan
        BY <2>9 DEF StepFailed, RunDropped, planVars
      <3> QED BY <2>0, <2>i, <3>1, StepStatusSet
    <2>10. CASE WidgetFails
      BY <2>0, <2>10, <2>i DEF WidgetFails, RunDropped, planVars, statusVars
    <2>11. CASE RunOver
      BY <2>0, <2>11, <2>i DEF RunOver, RunDropped, planVars
    <2>12. ASSUME NEW status, SetAside(status) PROVE PlanInv'
      <3>1. /\ doing = "idle" /\ doing' = doing /\ plan' = plan /\ stepStatus' = stepStatus
        BY <2>12 DEF SetAside, Command, planVars
      <3> QED BY <2>0, <2>i, <3>1
    <2>13. ASSUME NEW order, RetryStep(order) \/ SkipStep(order) PROVE PlanInv'
      <3>1. BeginRun /\ \E status \in Statuses : SetStepStatus(order, status)
        BY <2>13 DEF RetryStep, SkipStep, Statuses
      <3>2. DOMAIN stepStatus' = Steps
        BY <2>0, <3>1, StepStatusSet
      <3> QED BY <2>0, <3>1, <3>2, BeginRunKeeps
    <2>14. CASE UNCHANGED orchestratorVars
      <3>1. /\ plan' = plan /\ stepStatus' = stepStatus /\ lossy' = lossy /\ gone' = gone
            /\ doing' = doing /\ data' = data /\ total' = total /\ todo' = todo /\ done' = done
            /\ dispatched' = dispatched
        BY <2>14 DEF orchestratorVars, planVars, statusVars, runVars
      <3>2. Steps' = Steps /\ Deps' = Deps /\ Order' = Order /\ PassedBy' = PassedBy /\ Current' = Current
        BY <3>1 DEF Steps, Deps, Order, PassedBy, Current
      <3> QED BY <3>1, <3>2 DEF PlanInv, PlanTypeOK, RunInv, CountInv
    <2> QED BY <2>1, <2>2, <2>3, <2>4, <2>5, <2>6, <2>7, <2>8, <2>9, <2>10, <2>11, <2>12, <2>13,
               <2>14 DEF PlanNext, RunStep
  <1> QED BY <1>1, <1>2, PTL DEF PlanSpec

(* When a run is through the order, everything that could run was done.     *)
LEMMA OrderIsThrough ==
  ASSUME PlanTypeOK, RunInv, doing = "next", todo = <<>>
  PROVE  /\ PassedBy = 1..Len(Deps)
         /\ gone \/ done = Runnable(Deps)
         /\ done \subseteq 1..Len(Deps)
         /\ Len(Deps) = Len(data)
  <1>1. Deps \in Seq(Seq(Nat)) /\ Len(Deps) = Len(data)
    BY DepsTyped DEF PlanTypeOK, Steps, Deps
  <1>2. Orders(Deps, Order)
    BY <1>1, ExecutionOrderOrders DEF Order
  <1>3. Order \in Seq(1..Len(Deps)) /\ Range(Order) = 1..Len(Deps)
    BY <1>2 DEF Orders
  <1>4. PassedBy = Range(Order)
    <2>1. DOMAIN Order = 1..Len(Order) /\ Len(Order) - Len(todo) = Len(Order)
      BY <1>3, EmptySeq, LenProperties
    <2> QED BY <2>1 DEF PassedBy, Before, Range
  <1>5. Runnable(Deps) \subseteq 1..Len(Deps)
    BY <1>1, RunnableIsReady DEF Ready
  <1> QED BY <1>1, <1>3, <1>4, <1>5 DEF RunInv

THEOREM PlanRunsWhatCanRun == PlanSpec => []RunsWhatCanRun
  <1>1. PlanInv => RunsWhatCanRun
    <2> SUFFICES ASSUME PlanInv, doing = "next"
                 PROVE  IF todo = <<>> THEN gone \/ done = Runnable(Deps)
                        ELSE Current \notin dispatched
      BY DEF RunsWhatCanRun, Deps
    <2>1. PlanTypeOK /\ RunInv
      BY DEF PlanInv
    <2>2. CASE todo = <<>>
      BY <2>1, <2>2, OrderIsThrough
    <2>3. CASE todo # <<>>
      BY <2>1, <2>3, AtStep DEF RunInv
    <2> QED BY <2>2, <2>3
  <1> QED BY <1>1, PlanInvHolds, PTL

(* What one request can make of the plan's status.                          *)
LEMMA PlanStatusSet ==
  ASSUME NEW status, SetPlanStatus(status), cached' = cached
  PROVE  Status' \in {Status, status}
  BY DEF SetPlanStatus, Status

THEOREM CompletionIsWhole == PlanSpec => CompletedMeansAllSteps
  <1> DEFINE Completes == Status' = "completed" /\ Status # "completed" /\ cached' = cached /\ ~lossy
             AllDone == \A i \in Steps : stepStatus[i] = "completed"
  <1>1. PlanInv /\ [PlanNext]_orchestratorVars => [Completes => AllDone]_orchestratorVars
    <2> SUFFICES ASSUME PlanInv, PlanNext, Completes PROVE AllDone
      OBVIOUS
    <2>u. ASSUME UNCHANGED <<cached, cacheStatus, planStatus>> PROVE FALSE
      BY <2>u DEF Status
    <2>s. ASSUME NEW status, SetPlanStatus(status), status # "completed" PROVE FALSE
      BY <2>s, PlanStatusSet
    <2>1. CASE CreatePlan
      BY <2>1 DEF CreatePlan, Status
    <2>2. CASE GraphTurnsLossy
      BY <2>2, <2>u DEF GraphTurnsLossy, statusVars
    <2>3. CASE Approve
      BY <2>3, <2>s DEF Approve, BeginRun
    <2>4. CASE PlanRestart
      <3>1. ~cached /\ planStatus' = planStatus
        BY <2>4 DEF PlanRestart
      <3> QED BY <3>1 DEF Status
    <2>5. CASE PassOver
      BY <2>5, <2>u DEF PassOver, statusVars
    <2>6. CASE DispatchStep
      BY <2>6, <2>u DEF DispatchStep
    <2>7. CASE NoOrchestrator
      BY <2>7, <2>u DEF NoOrchestrator
    <2>8. CASE StepCompleted
      BY <2>8, <2>u DEF StepCompleted
    <2>9. CASE StepFailed
      BY <2>9, <2>u DEF StepFailed
    <2>10. CASE WidgetFails
      BY <2>10, <2>u DEF WidgetFails, statusVars
    <2>11. CASE RunOver
      <3>1. doing = "next" /\ todo = <<>> /\ Cardinality(done) = total
        BY <2>11, <2>u DEF RunOver
      <3>2. PlanTypeOK /\ RunInv
        BY DEF PlanInv
      <3>3. total = Len(plan) /\ Len(data) = Len(plan) /\ \A i \in done : stepStatus[i] = "completed"
        BY <3>1 DEF PlanInv, CountInv
      <3>4. done \subseteq Steps
        BY <3>1, DoneAreSteps
      <3>5. Cardinality(Steps) = Len(plan) /\ IsFiniteSet(Steps)
        BY <3>2, PlanStepsCounted
      <3>6. done = Steps
        BY <3>1, <3>3, <3>4, <3>5, FS_Subset
      <3> QED BY <3>3, <3>6
    <2>12. ASSUME NEW status \in {"paused", "rejected"}, SetAside(status) PROVE AllDone
      BY <2>12, <2>s DEF SetAside
    <2>13. ASSUME NEW order, RetryStep(order) \/ SkipStep(order) PROVE AllDone
      BY <2>13, <2>s DEF RetryStep, SkipStep, BeginRun
    <2> HIDE DEF Completes, AllDone
    <2> QED BY <2>1, <2>2, <2>3, <2>4, <2>5, <2>6, <2>7, <2>8, <2>9, <2>10, <2>11, <2>12, <2>13
            DEF PlanNext, RunStep
  <1> QED BY <1>1, PlanInvHolds, PTL DEF PlanSpec, CompletedMeansAllSteps

=============================================================================
