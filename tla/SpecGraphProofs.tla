--------------------------- MODULE SpecGraphProofs ---------------------------
(***************************************************************************)
(* The graph of a spec, for every spec and every layout: what it is made   *)
(* of, that every edge of it joins nodes of it, and that a spec whose      *)
(* names are used once is read back from it as it was, with every method   *)
(* sent to the actor that handles it.  First what this rests on: induction *)
(* and recursive functions over sets, lists and what they hold, and how    *)
(* the places of a list are arranged.                                      *)
(***************************************************************************)
EXTENDS SpecGraph, TLAPS, WellFoundedInduction, SequenceTheorems, FiniteSetTheorems

(* Induction, for a set of naturals.                                        *)
LEMMA NaturalsInSet ==
  ASSUME NEW P, 0 \in P, \A n \in Nat : n \in P => n + 1 \in P
  PROVE  Nat \subseteq P
  <1> DEFINE below == {p \in Nat \X Nat : p[1] < p[2]}
  <1>1. IsWellFoundedOn(below, Nat)
    BY NatLessThanWellFounded DEF OpToRel
  <1>2. \A n \in Nat \ {0} : n - 1 \in Nat /\ <<n - 1, n>> \in below /\ (n - 1) + 1 = n
    OBVIOUS
  <1> HIDE DEF below
  <1> SUFFICES ASSUME Nat \ P # {} PROVE FALSE
    OBVIOUS
  <1>3. PICK n \in Nat \ P : \A m \in Nat \ P : <<m, n>> \notin below
    BY <1>1, WFMin
  <1> QED BY <1>2, <1>3

LEMMA RangeOfAppend ==
  ASSUME NEW S, NEW s \in Seq(S), NEW x \in S
  PROVE  Range(Append(s, x)) = Range(s) \union {x}
  <1> DEFINE t == Append(s, x)
  <1>1. /\ DOMAIN t = DOMAIN s \union {Len(s) + 1} /\ t[Len(s) + 1] = x
        /\ \A i \in DOMAIN s : t[i] = s[i]
    OBVIOUS
  <1> HIDE DEF t
  <1> QED BY <1>1 DEF Range, t

LEMMA RangeOfTail ==
  ASSUME NEW S, NEW l \in Seq(S), l # <<>>
  PROVE  Range(l) = {Head(l)} \union Range(Tail(l))
  <1> DEFINE t == Tail(l)
  <1>1. /\ DOMAIN l = 1..Len(l) /\ DOMAIN t = 1..(Len(l) - 1) /\ Len(l) \in Nat /\ Len(l) >= 1
        /\ \A i \in 1..(Len(l) - 1) : t[i] = l[i + 1]
        /\ Head(l) = l[1]
    BY HeadTailProperties, EmptySeq, LenProperties
  <1> HIDE DEF t
  <1>2. \A i \in 1..Len(l) : i = 1 \/ (i - 1 \in 1..(Len(l) - 1) /\ (i - 1) + 1 = i)
    BY <1>1
  <1>3. \A i \in 1..(Len(l) - 1) : i + 1 \in 1..Len(l)
    BY <1>1
  <1>4. ASSUME NEW x \in Range(l) PROVE x \in {Head(l)} \union Range(t)
    <2>1. PICK i \in 1..Len(l) : x = l[i]
      BY <1>1 DEF Range
    <2>2. CASE i = 1
      BY <1>1, <2>1, <2>2
    <2>3. CASE i - 1 \in 1..(Len(l) - 1) /\ (i - 1) + 1 = i
      <3>1. t[i - 1] = l[i]
        BY <1>1, <2>3
      <3>2. t[i - 1] \in Range(t)
        BY <1>1, <2>3 DEF Range
      <3> QED BY <2>1, <3>1, <3>2
    <2> QED BY <1>2, <2>2, <2>3
  <1>5. ASSUME NEW x \in {Head(l)} \union Range(t) PROVE x \in Range(l)
    BY <1>1, <1>3 DEF Range
  <1> QED BY <1>4, <1>5 DEF t

(* A recursive definition defines something, when every call it makes has a *)
(* smaller argument: body turns a guess at the function into a better one,  *)
(* may look at the guess below its argument only, and keeps it in F, the    *)
(* functions whose values fit their arguments.                              *)
Descends(X, V, Fits, rank, body, F) ==
  /\ Fits \in [X -> SUBSET V] /\ \A x \in X : Fits[x] # {}
  /\ rank \in [X -> Nat]
  /\ \A f : f \in F <=> f \in [X -> V] /\ \A x \in X : f[x] \in Fits[x]
  /\ \A f \in F : body[f] \in F
  /\ \A f, g \in F, x \in X :
       (\A y \in X : rank[y] < rank[x] => f[y] = g[y]) => body[f][x] = body[g][x]

LEMMA RecursionExists ==
  ASSUME NEW X, NEW V, NEW Fits, NEW rank, NEW body, NEW F,
         Descends(X, V, Fits, rank, body, F)
  PROVE  \E f \in F : body[f] = f
  <1>d. /\ Fits \in [X -> SUBSET V] /\ \A x \in X : Fits[x] # {}
        /\ rank \in [X -> Nat]
        /\ \A f : f \in F <=> f \in [X -> V] /\ \A x \in X : f[x] \in Fits[x]
        /\ \A f \in F : body[f] \in F
        /\ \A f, g \in F, x \in X :
             (\A y \in X : rank[y] < rank[x] => f[y] = g[y]) => body[f][x] = body[g][x]
    BY DEF Descends
  <1> USE <1>d
  <1> DEFINE Solved(f, w) == \A x \in X : rank[x] < w => f[x] = body[f][x]
             P == {w \in Nat : \E f \in F : Solved(f, w)}
  <1>0. \A f : f \in F <=> f \in [X -> V] /\ \A x \in X : f[x] \in Fits[x]
    OBVIOUS
  <1>r. \A x \in X : rank[x] \in Nat
    OBVIOUS
  <1>1. Nat \subseteq P
    <2>1. 0 \in P
      <3> DEFINE some == [x \in X |-> CHOOSE v \in Fits[x] : TRUE]
      <3>1. \A x \in X : (CHOOSE v \in Fits[x] : TRUE) \in Fits[x]
        OBVIOUS
      <3>2. some \in F
        BY <1>0, <3>1
      <3>3. Solved(some, 0)
        BY <1>r
      <3> HIDE DEF some
      <3> QED BY <3>2, <3>3
    <2>2. ASSUME NEW w \in Nat, w \in P PROVE w + 1 \in P
      <3>1. PICK f \in F : Solved(f, w)
        BY <2>2
      <3>2. body[f] \in F
        OBVIOUS
      <3>3. ASSUME NEW x \in X, rank[x] < w + 1 PROVE body[f][x] = body[body[f]][x]
        <4>1. \A y \in X : rank[y] < rank[x] => f[y] = body[f][y]
          BY <1>r, <3>1, <3>3
        <4> QED BY <3>2, <4>1
      <3>4. w + 1 \in Nat
        OBVIOUS
      <3> QED BY <3>2, <3>3, <3>4
    <2> HIDE DEF P
    <2> QED BY <2>1, <2>2, NaturalsInSet
  <1>2. ASSUME NEW f \in F, NEW g \in F, NEW w \in Nat, Solved(f, w), Solved(g, w),
               NEW x \in X, rank[x] < w
        PROVE  f[x] = g[x]
    <2> DEFINE Q == {v \in Nat : \A z \in X : rank[z] < v /\ rank[z] < w => f[z] = g[z]}
    <2>1. 0 \in Q
      BY <1>r
    <2>2. ASSUME NEW v \in Nat, v \in Q PROVE v + 1 \in Q
      <3> SUFFICES ASSUME NEW z \in X, rank[z] < v + 1, rank[z] < w PROVE f[z] = g[z]
        OBVIOUS
      <3>1. \A y \in X : rank[y] < rank[z] => f[y] = g[y]
        BY <1>r, <2>2
      <3>2. body[f][z] = body[g][z]
        BY <3>1
      <3> QED BY <1>2, <3>2
    <2>3. Nat \subseteq Q
      <3> HIDE DEF Q
      <3> QED BY <2>1, <2>2, NaturalsInSet
    <2>4. w \in Q
      BY <2>3
    <2> QED BY <1>2, <2>4
  <1> DEFINE upto(x) == CHOOSE f \in F : Solved(f, rank[x] + 1)
             whole == [x \in X |-> upto(x)[x]]
  <1>3. ASSUME NEW x \in X PROVE upto(x) \in F /\ Solved(upto(x), rank[x] + 1)
    <2>1. rank[x] + 1 \in P
      BY <1>1, <1>r
    <2>2. \E f \in F : Solved(f, rank[x] + 1)
      BY <2>1
    <2> HIDE DEF Solved
    <2> QED BY <2>2
  <1> HIDE DEF upto
  <1>4. whole \in F
    BY <1>0, <1>3
  <1>5. ASSUME NEW x \in X PROVE whole[x] = body[whole][x]
    <2>1. upto(x)[x] = body[upto(x)][x]
      BY <1>3, <1>r
    <2>2. ASSUME NEW y \in X, rank[y] < rank[x] PROVE upto(x)[y] = whole[y]
      <3>1. rank[y] + 1 \in Nat /\ rank[y] < rank[y] + 1
        BY <1>r
      <3>2. Solved(upto(x), rank[y] + 1)
        BY <1>3, <1>r, <2>2
      <3>3. upto(y) \in F /\ upto(x) \in F /\ Solved(upto(y), rank[y] + 1)
        BY <1>3
      <3>4. upto(x)[y] = upto(y)[y]
        <4> HIDE DEF Solved
        <4> QED BY <1>2, <3>1, <3>2, <3>3
      <3> QED BY <3>4
    <2>3. upto(x) \in F
      BY <1>3
    <2> HIDE DEF whole
    <2>4. body[upto(x)][x] = body[whole][x]
      BY <1>4, <2>2, <2>3
    <2> QED BY <2>1, <2>4 DEF whole
  <1> HIDE DEF whole
  <1>6. body[whole] = whole
    BY <1>0, <1>4, <1>5
  <1> QED BY <1>4, <1>6


(***************************************************************************)
(* Lists: what they hold, and one relation between all that comes earlier  *)
(* and all that comes later in them.                                       *)
(***************************************************************************)
Sorted(s, R) == \A p, q \in DOMAIN s : p < q => <<s[p], s[q]>> \in R

LEMMA ListProperties ==
  ASSUME NEW s, IsList(s)
  PROVE  /\ Len(s) \in Nat /\ DOMAIN s = 1..Len(s)
         /\ \A i \in 1..Len(s) : s[i] \in Elements(s)
         /\ \A x : x \in Elements(s) <=> \E i \in 1..Len(s) : s[i] = x
  <1>1. s \in Seq(Elements(s))
    BY DEF IsList
  <1> QED BY <1>1, LenProperties DEF Elements, ToSet

LEMMA ElementsOfSeq ==
  ASSUME NEW X, NEW s \in Seq(X)
  PROVE  IsList(s) /\ Elements(s) \subseteq X
  <1>1. Len(s) \in Nat /\ DOMAIN s = 1..Len(s) /\ s \in [1..Len(s) -> X]
    BY LenProperties
  <1>2. s \in [1..Len(s) -> Elements(s)]
    BY <1>1 DEF Elements, ToSet
  <1>3. IsList(s)
    BY <1>1, <1>2, SeqDef DEF IsList
  <1> QED BY <1>1, <1>3 DEF Elements, ToSet

LEMMA ListIsSeq ==
  ASSUME NEW X, NEW s, IsList(s), Elements(s) \subseteq X
  PROVE  s \in Seq(X)
  <1>1. Len(s) \in Nat /\ s \in [1..Len(s) -> X]
    BY LenProperties DEF IsList
  <1> QED BY <1>1, SeqDef

LEMMA FunctionIsList ==
  ASSUME NEW n \in Nat, NEW s, s = [i \in 1..n |-> s[i]]
  PROVE  IsList(s) /\ Len(s) = n
  <1>1. s \in [1..n -> Elements(s)]
    BY DEF Elements, ToSet
  <1>2. s \in Seq(Elements(s))
    BY <1>1, SeqDef
  <1> QED BY <1>1, <1>2 DEF IsList

LEMMA Concatenated ==
  ASSUME NEW X, NEW s \in Seq(X), NEW t \in Seq(X)
  PROVE  /\ s \o t \in Seq(X)
         /\ \A x : x \in Elements(s \o t) <=> x \in Elements(s) \/ x \in Elements(t)
         /\ \A R : (/\ Sorted(s, R) /\ Sorted(t, R)
                    /\ \A x \in Elements(s), y \in Elements(t) : <<x, y>> \in R)
                   => Sorted(s \o t, R)
  <1> DEFINE c == s \o t
  <1>1. /\ Len(s) \in Nat /\ Len(t) \in Nat /\ DOMAIN s = 1..Len(s) /\ DOMAIN t = 1..Len(t)
        /\ c \in Seq(X) /\ DOMAIN c = 1..(Len(s) + Len(t))
        /\ \A i \in 1..Len(s) : c[i] = s[i]
        /\ \A i \in 1..Len(t) : c[Len(s) + i] = t[i]
    BY ConcatProperties, LenProperties
  <1>2. ASSUME NEW i \in DOMAIN c
        PROVE  \/ i \in DOMAIN s /\ c[i] = s[i]
               \/ i - Len(s) \in DOMAIN t /\ c[i] = t[i - Len(s)] /\ i > Len(s)
    <2>1. i \in 1..Len(s) \/ (i - Len(s) \in 1..Len(t) /\ Len(s) + (i - Len(s)) = i /\ i > Len(s))
      BY <1>1
    <2> QED BY <1>1, <2>1
  <1>3. ASSUME NEW i \in DOMAIN t PROVE Len(s) + i \in DOMAIN c
    BY <1>1
  <1>4. DOMAIN s \subseteq DOMAIN c
    BY <1>1
  <1> HIDE DEF c
  <1>5. ASSUME NEW x PROVE x \in Elements(c) <=> x \in Elements(s) \/ x \in Elements(t)
    <2>1. ASSUME x \in Elements(c) PROVE x \in Elements(s) \/ x \in Elements(t)
      BY <2>1, <1>2 DEF Elements, ToSet
    <2>2. ASSUME x \in Elements(s) PROVE x \in Elements(c)
      BY <2>2, <1>1, <1>4 DEF Elements, ToSet
    <2>3. ASSUME x \in Elements(t) PROVE x \in Elements(c)
      BY <2>3, <1>1, <1>3 DEF Elements, ToSet
    <2> QED BY <2>1, <2>2, <2>3
  <1>6. ASSUME NEW R, Sorted(s, R), Sorted(t, R),
               \A x \in Elements(s), y \in Elements(t) : <<x, y>> \in R
        PROVE  Sorted(c, R)
    <2> SUFFICES ASSUME NEW p \in DOMAIN c, NEW q \in DOMAIN c, p < q PROVE <<c[p], c[q]>> \in R
      BY DEF Sorted
    <2> DEFINE m == Len(s)
    <2>0. p \in Int /\ q \in Int /\ m \in Int
      BY <1>1
    <2>1. CASE q \in DOMAIN s /\ c[q] = s[q]
      <3>1. p \in DOMAIN s
        BY <1>1, <2>1
      <3>2. c[p] = s[p]
        BY <3>1, <1>1
      <3> QED BY <1>6, <2>1, <3>1, <3>2 DEF Sorted
    <2>2. CASE /\ q - m \in DOMAIN t /\ c[q] = t[q - m]
               /\ p \in DOMAIN s /\ c[p] = s[p]
      <3>1. c[q] \in Elements(t) /\ c[p] \in Elements(s)
        BY <2>2 DEF Elements, ToSet
      <3> QED BY <1>6, <3>1
    <2>3. CASE /\ q - m \in DOMAIN t /\ c[q] = t[q - m]
               /\ p - m \in DOMAIN t /\ c[p] = t[p - m]
      <3>1. p - m < q - m
        BY <2>0
      <3> QED BY <1>6, <2>3, <3>1 DEF Sorted
    <2> QED BY <1>2, <2>1, <2>2, <2>3
  <1> QED BY <1>1, <1>5, <1>6 DEF c

(* A flattened list holds what its parts hold, and keeps a relation they    *)
(* keep within and between them.                                            *)
LEMMA Flattened ==
  ASSUME NEW X, NEW ss \in Seq(Seq(X))
  PROVE  /\ FlattenSeq(ss) \in Seq(X)
         /\ \A x : x \in Elements(FlattenSeq(ss)) <=> \E i \in DOMAIN ss : x \in Elements(ss[i])
         /\ \A R : (/\ \A i \in DOMAIN ss : Sorted(ss[i], R)
                    /\ \A i, j \in DOMAIN ss : i < j =>
                         \A x \in Elements(ss[i]), y \in Elements(ss[j]) : <<x, y>> \in R)
                   => Sorted(FlattenSeq(ss), R)
  <1> DEFINE n == Len(ss)
             Grown(f, k) == IF k = 1 THEN ss[k] ELSE f[k - 1] \o ss[k]
             D == 1..n
             Fits == [k \in D |-> Seq(X)]
             rank == [k \in D |-> k]
             F == [D -> Seq(X)]
             body == [f \in F |-> [k \in D |-> Grown(f, k)]]
             Solves(f) == f = [k \in D |-> Grown(f, k)]
             out == CHOOSE f : Solves(f)
  <1>0. n \in Nat /\ DOMAIN ss = D /\ \A k \in D : ss[k] \in Seq(X)
    BY LenProperties
  <1>1. CASE n = 0
    <2>1. FlattenSeq(ss) = ss /\ ss = <<>>
      BY <1>1, EmptySeq DEF FlattenSeq
    <2>2. ss \in Seq(X) /\ DOMAIN ss = {}
      BY <2>1, <1>0, <1>1
    <2>3. Elements(ss) = {}
      BY <2>2 DEF Elements, ToSet
    <2> QED BY <2>1, <2>2, <2>3 DEF Sorted
  <1>2. CASE n # 0
    <2>1. Descends(D, Seq(X), Fits, rank, body, F)
      <3>1. Fits \in [D -> SUBSET Seq(X)] /\ \A k \in D : Fits[k] # {}
        <4>1. <<>> \in Seq(X)
          OBVIOUS
        <4> QED BY <4>1
      <3>2. rank \in [D -> Nat]
        BY <1>0
      <3>3. \A f : f \in F <=> f \in [D -> Seq(X)] /\ \A k \in D : f[k] \in Fits[k]
        OBVIOUS
      <3>4. \A f \in F : body[f] \in F
        <4> SUFFICES ASSUME NEW f \in F, NEW k \in D PROVE Grown(f, k) \in Seq(X)
          <5> HIDE DEF Grown, D
          <5> QED OBVIOUS
        <4>1. CASE k = 1
          BY <4>1, <1>0
        <4>2. CASE k # 1
          <5>1. k - 1 \in D
            BY <1>0, <4>2
          <5>2. f[k - 1] \in Seq(X)
            BY <5>1
          <5> QED BY <1>0, <4>2, <5>2, ConcatProperties
        <4> QED BY <4>1, <4>2
      <3>5. \A f, g \in F, k \in D :
              (\A j \in D : rank[j] < rank[k] => f[j] = g[j]) => body[f][k] = body[g][k]
        <4> SUFFICES ASSUME NEW f \in F, NEW g \in F, NEW k \in D,
                            \A j \in D : j < k => f[j] = g[j]
                     PROVE  Grown(f, k) = Grown(g, k)
          <5>1. \A f \in F, k \in D : body[f][k] = Grown(f, k)
            OBVIOUS
          <5>2. \A k \in D : rank[k] = k
            OBVIOUS
          <5> HIDE DEF body, rank, Grown, F, D
          <5> QED BY <5>1, <5>2
        <4>1. CASE k = 1
          BY <4>1
        <4>2. CASE k # 1
          <5>1. k - 1 \in D /\ k - 1 < k
            BY <1>0, <4>2
          <5>2. f[k - 1] = g[k - 1]
            BY <5>1
          <5> QED BY <4>2, <5>2
        <4> QED BY <4>1, <4>2
      <3> HIDE DEF Fits, rank, F, D, body
      <3> QED BY <3>1, <3>2, <3>3, <3>4, <3>5 DEF Descends
    <2>2. PICK f \in F : body[f] = f
      <3> HIDE DEF Fits, rank, F, D, body
      <3> QED BY <2>1, RecursionExists
    <2>3. \E g \in F : Solves(g)
      <3> HIDE DEF Grown, D
      <3> QED BY <2>2
    <2>4. Solves(out)
      <3> HIDE DEF Solves
      <3> QED BY <2>3
    <2>5. FlattenSeq(ss) = out[n]
      BY <1>2 DEF FlattenSeq
    <2> HIDE DEF out
    <2>6. \A k \in D : out[k] = Grown(out, k)
      <3> HIDE DEF Grown, D
      <3> QED BY <2>4
    <2>7. 1 \in D /\ n \in D /\ n >= 1
      BY <1>0, <1>2
    <2>8. out[1] = ss[1]
      BY <2>6, <2>7
    <2>9. ASSUME NEW k \in D, k + 1 \in D PROVE out[k + 1] = out[k] \o ss[k + 1]
      <3>1. k + 1 # 1 /\ (k + 1) - 1 = k
        BY <1>0
      <3> QED BY <2>6, <2>9, <3>1
    <2> HIDE DEF Grown, Solves, F, Fits, rank, body
    <2> DEFINE Held(k) == \A x : x \in Elements(out[k]) <=> \E i \in 1..k : x \in Elements(ss[i])
               Q == {k \in Nat : k + 1 <= n => out[k + 1] \in Seq(X) /\ Held(k + 1)}
    <2>10. 0 \in Q
      <3>1. \A i : i \in 1..1 <=> i = 1
        OBVIOUS
      <3>2. Held(1)
        BY <2>8, <3>1
      <3>3. out[1] \in Seq(X)
        BY <2>8, <2>7, <1>0
      <3> HIDE DEF Held
      <3>4. 0 + 1 = 1
        OBVIOUS
      <3> QED BY <3>2, <3>3, <3>4
    <2>11. ASSUME NEW k \in Nat, k \in Q PROVE k + 1 \in Q
      <3> DEFINE m == k + 1
      <3> SUFFICES ASSUME m + 1 <= n PROVE out[m + 1] \in Seq(X) /\ Held(m + 1)
        OBVIOUS
      <3>1. m \in D /\ m + 1 \in D /\ m <= n
        BY <1>0
      <3>2. out[m] \in Seq(X) /\ Held(m)
        BY <3>1, <2>11
      <3>3. out[m + 1] = out[m] \o ss[m + 1] /\ ss[m + 1] \in Seq(X)
        BY <3>1, <2>9, <1>0
      <3>4. \A i : i \in 1..(m + 1) <=> i \in 1..m \/ i = m + 1
        BY <3>1
      <3> HIDE DEF m
      <3>5. out[m + 1] \in Seq(X)
        BY <3>2, <3>3, Concatenated
      <3>6. \A x : x \in Elements(out[m + 1]) <=> x \in Elements(out[m]) \/ x \in Elements(ss[m + 1])
        BY <3>2, <3>3, Concatenated
      <3> QED BY <3>2, <3>4, <3>5, <3>6
    <2>12. ASSUME NEW k \in D PROVE out[k] \in Seq(X) /\ Held(k)
      <3>1. Nat \subseteq Q
        <4> HIDE DEF Q
        <4> QED BY <2>10, <2>11, NaturalsInSet
      <3>2. k - 1 \in Nat /\ (k - 1) + 1 = k /\ k <= n
        BY <1>0
      <3> HIDE DEF Held
      <3> QED BY <3>1, <3>2
    <2>13. ASSUME NEW R, \A i \in DOMAIN ss : Sorted(ss[i], R),
                  \A i, j \in DOMAIN ss : i < j =>
                     \A x \in Elements(ss[i]), y \in Elements(ss[j]) : <<x, y>> \in R
           PROVE  Sorted(out[n], R)
      <3> DEFINE S == {k \in Nat : k + 1 <= n => Sorted(out[k + 1], R)}
      <3>1. 0 \in S
        <4>1. Sorted(ss[1], R)
          BY <1>0, <2>7, <2>13
        <4>2. 0 + 1 = 1 /\ Sorted(out[1], R)
          BY <2>8, <4>1
        <4> QED BY <4>2
      <3>2. ASSUME NEW k \in Nat, k \in S PROVE k + 1 \in S
        <4> DEFINE m == k + 1
        <4> SUFFICES ASSUME m + 1 <= n PROVE Sorted(out[m + 1], R)
          OBVIOUS
        <4>1. m \in D /\ m + 1 \in D /\ m <= n
          BY <1>0
        <4>2. Sorted(out[m], R) /\ out[m] \in Seq(X) /\ Held(m)
          BY <4>1, <3>2, <2>12
        <4>3. out[m + 1] = out[m] \o ss[m + 1] /\ ss[m + 1] \in Seq(X) /\ Sorted(ss[m + 1], R)
          BY <4>1, <2>9, <1>0, <2>13
        <4>4. \A i \in 1..m : i \in DOMAIN ss /\ m + 1 \in DOMAIN ss /\ i < m + 1
          BY <4>1, <1>0
        <4> HIDE DEF m
        <4>5. \A x \in Elements(out[m]), y \in Elements(ss[m + 1]) : <<x, y>> \in R
          BY <4>2, <4>4, <2>13
        <4> HIDE DEF Held
        <4> QED BY <4>2, <4>3, <4>5, Concatenated
      <3>3. Nat \subseteq S
        <4> HIDE DEF S
        <4> QED BY <3>1, <3>2, NaturalsInSet
      <3>4. n - 1 \in Nat /\ (n - 1) + 1 = n /\ n <= n
        BY <1>0, <2>7
      <3> QED BY <3>3, <3>4
    <2>14. out[n] \in Seq(X) /\ \A x : x \in Elements(out[n]) <=> \E i \in D : x \in Elements(ss[i])
      BY <2>7, <2>12
    <2>15. \A R : (/\ \A i \in DOMAIN ss : Sorted(ss[i], R)
                  /\ \A i, j \in DOMAIN ss : i < j =>
                       \A x \in Elements(ss[i]), y \in Elements(ss[j]) : <<x, y>> \in R)
                 => Sorted(FlattenSeq(ss), R)
      <3> SUFFICES ASSUME NEW R, \A i \in DOMAIN ss : Sorted(ss[i], R),
                          \A i, j \in DOMAIN ss : i < j =>
                             \A x \in Elements(ss[i]), y \in Elements(ss[j]) : <<x, y>> \in R
                   PROVE  Sorted(FlattenSeq(ss), R)
        OBVIOUS
      <3>1. Sorted(out[n], R)
        BY <2>13
      <3> QED BY <2>5, <3>1
    <2> HIDE DEF D
    <2> QED BY <1>0, <2>5, <2>14, <2>15
  <1> QED BY <1>1, <1>2

(* A set of places is arranged by what they are given, then as they come.   *)
LEMMA ArrangedOrder ==
  ASSUME NEW I, IsFiniteSet(I), I \subseteq Nat, NEW at \in [I -> Nat]
  PROVE  /\ Cardinality(I) \in Nat /\ DOMAIN Arranged(I, at) = 1..Cardinality(I)
         /\ IsList(Arranged(I, at))
         /\ \A k \in DOMAIN Arranged(I, at) : Arranged(I, at)[k] \in I
         /\ \A i \in I : \E k \in DOMAIN Arranged(I, at) : Arranged(I, at)[k] = i
         /\ \A k, l \in DOMAIN Arranged(I, at) : k < l =>
              \/ at[Arranged(I, at)[k]] < at[Arranged(I, at)[l]]
              \/ at[Arranged(I, at)[k]] = at[Arranged(I, at)[l]] /\ Arranged(I, at)[k] < Arranged(I, at)[l]
  <1> DEFINE n == Cardinality(I)
             less(i, j) == at[i] < at[j] \/ (at[i] = at[j] /\ i < j)
             Before(i) == {j \in I : at[j] < at[i] \/ (at[j] = at[i] /\ j < i)}
             rank == [i \in I |-> Cardinality(Before(i))]
             f == Arranged(I, at)
  <1>1. n \in Nat
    BY FS_CardinalityType
  <1>2. f = [k \in 1..n |-> CHOOSE i \in I : Cardinality(Before(i)) = k - 1]
    BY DEF Arranged
  <1>3. \A i, j \in I : i # j => less(i, j) \/ less(j, i)
    BY SMT
  <1>4. \A i, j, k \in I : less(i, j) /\ less(j, k) => less(i, k)
    BY SMT
  <1>5. \A i, j \in I : less(i, j) => ~less(j, i) /\ i # j
    BY SMT
  <1>6. \A i \in I : Before(i) = {j \in I : less(j, i)}
    OBVIOUS
  <1> HIDE DEF less, Before, f
  <1>7. ASSUME NEW i \in I PROVE /\ IsFiniteSet(Before(i)) /\ Cardinality(Before(i)) \in Nat
                                 /\ Cardinality(Before(i)) < n
    <2>1. Before(i) \in SUBSET I /\ i \notin Before(i)
      BY <1>5, <1>6
    <2>2. IsFiniteSet(Before(i)) /\ Cardinality(Before(i)) <= n /\ (n = Cardinality(Before(i)) => I = Before(i))
      BY <2>1, FS_Subset
    <2>3. Cardinality(Before(i)) \in Nat
      BY <2>2, FS_CardinalityType
    <2> QED BY <1>1, <2>1, <2>2, <2>3
  <1>8. ASSUME NEW i \in I, NEW j \in I, less(i, j)
        PROVE  Cardinality(Before(i)) < Cardinality(Before(j))
    <2>1. Before(i) \in SUBSET Before(j) /\ i \in Before(j) /\ i \notin Before(i)
      BY <1>4, <1>5, <1>6, <1>8
    <2>2. Cardinality(Before(i)) <= Cardinality(Before(j))
          /\ (Cardinality(Before(j)) = Cardinality(Before(i)) => Before(j) = Before(i))
      BY <1>7, <2>1, FS_Subset
    <2> QED BY <1>7, <2>1, <2>2
  <1>9. rank \in Injection(I, 0..(n - 1))
    <2>1. rank \in [I -> 0..(n - 1)]
      BY <1>1, <1>7
    <2>2. ASSUME NEW i \in I, NEW j \in I, i # j PROVE rank[i] # rank[j]
      <3>1. rank[i] < rank[j] \/ rank[j] < rank[i]
        BY <1>3, <1>8, <2>2
      <3>2. rank[i] \in Nat /\ rank[j] \in Nat
        BY <1>7
      <3> HIDE DEF rank
      <3> QED BY <3>1, <3>2
    <2> HIDE DEF rank
    <2> QED BY <2>1, <2>2 DEF Injection, IsInjective
  <1>10. rank \in Surjection(I, 0..(n - 1))
    <2>1. IsFiniteSet(0..(n - 1)) /\ Cardinality(0..(n - 1)) = n
      BY <1>1, FS_Interval
    <2> HIDE DEF rank
    <2> QED BY <1>9, <2>1, FS_Injection
  <1>11. ASSUME NEW k \in 1..n PROVE f[k] \in I /\ Cardinality(Before(f[k])) = k - 1
    <2>1. k - 1 \in 0..(n - 1)
      BY <1>1
    <2>2. \E i \in I : rank[i] = k - 1
      <3> HIDE DEF rank
      <3> QED BY <1>10, <2>1 DEF Surjection
    <2>3. \E i \in I : Cardinality(Before(i)) = k - 1
      BY <2>2
    <2>4. f[k] = CHOOSE i \in I : Cardinality(Before(i)) = k - 1
      BY <1>2
    <2> QED BY <2>3, <2>4
  <1>12. DOMAIN f = 1..n
    BY <1>2
  <1>13. ASSUME NEW i \in I PROVE \E k \in DOMAIN f : f[k] = i
    <2> DEFINE k == Cardinality(Before(i)) + 1
    <2>1. k \in 1..n /\ k - 1 = Cardinality(Before(i))
      BY <1>1, <1>7
    <2>2. f[k] \in I /\ Cardinality(Before(f[k])) = Cardinality(Before(i))
      BY <1>11, <2>1
    <2>3. f[k] = i
      <3>1. ASSUME f[k] # i PROVE FALSE
        <4>1. \/ Cardinality(Before(f[k])) < Cardinality(Before(i))
              \/ Cardinality(Before(i)) < Cardinality(Before(f[k]))
          BY <1>3, <1>8, <2>2, <3>1
        <4> QED BY <1>7, <2>2, <4>1
      <3> QED BY <3>1
    <2> HIDE DEF k
    <2> QED BY <1>12, <2>1, <2>3
  <1>14. ASSUME NEW k \in DOMAIN f, NEW l \in DOMAIN f, k < l PROVE less(f[k], f[l])
    <2>1. /\ f[k] \in I /\ Cardinality(Before(f[k])) = k - 1
          /\ f[l] \in I /\ Cardinality(Before(f[l])) = l - 1 /\ k \in Int /\ l \in Int
      BY <1>11, <1>12
    <2>2. f[k] # f[l]
      BY <1>14, <2>1
    <2>3. ASSUME less(f[l], f[k]) PROVE FALSE
      <3>1. Cardinality(Before(f[l])) < Cardinality(Before(f[k]))
        BY <1>8, <2>1, <2>3
      <3> QED BY <1>14, <2>1, <3>1
    <2> QED BY <1>3, <2>1, <2>2, <2>3
  <1>15. IsList(f)
    <2>1. f = [k \in 1..n |-> f[k]]
      BY <1>2
    <2> QED BY <1>1, <2>1, FunctionIsList
  <1>16. \A k, l \in DOMAIN f : k < l =>
           at[f[k]] < at[f[l]] \/ (at[f[k]] = at[f[l]] /\ f[k] < f[l])
    BY <1>14 DEF less
  <1> QED BY <1>1, <1>11, <1>12, <1>13, <1>15, <1>16 DEF f

LEMMA KeptPlaces ==
  ASSUME NEW s, IsList(s), NEW I, I \subseteq DOMAIN s
  PROVE  LET f == Arranged(I, [i \in I |-> 0])
         IN  /\ IsList(f) /\ IsList(Keep(s, I)) /\ DOMAIN Keep(s, I) = DOMAIN f /\ DOMAIN f = 1..Len(f)
             /\ \A k \in DOMAIN f : f[k] \in I /\ Keep(s, I)[k] = s[f[k]]
             /\ \A i \in I : \E k \in DOMAIN f : f[k] = i
             /\ \A k, l \in DOMAIN f : k < l => f[k] < f[l]
  <1> DEFINE at == [i \in I |-> 0]
             f == Arranged(I, at)
  <1>1. at \in [I -> Nat] /\ \A i \in I : at[i] = 0
    OBVIOUS
  <1>2. IsFiniteSet(I) /\ I \subseteq Nat
    <2>1. DOMAIN s = 1..Len(s) /\ Len(s) \in Nat
      BY ListProperties
    <2>2. IsFiniteSet(1..Len(s))
      BY <2>1, FS_Interval
    <2> QED BY <2>1, <2>2, FS_Subset
  <1> HIDE DEF at
  <1>3. /\ IsList(f) /\ \A k \in DOMAIN f : f[k] \in I
        /\ \A i \in I : \E k \in DOMAIN f : f[k] = i
        /\ \A k, l \in DOMAIN f : k < l =>
              \/ at[f[k]] < at[f[l]]
              \/ at[f[k]] = at[f[l]] /\ f[k] < f[l]
    BY <1>1, <1>2, ArrangedOrder
  <1>4. Keep(s, I) = [k \in DOMAIN f |-> s[f[k]]]
    BY DEF Keep, at
  <1> HIDE DEF f
  <1>5. IsList(Keep(s, I)) /\ DOMAIN Keep(s, I) = DOMAIN f
    <2>1. DOMAIN f = 1..Len(f) /\ Len(f) \in Nat
      BY <1>3, ListProperties
    <2>2. Keep(s, I) = [k \in 1..Len(f) |-> Keep(s, I)[k]]
      BY <1>4, <2>1
    <2> QED BY <1>4, <2>1, <2>2, FunctionIsList
  <1>6. \A k, l \in DOMAIN f : k < l => f[k] < f[l]
    <2>1. \A k \in DOMAIN f : at[f[k]] = 0
      BY <1>1, <1>3
    <2> QED BY <1>3, <2>1
  <1>7. DOMAIN f = 1..Len(f)
    BY <1>3, ListProperties
  <1>8. \A k \in DOMAIN f : f[k] \in I /\ Keep(s, I)[k] = s[f[k]]
    BY <1>3, <1>4
  <1> QED BY <1>3, <1>5, <1>6, <1>7, <1>8 DEF f, at

LEMMA KeptElements ==
  ASSUME NEW s, IsList(s), NEW I, I \subseteq DOMAIN s
  PROVE  IsList(Keep(s, I)) /\ Elements(Keep(s, I)) = {s[i] : i \in I}
  <1> DEFINE f == Arranged(I, [i \in I |-> 0])
             kept == Keep(s, I)
  <1>1. /\ IsList(kept) /\ DOMAIN kept = DOMAIN f
        /\ \A k \in DOMAIN f : f[k] \in I /\ kept[k] = s[f[k]]
        /\ \A i \in I : \E k \in DOMAIN f : f[k] = i
    BY KeptPlaces
  <1> HIDE DEF f, kept
  <1>2. Elements(kept) = {s[i] : i \in I}
    BY <1>1 DEF Elements, ToSet
  <1> QED BY <1>1, <1>2 DEF kept

(* A list of numbers that goes up and reaches each number counts.           *)
Climbs(h, m, n) ==
  /\ \A k, l \in 1..m : k < l => h[k] < h[l]
  /\ \A j \in 1..n : \E k \in 1..m : h[k] = j

LEMMA IncreasingOnto ==
  ASSUME NEW m \in Nat, NEW n \in Nat, NEW h \in [1..m -> 1..n], Climbs(h, m, n)
  PROVE  m = n /\ \A k \in 1..m : h[k] = k
  <1> USE DEF Climbs
  <1> DEFINE P == {j \in Nat : \A k \in Nat : k <= j /\ k \in 1..m => h[k] = k}
  <1>1. 0 \in P
    BY SMT
  <1>2. ASSUME NEW j \in Nat, j \in P PROVE j + 1 \in P
    <2> SUFFICES ASSUME NEW k \in Nat, k <= j + 1, k \in 1..m PROVE h[k] = k
      OBVIOUS
    <2>1. CASE k <= j
      BY <1>2, <2>1
    <2>2. CASE k = j + 1
      <3>1. h[k] \in 1..n
        OBVIOUS
      <3>2. h[k] >= k
        <4>1. CASE k = 1
          BY <3>1, <4>1
        <4>2. CASE k # 1
          <5>1. k - 1 \in Nat /\ k - 1 <= j /\ k - 1 \in 1..m /\ k - 1 < k
            BY <2>2, <4>2
          <5>2. h[k - 1] = k - 1
            BY <1>2, <5>1
          <5>3. h[k - 1] < h[k]
            BY <5>1
          <5> QED BY <3>1, <5>1, <5>2, <5>3
        <4> QED BY <4>1, <4>2
      <3>3. k \in 1..n
        BY <3>1, <3>2
      <3>4. PICK l \in 1..m : h[l] = k
        BY <3>3
      <3>5. CASE l < k
        <4>1. l <= j /\ l \in Nat
          BY <2>2, <3>5
        <4>2. h[l] = l
          BY <1>2, <4>1
        <4> QED BY <3>4, <3>5, <4>2
      <3>6. CASE l > k
        <4>1. h[k] < h[l]
          BY <3>6
        <4> QED BY <3>1, <3>2, <3>4, <4>1
      <3>7. CASE l = k
        BY <3>4, <3>7
      <3> QED BY <3>5, <3>6, <3>7
    <2> QED BY <2>1, <2>2
  <1>3. Nat \subseteq P
    <2> HIDE DEF P
    <2> QED BY <1>1, <1>2, NaturalsInSet
  <1>4. \A k \in 1..m : h[k] = k
    <2>1. m \in P
      BY <1>3
    <2> QED BY <2>1
  <1>5. m <= n
    <2>1. CASE m = 0
      BY <2>1
    <2>2. CASE m # 0
      <3>1. m \in 1..m
        BY <2>2
      <3>2. h[m] \in 1..n /\ h[m] = m
        BY <3>1, <1>4
      <3> QED BY <3>2
    <2> QED BY <2>1, <2>2
  <1>6. n <= m
    <2>1. CASE n = 0
      BY <2>1
    <2>2. CASE n # 0
      <3>1. n \in 1..n
        BY <2>2
      <3>2. PICK k \in 1..m : h[k] = n
        BY <3>1
      <3> QED BY <3>2, <1>4
    <2> QED BY <2>1, <2>2
  <1> QED BY <1>4, <1>5, <1>6

(* Reading a graph back.                                                    *)

\* Where each place of I comes, when h counts them in their order.
Counts(I, at, n, h) ==
  /\ \A j \in 1..n : \E i \in I : h[i] = j
  /\ \A i, k \in I : at[i] < at[k] \/ (at[i] = at[k] /\ i < k) => h[i] < h[k]

LEMMA ArrangedCounts ==
  ASSUME NEW I, IsFiniteSet(I), I \subseteq Nat, NEW at \in [I -> Nat],
         NEW n \in Nat, NEW h \in [I -> 1..n], Counts(I, at, n, h)
  PROVE  DOMAIN Arranged(I, at) = 1..n /\ \A k \in 1..n : Arranged(I, at)[k] \in I /\ h[Arranged(I, at)[k]] = k
  <1> DEFINE f == Arranged(I, at)
             m == Cardinality(I)
             c == [k \in 1..m |-> h[f[k]]]
  <1>1. /\ m \in Nat /\ DOMAIN f = 1..m
        /\ \A k \in DOMAIN f : f[k] \in I
        /\ \A i \in I : \E k \in DOMAIN f : f[k] = i
        /\ \A k, l \in DOMAIN f : k < l =>
             \/ at[f[k]] < at[f[l]]
             \/ at[f[k]] = at[f[l]] /\ f[k] < f[l]
    BY ArrangedOrder
  <1> HIDE DEF f, m
  <1>2. \A k \in 1..m : f[k] \in I /\ c[k] = h[f[k]]
    BY <1>1
  <1>3. c \in [1..m -> 1..n]
    BY <1>2
  <1>4. ASSUME NEW k \in 1..m, NEW l \in 1..m, k < l PROVE c[k] < c[l]
    <2>1. \/ at[f[k]] < at[f[l]]
          \/ at[f[k]] = at[f[l]] /\ f[k] < f[l]
      BY <1>1, <1>4
    <2>2. h[f[k]] < h[f[l]]
      BY <1>2, <2>1 DEF Counts
    <2> QED BY <2>2
  <1>5. ASSUME NEW j \in 1..n PROVE \E k \in 1..m : c[k] = j
    <2>1. PICK i \in I : h[i] = j
      BY DEF Counts
    <2>2. PICK k \in 1..m : f[k] = i
      BY <1>1
    <2> QED BY <1>2, <2>1, <2>2
  <1> HIDE DEF c
  <1>6. m = n /\ \A k \in 1..m : c[k] = k
    <2>1. m \in Nat
      BY <1>1
    <2>2. Climbs(c, m, n)
      BY <1>4, <1>5 DEF Climbs
    <2> QED BY <1>3, <2>1, <2>2, IncreasingOnto
  <1> QED BY <1>1, <1>2, <1>6 DEF f

\* The nodes of a type come in the order of their numbers, as they are listed.
Rising(g, type) ==
  \A p, q \in DOMAIN g.nodes :
    p < q /\ g.nodes[p].type = type /\ g.nodes[q].type = type => g.nodes[p].order < g.nodes[q].order
TypedAs(g, type) == {n \in Elements(g.nodes) : n.type = type}
Numbered(nodes)  == \A j \in DOMAIN nodes : nodes[j].order = j

LEMMA NodesOfType ==
  ASSUME NEW g, IsList(g.nodes), NEW type, Rising(g, type),
         NEW nodes, IsList(nodes), Numbered(nodes), TypedAs(g, type) = Elements(nodes)
  PROVE  /\ Ordered(g, type) = nodes
         /\ Keep(g.nodes, {i \in DOMAIN g.nodes : g.nodes[i].type = type}) = nodes
  <1> DEFINE I == {i \in DOMAIN g.nodes : g.nodes[i].type = type}
             n == Len(nodes)
             h == [i \in I |-> g.nodes[i].order]
             zero == [i \in I |-> 0]
  <1>1. DOMAIN g.nodes = 1..Len(g.nodes) /\ Len(g.nodes) \in Nat /\ DOMAIN nodes = 1..n /\ n \in Nat
    BY ListProperties
  <1>2. \A i \in I : \E j \in 1..n : g.nodes[i] = nodes[j]
    <2> SUFFICES ASSUME NEW i \in I PROVE \E j \in 1..n : g.nodes[i] = nodes[j]
      OBVIOUS
    <2>1. g.nodes[i] \in Elements(nodes)
      BY DEF TypedAs, Elements, ToSet
    <2> QED BY <2>1, ListProperties
  <1>3. \A j \in 1..n : \E i \in I : g.nodes[i] = nodes[j]
    <2> SUFFICES ASSUME NEW j \in 1..n PROVE \E i \in I : g.nodes[i] = nodes[j]
      OBVIOUS
    <2>1. nodes[j] \in TypedAs(g, type)
      BY ListProperties
    <2> QED BY <2>1 DEF TypedAs, Elements, ToSet
  <1>4. \A i, k \in I : i < k => g.nodes[i].order < g.nodes[k].order
    BY DEF Rising
  <1>5. IsFiniteSet(I) /\ I \subseteq Nat
    <2>1. IsFiniteSet(1..Len(g.nodes))
      BY <1>1, FS_Interval
    <2> QED BY <1>1, <2>1, FS_Subset
  <1> HIDE DEF I, n
  <1>6. \A i \in I : h[i] \in 1..n /\ g.nodes[i] = nodes[h[i]] /\ h[i] = g.nodes[i].order
    BY <1>1, <1>2 DEF Numbered
  <1>7. h \in [I -> 1..n] /\ h \in [I -> Nat] /\ zero \in [I -> Nat] /\ \A i \in I : zero[i] = 0
    BY <1>1, <1>6
  <1> HIDE DEF h, zero
  <1>8. \A j \in 1..n : \E i \in I : h[i] = j
    BY <1>1, <1>3, <1>6 DEF Numbered
  <1>9. \A i, k \in I : i < k => h[i] < h[k]
    BY <1>4, <1>6
  <1>10. Counts(I, h, n, h)
    BY <1>7, <1>8, <1>9 DEF Counts
  <1>11. Counts(I, zero, n, h)
    BY <1>7, <1>8, <1>9 DEF Counts
  <1>12. DOMAIN Arranged(I, h) = 1..n /\ \A k \in 1..n : Arranged(I, h)[k] \in I /\ h[Arranged(I, h)[k]] = k
    BY <1>1, <1>5, <1>7, <1>10, ArrangedCounts
  <1>13. DOMAIN Arranged(I, zero) = 1..n /\ \A k \in 1..n : Arranged(I, zero)[k] \in I /\ h[Arranged(I, zero)[k]] = k
    BY <1>1, <1>5, <1>7, <1>11, ArrangedCounts
  <1>14. nodes = [k \in 1..n |-> nodes[k]]
    BY <1>1, LenProperties DEF IsList
  <1>15. Ordered(g, type) = nodes
    <2>1. Ordered(g, type) = [k \in DOMAIN Arranged(I, h) |-> g.nodes[Arranged(I, h)[k]]]
      BY DEF Ordered, I, h
    <2>2. \A k \in 1..n : g.nodes[Arranged(I, h)[k]] = nodes[k]
      BY <1>6, <1>12
    <2> QED BY <1>12, <1>14, <2>1, <2>2
  <1>16. Keep(g.nodes, I) = nodes
    <2>1. Keep(g.nodes, I) = [k \in DOMAIN Arranged(I, zero) |-> g.nodes[Arranged(I, zero)[k]]]
      BY DEF Keep, zero
    <2>2. \A k \in 1..n : g.nodes[Arranged(I, zero)[k]] = nodes[k]
      BY <1>6, <1>13
    <2> QED BY <1>13, <1>14, <2>1, <2>2
  <1> QED BY <1>15, <1>16 DEF I

\* The nodes a predicate leads to from a node are found by their keys, each once.
EdgesFrom(g, owner, predicate) == {e \in Elements(g.edges) : e.predicate = predicate /\ e.from = owner}
LeadsOnce(g, owner, predicate) ==
  \A p, q \in DOMAIN g.edges :
    /\ p # q
    /\ g.edges[p].predicate = predicate /\ g.edges[p].from = owner
    /\ g.edges[q].predicate = predicate /\ g.edges[q].from = owner
    => g.edges[p].to # g.edges[q].to
Found(g, nodes) == \A j \in DOMAIN nodes : nodes[j].key \in Keys(g) /\ NodeAt(g, nodes[j].key) = nodes[j]
InOrder(nodes) ==
  /\ \A j \in DOMAIN nodes : nodes[j].order \in Nat
  /\ \A j, k \in DOMAIN nodes : j < k => nodes[j].order < nodes[k].order

LEMMA ChildrenOfNode ==
  ASSUME NEW g, IsList(g.edges), NEW owner, NEW predicate, LeadsOnce(g, owner, predicate),
         NEW nodes, IsList(nodes), Found(g, nodes), InOrder(nodes),
         {e.to : e \in EdgesFrom(g, owner, predicate)} = {nodes[j].key : j \in DOMAIN nodes}
  PROVE  Children(g, owner, predicate) = nodes
  <1> DEFINE I == {i \in DOMAIN g.edges : /\ g.edges[i].predicate = predicate
                                          /\ g.edges[i].from = owner
                                          /\ g.edges[i].to \in Keys(g)}
             n == Len(nodes)
             h == [i \in I |-> CHOOSE j \in 1..n : nodes[j].key = g.edges[i].to]
             at == [i \in I |-> NodeAt(g, g.edges[i].to).order]
  <1>1. DOMAIN g.edges = 1..Len(g.edges) /\ Len(g.edges) \in Nat /\ DOMAIN nodes = 1..n /\ n \in Nat
    BY ListProperties
  <1>2. \A i \in I : \E j \in 1..n : nodes[j].key = g.edges[i].to
    <2> SUFFICES ASSUME NEW i \in I PROVE \E j \in DOMAIN nodes : nodes[j].key = g.edges[i].to
      BY <1>1
    <2>1. g.edges[i] \in EdgesFrom(g, owner, predicate)
      BY DEF EdgesFrom, Elements, ToSet
    <2> QED BY <2>1
  <1>3. \A j \in 1..n : \E i \in I : nodes[j].key = g.edges[i].to
    <2> SUFFICES ASSUME NEW j \in DOMAIN nodes PROVE \E i \in I : nodes[j].key = g.edges[i].to
      BY <1>1
    <2>1. PICK e \in EdgesFrom(g, owner, predicate) : e.to = nodes[j].key
      OBVIOUS
    <2>2. nodes[j].key \in Keys(g)
      BY DEF Found
    <2> QED BY <2>1, <2>2 DEF EdgesFrom, Elements, ToSet
  <1>4. \A i, k \in I : i # k => g.edges[i].to # g.edges[k].to
    BY DEF LeadsOnce
  <1>5. IsFiniteSet(I) /\ I \subseteq Nat
    <2>1. IsFiniteSet(1..Len(g.edges))
      BY <1>1, FS_Interval
    <2> QED BY <1>1, <2>1, FS_Subset
  <1>6. \A i \in I : h[i] \in 1..n /\ nodes[h[i]].key = g.edges[i].to
    <2> HIDE DEF I, n
    <2> QED BY <1>2
  <1>7. \A i \in I : at[i] = NodeAt(g, g.edges[i].to).order
    OBVIOUS
  <1>8. Children(g, owner, predicate) = [k \in DOMAIN Arranged(I, at) |-> NodeAt(g, g.edges[Arranged(I, at)[k]].to)]
    BY DEF Children
  <1>9. h = [i \in I |-> h[i]] /\ at = [i \in I |-> at[i]]
    OBVIOUS
  <1> HIDE DEF I, n, h, at
  <1>10. \A i \in I : NodeAt(g, g.edges[i].to) = nodes[h[i]] /\ at[i] = nodes[h[i]].order
    BY <1>1, <1>6, <1>7 DEF Found
  <1>11. \A j \in 1..n : nodes[j].order \in Nat
    BY <1>1 DEF InOrder
  <1>12. h \in [I -> 1..n] /\ at \in [I -> Nat]
    BY <1>6, <1>9, <1>10, <1>11
  <1>13. \A i, k \in I : at[i] < at[k] => h[i] < h[k]
    <2> SUFFICES ASSUME NEW i \in I, NEW k \in I, at[i] < at[k], ~(h[i] < h[k]) PROVE FALSE
      OBVIOUS
    <2>1. h[k] = h[i] \/ h[k] < h[i]
      BY <1>12
    <2>2. h[k] < h[i] => nodes[h[k]].order < nodes[h[i]].order
      BY <1>1, <1>6 DEF InOrder
    <2> QED BY <1>6, <1>10, <1>11, <2>1, <2>2
  <1>14. \A j, k \in 1..n : nodes[j].order = nodes[k].order => j = k
    <2> SUFFICES ASSUME NEW j \in 1..n, NEW k \in 1..n, j < k PROVE nodes[j].order < nodes[k].order
      BY <1>1, <1>11
    <2> QED BY <1>1 DEF InOrder
  <1>15. \A i, k \in I : at[i] = at[k] => i = k
    <2> SUFFICES ASSUME NEW i \in I, NEW k \in I, at[i] = at[k] PROVE i = k
      OBVIOUS
    <2>1. h[i] = h[k]
      BY <1>6, <1>10, <1>14
    <2>2. g.edges[i].to = g.edges[k].to
      BY <1>6, <2>1
    <2> QED BY <1>4, <2>2
  <1>16. \A i, k \in I : at[i] < at[k] \/ (at[i] = at[k] /\ i < k) => h[i] < h[k]
    BY <1>5, <1>13, <1>15
  <1>17. \A j \in 1..n : \E i \in I : h[i] = j
    <2> SUFFICES ASSUME NEW j \in 1..n PROVE \E i \in I : h[i] = j
      OBVIOUS
    <2>1. PICK i \in I : nodes[j].key = g.edges[i].to
      BY <1>3
    <2>2. nodes[h[i]] = nodes[j]
      BY <1>1, <1>10, <2>1 DEF Found
    <2>3. h[i] = j
      BY <1>6, <1>14, <2>2
    <2> QED BY <2>3
  <1>18. DOMAIN Arranged(I, at) = 1..n /\ \A k \in 1..n : Arranged(I, at)[k] \in I /\ h[Arranged(I, at)[k]] = k
    <2>1. Counts(I, at, n, h)
      BY <1>16, <1>17 DEF Counts
    <2> QED BY <1>1, <1>5, <1>12, <2>1, ArrangedCounts
  <1>19. nodes = [k \in 1..n |-> nodes[k]]
    BY <1>1, LenProperties DEF IsList, n
  <1>20. \A k \in 1..n : NodeAt(g, g.edges[Arranged(I, at)[k]].to) = nodes[k]
    BY <1>10, <1>18
  <1> QED BY <1>8, <1>18, <1>19, <1>20

-----------------------------------------------------------------------------
(***************************************************************************)
(* What the graph of a spec is made of, part by part.                      *)
(***************************************************************************)
IsGraph(g) == g = Graph(g.nodes, g.edges) /\ IsList(g.nodes) /\ IsList(g.edges)

LEMMA GraphFields ==
  ASSUME NEW nodes, NEW edges
  PROVE  /\ Graph(nodes, edges).nodes = nodes /\ Graph(nodes, edges).edges = edges
         /\ IsList(nodes) /\ IsList(edges) => IsGraph(Graph(nodes, edges))
  BY DEF Graph, IsGraph

(* Lists of one to five parts.                                              *)
LEMMA ListOfOne ==
  ASSUME NEW a
  PROVE  IsList(<<a>>) /\ DOMAIN <<a>> = {1} /\ <<a>>[1] = a /\ Elements(<<a>>) = {a}
  <1> DEFINE l == <<a>>
  <1>1. l = [i \in 1..1 |-> l[i]] /\ DOMAIN l = {1} /\ l[1] = a
    OBVIOUS
  <1> HIDE DEF l
  <1>2. IsList(l)
    BY <1>1, FunctionIsList
  <1> QED BY <1>1, <1>2 DEF Elements, ToSet, l

LEMMA EmptyList == IsList(<<>>) /\ Elements(<<>>) = {} /\ DOMAIN <<>> = {}
  <1>1. <<>> \in Seq({}) /\ DOMAIN <<>> = {}
    OBVIOUS
  <1> QED BY <1>1, ElementsOfSeq DEF Elements, ToSet

LEMMA JoinedGraph ==
  ASSUME NEW parts, IsList(parts), \A i \in DOMAIN parts : IsGraph(parts[i])
  PROVE  /\ IsGraph(Joined(parts))
         /\ \A x : x \in Elements(Joined(parts).nodes) <=> \E i \in DOMAIN parts : x \in Elements(parts[i].nodes)
         /\ \A e : e \in Elements(Joined(parts).edges) <=> \E i \in DOMAIN parts : e \in Elements(parts[i].edges)
         /\ \A R : (/\ \A i \in DOMAIN parts : Sorted(parts[i].nodes, R)
                    /\ \A i, j \in DOMAIN parts : i < j =>
                         \A x \in Elements(parts[i].nodes), y \in Elements(parts[j].nodes) : <<x, y>> \in R)
                   => Sorted(Joined(parts).nodes, R)
         /\ \A R : (/\ \A i \in DOMAIN parts : Sorted(parts[i].edges, R)
                    /\ \A i, j \in DOMAIN parts : i < j =>
                         \A x \in Elements(parts[i].edges), y \in Elements(parts[j].edges) : <<x, y>> \in R)
                   => Sorted(Joined(parts).edges, R)
  <1> DEFINE ns == [i \in DOMAIN parts |-> parts[i].nodes]
             es == [i \in DOMAIN parts |-> parts[i].edges]
             N == UNION {Elements(parts[i].nodes) : i \in DOMAIN parts}
             E == UNION {Elements(parts[i].edges) : i \in DOMAIN parts}
  <1>1. DOMAIN parts = 1..Len(parts) /\ Len(parts) \in Nat
    BY ListProperties
  <1>2. \A i \in DOMAIN parts : IsList(parts[i].nodes) /\ IsList(parts[i].edges)
    BY DEF IsGraph
  <1>3. \A i \in DOMAIN parts : Elements(parts[i].nodes) \subseteq N /\ Elements(parts[i].edges) \subseteq E
    OBVIOUS
  <1> HIDE DEF N, E
  <1>4. \A i \in DOMAIN parts : parts[i].nodes \in Seq(N) /\ parts[i].edges \in Seq(E)
    BY <1>2, <1>3, ListIsSeq
  <1>5. ns \in Seq(Seq(N)) /\ es \in Seq(Seq(E))
    <2>1. ns \in [1..Len(parts) -> Seq(N)] /\ es \in [1..Len(parts) -> Seq(E)]
      BY <1>1, <1>4
    <2> HIDE DEF ns, es
    <2> QED BY <1>1, <2>1, SeqDef
  <1>6. Joined(parts).nodes = FlattenSeq(ns) /\ Joined(parts).edges = FlattenSeq(es)
        /\ Joined(parts) = Graph(FlattenSeq(ns), FlattenSeq(es))
    BY GraphFields DEF Joined
  <1>7. /\ DOMAIN ns = DOMAIN parts /\ DOMAIN es = DOMAIN parts
        /\ \A i \in DOMAIN parts : ns[i] = parts[i].nodes /\ es[i] = parts[i].edges
    OBVIOUS
  <1> HIDE DEF ns, es
  <1>8. IsGraph(Joined(parts))
    <2>1. FlattenSeq(ns) \in Seq(N) /\ FlattenSeq(es) \in Seq(E)
      BY <1>5, Flattened
    <2>2. IsList(FlattenSeq(ns)) /\ IsList(FlattenSeq(es))
      BY <2>1, ElementsOfSeq
    <2> QED BY <1>6, <2>2, GraphFields
  <1>9. \A x : x \in Elements(FlattenSeq(ns)) <=> \E i \in DOMAIN parts : x \in Elements(parts[i].nodes)
    BY <1>5, <1>7, Flattened
  <1>10. \A x : x \in Elements(FlattenSeq(es)) <=> \E i \in DOMAIN parts : x \in Elements(parts[i].edges)
    BY <1>5, <1>7, Flattened
  <1>11. ASSUME NEW R, \A i \in DOMAIN parts : Sorted(parts[i].nodes, R),
                \A i, j \in DOMAIN parts : i < j =>
                   \A x \in Elements(parts[i].nodes), y \in Elements(parts[j].nodes) : <<x, y>> \in R
         PROVE  Sorted(FlattenSeq(ns), R)
    BY <1>5, <1>7, <1>11, Flattened
  <1>12. ASSUME NEW R, \A i \in DOMAIN parts : Sorted(parts[i].edges, R),
                \A i, j \in DOMAIN parts : i < j =>
                   \A x \in Elements(parts[i].edges), y \in Elements(parts[j].edges) : <<x, y>> \in R
         PROVE  Sorted(FlattenSeq(es), R)
    BY <1>5, <1>7, <1>12, Flattened
  <1> QED BY <1>6, <1>8, <1>9, <1>10, <1>11, <1>12

(* A graph with its nodes and its edges.                                    *)
Holds(g, N, E) == IsGraph(g) /\ Elements(g.nodes) = N /\ Elements(g.edges) = E

\* What a family of sets has, over the places of a list.
Gathered(seq, S) == UNION {S[i] : i \in DOMAIN seq}

HoldsEach(seq, parts, N, E) ==
  /\ IsList(seq)
  /\ parts = [i \in DOMAIN seq |-> parts[i]]
  /\ \A i \in DOMAIN seq : Holds(parts[i], N[i], E[i])

LEMMA JoinedHolds ==
  ASSUME NEW seq, NEW parts, NEW N, NEW E, HoldsEach(seq, parts, N, E)
  PROVE  Holds(Joined(parts), Gathered(seq, N), Gathered(seq, E))
  <1>1. parts = [i \in DOMAIN seq |-> parts[i]] /\ IsList(seq)
    BY DEF HoldsEach
  <1>2. DOMAIN parts = DOMAIN seq
    BY <1>1
  <1>3. IsList(parts)
    <2>1. DOMAIN seq = 1..Len(seq) /\ Len(seq) \in Nat
      BY <1>1, ListProperties
    <2> QED BY <1>1, <2>1, FunctionIsList
  <1>4. \A i \in DOMAIN parts : /\ IsGraph(parts[i])
                                /\ Elements(parts[i].nodes) = N[i] /\ Elements(parts[i].edges) = E[i]
    BY <1>2 DEF HoldsEach, Holds
  <1>5. /\ IsGraph(Joined(parts))
        /\ \A x : x \in Elements(Joined(parts).nodes) <=> \E i \in DOMAIN parts : x \in Elements(parts[i].nodes)
        /\ \A e : e \in Elements(Joined(parts).edges) <=> \E i \in DOMAIN parts : e \in Elements(parts[i].edges)
    BY <1>3, <1>4, JoinedGraph
  <1>6. Elements(Joined(parts).nodes) = Gathered(seq, N)
    BY <1>2, <1>4, <1>5 DEF Gathered
  <1>7. Elements(Joined(parts).edges) = Gathered(seq, E)
    BY <1>2, <1>4, <1>5 DEF Gathered
  <1> QED BY <1>5, <1>6, <1>7 DEF Holds

(* What is in no two of the parts, and in none twice, is in the whole once. *)
LEMMA SortedApart ==
  ASSUME NEW l, IsList(l), NEW X, Elements(l) \subseteq X
  PROVE  IsInjective(l) <=> Sorted(l, {p \in X \X X : p[1] # p[2]})
  <1> DEFINE R == {p \in X \X X : p[1] # p[2]}
  <1>1. \A x, y \in X : <<x, y>> \in R <=> x # y
    OBVIOUS
  <1>2. /\ DOMAIN l = 1..Len(l) /\ Len(l) \in Nat
        /\ \A i \in DOMAIN l : l[i] \in X
    BY ListProperties
  <1> HIDE DEF R
  <1>3. ASSUME IsInjective(l) PROVE Sorted(l, R)
    <2> SUFFICES ASSUME NEW p \in DOMAIN l, NEW q \in DOMAIN l, p < q PROVE <<l[p], l[q]>> \in R
      BY DEF Sorted
    <2>1. l[p] # l[q]
      BY <1>2, <1>3 DEF IsInjective
    <2> QED BY <1>1, <1>2, <2>1
  <1>4. ASSUME Sorted(l, R) PROVE IsInjective(l)
    <2> SUFFICES ASSUME NEW p \in DOMAIN l, NEW q \in DOMAIN l, p # q PROVE l[p] # l[q]
      BY DEF IsInjective
    <2>1. p < q \/ q < p
      BY <1>2
    <2>2. <<l[p], l[q]>> \in R \/ <<l[q], l[p]>> \in R
      BY <1>4, <2>1 DEF Sorted
    <2> QED BY <1>1, <1>2, <2>2
  <1> QED BY <1>3, <1>4 DEF R

LEMMA JoinedOnce ==
  ASSUME NEW seq, NEW parts, NEW N, NEW E, HoldsEach(seq, parts, N, E),
         \A i \in DOMAIN seq : IsInjective(parts[i].edges),
         \A i, j \in DOMAIN seq : i # j => E[i] \cap E[j] = {}
  PROVE  IsInjective(Joined(parts).edges)
  <1> DEFINE X == Gathered(seq, E)
             R == {p \in X \X X : p[1] # p[2]}
  <1>1. parts = [i \in DOMAIN seq |-> parts[i]] /\ IsList(seq)
    BY DEF HoldsEach
  <1>2. DOMAIN parts = DOMAIN seq /\ DOMAIN seq = 1..Len(seq) /\ Len(seq) \in Nat
    BY <1>1, ListProperties
  <1>3. IsList(parts)
    BY <1>1, <1>2, FunctionIsList
  <1>4. \A i \in DOMAIN parts : IsGraph(parts[i]) /\ Elements(parts[i].edges) = E[i]
    BY <1>2 DEF HoldsEach, Holds
  <1>5. \A i \in DOMAIN parts : E[i] \subseteq X
    BY <1>2 DEF Gathered
  <1>6. \A x, y \in X : <<x, y>> \in R <=> x # y
    OBVIOUS
  <1> HIDE DEF X
  <1>7. \A i \in DOMAIN parts : Sorted(parts[i].edges, R)
    <2> SUFFICES ASSUME NEW i \in DOMAIN parts PROVE Sorted(parts[i].edges, R)
      OBVIOUS
    <2>1. IsList(parts[i].edges) /\ Elements(parts[i].edges) \subseteq X /\ IsInjective(parts[i].edges)
      BY <1>2, <1>4, <1>5 DEF IsGraph
    <2> QED BY <2>1, SortedApart
  <1>8. \A i, j \in DOMAIN parts : i < j =>
          \A x \in Elements(parts[i].edges), y \in Elements(parts[j].edges) : <<x, y>> \in R
    <2> SUFFICES ASSUME NEW i \in DOMAIN parts, NEW j \in DOMAIN parts, i < j,
                        NEW x \in Elements(parts[i].edges), NEW y \in Elements(parts[j].edges)
                 PROVE  <<x, y>> \in R
      OBVIOUS
    <2>1. x \in E[i] /\ y \in E[j] /\ i # j
      BY <1>2, <1>4
    <2>2. E[i] \cap E[j] = {}
      BY <1>2, <2>1
    <2>3. x \in X /\ y \in X /\ x # y
      BY <1>5, <2>1, <2>2
    <2> QED BY <1>6, <2>3
  <1> HIDE DEF R
  <1>9. Sorted(Joined(parts).edges, R)
    BY <1>3, <1>4, <1>7, <1>8, JoinedGraph
  <1>10. Holds(Joined(parts), Gathered(seq, N), Gathered(seq, E))
    BY JoinedHolds
  <1>11. IsList(Joined(parts).edges) /\ Elements(Joined(parts).edges) \subseteq X
    BY <1>10 DEF Holds, IsGraph, X
  <1> QED BY <1>9, <1>11, SortedApart DEF R

LEMMA JoinedTwo ==
  ASSUME NEW a, NEW Na, NEW Ea, Holds(a, Na, Ea),
         NEW b, NEW Nb, NEW Eb, Holds(b, Nb, Eb)
  PROVE  /\ Holds(Joined(<<a, b>>), Na \union Nb, Ea \union Eb)
         /\ (/\ IsInjective(a.edges) /\ IsInjective(b.edges)
             /\ Ea \cap Eb = {})
            => IsInjective(Joined(<<a, b>>).edges)
  <1> DEFINE l == <<a, b>>
             N == <<Na, Nb>>
             E == <<Ea, Eb>>
  <1>1. l = [i \in 1..2 |-> l[i]] /\ DOMAIN l = 1..2
        /\ l[1] = a /\ l[2] = b
    OBVIOUS
  <1>2. N[1] = Na /\ N[2] = Nb /\ E[1] = Ea /\ E[2] = Eb
    OBVIOUS
  <1>3. \A i : i \in 1..2 <=> i = 1 \/ i = 2
    OBVIOUS
  <1> HIDE DEF l, N, E
  <1>4. HoldsEach(l, l, N, E)
    <2>1. IsList(l)
      BY <1>1, FunctionIsList
    <2>2. \A i \in DOMAIN l : Holds(l[i], N[i], E[i])
      BY <1>1, <1>2, <1>3
    <2> QED BY <1>1, <2>1, <2>2 DEF HoldsEach
  <1>5. Holds(Joined(l), Gathered(l, N), Gathered(l, E))
    BY <1>4, JoinedHolds
  <1>6. Gathered(l, N) = Na \union Nb
    BY <1>1, <1>2, <1>3 DEF Gathered
  <1>7. Gathered(l, E) = Ea \union Eb
    BY <1>1, <1>2, <1>3 DEF Gathered
  <1>8. ASSUME IsInjective(a.edges), IsInjective(b.edges),
               Ea \cap Eb = {}
        PROVE  IsInjective(Joined(l).edges)
    <2>1. \A i \in DOMAIN l : IsInjective(l[i].edges)
      BY <1>1, <1>3, <1>8
    <2>2. \A i, j \in DOMAIN l : i # j => E[i] \cap E[j] = {}
      BY <1>1, <1>2, <1>3, <1>8
    <2> QED BY <1>4, <2>1, <2>2, JoinedOnce
  <1> QED BY <1>5, <1>6, <1>7, <1>8 DEF l

LEMMA JoinedThree ==
  ASSUME NEW a, NEW Na, NEW Ea, Holds(a, Na, Ea),
         NEW b, NEW Nb, NEW Eb, Holds(b, Nb, Eb),
         NEW c, NEW Nc, NEW Ec, Holds(c, Nc, Ec)
  PROVE  /\ Holds(Joined(<<a, b, c>>), Na \union Nb \union Nc, Ea \union Eb \union Ec)
         /\ (/\ IsInjective(a.edges) /\ IsInjective(b.edges) /\ IsInjective(c.edges)
             /\ Ea \cap Eb = {} /\ Ea \cap Ec = {} /\ Eb \cap Ec = {})
            => IsInjective(Joined(<<a, b, c>>).edges)
  <1> DEFINE l == <<a, b, c>>
             N == <<Na, Nb, Nc>>
             E == <<Ea, Eb, Ec>>
  <1>1. l = [i \in 1..3 |-> l[i]] /\ DOMAIN l = 1..3
        /\ l[1] = a /\ l[2] = b /\ l[3] = c
    OBVIOUS
  <1>2. N[1] = Na /\ N[2] = Nb /\ N[3] = Nc /\ E[1] = Ea /\ E[2] = Eb /\ E[3] = Ec
    OBVIOUS
  <1>3. \A i : i \in 1..3 <=> i = 1 \/ i = 2 \/ i = 3
    OBVIOUS
  <1> HIDE DEF l, N, E
  <1>4. HoldsEach(l, l, N, E)
    <2>1. IsList(l)
      BY <1>1, FunctionIsList
    <2>2. \A i \in DOMAIN l : Holds(l[i], N[i], E[i])
      BY <1>1, <1>2, <1>3
    <2> QED BY <1>1, <2>1, <2>2 DEF HoldsEach
  <1>5. Holds(Joined(l), Gathered(l, N), Gathered(l, E))
    BY <1>4, JoinedHolds
  <1>6. Gathered(l, N) = Na \union Nb \union Nc
    BY <1>1, <1>2, <1>3 DEF Gathered
  <1>7. Gathered(l, E) = Ea \union Eb \union Ec
    BY <1>1, <1>2, <1>3 DEF Gathered
  <1>8. ASSUME IsInjective(a.edges), IsInjective(b.edges), IsInjective(c.edges),
               Ea \cap Eb = {}, Ea \cap Ec = {}, Eb \cap Ec = {}
        PROVE  IsInjective(Joined(l).edges)
    <2>1. \A i \in DOMAIN l : IsInjective(l[i].edges)
      BY <1>1, <1>3, <1>8
    <2>2. \A i, j \in DOMAIN l : i # j => E[i] \cap E[j] = {}
      BY <1>1, <1>2, <1>3, <1>8
    <2> QED BY <1>4, <2>1, <2>2, JoinedOnce
  <1> QED BY <1>5, <1>6, <1>7, <1>8 DEF l

LEMMA JoinedFour ==
  ASSUME NEW a, NEW Na, NEW Ea, Holds(a, Na, Ea),
         NEW b, NEW Nb, NEW Eb, Holds(b, Nb, Eb),
         NEW c, NEW Nc, NEW Ec, Holds(c, Nc, Ec),
         NEW d, NEW Nd, NEW Ed, Holds(d, Nd, Ed)
  PROVE  /\ Holds(Joined(<<a, b, c, d>>), Na \union Nb \union Nc \union Nd, Ea \union Eb \union Ec \union Ed)
         /\ (/\ IsInjective(a.edges) /\ IsInjective(b.edges) /\ IsInjective(c.edges) /\ IsInjective(d.edges)
             /\ Ea \cap Eb = {} /\ Ea \cap Ec = {} /\ Ea \cap Ed = {} /\ Eb \cap Ec = {}
             /\ Eb \cap Ed = {} /\ Ec \cap Ed = {})
            => IsInjective(Joined(<<a, b, c, d>>).edges)
  <1> DEFINE l == <<a, b, c, d>>
             N == <<Na, Nb, Nc, Nd>>
             E == <<Ea, Eb, Ec, Ed>>
  <1>1. l = [i \in 1..4 |-> l[i]] /\ DOMAIN l = 1..4
        /\ l[1] = a /\ l[2] = b /\ l[3] = c /\ l[4] = d
    OBVIOUS
  <1>2. N[1] = Na /\ N[2] = Nb /\ N[3] = Nc /\ N[4] = Nd /\ E[1] = Ea /\ E[2] = Eb /\ E[3] = Ec /\ E[4] = Ed
    OBVIOUS
  <1>3. \A i : i \in 1..4 <=> i = 1 \/ i = 2 \/ i = 3 \/ i = 4
    OBVIOUS
  <1> HIDE DEF l, N, E
  <1>4. HoldsEach(l, l, N, E)
    <2>1. IsList(l)
      BY <1>1, FunctionIsList
    <2>2. \A i \in DOMAIN l : Holds(l[i], N[i], E[i])
      BY <1>1, <1>2, <1>3
    <2> QED BY <1>1, <2>1, <2>2 DEF HoldsEach
  <1>5. Holds(Joined(l), Gathered(l, N), Gathered(l, E))
    BY <1>4, JoinedHolds
  <1>6. Gathered(l, N) = Na \union Nb \union Nc \union Nd
    BY <1>1, <1>2, <1>3 DEF Gathered
  <1>7. Gathered(l, E) = Ea \union Eb \union Ec \union Ed
    BY <1>1, <1>2, <1>3 DEF Gathered
  <1>8. ASSUME IsInjective(a.edges), IsInjective(b.edges), IsInjective(c.edges), IsInjective(d.edges),
               Ea \cap Eb = {}, Ea \cap Ec = {}, Ea \cap Ed = {}, Eb \cap Ec = {},
               Eb \cap Ed = {}, Ec \cap Ed = {}
        PROVE  IsInjective(Joined(l).edges)
    <2>1. \A i \in DOMAIN l : IsInjective(l[i].edges)
      BY <1>1, <1>3, <1>8
    <2>2. \A i, j \in DOMAIN l : i # j => E[i] \cap E[j] = {}
      BY <1>1, <1>2, <1>3, <1>8
    <2> QED BY <1>4, <2>1, <2>2, JoinedOnce
  <1> QED BY <1>5, <1>6, <1>7, <1>8 DEF l

LEMMA JoinedFive ==
  ASSUME NEW a, NEW Na, NEW Ea, Holds(a, Na, Ea),
         NEW b, NEW Nb, NEW Eb, Holds(b, Nb, Eb),
         NEW c, NEW Nc, NEW Ec, Holds(c, Nc, Ec),
         NEW d, NEW Nd, NEW Ed, Holds(d, Nd, Ed),
         NEW e, NEW Ne, NEW Ee, Holds(e, Ne, Ee)
  PROVE  /\ Holds(Joined(<<a, b, c, d, e>>), Na \union Nb \union Nc \union Nd \union Ne, Ea \union Eb \union Ec \union Ed \union Ee)
         /\ (/\ IsInjective(a.edges) /\ IsInjective(b.edges) /\ IsInjective(c.edges) /\ IsInjective(d.edges) /\ IsInjective(e.edges)
             /\ Ea \cap Eb = {} /\ Ea \cap Ec = {} /\ Ea \cap Ed = {} /\ Ea \cap Ee = {}
             /\ Eb \cap Ec = {} /\ Eb \cap Ed = {} /\ Eb \cap Ee = {} /\ Ec \cap Ed = {}
             /\ Ec \cap Ee = {} /\ Ed \cap Ee = {})
            => IsInjective(Joined(<<a, b, c, d, e>>).edges)
  <1> DEFINE l == <<a, b, c, d, e>>
             N == <<Na, Nb, Nc, Nd, Ne>>
             E == <<Ea, Eb, Ec, Ed, Ee>>
  <1>1. l = [i \in 1..5 |-> l[i]] /\ DOMAIN l = 1..5
        /\ l[1] = a /\ l[2] = b /\ l[3] = c /\ l[4] = d /\ l[5] = e
    OBVIOUS
  <1>2. N[1] = Na /\ N[2] = Nb /\ N[3] = Nc /\ N[4] = Nd /\ N[5] = Ne /\ E[1] = Ea /\ E[2] = Eb /\ E[3] = Ec /\ E[4] = Ed /\ E[5] = Ee
    OBVIOUS
  <1>3. \A i : i \in 1..5 <=> i = 1 \/ i = 2 \/ i = 3 \/ i = 4 \/ i = 5
    OBVIOUS
  <1> HIDE DEF l, N, E
  <1>4. HoldsEach(l, l, N, E)
    <2>1. IsList(l)
      BY <1>1, FunctionIsList
    <2>2. \A i \in DOMAIN l : Holds(l[i], N[i], E[i])
      BY <1>1, <1>2, <1>3
    <2> QED BY <1>1, <2>1, <2>2 DEF HoldsEach
  <1>5. Holds(Joined(l), Gathered(l, N), Gathered(l, E))
    BY <1>4, JoinedHolds
  <1>6. Gathered(l, N) = Na \union Nb \union Nc \union Nd \union Ne
    BY <1>1, <1>2, <1>3 DEF Gathered
  <1>7. Gathered(l, E) = Ea \union Eb \union Ec \union Ed \union Ee
    BY <1>1, <1>2, <1>3 DEF Gathered
  <1>8. ASSUME IsInjective(a.edges), IsInjective(b.edges), IsInjective(c.edges), IsInjective(d.edges), IsInjective(e.edges),
               Ea \cap Eb = {}, Ea \cap Ec = {}, Ea \cap Ed = {}, Ea \cap Ee = {},
               Eb \cap Ec = {}, Eb \cap Ed = {}, Eb \cap Ee = {}, Ec \cap Ed = {},
               Ec \cap Ee = {}, Ed \cap Ee = {}
        PROVE  IsInjective(Joined(l).edges)
    <2>1. \A i \in DOMAIN l : IsInjective(l[i].edges)
      BY <1>1, <1>3, <1>8
    <2>2. \A i, j \in DOMAIN l : i # j => E[i] \cap E[j] = {}
      BY <1>1, <1>2, <1>3, <1>8
    <2> QED BY <1>4, <2>1, <2>2, JoinedOnce
  <1> QED BY <1>5, <1>6, <1>7, <1>8 DEF l

LEMMA ChildHolds ==
  ASSUME NEW owner, NEW predicate, NEW node, NEW more, IsList(more)
  PROVE  Holds(Child(owner, predicate, node, more), {node},
               {Edge(predicate, owner, node.key)} \union Elements(more))
  <1> DEFINE first == Edge(predicate, owner, node.key)
             X == {first} \union Elements(more)
             all == <<first>> \o more
  <1>1. IsList(<<node>>) /\ Elements(<<node>>) = {node}
    BY ListOfOne
  <1>2. more \in Seq(X) /\ <<first>> \in Seq(X) /\ Elements(<<first>>) = {first}
    <2>1. IsList(<<first>>) /\ Elements(<<first>>) = {first}
      <3> HIDE DEF first
      <3> QED BY ListOfOne
    <2>2. Elements(<<first>>) \subseteq X /\ Elements(more) \subseteq X
      BY <2>1
    <2> HIDE DEF X, first
    <2> QED BY <2>1, <2>2, ListIsSeq
  <1>3. Child(owner, predicate, node, more) = Graph(<<node>>, all)
    BY DEF Child
  <1> HIDE DEF first, X
  <1>4. all \in Seq(X) /\ \A x : x \in Elements(all) <=> x \in Elements(<<first>>) \/ x \in Elements(more)
    BY <1>2, Concatenated
  <1> HIDE DEF all
  <1>5. IsList(all)
    BY <1>4, ElementsOfSeq
  <1>6. Elements(all) = {first} \union Elements(more)
    BY <1>2, <1>4
  <1>7. /\ IsGraph(Graph(<<node>>, all))
        /\ Graph(<<node>>, all).nodes = <<node>> /\ Graph(<<node>>, all).edges = all
    BY <1>1, <1>5, GraphFields
  <1> QED BY <1>1, <1>3, <1>6, <1>7 DEF Holds, first

LEMMA LeafHolds ==
  ASSUME NEW owner, NEW predicate, NEW node
  PROVE  Holds(Child(owner, predicate, node, <<>>), {node}, {Edge(predicate, owner, node.key)})
  <1>1. Holds(Child(owner, predicate, node, <<>>), {node},
              {Edge(predicate, owner, node.key)} \union Elements(<<>>))
    BY EmptyList, ChildHolds
  <1>2. {Edge(predicate, owner, node.key)} \union Elements(<<>>) = {Edge(predicate, owner, node.key)}
    BY EmptyList
  <1> QED BY <1>1, <1>2

(* Children that nothing else leaves, one for each of a list of nodes.      *)
Links(owner, predicate, nodes) == {Edge(predicate, owner, nodes[i].key) : i \in DOMAIN nodes}
LeafEach(owner, predicate, nodes, parts) ==
  IsList(nodes) /\ parts = [i \in DOMAIN nodes |-> Child(owner, predicate, nodes[i], <<>>)]

LEMMA LeavesHold ==
  ASSUME NEW owner, NEW predicate, NEW nodes, NEW parts, LeafEach(owner, predicate, nodes, parts)
  PROVE  Holds(Joined(parts), Elements(nodes), Links(owner, predicate, nodes))
  <1> DEFINE N == [i \in DOMAIN nodes |-> {nodes[i]}]
             E == [i \in DOMAIN nodes |-> {Edge(predicate, owner, nodes[i].key)}]
  <1>1. IsList(nodes) /\ parts = [i \in DOMAIN nodes |-> Child(owner, predicate, nodes[i], <<>>)]
    BY DEF LeafEach
  <1>2. HoldsEach(nodes, parts, N, E)
    <2>1. \A i \in DOMAIN nodes : Holds(parts[i], N[i], E[i])
      BY <1>1, LeafHolds
    <2>2. parts = [i \in DOMAIN nodes |-> parts[i]]
      BY <1>1
    <2> HIDE DEF N, E
    <2> QED BY <1>1, <2>1, <2>2 DEF HoldsEach
  <1>3. Gathered(nodes, N) = Elements(nodes)
    BY DEF Gathered, Elements, ToSet
  <1>4. Gathered(nodes, E) = Links(owner, predicate, nodes)
    BY DEF Gathered, Links
  <1> HIDE DEF N, E
  <1>5. Holds(Joined(parts), Gathered(nodes, N), Gathered(nodes, E))
    BY <1>2, JoinedHolds
  <1> QED BY <1>3, <1>4, <1>5

(* A node for each of a list.                                               *)
LEMMA NodesOf ==
  ASSUME NEW seq, IsList(seq), NEW nodes, nodes = [i \in DOMAIN seq |-> nodes[i]]
  PROVE  IsList(nodes) /\ DOMAIN nodes = DOMAIN seq /\ Len(nodes) = Len(seq)
  <1>1. DOMAIN seq = 1..Len(seq) /\ Len(seq) \in Nat
    BY ListProperties
  <1> QED BY <1>1, FunctionIsList

(* Fields.                                                                  *)
FieldNodes(owner, kind, fields) ==
  [i \in DOMAIN fields |-> Node("field", Part(owner, kind, fields[i].name), i, fields[i])]
TypedEdges(owner, kind, fields) ==
  {Edge("OF_TYPE", Part(owner, kind, f.name), Key(f.ty.name)) : f \in {f \in Elements(fields) : f.ty.name # Absent}}
FieldEdges(owner, kind, fields) ==
  Links(Key(owner), "HAS_FIELD", FieldNodes(owner, kind, fields)) \union TypedEdges(owner, kind, fields)

LEMMA TypedByList ==
  ASSUME NEW from, NEW ty
  PROVE  /\ IsList(TypedBy(from, ty))
         /\ Elements(TypedBy(from, ty)) = IF ty.name = Absent THEN {} ELSE {Edge("OF_TYPE", from, Key(ty.name))}
  <1>1. CASE ty.name = Absent
    BY <1>1, EmptyList DEF TypedBy
  <1>2. CASE ty.name # Absent
    BY <1>2, ListOfOne DEF TypedBy
  <1> QED BY <1>1, <1>2

LEMMA FieldsHold ==
  ASSUME NEW owner, NEW kind, NEW fields, IsList(fields)
  PROVE  Holds(PushFields(owner, kind, fields), Elements(FieldNodes(owner, kind, fields)),
               FieldEdges(owner, kind, fields))
  <1> DEFINE key(i) == Part(owner, kind, fields[i].name)
             node(i) == Node("field", key(i), i, fields[i])
             typed(i) == TypedBy(key(i), fields[i].ty)
             parts == [i \in DOMAIN fields |-> Child(Key(owner), "HAS_FIELD", node(i), typed(i))]
             N == [i \in DOMAIN fields |-> {node(i)}]
             E == [i \in DOMAIN fields |-> {Edge("HAS_FIELD", Key(owner), key(i))} \union Elements(typed(i))]
  <1>1. PushFields(owner, kind, fields) = Joined(parts)
    BY DEF PushFields, Each
  <1>2. HoldsEach(fields, parts, N, E)
    <2>1. ASSUME NEW i \in DOMAIN fields PROVE Holds(parts[i], N[i], E[i])
      <3>1. node(i).key = key(i)
        BY DEF Node
      <3>2. IsList(typed(i))
        BY TypedByList
      <3> HIDE DEF node, typed, key
      <3>3. Holds(Child(Key(owner), "HAS_FIELD", node(i), typed(i)), {node(i)},
                  {Edge("HAS_FIELD", Key(owner), node(i).key)} \union Elements(typed(i)))
        BY <3>2, ChildHolds
      <3> QED BY <3>1, <3>3
    <2>2. parts = [i \in DOMAIN fields |-> parts[i]]
      OBVIOUS
    <2> HIDE DEF parts, N, E
    <2> QED BY <2>1, <2>2 DEF HoldsEach
  <1>3. Gathered(fields, N) = Elements(FieldNodes(owner, kind, fields))
    BY DEF Gathered, FieldNodes, Elements, ToSet
  <1>4. Gathered(fields, E) = FieldEdges(owner, kind, fields)
    <2>1. \A i \in DOMAIN fields :
            Elements(typed(i)) = IF fields[i].ty.name = Absent THEN {} ELSE {Edge("OF_TYPE", key(i), Key(fields[i].ty.name))}
      BY TypedByList
    <2>2. \A i \in DOMAIN fields : FieldNodes(owner, kind, fields)[i].key = key(i)
      BY DEF FieldNodes, Node
    <2>3. DOMAIN FieldNodes(owner, kind, fields) = DOMAIN fields
      BY DEF FieldNodes
    <2>4. Links(Key(owner), "HAS_FIELD", FieldNodes(owner, kind, fields))
            = {Edge("HAS_FIELD", Key(owner), key(i)) : i \in DOMAIN fields}
      BY <2>2, <2>3 DEF Links
    <2>5. TypedEdges(owner, kind, fields)
            = {Edge("OF_TYPE", key(i), Key(fields[i].ty.name)) : i \in {j \in DOMAIN fields : fields[j].ty.name # Absent}}
      BY DEF TypedEdges, Elements, ToSet
    <2> HIDE DEF typed, key
    <2> QED BY <2>1, <2>4, <2>5 DEF Gathered, FieldEdges
  <1> HIDE DEF parts, N, E
  <1>5. Holds(Joined(parts), Gathered(fields, N), Gathered(fields, E))
    BY <1>2, JoinedHolds
  <1> QED BY <1>1, <1>3, <1>4, <1>5

(* A data type.                                                             *)
TypeSelf(t, i)   == Node("type", Key(t.name), i, [kind |-> t.kind])
VariantNodes(t)  == [j \in DOMAIN t.variants |->
                       Node("variant", Part(t.name, "variant", t.variants[j]), j, [variant |-> t.variants[j]])]
TypeNodes(t, i)  == {TypeSelf(t, i)} \union Elements(FieldNodes(t.name, "field", t.fields))
                      \union Elements(VariantNodes(t))
TypeEdges(s, t)  == {Edge("HAS_TYPE", Root(s), Key(t.name))} \union FieldEdges(t.name, "field", t.fields)
                      \union Links(Key(t.name), "HAS_VARIANT", VariantNodes(t))

LEMMA TypeHolds ==
  ASSUME NEW s, NEW t, IsDomainType(t), NEW i
  PROVE  Holds(PushType(s, t, i), TypeNodes(t, i), TypeEdges(s, t))
  <1> DEFINE nodes == VariantNodes(t)
             parts == [j \in DOMAIN nodes |-> Child(Key(t.name), "HAS_VARIANT", nodes[j], <<>>)]
             a == Child(Root(s), "HAS_TYPE", TypeSelf(t, i), <<>>)
             b == PushFields(t.name, "field", t.fields)
  <1>1. IsList(t.variants) /\ IsList(t.fields)
    BY DEF IsDomainType, AreFields
  <1>2. DOMAIN nodes = DOMAIN t.variants /\ IsList(nodes)
    <2>1. nodes = [j \in DOMAIN t.variants |-> nodes[j]]
      BY DEF VariantNodes
    <2> QED BY <1>1, <2>1, NodesOf
  <1>3. PushType(s, t, i) = Joined(<<a, b, Joined(parts)>>)
    <2>1. parts = [j \in DOMAIN t.variants |-> Child(Key(t.name), "HAS_VARIANT",
                       Node("variant", Part(t.name, "variant", t.variants[j]), j, [variant |-> t.variants[j]]), <<>>)]
      BY <1>2 DEF VariantNodes
    <2> HIDE DEF parts
    <2> QED BY <2>1 DEF PushType, Each, TypeSelf
  <1>4. Holds(Joined(parts), Elements(nodes), Links(Key(t.name), "HAS_VARIANT", nodes))
    <2>1. LeafEach(Key(t.name), "HAS_VARIANT", nodes, parts)
      BY <1>2 DEF LeafEach
    <2> HIDE DEF parts, nodes
    <2> QED BY <2>1, LeavesHold
  <1>5. Holds(a, {TypeSelf(t, i)}, {Edge("HAS_TYPE", Root(s), Key(t.name))})
    <2>1. TypeSelf(t, i).key = Key(t.name)
      BY DEF TypeSelf, Node
    <2>2. Holds(a, {TypeSelf(t, i)}, {Edge("HAS_TYPE", Root(s), TypeSelf(t, i).key)})
      BY LeafHolds
    <2> QED BY <2>1, <2>2
  <1>6. Holds(b, Elements(FieldNodes(t.name, "field", t.fields)), FieldEdges(t.name, "field", t.fields))
    BY <1>1, FieldsHold
  <1> HIDE DEF parts, a, b
  <1> QED BY <1>3, <1>4, <1>5, <1>6, JoinedThree DEF TypeNodes, TypeEdges

(* An actor.                                                                *)
ActorSelf(a, i)  == Node("actor", Key(a.name), i, [uses |-> a.uses])
HandlerNodes(a)  == [j \in DOMAIN a.handlers |->
                       Node("handler", Part(a.name, "handler", a.handlers[j]), j, [method |-> a.handlers[j]])]
ActorNodes(a, i) == {ActorSelf(a, i)} \union Elements(HandlerNodes(a))
                      \union Elements(FieldNodes(a.name, "state", a.state))
ActorEdges(s, a) == {Edge("HAS_ACTOR", Root(s), Key(a.name))} \union Links(Key(a.name), "HAS_HANDLER", HandlerNodes(a))
                      \union FieldEdges(a.name, "state", a.state)

LEMMA ActorHolds ==
  ASSUME NEW s, NEW t, IsActor(t), NEW i
  PROVE  Holds(PushActor(s, t, i), ActorNodes(t, i), ActorEdges(s, t))
  <1> DEFINE nodes == HandlerNodes(t)
             parts == [j \in DOMAIN nodes |-> Child(Key(t.name), "HAS_HANDLER", nodes[j], <<>>)]
             a == Child(Root(s), "HAS_ACTOR", ActorSelf(t, i), <<>>)
             c == PushFields(t.name, "state", t.state)
  <1>1. IsList(t.handlers) /\ IsList(t.state)
    BY DEF IsActor, AreFields
  <1>2. DOMAIN nodes = DOMAIN t.handlers /\ IsList(nodes)
    <2>1. nodes = [j \in DOMAIN t.handlers |-> nodes[j]]
      BY DEF HandlerNodes
    <2> QED BY <1>1, <2>1, NodesOf
  <1>3. PushActor(s, t, i) = Joined(<<a, Joined(parts), c>>)
    <2>1. parts = [j \in DOMAIN t.handlers |-> Child(Key(t.name), "HAS_HANDLER",
                       Node("handler", Part(t.name, "handler", t.handlers[j]), j, [method |-> t.handlers[j]]), <<>>)]
      BY <1>2 DEF HandlerNodes
    <2> HIDE DEF parts
    <2> QED BY <2>1 DEF PushActor, Each, ActorSelf
  <1>4. Holds(Joined(parts), Elements(nodes), Links(Key(t.name), "HAS_HANDLER", nodes))
    <2>1. LeafEach(Key(t.name), "HAS_HANDLER", nodes, parts)
      BY <1>2 DEF LeafEach
    <2> HIDE DEF parts, nodes
    <2> QED BY <2>1, LeavesHold
  <1>5. Holds(a, {ActorSelf(t, i)}, {Edge("HAS_ACTOR", Root(s), Key(t.name))})
    <2>1. ActorSelf(t, i).key = Key(t.name)
      BY DEF ActorSelf, Node
    <2>2. Holds(a, {ActorSelf(t, i)}, {Edge("HAS_ACTOR", Root(s), ActorSelf(t, i).key)})
      BY LeafHolds
    <2> QED BY <2>1, <2>2
  <1>6. Holds(c, Elements(FieldNodes(t.name, "state", t.state)), FieldEdges(t.name, "state", t.state))
    BY <1>1, FieldsHold
  <1> HIDE DEF parts, a, c
  <1> QED BY <1>3, <1>4, <1>5, <1>6, JoinedThree DEF ActorNodes, ActorEdges

(* A method: who lists it is whom its edges lead to.                        *)
MethodSelf(m, i) == Node("method", Key(m.method), i, [result |-> m.result])
Dispatched(s, m) == {Edge("HANDLED_BY", Key(m.method), Key(a.name)) :
                       a \in {a \in Elements(s.actors) : m.method \in Elements(a.handlers)}}
ResultEdges(m)   == {Edge("OF_TYPE", Key(m.method), Key(ty.name)) : ty \in {ty \in {m.result} : ty.name # Absent}}
MethodNodes(m, i) == {MethodSelf(m, i)} \union Elements(FieldNodes(m.method, "param", m.params)) \union {} \union {}
MethodEdges(s, m) == {Edge("HAS_METHOD", Root(s), Key(m.method))} \union FieldEdges(m.method, "param", m.params)
                       \union ResultEdges(m) \union Dispatched(s, m)

LEMMA EdgesHold ==
  ASSUME NEW edges, IsList(edges)
  PROVE  Holds(Graph(<<>>, edges), {}, Elements(edges))
  BY EmptyList, GraphFields DEF Holds

LEMMA MethodHolds ==
  ASSUME NEW s, IsList(s.actors), NEW t, IsMethod(t), NEW i
  PROVE  Holds(PushMethod(s, t, i), MethodNodes(t, i), MethodEdges(s, t))
  <1> DEFINE handling == {j \in DOMAIN s.actors : t.method \in Elements(s.actors[j].handlers)}
             owners == Keep(s.actors, handling)
             handled == [j \in DOMAIN owners |-> Edge("HANDLED_BY", Key(t.method), Key(owners[j].name))]
             a == Child(Root(s), "HAS_METHOD", MethodSelf(t, i), <<>>)
             b == PushFields(t.method, "param", t.params)
             c == Graph(<<>>, TypedBy(Key(t.method), t.result))
             d == Graph(<<>>, handled)
  <1>1. PushMethod(s, t, i) = Joined(<<a, b, c, d>>)
    BY DEF PushMethod, MethodSelf
  <1>2. Holds(a, {MethodSelf(t, i)}, {Edge("HAS_METHOD", Root(s), Key(t.method))})
    <2>1. MethodSelf(t, i).key = Key(t.method)
      BY DEF MethodSelf, Node
    <2>2. Holds(a, {MethodSelf(t, i)}, {Edge("HAS_METHOD", Root(s), MethodSelf(t, i).key)})
      BY LeafHolds
    <2> QED BY <2>1, <2>2
  <1>3. Holds(b, Elements(FieldNodes(t.method, "param", t.params)), FieldEdges(t.method, "param", t.params))
    BY FieldsHold DEF IsMethod, AreFields
  <1>4. Holds(c, {}, ResultEdges(t))
    <2>1. IsList(TypedBy(Key(t.method), t.result))
      BY TypedByList
    <2>2. Elements(TypedBy(Key(t.method), t.result)) = ResultEdges(t)
      BY TypedByList DEF ResultEdges
    <2> QED BY <2>1, <2>2, EdgesHold
  <1>5. Holds(d, {}, Dispatched(s, t))
    <2>1. handling \subseteq DOMAIN s.actors
      OBVIOUS
    <2>2. IsList(owners) /\ Elements(owners) = {s.actors[j] : j \in handling}
      <3> HIDE DEF handling
      <3> QED BY <2>1, KeptElements
    <2>3. IsList(handled)
      <3>1. handled = [j \in DOMAIN owners |-> handled[j]]
        OBVIOUS
      <3> HIDE DEF handled, owners
      <3> QED BY <2>2, <3>1, NodesOf
    <2>4. Elements(handled) = {Edge("HANDLED_BY", Key(t.method), Key(x.name)) : x \in Elements(owners)}
      <3> HIDE DEF owners
      <3> QED BY DEF Elements, ToSet
    <2>5. {s.actors[j] : j \in handling} = {x \in Elements(s.actors) : t.method \in Elements(x.handlers)}
      BY DEF Elements, ToSet
    <2>6. Elements(handled) = Dispatched(s, t)
      <3> HIDE DEF owners, handled, handling
      <3> QED BY <2>2, <2>4, <2>5 DEF Dispatched
    <2> HIDE DEF handled
    <2> QED BY <2>3, <2>6, EdgesHold
  <1> HIDE DEF a, b, c, d
  <1> QED BY <1>1, <1>2, <1>3, <1>4, <1>5, JoinedFour DEF MethodNodes, MethodEdges

(* A node type of the app's graph, and an edge type.                        *)
GraphNodeSelf(n, i)  == Node("graph_node", Key(n.name), i, NoProps)
GraphNodeNodes(n, i) == {GraphNodeSelf(n, i)} \union Elements(FieldNodes(n.name, "gfield", n.fields))
GraphNodeEdges(s, n) == {Edge("HAS_GRAPH_NODE", Root(s), Key(n.name))} \union FieldEdges(n.name, "gfield", n.fields)
LinkNodes(s) == [i \in DOMAIN s.links |-> Node("graph_edge", Part(s.name, "edge", s.links[i].name), i, s.links[i])]

PushGraphNode(s, n, i) ==
  Joined(<<Child(Root(s), "HAS_GRAPH_NODE", Node("graph_node", Key(n.name), i, NoProps), <<>>),
           PushFields(n.name, "gfield", n.fields)>>)

LEMMA GraphNodeHolds ==
  ASSUME NEW s, NEW n, IsNodeType(n), NEW i
  PROVE  Holds(PushGraphNode(s, n, i), GraphNodeNodes(n, i), GraphNodeEdges(s, n))
  <1> DEFINE a == Child(Root(s), "HAS_GRAPH_NODE", GraphNodeSelf(n, i), <<>>)
             b == PushFields(n.name, "gfield", n.fields)
  <1>1. Holds(a, {GraphNodeSelf(n, i)}, {Edge("HAS_GRAPH_NODE", Root(s), Key(n.name))})
    <2>1. GraphNodeSelf(n, i).key = Key(n.name)
      BY DEF GraphNodeSelf, Node
    <2>2. Holds(a, {GraphNodeSelf(n, i)}, {Edge("HAS_GRAPH_NODE", Root(s), GraphNodeSelf(n, i).key)})
      BY LeafHolds
    <2> QED BY <2>1, <2>2
  <1>2. Holds(b, Elements(FieldNodes(n.name, "gfield", n.fields)), FieldEdges(n.name, "gfield", n.fields))
    BY FieldsHold DEF IsNodeType, AreFields
  <1>3. PushGraphNode(s, n, i) = Joined(<<a, b>>)
    BY DEF PushGraphNode, GraphNodeSelf
  <1> HIDE DEF a, b
  <1> QED BY <1>1, <1>2, <1>3, JoinedTwo DEF GraphNodeNodes, GraphNodeEdges

(* The part of the spec no actor is in.                                     *)
RootNode(s)      == Node("appspec", Root(s), 0, NoProps)
TypesNodes(s)    == UNION {TypeNodes(s.types[i], i) : i \in DOMAIN s.types}
TypesEdges(s)    == UNION {TypeEdges(s, s.types[i]) : i \in DOMAIN s.types}
GraphTypeNodes(s) == UNION {GraphNodeNodes(s.nodes[i], i) : i \in DOMAIN s.nodes}
GraphTypeEdges(s) == UNION {GraphNodeEdges(s, s.nodes[i]) : i \in DOMAIN s.nodes}
CoreNodes(s) == {RootNode(s)} \union TypesNodes(s) \union GraphTypeNodes(s) \union Elements(LinkNodes(s))
CoreEdges(s) == {} \union TypesEdges(s) \union GraphTypeEdges(s) \union Links(Root(s), "HAS_GRAPH_EDGE", LinkNodes(s))

LEMMA CoreHolds ==
  ASSUME NEW s, IsAppSpec(s)
  PROVE  Holds(DecomposeCore(s), CoreNodes(s), CoreEdges(s))
  <1> DEFINE a == Graph(<<RootNode(s)>>, <<>>)
             types == [i \in DOMAIN s.types |-> PushType(s, s.types[i], i)]
             graphs == [i \in DOMAIN s.nodes |-> PushGraphNode(s, s.nodes[i], i)]
             nodes == LinkNodes(s)
             links == [i \in DOMAIN nodes |-> Child(Root(s), "HAS_GRAPH_EDGE", nodes[i], <<>>)]
  <1>0. /\ IsList(s.types) /\ \A i \in DOMAIN s.types : IsDomainType(s.types[i])
        /\ IsList(s.nodes) /\ \A i \in DOMAIN s.nodes : IsNodeType(s.nodes[i])
        /\ IsList(s.links)
    BY DEF IsAppSpec, Elements, ToSet
  <1>1. IsList(nodes) /\ DOMAIN nodes = DOMAIN s.links
    <2>1. nodes = [i \in DOMAIN s.links |-> nodes[i]]
      BY DEF LinkNodes
    <2> QED BY <1>0, <2>1, NodesOf
  <1>2. DecomposeCore(s) = Joined(<<a, Joined(types), Joined(graphs), Joined(links)>>)
    <2>1. links = [i \in DOMAIN s.links |-> Child(Root(s), "HAS_GRAPH_EDGE",
                     Node("graph_edge", Part(s.name, "edge", s.links[i].name), i, s.links[i]), <<>>)]
      BY <1>1 DEF LinkNodes
    <2> HIDE DEF links
    <2> QED BY <2>1 DEF DecomposeCore, Each, RootNode, PushGraphNode
  <1>3. Holds(a, {RootNode(s)}, {})
    <2>1. IsList(<<RootNode(s)>>) /\ Elements(<<RootNode(s)>>) = {RootNode(s)}
      BY ListOfOne
    <2> QED BY <2>1, EmptyList, GraphFields DEF Holds
  <1>4. Holds(Joined(types), TypesNodes(s), TypesEdges(s))
    <2> DEFINE N == [i \in DOMAIN s.types |-> TypeNodes(s.types[i], i)]
               E == [i \in DOMAIN s.types |-> TypeEdges(s, s.types[i])]
    <2>1. \A i \in DOMAIN s.types : Holds(types[i], N[i], E[i])
      BY <1>0, TypeHolds
    <2>2. types = [i \in DOMAIN s.types |-> types[i]]
      OBVIOUS
    <2>3. Gathered(s.types, N) = TypesNodes(s) /\ Gathered(s.types, E) = TypesEdges(s)
      BY DEF Gathered, TypesNodes, TypesEdges
    <2> HIDE DEF N, E, types
    <2>4. HoldsEach(s.types, types, N, E)
      BY <1>0, <2>1, <2>2 DEF HoldsEach
    <2> QED BY <2>3, <2>4, JoinedHolds
  <1>5. Holds(Joined(graphs), GraphTypeNodes(s), GraphTypeEdges(s))
    <2> DEFINE N == [i \in DOMAIN s.nodes |-> GraphNodeNodes(s.nodes[i], i)]
               E == [i \in DOMAIN s.nodes |-> GraphNodeEdges(s, s.nodes[i])]
    <2>1. \A i \in DOMAIN s.nodes : Holds(graphs[i], N[i], E[i])
      BY <1>0, GraphNodeHolds
    <2>2. graphs = [i \in DOMAIN s.nodes |-> graphs[i]]
      OBVIOUS
    <2>3. Gathered(s.nodes, N) = GraphTypeNodes(s) /\ Gathered(s.nodes, E) = GraphTypeEdges(s)
      BY DEF Gathered, GraphTypeNodes, GraphTypeEdges
    <2> HIDE DEF N, E, graphs
    <2>4. HoldsEach(s.nodes, graphs, N, E)
      BY <1>0, <2>1, <2>2 DEF HoldsEach
    <2> QED BY <2>3, <2>4, JoinedHolds
  <1>6. Holds(Joined(links), Elements(nodes), Links(Root(s), "HAS_GRAPH_EDGE", nodes))
    <2>1. LeafEach(Root(s), "HAS_GRAPH_EDGE", nodes, links)
      BY <1>1 DEF LeafEach
    <2> HIDE DEF links, nodes
    <2> QED BY <2>1, LeavesHold
  <1> HIDE DEF a, types, graphs, links
  <1> QED BY <1>2, <1>3, <1>4, <1>5, <1>6, JoinedFour DEF CoreNodes, CoreEdges

(***************************************************************************)
(* A layout.  Its nodes are numbered as the tree is walked, from the       *)
(* number the walk starts with.                                            *)
(***************************************************************************)
LayoutKey(screen, i)     == Part(screen, "layout", i)
LayoutNode(screen, l, i) == Node("layout", LayoutKey(screen, i), i, [kind |-> l.kind, action |-> l.action])
LayoutTop(screen, i)     == Edge("HAS_LAYOUT", Key(screen), LayoutKey(screen, i))
LayoutDown(screen, i, j) == Edge("LAYOUT_CHILD", LayoutKey(screen, i), LayoutKey(screen, j))

LayoutSelf(screen, c) ==
  [graph |-> Graph(<<LayoutNode(screen, c[1], c[2])>>,
                   IF c[2] = 0 THEN <<LayoutTop(screen, c[2])>> ELSE <<>>),
   next |-> c[2] + 1]
LayoutStep(screen, push, c, acc, i) ==
  [graph |-> Joined(<<acc.graph, Graph(<<>>, <<LayoutDown(screen, c[2], acc.next)>>),
                      push[<<c[1].children[i], acc.next>>].graph>>),
   next |-> push[<<c[1].children[i], acc.next>>].next]
LayoutGrown(screen, push, c, after, i) ==
  IF i = 0 THEN LayoutSelf(screen, c) ELSE LayoutStep(screen, push, c, after[i - 1], i)
LayoutAfter(screen, push, c) ==
  CHOOSE after : after = [i \in 0..Len(c[1].children) |-> LayoutGrown(screen, push, c, after, i)]

AllLayoutNodes(screen) == {LayoutNode(screen, l, i) : l \in Layouts, i \in Nat}
AllLayoutEdges(screen) == {LayoutTop(screen, i) : i \in Nat} \union {LayoutDown(screen, i, j) : i, j \in Nat}
LayoutValues(screen) ==
  [graph : [nodes : Seq(AllLayoutNodes(screen)), edges : Seq(AllLayoutEdges(screen))], next : Nat]
Places == Layouts \X Nat

LEMMA LayoutValue ==
  ASSUME NEW screen, NEW g, NEW next \in Nat, NEW N, NEW E, Holds(g, N, E),
         N \subseteq AllLayoutNodes(screen), E \subseteq AllLayoutEdges(screen)
  PROVE  [graph |-> g, next |-> next] \in LayoutValues(screen)
  <1>1. g.nodes \in Seq(AllLayoutNodes(screen)) /\ g.edges \in Seq(AllLayoutEdges(screen))
    BY ListIsSeq DEF Holds, IsGraph
  <1>2. g = [nodes |-> g.nodes, edges |-> g.edges]
    BY DEF Holds, IsGraph, Graph
  <1> HIDE DEF AllLayoutNodes, AllLayoutEdges
  <1> QED BY <1>1, <1>2 DEF LayoutValues

LEMMA LayoutValueHolds ==
  ASSUME NEW screen, NEW v \in LayoutValues(screen)
  PROVE  /\ v.next \in Nat
         /\ Holds(v.graph, Elements(v.graph.nodes), Elements(v.graph.edges))
         /\ Elements(v.graph.nodes) \subseteq AllLayoutNodes(screen)
         /\ Elements(v.graph.edges) \subseteq AllLayoutEdges(screen)
  <1>1. /\ v.next \in Nat /\ v.graph = [nodes |-> v.graph.nodes, edges |-> v.graph.edges]
        /\ v.graph.nodes \in Seq(AllLayoutNodes(screen)) /\ v.graph.edges \in Seq(AllLayoutEdges(screen))
    BY DEF LayoutValues
  <1> QED BY <1>1, ElementsOfSeq DEF Holds, IsGraph, Graph

LEMMA LayoutSelfValue ==
  ASSUME NEW screen, NEW l \in Layouts, NEW i \in Nat
  PROVE  /\ LayoutSelf(screen, <<l, i>>) \in LayoutValues(screen)
         /\ LayoutSelf(screen, <<l, i>>).next = i + 1
         /\ Holds(LayoutSelf(screen, <<l, i>>).graph, {LayoutNode(screen, l, i)},
                  IF i = 0 THEN {LayoutTop(screen, i)} ELSE {})
  <1> DEFINE node == LayoutNode(screen, l, i)
             edges == IF i = 0 THEN <<LayoutTop(screen, i)>> ELSE <<>>
             E == IF i = 0 THEN {LayoutTop(screen, i)} ELSE {}
             g == Graph(<<node>>, edges)
  <1>1. IsList(edges) /\ Elements(edges) = E
    BY EmptyList, ListOfOne
  <1>2. E \subseteq AllLayoutEdges(screen) /\ {node} \subseteq AllLayoutNodes(screen)
    BY DEF AllLayoutEdges, AllLayoutNodes
  <1>3. LayoutSelf(screen, <<l, i>>) = [graph |-> g, next |-> i + 1] /\ i + 1 \in Nat
    BY DEF LayoutSelf
  <1> HIDE DEF node, edges, E
  <1>4. Holds(g, {node}, E)
    <2>1. IsList(<<node>>) /\ Elements(<<node>>) = {node}
      BY ListOfOne
    <2> QED BY <1>1, <2>1, GraphFields DEF Holds
  <1> HIDE DEF g
  <1>5. [graph |-> g, next |-> i + 1] \in LayoutValues(screen)
    BY <1>2, <1>3, <1>4, LayoutValue
  <1> QED BY <1>3, <1>4, <1>5 DEF node, E

LEMMA LayoutStepValue ==
  ASSUME NEW screen, NEW push \in [Places -> LayoutValues(screen)], NEW l \in Layouts, NEW at \in Nat,
         NEW acc \in LayoutValues(screen), NEW i \in 1..Len(l.children)
  PROVE  LET sub == push[<<l.children[i], acc.next>>]
             r   == LayoutStep(screen, push, <<l, at>>, acc, i)
         IN  /\ <<l.children[i], acc.next>> \in Places
             /\ r \in LayoutValues(screen) /\ r.next = sub.next
             /\ Holds(r.graph, Elements(acc.graph.nodes) \union {} \union Elements(sub.graph.nodes),
                      Elements(acc.graph.edges) \union {LayoutDown(screen, at, acc.next)}
                        \union Elements(sub.graph.edges))
  <1> DEFINE child == <<l.children[i], acc.next>>
             sub == push[child]
             down == LayoutDown(screen, at, acc.next)
             mid == Graph(<<>>, <<down>>)
             whole == Joined(<<acc.graph, mid, sub.graph>>)
             N == Elements(acc.graph.nodes) \union {} \union Elements(sub.graph.nodes)
             E == Elements(acc.graph.edges) \union {down} \union Elements(sub.graph.edges)
  <1>1. acc.next \in Nat /\ child \in Places
    <2>1. l.children[i] \in Layouts
      BY LayoutsAreTrees, LenProperties
    <2> QED BY <2>1, LayoutValueHolds DEF Places
  <1>2. sub \in LayoutValues(screen)
    <2> HIDE DEF child
    <2> QED BY <1>1
  <1>3. LayoutStep(screen, push, <<l, at>>, acc, i) = [graph |-> whole, next |-> sub.next]
    BY DEF LayoutStep
  <1>4. down \in AllLayoutEdges(screen)
    BY <1>1 DEF AllLayoutEdges
  <1> HIDE DEF child, sub, down
  <1>5. Holds(mid, {}, {down})
    <2>1. IsList(<<down>>) /\ Elements(<<down>>) = {down}
      BY ListOfOne
    <2> QED BY <2>1, EdgesHold
  <1> HIDE DEF mid
  <1>6. Holds(acc.graph, Elements(acc.graph.nodes), Elements(acc.graph.edges))
        /\ Holds(sub.graph, Elements(sub.graph.nodes), Elements(sub.graph.edges))
    BY <1>2, LayoutValueHolds
  <1>7. Holds(whole, N, E)
    BY <1>5, <1>6, JoinedThree
  <1>8. N \subseteq AllLayoutNodes(screen) /\ E \subseteq AllLayoutEdges(screen) /\ sub.next \in Nat
    BY <1>2, <1>4, LayoutValueHolds
  <1> HIDE DEF whole, N, E
  <1>9. [graph |-> whole, next |-> sub.next] \in LayoutValues(screen)
    BY <1>7, <1>8, LayoutValue
  <1> QED BY <1>1, <1>3, <1>7, <1>9 DEF N, E, down, sub, child

(* One layout's children, given what the layouts below become.              *)
LEMMA LayoutAfterSolves ==
  ASSUME NEW screen, NEW push \in [Places -> LayoutValues(screen)], NEW l \in Layouts, NEW at \in Nat
  PROVE  LET c     == <<l, at>>
             after == LayoutAfter(screen, push, c)
         IN  /\ Len(l.children) \in Nat
             /\ after[0] = LayoutSelf(screen, c)
             /\ \A i \in 1..Len(l.children) : after[i] = LayoutStep(screen, push, c, after[i - 1], i)
             /\ after \in [0..Len(l.children) -> LayoutValues(screen)]
  <1> DEFINE c == <<l, at>>
             n == Len(l.children)
             V == LayoutValues(screen)
             D == 0..n
             Grown(f, k) == LayoutGrown(screen, push, c, f, k)
             Fits == [k \in D |-> V]
             rank == [k \in D |-> k]
             F == [D -> V]
             body == [f \in F |-> [k \in D |-> Grown(f, k)]]
             Solves(f) == f = [k \in D |-> Grown(f, k)]
             out == CHOOSE f : Solves(f)
  <1>0. n \in Nat
    BY LayoutsAreTrees, LenProperties
  <1>1. LayoutAfter(screen, push, c) = out
    BY DEF LayoutAfter
  <1>2. ASSUME NEW f \in F, NEW k \in D PROVE Grown(f, k) \in V
    <2>1. CASE k = 0
      BY <2>1, LayoutSelfValue DEF LayoutGrown
    <2>2. CASE k # 0
      <3>1. k \in 1..n /\ k - 1 \in D
        BY <1>0, <2>2
      <3>2. f[k - 1] \in V
        BY <3>1
      <3>3. LayoutStep(screen, push, <<l, at>>, f[k - 1], k) \in V
        <4> DEFINE acc == f[k - 1]
        <4> HIDE DEF acc
        <4>1. acc \in LayoutValues(screen)
          BY <3>2 DEF acc
        <4>2. LayoutStep(screen, push, <<l, at>>, acc, k) \in V
          BY <3>1, <4>1, LayoutStepValue
        <4> QED BY <4>2 DEF acc
      <3> QED BY <2>2, <3>3 DEF LayoutGrown
    <2> QED BY <2>1, <2>2
  <1>3. Descends(D, V, Fits, rank, body, F)
    <2> HIDE DEF V
    <2>1. Fits \in [D -> SUBSET V] /\ \A k \in D : Fits[k] # {}
      <3>1. V # {}
        BY LayoutSelfValue DEF V
      <3> QED BY <3>1
    <2>2. rank \in [D -> Nat]
      BY <1>0
    <2>3. \A f : f \in F <=> f \in [D -> V] /\ \A k \in D : f[k] \in Fits[k]
      OBVIOUS
    <2>4. \A f \in F : body[f] \in F
      <3> HIDE DEF Grown, D
      <3> QED BY <1>2
    <2>5. \A f, g \in F, k \in D :
            (\A j \in D : rank[j] < rank[k] => f[j] = g[j]) => body[f][k] = body[g][k]
      <3> SUFFICES ASSUME NEW f \in F, NEW g \in F, NEW k \in D,
                          \A j \in D : j < k => f[j] = g[j]
                   PROVE  Grown(f, k) = Grown(g, k)
        <4>1. \A f \in F, k \in D : body[f][k] = Grown(f, k)
          OBVIOUS
        <4>2. \A k \in D : rank[k] = k
          OBVIOUS
        <4> HIDE DEF body, rank, Grown, F, D
        <4> QED BY <4>1, <4>2
      <3>1. CASE k = 0
        BY <3>1 DEF LayoutGrown
      <3>2. CASE k # 0
        <4>1. k - 1 \in D /\ k - 1 < k
          BY <1>0, <3>2
        <4>2. f[k - 1] = g[k - 1]
          BY <4>1
        <4> QED BY <3>2, <4>2 DEF LayoutGrown
      <3> QED BY <3>1, <3>2
    <2> HIDE DEF Fits, rank, F, D, body
    <2> QED BY <2>1, <2>2, <2>3, <2>4, <2>5 DEF Descends
  <1>4. PICK f \in F : body[f] = f
    <2> HIDE DEF Fits, rank, F, D, V, body
    <2> QED BY <1>3, RecursionExists
  <1>5. f \in F /\ Solves(f)
    <2> HIDE DEF Grown, D, V
    <2> QED BY <1>4
  <1>6. Solves(out)
    <2> HIDE DEF Solves
    <2> QED BY <1>5
  <1> HIDE DEF out
  <1>7. \A k \in D : out[k] = Grown(out, k)
    <2> HIDE DEF Grown, D
    <2> QED BY <1>6
  <1>8. out[0] = LayoutSelf(screen, c)
    BY <1>0, <1>7 DEF LayoutGrown
  <1>9. ASSUME NEW i \in 1..n PROVE i \in D /\ i - 1 \in D /\ out[i] = LayoutStep(screen, push, c, out[i - 1], i)
    <2>1. i \in D /\ i # 0 /\ i - 1 \in D
      BY <1>0
    <2> QED BY <1>7, <2>1 DEF LayoutGrown
  <1>10. \A i \in D : out[i] \in V
    <2> DEFINE Q == {k \in Nat : k <= n => out[k] \in V}
    <2>1. 0 \in Q
      BY <1>8, LayoutSelfValue
    <2>2. ASSUME NEW k \in Nat, k \in Q PROVE k + 1 \in Q
      <3> SUFFICES ASSUME k + 1 <= n PROVE out[k + 1] \in V
        OBVIOUS
      <3>1. k + 1 \in 1..n /\ k <= n /\ (k + 1) - 1 = k
        BY <1>0
      <3> DEFINE i == k + 1
                 acc == out[k]
      <3>2. acc \in V
        BY <2>2, <3>1
      <3>3. out[i] = LayoutStep(screen, push, c, acc, i)
        BY <1>9, <3>1
      <3>4. i \in 1..n
        BY <3>1
      <3> HIDE DEF acc, i
      <3>5. LayoutStep(screen, push, <<l, at>>, acc, i) \in V
        BY <3>2, <3>4, LayoutStepValue
      <3> QED BY <3>3, <3>5 DEF i
    <2> HIDE DEF Q
    <2>3. Nat \subseteq Q
      BY <2>1, <2>2, NaturalsInSet
    <2> QED BY <1>0, <2>3 DEF Q
  <1>11. out \in [D -> V]
    <2> HIDE DEF Grown, D, V
    <2>1. out = [k \in D |-> Grown(out, k)]
      BY <1>6
    <2>2. out = [k \in D |-> out[k]]
      BY <2>1
    <2> QED BY <1>10, <2>2
  <1> QED BY <1>0, <1>1, <1>8, <1>9, <1>11

(* It depends on the layouts below only.                                    *)
LEMMA LayoutAfterAgrees ==
  ASSUME NEW screen, NEW f \in [Places -> LayoutValues(screen)], NEW g,
         NEW l \in Layouts, NEW at \in Nat,
         \A y \in Places : Depth[y[1]] < Depth[l] => f[y] = g[y]
  PROVE  \A i \in 0..Len(l.children) :
            LayoutAfter(screen, f, <<l, at>>)[i] = LayoutAfter(screen, g, <<l, at>>)[i]
  <1> DEFINE c == <<l, at>>
             n == Len(l.children)
             p == LayoutAfter(screen, f, c)
             q == LayoutAfter(screen, g, c)
             Solves(h) == h = [i \in 0..n |-> LayoutGrown(screen, g, c, h, i)]
             Q == {k \in Nat : k <= n => p[k] = q[k]}
  <1>1. /\ n \in Nat
        /\ p[0] = LayoutSelf(screen, c)
        /\ \A i \in 1..n : p[i] = LayoutStep(screen, f, c, p[i - 1], i)
        /\ p \in [0..n -> LayoutValues(screen)]
    BY LayoutAfterSolves
  <1>2. q = CHOOSE h : Solves(h)
    BY DEF LayoutAfter
  <1> HIDE DEF p, q
  <1>3. ASSUME NEW i \in 1..n
        PROVE  i - 1 \in 0..n /\ LayoutStep(screen, f, c, p[i - 1], i) = LayoutStep(screen, g, c, p[i - 1], i)
    <2> DEFINE acc == p[i - 1]
               child == <<l.children[i], acc.next>>
    <2>1. i - 1 \in 0..n
      BY <1>1
    <2>2. acc \in LayoutValues(screen)
      BY <1>1, <2>1
    <2>3. l.children[i] \in Layouts /\ Depth[l.children[i]] < Depth[l]
      <3>1. l.children[i] \in Elements(l.children)
        BY LayoutsAreTrees, LenProperties DEF Elements, ToSet
      <3> QED BY <3>1, LayoutsAreTrees, LenProperties
    <2>4. child \in Places /\ child[1] = l.children[i]
      <3>1. acc.next \in Nat
        BY <2>2, LayoutValueHolds
      <3> QED BY <2>3, <3>1 DEF Places
    <2>5. f[child] = g[child]
      <3> HIDE DEF child
      <3> QED BY <2>3, <2>4
    <2>6. LayoutStep(screen, f, c, acc, i) = LayoutStep(screen, g, c, acc, i)
      BY <2>5 DEF LayoutStep
    <2> QED BY <2>1, <2>6
  <1>4. Solves(p)
    <2>1. ASSUME NEW i \in 0..n PROVE p[i] = LayoutGrown(screen, g, c, p, i)
      <3>1. CASE i = 0
        BY <1>1, <3>1 DEF LayoutGrown
      <3>2. CASE i # 0
        <4>1. i \in 1..n
          BY <1>1, <3>2
        <4>2. p[i] = LayoutStep(screen, g, c, p[i - 1], i)
          BY <1>1, <1>3, <4>1
        <4> QED BY <3>2, <4>2 DEF LayoutGrown
      <3> QED BY <3>1, <3>2
    <2> QED BY <1>1, <2>1
  <1>5. Solves(q)
    <2> HIDE DEF Solves
    <2> QED BY <1>2, <1>4
  <1>6. \A i \in 0..n : q[i] = LayoutGrown(screen, g, c, q, i)
    BY <1>5
  <1>7. 0 \in Q
    <2>1. 0 \in 0..n
      BY <1>1
    <2>2. q[0] = LayoutSelf(screen, c)
      BY <1>6, <2>1 DEF LayoutGrown
    <2> QED BY <1>1, <2>2
  <1>8. ASSUME NEW k \in Nat, k \in Q PROVE k + 1 \in Q
    <2> SUFFICES ASSUME k + 1 <= n PROVE p[k + 1] = q[k + 1]
      OBVIOUS
    <2> DEFINE i == k + 1
    <2>1. i \in 1..n /\ i \in 0..n /\ i # 0 /\ i - 1 = k /\ k <= n
      BY <1>1
    <2>2. p[k] = q[k]
      BY <1>8, <2>1
    <2> HIDE DEF i
    <2>3. q[i] = LayoutStep(screen, g, c, p[k], i)
      BY <1>6, <2>1, <2>2 DEF LayoutGrown
    <2>4. p[i] = LayoutStep(screen, g, c, p[k], i)
      BY <1>1, <1>3, <2>1
    <2> QED BY <2>3, <2>4 DEF i
  <1> HIDE DEF Q
  <1>9. Nat \subseteq Q
    BY <1>7, <1>8, NaturalsInSet
  <1> QED BY <1>1, <1>9 DEF Q, p, q

(* A layout becomes what its children, one after the other, add to it.      *)
LEMMA LayoutPushed ==
  ASSUME NEW screen
  PROVE  /\ PushLayout(screen) \in [Places -> LayoutValues(screen)]
         /\ \A l \in Layouts, at \in Nat :
              PushLayout(screen)[<<l, at>>] = LayoutAfter(screen, PushLayout(screen), <<l, at>>)[Len(l.children)]
  <1> DEFINE V == LayoutValues(screen)
             Grown(f, c) == LayoutAfter(screen, f, c)[Len(c[1].children)]
             Fits == [c \in Places |-> V]
             rank == [c \in Places |-> Depth[c[1]]]
             F == [Places -> V]
             body == [f \in F |-> [c \in Places |-> Grown(f, c)]]
             Solves(f) == f = [c \in Places |-> Grown(f, c)]
             out == CHOOSE f : Solves(f)
  <1>1. PushLayout(screen) = out
    BY DEF PushLayout, LayoutAfter, LayoutGrown, LayoutSelf, LayoutStep, LayoutNode, LayoutKey, LayoutTop, LayoutDown, Places
  <1>2. ASSUME NEW f \in F, NEW c \in Places PROVE Grown(f, c) \in V
    <2>1. PICK l \in Layouts, at \in Nat : c = <<l, at>>
      BY DEF Places
    <2>2. LayoutAfter(screen, f, <<l, at>>) \in [0..Len(l.children) -> LayoutValues(screen)]
      BY LayoutAfterSolves
    <2>3. Len(l.children) \in 0..Len(l.children)
      BY LayoutsAreTrees, LenProperties
    <2> QED BY <2>1, <2>2, <2>3
  <1>3. Descends(Places, V, Fits, rank, body, F)
    <2>1. Fits \in [Places -> SUBSET V] /\ \A c \in Places : Fits[c] # {}
      <3>1. ASSUME NEW c \in Places PROVE V # {}
        <4>1. PICK l \in Layouts, at \in Nat : c = <<l, at>>
          BY DEF Places
        <4> QED BY LayoutSelfValue
      <3> HIDE DEF V
      <3> QED BY <3>1
    <2>2. rank \in [Places -> Nat]
      BY LayoutsAreTrees DEF Places
    <2>3. \A f : f \in F <=> f \in [Places -> V] /\ \A c \in Places : f[c] \in Fits[c]
      <3> HIDE DEF V
      <3> QED OBVIOUS
    <2>4. \A f \in F : body[f] \in F
      <3> HIDE DEF Grown, V
      <3> QED BY <1>2
    <2>5. \A f, g \in F, c \in Places :
            (\A y \in Places : rank[y] < rank[c] => f[y] = g[y]) => body[f][c] = body[g][c]
      <3> SUFFICES ASSUME NEW f \in F, NEW g \in F, NEW c \in Places,
                          \A y \in Places : Depth[y[1]] < Depth[c[1]] => f[y] = g[y]
                   PROVE  Grown(f, c) = Grown(g, c)
        <4>1. \A f \in F, c \in Places : body[f][c] = Grown(f, c)
          OBVIOUS
        <4>2. \A c \in Places : rank[c] = Depth[c[1]]
          OBVIOUS
        <4> HIDE DEF body, rank, Grown, F
        <4> QED BY <4>1, <4>2
      <3>1. PICK l \in Layouts, at \in Nat : c = <<l, at>>
        BY DEF Places
      <3>2. \A y \in Places : Depth[y[1]] < Depth[l] => f[y] = g[y]
        BY <3>1
      <3>3. \A i \in 0..Len(l.children) :
              LayoutAfter(screen, f, <<l, at>>)[i] = LayoutAfter(screen, g, <<l, at>>)[i]
        BY <3>2, LayoutAfterAgrees
      <3>4. Len(l.children) \in 0..Len(l.children)
        BY LayoutsAreTrees, LenProperties
      <3> QED BY <3>1, <3>3, <3>4
    <2> HIDE DEF Fits, rank, F, body, V
    <2> QED BY <2>1, <2>2, <2>3, <2>4, <2>5 DEF Descends
  <1>4. PICK f \in F : body[f] = f
    <2> HIDE DEF Fits, rank, F, V, body
    <2> QED BY <1>3, RecursionExists
  <1>5. f \in F /\ Solves(f)
    <2> HIDE DEF Grown, V
    <2> QED BY <1>4
  <1>6. Solves(out)
    <2> HIDE DEF Solves
    <2> QED BY <1>5
  <1> HIDE DEF out
  <1>7. \A c \in Places : out[c] = Grown(out, c)
    <2> HIDE DEF Grown
    <2> QED BY <1>6
  <1>8. out = f
    <2> DEFINE Q == {d \in Nat : \A c \in Places : Depth[c[1]] < d => f[c] = out[c]}
    <2>0. \A c \in Places : Depth[c[1]] \in Nat
      BY LayoutsAreTrees DEF Places
    <2>1. 0 \in Q
      BY <2>0
    <2>2. ASSUME NEW d \in Nat, d \in Q PROVE d + 1 \in Q
      <3> SUFFICES ASSUME NEW c \in Places, Depth[c[1]] < d + 1 PROVE f[c] = out[c]
        OBVIOUS
      <3>1. PICK l \in Layouts, at \in Nat : c = <<l, at>>
        BY DEF Places
      <3>2. \A y \in Places : Depth[y[1]] < Depth[l] => f[y] = out[y]
        BY <2>0, <2>2, <3>1
      <3>3. \A i \in 0..Len(l.children) :
              LayoutAfter(screen, f, <<l, at>>)[i] = LayoutAfter(screen, out, <<l, at>>)[i]
        BY <3>2, LayoutAfterAgrees
      <3>4. Len(l.children) \in 0..Len(l.children)
        BY LayoutsAreTrees, LenProperties
      <3>5. Grown(f, c) = Grown(out, c)
        BY <3>1, <3>3, <3>4
      <3>6. \A c1 \in Places : f[c1] = Grown(f, c1)
        <4> HIDE DEF Grown
        <4> QED BY <1>5
      <3> QED BY <1>7, <3>5, <3>6
    <2>3. Nat \subseteq Q
      <3> HIDE DEF Q
      <3> QED BY <2>1, <2>2, NaturalsInSet
    <2>4. ASSUME NEW c \in Places PROVE f[c] = out[c]
      <3>1. Depth[c[1]] + 1 \in Q /\ Depth[c[1]] < Depth[c[1]] + 1
        BY <2>0, <2>3
      <3> QED BY <3>1
    <2>5. out = [c \in Places |-> out[c]]
      <3>1. out = [c \in Places |-> Grown(out, c)]
        BY <1>6
      <3> HIDE DEF Grown
      <3> QED BY <3>1
    <2> HIDE DEF V
    <2> QED BY <2>4, <2>5
  <1>9. \A l \in Layouts, at \in Nat : <<l, at>> \in Places /\ <<l, at>>[1] = l
    BY DEF Places
  <1>10. \A l \in Layouts, at \in Nat : out[<<l, at>>] = LayoutAfter(screen, out, <<l, at>>)[Len(l.children)]
    BY <1>7, <1>9
  <1> QED BY <1>1, <1>8, <1>10

-----------------------------------------------------------------------------
(* A layout's graph: whatever its edges join, the screen or a layout in it. *)
LayoutGraph(screen, l, at) == PushLayout(screen)[<<l, at>>].graph
Closed(screen, g, first) ==
  /\ IsGraph(g)
  /\ LayoutKey(screen, first) \in Keys(g)
  /\ \A n \in Elements(g.nodes) : n.type = "layout"
  /\ \A e \in Elements(g.edges) : {e.from, e.to} \subseteq Keys(g) \union {Key(screen)}

LEMMA SelfClosed ==
  ASSUME NEW screen, NEW l \in Layouts, NEW at \in Nat
  PROVE  Closed(screen, LayoutSelf(screen, <<l, at>>).graph, at)
  <1> DEFINE g == LayoutSelf(screen, <<l, at>>).graph
             key == LayoutKey(screen, at)
  <1>1. Holds(g, {LayoutNode(screen, l, at)}, IF at = 0 THEN {LayoutTop(screen, at)} ELSE {})
    BY LayoutSelfValue
  <1> HIDE DEF g
  <1>2. LayoutNode(screen, l, at).key = key /\ LayoutNode(screen, l, at).type = "layout"
    BY DEF LayoutNode, Node
  <1>3. LayoutTop(screen, at).from = Key(screen) /\ LayoutTop(screen, at).to = key
    BY DEF LayoutTop, Edge
  <1>4. Elements(g.nodes) = {LayoutNode(screen, l, at)} /\ IsGraph(g)
        /\ Elements(g.edges) \subseteq {LayoutTop(screen, at)}
    BY <1>1 DEF Holds
  <1>5. Keys(g) = {key}
    BY <1>2, <1>4 DEF Keys
  <1> HIDE DEF key
  <1> QED BY <1>2, <1>3, <1>4, <1>5 DEF Closed, g, key

LEMMA StepClosed ==
  ASSUME NEW screen, NEW push \in [Places -> LayoutValues(screen)], NEW l \in Layouts, NEW at \in Nat,
         NEW acc \in LayoutValues(screen), NEW i \in 1..Len(l.children),
         Closed(screen, acc.graph, at),
         Closed(screen, push[<<l.children[i], acc.next>>].graph, acc.next)
  PROVE  Closed(screen, LayoutStep(screen, push, <<l, at>>, acc, i).graph, at)
  <1> DEFINE g == LayoutStep(screen, push, <<l, at>>, acc, i).graph
             a == acc.graph
             b == push[<<l.children[i], acc.next>>].graph
             down == LayoutDown(screen, at, acc.next)
  <1>1. Holds(g, Elements(a.nodes) \union {} \union Elements(b.nodes),
              Elements(a.edges) \union {down} \union Elements(b.edges))
    BY LayoutStepValue
  <1>2. Closed(screen, a, at) /\ Closed(screen, b, acc.next)
    OBVIOUS
  <1>3. down.from = LayoutKey(screen, at) /\ down.to = LayoutKey(screen, acc.next)
    BY DEF LayoutDown, Edge
  <1> HIDE DEF g, a, b, down
  <1>4. Elements(g.nodes) = Elements(a.nodes) \union Elements(b.nodes) /\ IsGraph(g)
        /\ Elements(g.edges) = Elements(a.edges) \union {down} \union Elements(b.edges)
    BY <1>1 DEF Holds
  <1>5. Keys(g) = Keys(a) \union Keys(b)
    BY <1>4 DEF Keys
  <1> QED BY <1>2, <1>3, <1>4, <1>5 DEF Closed, g

LEMMA LayoutClosed ==
  ASSUME NEW screen
  PROVE  \A l \in Layouts, at \in Nat : Closed(screen, LayoutGraph(screen, l, at), at)
  <1> DEFINE push == PushLayout(screen)
             Shut(l, at) == Closed(screen, push[<<l, at>>].graph, at)
             Q == {d \in Nat : \A l \in Layouts, at \in Nat : Depth[l] < d => Shut(l, at)}
  <1>0. \A l \in Layouts : Depth[l] \in Nat
    BY LayoutsAreTrees
  <1>1. 0 \in Q
    BY <1>0
  <1>2. ASSUME NEW d \in Nat, d \in Q PROVE d + 1 \in Q
    <2> SUFFICES ASSUME NEW l \in Layouts, NEW at \in Nat, Depth[l] < d + 1 PROVE Shut(l, at)
      OBVIOUS
    <2> DEFINE n == Len(l.children)
               after == LayoutAfter(screen, push, <<l, at>>)
               R == {k \in Nat : k <= n => Closed(screen, after[k].graph, at)}
    <2>1. push \in [Places -> LayoutValues(screen)] /\ push[<<l, at>>] = after[n]
      BY LayoutPushed
    <2>2. \A m \in Layouts, k \in Nat : Depth[m] < Depth[l] => Shut(m, k)
      BY <1>0, <1>2
    <2> HIDE DEF push
    <2>3. /\ n \in Nat /\ after[0] = LayoutSelf(screen, <<l, at>>)
          /\ \A i \in 1..n : after[i] = LayoutStep(screen, push, <<l, at>>, after[i - 1], i)
          /\ after \in [0..n -> LayoutValues(screen)]
      BY <2>1, LayoutAfterSolves
    <2> HIDE DEF after
    <2>4. 0 \in R
      BY <2>3, SelfClosed
    <2>5. ASSUME NEW k \in Nat, k \in R PROVE k + 1 \in R
      <3> SUFFICES ASSUME k + 1 <= n PROVE Closed(screen, after[k + 1].graph, at)
        OBVIOUS
      <3> DEFINE i == k + 1
                 acc == after[k]
                 child == l.children[i]
      <3>1. i \in 1..n /\ i - 1 = k /\ k \in 0..n /\ k <= n
        BY <2>3
      <3>2. acc \in LayoutValues(screen) /\ Closed(screen, acc.graph, at)
        BY <2>3, <2>5, <3>1
      <3>3. after[i] = LayoutStep(screen, push, <<l, at>>, acc, i)
        BY <2>3, <3>1
      <3>4. child \in Layouts /\ Depth[child] < Depth[l]
        <4>1. child \in Elements(l.children)
          BY <3>1, LayoutsAreTrees, LenProperties DEF Elements, ToSet
        <4> QED BY <4>1, LayoutsAreTrees, ElementsOfSeq
      <3> HIDE DEF i, acc, Q, R, n
      <3>5. acc.next \in Nat
        BY <3>2, LayoutValueHolds
      <3>6. Shut(child, acc.next)
        BY <2>2, <3>4, <3>5
      <3>7. Closed(screen, LayoutStep(screen, push, <<l, at>>, acc, i).graph, at)
        BY <2>1, <3>1, <3>2, <3>6, StepClosed DEF n
      <3> QED BY <3>3, <3>7 DEF i
    <2> HIDE DEF R
    <2>6. Nat \subseteq R
      BY <2>4, <2>5, NaturalsInSet
    <2>7. Closed(screen, after[n].graph, at)
      BY <2>3, <2>6 DEF R
    <2> QED BY <2>1, <2>7
  <1> HIDE DEF Q
  <1>3. Nat \subseteq Q
    BY <1>1, <1>2, NaturalsInSet
  <1>4. ASSUME NEW l \in Layouts, NEW at \in Nat PROVE Shut(l, at)
    <2>1. Depth[l] + 1 \in Q /\ Depth[l] < Depth[l] + 1
      BY <1>0, <1>3
    <2> QED BY <2>1 DEF Q
  <1> QED BY <1>4 DEF LayoutGraph

(* Children that one more edge leaves each.                                 *)
Tips(nodes, out) == {out[i] : i \in DOMAIN nodes}
TipEach(owner, predicate, nodes, out, parts) ==
  IsList(nodes) /\ parts = [i \in DOMAIN nodes |-> Child(owner, predicate, nodes[i], <<out[i]>>)]

LEMMA TipsHold ==
  ASSUME NEW owner, NEW predicate, NEW nodes, NEW out, NEW parts, TipEach(owner, predicate, nodes, out, parts)
  PROVE  Holds(Joined(parts), Elements(nodes), Links(owner, predicate, nodes) \union Tips(nodes, out))
  <1> DEFINE N == [i \in DOMAIN nodes |-> {nodes[i]}]
             E == [i \in DOMAIN nodes |-> {Edge(predicate, owner, nodes[i].key)} \union {out[i]}]
  <1>1. IsList(nodes) /\ parts = [i \in DOMAIN nodes |-> Child(owner, predicate, nodes[i], <<out[i]>>)]
    BY DEF TipEach
  <1>2. HoldsEach(nodes, parts, N, E)
    <2>1. ASSUME NEW i \in DOMAIN nodes PROVE Holds(parts[i], N[i], E[i])
      <3> DEFINE more == <<out[i]>>
      <3>1. IsList(more) /\ Elements(more) = {out[i]}
        BY ListOfOne
      <3> HIDE DEF more
      <3>2. Holds(Child(owner, predicate, nodes[i], more), {nodes[i]},
                  {Edge(predicate, owner, nodes[i].key)} \union Elements(more))
        BY <3>1, ChildHolds
      <3>3. parts[i] = Child(owner, predicate, nodes[i], more)
        BY <1>1 DEF more
      <3> QED BY <3>1, <3>2, <3>3
    <2>2. parts = [i \in DOMAIN nodes |-> parts[i]]
      BY <1>1
    <2> HIDE DEF N, E
    <2> QED BY <1>1, <2>1, <2>2 DEF HoldsEach
  <1>3. Gathered(nodes, N) = Elements(nodes)
    BY DEF Gathered, Elements, ToSet
  <1>4. Gathered(nodes, E) = Links(owner, predicate, nodes) \union Tips(nodes, out)
    BY DEF Gathered, Links, Tips
  <1> HIDE DEF N, E
  <1>5. Holds(Joined(parts), Gathered(nodes, N), Gathered(nodes, E))
    BY <1>2, JoinedHolds
  <1> QED BY <1>3, <1>4, <1>5

(* A screen.                                                                *)
ScreenSelf(v, i) == Node("screen", Key(v.id), i, NoProps)
ActionNodes(v)   == [j \in DOMAIN v.actions |->
                       Node("action", Part(v.id, "action", v.actions[j].id), j, v.actions[j])]
BindingNodes(v)  == [j \in DOMAIN v.bindings |->
                       Node("binding", Part(v.id, "binding", v.bindings[j].field), j, v.bindings[j])]
MoveNodes(v)     == [j \in DOMAIN v.navigation |->
                       Node("navigation", Part(v.id, "navigation", v.navigation[j].action), j, v.navigation[j])]
Calls(v) == [j \in DOMAIN v.actions |->
               Edge("CALLS", Part(v.id, "action", v.actions[j].id), Key(v.actions[j].bridge))]
Binds(v) == [j \in DOMAIN v.bindings |->
               Edge("BINDS", Part(v.id, "binding", v.bindings[j].field), Key(v.bindings[j].method))]
Moves(v) == [j \in DOMAIN v.navigation |->
               Edge("NAVIGATES_TO", Part(v.id, "navigation", v.navigation[j].action), Key(v.navigation[j].to))]
ActionEdges(v)  == Links(Key(v.id), "HAS_ACTION", ActionNodes(v)) \union Tips(ActionNodes(v), Calls(v))
BindingEdges(v) == Links(Key(v.id), "HAS_BINDING", BindingNodes(v)) \union Tips(BindingNodes(v), Binds(v))
MoveEdges(v)    == Links(Key(v.id), "HAS_NAVIGATION", MoveNodes(v)) \union Tips(MoveNodes(v), Moves(v))
LayoutOf(v)     == LayoutGraph(v.id, v.layout, 0)
ScreenNodes(v, i) == {ScreenSelf(v, i)} \union Elements(ActionNodes(v)) \union Elements(BindingNodes(v))
                       \union Elements(MoveNodes(v)) \union Elements(LayoutOf(v).nodes)
ScreenEdges(s, v) == {Edge("HAS_SCREEN", Root(s), Key(v.id))} \union ActionEdges(v) \union BindingEdges(v)
                       \union MoveEdges(v) \union Elements(LayoutOf(v).edges)

LEMMA ActionsHold ==
  ASSUME NEW v, IsScreen(v),
         NEW parts, parts = [j \in DOMAIN v.actions |->
             Child(Key(v.id), "HAS_ACTION", Node("action", Part(v.id, "action", v.actions[j].id), j, v.actions[j]),
                   <<Edge("CALLS", Part(v.id, "action", v.actions[j].id), Key(v.actions[j].bridge))>>)]
  PROVE  Holds(Joined(parts), Elements(ActionNodes(v)), ActionEdges(v))
  <1> DEFINE nodes == ActionNodes(v)
             out == Calls(v)
  <1>1. IsList(nodes) /\ DOMAIN nodes = DOMAIN v.actions
    <2>1. nodes = [j \in DOMAIN v.actions |-> nodes[j]] /\ IsList(v.actions)
      BY DEF ActionNodes, IsScreen
    <2> QED BY <2>1, NodesOf
  <1>2. parts = [j \in DOMAIN nodes |-> Child(Key(v.id), "HAS_ACTION", nodes[j], <<out[j]>>)]
    BY <1>1 DEF ActionNodes, Calls
  <1>3. TipEach(Key(v.id), "HAS_ACTION", nodes, out, parts)
    BY <1>1, <1>2 DEF TipEach
  <1> QED BY <1>3, TipsHold DEF ActionEdges

LEMMA BindingsHold ==
  ASSUME NEW v, IsScreen(v),
         NEW parts, parts = [j \in DOMAIN v.bindings |->
             Child(Key(v.id), "HAS_BINDING",
                   Node("binding", Part(v.id, "binding", v.bindings[j].field), j, v.bindings[j]),
                   <<Edge("BINDS", Part(v.id, "binding", v.bindings[j].field), Key(v.bindings[j].method))>>)]
  PROVE  Holds(Joined(parts), Elements(BindingNodes(v)), BindingEdges(v))
  <1> DEFINE nodes == BindingNodes(v)
             out == Binds(v)
  <1>1. IsList(nodes) /\ DOMAIN nodes = DOMAIN v.bindings
    <2>1. nodes = [j \in DOMAIN v.bindings |-> nodes[j]] /\ IsList(v.bindings)
      BY DEF BindingNodes, IsScreen
    <2> QED BY <2>1, NodesOf
  <1>2. parts = [j \in DOMAIN nodes |-> Child(Key(v.id), "HAS_BINDING", nodes[j], <<out[j]>>)]
    BY <1>1 DEF BindingNodes, Binds
  <1>3. TipEach(Key(v.id), "HAS_BINDING", nodes, out, parts)
    BY <1>1, <1>2 DEF TipEach
  <1> QED BY <1>3, TipsHold DEF BindingEdges

LEMMA MovesHold ==
  ASSUME NEW v, IsScreen(v),
         NEW parts, parts = [j \in DOMAIN v.navigation |->
             Child(Key(v.id), "HAS_NAVIGATION",
                   Node("navigation", Part(v.id, "navigation", v.navigation[j].action), j, v.navigation[j]),
                   <<Edge("NAVIGATES_TO", Part(v.id, "navigation", v.navigation[j].action),
                          Key(v.navigation[j].to))>>)]
  PROVE  Holds(Joined(parts), Elements(MoveNodes(v)), MoveEdges(v))
  <1> DEFINE nodes == MoveNodes(v)
             out == Moves(v)
  <1>1. IsList(nodes) /\ DOMAIN nodes = DOMAIN v.navigation
    <2>1. nodes = [j \in DOMAIN v.navigation |-> nodes[j]] /\ IsList(v.navigation)
      BY DEF MoveNodes, IsScreen
    <2> QED BY <2>1, NodesOf
  <1>2. parts = [j \in DOMAIN nodes |-> Child(Key(v.id), "HAS_NAVIGATION", nodes[j], <<out[j]>>)]
    BY <1>1 DEF MoveNodes, Moves
  <1>3. TipEach(Key(v.id), "HAS_NAVIGATION", nodes, out, parts)
    BY <1>1, <1>2 DEF TipEach
  <1> QED BY <1>3, TipsHold DEF MoveEdges

LEMMA ScreenHolds ==
  ASSUME NEW s, NEW v, IsScreen(v), NEW i
  PROVE  Holds(PushScreen(s, v, i), ScreenNodes(v, i), ScreenEdges(s, v))
  <1> DEFINE a == Child(Root(s), "HAS_SCREEN", ScreenSelf(v, i), <<>>)
             actions == [j \in DOMAIN v.actions |->
               Child(Key(v.id), "HAS_ACTION", Node("action", Part(v.id, "action", v.actions[j].id), j, v.actions[j]),
                     <<Edge("CALLS", Part(v.id, "action", v.actions[j].id), Key(v.actions[j].bridge))>>)]
             bindings == [j \in DOMAIN v.bindings |->
               Child(Key(v.id), "HAS_BINDING",
                     Node("binding", Part(v.id, "binding", v.bindings[j].field), j, v.bindings[j]),
                     <<Edge("BINDS", Part(v.id, "binding", v.bindings[j].field), Key(v.bindings[j].method))>>)]
             moves == [j \in DOMAIN v.navigation |->
               Child(Key(v.id), "HAS_NAVIGATION",
                     Node("navigation", Part(v.id, "navigation", v.navigation[j].action), j, v.navigation[j]),
                     <<Edge("NAVIGATES_TO", Part(v.id, "navigation", v.navigation[j].action),
                            Key(v.navigation[j].to))>>)]
             e == PushLayout(v.id)[<<v.layout, 0>>].graph
  <1>1. PushScreen(s, v, i) = Joined(<<a, Joined(actions), Joined(bindings), Joined(moves), e>>)
    BY DEF PushScreen, Each, ScreenSelf
  <1>2. Holds(Joined(actions), Elements(ActionNodes(v)), ActionEdges(v))
    BY ActionsHold
  <1>3. Holds(Joined(bindings), Elements(BindingNodes(v)), BindingEdges(v))
    BY BindingsHold
  <1>4. Holds(Joined(moves), Elements(MoveNodes(v)), MoveEdges(v))
    BY MovesHold
  <1>5. Holds(a, {ScreenSelf(v, i)}, {Edge("HAS_SCREEN", Root(s), Key(v.id))})
    <2>1. ScreenSelf(v, i).key = Key(v.id)
      BY DEF ScreenSelf, Node
    <2>2. Holds(a, {ScreenSelf(v, i)}, {Edge("HAS_SCREEN", Root(s), ScreenSelf(v, i).key)})
      BY LeafHolds
    <2> QED BY <2>1, <2>2
  <1>6. e = LayoutOf(v)
    BY DEF LayoutOf, LayoutGraph
  <1>7. Holds(e, Elements(LayoutOf(v).nodes), Elements(LayoutOf(v).edges))
    <2>1. v.layout \in Layouts
      BY DEF IsScreen
    <2>2. Closed(v.id, LayoutOf(v), 0)
      BY <2>1, LayoutClosed DEF LayoutOf
    <2> QED BY <1>6, <2>2 DEF Holds, Closed
  <1> HIDE DEF a, actions, bindings, moves, e
  <1>8. Holds(Joined(<<a, Joined(actions), Joined(bindings), Joined(moves), e>>), ScreenNodes(v, i), ScreenEdges(s, v))
    BY <1>2, <1>3, <1>4, <1>5, <1>7, JoinedFive DEF ScreenNodes, ScreenEdges
  <1> QED BY <1>1, <1>8

(* The whole spec.                                                          *)
ActorsNodes(s)  == UNION {ActorNodes(s.actors[i], i) : i \in DOMAIN s.actors}
ActorsEdges(s)  == UNION {ActorEdges(s, s.actors[i]) : i \in DOMAIN s.actors}
MethodsNodes(s) == UNION {MethodNodes(s.bridge[i], i) : i \in DOMAIN s.bridge}
MethodsEdges(s) == UNION {MethodEdges(s, s.bridge[i]) : i \in DOMAIN s.bridge}
ScreensNodes(s) == UNION {ScreenNodes(s.ui[i], i) : i \in DOMAIN s.ui}
ScreensEdges(s) == UNION {ScreenEdges(s, s.ui[i]) : i \in DOMAIN s.ui}
SpecNodes(s) == CoreNodes(s) \union ActorsNodes(s) \union MethodsNodes(s) \union ScreensNodes(s)
SpecEdges(s) == CoreEdges(s) \union ActorsEdges(s) \union MethodsEdges(s) \union ScreensEdges(s)

LEMMA DecomposeHolds ==
  ASSUME NEW s, IsAppSpec(s)
  PROVE  Holds(Decompose(s), SpecNodes(s), SpecEdges(s))
  <1> DEFINE actors == [i \in DOMAIN s.actors |-> PushActor(s, s.actors[i], i)]
             methods == [i \in DOMAIN s.bridge |-> PushMethod(s, s.bridge[i], i)]
             screens == [i \in DOMAIN s.ui |-> PushScreen(s, s.ui[i], i)]
  <1>0. /\ IsList(s.actors) /\ \A i \in DOMAIN s.actors : IsActor(s.actors[i])
        /\ IsList(s.bridge) /\ \A i \in DOMAIN s.bridge : IsMethod(s.bridge[i])
        /\ IsList(s.ui) /\ \A i \in DOMAIN s.ui : IsScreen(s.ui[i])
    BY DEF IsAppSpec, Elements, ToSet
  <1>1. Decompose(s) = Joined(<<DecomposeCore(s), Joined(actors), Joined(methods), Joined(screens)>>)
    BY DEF Decompose, Each
  <1>2. Holds(Joined(actors), ActorsNodes(s), ActorsEdges(s))
    <2> DEFINE N == [i \in DOMAIN s.actors |-> ActorNodes(s.actors[i], i)]
               E == [i \in DOMAIN s.actors |-> ActorEdges(s, s.actors[i])]
    <2>1. \A i \in DOMAIN s.actors : Holds(actors[i], N[i], E[i])
      BY <1>0, ActorHolds
    <2>2. actors = [i \in DOMAIN s.actors |-> actors[i]]
      OBVIOUS
    <2>3. Gathered(s.actors, N) = ActorsNodes(s) /\ Gathered(s.actors, E) = ActorsEdges(s)
      BY DEF Gathered, ActorsNodes, ActorsEdges
    <2> HIDE DEF N, E, actors
    <2>4. HoldsEach(s.actors, actors, N, E)
      BY <1>0, <2>1, <2>2 DEF HoldsEach
    <2> QED BY <2>3, <2>4, JoinedHolds
  <1>3. Holds(Joined(methods), MethodsNodes(s), MethodsEdges(s))
    <2> DEFINE N == [i \in DOMAIN s.bridge |-> MethodNodes(s.bridge[i], i)]
               E == [i \in DOMAIN s.bridge |-> MethodEdges(s, s.bridge[i])]
    <2>1. \A i \in DOMAIN s.bridge : Holds(methods[i], N[i], E[i])
      BY <1>0, MethodHolds
    <2>2. methods = [i \in DOMAIN s.bridge |-> methods[i]]
      OBVIOUS
    <2>3. Gathered(s.bridge, N) = MethodsNodes(s) /\ Gathered(s.bridge, E) = MethodsEdges(s)
      BY DEF Gathered, MethodsNodes, MethodsEdges
    <2> HIDE DEF N, E, methods
    <2>4. HoldsEach(s.bridge, methods, N, E)
      BY <1>0, <2>1, <2>2 DEF HoldsEach
    <2> QED BY <2>3, <2>4, JoinedHolds
  <1>4. Holds(Joined(screens), ScreensNodes(s), ScreensEdges(s))
    <2> DEFINE N == [i \in DOMAIN s.ui |-> ScreenNodes(s.ui[i], i)]
               E == [i \in DOMAIN s.ui |-> ScreenEdges(s, s.ui[i])]
    <2>1. \A i \in DOMAIN s.ui : Holds(screens[i], N[i], E[i])
      BY <1>0, ScreenHolds
    <2>2. screens = [i \in DOMAIN s.ui |-> screens[i]]
      OBVIOUS
    <2>3. Gathered(s.ui, N) = ScreensNodes(s) /\ Gathered(s.ui, E) = ScreensEdges(s)
      BY DEF Gathered, ScreensNodes, ScreensEdges
    <2> HIDE DEF N, E, screens
    <2>4. HoldsEach(s.ui, screens, N, E)
      BY <1>0, <2>1, <2>2 DEF HoldsEach
    <2> QED BY <2>3, <2>4, JoinedHolds
  <1> HIDE DEF actors, methods, screens
  <1> QED BY <1>1, <1>2, <1>3, <1>4, CoreHolds, JoinedFour DEF SpecNodes, SpecEdges

(***************************************************************************)
(* Where the edges of a valid spec lead: from a node of it to a node of it. *)
(***************************************************************************)
KeysOf(N)   == {n.key : n \in N}
Named(s)    == {Key(name) : name \in TypeNames(s)}
SpecKeys(s) == KeysOf(SpecNodes(s))
Within(E, K) == \A e \in E : e.from \in K /\ e.to \in K
Resolves(s, fields) == \A f \in Elements(fields) : f.ty.name # Absent => f.ty.name \in TypeNames(s)

LEMMA EdgeFields ==
  ASSUME NEW predicate, NEW from, NEW to
  PROVE  Edge(predicate, from, to).from = from /\ Edge(predicate, from, to).to = to
         /\ Edge(predicate, from, to).predicate = predicate
  BY DEF Edge

LEMMA NodeFields ==
  ASSUME NEW type, NEW key, NEW order, NEW props
  PROVE  Node(type, key, order, props).type = type /\ Node(type, key, order, props).key = key
         /\ Node(type, key, order, props).order = order /\ Node(type, key, order, props).props = props
  BY DEF Node

LEMMA LinksWithin ==
  ASSUME NEW owner, NEW predicate, NEW nodes, NEW K, owner \in K, KeysOf(Elements(nodes)) \subseteq K
  PROVE  Within(Links(owner, predicate, nodes), K)
  <1> SUFFICES ASSUME NEW i \in DOMAIN nodes
               PROVE  /\ Edge(predicate, owner, nodes[i].key).from \in K
                      /\ Edge(predicate, owner, nodes[i].key).to \in K
    BY DEF Within, Links
  <1>1. nodes[i].key \in K
    BY DEF KeysOf, Elements, ToSet
  <1> QED BY <1>1, EdgeFields

LEMMA FieldsWithin ==
  ASSUME NEW s, NEW owner, NEW kind, NEW fields, Resolves(s, fields),
         NEW K, Key(owner) \in K, KeysOf(Elements(FieldNodes(owner, kind, fields))) \subseteq K, Named(s) \subseteq K
  PROVE  Within(FieldEdges(owner, kind, fields), K)
  <1>1. Within(Links(Key(owner), "HAS_FIELD", FieldNodes(owner, kind, fields)), K)
    BY LinksWithin
  <1>2. ASSUME NEW f \in Elements(fields), f.ty.name # Absent
        PROVE  /\ Edge("OF_TYPE", Part(owner, kind, f.name), Key(f.ty.name)).from \in K
               /\ Edge("OF_TYPE", Part(owner, kind, f.name), Key(f.ty.name)).to \in K
    <2>1. Part(owner, kind, f.name) \in KeysOf(Elements(FieldNodes(owner, kind, fields)))
      <3>1. PICK i \in DOMAIN fields : fields[i] = f
        BY DEF Elements, ToSet
      <3>2. FieldNodes(owner, kind, fields)[i] = Node("field", Part(owner, kind, f.name), i, f)
            /\ i \in DOMAIN FieldNodes(owner, kind, fields)
        BY <3>1 DEF FieldNodes
      <3>3. Node("field", Part(owner, kind, f.name), i, f).key = Part(owner, kind, f.name)
        BY NodeFields
      <3> QED BY <3>2, <3>3 DEF KeysOf, Elements, ToSet
    <2>2. Key(f.ty.name) \in Named(s)
      BY <1>2 DEF Resolves, Named
    <2> QED BY <2>1, <2>2, EdgeFields
  <1>3. Within(TypedEdges(owner, kind, fields), K)
    BY <1>2 DEF TypedEdges, Within
  <1> QED BY <1>1, <1>3 DEF FieldEdges, Within

LEMMA TipsWithin ==
  ASSUME NEW nodes, NEW out, NEW K,
         \A i \in DOMAIN nodes : out[i].from \in K /\ out[i].to \in K
  PROVE  Within(Tips(nodes, out), K)
  BY DEF Within, Tips

LEMMA WithinTwo ==
  ASSUME NEW E, NEW F, NEW K, Within(E, K), Within(F, K)
  PROVE  Within(E \union F, K)
  BY DEF Within

LEMMA WithinOne ==
  ASSUME NEW predicate, NEW from, NEW to, NEW K, from \in K, to \in K
  PROVE  Within({Edge(predicate, from, to)}, K)
  BY EdgeFields DEF Within

(* What a valid spec refers to is in it.                                    *)
LEMMA Referred ==
  ASSUME NEW s, IsAppSpec(s), Valid(s)
  PROVE  /\ \A t \in Elements(s.types) : Resolves(s, t.fields)
         /\ \A n \in Elements(s.nodes) : Resolves(s, n.fields)
         /\ \A a \in Elements(s.actors) : Resolves(s, a.state)
         /\ \A m \in Elements(s.bridge) : /\ Resolves(s, m.params)
                                          /\ m.result.name # Absent => m.result.name \in TypeNames(s)
  <1>1. \A ty \in TypesUsed(s) : ty.refs \subseteq TypeNames(s)
    BY DEF Valid, TypeRule
  <1>2. ASSUME NEW fields \in FieldLists(s), AreFields(fields) PROVE Resolves(s, fields)
    <2> SUFFICES ASSUME NEW f \in Elements(fields), f.ty.name # Absent PROVE f.ty.name \in TypeNames(s)
      BY DEF Resolves
    <2>1. f.ty \in TypesUsed(s)
      BY DEF TypesUsed
    <2>2. f.ty.name \in f.ty.refs
      BY <1>2 DEF AreFields, IsType
    <2> QED BY <1>1, <2>1, <2>2
  <1>3. \A t \in Elements(s.types) : t.fields \in FieldLists(s) /\ AreFields(t.fields)
    BY DEF IsAppSpec, IsDomainType, FieldLists
  <1>4. \A n \in Elements(s.nodes) : n.fields \in FieldLists(s) /\ AreFields(n.fields)
    BY DEF IsAppSpec, IsNodeType, FieldLists
  <1>5. \A a \in Elements(s.actors) : a.state \in FieldLists(s) /\ AreFields(a.state)
    BY DEF IsAppSpec, IsActor, FieldLists
  <1>6. \A m \in Elements(s.bridge) : m.params \in FieldLists(s) /\ AreFields(m.params)
    BY DEF IsAppSpec, IsMethod, FieldLists
  <1>7. ASSUME NEW m \in Elements(s.bridge), m.result.name # Absent PROVE m.result.name \in TypeNames(s)
    <2>1. m.result \in TypesUsed(s)
      BY DEF TypesUsed
    <2>2. m.result.name \in m.result.refs
      BY <1>7 DEF IsAppSpec, IsMethod, IsType
    <2> QED BY <1>1, <2>1, <2>2
  <1> QED BY <1>2, <1>3, <1>4, <1>5, <1>6, <1>7

(* The nodes the edges of a spec lead to.                                   *)
LEMMA SpecHas ==
  ASSUME NEW s
  PROVE  /\ Root(s) \in SpecKeys(s)
         /\ \A i \in DOMAIN s.types : KeysOf(TypeNodes(s.types[i], i)) \subseteq SpecKeys(s)
         /\ \A i \in DOMAIN s.nodes : KeysOf(GraphNodeNodes(s.nodes[i], i)) \subseteq SpecKeys(s)
         /\ KeysOf(Elements(LinkNodes(s))) \subseteq SpecKeys(s)
         /\ \A i \in DOMAIN s.actors : KeysOf(ActorNodes(s.actors[i], i)) \subseteq SpecKeys(s)
         /\ \A i \in DOMAIN s.bridge : KeysOf(MethodNodes(s.bridge[i], i)) \subseteq SpecKeys(s)
         /\ \A i \in DOMAIN s.ui : KeysOf(ScreenNodes(s.ui[i], i)) \subseteq SpecKeys(s)
  <1>0. \A N : N \subseteq SpecNodes(s) => KeysOf(N) \subseteq SpecKeys(s)
    BY DEF KeysOf, SpecKeys
  <1>1. RootNode(s) \in SpecNodes(s)
    BY DEF SpecNodes, CoreNodes
  <1>2. Root(s) \in SpecKeys(s)
    <2>1. RootNode(s).key = Root(s)
      BY NodeFields DEF RootNode
    <2> QED BY <1>1, <2>1 DEF KeysOf, SpecKeys
  <1>3. \A i \in DOMAIN s.types : TypeNodes(s.types[i], i) \subseteq SpecNodes(s)
    BY DEF SpecNodes, CoreNodes, TypesNodes
  <1>4. \A i \in DOMAIN s.nodes : GraphNodeNodes(s.nodes[i], i) \subseteq SpecNodes(s)
    BY DEF SpecNodes, CoreNodes, GraphTypeNodes
  <1>5. Elements(LinkNodes(s)) \subseteq SpecNodes(s)
    BY DEF SpecNodes, CoreNodes
  <1>6. \A i \in DOMAIN s.actors : ActorNodes(s.actors[i], i) \subseteq SpecNodes(s)
    BY DEF SpecNodes, ActorsNodes
  <1>7. \A i \in DOMAIN s.bridge : MethodNodes(s.bridge[i], i) \subseteq SpecNodes(s)
    BY DEF SpecNodes, MethodsNodes
  <1>8. \A i \in DOMAIN s.ui : ScreenNodes(s.ui[i], i) \subseteq SpecNodes(s)
    BY DEF SpecNodes, ScreensNodes
  <1> QED BY <1>0, <1>2, <1>3, <1>4, <1>5, <1>6, <1>7, <1>8

LEMMA SpecKnows ==
  ASSUME NEW s
  PROVE  /\ Named(s) \subseteq SpecKeys(s)
         /\ \A t \in Elements(s.types) : Key(t.name) \in SpecKeys(s)
         /\ \A n \in Elements(s.nodes) : Key(n.name) \in SpecKeys(s)
         /\ \A a \in Elements(s.actors) : Key(a.name) \in SpecKeys(s)
         /\ \A m \in Elements(s.bridge) : Key(m.method) \in SpecKeys(s)
         /\ \A v \in Elements(s.ui) : Key(v.id) \in SpecKeys(s)
  <1>1. \A N, n : n \in N => n.key \in KeysOf(N)
    BY DEF KeysOf
  <1>2. \A t \in Elements(s.types) : Key(t.name) \in SpecKeys(s)
    <2>1. ASSUME NEW i \in DOMAIN s.types PROVE Key(s.types[i].name) \in SpecKeys(s)
      <3>1. TypeSelf(s.types[i], i) \in TypeNodes(s.types[i], i)
        BY DEF TypeNodes
      <3>2. TypeSelf(s.types[i], i).key = Key(s.types[i].name)
        BY NodeFields DEF TypeSelf
      <3> QED BY <1>1, <3>1, <3>2, SpecHas
    <2> QED BY <2>1 DEF Elements, ToSet
  <1>3. \A n \in Elements(s.nodes) : Key(n.name) \in SpecKeys(s)
    <2>1. ASSUME NEW i \in DOMAIN s.nodes PROVE Key(s.nodes[i].name) \in SpecKeys(s)
      <3>1. GraphNodeSelf(s.nodes[i], i) \in GraphNodeNodes(s.nodes[i], i)
        BY DEF GraphNodeNodes
      <3>2. GraphNodeSelf(s.nodes[i], i).key = Key(s.nodes[i].name)
        BY NodeFields DEF GraphNodeSelf
      <3> QED BY <1>1, <3>1, <3>2, SpecHas
    <2> QED BY <2>1 DEF Elements, ToSet
  <1>4. \A a \in Elements(s.actors) : Key(a.name) \in SpecKeys(s)
    <2>1. ASSUME NEW i \in DOMAIN s.actors PROVE Key(s.actors[i].name) \in SpecKeys(s)
      <3>1. ActorSelf(s.actors[i], i) \in ActorNodes(s.actors[i], i)
        BY DEF ActorNodes
      <3>2. ActorSelf(s.actors[i], i).key = Key(s.actors[i].name)
        BY NodeFields DEF ActorSelf
      <3> QED BY <1>1, <3>1, <3>2, SpecHas
    <2> QED BY <2>1 DEF Elements, ToSet
  <1>5. \A m \in Elements(s.bridge) : Key(m.method) \in SpecKeys(s)
    <2>1. ASSUME NEW i \in DOMAIN s.bridge PROVE Key(s.bridge[i].method) \in SpecKeys(s)
      <3>1. MethodSelf(s.bridge[i], i) \in MethodNodes(s.bridge[i], i)
        BY DEF MethodNodes
      <3>2. MethodSelf(s.bridge[i], i).key = Key(s.bridge[i].method)
        BY NodeFields DEF MethodSelf
      <3> QED BY <1>1, <3>1, <3>2, SpecHas
    <2> QED BY <2>1 DEF Elements, ToSet
  <1>6. \A v \in Elements(s.ui) : Key(v.id) \in SpecKeys(s)
    <2>1. ASSUME NEW i \in DOMAIN s.ui PROVE Key(s.ui[i].id) \in SpecKeys(s)
      <3>1. ScreenSelf(s.ui[i], i) \in ScreenNodes(s.ui[i], i)
        BY DEF ScreenNodes
      <3>2. ScreenSelf(s.ui[i], i).key = Key(s.ui[i].id)
        BY NodeFields DEF ScreenSelf
      <3> QED BY <1>1, <3>1, <3>2, SpecHas
    <2> QED BY <2>1 DEF Elements, ToSet
  <1>7. Named(s) \subseteq SpecKeys(s)
    BY <1>2 DEF Named, TypeNames
  <1> QED BY <1>2, <1>3, <1>4, <1>5, <1>6, <1>7

LEMMA TypeWithin ==
  ASSUME NEW s, IsAppSpec(s), Valid(s), NEW i \in DOMAIN s.types
  PROVE  Within(TypeEdges(s, s.types[i]), SpecKeys(s))
  <1> DEFINE t == s.types[i]
             K == SpecKeys(s)
  <1>1. Resolves(s, t.fields) /\ Key(t.name) \in K /\ Root(s) \in K /\ Named(s) \subseteq K
    BY Referred, SpecHas, SpecKnows DEF Elements, ToSet
  <1>2. /\ KeysOf(Elements(FieldNodes(t.name, "field", t.fields))) \subseteq K
        /\ KeysOf(Elements(VariantNodes(t))) \subseteq K
    BY SpecHas DEF TypeNodes, KeysOf
  <1> HIDE DEF t, K
  <1>3. Within({Edge("HAS_TYPE", Root(s), Key(t.name))}, K)
    BY <1>1, WithinOne
  <1>4. Within(FieldEdges(t.name, "field", t.fields), K)
    BY <1>1, <1>2, FieldsWithin
  <1>5. Within(Links(Key(t.name), "HAS_VARIANT", VariantNodes(t)), K)
    BY <1>1, <1>2, LinksWithin
  <1>6. Within(TypeEdges(s, t), K)
    BY <1>3, <1>4, <1>5, WithinTwo DEF TypeEdges
  <1> QED BY <1>6 DEF t, K

LEMMA GraphNodeWithin ==
  ASSUME NEW s, IsAppSpec(s), Valid(s), NEW i \in DOMAIN s.nodes
  PROVE  Within(GraphNodeEdges(s, s.nodes[i]), SpecKeys(s))
  <1> DEFINE n == s.nodes[i]
             K == SpecKeys(s)
  <1>1. Resolves(s, n.fields) /\ Key(n.name) \in K /\ Root(s) \in K /\ Named(s) \subseteq K
    BY Referred, SpecHas, SpecKnows DEF Elements, ToSet
  <1>2. KeysOf(Elements(FieldNodes(n.name, "gfield", n.fields))) \subseteq K
    BY SpecHas DEF GraphNodeNodes, KeysOf
  <1> HIDE DEF n, K
  <1>3. Within({Edge("HAS_GRAPH_NODE", Root(s), Key(n.name))}, K)
    BY <1>1, WithinOne
  <1>4. Within(FieldEdges(n.name, "gfield", n.fields), K)
    BY <1>1, <1>2, FieldsWithin
  <1>5. Within(GraphNodeEdges(s, n), K)
    BY <1>3, <1>4, WithinTwo DEF GraphNodeEdges
  <1> QED BY <1>5 DEF n, K

LEMMA ActorWithin ==
  ASSUME NEW s, IsAppSpec(s), Valid(s), NEW i \in DOMAIN s.actors
  PROVE  Within(ActorEdges(s, s.actors[i]), SpecKeys(s))
  <1> DEFINE a == s.actors[i]
             K == SpecKeys(s)
  <1>1. Resolves(s, a.state) /\ Key(a.name) \in K /\ Root(s) \in K /\ Named(s) \subseteq K
    BY Referred, SpecHas, SpecKnows DEF Elements, ToSet
  <1>2. /\ KeysOf(Elements(FieldNodes(a.name, "state", a.state))) \subseteq K
        /\ KeysOf(Elements(HandlerNodes(a))) \subseteq K
    BY SpecHas DEF ActorNodes, KeysOf
  <1> HIDE DEF a, K
  <1>3. Within({Edge("HAS_ACTOR", Root(s), Key(a.name))}, K)
    BY <1>1, WithinOne
  <1>4. Within(FieldEdges(a.name, "state", a.state), K)
    BY <1>1, <1>2, FieldsWithin
  <1>5. Within(Links(Key(a.name), "HAS_HANDLER", HandlerNodes(a)), K)
    BY <1>1, <1>2, LinksWithin
  <1>6. Within(ActorEdges(s, a), K)
    BY <1>3, <1>4, <1>5, WithinTwo DEF ActorEdges
  <1> QED BY <1>6 DEF a, K

LEMMA MethodWithin ==
  ASSUME NEW s, IsAppSpec(s), Valid(s), NEW i \in DOMAIN s.bridge
  PROVE  Within(MethodEdges(s, s.bridge[i]), SpecKeys(s))
  <1> DEFINE m == s.bridge[i]
             K == SpecKeys(s)
  <1>0. m \in Elements(s.bridge)
    BY DEF Elements, ToSet
  <1>1. /\ Resolves(s, m.params) /\ Key(m.method) \in K /\ Root(s) \in K /\ Named(s) \subseteq K
        /\ m.result.name # Absent => Key(m.result.name) \in K
    BY <1>0, Referred, SpecHas, SpecKnows DEF Named
  <1>2. KeysOf(Elements(FieldNodes(m.method, "param", m.params))) \subseteq K
    BY SpecHas DEF MethodNodes, KeysOf
  <1>3. \A a \in Elements(s.actors) : Key(a.name) \in K
    BY SpecKnows
  <1> HIDE DEF m, K
  <1>4. Within({Edge("HAS_METHOD", Root(s), Key(m.method))}, K)
    BY <1>1, WithinOne
  <1>5. Within(FieldEdges(m.method, "param", m.params), K)
    BY <1>1, <1>2, FieldsWithin
  <1>6. Within(ResultEdges(m), K)
    BY <1>1, EdgeFields DEF Within, ResultEdges
  <1>7. Within(Dispatched(s, m), K)
    BY <1>1, <1>3, EdgeFields DEF Within, Dispatched
  <1>8. Within(MethodEdges(s, m), K)
    BY <1>4, <1>5, <1>6, <1>7, WithinTwo DEF MethodEdges
  <1> QED BY <1>8 DEF m, K

LEMMA ScreenWithin ==
  ASSUME NEW s, IsAppSpec(s), Valid(s), NEW i \in DOMAIN s.ui
  PROVE  Within(ScreenEdges(s, s.ui[i]), SpecKeys(s))
  <1> DEFINE v == s.ui[i]
             K == SpecKeys(s)
  <1>0. v \in Elements(s.ui) /\ IsScreen(v)
    BY DEF Elements, ToSet, IsAppSpec
  <1>1. Key(v.id) \in K /\ Root(s) \in K
    BY <1>0, SpecHas, SpecKnows
  <1>2. /\ KeysOf(Elements(ActionNodes(v))) \subseteq K
        /\ KeysOf(Elements(BindingNodes(v))) \subseteq K
        /\ KeysOf(Elements(MoveNodes(v))) \subseteq K
        /\ KeysOf(Elements(LayoutOf(v).nodes)) \subseteq K
    BY SpecHas DEF ScreenNodes, KeysOf
  <1>3. /\ \A j \in DOMAIN v.actions : Key(v.actions[j].bridge) \in K
        /\ \A j \in DOMAIN v.bindings : Key(v.bindings[j].method) \in K
        /\ \A j \in DOMAIN v.navigation : Key(v.navigation[j].to) \in K
    <2>1. /\ {a.bridge : a \in Elements(v.actions)} \subseteq Methods(s)
          /\ {b.method : b \in Elements(v.bindings)} \subseteq Methods(s)
          /\ {n.to : n \in Elements(v.navigation)} \subseteq ScreenIds(s)
      BY <1>0 DEF Valid, ScreenRule
    <2>2. /\ \A name \in Methods(s) : Key(name) \in K
          /\ \A name \in ScreenIds(s) : Key(name) \in K
      BY SpecKnows DEF Methods, ScreenIds
    <2>3. /\ \A j \in DOMAIN v.actions : v.actions[j].bridge \in Methods(s)
          /\ \A j \in DOMAIN v.bindings : v.bindings[j].method \in Methods(s)
          /\ \A j \in DOMAIN v.navigation : v.navigation[j].to \in ScreenIds(s)
      BY <2>1 DEF Elements, ToSet
    <2> QED BY <2>2, <2>3
  <1> HIDE DEF v, K
  <1>4. Within({Edge("HAS_SCREEN", Root(s), Key(v.id))}, K)
    BY <1>1, WithinOne
  <1>5. Within(ActionEdges(v), K)
    <2> DEFINE nodes == ActionNodes(v)
    <2>1. DOMAIN nodes = DOMAIN v.actions
      BY DEF ActionNodes
    <2>2. \A j \in DOMAIN nodes : Calls(v)[j] = Edge("CALLS", nodes[j].key, Key(v.actions[j].bridge))
      BY <2>1, NodeFields DEF Calls, ActionNodes
    <2> HIDE DEF nodes
    <2>3. \A j \in DOMAIN nodes : nodes[j].key \in K
      BY <1>2 DEF KeysOf, Elements, ToSet, nodes
    <2>4. Within(Tips(nodes, Calls(v)), K)
      BY <1>3, <2>1, <2>2, <2>3, TipsWithin, EdgeFields
    <2>5. Within(Links(Key(v.id), "HAS_ACTION", nodes), K)
      BY <1>1, <1>2, LinksWithin DEF nodes
    <2> QED BY <2>4, <2>5, WithinTwo DEF ActionEdges, nodes
  <1>6. Within(BindingEdges(v), K)
    <2> DEFINE nodes == BindingNodes(v)
    <2>1. DOMAIN nodes = DOMAIN v.bindings
      BY DEF BindingNodes
    <2>2. \A j \in DOMAIN nodes : Binds(v)[j] = Edge("BINDS", nodes[j].key, Key(v.bindings[j].method))
      BY <2>1, NodeFields DEF Binds, BindingNodes
    <2> HIDE DEF nodes
    <2>3. \A j \in DOMAIN nodes : nodes[j].key \in K
      BY <1>2 DEF KeysOf, Elements, ToSet, nodes
    <2>4. Within(Tips(nodes, Binds(v)), K)
      BY <1>3, <2>1, <2>2, <2>3, TipsWithin, EdgeFields
    <2>5. Within(Links(Key(v.id), "HAS_BINDING", nodes), K)
      BY <1>1, <1>2, LinksWithin DEF nodes
    <2> QED BY <2>4, <2>5, WithinTwo DEF BindingEdges, nodes
  <1>7. Within(MoveEdges(v), K)
    <2> DEFINE nodes == MoveNodes(v)
    <2>1. DOMAIN nodes = DOMAIN v.navigation
      BY DEF MoveNodes
    <2>2. \A j \in DOMAIN nodes : Moves(v)[j] = Edge("NAVIGATES_TO", nodes[j].key, Key(v.navigation[j].to))
      BY <2>1, NodeFields DEF Moves, MoveNodes
    <2> HIDE DEF nodes
    <2>3. \A j \in DOMAIN nodes : nodes[j].key \in K
      BY <1>2 DEF KeysOf, Elements, ToSet, nodes
    <2>4. Within(Tips(nodes, Moves(v)), K)
      BY <1>3, <2>1, <2>2, <2>3, TipsWithin, EdgeFields
    <2>5. Within(Links(Key(v.id), "HAS_NAVIGATION", nodes), K)
      BY <1>1, <1>2, LinksWithin DEF nodes
    <2> QED BY <2>4, <2>5, WithinTwo DEF MoveEdges, nodes
  <1>8. Within(Elements(LayoutOf(v).edges), K)
    <2>1. Closed(v.id, LayoutOf(v), 0)
      BY <1>0, LayoutClosed DEF IsScreen, LayoutOf, v
    <2>2. Keys(LayoutOf(v)) \union {Key(v.id)} \subseteq K
      BY <1>1, <1>2 DEF Keys, KeysOf
    <2> QED BY <2>1, <2>2 DEF Closed, Within
  <1>9. Within(ScreenEdges(s, v), K)
    BY <1>4, <1>5, <1>6, <1>7, <1>8, WithinTwo DEF ScreenEdges
  <1> QED BY <1>9 DEF v, K

(* Every edge of a valid spec joins two nodes of it.                        *)
LEMMA SpecWithin ==
  ASSUME NEW s, IsAppSpec(s), Valid(s)
  PROVE  Within(SpecEdges(s), SpecKeys(s))
  <1> DEFINE K == SpecKeys(s)
  <1> HIDE DEF K
  <1>1. Within(TypesEdges(s), K)
    BY TypeWithin DEF Within, TypesEdges, K
  <1>2. Within(GraphTypeEdges(s), K)
    BY GraphNodeWithin DEF Within, GraphTypeEdges, K
  <1>3. Within(Links(Root(s), "HAS_GRAPH_EDGE", LinkNodes(s)), K)
    BY SpecHas, LinksWithin DEF K
  <1>4. Within(ActorsEdges(s), K)
    BY ActorWithin DEF Within, ActorsEdges, K
  <1>5. Within(MethodsEdges(s), K)
    BY MethodWithin DEF Within, MethodsEdges, K
  <1>6. Within(ScreensEdges(s), K)
    BY ScreenWithin DEF Within, ScreensEdges, K
  <1>7. Within({}, K)
    BY DEF Within
  <1>8. Within(SpecEdges(s), K)
    BY <1>1, <1>2, <1>3, <1>4, <1>5, <1>6, <1>7, WithinTwo DEF SpecEdges, CoreEdges
  <1> QED BY <1>8 DEF K

(* No edge of a spec that obeys the rules is loose: both its ends are nodes *)
(* of the spec's graph.  Storing a spec passes over an edge to a node that  *)
(* was not stored (spec_graph.rs decompose, spec_persist.rs create_rel).    *)
THEOREM NoLooseEdges ==
  ASSUME NEW s, IsAppSpec(s), Valid(s)
  PROVE  \A e \in Elements(Decompose(s).edges) : {e.from, e.to} \subseteq Keys(Decompose(s))
  <1>1. /\ Elements(Decompose(s).nodes) = SpecNodes(s)
        /\ Elements(Decompose(s).edges) = SpecEdges(s)
    BY DecomposeHolds DEF Holds
  <1>2. Keys(Decompose(s)) = SpecKeys(s)
    BY <1>1 DEF Keys, SpecKeys, KeysOf
  <1> QED BY <1>1, <1>2, SpecWithin DEF Within

(* What type a node of a spec may be of: one is the anchor, none is a file. *)
SpecTypes == {"type", "field", "variant", "graph_node", "graph_edge", "actor", "handler", "method", "screen",
              "action", "binding", "navigation", "layout"}

LEMMA NodeTypes ==
  ASSUME NEW s, IsAppSpec(s), NEW n \in SpecNodes(s)
  PROVE  n = RootNode(s) \/ n.type \in SpecTypes
  <1>1. ASSUME NEW owner, NEW kind, NEW fields, n \in Elements(FieldNodes(owner, kind, fields)) PROVE n.type = "field"
    BY <1>1, NodeFields DEF Elements, ToSet, FieldNodes
  <1>2. CASE n \in TypesNodes(s)
    <2>1. PICK i \in DOMAIN s.types : n \in TypeNodes(s.types[i], i)
      BY <1>2 DEF TypesNodes
    <2>2. CASE n = TypeSelf(s.types[i], i)
      BY <2>2, NodeFields DEF TypeSelf, SpecTypes
    <2>3. CASE n \in Elements(VariantNodes(s.types[i]))
      <3>1. \A j \in DOMAIN VariantNodes(s.types[i]) : VariantNodes(s.types[i])[j].type = "variant"
        BY NodeFields DEF VariantNodes
      <3>2. n.type = "variant"
        BY <2>3, <3>1 DEF Elements, ToSet
      <3> QED BY <3>2 DEF SpecTypes
    <2> QED BY <1>1, <2>1, <2>2, <2>3 DEF TypeNodes, SpecTypes
  <1>3. CASE n \in GraphTypeNodes(s)
    <2>1. PICK i \in DOMAIN s.nodes : n \in GraphNodeNodes(s.nodes[i], i)
      BY <1>3 DEF GraphTypeNodes
    <2>2. CASE n = GraphNodeSelf(s.nodes[i], i)
      BY <2>2, NodeFields DEF GraphNodeSelf, SpecTypes
    <2> QED BY <1>1, <2>1, <2>2 DEF GraphNodeNodes, SpecTypes
  <1>4. CASE n \in Elements(LinkNodes(s))
    <2>1. \A j \in DOMAIN LinkNodes(s) : LinkNodes(s)[j].type = "graph_edge"
      BY NodeFields DEF LinkNodes
    <2>2. n.type = "graph_edge"
      BY <1>4, <2>1 DEF Elements, ToSet
    <2> QED BY <2>2 DEF SpecTypes
  <1>5. CASE n \in ActorsNodes(s)
    <2>1. PICK i \in DOMAIN s.actors : n \in ActorNodes(s.actors[i], i)
      BY <1>5 DEF ActorsNodes
    <2>2. CASE n = ActorSelf(s.actors[i], i)
      BY <2>2, NodeFields DEF ActorSelf, SpecTypes
    <2>3. CASE n \in Elements(HandlerNodes(s.actors[i]))
      <3>1. \A j \in DOMAIN HandlerNodes(s.actors[i]) : HandlerNodes(s.actors[i])[j].type = "handler"
        BY NodeFields DEF HandlerNodes
      <3>2. n.type = "handler"
        BY <2>3, <3>1 DEF Elements, ToSet
      <3> QED BY <3>2 DEF SpecTypes
    <2> QED BY <1>1, <2>1, <2>2, <2>3 DEF ActorNodes, SpecTypes
  <1>6. CASE n \in MethodsNodes(s)
    <2>1. PICK i \in DOMAIN s.bridge : n \in MethodNodes(s.bridge[i], i)
      BY <1>6 DEF MethodsNodes
    <2>2. CASE n = MethodSelf(s.bridge[i], i)
      BY <2>2, NodeFields DEF MethodSelf, SpecTypes
    <2> QED BY <1>1, <2>1, <2>2 DEF MethodNodes, SpecTypes
  <1>7. CASE n \in ScreensNodes(s)
    <2>1. PICK i \in DOMAIN s.ui : n \in ScreenNodes(s.ui[i], i)
      BY <1>7 DEF ScreensNodes
    <2> DEFINE v == s.ui[i]
    <2>2. IsScreen(v)
      BY DEF IsAppSpec, Elements, ToSet
    <2>3. CASE n = ScreenSelf(v, i)
      BY <2>3, NodeFields DEF ScreenSelf, SpecTypes
    <2>4. CASE n \in Elements(ActionNodes(v))
      <3>1. \A j \in DOMAIN ActionNodes(v) : ActionNodes(v)[j].type = "action"
        BY NodeFields DEF ActionNodes
      <3>2. n.type = "action"
        BY <2>4, <3>1 DEF Elements, ToSet
      <3> QED BY <3>2 DEF SpecTypes
    <2>5. CASE n \in Elements(BindingNodes(v))
      <3>1. \A j \in DOMAIN BindingNodes(v) : BindingNodes(v)[j].type = "binding"
        BY NodeFields DEF BindingNodes
      <3>2. n.type = "binding"
        BY <2>5, <3>1 DEF Elements, ToSet
      <3> QED BY <3>2 DEF SpecTypes
    <2>6. CASE n \in Elements(MoveNodes(v))
      <3>1. \A j \in DOMAIN MoveNodes(v) : MoveNodes(v)[j].type = "navigation"
        BY NodeFields DEF MoveNodes
      <3>2. n.type = "navigation"
        BY <2>6, <3>1 DEF Elements, ToSet
      <3> QED BY <3>2 DEF SpecTypes
    <2>7. CASE n \in Elements(LayoutOf(v).nodes)
      <3>1. Closed(v.id, LayoutOf(v), 0)
        BY <2>2, LayoutClosed DEF IsScreen, LayoutOf
      <3> QED BY <2>7, <3>1 DEF Closed, SpecTypes
    <2> HIDE DEF v
    <2> QED BY <2>1, <2>3, <2>4, <2>5, <2>6, <2>7 DEF ScreenNodes, v
  <1> QED BY <1>2, <1>3, <1>4, <1>5, <1>6, <1>7 DEF SpecNodes, CoreNodes

-----------------------------------------------------------------------------
(***************************************************************************)
(* How the graph of a spec is laid out: nodes with a place among others of *)
(* their type come in that order, every other node has a key of its own,   *)
(* and one edge leads to it from what it is a part of.                     *)
(***************************************************************************)
TopTypes        == {"appspec", "type", "graph_node", "graph_edge", "actor", "method", "screen"}
InnerTypes      == {"field", "variant", "handler", "action", "binding", "navigation", "layout"}
ChildPredicates == {"HAS_FIELD", "HAS_VARIANT", "HAS_HANDLER", "HAS_ACTION", "HAS_BINDING", "HAS_NAVIGATION",
                    "HAS_LAYOUT", "LAYOUT_CHILD"}
TopKey(key) == key = Key(key[1]) \/ key = Part(key[1], "edge", key[3])

\* Nodes and edges with keys in T and places in S.
NodeLaid(n, T, S) ==
  \/ n.type \in InnerTypes /\ n.key \in T
  \/ n.type \in TopTypes /\ <<n.type, n.order>> \in S /\ TopKey(n.key)
EdgeLaid(e, T) == e.predicate \in ChildPredicates => e.to \in T

NodesApart(x, y) ==
  /\ x.type \in InnerTypes /\ y.type \in InnerTypes => x.key # y.key
  /\ x.type \in TopTypes /\ y.type = x.type => x.order < y.order
EdgesApart(x, y) == x.predicate \in ChildPredicates /\ y.predicate \in ChildPredicates => x.to # y.to

NodesLaid(l, T, S) ==
  /\ IsList(l) /\ \A n \in Elements(l) : NodeLaid(n, T, S)
  /\ \A p, q \in DOMAIN l : p < q => NodesApart(l[p], l[q])
EdgesLaid(l, T) ==
  /\ IsList(l) /\ \A e \in Elements(l) : EdgeLaid(e, T)
  /\ \A p, q \in DOMAIN l : p < q => EdgesApart(l[p], l[q])
Laid(g, T, S) == IsGraph(g) /\ NodesLaid(g.nodes, T, S) /\ EdgesLaid(g.edges, T)

Before(S, S1) == \A a \in S, b \in S1 : a[1] = b[1] => a[2] < b[2]

LEMMA NothingBefore == Before({}, {}) /\ \A S : Before({}, S) /\ Before(S, {})
  BY DEF Before

LEMMA NodesSorted ==
  ASSUME NEW X, NEW l, IsList(l), Elements(l) \subseteq X
  PROVE  Sorted(l, {p \in X \X X : NodesApart(p[1], p[2])}) <=> \A p, q \in DOMAIN l : p < q => NodesApart(l[p], l[q])
  <1> DEFINE R == {p \in X \X X : NodesApart(p[1], p[2])}
  <1>1. \A x, y \in X : <<x, y>> \in R <=> NodesApart(x, y)
    OBVIOUS
  <1>2. \A i \in DOMAIN l : l[i] \in X
    BY DEF Elements, ToSet
  <1> HIDE DEF R
  <1>3. Sorted(l, R) <=> \A p, q \in DOMAIN l : p < q => NodesApart(l[p], l[q])
    BY <1>1, <1>2 DEF Sorted
  <1> QED BY <1>3 DEF R

LEMMA EdgesSorted ==
  ASSUME NEW X, NEW l, IsList(l), Elements(l) \subseteq X
  PROVE  Sorted(l, {p \in X \X X : EdgesApart(p[1], p[2])}) <=> \A p, q \in DOMAIN l : p < q => EdgesApart(l[p], l[q])
  <1> DEFINE R == {p \in X \X X : EdgesApart(p[1], p[2])}
  <1>1. \A x, y \in X : <<x, y>> \in R <=> EdgesApart(x, y)
    OBVIOUS
  <1>2. \A i \in DOMAIN l : l[i] \in X
    BY DEF Elements, ToSet
  <1> HIDE DEF R
  <1>3. Sorted(l, R) <=> \A p, q \in DOMAIN l : p < q => EdgesApart(l[p], l[q])
    BY <1>1, <1>2 DEF Sorted
  <1> QED BY <1>3 DEF R

LEMMA LaidApart ==
  ASSUME NEW T, NEW S, NEW T1, NEW S1, T \cap T1 = {}, Before(S, S1)
  PROVE  /\ \A x, y : NodeLaid(x, T, S) /\ NodeLaid(y, T1, S1) => NodesApart(x, y)
         /\ \A x, y : EdgeLaid(x, T) /\ EdgeLaid(y, T1) => EdgesApart(x, y)
  <1>1. \A type : ~(type \in InnerTypes /\ type \in TopTypes)
    BY DEF InnerTypes, TopTypes
  <1>2. ASSUME NEW x, NEW y, NodeLaid(x, T, S), NodeLaid(y, T1, S1) PROVE NodesApart(x, y)
    <2>1. ASSUME x.type \in InnerTypes, y.type \in InnerTypes PROVE x.key # y.key
      BY <1>1, <1>2, <2>1 DEF NodeLaid
    <2>2. ASSUME x.type \in TopTypes, y.type = x.type PROVE x.order < y.order
      <3> DEFINE a == <<x.type, x.order>>
                 b == <<y.type, y.order>>
      <3>1. a \in S /\ b \in S1
        BY <1>1, <1>2, <2>2 DEF NodeLaid
      <3>2. a[1] = x.type /\ a[2] = x.order /\ b[1] = y.type /\ b[2] = y.order
        OBVIOUS
      <3> HIDE DEF a, b
      <3> QED BY <2>2, <3>1, <3>2 DEF Before
    <2> QED BY <2>1, <2>2 DEF NodesApart
  <1>3. ASSUME NEW x, NEW y, EdgeLaid(x, T), EdgeLaid(y, T1) PROVE EdgesApart(x, y)
    BY <1>3 DEF EdgeLaid, EdgesApart
  <1> QED BY <1>2, <1>3

LaidEach(parts, T, S) ==
  /\ IsList(parts) /\ \A i \in DOMAIN parts : Laid(parts[i], T[i], S[i])
  /\ \A i, j \in DOMAIN parts : i # j => T[i] \cap T[j] = {}
  /\ \A i, j \in DOMAIN parts : i < j => Before(S[i], S[j])

NodesEach(parts, T, S) ==
  /\ IsList(parts) /\ \A i \in DOMAIN parts : IsGraph(parts[i]) /\ NodesLaid(parts[i].nodes, T[i], S[i])
  /\ \A i, j \in DOMAIN parts : i < j => T[i] \cap T[j] = {} /\ Before(S[i], S[j])
EdgesEach(parts, T) ==
  /\ IsList(parts) /\ \A i \in DOMAIN parts : IsGraph(parts[i]) /\ EdgesLaid(parts[i].edges, T[i])
  /\ \A i, j \in DOMAIN parts : i < j => T[i] \cap T[j] = {}

LEMMA JoinedNodesLaid ==
  ASSUME NEW parts, NEW T, NEW S, NodesEach(parts, T, S)
  PROVE  NodesLaid(Joined(parts).nodes, Gathered(parts, T), Gathered(parts, S))
  <1> DEFINE N == UNION {Elements(parts[i].nodes) : i \in DOMAIN parts}
             R == {p \in N \X N : NodesApart(p[1], p[2])}
             TT == Gathered(parts, T)
             SS == Gathered(parts, S)
             g == Joined(parts)
  <1>1. IsList(parts) /\ \A i \in DOMAIN parts : IsGraph(parts[i])
    BY DEF NodesEach
  <1>2. \A x, y \in N : <<x, y>> \in R <=> NodesApart(x, y)
    OBVIOUS
  <1>3. \A i \in DOMAIN parts : Elements(parts[i].nodes) \subseteq N
    OBVIOUS
  <1> HIDE DEF N
  <1>4. ASSUME NEW i \in DOMAIN parts PROVE Sorted(parts[i].nodes, R)
    <2>1. NodesLaid(parts[i].nodes, T[i], S[i])
      BY DEF NodesEach
    <2> QED BY <1>3, <2>1, NodesSorted DEF NodesLaid
  <1>5. ASSUME NEW i \in DOMAIN parts, NEW j \in DOMAIN parts, i < j
        PROVE  \A x \in Elements(parts[i].nodes), y \in Elements(parts[j].nodes) : <<x, y>> \in R
    <2>1. T[i] \cap T[j] = {} /\ Before(S[i], S[j])
      BY <1>5 DEF NodesEach
    <2>2. /\ \A x \in Elements(parts[i].nodes) : NodeLaid(x, T[i], S[i])
          /\ \A y \in Elements(parts[j].nodes) : NodeLaid(y, T[j], S[j])
      BY DEF NodesEach, NodesLaid
    <2>3. \A x \in Elements(parts[i].nodes), y \in Elements(parts[j].nodes) : NodesApart(x, y)
      BY <2>1, <2>2, LaidApart
    <2> HIDE DEF R
    <2> QED BY <1>2, <1>3, <2>3
  <1> HIDE DEF R
  <1>6. /\ IsGraph(g)
        /\ \A x : x \in Elements(g.nodes) <=> \E i \in DOMAIN parts : x \in Elements(parts[i].nodes)
        /\ Sorted(g.nodes, R)
    BY <1>1, <1>4, <1>5, JoinedGraph
  <1> HIDE DEF g
  <1>7. IsList(g.nodes) /\ Elements(g.nodes) \subseteq N
    BY <1>3, <1>6 DEF IsGraph
  <1>8. \A n \in Elements(g.nodes) : NodeLaid(n, TT, SS)
    <2> SUFFICES ASSUME NEW n \in Elements(g.nodes) PROVE NodeLaid(n, TT, SS)
      OBVIOUS
    <2>1. PICK i \in DOMAIN parts : n \in Elements(parts[i].nodes)
      BY <1>6
    <2>2. NodeLaid(n, T[i], S[i])
      BY <2>1 DEF NodesEach, NodesLaid
    <2>3. T[i] \subseteq TT /\ S[i] \subseteq SS
      BY DEF Gathered
    <2> HIDE DEF TT, SS
    <2> QED BY <2>2, <2>3 DEF NodeLaid
  <1>9. \A p, q \in DOMAIN g.nodes : p < q => NodesApart(g.nodes[p], g.nodes[q])
    BY <1>6, <1>7, NodesSorted DEF R
  <1> HIDE DEF TT, SS
  <1>10. NodesLaid(g.nodes, TT, SS)
    BY <1>7, <1>8, <1>9 DEF NodesLaid
  <1> QED BY <1>10 DEF g, TT, SS

LEMMA JoinedEdgesLaid ==
  ASSUME NEW parts, NEW T, EdgesEach(parts, T)
  PROVE  EdgesLaid(Joined(parts).edges, Gathered(parts, T))
  <1> DEFINE E == UNION {Elements(parts[i].edges) : i \in DOMAIN parts}
             R == {p \in E \X E : EdgesApart(p[1], p[2])}
             TT == Gathered(parts, T)
             g == Joined(parts)
  <1>1. IsList(parts) /\ \A i \in DOMAIN parts : IsGraph(parts[i])
    BY DEF EdgesEach
  <1>2. \A x, y \in E : <<x, y>> \in R <=> EdgesApart(x, y)
    OBVIOUS
  <1>3. \A i \in DOMAIN parts : Elements(parts[i].edges) \subseteq E
    OBVIOUS
  <1> HIDE DEF E
  <1>4. ASSUME NEW i \in DOMAIN parts PROVE Sorted(parts[i].edges, R)
    <2>1. EdgesLaid(parts[i].edges, T[i])
      BY DEF EdgesEach
    <2> QED BY <1>3, <2>1, EdgesSorted DEF EdgesLaid
  <1>5. ASSUME NEW i \in DOMAIN parts, NEW j \in DOMAIN parts, i < j
        PROVE  \A x \in Elements(parts[i].edges), y \in Elements(parts[j].edges) : <<x, y>> \in R
    <2>1. T[i] \cap T[j] = {}
      BY <1>5 DEF EdgesEach
    <2>2. /\ \A x \in Elements(parts[i].edges) : EdgeLaid(x, T[i])
          /\ \A y \in Elements(parts[j].edges) : EdgeLaid(y, T[j])
      BY DEF EdgesEach, EdgesLaid
    <2>3. \A x \in Elements(parts[i].edges), y \in Elements(parts[j].edges) : EdgesApart(x, y)
      BY <2>1, <2>2, NothingBefore, LaidApart
    <2> HIDE DEF R
    <2> QED BY <1>2, <1>3, <2>3
  <1> HIDE DEF R
  <1>6. /\ IsGraph(g)
        /\ \A e : e \in Elements(g.edges) <=> \E i \in DOMAIN parts : e \in Elements(parts[i].edges)
        /\ Sorted(g.edges, R)
    BY <1>1, <1>4, <1>5, JoinedGraph
  <1> HIDE DEF g
  <1>7. IsList(g.edges) /\ Elements(g.edges) \subseteq E
    BY <1>3, <1>6 DEF IsGraph
  <1>8. \A e \in Elements(g.edges) : EdgeLaid(e, TT)
    <2> SUFFICES ASSUME NEW e \in Elements(g.edges) PROVE EdgeLaid(e, TT)
      OBVIOUS
    <2>1. PICK i \in DOMAIN parts : e \in Elements(parts[i].edges)
      BY <1>6
    <2>2. EdgeLaid(e, T[i])
      BY <2>1 DEF EdgesEach, EdgesLaid
    <2>3. T[i] \subseteq TT
      BY DEF Gathered
    <2> HIDE DEF TT
    <2> QED BY <2>2, <2>3 DEF EdgeLaid
  <1>9. \A p, q \in DOMAIN g.edges : p < q => EdgesApart(g.edges[p], g.edges[q])
    BY <1>6, <1>7, EdgesSorted DEF R
  <1> HIDE DEF TT
  <1>10. EdgesLaid(g.edges, TT)
    BY <1>7, <1>8, <1>9 DEF EdgesLaid
  <1> QED BY <1>10 DEF g, TT

LEMMA JoinedLaid ==
  ASSUME NEW parts, NEW T, NEW S, LaidEach(parts, T, S)
  PROVE  Laid(Joined(parts), Gathered(parts, T), Gathered(parts, S))
  <1>1. IsList(parts) /\ \A i \in DOMAIN parts : IsGraph(parts[i])
    BY DEF LaidEach, Laid
  <1>2. \A i, j \in DOMAIN parts : i < j => i # j
    BY <1>1, ListProperties
  <1>3. NodesEach(parts, T, S) /\ EdgesEach(parts, T)
    BY <1>2 DEF LaidEach, Laid, NodesEach, EdgesEach
  <1>4. IsGraph(Joined(parts))
    BY <1>1, JoinedGraph
  <1> QED BY <1>3, <1>4, JoinedNodesLaid, JoinedEdgesLaid DEF Laid

(* Two to five parts.                                                       *)
LEMMA LaidTwo ==
  ASSUME NEW a, NEW Ta, NEW Sa, Laid(a, Ta, Sa),
         NEW b, NEW Tb, NEW Sb, Laid(b, Tb, Sb),
         Ta \cap Tb = {}, Before(Sa, Sb)
  PROVE  Laid(Joined(<<a, b>>), Ta \union Tb, Sa \union Sb)
  <1> DEFINE l == <<a, b>>
             T == <<Ta, Tb>>
             S == <<Sa, Sb>>
  <1>1. l = [i \in 1..2 |-> l[i]] /\ DOMAIN l = 1..2
        /\ l[1] = a /\ l[2] = b
    OBVIOUS
  <1>2. T[1] = Ta /\ S[1] = Sa /\ T[2] = Tb /\ S[2] = Sb
    OBVIOUS
  <1>3. \A i : i \in 1..2 <=> i = 1 \/ i = 2
    OBVIOUS
  <1> HIDE DEF l, T, S
  <1>4. LaidEach(l, T, S)
    <2>1. IsList(l)
      BY <1>1, FunctionIsList
    <2>2. \A i \in DOMAIN l : Laid(l[i], T[i], S[i])
      BY <1>1, <1>2, <1>3
    <2>3. \A i, j \in DOMAIN l : i # j => T[i] \cap T[j] = {}
      BY <1>1, <1>2, <1>3
    <2>4. \A i, j \in DOMAIN l : i < j => Before(S[i], S[j])
      BY <1>1, <1>2, <1>3
    <2> QED BY <2>1, <2>2, <2>3, <2>4 DEF LaidEach
  <1>5. Laid(Joined(l), Gathered(l, T), Gathered(l, S))
    BY <1>4, JoinedLaid
  <1>6. Gathered(l, T) = Ta \union Tb
    BY <1>1, <1>2, <1>3 DEF Gathered
  <1>7. Gathered(l, S) = Sa \union Sb
    BY <1>1, <1>2, <1>3 DEF Gathered
  <1> QED BY <1>5, <1>6, <1>7 DEF l

LEMMA LaidThree ==
  ASSUME NEW a, NEW Ta, NEW Sa, Laid(a, Ta, Sa),
         NEW b, NEW Tb, NEW Sb, Laid(b, Tb, Sb),
         NEW c, NEW Tc, NEW Sc, Laid(c, Tc, Sc),
         Ta \cap Tb = {}, Before(Sa, Sb),
         Ta \cap Tc = {}, Before(Sa, Sc),
         Tb \cap Tc = {}, Before(Sb, Sc)
  PROVE  Laid(Joined(<<a, b, c>>), Ta \union Tb \union Tc, Sa \union Sb \union Sc)
  <1> DEFINE l == <<a, b, c>>
             T == <<Ta, Tb, Tc>>
             S == <<Sa, Sb, Sc>>
  <1>1. l = [i \in 1..3 |-> l[i]] /\ DOMAIN l = 1..3
        /\ l[1] = a /\ l[2] = b /\ l[3] = c
    OBVIOUS
  <1>2. T[1] = Ta /\ S[1] = Sa /\ T[2] = Tb /\ S[2] = Sb /\ T[3] = Tc /\ S[3] = Sc
    OBVIOUS
  <1>3. \A i : i \in 1..3 <=> i = 1 \/ i = 2 \/ i = 3
    OBVIOUS
  <1> HIDE DEF l, T, S
  <1>4. LaidEach(l, T, S)
    <2>1. IsList(l)
      BY <1>1, FunctionIsList
    <2>2. \A i \in DOMAIN l : Laid(l[i], T[i], S[i])
      BY <1>1, <1>2, <1>3
    <2>3. \A i, j \in DOMAIN l : i # j => T[i] \cap T[j] = {}
      BY <1>1, <1>2, <1>3
    <2>4. \A i, j \in DOMAIN l : i < j => Before(S[i], S[j])
      BY <1>1, <1>2, <1>3
    <2> QED BY <2>1, <2>2, <2>3, <2>4 DEF LaidEach
  <1>5. Laid(Joined(l), Gathered(l, T), Gathered(l, S))
    BY <1>4, JoinedLaid
  <1>6. Gathered(l, T) = Ta \union Tb \union Tc
    BY <1>1, <1>2, <1>3 DEF Gathered
  <1>7. Gathered(l, S) = Sa \union Sb \union Sc
    BY <1>1, <1>2, <1>3 DEF Gathered
  <1> QED BY <1>5, <1>6, <1>7 DEF l

LEMMA LaidFour ==
  ASSUME NEW a, NEW Ta, NEW Sa, Laid(a, Ta, Sa),
         NEW b, NEW Tb, NEW Sb, Laid(b, Tb, Sb),
         NEW c, NEW Tc, NEW Sc, Laid(c, Tc, Sc),
         NEW d, NEW Td, NEW Sd, Laid(d, Td, Sd),
         Ta \cap Tb = {}, Before(Sa, Sb),
         Ta \cap Tc = {}, Before(Sa, Sc),
         Ta \cap Td = {}, Before(Sa, Sd),
         Tb \cap Tc = {}, Before(Sb, Sc),
         Tb \cap Td = {}, Before(Sb, Sd),
         Tc \cap Td = {}, Before(Sc, Sd)
  PROVE  Laid(Joined(<<a, b, c, d>>), Ta \union Tb \union Tc \union Td, Sa \union Sb \union Sc \union Sd)
  <1> DEFINE l == <<a, b, c, d>>
             T == <<Ta, Tb, Tc, Td>>
             S == <<Sa, Sb, Sc, Sd>>
  <1>1. l = [i \in 1..4 |-> l[i]] /\ DOMAIN l = 1..4
        /\ l[1] = a /\ l[2] = b /\ l[3] = c /\ l[4] = d
    OBVIOUS
  <1>2. T[1] = Ta /\ S[1] = Sa /\ T[2] = Tb /\ S[2] = Sb /\ T[3] = Tc /\ S[3] = Sc /\ T[4] = Td /\ S[4] = Sd
    OBVIOUS
  <1>3. \A i : i \in 1..4 <=> i = 1 \/ i = 2 \/ i = 3 \/ i = 4
    OBVIOUS
  <1> HIDE DEF l, T, S
  <1>4. LaidEach(l, T, S)
    <2>1. IsList(l)
      BY <1>1, FunctionIsList
    <2>2. \A i \in DOMAIN l : Laid(l[i], T[i], S[i])
      BY <1>1, <1>2, <1>3
    <2>3. \A i, j \in DOMAIN l : i # j => T[i] \cap T[j] = {}
      BY <1>1, <1>2, <1>3
    <2>4. \A i, j \in DOMAIN l : i < j => Before(S[i], S[j])
      BY <1>1, <1>2, <1>3
    <2> QED BY <2>1, <2>2, <2>3, <2>4 DEF LaidEach
  <1>5. Laid(Joined(l), Gathered(l, T), Gathered(l, S))
    BY <1>4, JoinedLaid
  <1>6. Gathered(l, T) = Ta \union Tb \union Tc \union Td
    BY <1>1, <1>2, <1>3 DEF Gathered
  <1>7. Gathered(l, S) = Sa \union Sb \union Sc \union Sd
    BY <1>1, <1>2, <1>3 DEF Gathered
  <1> QED BY <1>5, <1>6, <1>7 DEF l

LEMMA LaidFive ==
  ASSUME NEW a, NEW Ta, NEW Sa, Laid(a, Ta, Sa),
         NEW b, NEW Tb, NEW Sb, Laid(b, Tb, Sb),
         NEW c, NEW Tc, NEW Sc, Laid(c, Tc, Sc),
         NEW d, NEW Td, NEW Sd, Laid(d, Td, Sd),
         NEW e, NEW Te, NEW Se, Laid(e, Te, Se),
         Ta \cap Tb = {}, Before(Sa, Sb),
         Ta \cap Tc = {}, Before(Sa, Sc),
         Ta \cap Td = {}, Before(Sa, Sd),
         Ta \cap Te = {}, Before(Sa, Se),
         Tb \cap Tc = {}, Before(Sb, Sc),
         Tb \cap Td = {}, Before(Sb, Sd),
         Tb \cap Te = {}, Before(Sb, Se),
         Tc \cap Td = {}, Before(Sc, Sd),
         Tc \cap Te = {}, Before(Sc, Se),
         Td \cap Te = {}, Before(Sd, Se)
  PROVE  Laid(Joined(<<a, b, c, d, e>>), Ta \union Tb \union Tc \union Td \union Te, Sa \union Sb \union Sc \union Sd \union Se)
  <1> DEFINE l == <<a, b, c, d, e>>
             T == <<Ta, Tb, Tc, Td, Te>>
             S == <<Sa, Sb, Sc, Sd, Se>>
  <1>1. l = [i \in 1..5 |-> l[i]] /\ DOMAIN l = 1..5
        /\ l[1] = a /\ l[2] = b /\ l[3] = c /\ l[4] = d /\ l[5] = e
    OBVIOUS
  <1>2. T[1] = Ta /\ S[1] = Sa /\ T[2] = Tb /\ S[2] = Sb /\ T[3] = Tc /\ S[3] = Sc /\ T[4] = Td /\ S[4] = Sd /\ T[5] = Te /\ S[5] = Se
    OBVIOUS
  <1>3. \A i : i \in 1..5 <=> i = 1 \/ i = 2 \/ i = 3 \/ i = 4 \/ i = 5
    OBVIOUS
  <1> HIDE DEF l, T, S
  <1>4. LaidEach(l, T, S)
    <2>1. IsList(l)
      BY <1>1, FunctionIsList
    <2>2. \A i \in DOMAIN l : Laid(l[i], T[i], S[i])
      BY <1>1, <1>2, <1>3
    <2>3. \A i, j \in DOMAIN l : i # j => T[i] \cap T[j] = {}
      BY <1>1, <1>2, <1>3
    <2>4. \A i, j \in DOMAIN l : i < j => Before(S[i], S[j])
      BY <1>1, <1>2, <1>3
    <2> QED BY <2>1, <2>2, <2>3, <2>4 DEF LaidEach
  <1>5. Laid(Joined(l), Gathered(l, T), Gathered(l, S))
    BY <1>4, JoinedLaid
  <1>6. Gathered(l, T) = Ta \union Tb \union Tc \union Td \union Te
    BY <1>1, <1>2, <1>3 DEF Gathered
  <1>7. Gathered(l, S) = Sa \union Sb \union Sc \union Sd \union Se
    BY <1>1, <1>2, <1>3 DEF Gathered
  <1> QED BY <1>5, <1>6, <1>7 DEF l

(* One part, and one for each of a list.                                    *)
PlainEdges(l) == IsList(l) /\ \A e \in Elements(l) : e.predicate \notin ChildPredicates

LEMMA EmptyPlain == PlainEdges(<<>>)
  BY EmptyList DEF PlainEdges

LEMMA PlainLaid ==
  ASSUME NEW l, PlainEdges(l)
  PROVE  Laid(Graph(<<>>, l), {}, {})
  <1>1. IsGraph(Graph(<<>>, l)) /\ Graph(<<>>, l).nodes = <<>> /\ Graph(<<>>, l).edges = l
    BY EmptyList, GraphFields DEF PlainEdges
  <1>2. NodesLaid(<<>>, {}, {})
    BY EmptyList DEF NodesLaid
  <1>3. EdgesLaid(l, {})
    <2>1. \A p, q \in DOMAIN l : EdgesApart(l[p], l[q])
      BY DEF PlainEdges, EdgesApart, Elements, ToSet
    <2> QED BY <2>1 DEF PlainEdges, EdgesLaid, EdgeLaid
  <1> QED BY <1>1, <1>2, <1>3 DEF Laid

LEMMA ChildLaid ==
  ASSUME NEW owner, NEW predicate, NEW node, NEW more, PlainEdges(more), NEW T, NEW S,
         NodeLaid(node, T, S), predicate \in ChildPredicates => node.key \in T
  PROVE  Laid(Child(owner, predicate, node, more), T, S)
  <1> DEFINE first == Edge(predicate, owner, node.key)
             all == <<first>> \o more
             g == Child(owner, predicate, node, more)
  <1>1. Holds(g, {node}, {first} \union Elements(more))
    BY ChildHolds DEF PlainEdges
  <1>2. g = Graph(<<node>>, all)
    BY DEF Child
  <1>3. /\ DOMAIN all = 1..(1 + Len(more)) /\ Len(more) \in Nat /\ DOMAIN more = 1..Len(more)
        /\ all[1] = first /\ \A i \in 1..Len(more) : all[1 + i] = more[i]
    <2>1. <<first>> \in Seq({first} \union Elements(more)) /\ more \in Seq({first} \union Elements(more))
      <3>1. IsList(<<first>>) /\ Elements(<<first>>) = {first}
        <4> HIDE DEF first
        <4> QED BY ListOfOne
      <3> HIDE DEF first
      <3> QED BY <3>1, ListIsSeq DEF PlainEdges
    <2>2. Len(<<first>>) = 1 /\ <<first>>[1] = first
      OBVIOUS
    <2> DEFINE one == <<first>>
    <2> HIDE DEF one, first
    <2>3. /\ Len(one \o more) = Len(one) + Len(more)
          /\ \A i \in 1..Len(one) : (one \o more)[i] = one[i]
          /\ \A i \in 1..Len(more) : (one \o more)[Len(one) + i] = more[i]
          /\ one \o more \in Seq({first} \union Elements(more))
      BY <2>1, ConcatProperties DEF one
    <2>4. Len(more) \in Nat /\ DOMAIN more = 1..Len(more) /\ DOMAIN (one \o more) = 1..Len(one \o more)
      BY <2>1, <2>3, LenProperties
    <2> QED BY <2>2, <2>3, <2>4 DEF one
  <1>4. first.predicate = predicate /\ first.to = node.key
    BY EdgeFields
  <1> HIDE DEF first, g
  <1>5. g.nodes = <<node>> /\ g.edges = all /\ IsGraph(g)
        /\ Elements(g.nodes) = {node} /\ Elements(g.edges) = {first} \union Elements(more)
    BY <1>1, <1>2, GraphFields DEF Holds
  <1> HIDE DEF all
  <1>6. NodesLaid(g.nodes, T, S)
    <2>1. DOMAIN g.nodes = {1}
      BY <1>5, ListOfOne
    <2>2. \A p, q \in DOMAIN g.nodes : ~(p < q)
      BY <2>1
    <2> QED BY <1>5, <2>2 DEF NodesLaid, IsGraph
  <1>7. EdgesLaid(g.edges, T)
    <2>1. \A e \in Elements(more) : e.predicate \notin ChildPredicates
      BY DEF PlainEdges
    <2>2. \A e \in Elements(g.edges) : EdgeLaid(e, T)
      BY <1>4, <1>5, <2>1 DEF EdgeLaid
    <2>3. ASSUME NEW p \in DOMAIN g.edges, NEW q \in DOMAIN g.edges, p < q PROVE EdgesApart(g.edges[p], g.edges[q])
      <3>1. q - 1 \in 1..Len(more) /\ 1 + (q - 1) = q
        BY <1>3, <1>5, <2>3
      <3>2. g.edges[q] = more[q - 1]
        BY <1>3, <1>5, <3>1
      <3>3. g.edges[q].predicate \notin ChildPredicates
        BY <1>3, <2>1, <3>1, <3>2 DEF Elements, ToSet
      <3> QED BY <3>3 DEF EdgesApart
    <2> QED BY <1>5, <2>2, <2>3 DEF EdgesLaid, IsGraph
  <1> QED BY <1>5, <1>6, <1>7 DEF Laid, g

LEMMA TopLaid ==
  ASSUME NEW owner, NEW predicate, predicate \notin ChildPredicates,
         NEW node, node.type \in TopTypes, TopKey(node.key)
  PROVE  Laid(Child(owner, predicate, node, <<>>), {}, {<<node.type, node.order>>})
  <1>1. NodeLaid(node, {}, {<<node.type, node.order>>})
    BY DEF NodeLaid
  <1> QED BY <1>1, EmptyPlain, ChildLaid

Unique(nodes)    == \A i, j \in DOMAIN nodes : nodes[i].key = nodes[j].key => i = j
AllInner(nodes)  == \A i \in DOMAIN nodes : nodes[i].type \in InnerTypes

ChildEach(owner, predicate, nodes, more, parts) ==
  /\ IsList(nodes) /\ \A i \in DOMAIN nodes : PlainEdges(more[i])
  /\ parts = [i \in DOMAIN nodes |-> Child(owner, predicate, nodes[i], more[i])]

LEMMA InnerLaid ==
  ASSUME NEW owner, NEW predicate, NEW nodes, Unique(nodes), AllInner(nodes),
         NEW more, NEW parts, ChildEach(owner, predicate, nodes, more, parts)
  PROVE  Laid(Joined(parts), KeysOf(Elements(nodes)), {})
  <1> USE DEF ChildEach
  <1> DEFINE T == [i \in DOMAIN nodes |-> {nodes[i].key}]
             S == [i \in DOMAIN nodes |-> {}]
  <1>1. IsList(parts) /\ DOMAIN parts = DOMAIN nodes
    <2>1. parts = [i \in DOMAIN nodes |-> parts[i]]
      OBVIOUS
    <2> QED BY <2>1, NodesOf
  <1>2. ASSUME NEW i \in DOMAIN nodes PROVE Laid(parts[i], T[i], S[i])
    <2>1. NodeLaid(nodes[i], {nodes[i].key}, {})
      <3>1. nodes[i].type \in InnerTypes
        BY DEF AllInner
      <3> QED BY <3>1 DEF NodeLaid
    <2>2. Laid(Child(owner, predicate, nodes[i], more[i]), {nodes[i].key}, {})
      BY <2>1, ChildLaid
    <2> QED BY <2>2
  <1>3. \A i, j \in DOMAIN nodes : i # j => T[i] \cap T[j] = {}
    BY DEF Unique
  <1>4. \A i \in DOMAIN nodes : S[i] = {}
    OBVIOUS
  <1>5. Gathered(parts, T) = KeysOf(Elements(nodes))
    BY <1>1 DEF Gathered, KeysOf, Elements, ToSet
  <1>6. Gathered(parts, S) = {}
    BY <1>1 DEF Gathered
  <1> HIDE DEF T, S
  <1>7. LaidEach(parts, T, S)
    BY <1>1, <1>2, <1>3, <1>4, NothingBefore DEF LaidEach
  <1> QED BY <1>5, <1>6, <1>7, JoinedLaid

(* The keys of parts say whose they are and what they are.                  *)
OwnedBy(T, owner, kinds) == \A k \in T : k[1] = owner /\ k[2] \in kinds
OfKinds(T, kinds)        == \A k \in T : k[2] \in kinds

LEMMA KindsApart ==
  ASSUME NEW T, NEW kinds, OfKinds(T, kinds), NEW T1, NEW kinds1, OfKinds(T1, kinds1), kinds \cap kinds1 = {}
  PROVE  T \cap T1 = {}
  BY DEF OfKinds

LEMMA OwnersApart ==
  ASSUME NEW T, NEW owner, NEW kinds, OwnedBy(T, owner, kinds),
         NEW T1, NEW owner1, NEW kinds1, OwnedBy(T1, owner1, kinds1), owner # owner1
  PROVE  T \cap T1 = {}
  BY DEF OwnedBy

LEMMA OwnedKinds ==
  ASSUME NEW T, NEW owner, NEW kinds, OwnedBy(T, owner, kinds)
  PROVE  OfKinds(T, kinds)
  BY DEF OwnedBy, OfKinds

LEMMA OwnedJoined ==
  ASSUME NEW owner, NEW T, NEW kinds, OwnedBy(T, owner, kinds), NEW T1, NEW kinds1, OwnedBy(T1, owner, kinds1)
  PROVE  OwnedBy(T \union T1, owner, kinds \union kinds1)
  BY DEF OwnedBy

LEMMA PartFields ==
  ASSUME NEW owner, NEW kind, NEW name
  PROVE  /\ Part(owner, kind, name)[1] = owner /\ Part(owner, kind, name)[2] = kind
         /\ Part(owner, kind, name)[3] = name
  BY DEF Part

LEMMA KeyIsTop == \A name : TopKey(Key(name)) /\ Key(name)[1] = name
  BY DEF TopKey, Key

NamesApart(fields) == \A i, j \in DOMAIN fields : fields[i].name = fields[j].name => i = j

\* The nodes of one kind an owner has, one for each of a list, each named by its own.
PartNodes(owner, kind, nodes, names) ==
  /\ DOMAIN nodes = DOMAIN names /\ AllInner(nodes)
  /\ \A i \in DOMAIN nodes : nodes[i].key = Part(owner, kind, names[i])

LEMMA PartsUnique ==
  ASSUME NEW owner, NEW kind, NEW nodes, NEW names, PartNodes(owner, kind, nodes, names), IsInjective(names)
  PROVE  Unique(nodes) /\ OwnedBy(KeysOf(Elements(nodes)), owner, {kind})
  <1>1. Unique(nodes)
    <2> SUFFICES ASSUME NEW i \in DOMAIN nodes, NEW j \in DOMAIN nodes, nodes[i].key = nodes[j].key PROVE i = j
      BY DEF Unique
    <2>1. names[i] = names[j]
      BY PartFields DEF PartNodes
    <2> QED BY <2>1 DEF PartNodes, IsInjective
  <1>2. OwnedBy(KeysOf(Elements(nodes)), owner, {kind})
    <2> SUFFICES ASSUME NEW i \in DOMAIN nodes
                 PROVE  nodes[i].key[1] = owner /\ nodes[i].key[2] = kind
      BY DEF OwnedBy, KeysOf, Elements, ToSet
    <2> QED BY PartFields DEF PartNodes
  <1> QED BY <1>1, <1>2

LEMMA FieldParts ==
  ASSUME NEW owner, NEW kind, NEW fields, IsList(fields), NamesApart(fields)
  PROVE  LET nodes == FieldNodes(owner, kind, fields)
         IN  /\ IsList(nodes) /\ DOMAIN nodes = DOMAIN fields /\ AllInner(nodes) /\ Unique(nodes)
             /\ OwnedBy(KeysOf(Elements(nodes)), owner, {kind})
  <1> DEFINE nodes == FieldNodes(owner, kind, fields)
             names == [i \in DOMAIN fields |-> fields[i].name]
  <1>1. IsList(nodes) /\ DOMAIN nodes = DOMAIN fields
    <2>1. nodes = [i \in DOMAIN fields |-> nodes[i]]
      BY DEF FieldNodes
    <2> QED BY <2>1, NodesOf
  <1>2. \A i \in DOMAIN fields : nodes[i] = Node("field", Part(owner, kind, names[i]), i, fields[i])
    BY DEF FieldNodes
  <1>3. DOMAIN names = DOMAIN fields /\ \A i \in DOMAIN fields : names[i] = fields[i].name
    OBVIOUS
  <1> HIDE DEF nodes, names
  <1>4. \A i \in DOMAIN fields : nodes[i].type = "field" /\ nodes[i].key = Part(owner, kind, names[i])
    BY <1>2, NodeFields
  <1>5. PartNodes(owner, kind, nodes, names)
    BY <1>1, <1>3, <1>4 DEF PartNodes, AllInner, InnerTypes
  <1>6. IsInjective(names)
    BY <1>3 DEF IsInjective, NamesApart
  <1> QED BY <1>1, <1>5, <1>6, PartsUnique DEF PartNodes, nodes

FieldKeys(owner, kind, fields) == KeysOf(Elements(FieldNodes(owner, kind, fields)))

LEMMA FieldsLaid ==
  ASSUME NEW owner, NEW kind, NEW fields, IsList(fields), NamesApart(fields)
  PROVE  /\ Laid(PushFields(owner, kind, fields), FieldKeys(owner, kind, fields), {})
         /\ OwnedBy(FieldKeys(owner, kind, fields), owner, {kind})
  <1> DEFINE nodes == FieldNodes(owner, kind, fields)
             more == [i \in DOMAIN fields |-> TypedBy(Part(owner, kind, fields[i].name), fields[i].ty)]
             parts == [i \in DOMAIN fields |->
                         Child(Key(owner), "HAS_FIELD", Node("field", Part(owner, kind, fields[i].name), i, fields[i]),
                               TypedBy(Part(owner, kind, fields[i].name), fields[i].ty))]
  <1>1. /\ IsList(nodes) /\ DOMAIN nodes = DOMAIN fields /\ AllInner(nodes) /\ Unique(nodes)
        /\ OwnedBy(KeysOf(Elements(nodes)), owner, {kind})
    BY FieldParts
  <1>2. PushFields(owner, kind, fields) = Joined(parts)
    BY DEF PushFields, Each
  <1>3. parts = [i \in DOMAIN nodes |-> Child(Key(owner), "HAS_FIELD", nodes[i], more[i])]
    <2>1. \A i \in DOMAIN fields : nodes[i] = Node("field", Part(owner, kind, fields[i].name), i, fields[i])
      BY DEF FieldNodes
    <2>2. DOMAIN nodes = DOMAIN fields
      BY <1>1
    <2> HIDE DEF nodes
    <2> QED BY <2>1, <2>2
  <1>4. ASSUME NEW i \in DOMAIN nodes PROVE PlainEdges(more[i])
    <2> DEFINE from == Part(owner, kind, fields[i].name)
               ty == fields[i].ty
    <2>1. more[i] = TypedBy(from, ty)
      BY <1>1
    <2> HIDE DEF from, ty, nodes, more
    <2>2. /\ IsList(TypedBy(from, ty))
          /\ Elements(TypedBy(from, ty)) = IF ty.name = Absent THEN {} ELSE {Edge("OF_TYPE", from, Key(ty.name))}
      BY TypedByList
    <2>3. Edge("OF_TYPE", from, Key(ty.name)).predicate = "OF_TYPE"
      BY EdgeFields
    <2> QED BY <2>1, <2>2, <2>3 DEF PlainEdges, ChildPredicates
  <1> HIDE DEF nodes, more, parts
  <1>5. Laid(Joined(parts), KeysOf(Elements(nodes)), {})
    BY <1>1, <1>3, <1>4, InnerLaid DEF ChildEach
  <1> QED BY <1>1, <1>2, <1>5 DEF FieldKeys, nodes

LEMMA PartsLaid ==
  ASSUME NEW owner, NEW kind, NEW nodes, NEW names, PartNodes(owner, kind, nodes, names), IsInjective(names),
         NEW predicate, NEW more, NEW parts, ChildEach(Key(owner), predicate, nodes, more, parts)
  PROVE  Laid(Joined(parts), KeysOf(Elements(nodes)), {}) /\ OwnedBy(KeysOf(Elements(nodes)), owner, {kind})
  <1>1. Unique(nodes) /\ AllInner(nodes) /\ OwnedBy(KeysOf(Elements(nodes)), owner, {kind})
    BY PartsUnique DEF PartNodes
  <1>2. Laid(Joined(parts), KeysOf(Elements(nodes)), {})
    BY <1>1, InnerLaid
  <1> QED BY <1>1, <1>2

LEMMA LeafPartsLaid ==
  ASSUME NEW owner, NEW kind, NEW nodes, NEW names, PartNodes(owner, kind, nodes, names), IsInjective(names),
         NEW predicate, NEW parts, LeafEach(Key(owner), predicate, nodes, parts)
  PROVE  Laid(Joined(parts), KeysOf(Elements(nodes)), {}) /\ OwnedBy(KeysOf(Elements(nodes)), owner, {kind})
  <1> DEFINE more == [i \in DOMAIN nodes |-> <<>>]
  <1>1. \A i \in DOMAIN nodes : more[i] = <<>>
    OBVIOUS
  <1>2. IsList(nodes) /\ parts = [i \in DOMAIN nodes |-> Child(Key(owner), predicate, nodes[i], more[i])]
    BY <1>1 DEF LeafEach
  <1> HIDE DEF more
  <1>3. ChildEach(Key(owner), predicate, nodes, more, parts)
    BY <1>1, <1>2, EmptyPlain DEF ChildEach
  <1> QED BY <1>3, PartsLaid

LEMMA SelfLaid ==
  ASSUME NEW owner, NEW predicate, predicate \notin ChildPredicates, NEW type, type \in TopTypes, NEW name, NEW i, NEW props
  PROVE  Laid(Child(owner, predicate, Node(type, Key(name), i, props), <<>>), {}, {<<type, i>>})
  <1> DEFINE node == Node(type, Key(name), i, props)
  <1>1. node.type = type /\ node.order = i /\ node.key = Key(name)
    BY NodeFields
  <1> HIDE DEF node
  <1>2. Laid(Child(owner, predicate, node, <<>>), {}, {<<node.type, node.order>>})
    BY <1>1, KeyIsTop, TopLaid
  <1> QED BY <1>1, <1>2 DEF node

TypeKeys(t) == {} \union FieldKeys(t.name, "field", t.fields) \union KeysOf(Elements(VariantNodes(t)))

\* A list of nodes made from a list: of one type, each named by its own.
MadeOf(nodes, type, owner, kind, seq, names) ==
  /\ IsList(seq) /\ nodes = [j \in DOMAIN seq |-> nodes[j]] /\ DOMAIN names = DOMAIN seq
  /\ \A j \in DOMAIN seq : nodes[j].type = type /\ nodes[j].key = Part(owner, kind, names[j])

LEMMA MadeParts ==
  ASSUME NEW nodes, NEW type \in InnerTypes, NEW owner, NEW kind, NEW seq, NEW names,
         MadeOf(nodes, type, owner, kind, seq, names)
  PROVE  IsList(nodes) /\ DOMAIN nodes = DOMAIN seq /\ PartNodes(owner, kind, nodes, names)
  <1>1. IsList(nodes) /\ DOMAIN nodes = DOMAIN seq
    <2>1. IsList(seq) /\ nodes = [j \in DOMAIN seq |-> nodes[j]]
      BY DEF MadeOf
    <2> QED BY <2>1, NodesOf
  <1> QED BY <1>1 DEF MadeOf, PartNodes, AllInner

LEMMA VariantParts ==
  ASSUME NEW t, IsDomainType(t)
  PROVE  MadeOf(VariantNodes(t), "variant", t.name, "variant", t.variants, t.variants)
  <1>1. IsList(t.variants)
    BY DEF IsDomainType
  <1>2. ASSUME NEW j \in DOMAIN t.variants
        PROVE  /\ VariantNodes(t)[j].type = "variant"
               /\ VariantNodes(t)[j].key = Part(t.name, "variant", t.variants[j])
    BY NodeFields DEF VariantNodes
  <1>3. VariantNodes(t) = [j \in DOMAIN t.variants |-> VariantNodes(t)[j]]
    BY DEF VariantNodes
  <1> QED BY <1>1, <1>2, <1>3 DEF MadeOf

LEMMA TypeLaid ==
  ASSUME NEW s, NEW t, IsDomainType(t), NamesApart(t.fields), IsInjective(t.variants), NEW i
  PROVE  /\ Laid(PushType(s, t, i), TypeKeys(t), {<<"type", i>>})
         /\ OwnedBy(TypeKeys(t), t.name, {"field", "variant"})
  <1> DEFINE nodes == VariantNodes(t)
             parts == [j \in DOMAIN nodes |-> Child(Key(t.name), "HAS_VARIANT", nodes[j], <<>>)]
             a == Child(Root(s), "HAS_TYPE", TypeSelf(t, i), <<>>)
             b == PushFields(t.name, "field", t.fields)
  <1>1. /\ IsList(nodes) /\ DOMAIN nodes = DOMAIN t.variants
        /\ PartNodes(t.name, "variant", nodes, t.variants)
    BY VariantParts, MadeParts DEF InnerTypes
  <1>2. PushType(s, t, i) = Joined(<<a, b, Joined(parts)>>)
    <2>1. parts = [j \in DOMAIN t.variants |-> Child(Key(t.name), "HAS_VARIANT",
                       Node("variant", Part(t.name, "variant", t.variants[j]), j, [variant |-> t.variants[j]]), <<>>)]
      BY <1>1 DEF VariantNodes
    <2> HIDE DEF parts
    <2> QED BY <2>1 DEF PushType, Each, TypeSelf
  <1>3. Laid(a, {}, {<<"type", i>>})
    BY SelfLaid DEF TypeSelf, ChildPredicates, TopTypes
  <1>4. Laid(b, FieldKeys(t.name, "field", t.fields), {}) /\ OwnedBy(FieldKeys(t.name, "field", t.fields), t.name, {"field"})
    BY FieldsLaid DEF IsDomainType, AreFields
  <1> HIDE DEF a, b, nodes
  <1>5. Laid(Joined(parts), KeysOf(Elements(nodes)), {}) /\ OwnedBy(KeysOf(Elements(nodes)), t.name, {"variant"})
    BY <1>1, LeafPartsLaid DEF LeafEach
  <1> HIDE DEF parts
  <1>6. FieldKeys(t.name, "field", t.fields) \cap KeysOf(Elements(nodes)) = {}
    BY <1>4, <1>5, OwnedKinds, KindsApart
  <1>7. Laid(Joined(<<a, b, Joined(parts)>>), {} \union FieldKeys(t.name, "field", t.fields) \union KeysOf(Elements(nodes)),
             {<<"type", i>>} \union {} \union {})
    BY <1>3, <1>4, <1>5, <1>6, NothingBefore, LaidThree
  <1>8. {<<"type", i>>} \union {} \union {} = {<<"type", i>>}
    OBVIOUS
  <1>9. OwnedBy(TypeKeys(t), t.name, {"field", "variant"})
    <2>1. OwnedBy(FieldKeys(t.name, "field", t.fields) \union KeysOf(Elements(nodes)), t.name, {"field"} \union {"variant"})
      BY <1>4, <1>5, OwnedJoined
    <2>2. TypeKeys(t) = FieldKeys(t.name, "field", t.fields) \union KeysOf(Elements(nodes))
      BY DEF TypeKeys, nodes
    <2>3. {"field"} \union {"variant"} = {"field", "variant"}
      OBVIOUS
    <2> QED BY <2>1, <2>2, <2>3
  <1> QED BY <1>2, <1>7, <1>8, <1>9 DEF TypeKeys, nodes

ActorKeys(a) == {} \union KeysOf(Elements(HandlerNodes(a))) \union FieldKeys(a.name, "state", a.state)

LEMMA HandlerParts ==
  ASSUME NEW a, IsActor(a)
  PROVE  MadeOf(HandlerNodes(a), "handler", a.name, "handler", a.handlers, a.handlers)
  <1>1. IsList(a.handlers)
    BY DEF IsActor
  <1>2. ASSUME NEW j \in DOMAIN a.handlers
        PROVE  /\ HandlerNodes(a)[j].type = "handler"
               /\ HandlerNodes(a)[j].key = Part(a.name, "handler", a.handlers[j])
    BY NodeFields DEF HandlerNodes
  <1>3. HandlerNodes(a) = [j \in DOMAIN a.handlers |-> HandlerNodes(a)[j]]
    BY DEF HandlerNodes
  <1> QED BY <1>1, <1>2, <1>3 DEF MadeOf

LEMMA ActorLaid ==
  ASSUME NEW s, NEW t, IsActor(t), NamesApart(t.state), IsInjective(t.handlers), NEW i
  PROVE  /\ Laid(PushActor(s, t, i), ActorKeys(t), {<<"actor", i>>})
         /\ OwnedBy(ActorKeys(t), t.name, {"handler", "state"})
  <1> DEFINE nodes == HandlerNodes(t)
             parts == [j \in DOMAIN nodes |-> Child(Key(t.name), "HAS_HANDLER", nodes[j], <<>>)]
             a == Child(Root(s), "HAS_ACTOR", ActorSelf(t, i), <<>>)
             b == PushFields(t.name, "state", t.state)
  <1>1. /\ IsList(nodes) /\ DOMAIN nodes = DOMAIN t.handlers
        /\ PartNodes(t.name, "handler", nodes, t.handlers)
    BY HandlerParts, MadeParts DEF InnerTypes
  <1>2. PushActor(s, t, i) = Joined(<<a, Joined(parts), b>>)
    <2>1. parts = [j \in DOMAIN t.handlers |-> Child(Key(t.name), "HAS_HANDLER",
                       Node("handler", Part(t.name, "handler", t.handlers[j]), j, [method |-> t.handlers[j]]), <<>>)]
      BY <1>1 DEF HandlerNodes
    <2> HIDE DEF parts
    <2> QED BY <2>1 DEF PushActor, Each, ActorSelf
  <1>3. Laid(a, {}, {<<"actor", i>>})
    BY SelfLaid DEF ActorSelf, ChildPredicates, TopTypes
  <1>4. Laid(b, FieldKeys(t.name, "state", t.state), {}) /\ OwnedBy(FieldKeys(t.name, "state", t.state), t.name, {"state"})
    BY FieldsLaid DEF IsActor, AreFields
  <1> HIDE DEF a, b, nodes
  <1>5. Laid(Joined(parts), KeysOf(Elements(nodes)), {}) /\ OwnedBy(KeysOf(Elements(nodes)), t.name, {"handler"})
    BY <1>1, LeafPartsLaid DEF LeafEach
  <1> HIDE DEF parts
  <1>6. KeysOf(Elements(nodes)) \cap FieldKeys(t.name, "state", t.state) = {}
    BY <1>4, <1>5, OwnedKinds, KindsApart
  <1>7. Laid(Joined(<<a, Joined(parts), b>>), {} \union KeysOf(Elements(nodes)) \union FieldKeys(t.name, "state", t.state),
             {<<"actor", i>>} \union {} \union {})
    BY <1>3, <1>4, <1>5, <1>6, NothingBefore, LaidThree
  <1>8. {<<"actor", i>>} \union {} \union {} = {<<"actor", i>>}
    OBVIOUS
  <1>9. OwnedBy(ActorKeys(t), t.name, {"handler", "state"})
    <2>1. OwnedBy(KeysOf(Elements(nodes)) \union FieldKeys(t.name, "state", t.state), t.name, {"handler"} \union {"state"})
      BY <1>4, <1>5, OwnedJoined
    <2>2. ActorKeys(t) = KeysOf(Elements(nodes)) \union FieldKeys(t.name, "state", t.state)
      BY DEF ActorKeys, nodes
    <2>3. {"handler"} \union {"state"} = {"handler", "state"}
      OBVIOUS
    <2> QED BY <2>1, <2>2, <2>3
  <1> QED BY <1>2, <1>7, <1>8, <1>9 DEF ActorKeys, nodes

LEMMA GraphNodeLaid ==
  ASSUME NEW s, NEW n, IsNodeType(n), NamesApart(n.fields), NEW i
  PROVE  /\ Laid(PushGraphNode(s, n, i), FieldKeys(n.name, "gfield", n.fields), {<<"graph_node", i>>})
         /\ OwnedBy(FieldKeys(n.name, "gfield", n.fields), n.name, {"gfield"})
  <1> DEFINE a == Child(Root(s), "HAS_GRAPH_NODE", GraphNodeSelf(n, i), <<>>)
             b == PushFields(n.name, "gfield", n.fields)
             T == FieldKeys(n.name, "gfield", n.fields)
  <1>1. Laid(a, {}, {<<"graph_node", i>>})
    BY SelfLaid DEF GraphNodeSelf, ChildPredicates, TopTypes
  <1>2. Laid(b, T, {}) /\ OwnedBy(T, n.name, {"gfield"})
    BY FieldsLaid DEF IsNodeType, AreFields
  <1>3. PushGraphNode(s, n, i) = Joined(<<a, b>>)
    BY DEF PushGraphNode, GraphNodeSelf
  <1> HIDE DEF a, b, T
  <1>4. Laid(Joined(<<a, b>>), {} \union T, {<<"graph_node", i>>} \union {})
    BY <1>1, <1>2, NothingBefore, LaidTwo
  <1>5. {} \union T = T /\ {<<"graph_node", i>>} \union {} = {<<"graph_node", i>>}
    OBVIOUS
  <1> QED BY <1>2, <1>3, <1>4, <1>5 DEF T

LEMMA MethodLaid ==
  ASSUME NEW s, IsList(s.actors), NEW t, IsMethod(t), NamesApart(t.params), NEW i
  PROVE  /\ Laid(PushMethod(s, t, i), FieldKeys(t.method, "param", t.params), {<<"method", i>>})
         /\ OwnedBy(FieldKeys(t.method, "param", t.params), t.method, {"param"})
  <1> DEFINE owners == Keep(s.actors, {j \in DOMAIN s.actors : t.method \in Elements(s.actors[j].handlers)})
             handled == [j \in DOMAIN owners |-> Edge("HANDLED_BY", Key(t.method), Key(owners[j].name))]
             typed == TypedBy(Key(t.method), t.result)
             a == Child(Root(s), "HAS_METHOD", MethodSelf(t, i), <<>>)
             b == PushFields(t.method, "param", t.params)
             c == Graph(<<>>, typed)
             d == Graph(<<>>, handled)
             T == FieldKeys(t.method, "param", t.params)
  <1>1. PushMethod(s, t, i) = Joined(<<a, b, c, d>>)
    BY DEF PushMethod, MethodSelf
  <1>2. Laid(a, {}, {<<"method", i>>})
    BY SelfLaid DEF MethodSelf, ChildPredicates, TopTypes
  <1>3. Laid(b, T, {}) /\ OwnedBy(T, t.method, {"param"})
    BY FieldsLaid DEF IsMethod, AreFields
  <1>4. PlainEdges(typed)
    <2> DEFINE from == Key(t.method)
               ty == t.result
    <2> HIDE DEF from, ty
    <2>1. /\ IsList(TypedBy(from, ty))
          /\ Elements(TypedBy(from, ty)) = IF ty.name = Absent THEN {} ELSE {Edge("OF_TYPE", from, Key(ty.name))}
      BY TypedByList
    <2>2. Edge("OF_TYPE", from, Key(ty.name)).predicate = "OF_TYPE"
      BY EdgeFields
    <2> QED BY <2>1, <2>2 DEF PlainEdges, ChildPredicates, from, ty
  <1>5. PlainEdges(handled)
    <2> DEFINE handling == {j \in DOMAIN s.actors : t.method \in Elements(s.actors[j].handlers)}
    <2>1. IsList(owners)
      <3>1. handling \subseteq DOMAIN s.actors
        OBVIOUS
      <3>2. owners = Keep(s.actors, handling)
        OBVIOUS
      <3> HIDE DEF handling, owners
      <3> QED BY <3>1, <3>2, KeptElements
    <2> HIDE DEF owners
    <2>2. IsList(handled)
      <3>1. handled = [j \in DOMAIN owners |-> handled[j]]
        OBVIOUS
      <3> HIDE DEF handled
      <3> QED BY <2>1, <3>1, NodesOf
    <2>3. \A j \in DOMAIN owners : Edge("HANDLED_BY", Key(t.method), Key(owners[j].name)).predicate = "HANDLED_BY"
      BY EdgeFields
    <2>4. \A e \in Elements(handled) : e.predicate = "HANDLED_BY"
      BY <2>3 DEF Elements, ToSet
    <2> HIDE DEF handled
    <2> QED BY <2>2, <2>4 DEF PlainEdges, ChildPredicates
  <1> HIDE DEF owners, handled, typed, a, b, T
  <1>6. Laid(c, {}, {}) /\ Laid(d, {}, {})
    BY <1>4, <1>5, PlainLaid
  <1> HIDE DEF c, d
  <1>7. Laid(Joined(<<a, b, c, d>>), {} \union T \union {} \union {}, {<<"method", i>>} \union {} \union {} \union {})
    BY <1>2, <1>3, <1>6, NothingBefore, LaidFour
  <1>8. {} \union T \union {} \union {} = T /\ {<<"method", i>>} \union {} \union {} \union {} = {<<"method", i>>}
    OBVIOUS
  <1> QED BY <1>1, <1>3, <1>7, <1>8 DEF T

(* A list of parts, and the spec they make.                                 *)
Rows(type, seq) == {<<type, i>> : i \in DOMAIN seq}
OfTypes(S, types) == \A r \in S : r[1] \in types

LEMMA TypesBefore ==
  ASSUME NEW S, NEW types, OfTypes(S, types), NEW S1, NEW types1, OfTypes(S1, types1), types \cap types1 = {}
  PROVE  Before(S, S1)
  BY DEF Before, OfTypes

LEMMA RowsTyped == \A type, seq : OfTypes(Rows(type, seq), {type})
  BY DEF Rows, OfTypes

PartEach(seq, parts, T, type, kinds) ==
  /\ IsList(seq) /\ parts = [i \in DOMAIN seq |-> parts[i]]
  /\ \A i \in DOMAIN seq : Laid(parts[i], T[i], {<<type, i>>}) /\ OfKinds(T[i], kinds)
  /\ \A i, j \in DOMAIN seq : i # j => T[i] \cap T[j] = {}

LEMMA PartEachLaid ==
  ASSUME NEW seq, NEW parts, NEW T, NEW type, NEW kinds, PartEach(seq, parts, T, type, kinds)
  PROVE  Laid(Joined(parts), Gathered(seq, T), Rows(type, seq)) /\ OfKinds(Gathered(seq, T), kinds)
  <1> DEFINE S == [i \in DOMAIN seq |-> {<<type, i>>}]
  <1>1. IsList(parts) /\ DOMAIN parts = DOMAIN seq
    BY NodesOf DEF PartEach
  <1>2. Gathered(parts, T) = Gathered(seq, T) /\ Gathered(parts, S) = Rows(type, seq)
    BY <1>1 DEF Gathered, Rows
  <1>3. \A i \in DOMAIN seq : S[i] = {<<type, i>>}
    OBVIOUS
  <1>4. \A i, j \in DOMAIN seq : i < j => Before(S[i], S[j])
    <2> SUFFICES ASSUME NEW i \in DOMAIN seq, NEW j \in DOMAIN seq, i < j PROVE Before({<<type, i>>}, {<<type, j>>})
      BY <1>3
    <2> QED BY DEF Before
  <1> HIDE DEF S
  <1>5. LaidEach(parts, T, S)
    BY <1>1, <1>3, <1>4 DEF LaidEach, PartEach
  <1>6. OfKinds(Gathered(seq, T), kinds)
    BY DEF PartEach, OfKinds, Gathered
  <1> QED BY <1>2, <1>5, <1>6, JoinedLaid

\* Names are used once, as the rules and the names kept apart have it.
TypesApart(s)  == /\ \A i, j \in DOMAIN s.types : s.types[i].name = s.types[j].name => i = j
                  /\ \A t \in Elements(s.types) : NamesApart(t.fields) /\ IsInjective(t.variants)
NodesOnce(s)   == /\ \A i, j \in DOMAIN s.nodes : s.nodes[i].name = s.nodes[j].name => i = j
                  /\ \A n \in Elements(s.nodes) : NamesApart(n.fields)
ActorsOnce(s)  == /\ \A i, j \in DOMAIN s.actors : s.actors[i].name = s.actors[j].name => i = j
                  /\ \A a \in Elements(s.actors) : NamesApart(a.state) /\ IsInjective(a.handlers)
MethodsOnce(s) == /\ \A i, j \in DOMAIN s.bridge : s.bridge[i].method = s.bridge[j].method => i = j
                  /\ \A m \in Elements(s.bridge) : NamesApart(m.params)
ScreenOnce(v)  == /\ \A i, j \in DOMAIN v.actions : v.actions[i].id = v.actions[j].id => i = j
                  /\ \A i, j \in DOMAIN v.bindings : v.bindings[i].field = v.bindings[j].field => i = j
                  /\ \A i, j \in DOMAIN v.navigation : v.navigation[i].action = v.navigation[j].action => i = j
ScreensOnce(s) == /\ \A i, j \in DOMAIN s.ui : s.ui[i].id = s.ui[j].id => i = j
                  /\ \A v \in Elements(s.ui) : ScreenOnce(v)
OwnersOnce(s)  ==
  /\ TypeNames(s) \cap NodeNames(s) = {}
  /\ (TypeNames(s) \union NodeNames(s)) \cap {a.name : a \in Elements(s.actors)} = {}
  /\ (TypeNames(s) \union NodeNames(s) \union {a.name : a \in Elements(s.actors)}) \cap Methods(s) = {}
Once(s) == TypesApart(s) /\ NodesOnce(s) /\ ActorsOnce(s) /\ MethodsOnce(s) /\ ScreensOnce(s) /\ OwnersOnce(s)

TypesKeys(s)      == UNION {TypeKeys(s.types[i]) : i \in DOMAIN s.types}
GraphTypeKeys(s)  == UNION {FieldKeys(s.nodes[i].name, "gfield", s.nodes[i].fields) : i \in DOMAIN s.nodes}
ActorsKeys(s)     == UNION {ActorKeys(s.actors[i]) : i \in DOMAIN s.actors}
MethodsKeys(s)    == UNION {FieldKeys(s.bridge[i].method, "param", s.bridge[i].params) : i \in DOMAIN s.bridge}

LEMMA TypesLaid ==
  ASSUME NEW s, IsAppSpec(s), TypesApart(s)
  PROVE  /\ Laid(Joined([i \in DOMAIN s.types |-> PushType(s, s.types[i], i)]), TypesKeys(s), Rows("type", s.types))
         /\ OfKinds(TypesKeys(s), {"field", "variant"})
  <1> DEFINE parts == [i \in DOMAIN s.types |-> PushType(s, s.types[i], i)]
             T == [i \in DOMAIN s.types |-> TypeKeys(s.types[i])]
  <1>1. ASSUME NEW i \in DOMAIN s.types
        PROVE  /\ Laid(parts[i], T[i], {<<"type", i>>}) /\ OwnedBy(T[i], s.types[i].name, {"field", "variant"})
               /\ OfKinds(T[i], {"field", "variant"})
    <2>1. s.types[i] \in Elements(s.types)
      BY DEF Elements, ToSet
    <2>2. IsDomainType(s.types[i]) /\ NamesApart(s.types[i].fields) /\ IsInjective(s.types[i].variants)
      BY <2>1 DEF IsAppSpec, TypesApart
    <2> QED BY <2>2, TypeLaid, OwnedKinds
  <1>2. parts = [i \in DOMAIN s.types |-> parts[i]] /\ IsList(s.types)
    BY DEF IsAppSpec
  <1>3. Gathered(s.types, T) = TypesKeys(s)
    BY DEF Gathered, TypesKeys
  <1> HIDE DEF T
  <1>4. ASSUME NEW i \in DOMAIN s.types, NEW j \in DOMAIN s.types, i # j PROVE T[i] \cap T[j] = {}
    <2>1. s.types[i].name # s.types[j].name
      BY <1>4 DEF TypesApart
    <2>2. OwnedBy(T[i], s.types[i].name, {"field", "variant"}) /\ OwnedBy(T[j], s.types[j].name, {"field", "variant"})
      BY <1>1
    <2> QED BY <2>1, <2>2, OwnersApart
  <1>5. PartEach(s.types, parts, T, "type", {"field", "variant"})
    BY <1>1, <1>2, <1>4 DEF PartEach
  <1> QED BY <1>3, <1>5, PartEachLaid

LEMMA GraphTypesLaid ==
  ASSUME NEW s, IsAppSpec(s), NodesOnce(s)
  PROVE  /\ Laid(Joined([i \in DOMAIN s.nodes |-> PushGraphNode(s, s.nodes[i], i)]), GraphTypeKeys(s), Rows("graph_node", s.nodes))
         /\ OfKinds(GraphTypeKeys(s), {"gfield"})
  <1> DEFINE parts == [i \in DOMAIN s.nodes |-> PushGraphNode(s, s.nodes[i], i)]
             T == [i \in DOMAIN s.nodes |-> FieldKeys(s.nodes[i].name, "gfield", s.nodes[i].fields)]
  <1>1. ASSUME NEW i \in DOMAIN s.nodes
        PROVE  /\ Laid(parts[i], T[i], {<<"graph_node", i>>}) /\ OwnedBy(T[i], s.nodes[i].name, {"gfield"})
               /\ OfKinds(T[i], {"gfield"})
    <2>1. s.nodes[i] \in Elements(s.nodes)
      BY DEF Elements, ToSet
    <2>2. IsNodeType(s.nodes[i]) /\ NamesApart(s.nodes[i].fields)
      BY <2>1 DEF IsAppSpec, NodesOnce
    <2> QED BY <2>2, GraphNodeLaid, OwnedKinds
  <1>2. parts = [i \in DOMAIN s.nodes |-> parts[i]] /\ IsList(s.nodes)
    BY DEF IsAppSpec
  <1>3. Gathered(s.nodes, T) = GraphTypeKeys(s)
    BY DEF Gathered, GraphTypeKeys
  <1> HIDE DEF T
  <1>4. ASSUME NEW i \in DOMAIN s.nodes, NEW j \in DOMAIN s.nodes, i # j PROVE T[i] \cap T[j] = {}
    <2>1. s.nodes[i].name # s.nodes[j].name
      BY <1>4 DEF NodesOnce
    <2>2. OwnedBy(T[i], s.nodes[i].name, {"gfield"}) /\ OwnedBy(T[j], s.nodes[j].name, {"gfield"})
      BY <1>1
    <2> QED BY <2>1, <2>2, OwnersApart
  <1>5. PartEach(s.nodes, parts, T, "graph_node", {"gfield"})
    BY <1>1, <1>2, <1>4 DEF PartEach
  <1> QED BY <1>3, <1>5, PartEachLaid

LEMMA ActorsLaid ==
  ASSUME NEW s, IsAppSpec(s), ActorsOnce(s)
  PROVE  /\ Laid(Joined([i \in DOMAIN s.actors |-> PushActor(s, s.actors[i], i)]), ActorsKeys(s), Rows("actor", s.actors))
         /\ OfKinds(ActorsKeys(s), {"handler", "state"})
  <1> DEFINE parts == [i \in DOMAIN s.actors |-> PushActor(s, s.actors[i], i)]
             T == [i \in DOMAIN s.actors |-> ActorKeys(s.actors[i])]
  <1>1. ASSUME NEW i \in DOMAIN s.actors
        PROVE  /\ Laid(parts[i], T[i], {<<"actor", i>>}) /\ OwnedBy(T[i], s.actors[i].name, {"handler", "state"})
               /\ OfKinds(T[i], {"handler", "state"})
    <2>1. s.actors[i] \in Elements(s.actors)
      BY DEF Elements, ToSet
    <2>2. IsActor(s.actors[i]) /\ NamesApart(s.actors[i].state) /\ IsInjective(s.actors[i].handlers)
      BY <2>1 DEF IsAppSpec, ActorsOnce
    <2> QED BY <2>2, ActorLaid, OwnedKinds
  <1>2. parts = [i \in DOMAIN s.actors |-> parts[i]] /\ IsList(s.actors)
    BY DEF IsAppSpec
  <1>3. Gathered(s.actors, T) = ActorsKeys(s)
    BY DEF Gathered, ActorsKeys
  <1> HIDE DEF T
  <1>4. ASSUME NEW i \in DOMAIN s.actors, NEW j \in DOMAIN s.actors, i # j PROVE T[i] \cap T[j] = {}
    <2>1. s.actors[i].name # s.actors[j].name
      BY <1>4 DEF ActorsOnce
    <2>2. OwnedBy(T[i], s.actors[i].name, {"handler", "state"}) /\ OwnedBy(T[j], s.actors[j].name, {"handler", "state"})
      BY <1>1
    <2> QED BY <2>1, <2>2, OwnersApart
  <1>5. PartEach(s.actors, parts, T, "actor", {"handler", "state"})
    BY <1>1, <1>2, <1>4 DEF PartEach
  <1> QED BY <1>3, <1>5, PartEachLaid

LEMMA MethodsLaid ==
  ASSUME NEW s, IsAppSpec(s), MethodsOnce(s)
  PROVE  /\ Laid(Joined([i \in DOMAIN s.bridge |-> PushMethod(s, s.bridge[i], i)]), MethodsKeys(s), Rows("method", s.bridge))
         /\ OfKinds(MethodsKeys(s), {"param"})
  <1> DEFINE parts == [i \in DOMAIN s.bridge |-> PushMethod(s, s.bridge[i], i)]
             T == [i \in DOMAIN s.bridge |-> FieldKeys(s.bridge[i].method, "param", s.bridge[i].params)]
  <1>1. ASSUME NEW i \in DOMAIN s.bridge
        PROVE  /\ Laid(parts[i], T[i], {<<"method", i>>}) /\ OwnedBy(T[i], s.bridge[i].method, {"param"})
               /\ OfKinds(T[i], {"param"})
    <2>1. s.bridge[i] \in Elements(s.bridge)
      BY DEF Elements, ToSet
    <2>2. IsMethod(s.bridge[i]) /\ NamesApart(s.bridge[i].params) /\ IsList(s.actors)
      BY <2>1 DEF IsAppSpec, MethodsOnce
    <2> QED BY <2>2, MethodLaid, OwnedKinds
  <1>2. parts = [i \in DOMAIN s.bridge |-> parts[i]] /\ IsList(s.bridge)
    BY DEF IsAppSpec
  <1>3. Gathered(s.bridge, T) = MethodsKeys(s)
    BY DEF Gathered, MethodsKeys
  <1> HIDE DEF T
  <1>4. ASSUME NEW i \in DOMAIN s.bridge, NEW j \in DOMAIN s.bridge, i # j PROVE T[i] \cap T[j] = {}
    <2>1. s.bridge[i].method # s.bridge[j].method
      BY <1>4 DEF MethodsOnce
    <2>2. OwnedBy(T[i], s.bridge[i].method, {"param"}) /\ OwnedBy(T[j], s.bridge[j].method, {"param"})
      BY <1>1
    <2> QED BY <2>1, <2>2, OwnersApart
  <1>5. PartEach(s.bridge, parts, T, "method", {"param"})
    BY <1>1, <1>2, <1>4 DEF PartEach
  <1> QED BY <1>3, <1>5, PartEachLaid

-----------------------------------------------------------------------------
(***************************************************************************)
(* The chart of a layout's graph: h says which layout each place stands    *)
(* for, and c where those in it stand.                                     *)
(***************************************************************************)
Span(at, next)              == {i \in Nat : at <= i /\ i < next}
PlaceKeys(screen, at, next) == {LayoutKey(screen, i) : i \in Span(at, next)}

\* The first n of the layouts in the one at i, and the places they stand at.
Row(h, ci, i, n, next) ==
  /\ DOMAIN ci = 1..n
  /\ \A j \in 1..n : ci[j] \in Span(i + 1, next) /\ h[ci[j]] = h[i].children[j]
  /\ \A j, k \in 1..n : j < k => ci[j] < ci[k]

Downs(screen, c, at, next) == UNION {{LayoutDown(screen, i, c[i][j]) : j \in DOMAIN c[i]} : i \in Span(at, next)}
Tops(screen, at)           == IF at = 0 THEN {LayoutTop(screen, at)} ELSE {}

Charted(l, k, at, next, h, c) ==
  /\ at \in Nat /\ next \in Nat /\ at < next
  /\ h \in [Span(at, next) -> Layouts] /\ h[at] = l
  /\ \A i \in Span(at, next) : Row(h, c[i], i, IF i = at THEN k ELSE Len(h[i].children), next)
Chart(screen, g, l, k, at, next, h, c) ==
  /\ Charted(l, k, at, next, h, c)
  /\ Elements(g.nodes) = {LayoutNode(screen, h[i], i) : i \in Span(at, next)}
  /\ Elements(g.edges) = Tops(screen, at) \union Downs(screen, c, at, next)

LEMMA ChartSelf ==
  ASSUME NEW screen, NEW l \in Layouts, NEW at \in Nat
  PROVE  \E h, c : Chart(screen, LayoutSelf(screen, <<l, at>>).graph, l, 0, at, at + 1, h, c)
  <1> DEFINE g == LayoutSelf(screen, <<l, at>>).graph
             h == [i \in Span(at, at + 1) |-> l]
             c == [i \in Span(at, at + 1) |-> [j \in 1..0 |-> at]]
  <1>1. Span(at, at + 1) = {at}
    BY DEF Span
  <1>2. Holds(g, {LayoutNode(screen, l, at)}, IF at = 0 THEN {LayoutTop(screen, at)} ELSE {})
    BY LayoutSelfValue
  <1>3. /\ h \in [Span(at, at + 1) -> Layouts] /\ h[at] = l
        /\ \A i \in Span(at, at + 1) : i = at /\ DOMAIN c[i] = 1..0
    BY <1>1
  <1> HIDE DEF h, c, g
  <1>4. Charted(l, 0, at, at + 1, h, c)
    <2>1. ASSUME NEW i \in Span(at, at + 1)
          PROVE  Row(h, c[i], i, IF i = at THEN 0 ELSE Len(h[i].children), at + 1)
      <3>1. Row(h, c[i], i, 0, at + 1)
        <4>1. \A j : j \notin 1..0
          OBVIOUS
        <4> QED BY <1>3, <4>1 DEF Row
      <3> QED BY <1>3, <3>1
    <2>2. at < at + 1 /\ at + 1 \in Nat
      OBVIOUS
    <2> QED BY <1>3, <2>1, <2>2 DEF Charted
  <1>5. Elements(g.nodes) = {LayoutNode(screen, h[i], i) : i \in Span(at, at + 1)}
    BY <1>1, <1>2, <1>3 DEF Holds
  <1>6. Downs(screen, c, at, at + 1) = {}
    BY <1>3 DEF Downs
  <1>7. Chart(screen, g, l, 0, at, at + 1, h, c)
    BY <1>2, <1>4, <1>5, <1>6 DEF Chart, Holds, Tops
  <1> QED BY <1>7 DEF g

\* Putting one more layout in.
LEMMA ChartedStep ==
  ASSUME NEW l \in Layouts, NEW k \in Nat, k + 1 <= Len(l.children), NEW at, NEW m, NEW h, NEW c, Charted(l, k, at, m, h, c),
         NEW x, x = l.children[k + 1], NEW next, NEW h1, NEW c1, Charted(x, Len(x.children), m, next, h1, c1)
  PROVE  LET h2 == [i \in Span(at, next) |-> IF i < m THEN h[i] ELSE h1[i]]
             c2 == [i \in Span(at, next) |->
                      IF i = at THEN [j \in 1..(k + 1) |-> IF j <= k THEN c[at][j] ELSE m]
                      ELSE IF i < m THEN c[i] ELSE c1[i]]
         IN  Charted(l, k + 1, at, next, h2, c2)
  <1> DEFINE h2 == [i \in Span(at, next) |-> IF i < m THEN h[i] ELSE h1[i]]
             top == [j \in 1..(k + 1) |-> IF j <= k THEN c[at][j] ELSE m]
             c2 == [i \in Span(at, next) |-> IF i = at THEN top ELSE IF i < m THEN c[i] ELSE c1[i]]
  <1>1. /\ at \in Nat /\ m \in Nat /\ next \in Nat /\ at < m /\ m < next
        /\ h \in [Span(at, m) -> Layouts] /\ h[at] = l
        /\ h1 \in [Span(m, next) -> Layouts] /\ h1[m] = l.children[k + 1]
    BY DEF Charted
  <1>2. /\ \A i \in Span(at, next) : i < m => i \in Span(at, m) /\ h2[i] = h[i]
        /\ \A i \in Span(at, next) : ~(i < m) => i \in Span(m, next) /\ h2[i] = h1[i]
        /\ at \in Span(at, m) /\ at \in Span(at, next) /\ m \in Span(at, next)
    BY <1>1 DEF Span
  <1>3. h2 \in [Span(at, next) -> Layouts] /\ h2[at] = l
    BY <1>1, <1>2
  <1>4. /\ \A i \in Span(at, m) : i \in Span(at, next) /\ h2[i] = h[i]
        /\ \A i \in Span(m, next) : i \in Span(at, next) /\ h2[i] = h1[i]
    BY <1>1, <1>2 DEF Span
  <1>5. /\ c2[at] = top
        /\ \A i \in Span(at, next) : i # at /\ i < m => c2[i] = c[i]
        /\ \A i \in Span(at, next) : i # at /\ ~(i < m) => c2[i] = c1[i]
    BY <1>2
  <1>6. /\ DOMAIN top = 1..(k + 1) /\ \A j \in 1..k : top[j] = c[at][j]
        /\ top[k + 1] = m
    OBVIOUS
  <1> HIDE DEF h2, c2, top
  <1>7. Row(h2, top, at, k + 1, next)
    <2>1. Row(h, c[at], at, k, m)
      BY <1>2 DEF Charted
    <2>2. ASSUME NEW j \in 1..(k + 1) PROVE top[j] \in Span(at + 1, next) /\ h2[top[j]] = l.children[j]
      <3>1. CASE j \in 1..k
        <4>1. c[at][j] \in Span(at + 1, m) /\ h[c[at][j]] = l.children[j]
          BY <1>1, <2>1, <3>1 DEF Row
        <4>2. c[at][j] \in Span(at, m) /\ c[at][j] \in Span(at + 1, next)
          BY <1>1, <4>1 DEF Span
        <4> QED BY <1>4, <1>6, <3>1, <4>1, <4>2
      <3>2. CASE j = k + 1
        <4>1. m \in Span(at + 1, next) /\ m \in Span(m, next)
          BY <1>1 DEF Span
        <4> QED BY <1>1, <1>4, <1>6, <3>2, <4>1
      <3> QED BY <3>1, <3>2
    <2>3. ASSUME NEW i \in 1..(k + 1), NEW j \in 1..(k + 1), i < j PROVE top[i] < top[j]
      <3>1. i \in 1..k
        BY <2>3
      <3>2. CASE j \in 1..k
        BY <1>6, <2>1, <2>3, <3>1, <3>2 DEF Row
      <3>3. CASE j = k + 1
        <4>1. c[at][i] < m
          BY <2>1, <3>1 DEF Row, Span
        <4> QED BY <1>6, <3>1, <3>3, <4>1
      <3> QED BY <3>2, <3>3
    <2> QED BY <1>3, <1>6, <2>2, <2>3 DEF Row
  <1>8. ASSUME NEW i \in Span(at, next) PROVE Row(h2, c2[i], i, IF i = at THEN k + 1 ELSE Len(h2[i].children), next)
    <2>1. CASE i = at
      BY <1>5, <1>7, <2>1
    <2>2. CASE i # at /\ i < m
      <3>1. Row(h, c[i], i, Len(h[i].children), m)
        BY <1>2, <2>2 DEF Charted
      <3>2. \A j \in 1..Len(h[i].children) : c[i][j] \in Span(at, m) /\ c[i][j] \in Span(i + 1, next)
        <4>1. \A p \in Span(i + 1, m) : p \in Span(at, m) /\ p \in Span(i + 1, next)
          BY <1>1 DEF Span
        <4> QED BY <3>1, <4>1 DEF Row
      <3>3. Row(h2, c[i], i, Len(h[i].children), next)
        BY <1>2, <1>4, <2>2, <3>1, <3>2 DEF Row
      <3> QED BY <1>2, <1>5, <2>2, <3>3
    <2>3. CASE i # at /\ ~(i < m)
      <3>1. Row(h1, c1[i], i, Len(h1[i].children), next)
        BY <1>1, <1>2, <2>3 DEF Charted
      <3>2. \A j \in 1..Len(h1[i].children) : c1[i][j] \in Span(m, next)
        <4>1. \A p \in Span(i + 1, next) : p \in Span(m, next)
          BY <1>1, <2>3 DEF Span
        <4> QED BY <3>1, <4>1 DEF Row
      <3>3. Row(h2, c1[i], i, Len(h1[i].children), next)
        BY <1>2, <1>4, <2>3, <3>1, <3>2 DEF Row
      <3> QED BY <1>2, <1>5, <2>3, <3>3
    <2> QED BY <2>1, <2>2, <2>3
  <1>9. Charted(l, k + 1, at, next, h2, c2)
    BY <1>1, <1>3, <1>8 DEF Charted
  <1> QED BY <1>9 DEF h2, c2, top

LEMMA PlacesApart ==
  ASSUME NEW screen, NEW a, NEW b, NEW x, NEW y, \A i \in Span(a, b) : i \notin Span(x, y)
  PROVE  PlaceKeys(screen, a, b) \cap PlaceKeys(screen, x, y) = {}
  <1>1. \A i, j : LayoutKey(screen, i) = LayoutKey(screen, j) => i = j
    BY DEF LayoutKey, Part
  <1> QED BY <1>1 DEF PlaceKeys

LEMMA PlacesJoined ==
  ASSUME NEW screen, NEW a \in Nat, NEW b \in Nat, NEW c \in Nat, a <= b, b <= c
  PROVE  PlaceKeys(screen, a, b) \union PlaceKeys(screen, b, c) = PlaceKeys(screen, a, c)
  <1>1. Span(a, b) \union Span(b, c) = Span(a, c)
    BY DEF Span
  <1> QED BY <1>1 DEF PlaceKeys

LEMMA PlacesAround ==
  ASSUME NEW screen, NEW a \in Nat, NEW b \in Nat, NEW c \in Nat, a <= b, b < c
  PROVE  PlaceKeys(screen, a, b) \union PlaceKeys(screen, b, b + 1) \union PlaceKeys(screen, b + 1, c)
           = PlaceKeys(screen, a, c)
  <1>1. Span(a, b) \union Span(b, b + 1) \union Span(b + 1, c) = Span(a, c)
    BY DEF Span
  <1> QED BY <1>1 DEF PlaceKeys

\* Where the edges lead: no edge leads to the first, unless it is the top.
First(at) == IF at = 0 THEN 0 ELSE at + 1
Drawn(screen, g, l, k, at, next) ==
  /\ IsGraph(g) /\ \E h, c : Chart(screen, g, l, k, at, next, h, c)
  /\ NodesLaid(g.nodes, PlaceKeys(screen, at, next), {})
  /\ EdgesLaid(g.edges, PlaceKeys(screen, First(at), next))

LEMMA DrawnSelf ==
  ASSUME NEW screen, NEW l \in Layouts, NEW at \in Nat
  PROVE  Drawn(screen, LayoutSelf(screen, <<l, at>>).graph, l, 0, at, at + 1)
  <1> DEFINE g == LayoutSelf(screen, <<l, at>>).graph
             node == LayoutNode(screen, l, at)
             edges == IF at = 0 THEN <<LayoutTop(screen, at)>> ELSE <<>>
  <1>1. Holds(g, {node}, IF at = 0 THEN {LayoutTop(screen, at)} ELSE {})
    BY LayoutSelfValue
  <1>2. g.nodes = <<node>> /\ g.edges = edges
    BY GraphFields DEF LayoutSelf
  <1>3. \E h, c : Chart(screen, g, l, 0, at, at + 1, h, c)
    BY ChartSelf
  <1> HIDE DEF g
  <1>4. IsGraph(g) /\ IsList(g.nodes) /\ IsList(g.edges) /\ Elements(g.nodes) = {node}
    BY <1>1 DEF Holds, IsGraph
  <1>5. NodesLaid(g.nodes, PlaceKeys(screen, at, at + 1), {})
    <2>1. node.type = "layout" /\ node.key = LayoutKey(screen, at)
      BY NodeFields DEF LayoutNode
    <2>2. at \in Span(at, at + 1)
      BY DEF Span
    <2> HIDE DEF node
    <2>3. NodeLaid(node, PlaceKeys(screen, at, at + 1), {})
      BY <2>1, <2>2 DEF NodeLaid, InnerTypes, PlaceKeys
    <2>4. DOMAIN <<node>> = {1}
      BY ListOfOne
    <2>5. \A p, q \in DOMAIN g.nodes : ~(p < q)
      BY <1>2, <2>4
    <2> QED BY <1>4, <2>3, <2>5 DEF NodesLaid
  <1>6. EdgesLaid(g.edges, PlaceKeys(screen, First(at), at + 1))
    <2>1. CASE at = 0
      <3> DEFINE top == LayoutTop(screen, at)
      <3>1. top.to = LayoutKey(screen, at)
        BY EdgeFields DEF LayoutTop
      <3>2. at \in Span(First(at), at + 1)
        BY <2>1 DEF Span, First
      <3>3. Elements(g.edges) = {top} /\ g.edges = <<top>>
        BY <1>1, <1>2, <2>1 DEF Holds
      <3> HIDE DEF top
      <3>4. EdgeLaid(top, PlaceKeys(screen, First(at), at + 1))
        BY <3>1, <3>2 DEF EdgeLaid, PlaceKeys
      <3>5. DOMAIN <<top>> = {1}
        BY ListOfOne
      <3>6. \A p, q \in DOMAIN g.edges : ~(p < q)
        BY <3>3, <3>5
      <3> QED BY <1>4, <3>3, <3>4, <3>6 DEF EdgesLaid
    <2>2. CASE at # 0
      <3>1. g.edges = <<>>
        BY <1>2, <2>2
      <3> QED BY <1>4, <3>1, EmptyList DEF EdgesLaid
    <2> QED BY <2>1, <2>2
  <1> QED BY <1>3, <1>4, <1>5, <1>6 DEF Drawn, g

LEMMA DrawnStep ==
  ASSUME NEW screen, NEW push \in [Places -> LayoutValues(screen)], NEW l \in Layouts, NEW at \in Nat,
         NEW acc \in LayoutValues(screen), NEW i \in 1..Len(l.children), NEW k \in Nat, i = k + 1,
         Drawn(screen, acc.graph, l, k, at, acc.next),
         LET sub == push[<<l.children[i], acc.next>>]
         IN  Drawn(screen, sub.graph, l.children[i], Len(l.children[i].children), acc.next, sub.next)
  PROVE  LET r == LayoutStep(screen, push, <<l, at>>, acc, i)
         IN  Drawn(screen, r.graph, l, i, at, r.next)
  <1> DEFINE child == l.children[i]
             m == acc.next
             sub == push[<<child, m>>]
             next == sub.next
             a == acc.graph
             b == sub.graph
             down == LayoutDown(screen, at, m)
             mid == Graph(<<>>, <<down>>)
             parts == <<a, mid, b>>
             r == LayoutStep(screen, push, <<l, at>>, acc, i)
             g == r.graph
  <1>0. r.next = next
    BY DEF LayoutStep
  <1>1. Holds(g, Elements(a.nodes) \union {} \union Elements(b.nodes),
              Elements(a.edges) \union {down} \union Elements(b.edges))
    BY LayoutStepValue
  <1>2. g = Joined(parts)
    BY DEF LayoutStep
  <1>3. Drawn(screen, a, l, k, at, m) /\ Drawn(screen, b, child, Len(child.children), m, next)
    OBVIOUS
  <1>4. PICK h, c : Chart(screen, a, l, k, at, m, h, c)
    BY <1>3 DEF Drawn
  <1>5. PICK h1, c1 : Chart(screen, b, child, Len(child.children), m, next, h1, c1)
    BY <1>3 DEF Drawn
  <1>6. m \in Nat /\ next \in Nat /\ at < m /\ m < next
    BY <1>4, <1>5 DEF Chart, Charted
  <1>7. IsGraph(a) /\ IsGraph(b) /\ IsGraph(g)
    BY <1>1, <1>3 DEF Drawn, Holds
  <1>8. k + 1 <= Len(l.children) /\ child = l.children[k + 1]
    BY LayoutsAreTrees, LenProperties
  <1> HIDE DEF child, m, sub, next, a, b, mid, parts, r, g, down
  <1>9. \E h2, c2 : Chart(screen, g, l, k + 1, at, next, h2, c2)
    <2> DEFINE h2 == [p \in Span(at, next) |-> IF p < m THEN h[p] ELSE h1[p]]
               top == [j \in 1..(k + 1) |-> IF j <= k THEN c[at][j] ELSE m]
               c2 == [p \in Span(at, next) |-> IF p = at THEN top ELSE IF p < m THEN c[p] ELSE c1[p]]
    <2>1. Charted(l, k, at, m, h, c) /\ Charted(child, Len(child.children), m, next, h1, c1)
      BY <1>4, <1>5 DEF Chart
    <2>2. Charted(l, k + 1, at, next, h2, c2)
      BY <1>8, <2>1, ChartedStep
    <2>3. Elements(g.nodes) = Elements(a.nodes) \union Elements(b.nodes)
          /\ Elements(g.edges) = Elements(a.edges) \union {down} \union Elements(b.edges)
      BY <1>1 DEF Holds
    <2>4. /\ \A p \in Span(at, next) : (p \in Span(at, m) /\ p < m) \/ (p \in Span(m, next) /\ ~(p < m))
          /\ \A p \in Span(at, m) : p \in Span(at, next) /\ p < m
          /\ \A p \in Span(m, next) : p \in Span(at, next) /\ ~(p < m) /\ p # at
          /\ at \in Span(at, m)
      BY <1>6 DEF Span
    <2>5. Elements(g.nodes) = {LayoutNode(screen, h2[p], p) : p \in Span(at, next)}
      <3>1. /\ Elements(a.nodes) = {LayoutNode(screen, h[p], p) : p \in Span(at, m)}
            /\ Elements(b.nodes) = {LayoutNode(screen, h1[p], p) : p \in Span(m, next)}
        BY <1>4, <1>5 DEF Chart
      <3>2. /\ \A p \in Span(at, m) : h2[p] = h[p]
            /\ \A p \in Span(m, next) : h2[p] = h1[p]
        BY <2>4
      <3> HIDE DEF h2
      <3> QED BY <2>3, <2>4, <3>1, <3>2
    <2>6. Downs(screen, c2, at, next) = Downs(screen, c, at, m) \union {down} \union Downs(screen, c1, m, next)
      <3>1. /\ \A p \in Span(at, m) : p # at => c2[p] = c[p]
            /\ \A p \in Span(m, next) : c2[p] = c1[p]
            /\ c2[at] = top
        BY <2>4
      <3>2. DOMAIN c[at] = 1..k /\ DOMAIN top = 1..(k + 1)
            /\ (\A j \in 1..k : top[j] = c[at][j]) /\ top[k + 1] = m
        BY <2>1, <2>4 DEF Charted, Row
      <3>3. {LayoutDown(screen, at, top[j]) : j \in DOMAIN top}
              = {LayoutDown(screen, at, c[at][j]) : j \in DOMAIN c[at]} \union {down}
        <4>1. \A j : j \in 1..(k + 1) <=> j \in 1..k \/ j = k + 1
          OBVIOUS
        <4> HIDE DEF top
        <4> QED BY <3>2, <4>1 DEF down
      <3> HIDE DEF top, c2, h2
      <3> DEFINE D(f, p) == {LayoutDown(screen, p, f[p][j]) : j \in DOMAIN f[p]}
      <3>4. /\ D(c2, at) = D(c, at) \union {down}
            /\ \A p \in Span(at, m) : p # at => D(c2, p) = D(c, p)
            /\ \A p \in Span(m, next) : D(c2, p) = D(c1, p)
        BY <3>1, <3>3
      <3>5. /\ Downs(screen, c2, at, next) = UNION {D(c2, p) : p \in Span(at, next)}
            /\ Downs(screen, c, at, m) = UNION {D(c, p) : p \in Span(at, m)}
            /\ Downs(screen, c1, m, next) = UNION {D(c1, p) : p \in Span(m, next)}
        BY DEF Downs
      <3> HIDE DEF D
      <3> QED BY <2>4, <3>4, <3>5
    <2>7. Elements(g.edges) = Tops(screen, at) \union Downs(screen, c2, at, next)
      <3>1. m # 0
        BY <1>6
      <3>2. /\ Elements(a.edges) = Tops(screen, at) \union Downs(screen, c, at, m)
            /\ Elements(b.edges) = Downs(screen, c1, m, next)
        BY <1>4, <1>5, <3>1 DEF Chart, Tops
      <3> HIDE DEF c2
      <3> QED BY <2>3, <2>6, <3>2
    <2> HIDE DEF h2, c2
    <2> QED BY <2>2, <2>5, <2>7 DEF Chart
  <1>10. NodesLaid(g.nodes, PlaceKeys(screen, at, next), {})
    <2> DEFINE T == <<PlaceKeys(screen, at, m), {}, PlaceKeys(screen, m, next)>>
               S == <<{}, {}, {}>>
    <2>1. parts = [p \in 1..3 |-> parts[p]] /\ parts[1] = a /\ parts[2] = mid /\ parts[3] = b
          /\ \A p : p \in 1..3 <=> p = 1 \/ p = 2 \/ p = 3
      BY DEF parts
    <2>2. T[1] = PlaceKeys(screen, at, m) /\ T[2] = {} /\ T[3] = PlaceKeys(screen, m, next) /\ \A p \in 1..3 : S[p] = {}
      OBVIOUS
    <2> HIDE DEF T, S
    <2>3. IsGraph(mid) /\ NodesLaid(mid.nodes, {}, {})
      <3>1. IsList(<<down>>) /\ IsList(<<>>) /\ Elements(<<>>) = {} /\ DOMAIN <<>> = {}
        BY ListOfOne, EmptyList
      <3> QED BY <3>1, GraphFields DEF mid, NodesLaid
    <2>4. NodesLaid(a.nodes, PlaceKeys(screen, at, m), {}) /\ NodesLaid(b.nodes, PlaceKeys(screen, m, next), {})
      BY <1>3 DEF Drawn
    <2>5. PlaceKeys(screen, at, m) \cap PlaceKeys(screen, m, next) = {}
      <3>1. \A p \in Span(at, m) : p \notin Span(m, next)
        BY <1>6 DEF Span
      <3> QED BY <3>1, PlacesApart
    <2>6. NodesEach(parts, T, S)
      <3>1. IsList(parts) /\ DOMAIN parts = 1..3
        BY <2>1, FunctionIsList
      <3>2. \A p \in DOMAIN parts : IsGraph(parts[p]) /\ NodesLaid(parts[p].nodes, T[p], S[p])
        BY <1>7, <2>1, <2>2, <2>3, <2>4, <3>1
      <3>3. \A p, q \in DOMAIN parts : p < q => T[p] \cap T[q] = {}
        BY <2>1, <2>2, <2>5, <3>1
      <3>4. \A p, q \in DOMAIN parts : Before(S[p], S[q])
        BY <2>2, <3>1, NothingBefore
      <3> QED BY <3>1, <3>2, <3>3, <3>4 DEF NodesEach
    <2>7. NodesLaid(Joined(parts).nodes, Gathered(parts, T), Gathered(parts, S))
      BY <2>6, JoinedNodesLaid
    <2>8. Gathered(parts, T) = PlaceKeys(screen, at, next) /\ Gathered(parts, S) = {}
      <3>1. DOMAIN parts = 1..3
        BY <2>1
      <3>2. Gathered(parts, T) = PlaceKeys(screen, at, m) \union PlaceKeys(screen, m, next)
        BY <2>1, <2>2, <3>1 DEF Gathered
      <3>3. Gathered(parts, S) = {}
        BY <2>2, <3>1 DEF Gathered
      <3> QED BY <1>6, <3>2, <3>3, PlacesJoined
    <2> QED BY <1>2, <2>7, <2>8
  <1>11. EdgesLaid(g.edges, PlaceKeys(screen, First(at), next))
    <2> DEFINE T == <<PlaceKeys(screen, First(at), m), PlaceKeys(screen, m, m + 1), PlaceKeys(screen, m + 1, next)>>
    <2>1. parts = [p \in 1..3 |-> parts[p]] /\ parts[1] = a /\ parts[2] = mid /\ parts[3] = b
          /\ \A p : p \in 1..3 <=> p = 1 \/ p = 2 \/ p = 3
      BY DEF parts
    <2>2. /\ T[1] = PlaceKeys(screen, First(at), m) /\ T[2] = PlaceKeys(screen, m, m + 1)
          /\ T[3] = PlaceKeys(screen, m + 1, next)
      OBVIOUS
    <2> HIDE DEF T
    <2>3. IsGraph(mid) /\ EdgesLaid(mid.edges, PlaceKeys(screen, m, m + 1))
      <3>1. IsList(<<down>>) /\ Elements(<<down>>) = {down} /\ IsList(<<>>) /\ DOMAIN <<down>> = {1}
        BY ListOfOne, EmptyList
      <3>2. mid.edges = <<down>> /\ IsGraph(mid)
        BY <3>1, GraphFields DEF mid
      <3>3. down.to = LayoutKey(screen, m) /\ m \in Span(m, m + 1)
        BY <1>6, EdgeFields DEF down, LayoutDown, Span
      <3>4. EdgeLaid(down, PlaceKeys(screen, m, m + 1))
        BY <3>3 DEF EdgeLaid, PlaceKeys
      <3>5. \A p, q \in DOMAIN mid.edges : ~(p < q)
        BY <3>1, <3>2
      <3> QED BY <3>1, <3>2, <3>4, <3>5 DEF EdgesLaid
    <2>4. EdgesLaid(a.edges, PlaceKeys(screen, First(at), m)) /\ EdgesLaid(b.edges, PlaceKeys(screen, m + 1, next))
      <3>1. First(m) = m + 1
        BY <1>6 DEF First
      <3> QED BY <1>3, <3>1 DEF Drawn
    <2>5. First(at) \in Nat /\ First(at) <= m
      BY <1>6 DEF First
    <2>6. /\ PlaceKeys(screen, First(at), m) \cap PlaceKeys(screen, m, m + 1) = {}
          /\ PlaceKeys(screen, First(at), m) \cap PlaceKeys(screen, m + 1, next) = {}
          /\ PlaceKeys(screen, m, m + 1) \cap PlaceKeys(screen, m + 1, next) = {}
      <3>1. /\ \A p \in Span(First(at), m) : p \notin Span(m, m + 1)
            /\ \A p \in Span(First(at), m) : p \notin Span(m + 1, next)
            /\ \A p \in Span(m, m + 1) : p \notin Span(m + 1, next)
        BY <1>6, <2>5 DEF Span
      <3> QED BY <3>1, PlacesApart
    <2>7. EdgesEach(parts, T)
      <3>1. IsList(parts) /\ DOMAIN parts = 1..3
        BY <2>1, FunctionIsList
      <3>2. \A p \in DOMAIN parts : IsGraph(parts[p]) /\ EdgesLaid(parts[p].edges, T[p])
        BY <1>7, <2>1, <2>2, <2>3, <2>4, <3>1
      <3>3. \A p, q \in DOMAIN parts : p < q => T[p] \cap T[q] = {}
        BY <2>1, <2>2, <2>6, <3>1
      <3> QED BY <3>1, <3>2, <3>3 DEF EdgesEach
    <2>8. EdgesLaid(Joined(parts).edges, Gathered(parts, T))
      BY <2>7, JoinedEdgesLaid
    <2>9. Gathered(parts, T) = PlaceKeys(screen, First(at), next)
      <3>1. DOMAIN parts = 1..3
        BY <2>1
      <3>2. Gathered(parts, T) = PlaceKeys(screen, First(at), m) \union PlaceKeys(screen, m, m + 1)
                                   \union PlaceKeys(screen, m + 1, next)
        BY <2>1, <2>2, <3>1 DEF Gathered
      <3>3. PlaceKeys(screen, First(at), m) \union PlaceKeys(screen, m, m + 1) \union PlaceKeys(screen, m + 1, next)
              = PlaceKeys(screen, First(at), next)
        BY <1>6, <2>5, PlacesAround
      <3> QED BY <3>2, <3>3
    <2> QED BY <1>2, <2>8, <2>9
  <1> QED BY <1>0, <1>7, <1>9, <1>10, <1>11 DEF Drawn, r, g, next, sub, child, m

\* A layout's graph is laid as its chart says.
LayoutNext(screen, l, at) == PushLayout(screen)[<<l, at>>].next
LEMMA LayoutDrawn ==
  ASSUME NEW screen
  PROVE  \A l \in Layouts, at \in Nat :
            Drawn(screen, LayoutGraph(screen, l, at), l, Len(l.children), at, LayoutNext(screen, l, at))
  <1> DEFINE push == PushLayout(screen)
             Shut(l, at) == Drawn(screen, push[<<l, at>>].graph, l, Len(l.children), at, push[<<l, at>>].next)
             Q == {d \in Nat : \A l \in Layouts, at \in Nat : Depth[l] < d => Shut(l, at)}
  <1>0. \A l \in Layouts : Depth[l] \in Nat
    BY LayoutsAreTrees
  <1>1. 0 \in Q
    BY <1>0
  <1>2. ASSUME NEW d \in Nat, d \in Q PROVE d + 1 \in Q
    <2> SUFFICES ASSUME NEW l \in Layouts, NEW at \in Nat, Depth[l] < d + 1 PROVE Shut(l, at)
      OBVIOUS
    <2> DEFINE n == Len(l.children)
               after == LayoutAfter(screen, push, <<l, at>>)
               R == {k \in Nat : k <= n => Drawn(screen, after[k].graph, l, k, at, after[k].next)}
    <2>1. push \in [Places -> LayoutValues(screen)] /\ push[<<l, at>>] = after[n]
      BY LayoutPushed
    <2>2. \A m \in Layouts, k \in Nat : Depth[m] < Depth[l] => Shut(m, k)
      BY <1>0, <1>2
    <2> HIDE DEF push
    <2>3. /\ n \in Nat /\ after[0] = LayoutSelf(screen, <<l, at>>)
          /\ \A i \in 1..n : after[i] = LayoutStep(screen, push, <<l, at>>, after[i - 1], i)
          /\ after \in [0..n -> LayoutValues(screen)]
      BY <2>1, LayoutAfterSolves
    <2> HIDE DEF after
    <2>4. 0 \in R
      <3>1. after[0].next = at + 1
        BY <2>3, LayoutSelfValue
      <3> QED BY <2>3, <3>1, DrawnSelf
    <2>5. ASSUME NEW k \in Nat, k \in R PROVE k + 1 \in R
      <3> SUFFICES ASSUME k + 1 <= n PROVE Drawn(screen, after[k + 1].graph, l, k + 1, at, after[k + 1].next)
        OBVIOUS
      <3> DEFINE i == k + 1
                 acc == after[k]
                 child == l.children[i]
                 sub == push[<<child, acc.next>>]
      <3>1. i \in 1..n /\ i - 1 = k /\ k \in 0..n /\ k <= n
        BY <2>3
      <3>2. acc \in LayoutValues(screen) /\ Drawn(screen, acc.graph, l, k, at, acc.next)
        BY <2>3, <2>5, <3>1
      <3>3. after[i] = LayoutStep(screen, push, <<l, at>>, acc, i)
        BY <2>3, <3>1
      <3>4. child \in Layouts /\ Depth[child] < Depth[l]
        <4>1. child \in Elements(l.children)
          BY <3>1, LayoutsAreTrees, LenProperties DEF Elements, ToSet
        <4> QED BY <4>1, LayoutsAreTrees, ElementsOfSeq
      <3>0. i = k + 1
        OBVIOUS
      <3> HIDE DEF i, acc, Q, R, n
      <3>5. acc.next \in Nat
        BY <3>2, LayoutValueHolds
      <3>6. Drawn(screen, sub.graph, child, Len(child.children), acc.next, sub.next)
        BY <2>2, <3>4, <3>5
      <3> DEFINE r == LayoutStep(screen, push, <<l, at>>, acc, i)
      <3>7. Drawn(screen, r.graph, l, i, at, r.next)
        BY <2>1, <3>0, <3>1, <3>2, <3>6, DrawnStep DEF n
      <3> QED BY <3>3, <3>7 DEF i
    <2> HIDE DEF R
    <2>6. Nat \subseteq R
      BY <2>4, <2>5, NaturalsInSet
    <2>7. Drawn(screen, after[n].graph, l, n, at, after[n].next)
      BY <2>3, <2>6 DEF R
    <2> QED BY <2>1, <2>7
  <1> HIDE DEF Q
  <1>3. Nat \subseteq Q
    BY <1>1, <1>2, NaturalsInSet
  <1>4. ASSUME NEW l \in Layouts, NEW at \in Nat PROVE Shut(l, at)
    <2>1. Depth[l] + 1 \in Q /\ Depth[l] < Depth[l] + 1
      BY <1>0, <1>3
    <2> QED BY <2>1 DEF Q
  <1> QED BY <1>4 DEF LayoutGraph, LayoutNext

-----------------------------------------------------------------------------
(* A screen: its parts, each named by its own.                              *)
ActionNames(v)  == [j \in DOMAIN v.actions |-> v.actions[j].id]
BindingNames(v) == [j \in DOMAIN v.bindings |-> v.bindings[j].field]
MoveNames(v)    == [j \in DOMAIN v.navigation |-> v.navigation[j].action]

LEMMA ActionParts ==
  ASSUME NEW v, IsScreen(v)
  PROVE  MadeOf(ActionNodes(v), "action", v.id, "action", v.actions, ActionNames(v))
  <1>1. IsList(v.actions) /\ DOMAIN ActionNames(v) = DOMAIN v.actions
    BY DEF IsScreen, ActionNames
  <1>2. ASSUME NEW j \in DOMAIN v.actions
        PROVE  ActionNodes(v)[j].type = "action" /\ ActionNodes(v)[j].key = Part(v.id, "action", ActionNames(v)[j])
    BY NodeFields DEF ActionNodes, ActionNames
  <1>3. ActionNodes(v) = [j \in DOMAIN v.actions |-> ActionNodes(v)[j]]
    BY DEF ActionNodes
  <1> QED BY <1>1, <1>2, <1>3 DEF MadeOf

LEMMA BindingParts ==
  ASSUME NEW v, IsScreen(v)
  PROVE  MadeOf(BindingNodes(v), "binding", v.id, "binding", v.bindings, BindingNames(v))
  <1>1. IsList(v.bindings) /\ DOMAIN BindingNames(v) = DOMAIN v.bindings
    BY DEF IsScreen, BindingNames
  <1>2. ASSUME NEW j \in DOMAIN v.bindings
        PROVE  BindingNodes(v)[j].type = "binding" /\ BindingNodes(v)[j].key = Part(v.id, "binding", BindingNames(v)[j])
    BY NodeFields DEF BindingNodes, BindingNames
  <1>3. BindingNodes(v) = [j \in DOMAIN v.bindings |-> BindingNodes(v)[j]]
    BY DEF BindingNodes
  <1> QED BY <1>1, <1>2, <1>3 DEF MadeOf

LEMMA MoveParts ==
  ASSUME NEW v, IsScreen(v)
  PROVE  MadeOf(MoveNodes(v), "navigation", v.id, "navigation", v.navigation, MoveNames(v))
  <1>1. IsList(v.navigation) /\ DOMAIN MoveNames(v) = DOMAIN v.navigation
    BY DEF IsScreen, MoveNames
  <1>2. ASSUME NEW j \in DOMAIN v.navigation
        PROVE  MoveNodes(v)[j].type = "navigation" /\ MoveNodes(v)[j].key = Part(v.id, "navigation", MoveNames(v)[j])
    BY NodeFields DEF MoveNodes, MoveNames
  <1>3. MoveNodes(v) = [j \in DOMAIN v.navigation |-> MoveNodes(v)[j]]
    BY DEF MoveNodes
  <1> QED BY <1>1, <1>2, <1>3 DEF MadeOf

\* Parts that one more edge leaves each.
LEMMA TipPartsLaid ==
  ASSUME NEW owner, NEW kind, NEW nodes, NEW names, PartNodes(owner, kind, nodes, names), IsInjective(names),
         NEW predicate, NEW out, NEW parts, TipEach(Key(owner), predicate, nodes, out, parts),
         \A j \in DOMAIN nodes : out[j].predicate \notin ChildPredicates
  PROVE  Laid(Joined(parts), KeysOf(Elements(nodes)), {}) /\ OwnedBy(KeysOf(Elements(nodes)), owner, {kind})
  <1> DEFINE more == [j \in DOMAIN nodes |-> <<out[j]>>]
  <1>1. IsList(nodes) /\ parts = [j \in DOMAIN nodes |-> Child(Key(owner), predicate, nodes[j], more[j])]
    BY DEF TipEach
  <1>2. ASSUME NEW j \in DOMAIN nodes PROVE PlainEdges(more[j])
    <2>1. IsList(<<out[j]>>) /\ Elements(<<out[j]>>) = {out[j]}
      BY ListOfOne
    <2> QED BY <2>1 DEF PlainEdges
  <1> HIDE DEF more
  <1>3. ChildEach(Key(owner), predicate, nodes, more, parts)
    BY <1>1, <1>2 DEF ChildEach
  <1> QED BY <1>3, PartsLaid

LayoutKeys(v) == PlaceKeys(v.id, 0, LayoutNext(v.id, v.layout, 0))
ScreenKeys(v) == {} \union KeysOf(Elements(ActionNodes(v))) \union KeysOf(Elements(BindingNodes(v)))
                   \union KeysOf(Elements(MoveNodes(v))) \union LayoutKeys(v)

LEMMA LayoutLaid ==
  ASSUME NEW v, IsScreen(v)
  PROVE  Laid(LayoutOf(v), LayoutKeys(v), {}) /\ OwnedBy(LayoutKeys(v), v.id, {"layout"})
  <1>1. v.layout \in Layouts
    BY DEF IsScreen
  <1>2. Drawn(v.id, LayoutOf(v), v.layout, Len(v.layout.children), 0, LayoutNext(v.id, v.layout, 0))
    BY <1>1, LayoutDrawn DEF LayoutOf
  <1>3. First(0) = 0
    BY DEF First
  <1>4. Laid(LayoutOf(v), LayoutKeys(v), {})
    BY <1>2, <1>3 DEF Drawn, Laid, LayoutKeys
  <1>5. OwnedBy(LayoutKeys(v), v.id, {"layout"})
    BY PartFields DEF OwnedBy, LayoutKeys, PlaceKeys, LayoutKey
  <1> QED BY <1>4, <1>5

ScreenKinds == {"action"} \union {"binding"} \union {"navigation"} \union {"layout"}

LEMMA ScreenLaid ==
  ASSUME NEW s, NEW v, IsScreen(v), ScreenOnce(v), NEW i
  PROVE  Laid(PushScreen(s, v, i), ScreenKeys(v), {<<"screen", i>>}) /\ OwnedBy(ScreenKeys(v), v.id, ScreenKinds)
  <1> DEFINE a == Child(Root(s), "HAS_SCREEN", ScreenSelf(v, i), <<>>)
             actions == [j \in DOMAIN ActionNodes(v) |-> Child(Key(v.id), "HAS_ACTION", ActionNodes(v)[j], <<Calls(v)[j]>>)]
             bindings == [j \in DOMAIN BindingNodes(v) |-> Child(Key(v.id), "HAS_BINDING", BindingNodes(v)[j], <<Binds(v)[j]>>)]
             moves == [j \in DOMAIN MoveNodes(v) |-> Child(Key(v.id), "HAS_NAVIGATION", MoveNodes(v)[j], <<Moves(v)[j]>>)]
             b == Joined(actions)
             c == Joined(bindings)
             d == Joined(moves)
             e == PushLayout(v.id)[<<v.layout, 0>>].graph
             A == KeysOf(Elements(ActionNodes(v)))
             B == KeysOf(Elements(BindingNodes(v)))
             M == KeysOf(Elements(MoveNodes(v)))
             L == LayoutKeys(v)
  <1>1. PushScreen(s, v, i) = Joined(<<a, b, c, d, e>>)
    <2>1. actions = [j \in DOMAIN v.actions |->
               Child(Key(v.id), "HAS_ACTION", Node("action", Part(v.id, "action", v.actions[j].id), j, v.actions[j]),
                     <<Edge("CALLS", Part(v.id, "action", v.actions[j].id), Key(v.actions[j].bridge))>>)]
      BY DEF ActionNodes, Calls
    <2>2. bindings = [j \in DOMAIN v.bindings |->
               Child(Key(v.id), "HAS_BINDING",
                     Node("binding", Part(v.id, "binding", v.bindings[j].field), j, v.bindings[j]),
                     <<Edge("BINDS", Part(v.id, "binding", v.bindings[j].field), Key(v.bindings[j].method))>>)]
      BY DEF BindingNodes, Binds
    <2>3. moves = [j \in DOMAIN v.navigation |->
               Child(Key(v.id), "HAS_NAVIGATION",
                     Node("navigation", Part(v.id, "navigation", v.navigation[j].action), j, v.navigation[j]),
                     <<Edge("NAVIGATES_TO", Part(v.id, "navigation", v.navigation[j].action),
                            Key(v.navigation[j].to))>>)]
      BY DEF MoveNodes, Moves
    <2> HIDE DEF actions, bindings, moves
    <2> QED BY <2>1, <2>2, <2>3 DEF PushScreen, Each, ScreenSelf
  <1>2. Laid(a, {}, {<<"screen", i>>})
    BY SelfLaid DEF ScreenSelf, ChildPredicates, TopTypes
  <1>3. Laid(b, A, {}) /\ OwnedBy(A, v.id, {"action"})
    <2> DEFINE nodes == ActionNodes(v)
               out == Calls(v)
    <2>1. IsList(nodes) /\ DOMAIN nodes = DOMAIN v.actions /\ PartNodes(v.id, "action", nodes, ActionNames(v))
      BY ActionParts, MadeParts DEF InnerTypes
    <2>2. IsInjective(ActionNames(v))
      BY DEF ScreenOnce, ActionNames, IsInjective
    <2>3. \A j \in DOMAIN nodes : out[j].predicate = "CALLS"
      BY <2>1, EdgeFields DEF Calls
    <2> HIDE DEF nodes, out
    <2>4. TipEach(Key(v.id), "HAS_ACTION", nodes, out, actions)
      BY <2>1 DEF TipEach, nodes, out
    <2>5. \A j \in DOMAIN nodes : out[j].predicate \notin ChildPredicates
      BY <2>3 DEF ChildPredicates
    <2> HIDE DEF actions
    <2>6. Laid(Joined(actions), KeysOf(Elements(nodes)), {}) /\ OwnedBy(KeysOf(Elements(nodes)), v.id, {"action"})
      BY <2>1, <2>2, <2>4, <2>5, TipPartsLaid
    <2> QED BY <2>6 DEF nodes
  <1>4. Laid(c, B, {}) /\ OwnedBy(B, v.id, {"binding"})
    <2> DEFINE nodes == BindingNodes(v)
               out == Binds(v)
    <2>1. IsList(nodes) /\ DOMAIN nodes = DOMAIN v.bindings /\ PartNodes(v.id, "binding", nodes, BindingNames(v))
      BY BindingParts, MadeParts DEF InnerTypes
    <2>2. IsInjective(BindingNames(v))
      BY DEF ScreenOnce, BindingNames, IsInjective
    <2>3. \A j \in DOMAIN nodes : out[j].predicate = "BINDS"
      BY <2>1, EdgeFields DEF Binds
    <2> HIDE DEF nodes, out
    <2>4. TipEach(Key(v.id), "HAS_BINDING", nodes, out, bindings)
      BY <2>1 DEF TipEach, nodes, out
    <2>5. \A j \in DOMAIN nodes : out[j].predicate \notin ChildPredicates
      BY <2>3 DEF ChildPredicates
    <2> HIDE DEF bindings
    <2>6. Laid(Joined(bindings), KeysOf(Elements(nodes)), {}) /\ OwnedBy(KeysOf(Elements(nodes)), v.id, {"binding"})
      BY <2>1, <2>2, <2>4, <2>5, TipPartsLaid
    <2> QED BY <2>6 DEF nodes
  <1>5. Laid(d, M, {}) /\ OwnedBy(M, v.id, {"navigation"})
    <2> DEFINE nodes == MoveNodes(v)
               out == Moves(v)
    <2>1. IsList(nodes) /\ DOMAIN nodes = DOMAIN v.navigation /\ PartNodes(v.id, "navigation", nodes, MoveNames(v))
      BY MoveParts, MadeParts DEF InnerTypes
    <2>2. IsInjective(MoveNames(v))
      BY DEF ScreenOnce, MoveNames, IsInjective
    <2>3. \A j \in DOMAIN nodes : out[j].predicate = "NAVIGATES_TO"
      BY <2>1, EdgeFields DEF Moves
    <2> HIDE DEF nodes, out
    <2>4. TipEach(Key(v.id), "HAS_NAVIGATION", nodes, out, moves)
      BY <2>1 DEF TipEach, nodes, out
    <2>5. \A j \in DOMAIN nodes : out[j].predicate \notin ChildPredicates
      BY <2>3 DEF ChildPredicates
    <2> HIDE DEF moves
    <2>6. Laid(Joined(moves), KeysOf(Elements(nodes)), {}) /\ OwnedBy(KeysOf(Elements(nodes)), v.id, {"navigation"})
      BY <2>1, <2>2, <2>4, <2>5, TipPartsLaid
    <2> QED BY <2>6 DEF nodes
  <1>6. Laid(e, L, {}) /\ OwnedBy(L, v.id, {"layout"})
    BY LayoutLaid DEF LayoutOf, LayoutGraph
  <1> HIDE DEF a, b, c, d, e, A, B, M, L
  <1>7. /\ A \cap B = {} /\ A \cap M = {} /\ A \cap L = {}
        /\ B \cap M = {} /\ B \cap L = {} /\ M \cap L = {}
    <2>1. OfKinds(A, {"action"}) /\ OfKinds(B, {"binding"}) /\ OfKinds(M, {"navigation"}) /\ OfKinds(L, {"layout"})
      BY <1>3, <1>4, <1>5, <1>6, OwnedKinds
    <2> QED BY <2>1 DEF OfKinds
  <1>8. Laid(Joined(<<a, b, c, d, e>>), {} \union A \union B \union M \union L,
             {<<"screen", i>>} \union {} \union {} \union {} \union {})
    BY <1>2, <1>3, <1>4, <1>5, <1>6, <1>7, NothingBefore, LaidFive
  <1>9. {<<"screen", i>>} \union {} \union {} \union {} \union {} = {<<"screen", i>>}
    OBVIOUS
  <1>10. OwnedBy(ScreenKeys(v), v.id, ScreenKinds)
    <2>1. ScreenKeys(v) = A \union B \union M \union L
      BY DEF ScreenKeys, A, B, M, L
    <2> QED BY <1>3, <1>4, <1>5, <1>6, <2>1 DEF OwnedBy, ScreenKinds
  <1>11. ScreenKeys(v) = {} \union A \union B \union M \union L
    BY DEF ScreenKeys, A, B, M, L
  <1> QED BY <1>1, <1>8, <1>9, <1>10, <1>11

ScreensKeys(s) == UNION {ScreenKeys(s.ui[i]) : i \in DOMAIN s.ui}

LEMMA ScreensLaid ==
  ASSUME NEW s, IsAppSpec(s), ScreensOnce(s)
  PROVE  /\ Laid(Joined([i \in DOMAIN s.ui |-> PushScreen(s, s.ui[i], i)]), ScreensKeys(s), Rows("screen", s.ui))
         /\ OfKinds(ScreensKeys(s), ScreenKinds)
  <1> DEFINE parts == [i \in DOMAIN s.ui |-> PushScreen(s, s.ui[i], i)]
             T == [i \in DOMAIN s.ui |-> ScreenKeys(s.ui[i])]
  <1>1. ASSUME NEW i \in DOMAIN s.ui
        PROVE  /\ Laid(parts[i], T[i], {<<"screen", i>>}) /\ OwnedBy(T[i], s.ui[i].id, ScreenKinds)
               /\ OfKinds(T[i], ScreenKinds)
    <2>1. s.ui[i] \in Elements(s.ui)
      BY DEF Elements, ToSet
    <2>2. IsScreen(s.ui[i]) /\ ScreenOnce(s.ui[i])
      BY <2>1 DEF IsAppSpec, ScreensOnce
    <2> QED BY <2>2, ScreenLaid, OwnedKinds
  <1>2. parts = [i \in DOMAIN s.ui |-> parts[i]] /\ IsList(s.ui)
    BY DEF IsAppSpec
  <1>3. Gathered(s.ui, T) = ScreensKeys(s)
    BY DEF Gathered, ScreensKeys
  <1> HIDE DEF T
  <1>4. ASSUME NEW i \in DOMAIN s.ui, NEW j \in DOMAIN s.ui, i # j PROVE T[i] \cap T[j] = {}
    <2>1. s.ui[i].id # s.ui[j].id
      BY <1>4 DEF ScreensOnce
    <2>2. OwnedBy(T[i], s.ui[i].id, ScreenKinds) /\ OwnedBy(T[j], s.ui[j].id, ScreenKinds)
      BY <1>1
    <2> QED BY <2>1, <2>2, OwnersApart
  <1>5. PartEach(s.ui, parts, T, "screen", ScreenKinds)
    BY <1>1, <1>2, <1>4 DEF PartEach
  <1> QED BY <1>3, <1>5, PartEachLaid

LEMMA LinksLaid ==
  ASSUME NEW s, IsAppSpec(s)
  PROVE  Laid(Joined([i \in DOMAIN s.links |-> Child(Root(s), "HAS_GRAPH_EDGE", LinkNodes(s)[i], <<>>)]), {},
              Rows("graph_edge", s.links))
  <1> DEFINE parts == [i \in DOMAIN s.links |-> Child(Root(s), "HAS_GRAPH_EDGE", LinkNodes(s)[i], <<>>)]
             T == [i \in DOMAIN s.links |-> {}]
  <1>1. ASSUME NEW i \in DOMAIN s.links PROVE Laid(parts[i], T[i], {<<"graph_edge", i>>})
    <2> DEFINE node == LinkNodes(s)[i]
    <2>1. node.type = "graph_edge" /\ node.order = i /\ node.key = Part(s.name, "edge", s.links[i].name)
      BY NodeFields DEF LinkNodes
    <2>2. TopKey(node.key)
      BY <2>1, PartFields DEF TopKey
    <2> HIDE DEF node
    <2>3. Laid(Child(Root(s), "HAS_GRAPH_EDGE", node, <<>>), {}, {<<node.type, node.order>>})
      BY <2>1, <2>2, TopLaid DEF TopTypes, ChildPredicates
    <2> QED BY <2>1, <2>3 DEF node
  <1>2. parts = [i \in DOMAIN s.links |-> parts[i]] /\ IsList(s.links)
    BY DEF IsAppSpec
  <1>3. Gathered(s.links, T) = {} /\ \A i \in DOMAIN s.links : T[i] = {}
    BY DEF Gathered
  <1> HIDE DEF T, parts
  <1>4. PartEach(s.links, parts, T, "graph_edge", {})
    BY <1>1, <1>2, <1>3 DEF PartEach, OfKinds
  <1>5. Laid(Joined(parts), {}, Rows("graph_edge", s.links))
    BY <1>3, <1>4, PartEachLaid
  <1> QED BY <1>5 DEF parts

CoreRows(s) == {<<"appspec", 0>>} \union Rows("type", s.types) \union Rows("graph_node", s.nodes)
                 \union Rows("graph_edge", s.links)
CoreKeys(s) == TypesKeys(s) \union GraphTypeKeys(s)

LEMMA CoreLaid ==
  ASSUME NEW s, IsAppSpec(s), TypesApart(s), NodesOnce(s)
  PROVE  /\ Laid(DecomposeCore(s), CoreKeys(s), CoreRows(s))
         /\ OfKinds(CoreKeys(s), {"field", "variant", "gfield"})
  <1> DEFINE a == Graph(<<RootNode(s)>>, <<>>)
             b == Joined([i \in DOMAIN s.types |-> PushType(s, s.types[i], i)])
             c == Joined([i \in DOMAIN s.nodes |-> PushGraphNode(s, s.nodes[i], i)])
             d == Joined([i \in DOMAIN s.links |-> Child(Root(s), "HAS_GRAPH_EDGE", LinkNodes(s)[i], <<>>)])
             A == {<<"appspec", 0>>}
             B == Rows("type", s.types)
             C == Rows("graph_node", s.nodes)
             D == Rows("graph_edge", s.links)
             Tb == TypesKeys(s)
             Tc == GraphTypeKeys(s)
  <1>1. DecomposeCore(s) = Joined(<<a, b, c, d>>)
    BY DEF DecomposeCore, Each, PushGraphNode, RootNode, LinkNodes
  <1>2. Laid(a, {}, A)
    <2> DEFINE node == RootNode(s)
    <2>1. node.type = "appspec" /\ node.order = 0 /\ TopKey(node.key)
      BY NodeFields, KeyIsTop DEF RootNode, Root
    <2> HIDE DEF node
    <2>2. NodeLaid(node, {}, A)
      BY <2>1 DEF NodeLaid, TopTypes
    <2>3. IsList(<<node>>) /\ Elements(<<node>>) = {node} /\ DOMAIN <<node>> = {1}
      BY ListOfOne
    <2>4. \A p, q \in DOMAIN <<node>> : ~(p < q)
      BY <2>3
    <2>5. NodesLaid(<<node>>, {}, A)
      BY <2>2, <2>3, <2>4 DEF NodesLaid
    <2>6. EdgesLaid(<<>>, {})
      BY EmptyList DEF EdgesLaid
    <2> QED BY <2>3, <2>5, <2>6, EmptyList, GraphFields DEF Laid, node
  <1>3. Laid(b, Tb, B) /\ OfKinds(Tb, {"field", "variant"})
    BY TypesLaid
  <1>4. Laid(c, Tc, C) /\ OfKinds(Tc, {"gfield"})
    BY GraphTypesLaid
  <1>5. Laid(d, {}, D)
    BY LinksLaid
  <1>6. OfTypes(A, {"appspec"}) /\ OfTypes(B, {"type"}) /\ OfTypes(C, {"graph_node"}) /\ OfTypes(D, {"graph_edge"})
    BY RowsTyped DEF OfTypes
  <1> HIDE DEF a, b, c, d, A, B, C, D, Tb, Tc
  <1>7. Before(A, B) /\ Before(A, C) /\ Before(A, D) /\ Before(B, C) /\ Before(B, D) /\ Before(C, D)
    BY <1>6 DEF OfTypes, Before
  <1>8. Tb \cap Tc = {}
    BY <1>3, <1>4 DEF OfKinds
  <1>9. Laid(Joined(<<a, b, c, d>>), {} \union Tb \union Tc \union {}, A \union B \union C \union D)
    BY <1>2, <1>3, <1>4, <1>5, <1>7, <1>8, LaidFour
  <1>10. {} \union Tb \union Tc \union {} = CoreKeys(s) /\ A \union B \union C \union D = CoreRows(s)
    BY DEF CoreKeys, CoreRows, A, B, C, D, Tb, Tc
  <1>11. OfKinds(CoreKeys(s), {"field", "variant", "gfield"})
    BY <1>3, <1>4 DEF OfKinds, CoreKeys, Tb, Tc
  <1> QED BY <1>1, <1>9, <1>10, <1>11

AllRows(s) == CoreRows(s) \union Rows("actor", s.actors) \union Rows("method", s.bridge) \union Rows("screen", s.ui)
InnerKeys(s) == CoreKeys(s) \union ActorsKeys(s) \union MethodsKeys(s) \union ScreensKeys(s)

LEMMA DecomposeLaid ==
  ASSUME NEW s, IsAppSpec(s), Once(s)
  PROVE  Laid(Decompose(s), InnerKeys(s), AllRows(s))
  <1> DEFINE a == DecomposeCore(s)
             b == Joined([i \in DOMAIN s.actors |-> PushActor(s, s.actors[i], i)])
             c == Joined([i \in DOMAIN s.bridge |-> PushMethod(s, s.bridge[i], i)])
             d == Joined([i \in DOMAIN s.ui |-> PushScreen(s, s.ui[i], i)])
             A == CoreRows(s)
             B == Rows("actor", s.actors)
             C == Rows("method", s.bridge)
             D == Rows("screen", s.ui)
             Ta == CoreKeys(s)
             Tb == ActorsKeys(s)
             Tc == MethodsKeys(s)
             Td == ScreensKeys(s)
  <1>1. Decompose(s) = Joined(<<a, b, c, d>>)
    BY DEF Decompose, Each
  <1>2. Laid(a, Ta, A) /\ OfKinds(Ta, {"field", "variant", "gfield"})
    BY CoreLaid DEF Once
  <1>3. Laid(b, Tb, B) /\ OfKinds(Tb, {"handler", "state"})
    BY ActorsLaid DEF Once
  <1>4. Laid(c, Tc, C) /\ OfKinds(Tc, {"param"})
    BY MethodsLaid DEF Once
  <1>5. Laid(d, Td, D) /\ OfKinds(Td, ScreenKinds)
    BY ScreensLaid DEF Once
  <1>6. OfTypes(A, {"appspec", "type", "graph_node", "graph_edge"}) /\ OfTypes(B, {"actor"}) /\ OfTypes(C, {"method"})
        /\ OfTypes(D, {"screen"})
    BY RowsTyped DEF OfTypes, CoreRows
  <1> HIDE DEF a, b, c, d, A, B, C, D, Ta, Tb, Tc, Td
  <1>7. Before(A, B) /\ Before(A, C) /\ Before(A, D) /\ Before(B, C) /\ Before(B, D) /\ Before(C, D)
    BY <1>6 DEF OfTypes, Before
  <1>8. Ta \cap Tb = {} /\ Ta \cap Tc = {} /\ Ta \cap Td = {} /\ Tb \cap Tc = {} /\ Tb \cap Td = {} /\ Tc \cap Td = {}
    BY <1>2, <1>3, <1>4, <1>5 DEF OfKinds, ScreenKinds
  <1>9. Laid(Joined(<<a, b, c, d>>), Ta \union Tb \union Tc \union Td, A \union B \union C \union D)
    BY <1>2, <1>3, <1>4, <1>5, <1>7, <1>8, LaidFour
  <1>10. Ta \union Tb \union Tc \union Td = InnerKeys(s) /\ A \union B \union C \union D = AllRows(s)
    BY DEF InnerKeys, AllRows, A, B, C, D, Ta, Tb, Tc, Td
  <1> QED BY <1>1, <1>9, <1>10

-----------------------------------------------------------------------------
(***************************************************************************)
(* Reading the graph back.  A node of a laid graph that is part of another *)
(* is found by its key.                                                    *)
(***************************************************************************)
IsPart(key) == key = Part(key[1], key[2], key[3]) /\ key[2] # "edge"

LEMMA PartsAreInner ==
  ASSUME NEW key, IsPart(key)
  PROVE  ~TopKey(key)
  <1>1. DOMAIN Part(key[1], key[2], key[3]) = 1..3 /\ DOMAIN Key(key[1]) = 1..1
    BY DEF Part, Key
  <1>2. key # Key(key[1])
    <2>1. 3 \in 1..3 /\ 3 \notin 1..1
      OBVIOUS
    <2> QED BY <1>1, <2>1 DEF IsPart
  <1>3. key # Part(key[1], "edge", key[3])
    BY PartFields DEF IsPart
  <1> QED BY <1>2, <1>3 DEF TopKey

LEMMA FoundOnce ==
  ASSUME NEW g, IsList(g.nodes), NEW p \in DOMAIN g.nodes,
         \A q \in DOMAIN g.nodes : g.nodes[q].key = g.nodes[p].key => q = p
  PROVE  NodeAt(g, g.nodes[p].key) = g.nodes[p]
  <1> DEFINE key == g.nodes[p].key
             I == {i \in 1..Len(g.nodes) : g.nodes[i].key = key}
  <1>1. DOMAIN g.nodes = 1..Len(g.nodes) /\ Len(g.nodes) \in Nat
    BY ListProperties
  <1>2. I = {p} /\ p \in Nat
    BY <1>1
  <1>3. Min({p}) = p
    BY <1>2 DEF Min
  <1>4. NodeAt(g, key) = g.nodes[IF I # {} THEN Min(I) ELSE 0]
    BY DEF NodeAt, SelectInSeq
  <1> HIDE DEF I, key
  <1>5. NodeAt(g, key) = g.nodes[p]
    BY <1>2, <1>3, <1>4
  <1> QED BY <1>5 DEF key

LEMMA InnerFound ==
  ASSUME NEW g, NEW T, NEW S, Laid(g, T, S),
         NEW n \in Elements(g.nodes), n.type \in InnerTypes, IsPart(n.key)
  PROVE  n.key \in Keys(g) /\ NodeAt(g, n.key) = n
  <1>1. IsList(g.nodes) /\ (\A m \in Elements(g.nodes) : NodeLaid(m, T, S))
        /\ \A p, q \in DOMAIN g.nodes : p < q => NodesApart(g.nodes[p], g.nodes[q])
    BY DEF Laid, NodesLaid
  <1>2. DOMAIN g.nodes = 1..Len(g.nodes) /\ Len(g.nodes) \in Nat
    BY <1>1, ListProperties
  <1>3. PICK p \in DOMAIN g.nodes : g.nodes[p] = n
    BY DEF Elements, ToSet
  <1>4. ASSUME NEW q \in DOMAIN g.nodes, g.nodes[q].key = n.key PROVE q = p
    <2>1. NodeLaid(g.nodes[q], T, S)
      BY <1>1 DEF Elements, ToSet
    <2>2. g.nodes[q].type \in InnerTypes
      BY <1>4, <2>1, PartsAreInner DEF NodeLaid
    <2>3. ~(p < q) /\ ~(q < p)
      BY <1>1, <1>3, <1>4, <2>2 DEF NodesApart
    <2> QED BY <1>2, <2>3
  <1>5. NodeAt(g, g.nodes[p].key) = g.nodes[p]
    BY <1>1, <1>3, <1>4, FoundOnce
  <1> QED BY <1>3, <1>5 DEF Keys

LEMMA LaidLeadsOnce ==
  ASSUME NEW g, NEW T, NEW S, Laid(g, T, S), NEW owner, NEW predicate \in ChildPredicates
  PROVE  LeadsOnce(g, owner, predicate)
  <1>1. IsList(g.edges) /\ \A p, q \in DOMAIN g.edges : p < q => EdgesApart(g.edges[p], g.edges[q])
    BY DEF Laid, EdgesLaid
  <1>2. DOMAIN g.edges = 1..Len(g.edges) /\ Len(g.edges) \in Nat
    BY <1>1, ListProperties
  <1>3. \A p, q \in DOMAIN g.edges : p # q => EdgesApart(g.edges[p], g.edges[q])
    <2> SUFFICES ASSUME NEW p \in DOMAIN g.edges, NEW q \in DOMAIN g.edges, p # q
                 PROVE  EdgesApart(g.edges[p], g.edges[q])
      OBVIOUS
    <2>1. p < q \/ q < p
      BY <1>2
    <2>2. EdgesApart(g.edges[p], g.edges[q]) \/ EdgesApart(g.edges[q], g.edges[p])
      BY <1>1, <2>1
    <2> QED BY <2>2 DEF EdgesApart
  <1> QED BY <1>3 DEF LeadsOnce, EdgesApart

LEMMA LaidRising ==
  ASSUME NEW g, NEW T, NEW S, Laid(g, T, S), NEW type \in TopTypes
  PROVE  Rising(g, type)
  BY DEF Laid, NodesLaid, NodesApart, Rising

(* What hangs on an owner by one predicate.                                 *)
Hangs(g, nodes) ==
  /\ IsList(nodes) /\ AllInner(nodes) /\ Elements(nodes) \subseteq Elements(g.nodes)
  /\ \A j \in DOMAIN nodes : IsPart(nodes[j].key)

LEMMA LinkEnds ==
  ASSUME NEW owner, NEW predicate, NEW nodes
  PROVE  /\ {e.to : e \in Links(owner, predicate, nodes)} = {nodes[j].key : j \in DOMAIN nodes}
         /\ \A e \in Links(owner, predicate, nodes) : e.predicate = predicate /\ e.from = owner
  <1> DEFINE L == Links(owner, predicate, nodes)
             N == {nodes[j].key : j \in DOMAIN nodes}
  <1>1. \A e \in L : e.predicate = predicate /\ e.from = owner /\ e.to \in N
    BY EdgeFields DEF Links
  <1>2. ASSUME NEW j \in DOMAIN nodes PROVE \E e \in L : e.to = nodes[j].key
    <2>1. Edge(predicate, owner, nodes[j].key) \in L
      BY DEF Links
    <2> HIDE DEF L
    <2> QED BY <2>1, EdgeFields
  <1>3. \A k \in N : \E e \in L : e.to = k
    BY <1>2
  <1> HIDE DEF L, N
  <1>4. {e.to : e \in L} = N
    BY <1>1, <1>3
  <1> QED BY <1>1, <1>4 DEF L, N

LEMMA ChildrenRead ==
  ASSUME NEW g, NEW T, NEW S, Laid(g, T, S), NEW owner, NEW predicate \in ChildPredicates,
         NEW nodes, Hangs(g, nodes), InOrder(nodes),
         {e.to : e \in EdgesFrom(g, owner, predicate)} = {nodes[j].key : j \in DOMAIN nodes}
  PROVE  Children(g, owner, predicate) = nodes
  <1>1. Found(g, nodes)
    <2> SUFFICES ASSUME NEW j \in DOMAIN nodes PROVE nodes[j].key \in Keys(g) /\ NodeAt(g, nodes[j].key) = nodes[j]
      BY DEF Found
    <2>1. nodes[j] \in Elements(g.nodes) /\ nodes[j].type \in InnerTypes /\ IsPart(nodes[j].key)
      BY DEF Hangs, AllInner, Elements, ToSet
    <2> DEFINE n == nodes[j]
    <2> HIDE DEF n
    <2>2. n.key \in Keys(g) /\ NodeAt(g, n.key) = n
      BY <2>1, InnerFound DEF n
    <2> QED BY <2>2 DEF n
  <1>2. LeadsOnce(g, owner, predicate)
    BY LaidLeadsOnce
  <1>3. IsList(g.edges) /\ IsList(nodes)
    BY DEF Laid, IsGraph, Hangs
  <1> QED BY <1>1, <1>2, <1>3, ChildrenOfNode

LEMMA NumberedInOrder ==
  ASSUME NEW nodes, IsList(nodes), Numbered(nodes)
  PROVE  InOrder(nodes)
  <1>1. DOMAIN nodes = 1..Len(nodes) /\ Len(nodes) \in Nat
    BY ListProperties
  <1> QED BY <1>1 DEF InOrder, Numbered

-----------------------------------------------------------------------------
(***************************************************************************)
(* What hangs on what in the graph of a spec: the lists of nodes its       *)
(* owners have, and the edges that lead to parts of others.                *)
(***************************************************************************)
Hanging(owner, predicate, nodes) == [owner |-> Key(owner), predicate |-> predicate, nodes |-> nodes]
TypeHangs(t)   == {Hanging(t.name, "HAS_FIELD", FieldNodes(t.name, "field", t.fields)),
                   Hanging(t.name, "HAS_VARIANT", VariantNodes(t))}
NodeHangs(n)   == {Hanging(n.name, "HAS_FIELD", FieldNodes(n.name, "gfield", n.fields))}
ActorHangs(a)  == {Hanging(a.name, "HAS_HANDLER", HandlerNodes(a)),
                   Hanging(a.name, "HAS_FIELD", FieldNodes(a.name, "state", a.state))}
MethodHangs(m) == {Hanging(m.method, "HAS_FIELD", FieldNodes(m.method, "param", m.params))}
ScreenHangs(v) == {Hanging(v.id, "HAS_ACTION", ActionNodes(v)), Hanging(v.id, "HAS_BINDING", BindingNodes(v)),
                   Hanging(v.id, "HAS_NAVIGATION", MoveNodes(v))}
TypesHang(s)   == UNION {TypeHangs(s.types[i]) : i \in DOMAIN s.types}
NodesHang(s)   == UNION {NodeHangs(s.nodes[i]) : i \in DOMAIN s.nodes}
ActorsHang(s)  == UNION {ActorHangs(s.actors[i]) : i \in DOMAIN s.actors}
MethodsHang(s) == UNION {MethodHangs(s.bridge[i]) : i \in DOMAIN s.bridge}
ScreensHang(s) == UNION {ScreenHangs(s.ui[i]) : i \in DOMAIN s.ui}
AllHanging(s)  == TypesHang(s) \union NodesHang(s) \union ActorsHang(s) \union MethodsHang(s) \union ScreensHang(s)

LinksOf(H) == UNION {Links(x.owner, x.predicate, x.nodes) : x \in H}
PartEdges(E) == {e \in E : e.predicate \in ChildPredicates}

LEMMA LinkPredicates ==
  ASSUME NEW owner, NEW predicate, NEW nodes
  PROVE  /\ predicate \in ChildPredicates => PartEdges(Links(owner, predicate, nodes)) = Links(owner, predicate, nodes)
         /\ predicate \notin ChildPredicates => PartEdges(Links(owner, predicate, nodes)) = {}
  BY LinkEnds DEF PartEdges

LEMMA OnePredicate ==
  ASSUME NEW predicate, predicate \notin ChildPredicates, NEW from, NEW to
  PROVE  PartEdges({Edge(predicate, from, to)}) = {}
  BY EdgeFields DEF PartEdges

LEMMA PartsOfUnion ==
  /\ \A E, F : PartEdges(E \union F) = PartEdges(E) \union PartEdges(F)
  /\ \A E, F, G : PartEdges(E \union F \union G) = PartEdges(E) \union PartEdges(F) \union PartEdges(G)
  BY DEF PartEdges

LEMMA PartsOfFour ==
  \A E, F, G, H : PartEdges(E \union F \union G \union H)
                    = PartEdges(E) \union PartEdges(F) \union PartEdges(G) \union PartEdges(H)
  BY DEF PartEdges

LEMMA PartsOfFive ==
  \A E, F, G, H, I : PartEdges(E \union F \union G \union H \union I)
                       = PartEdges(E) \union PartEdges(F) \union PartEdges(G) \union PartEdges(H) \union PartEdges(I)
  BY DEF PartEdges

LEMMA FieldPartEdges ==
  ASSUME NEW owner, NEW kind, NEW fields
  PROVE  PartEdges(FieldEdges(owner, kind, fields)) = Links(Key(owner), "HAS_FIELD", FieldNodes(owner, kind, fields))
  <1>1. PartEdges(TypedEdges(owner, kind, fields)) = {}
    BY EdgeFields DEF PartEdges, TypedEdges, ChildPredicates
  <1>2. "HAS_FIELD" \in ChildPredicates
    BY DEF ChildPredicates
  <1>3. PartEdges(Links(Key(owner), "HAS_FIELD", FieldNodes(owner, kind, fields)))
          = Links(Key(owner), "HAS_FIELD", FieldNodes(owner, kind, fields))
    BY <1>2, LinkPredicates
  <1>4. PartEdges(FieldEdges(owner, kind, fields))
          = PartEdges(Links(Key(owner), "HAS_FIELD", FieldNodes(owner, kind, fields)))
              \union PartEdges(TypedEdges(owner, kind, fields))
    BY PartsOfUnion DEF FieldEdges
  <1> QED BY <1>1, <1>3, <1>4

LEMMA TypePartEdges ==
  ASSUME NEW s, NEW t
  PROVE  PartEdges(TypeEdges(s, t)) = Links(Key(t.name), "HAS_FIELD", FieldNodes(t.name, "field", t.fields))
                                        \union Links(Key(t.name), "HAS_VARIANT", VariantNodes(t))
  <1>1. PartEdges({Edge("HAS_TYPE", Root(s), Key(t.name))}) = {}
    BY OnePredicate DEF ChildPredicates
  <1>2. "HAS_VARIANT" \in ChildPredicates
    BY DEF ChildPredicates
  <1>3. PartEdges(Links(Key(t.name), "HAS_VARIANT", VariantNodes(t))) = Links(Key(t.name), "HAS_VARIANT", VariantNodes(t))
    BY <1>2, LinkPredicates
  <1>4. PartEdges(TypeEdges(s, t))
          = PartEdges({Edge("HAS_TYPE", Root(s), Key(t.name))}) \union PartEdges(FieldEdges(t.name, "field", t.fields))
              \union PartEdges(Links(Key(t.name), "HAS_VARIANT", VariantNodes(t)))
    BY PartsOfUnion DEF TypeEdges
  <1> QED BY <1>1, <1>3, <1>4, FieldPartEdges

LEMMA GraphNodePartEdges ==
  ASSUME NEW s, NEW n
  PROVE  PartEdges(GraphNodeEdges(s, n)) = Links(Key(n.name), "HAS_FIELD", FieldNodes(n.name, "gfield", n.fields))
  <1>1. PartEdges({Edge("HAS_GRAPH_NODE", Root(s), Key(n.name))}) = {}
    BY OnePredicate DEF ChildPredicates
  <1>2. PartEdges(GraphNodeEdges(s, n))
          = PartEdges({Edge("HAS_GRAPH_NODE", Root(s), Key(n.name))}) \union PartEdges(FieldEdges(n.name, "gfield", n.fields))
    BY PartsOfUnion DEF GraphNodeEdges
  <1> QED BY <1>1, <1>2, FieldPartEdges

LEMMA ActorPartEdges ==
  ASSUME NEW s, NEW a
  PROVE  PartEdges(ActorEdges(s, a)) = Links(Key(a.name), "HAS_HANDLER", HandlerNodes(a))
                                         \union Links(Key(a.name), "HAS_FIELD", FieldNodes(a.name, "state", a.state))
  <1>1. PartEdges({Edge("HAS_ACTOR", Root(s), Key(a.name))}) = {}
    BY OnePredicate DEF ChildPredicates
  <1>2. "HAS_HANDLER" \in ChildPredicates
    BY DEF ChildPredicates
  <1>3. PartEdges(Links(Key(a.name), "HAS_HANDLER", HandlerNodes(a))) = Links(Key(a.name), "HAS_HANDLER", HandlerNodes(a))
    BY <1>2, LinkPredicates
  <1>4. PartEdges(ActorEdges(s, a))
          = PartEdges({Edge("HAS_ACTOR", Root(s), Key(a.name))})
              \union PartEdges(Links(Key(a.name), "HAS_HANDLER", HandlerNodes(a)))
              \union PartEdges(FieldEdges(a.name, "state", a.state))
    BY PartsOfUnion DEF ActorEdges
  <1> QED BY <1>1, <1>3, <1>4, FieldPartEdges

LEMMA MethodPartEdges ==
  ASSUME NEW s, NEW m
  PROVE  PartEdges(MethodEdges(s, m)) = Links(Key(m.method), "HAS_FIELD", FieldNodes(m.method, "param", m.params))
  <1>1. PartEdges({Edge("HAS_METHOD", Root(s), Key(m.method))}) = {}
    BY OnePredicate DEF ChildPredicates
  <1>2. PartEdges(ResultEdges(m)) = {} /\ PartEdges(Dispatched(s, m)) = {}
    BY EdgeFields DEF PartEdges, ResultEdges, Dispatched, ChildPredicates
  <1>3. PartEdges(MethodEdges(s, m))
          = PartEdges({Edge("HAS_METHOD", Root(s), Key(m.method))}) \union PartEdges(FieldEdges(m.method, "param", m.params))
              \union PartEdges(ResultEdges(m)) \union PartEdges(Dispatched(s, m))
    BY PartsOfFour DEF MethodEdges
  <1> QED BY <1>1, <1>2, <1>3, FieldPartEdges

LEMMA TipPartEdges ==
  ASSUME NEW v
  PROVE  /\ PartEdges(Tips(ActionNodes(v), Calls(v))) = {}
         /\ PartEdges(Tips(BindingNodes(v), Binds(v))) = {}
         /\ PartEdges(Tips(MoveNodes(v), Moves(v))) = {}
  <1>1. DOMAIN ActionNodes(v) = DOMAIN v.actions /\ DOMAIN BindingNodes(v) = DOMAIN v.bindings
        /\ DOMAIN MoveNodes(v) = DOMAIN v.navigation
    BY DEF ActionNodes, BindingNodes, MoveNodes
  <1>2. /\ \A j \in DOMAIN v.actions : Calls(v)[j].predicate = "CALLS"
        /\ \A j \in DOMAIN v.bindings : Binds(v)[j].predicate = "BINDS"
        /\ \A j \in DOMAIN v.navigation : Moves(v)[j].predicate = "NAVIGATES_TO"
    BY EdgeFields DEF Calls, Binds, Moves
  <1> QED BY <1>1, <1>2 DEF PartEdges, Tips, ChildPredicates

LEMMA ScreenPartEdges ==
  ASSUME NEW s, NEW v
  PROVE  PartEdges(ScreenEdges(s, v)) =
           Links(Key(v.id), "HAS_ACTION", ActionNodes(v)) \union Links(Key(v.id), "HAS_BINDING", BindingNodes(v))
             \union Links(Key(v.id), "HAS_NAVIGATION", MoveNodes(v)) \union PartEdges(Elements(LayoutOf(v).edges))
  <1>1. PartEdges({Edge("HAS_SCREEN", Root(s), Key(v.id))}) = {}
    BY OnePredicate DEF ChildPredicates
  <1>2. {"HAS_ACTION", "HAS_BINDING", "HAS_NAVIGATION"} \subseteq ChildPredicates
    BY DEF ChildPredicates
  <1>3. /\ PartEdges(ActionEdges(v)) = Links(Key(v.id), "HAS_ACTION", ActionNodes(v))
        /\ PartEdges(BindingEdges(v)) = Links(Key(v.id), "HAS_BINDING", BindingNodes(v))
        /\ PartEdges(MoveEdges(v)) = Links(Key(v.id), "HAS_NAVIGATION", MoveNodes(v))
    <2> DEFINE A == Links(Key(v.id), "HAS_ACTION", ActionNodes(v))
               B == Links(Key(v.id), "HAS_BINDING", BindingNodes(v))
               M == Links(Key(v.id), "HAS_NAVIGATION", MoveNodes(v))
    <2>1. PartEdges(A) = A /\ PartEdges(B) = B /\ PartEdges(M) = M
      BY <1>2, LinkPredicates
    <2>2. /\ PartEdges(ActionEdges(v)) = PartEdges(A) \union PartEdges(Tips(ActionNodes(v), Calls(v)))
          /\ PartEdges(BindingEdges(v)) = PartEdges(B) \union PartEdges(Tips(BindingNodes(v), Binds(v)))
          /\ PartEdges(MoveEdges(v)) = PartEdges(M) \union PartEdges(Tips(MoveNodes(v), Moves(v)))
      BY PartsOfUnion DEF ActionEdges, BindingEdges, MoveEdges
    <2> HIDE DEF A, B, M
    <2>3. PartEdges(ActionEdges(v)) = A /\ PartEdges(BindingEdges(v)) = B /\ PartEdges(MoveEdges(v)) = M
      BY <2>1, <2>2, TipPartEdges
    <2> QED BY <2>3 DEF A, B, M
  <1>4. PartEdges(ScreenEdges(s, v))
          = PartEdges({Edge("HAS_SCREEN", Root(s), Key(v.id))}) \union PartEdges(ActionEdges(v))
              \union PartEdges(BindingEdges(v)) \union PartEdges(MoveEdges(v)) \union PartEdges(Elements(LayoutOf(v).edges))
    <2> DEFINE A == {Edge("HAS_SCREEN", Root(s), Key(v.id))}
               B == Elements(LayoutOf(v).edges)
    <2>1. ScreenEdges(s, v) = A \union ActionEdges(v) \union BindingEdges(v) \union MoveEdges(v) \union B
      BY DEF ScreenEdges
    <2> HIDE DEF A, B
    <2>2. PartEdges(ScreenEdges(s, v))
            = PartEdges(A) \union PartEdges(ActionEdges(v)) \union PartEdges(BindingEdges(v))
                \union PartEdges(MoveEdges(v)) \union PartEdges(B)
      BY <2>1, PartsOfFive
    <2> QED BY <2>2 DEF A, B
  <1> QED BY <1>1, <1>3, <1>4

(* All of them, owner by owner.                                             *)
LEMMA HangingFields ==
  ASSUME NEW owner, NEW predicate, NEW nodes
  PROVE  /\ Hanging(owner, predicate, nodes).owner = Key(owner)
         /\ Hanging(owner, predicate, nodes).predicate = predicate
         /\ Hanging(owner, predicate, nodes).nodes = nodes
  BY DEF Hanging

LEMMA LinksOfOne ==
  ASSUME NEW owner, NEW predicate, NEW nodes
  PROVE  LinksOf({Hanging(owner, predicate, nodes)}) = Links(Key(owner), predicate, nodes)
  BY HangingFields DEF LinksOf

LEMMA LinksOfTwo ==
  ASSUME NEW x, NEW y
  PROVE  LinksOf({x, y}) = LinksOf({x}) \union LinksOf({y})
  BY DEF LinksOf

LEMMA LinksOfThree ==
  \A A, B, C : LinksOf(A \union B \union C) = LinksOf(A) \union LinksOf(B) \union LinksOf(C)
  BY DEF LinksOf

HangEach(seq, E, H, R) == \A i \in DOMAIN seq : PartEdges(E[i]) = LinksOf(H[i]) \union R[i]

LEMMA EachHangs ==
  ASSUME NEW seq, NEW E, NEW H, NEW R, HangEach(seq, E, H, R)
  PROVE  PartEdges(Gathered(seq, E)) = LinksOf(Gathered(seq, H)) \union Gathered(seq, R)
  <1>1. ASSUME NEW e \in PartEdges(Gathered(seq, E))
        PROVE  e \in LinksOf(Gathered(seq, H)) \union Gathered(seq, R)
    <2>1. PICK i \in DOMAIN seq : e \in PartEdges(E[i])
      BY DEF PartEdges, Gathered
    <2>2. e \in LinksOf(H[i]) \/ e \in R[i]
      BY <2>1 DEF HangEach
    <2> QED BY <2>2 DEF LinksOf, Gathered
  <1>2. ASSUME NEW e \in LinksOf(Gathered(seq, H)) \union Gathered(seq, R)
        PROVE  e \in PartEdges(Gathered(seq, E))
    <2>1. PICK i \in DOMAIN seq : e \in LinksOf(H[i]) \/ e \in R[i]
      BY DEF LinksOf, Gathered
    <2>2. e \in PartEdges(E[i])
      BY <2>1 DEF HangEach
    <2> QED BY <2>2 DEF PartEdges, Gathered
  <1> QED BY <1>1, <1>2

LEMMA TypesPartEdges ==
  ASSUME NEW s
  PROVE  PartEdges(TypesEdges(s)) = LinksOf(TypesHang(s))
  <1> DEFINE I == DOMAIN s.types
             E == [i \in I |-> TypeEdges(s, s.types[i])]
             H == [i \in I |-> TypeHangs(s.types[i])]
             R == [i \in I |-> {}]
  <1>1. ASSUME NEW t PROVE PartEdges(TypeEdges(s, t)) = LinksOf(TypeHangs(t))
    <2> DEFINE a == Hanging(t.name, "HAS_FIELD", FieldNodes(t.name, "field", t.fields))
               b == Hanging(t.name, "HAS_VARIANT", VariantNodes(t))
    <2>1. PartEdges(TypeEdges(s, t)) = LinksOf({a}) \union LinksOf({b})
      BY TypePartEdges, LinksOfOne
    <2>2. TypeHangs(t) = {a, b}
      BY DEF TypeHangs
    <2> HIDE DEF a, b
    <2> QED BY <2>1, <2>2, LinksOfTwo
  <1>2. HangEach(s.types, E, H, R)
    BY <1>1 DEF HangEach
  <1>3. Gathered(s.types, E) = TypesEdges(s) /\ Gathered(s.types, H) = TypesHang(s) /\ Gathered(s.types, R) = {}
    BY DEF TypesEdges, TypesHang, Gathered
  <1> HIDE DEF E, H, R, I
  <1>4. PartEdges(Gathered(s.types, E)) = LinksOf(Gathered(s.types, H)) \union Gathered(s.types, R)
    BY <1>2, EachHangs
  <1> QED BY <1>3, <1>4

LEMMA GraphTypesPartEdges ==
  ASSUME NEW s
  PROVE  PartEdges(GraphTypeEdges(s)) = LinksOf(NodesHang(s))
  <1> DEFINE I == DOMAIN s.nodes
             E == [i \in I |-> GraphNodeEdges(s, s.nodes[i])]
             H == [i \in I |-> NodeHangs(s.nodes[i])]
             R == [i \in I |-> {}]
  <1>1. ASSUME NEW t PROVE PartEdges(GraphNodeEdges(s, t)) = LinksOf(NodeHangs(t))
    BY GraphNodePartEdges, LinksOfOne DEF NodeHangs
  <1>2. HangEach(s.nodes, E, H, R)
    BY <1>1 DEF HangEach
  <1>3. Gathered(s.nodes, E) = GraphTypeEdges(s) /\ Gathered(s.nodes, H) = NodesHang(s) /\ Gathered(s.nodes, R) = {}
    BY DEF GraphTypeEdges, NodesHang, Gathered
  <1> HIDE DEF E, H, R, I
  <1>4. PartEdges(Gathered(s.nodes, E)) = LinksOf(Gathered(s.nodes, H)) \union Gathered(s.nodes, R)
    BY <1>2, EachHangs
  <1> QED BY <1>3, <1>4

LEMMA ActorsPartEdges ==
  ASSUME NEW s
  PROVE  PartEdges(ActorsEdges(s)) = LinksOf(ActorsHang(s))
  <1> DEFINE I == DOMAIN s.actors
             E == [i \in I |-> ActorEdges(s, s.actors[i])]
             H == [i \in I |-> ActorHangs(s.actors[i])]
             R == [i \in I |-> {}]
  <1>1. ASSUME NEW t PROVE PartEdges(ActorEdges(s, t)) = LinksOf(ActorHangs(t))
    <2> DEFINE a == Hanging(t.name, "HAS_HANDLER", HandlerNodes(t))
               b == Hanging(t.name, "HAS_FIELD", FieldNodes(t.name, "state", t.state))
    <2>1. PartEdges(ActorEdges(s, t)) = LinksOf({a}) \union LinksOf({b})
      BY ActorPartEdges, LinksOfOne
    <2>2. ActorHangs(t) = {a, b}
      BY DEF ActorHangs
    <2> HIDE DEF a, b
    <2> QED BY <2>1, <2>2, LinksOfTwo
  <1>2. HangEach(s.actors, E, H, R)
    BY <1>1 DEF HangEach
  <1>3. Gathered(s.actors, E) = ActorsEdges(s) /\ Gathered(s.actors, H) = ActorsHang(s) /\ Gathered(s.actors, R) = {}
    BY DEF ActorsEdges, ActorsHang, Gathered
  <1> HIDE DEF E, H, R, I
  <1>4. PartEdges(Gathered(s.actors, E)) = LinksOf(Gathered(s.actors, H)) \union Gathered(s.actors, R)
    BY <1>2, EachHangs
  <1> QED BY <1>3, <1>4

LEMMA MethodsPartEdges ==
  ASSUME NEW s
  PROVE  PartEdges(MethodsEdges(s)) = LinksOf(MethodsHang(s))
  <1> DEFINE I == DOMAIN s.bridge
             E == [i \in I |-> MethodEdges(s, s.bridge[i])]
             H == [i \in I |-> MethodHangs(s.bridge[i])]
             R == [i \in I |-> {}]
  <1>1. ASSUME NEW t PROVE PartEdges(MethodEdges(s, t)) = LinksOf(MethodHangs(t))
    BY MethodPartEdges, LinksOfOne DEF MethodHangs
  <1>2. HangEach(s.bridge, E, H, R)
    BY <1>1 DEF HangEach
  <1>3. Gathered(s.bridge, E) = MethodsEdges(s) /\ Gathered(s.bridge, H) = MethodsHang(s) /\ Gathered(s.bridge, R) = {}
    BY DEF MethodsEdges, MethodsHang, Gathered
  <1> HIDE DEF E, H, R, I
  <1>4. PartEdges(Gathered(s.bridge, E)) = LinksOf(Gathered(s.bridge, H)) \union Gathered(s.bridge, R)
    BY <1>2, EachHangs
  <1> QED BY <1>3, <1>4

LayoutsEdges(s) == UNION {PartEdges(Elements(LayoutOf(s.ui[i]).edges)) : i \in DOMAIN s.ui}

LEMMA ScreensPartEdges ==
  ASSUME NEW s
  PROVE  PartEdges(ScreensEdges(s)) = LinksOf(ScreensHang(s)) \union LayoutsEdges(s)
  <1> DEFINE E == [i \in DOMAIN s.ui |-> ScreenEdges(s, s.ui[i])]
             H == [i \in DOMAIN s.ui |-> ScreenHangs(s.ui[i])]
             R == [i \in DOMAIN s.ui |-> PartEdges(Elements(LayoutOf(s.ui[i]).edges))]
  <1>1. ASSUME NEW v PROVE PartEdges(ScreenEdges(s, v)) = LinksOf(ScreenHangs(v)) \union PartEdges(Elements(LayoutOf(v).edges))
    <2> DEFINE a == Hanging(v.id, "HAS_ACTION", ActionNodes(v))
               b == Hanging(v.id, "HAS_BINDING", BindingNodes(v))
               c == Hanging(v.id, "HAS_NAVIGATION", MoveNodes(v))
    <2>1. PartEdges(ScreenEdges(s, v))
            = LinksOf({a}) \union LinksOf({b}) \union LinksOf({c}) \union PartEdges(Elements(LayoutOf(v).edges))
      BY ScreenPartEdges, LinksOfOne
    <2>2. ScreenHangs(v) = {a} \union {b} \union {c}
      BY DEF ScreenHangs
    <2> HIDE DEF a, b, c
    <2>3. LinksOf(ScreenHangs(v)) = LinksOf({a}) \union LinksOf({b}) \union LinksOf({c})
      BY <2>2, LinksOfThree
    <2> QED BY <2>1, <2>3
  <1>2. HangEach(s.ui, E, H, R)
    BY <1>1 DEF HangEach
  <1>3. Gathered(s.ui, E) = ScreensEdges(s) /\ Gathered(s.ui, H) = ScreensHang(s) /\ Gathered(s.ui, R) = LayoutsEdges(s)
    BY DEF ScreensEdges, ScreensHang, LayoutsEdges, Gathered
  <1> HIDE DEF E, H, R
  <1>4. PartEdges(Gathered(s.ui, E)) = LinksOf(Gathered(s.ui, H)) \union Gathered(s.ui, R)
    BY <1>2, EachHangs
  <1> QED BY <1>3, <1>4

LEMMA LinksOfFive ==
  \A A, B, C, D, E : LinksOf(A \union B \union C \union D \union E)
                       = LinksOf(A) \union LinksOf(B) \union LinksOf(C) \union LinksOf(D) \union LinksOf(E)
  BY DEF LinksOf

(* The edges of a spec that lead to parts of others.                        *)
LEMMA SpecPartEdges ==
  ASSUME NEW s
  PROVE  PartEdges(SpecEdges(s)) = LinksOf(AllHanging(s)) \union LayoutsEdges(s)
  <1>1. PartEdges(Links(Root(s), "HAS_GRAPH_EDGE", LinkNodes(s))) = {}
    BY LinkPredicates DEF ChildPredicates
  <1>2. PartEdges({}) = {}
    BY DEF PartEdges
  <1>3. PartEdges(CoreEdges(s)) = PartEdges({}) \union PartEdges(TypesEdges(s)) \union PartEdges(GraphTypeEdges(s))
                                    \union PartEdges(Links(Root(s), "HAS_GRAPH_EDGE", LinkNodes(s)))
    BY PartsOfFour DEF CoreEdges
  <1>4. PartEdges(CoreEdges(s)) = LinksOf(TypesHang(s)) \union LinksOf(NodesHang(s))
    BY <1>1, <1>2, <1>3, TypesPartEdges, GraphTypesPartEdges
  <1>5. PartEdges(SpecEdges(s)) = PartEdges(CoreEdges(s)) \union PartEdges(ActorsEdges(s))
                                    \union PartEdges(MethodsEdges(s)) \union PartEdges(ScreensEdges(s))
    BY PartsOfFour DEF SpecEdges
  <1>6. LinksOf(AllHanging(s)) = LinksOf(TypesHang(s)) \union LinksOf(NodesHang(s)) \union LinksOf(ActorsHang(s))
                                   \union LinksOf(MethodsHang(s)) \union LinksOf(ScreensHang(s))
    BY LinksOfFive DEF AllHanging
  <1> QED BY <1>4, <1>5, <1>6, ActorsPartEdges, MethodsPartEdges, ScreensPartEdges

(***************************************************************************)
(* What hangs on an owner is part of it, in its order, and each owner has  *)
(* one list of each kind.                                                  *)
(***************************************************************************)
Proper(x, N) ==
  /\ x.predicate \in ChildPredicates \ {"HAS_LAYOUT", "LAYOUT_CHILD"}
  /\ IsList(x.nodes) /\ AllInner(x.nodes) /\ InOrder(x.nodes) /\ Elements(x.nodes) \subseteq N
  /\ \A j \in DOMAIN x.nodes : IsPart(x.nodes[j].key)
AllProper(H, N) == \A x \in H : Proper(x, N)

LEMMA MadeProper ==
  ASSUME NEW nodes, NEW type \in InnerTypes, NEW owner, NEW kind, kind # "edge", NEW seq, NEW names,
         MadeOf(nodes, type, owner, kind, seq, names), Numbered(nodes),
         NEW N, Elements(nodes) \subseteq N,
         NEW root, NEW predicate \in ChildPredicates \ {"HAS_LAYOUT", "LAYOUT_CHILD"}
  PROVE  Proper(Hanging(root, predicate, nodes), N)
  <1>1. IsList(nodes) /\ PartNodes(owner, kind, nodes, names)
    BY MadeParts
  <1>2. InOrder(nodes)
    BY <1>1, NumberedInOrder
  <1>3. ASSUME NEW j \in DOMAIN nodes PROVE IsPart(nodes[j].key)
    BY <1>1, PartFields DEF PartNodes, IsPart
  <1> QED BY <1>1, <1>2, <1>3, HangingFields DEF Proper, PartNodes

FieldNames(fields) == [j \in DOMAIN fields |-> fields[j].name]

LEMMA FieldsMade ==
  ASSUME NEW owner, NEW kind, NEW fields, IsList(fields)
  PROVE  /\ MadeOf(FieldNodes(owner, kind, fields), "field", owner, kind, fields, FieldNames(fields))
         /\ Numbered(FieldNodes(owner, kind, fields))
  BY NodeFields DEF MadeOf, FieldNodes, FieldNames, Numbered

LEMMA FieldsProper ==
  ASSUME NEW owner, NEW kind, kind # "edge", NEW fields, IsList(fields),
         NEW N, Elements(FieldNodes(owner, kind, fields)) \subseteq N
  PROVE  Proper(Hanging(owner, "HAS_FIELD", FieldNodes(owner, kind, fields)), N)
  <1> DEFINE nodes == FieldNodes(owner, kind, fields)
  <1>1. MadeOf(nodes, "field", owner, kind, fields, FieldNames(fields)) /\ Numbered(nodes)
    BY FieldsMade
  <1>2. "field" \in InnerTypes /\ "HAS_FIELD" \in ChildPredicates \ {"HAS_LAYOUT", "LAYOUT_CHILD"}
    BY DEF InnerTypes, ChildPredicates
  <1> HIDE DEF nodes
  <1>3. Proper(Hanging(owner, "HAS_FIELD", nodes), N)
    BY <1>1, <1>2, MadeProper DEF nodes
  <1> QED BY <1>3 DEF nodes

LEMMA VariantsProper ==
  ASSUME NEW t, IsDomainType(t), NEW N, Elements(VariantNodes(t)) \subseteq N
  PROVE  Proper(Hanging(t.name, "HAS_VARIANT", VariantNodes(t)), N)
  <1> DEFINE nodes == VariantNodes(t)
             names == t.variants
  <1>1. MadeOf(nodes, "variant", t.name, "variant", t.variants, names)
    BY VariantParts
  <1>2. Numbered(nodes)
    BY NodeFields DEF Numbered, VariantNodes
  <1>3. "variant" \in InnerTypes /\ "HAS_VARIANT" \in ChildPredicates \ {"HAS_LAYOUT", "LAYOUT_CHILD"} /\ "variant" # "edge"
    BY DEF InnerTypes, ChildPredicates
  <1> HIDE DEF nodes, names
  <1>4. Proper(Hanging(t.name, "HAS_VARIANT", nodes), N)
    BY <1>1, <1>2, <1>3, MadeProper DEF nodes
  <1> QED BY <1>4 DEF nodes

LEMMA HandlersProper ==
  ASSUME NEW a, IsActor(a), NEW N, Elements(HandlerNodes(a)) \subseteq N
  PROVE  Proper(Hanging(a.name, "HAS_HANDLER", HandlerNodes(a)), N)
  <1> DEFINE nodes == HandlerNodes(a)
             names == a.handlers
  <1>1. MadeOf(nodes, "handler", a.name, "handler", a.handlers, names)
    BY HandlerParts
  <1>2. Numbered(nodes)
    BY NodeFields DEF Numbered, HandlerNodes
  <1>3. "handler" \in InnerTypes /\ "HAS_HANDLER" \in ChildPredicates \ {"HAS_LAYOUT", "LAYOUT_CHILD"} /\ "handler" # "edge"
    BY DEF InnerTypes, ChildPredicates
  <1> HIDE DEF nodes, names
  <1>4. Proper(Hanging(a.name, "HAS_HANDLER", nodes), N)
    BY <1>1, <1>2, <1>3, MadeProper DEF nodes
  <1> QED BY <1>4 DEF nodes

LEMMA ActionsProper ==
  ASSUME NEW v, IsScreen(v), NEW N, Elements(ActionNodes(v)) \subseteq N
  PROVE  Proper(Hanging(v.id, "HAS_ACTION", ActionNodes(v)), N)
  <1> DEFINE nodes == ActionNodes(v)
             names == ActionNames(v)
  <1>1. MadeOf(nodes, "action", v.id, "action", v.actions, names)
    BY ActionParts
  <1>2. Numbered(nodes)
    BY NodeFields DEF Numbered, ActionNodes
  <1>3. "action" \in InnerTypes /\ "HAS_ACTION" \in ChildPredicates \ {"HAS_LAYOUT", "LAYOUT_CHILD"} /\ "action" # "edge"
    BY DEF InnerTypes, ChildPredicates
  <1> HIDE DEF nodes, names
  <1>4. Proper(Hanging(v.id, "HAS_ACTION", nodes), N)
    BY <1>1, <1>2, <1>3, MadeProper DEF nodes
  <1> QED BY <1>4 DEF nodes

LEMMA BindingsProper ==
  ASSUME NEW v, IsScreen(v), NEW N, Elements(BindingNodes(v)) \subseteq N
  PROVE  Proper(Hanging(v.id, "HAS_BINDING", BindingNodes(v)), N)
  <1> DEFINE nodes == BindingNodes(v)
             names == BindingNames(v)
  <1>1. MadeOf(nodes, "binding", v.id, "binding", v.bindings, names)
    BY BindingParts
  <1>2. Numbered(nodes)
    BY NodeFields DEF Numbered, BindingNodes
  <1>3. "binding" \in InnerTypes /\ "HAS_BINDING" \in ChildPredicates \ {"HAS_LAYOUT", "LAYOUT_CHILD"} /\ "binding" # "edge"
    BY DEF InnerTypes, ChildPredicates
  <1> HIDE DEF nodes, names
  <1>4. Proper(Hanging(v.id, "HAS_BINDING", nodes), N)
    BY <1>1, <1>2, <1>3, MadeProper DEF nodes
  <1> QED BY <1>4 DEF nodes

LEMMA MovesProper ==
  ASSUME NEW v, IsScreen(v), NEW N, Elements(MoveNodes(v)) \subseteq N
  PROVE  Proper(Hanging(v.id, "HAS_NAVIGATION", MoveNodes(v)), N)
  <1> DEFINE nodes == MoveNodes(v)
             names == MoveNames(v)
  <1>1. MadeOf(nodes, "navigation", v.id, "navigation", v.navigation, names)
    BY MoveParts
  <1>2. Numbered(nodes)
    BY NodeFields DEF Numbered, MoveNodes
  <1>3. "navigation" \in InnerTypes /\ "HAS_NAVIGATION" \in ChildPredicates \ {"HAS_LAYOUT", "LAYOUT_CHILD"} /\ "navigation" # "edge"
    BY DEF InnerTypes, ChildPredicates
  <1> HIDE DEF nodes, names
  <1>4. Proper(Hanging(v.id, "HAS_NAVIGATION", nodes), N)
    BY <1>1, <1>2, <1>3, MadeProper DEF nodes
  <1> QED BY <1>4 DEF nodes

LEMMA TypesHangProper ==
  ASSUME NEW s, IsAppSpec(s)
  PROVE  AllProper(TypesHang(s), SpecNodes(s))
  <1> SUFFICES ASSUME NEW i \in DOMAIN s.types, NEW x \in TypeHangs(s.types[i]) PROVE Proper(x, SpecNodes(s))
    BY DEF AllProper, TypesHang
  <1> DEFINE t == s.types[i]
  <1>1. IsDomainType(t)
    BY DEF IsAppSpec, Elements, ToSet
  <1>2. TypeNodes(t, i) \subseteq SpecNodes(s)
    BY DEF SpecNodes, CoreNodes, TypesNodes
  <1> HIDE DEF t
  <1>3. Elements(FieldNodes(t.name, "field", t.fields)) \subseteq SpecNodes(s) /\ Elements(VariantNodes(t)) \subseteq SpecNodes(s)
    BY <1>2 DEF TypeNodes
  <1>4. Proper(Hanging(t.name, "HAS_FIELD", FieldNodes(t.name, "field", t.fields)), SpecNodes(s))
    BY <1>1, <1>3, FieldsProper DEF IsDomainType, AreFields
  <1>5. Proper(Hanging(t.name, "HAS_VARIANT", VariantNodes(t)), SpecNodes(s))
    BY <1>1, <1>3, VariantsProper
  <1> QED BY <1>4, <1>5 DEF TypeHangs, t

LEMMA NodesHangProper ==
  ASSUME NEW s, IsAppSpec(s)
  PROVE  AllProper(NodesHang(s), SpecNodes(s))
  <1> SUFFICES ASSUME NEW i \in DOMAIN s.nodes, NEW x \in NodeHangs(s.nodes[i]) PROVE Proper(x, SpecNodes(s))
    BY DEF AllProper, NodesHang
  <1> DEFINE t == s.nodes[i]
  <1>1. IsNodeType(t)
    BY DEF IsAppSpec, Elements, ToSet
  <1>2. GraphNodeNodes(t, i) \subseteq SpecNodes(s)
    BY DEF SpecNodes, CoreNodes, GraphTypeNodes
  <1> HIDE DEF t
  <1>3. Elements(FieldNodes(t.name, "gfield", t.fields)) \subseteq SpecNodes(s)
    BY <1>2 DEF GraphNodeNodes
  <1>4. Proper(Hanging(t.name, "HAS_FIELD", FieldNodes(t.name, "gfield", t.fields)), SpecNodes(s))
    BY <1>1, <1>3, FieldsProper DEF IsNodeType, AreFields
  <1> QED BY <1>4 DEF NodeHangs, t

LEMMA ActorsHangProper ==
  ASSUME NEW s, IsAppSpec(s)
  PROVE  AllProper(ActorsHang(s), SpecNodes(s))
  <1> SUFFICES ASSUME NEW i \in DOMAIN s.actors, NEW x \in ActorHangs(s.actors[i]) PROVE Proper(x, SpecNodes(s))
    BY DEF AllProper, ActorsHang
  <1> DEFINE t == s.actors[i]
  <1>1. IsActor(t)
    BY DEF IsAppSpec, Elements, ToSet
  <1>2. ActorNodes(t, i) \subseteq SpecNodes(s)
    BY DEF SpecNodes, ActorsNodes
  <1> HIDE DEF t
  <1>3. Elements(FieldNodes(t.name, "state", t.state)) \subseteq SpecNodes(s) /\ Elements(HandlerNodes(t)) \subseteq SpecNodes(s)
    BY <1>2 DEF ActorNodes
  <1>4. Proper(Hanging(t.name, "HAS_FIELD", FieldNodes(t.name, "state", t.state)), SpecNodes(s))
    BY <1>1, <1>3, FieldsProper DEF IsActor, AreFields
  <1>5. Proper(Hanging(t.name, "HAS_HANDLER", HandlerNodes(t)), SpecNodes(s))
    BY <1>1, <1>3, HandlersProper
  <1> QED BY <1>4, <1>5 DEF ActorHangs, t

LEMMA MethodsHangProper ==
  ASSUME NEW s, IsAppSpec(s)
  PROVE  AllProper(MethodsHang(s), SpecNodes(s))
  <1> SUFFICES ASSUME NEW i \in DOMAIN s.bridge, NEW x \in MethodHangs(s.bridge[i]) PROVE Proper(x, SpecNodes(s))
    BY DEF AllProper, MethodsHang
  <1> DEFINE t == s.bridge[i]
  <1>1. IsMethod(t)
    BY DEF IsAppSpec, Elements, ToSet
  <1>2. MethodNodes(t, i) \subseteq SpecNodes(s)
    BY DEF SpecNodes, MethodsNodes
  <1> HIDE DEF t
  <1>3. Elements(FieldNodes(t.method, "param", t.params)) \subseteq SpecNodes(s)
    BY <1>2 DEF MethodNodes
  <1>4. Proper(Hanging(t.method, "HAS_FIELD", FieldNodes(t.method, "param", t.params)), SpecNodes(s))
    BY <1>1, <1>3, FieldsProper DEF IsMethod, AreFields
  <1> QED BY <1>4 DEF MethodHangs, t

LEMMA ScreensHangProper ==
  ASSUME NEW s, IsAppSpec(s)
  PROVE  AllProper(ScreensHang(s), SpecNodes(s))
  <1> SUFFICES ASSUME NEW i \in DOMAIN s.ui, NEW x \in ScreenHangs(s.ui[i]) PROVE Proper(x, SpecNodes(s))
    BY DEF AllProper, ScreensHang
  <1> DEFINE t == s.ui[i]
  <1>1. IsScreen(t)
    BY DEF IsAppSpec, Elements, ToSet
  <1>2. ScreenNodes(t, i) \subseteq SpecNodes(s)
    BY DEF SpecNodes, ScreensNodes
  <1> HIDE DEF t
  <1>3. Elements(ActionNodes(t)) \subseteq SpecNodes(s) /\ Elements(BindingNodes(t)) \subseteq SpecNodes(s)
        /\ Elements(MoveNodes(t)) \subseteq SpecNodes(s)
    BY <1>2 DEF ScreenNodes
  <1>4. Proper(Hanging(t.id, "HAS_ACTION", ActionNodes(t)), SpecNodes(s))
    BY <1>1, <1>3, ActionsProper
  <1>5. Proper(Hanging(t.id, "HAS_BINDING", BindingNodes(t)), SpecNodes(s))
    BY <1>1, <1>3, BindingsProper
  <1>6. Proper(Hanging(t.id, "HAS_NAVIGATION", MoveNodes(t)), SpecNodes(s))
    BY <1>1, <1>3, MovesProper
  <1> QED BY <1>4, <1>5, <1>6 DEF ScreenHangs, t

LEMMA AllHangingProper ==
  ASSUME NEW s, IsAppSpec(s)
  PROVE  AllProper(AllHanging(s), SpecNodes(s))
  BY TypesHangProper, NodesHangProper, ActorsHangProper, MethodsHangProper, ScreensHangProper DEF AllProper, AllHanging

\* Each owner has one list by each predicate.
OneHanging(H)    == \A x, y \in H : x.owner = y.owner /\ x.predicate = y.predicate => x = y
OwnersIn(H, N)   == \A x \in H : x.owner \in {Key(name) : name \in N}
ByPredicates(H, P) == \A x \in H : x.predicate \in P

LEMMA KeysEqual == \A a, b : Key(a) = Key(b) => a = b
  BY DEF Key

LEMMA TypesHangOnce ==
  ASSUME NEW s, TypesApart(s)
  PROVE  OneHanging(TypesHang(s)) /\ OwnersIn(TypesHang(s), TypeNames(s)) /\ ByPredicates(TypesHang(s), {"HAS_FIELD", "HAS_VARIANT"})
  <1>1. ASSUME NEW x \in TypesHang(s)
        PROVE  \E i \in DOMAIN s.types : /\ x \in TypeHangs(s.types[i]) /\ x.owner = Key(s.types[i].name) /\ x.predicate \in {"HAS_FIELD", "HAS_VARIANT"}
                 /\ \A y \in TypeHangs(s.types[i]) : x.predicate = y.predicate => x = y
    <2>1. PICK i \in DOMAIN s.types : x \in TypeHangs(s.types[i])
      BY DEF TypesHang
    <2>2. x.owner = Key(s.types[i].name) /\ x.predicate \in {"HAS_FIELD", "HAS_VARIANT"}
      BY <2>1, HangingFields DEF TypeHangs
    <2>3. \A y \in TypeHangs(s.types[i]) : x.predicate = y.predicate => x = y
      BY <2>1, HangingFields DEF TypeHangs
    <2> QED BY <2>1, <2>2, <2>3
  <1>2. ASSUME NEW x \in TypesHang(s), NEW y \in TypesHang(s), x.owner = y.owner, x.predicate = y.predicate PROVE x = y
    <2>1. PICK i \in DOMAIN s.types : /\ x \in TypeHangs(s.types[i]) /\ x.owner = Key(s.types[i].name)
                 /\ \A z \in TypeHangs(s.types[i]) : x.predicate = z.predicate => x = z
      BY <1>1
    <2>2. PICK j \in DOMAIN s.types : y \in TypeHangs(s.types[j]) /\ y.owner = Key(s.types[j].name)
      BY <1>1
    <2>3. i = j
      BY <1>2, <2>1, <2>2, KeysEqual DEF TypesApart
    <2> QED BY <1>2, <2>1, <2>2, <2>3
  <1>3. \A i \in DOMAIN s.types : s.types[i].name \in TypeNames(s)
    BY DEF Elements, ToSet, TypeNames
  <1> QED BY <1>1, <1>2, <1>3 DEF OneHanging, OwnersIn, ByPredicates

LEMMA NodesHangOnce ==
  ASSUME NEW s, NodesOnce(s)
  PROVE  OneHanging(NodesHang(s)) /\ OwnersIn(NodesHang(s), NodeNames(s)) /\ ByPredicates(NodesHang(s), {"HAS_FIELD"})
  <1>1. ASSUME NEW x \in NodesHang(s)
        PROVE  \E i \in DOMAIN s.nodes : /\ x \in NodeHangs(s.nodes[i]) /\ x.owner = Key(s.nodes[i].name) /\ x.predicate \in {"HAS_FIELD"}
                 /\ \A y \in NodeHangs(s.nodes[i]) : x.predicate = y.predicate => x = y
    <2>1. PICK i \in DOMAIN s.nodes : x \in NodeHangs(s.nodes[i])
      BY DEF NodesHang
    <2>2. x.owner = Key(s.nodes[i].name) /\ x.predicate \in {"HAS_FIELD"}
      BY <2>1, HangingFields DEF NodeHangs
    <2>3. \A y \in NodeHangs(s.nodes[i]) : x.predicate = y.predicate => x = y
      BY <2>1, HangingFields DEF NodeHangs
    <2> QED BY <2>1, <2>2, <2>3
  <1>2. ASSUME NEW x \in NodesHang(s), NEW y \in NodesHang(s), x.owner = y.owner, x.predicate = y.predicate PROVE x = y
    <2>1. PICK i \in DOMAIN s.nodes : /\ x \in NodeHangs(s.nodes[i]) /\ x.owner = Key(s.nodes[i].name)
                 /\ \A z \in NodeHangs(s.nodes[i]) : x.predicate = z.predicate => x = z
      BY <1>1
    <2>2. PICK j \in DOMAIN s.nodes : y \in NodeHangs(s.nodes[j]) /\ y.owner = Key(s.nodes[j].name)
      BY <1>1
    <2>3. i = j
      BY <1>2, <2>1, <2>2, KeysEqual DEF NodesOnce
    <2> QED BY <1>2, <2>1, <2>2, <2>3
  <1>3. \A i \in DOMAIN s.nodes : s.nodes[i].name \in NodeNames(s)
    BY DEF Elements, ToSet, NodeNames
  <1> QED BY <1>1, <1>2, <1>3 DEF OneHanging, OwnersIn, ByPredicates

LEMMA ActorsHangOnce ==
  ASSUME NEW s, ActorsOnce(s)
  PROVE  OneHanging(ActorsHang(s)) /\ OwnersIn(ActorsHang(s), {a.name : a \in Elements(s.actors)}) /\ ByPredicates(ActorsHang(s), {"HAS_FIELD", "HAS_HANDLER"})
  <1>1. ASSUME NEW x \in ActorsHang(s)
        PROVE  \E i \in DOMAIN s.actors : /\ x \in ActorHangs(s.actors[i]) /\ x.owner = Key(s.actors[i].name) /\ x.predicate \in {"HAS_FIELD", "HAS_HANDLER"}
                 /\ \A y \in ActorHangs(s.actors[i]) : x.predicate = y.predicate => x = y
    <2>1. PICK i \in DOMAIN s.actors : x \in ActorHangs(s.actors[i])
      BY DEF ActorsHang
    <2>2. x.owner = Key(s.actors[i].name) /\ x.predicate \in {"HAS_FIELD", "HAS_HANDLER"}
      BY <2>1, HangingFields DEF ActorHangs
    <2>3. \A y \in ActorHangs(s.actors[i]) : x.predicate = y.predicate => x = y
      BY <2>1, HangingFields DEF ActorHangs
    <2> QED BY <2>1, <2>2, <2>3
  <1>2. ASSUME NEW x \in ActorsHang(s), NEW y \in ActorsHang(s), x.owner = y.owner, x.predicate = y.predicate PROVE x = y
    <2>1. PICK i \in DOMAIN s.actors : /\ x \in ActorHangs(s.actors[i]) /\ x.owner = Key(s.actors[i].name)
                 /\ \A z \in ActorHangs(s.actors[i]) : x.predicate = z.predicate => x = z
      BY <1>1
    <2>2. PICK j \in DOMAIN s.actors : y \in ActorHangs(s.actors[j]) /\ y.owner = Key(s.actors[j].name)
      BY <1>1
    <2>3. i = j
      BY <1>2, <2>1, <2>2, KeysEqual DEF ActorsOnce
    <2> QED BY <1>2, <2>1, <2>2, <2>3
  <1>3. \A i \in DOMAIN s.actors : s.actors[i].name \in {a.name : a \in Elements(s.actors)}
    BY DEF Elements, ToSet
  <1> QED BY <1>1, <1>2, <1>3 DEF OneHanging, OwnersIn, ByPredicates

LEMMA MethodsHangOnce ==
  ASSUME NEW s, MethodsOnce(s)
  PROVE  OneHanging(MethodsHang(s)) /\ OwnersIn(MethodsHang(s), Methods(s)) /\ ByPredicates(MethodsHang(s), {"HAS_FIELD"})
  <1>1. ASSUME NEW x \in MethodsHang(s)
        PROVE  \E i \in DOMAIN s.bridge : /\ x \in MethodHangs(s.bridge[i]) /\ x.owner = Key(s.bridge[i].method) /\ x.predicate \in {"HAS_FIELD"}
                 /\ \A y \in MethodHangs(s.bridge[i]) : x.predicate = y.predicate => x = y
    <2>1. PICK i \in DOMAIN s.bridge : x \in MethodHangs(s.bridge[i])
      BY DEF MethodsHang
    <2>2. x.owner = Key(s.bridge[i].method) /\ x.predicate \in {"HAS_FIELD"}
      BY <2>1, HangingFields DEF MethodHangs
    <2>3. \A y \in MethodHangs(s.bridge[i]) : x.predicate = y.predicate => x = y
      BY <2>1, HangingFields DEF MethodHangs
    <2> QED BY <2>1, <2>2, <2>3
  <1>2. ASSUME NEW x \in MethodsHang(s), NEW y \in MethodsHang(s), x.owner = y.owner, x.predicate = y.predicate PROVE x = y
    <2>1. PICK i \in DOMAIN s.bridge : /\ x \in MethodHangs(s.bridge[i]) /\ x.owner = Key(s.bridge[i].method)
                 /\ \A z \in MethodHangs(s.bridge[i]) : x.predicate = z.predicate => x = z
      BY <1>1
    <2>2. PICK j \in DOMAIN s.bridge : y \in MethodHangs(s.bridge[j]) /\ y.owner = Key(s.bridge[j].method)
      BY <1>1
    <2>3. i = j
      BY <1>2, <2>1, <2>2, KeysEqual DEF MethodsOnce
    <2> QED BY <1>2, <2>1, <2>2, <2>3
  <1>3. \A i \in DOMAIN s.bridge : s.bridge[i].method \in Methods(s)
    BY DEF Elements, ToSet, Methods
  <1> QED BY <1>1, <1>2, <1>3 DEF OneHanging, OwnersIn, ByPredicates

LEMMA ScreensHangOnce ==
  ASSUME NEW s, ScreensOnce(s)
  PROVE  OneHanging(ScreensHang(s)) /\ OwnersIn(ScreensHang(s), ScreenIds(s)) /\ ByPredicates(ScreensHang(s), {"HAS_ACTION", "HAS_BINDING", "HAS_NAVIGATION"})
  <1>1. ASSUME NEW x \in ScreensHang(s)
        PROVE  \E i \in DOMAIN s.ui : /\ x \in ScreenHangs(s.ui[i]) /\ x.owner = Key(s.ui[i].id) /\ x.predicate \in {"HAS_ACTION", "HAS_BINDING", "HAS_NAVIGATION"}
                 /\ \A y \in ScreenHangs(s.ui[i]) : x.predicate = y.predicate => x = y
    <2>1. PICK i \in DOMAIN s.ui : x \in ScreenHangs(s.ui[i])
      BY DEF ScreensHang
    <2>2. x.owner = Key(s.ui[i].id) /\ x.predicate \in {"HAS_ACTION", "HAS_BINDING", "HAS_NAVIGATION"}
      BY <2>1, HangingFields DEF ScreenHangs
    <2>3. \A y \in ScreenHangs(s.ui[i]) : x.predicate = y.predicate => x = y
      BY <2>1, HangingFields DEF ScreenHangs
    <2> QED BY <2>1, <2>2, <2>3
  <1>2. ASSUME NEW x \in ScreensHang(s), NEW y \in ScreensHang(s), x.owner = y.owner, x.predicate = y.predicate PROVE x = y
    <2>1. PICK i \in DOMAIN s.ui : /\ x \in ScreenHangs(s.ui[i]) /\ x.owner = Key(s.ui[i].id)
                 /\ \A z \in ScreenHangs(s.ui[i]) : x.predicate = z.predicate => x = z
      BY <1>1
    <2>2. PICK j \in DOMAIN s.ui : y \in ScreenHangs(s.ui[j]) /\ y.owner = Key(s.ui[j].id)
      BY <1>1
    <2>3. i = j
      BY <1>2, <2>1, <2>2, KeysEqual DEF ScreensOnce
    <2> QED BY <1>2, <2>1, <2>2, <2>3
  <1>3. \A i \in DOMAIN s.ui : s.ui[i].id \in ScreenIds(s)
    BY DEF Elements, ToSet, ScreenIds
  <1> QED BY <1>1, <1>2, <1>3 DEF OneHanging, OwnersIn, ByPredicates

LEMMA OneOfTwo ==
  ASSUME NEW H, NEW N, OneHanging(H), OwnersIn(H, N), NEW J, NEW M, OneHanging(J), OwnersIn(J, M), N \cap M = {}
  PROVE  OneHanging(H \union J) /\ OwnersIn(H \union J, N \union M)
  <1>1. ASSUME NEW x \in H, NEW y \in J PROVE x.owner # y.owner
    <2>1. PICK a \in N : x.owner = Key(a)
      BY DEF OwnersIn
    <2>2. PICK b \in M : y.owner = Key(b)
      BY DEF OwnersIn
    <2> QED BY <2>1, <2>2, KeysEqual
  <1> QED BY <1>1 DEF OneHanging, OwnersIn

LEMMA OneByPredicate ==
  ASSUME NEW H, NEW P, OneHanging(H), ByPredicates(H, P), NEW J, NEW Q, OneHanging(J), ByPredicates(J, Q), P \cap Q = {}
  PROVE  OneHanging(H \union J)
  <1>1. ASSUME NEW x \in H, NEW y \in J PROVE x.predicate # y.predicate
    BY DEF ByPredicates
  <1> QED BY <1>1 DEF OneHanging

LEMMA AllHangingOnce ==
  ASSUME NEW s, Once(s)
  PROVE  OneHanging(AllHanging(s))
  <1> DEFINE A == {a.name : a \in Elements(s.actors)}
             T == TypesHang(s)
             N == NodesHang(s)
             C == ActorsHang(s)
             M == MethodsHang(s)
             V == ScreensHang(s)
             P == {"HAS_FIELD", "HAS_VARIANT", "HAS_HANDLER"}
             Q == {"HAS_ACTION", "HAS_BINDING", "HAS_NAVIGATION"}
  <1>1. TypeNames(s) \cap NodeNames(s) = {} /\ (TypeNames(s) \union NodeNames(s)) \cap A = {}
        /\ (TypeNames(s) \union NodeNames(s) \union A) \cap Methods(s) = {}
    BY DEF Once, OwnersOnce
  <1>2. OneHanging(T) /\ OwnersIn(T, TypeNames(s)) /\ ByPredicates(T, P)
    BY TypesHangOnce DEF Once, ByPredicates
  <1>3. OneHanging(N) /\ OwnersIn(N, NodeNames(s)) /\ ByPredicates(N, P)
    BY NodesHangOnce DEF Once, ByPredicates
  <1>4. OneHanging(C) /\ OwnersIn(C, A) /\ ByPredicates(C, P)
    BY ActorsHangOnce DEF Once, ByPredicates
  <1>5. OneHanging(M) /\ OwnersIn(M, Methods(s)) /\ ByPredicates(M, P)
    BY MethodsHangOnce DEF Once, ByPredicates
  <1>6. OneHanging(V) /\ ByPredicates(V, Q)
    BY ScreensHangOnce DEF Once, ByPredicates
  <1>7. AllHanging(s) = T \union N \union C \union M \union V /\ P \cap Q = {}
    BY DEF AllHanging
  <1> HIDE DEF A, T, N, C, M, V, P, Q
  <1>8. OneHanging(T \union N) /\ OwnersIn(T \union N, TypeNames(s) \union NodeNames(s))
    BY <1>1, <1>2, <1>3, OneOfTwo
  <1>9. OneHanging(T \union N \union C) /\ OwnersIn(T \union N \union C, TypeNames(s) \union NodeNames(s) \union A)
    BY <1>1, <1>8, <1>4, OneOfTwo
  <1>10. OneHanging(T \union N \union C \union M)
    BY <1>1, <1>9, <1>5, OneOfTwo
  <1>11. ByPredicates(T \union N \union C \union M, P)
    BY <1>2, <1>3, <1>4, <1>5 DEF ByPredicates
  <1>12. OneHanging(T \union N \union C \union M \union V)
    BY <1>10, <1>11, <1>6, <1>7, OneByPredicate
  <1> QED BY <1>12, <1>7

(* Layout edges lead from screens and layouts by their own predicates.      *)
LEMMA LayoutPredicates ==
  ASSUME NEW s, NEW e \in LayoutsEdges(s), IsAppSpec(s)
  PROVE  e.predicate \in {"HAS_LAYOUT", "LAYOUT_CHILD"}
  <1>1. PICK i \in DOMAIN s.ui : e \in Elements(LayoutOf(s.ui[i]).edges)
    BY DEF LayoutsEdges, PartEdges
  <1> DEFINE v == s.ui[i]
  <1>2. v.layout \in Layouts
    BY DEF IsAppSpec, IsScreen, Elements, ToSet
  <1> HIDE DEF v
  <1>3. PushLayout(v.id)[<<v.layout, 0>>] \in LayoutValues(v.id)
    BY <1>2, LayoutPushed DEF Places
  <1>4. e \in AllLayoutEdges(v.id)
    BY <1>1, <1>3, LayoutValueHolds DEF LayoutOf, LayoutGraph, v
  <1> QED BY <1>4, EdgeFields DEF AllLayoutEdges, LayoutTop, LayoutDown

LEMMA DecomposedEdges ==
  ASSUME NEW s, IsAppSpec(s), NEW owner, NEW predicate \in ChildPredicates
  PROVE  EdgesFrom(Decompose(s), owner, predicate)
           = {e \in LinksOf(AllHanging(s)) \union LayoutsEdges(s) : e.predicate = predicate /\ e.from = owner}
  <1>1. Elements(Decompose(s).edges) = SpecEdges(s)
    BY DecomposeHolds DEF Holds
  <1>2. \A e : e \in PartEdges(SpecEdges(s)) <=> e \in SpecEdges(s) /\ e.predicate \in ChildPredicates
    BY DEF PartEdges
  <1> QED BY <1>1, <1>2, SpecPartEdges DEF EdgesFrom

(* What hangs on an owner is what is read from it.                          *)
LEMMA HangingRead ==
  ASSUME NEW s, IsAppSpec(s), Once(s), NEW x \in AllHanging(s)
  PROVE  Children(Decompose(s), x.owner, x.predicate) = x.nodes
  <1> DEFINE g == Decompose(s)
             L == Links(x.owner, x.predicate, x.nodes)
  <1>1. Laid(g, InnerKeys(s), AllRows(s)) /\ Elements(g.nodes) = SpecNodes(s)
    BY DecomposeLaid, DecomposeHolds DEF Holds
  <1>2. Proper(x, SpecNodes(s))
    BY AllHangingProper DEF AllProper
  <1>3. Hangs(g, x.nodes) /\ InOrder(x.nodes) /\ x.predicate \in ChildPredicates
    BY <1>1, <1>2 DEF Proper, Hangs
  <1>4. \A e \in L : e.predicate = x.predicate /\ e.from = x.owner
    BY LinkEnds
  <1>5. ASSUME NEW e \in EdgesFrom(g, x.owner, x.predicate) PROVE e \in L
    <2>1. e \in LinksOf(AllHanging(s)) \union LayoutsEdges(s) /\ e.predicate = x.predicate /\ e.from = x.owner
      BY <1>3, <1>5, DecomposedEdges
    <2>2. e \notin LayoutsEdges(s)
      BY <2>1, <1>2, LayoutPredicates DEF Proper
    <2>3. PICK y \in AllHanging(s) : e \in Links(y.owner, y.predicate, y.nodes)
      BY <2>1, <2>2 DEF LinksOf
    <2>4. y.owner = x.owner /\ y.predicate = x.predicate
      BY <2>1, <2>3, LinkEnds
    <2>5. y = x
      BY <2>4, AllHangingOnce DEF OneHanging
    <2> QED BY <2>3, <2>5
  <1>6. ASSUME NEW e \in L PROVE e \in EdgesFrom(g, x.owner, x.predicate)
    <2>1. e \in LinksOf(AllHanging(s))
      BY DEF LinksOf
    <2>2. e.predicate = x.predicate /\ e.from = x.owner
      BY <1>4
    <2> QED BY <2>1, <2>2, <1>3, DecomposedEdges
  <1>7. {e.to : e \in EdgesFrom(g, x.owner, x.predicate)} = {x.nodes[j].key : j \in DOMAIN x.nodes}
    <2>1. EdgesFrom(g, x.owner, x.predicate) = L
      BY <1>5, <1>6
    <2> QED BY <2>1, LinkEnds
  <1> HIDE DEF g, L
  <1>8. Children(g, x.owner, x.predicate) = x.nodes
    BY <1>1, <1>3, <1>7, ChildrenRead
  <1> QED BY <1>8 DEF g

-----------------------------------------------------------------------------
(***************************************************************************)
(* A layout read back.  What a layout node is rebuilt to, given what those *)
(* in it are rebuilt to.                                                   *)
(***************************************************************************)
Rebuilt(g, f, key) ==
  LET n    == NodeAt(g, key)
      kids == Children(g, key, "LAYOUT_CHILD")
  IN  [kind |-> n.props.kind, action |-> n.props.action, children |-> [i \in DOMAIN kids |-> f[kids[i].key]]]

\* val is what the keys in L are rebuilt to, and no other key has layouts in it.
Rebuilds(g, L, val, rank) ==
  /\ L \subseteq Keys(g) /\ rank \in [L -> Nat]
  /\ \A key \in L : /\ val[key] = Rebuilt(g, val, key)
                    /\ \A j \in DOMAIN Children(g, key, "LAYOUT_CHILD") :
                         LET kid == Children(g, key, "LAYOUT_CHILD")[j].key
                         IN  kid \in L /\ rank[kid] < rank[key]
  /\ \A key \in Keys(g) \ L : DOMAIN Children(g, key, "LAYOUT_CHILD") = {}

LEMMA RebuiltAgrees ==
  ASSUME NEW g, NEW key, NEW f, NEW h,
         \A j \in DOMAIN Children(g, key, "LAYOUT_CHILD") :
           f[Children(g, key, "LAYOUT_CHILD")[j].key] = h[Children(g, key, "LAYOUT_CHILD")[j].key]
  PROVE  Rebuilt(g, f, key) = Rebuilt(g, h, key)
  BY DEF Rebuilt

LEMMA LayoutRebuilt ==
  ASSUME NEW g, NEW L, NEW val, NEW rank, Rebuilds(g, L, val, rank), NEW key \in L
  PROVE  RebuildLayout(g)[key] = val[key]
  <1> DEFINE f == RebuildLayout(g)
             Solves(h) == h = [k \in Keys(g) |-> Rebuilt(g, h, k)]
  <1>1. f = CHOOSE h : Solves(h)
    BY DEF RebuildLayout, Rebuilt
  <1>2. \E h : Solves(h)
    <2> DEFINE w == [k \in Keys(g) |-> IF k \in L THEN val[k] ELSE Rebuilt(g, val, k)]
    <2>1. ASSUME NEW k \in Keys(g) PROVE w[k] = Rebuilt(g, w, k)
      <3>1. CASE k \in L
        <4>1. \A j \in DOMAIN Children(g, k, "LAYOUT_CHILD") :
                val[Children(g, k, "LAYOUT_CHILD")[j].key] = w[Children(g, k, "LAYOUT_CHILD")[j].key]
          BY <3>1 DEF Rebuilds
        <4>2. w[k] = Rebuilt(g, val, k)
          BY <3>1 DEF Rebuilds
        <4> HIDE DEF w
        <4>3. Rebuilt(g, val, k) = Rebuilt(g, w, k)
          BY <4>1, RebuiltAgrees
        <4> QED BY <4>2, <4>3
      <3>2. CASE k \notin L
        <4>1. \A j \in DOMAIN Children(g, k, "LAYOUT_CHILD") :
                val[Children(g, k, "LAYOUT_CHILD")[j].key] = w[Children(g, k, "LAYOUT_CHILD")[j].key]
          BY <3>2 DEF Rebuilds
        <4>2. w[k] = Rebuilt(g, val, k)
          BY <3>2
        <4> HIDE DEF w
        <4>3. Rebuilt(g, val, k) = Rebuilt(g, w, k)
          BY <4>1, RebuiltAgrees
        <4> QED BY <4>2, <4>3
      <3> QED BY <3>1, <3>2
    <2>2. w = [k \in Keys(g) |-> w[k]]
      OBVIOUS
    <2> HIDE DEF w
    <2>3. Solves(w)
      BY <2>1, <2>2
    <2> QED BY <2>3
  <1>3. Solves(f)
    BY <1>1, <1>2
  <1>4. \A k \in Keys(g) : f[k] = Rebuilt(g, f, k)
    BY <1>3
  <1> HIDE DEF f, Solves
  <1> DEFINE S == {n \in Nat : \A k \in L : rank[k] < n => f[k] = val[k]}
  <1>5. Nat \subseteq S
    <2>1. 0 \in S
      BY DEF Rebuilds
    <2>2. ASSUME NEW n \in Nat, n \in S PROVE n + 1 \in S
      <3>1. ASSUME NEW k \in L, rank[k] < n + 1 PROVE f[k] = val[k]
        <4>1. rank[k] \in Nat /\ \A x \in L : rank[x] \in Nat
          BY DEF Rebuilds
        <4>2. ASSUME NEW j \in DOMAIN Children(g, k, "LAYOUT_CHILD")
              PROVE  f[Children(g, k, "LAYOUT_CHILD")[j].key] = val[Children(g, k, "LAYOUT_CHILD")[j].key]
          <5> DEFINE x == Children(g, k, "LAYOUT_CHILD")[j].key
          <5>1. x \in L /\ rank[x] < rank[k]
            BY DEF Rebuilds
          <5> HIDE DEF x
          <5>2. rank[x] < n
            BY <3>1, <4>1, <5>1
          <5> QED BY <2>2, <5>1, <5>2 DEF x
        <4>3. Rebuilt(g, f, k) = Rebuilt(g, val, k)
          BY <4>2, RebuiltAgrees
        <4>4. f[k] = Rebuilt(g, f, k) /\ val[k] = Rebuilt(g, val, k)
          BY <1>4 DEF Rebuilds
        <4> QED BY <4>3, <4>4
      <3> QED BY <3>1
    <2> HIDE DEF S
    <2>3. \A n \in Nat : n \in S => n + 1 \in S
      BY <2>2
    <2> QED BY <2>1, <2>3, NaturalsInSet
  <1>6. rank[key] \in Nat /\ rank[key] + 1 \in Nat /\ rank[key] < rank[key] + 1
    BY DEF Rebuilds
  <1>7. f[key] = val[key]
    BY <1>5, <1>6
  <1> QED BY <1>7 DEF f

(***************************************************************************)
(* The layout of a screen, as one of its charts has it.                    *)
(***************************************************************************)
PlacesOf(v) == Span(0, LayoutNext(v.id, v.layout, 0))
IsChartOf(v, p) ==
  Chart(v.id, LayoutOf(v), v.layout, Len(v.layout.children), 0, LayoutNext(v.id, v.layout, 0), p[1], p[2])
ChartOf(v)  == CHOOSE p : IsChartOf(v, p)
ShownAt(v)  == ChartOf(v)[1]
BelowAt(v)  == ChartOf(v)[2]
\* The layouts in the one at a place.
LayoutsAt(v, i) == [j \in DOMAIN BelowAt(v)[i] |-> LayoutNode(v.id, ShownAt(v)[BelowAt(v)[i][j]], BelowAt(v)[i][j])]

LEMMA ScreenChart ==
  ASSUME NEW v, IsScreen(v)
  PROVE  /\ ShownAt(v) \in [PlacesOf(v) -> Layouts] /\ 0 \in PlacesOf(v) /\ ShownAt(v)[0] = v.layout
         /\ \A i \in PlacesOf(v) : Row(ShownAt(v), BelowAt(v)[i], i, Len(ShownAt(v)[i].children), LayoutNext(v.id, v.layout, 0))
         /\ Elements(LayoutOf(v).nodes) = {LayoutNode(v.id, ShownAt(v)[i], i) : i \in PlacesOf(v)}
         /\ Elements(LayoutOf(v).edges) = {LayoutTop(v.id, 0)}
              \union UNION {{LayoutDown(v.id, i, BelowAt(v)[i][j]) : j \in DOMAIN BelowAt(v)[i]} : i \in PlacesOf(v)}
  <1> DEFINE next == LayoutNext(v.id, v.layout, 0)
  <1>1. v.layout \in Layouts /\ 0 \in Nat
    BY DEF IsScreen
  <1>2. Drawn(v.id, LayoutGraph(v.id, v.layout, 0), v.layout, Len(v.layout.children), 0, next)
    BY <1>1, LayoutDrawn
  <1>3. PICK h, c : Chart(v.id, LayoutOf(v), v.layout, Len(v.layout.children), 0, next, h, c)
    BY <1>2 DEF Drawn, LayoutOf
  <1>4. IsChartOf(v, <<h, c>>)
    BY <1>3 DEF IsChartOf
  <1>5. IsChartOf(v, ChartOf(v))
    BY <1>4 DEF ChartOf
  <1>6. Chart(v.id, LayoutOf(v), v.layout, Len(v.layout.children), 0, next, ShownAt(v), BelowAt(v))
    BY <1>5 DEF IsChartOf, ShownAt, BelowAt
  <1> HIDE DEF next
  <1>7. Charted(v.layout, Len(v.layout.children), 0, next, ShownAt(v), BelowAt(v))
        /\ Elements(LayoutOf(v).nodes) = {LayoutNode(v.id, ShownAt(v)[i], i) : i \in Span(0, next)}
        /\ Elements(LayoutOf(v).edges) = Tops(v.id, 0) \union Downs(v.id, BelowAt(v), 0, next)
    BY <1>6 DEF Chart
  <1>8. ShownAt(v) \in [Span(0, next) -> Layouts] /\ ShownAt(v)[0] = v.layout /\ 0 \in Span(0, next)
    BY <1>7 DEF Charted, Span
  <1>9. \A i \in Span(0, next) : Row(ShownAt(v), BelowAt(v)[i], i, Len(ShownAt(v)[i].children), next)
    BY <1>7, <1>8 DEF Charted
  <1>10. Span(0, next) = PlacesOf(v)
    BY DEF PlacesOf, next
  <1>11. Elements(LayoutOf(v).edges) = {LayoutTop(v.id, 0)}
           \union UNION {{LayoutDown(v.id, i, BelowAt(v)[i][j]) : j \in DOMAIN BelowAt(v)[i]} : i \in PlacesOf(v)}
    BY <1>7, <1>10 DEF Tops, Downs
  <1> QED BY <1>7, <1>8, <1>9, <1>10, <1>11 DEF next

LEMMA LayoutKeyFields ==
  \A screen, i : LayoutKey(screen, i)[1] = screen /\ LayoutKey(screen, i)[3] = i /\ IsPart(LayoutKey(screen, i))
                 /\ \A owner : LayoutKey(screen, i) # Key(owner)
  <1> SUFFICES ASSUME NEW screen, NEW i
               PROVE  LayoutKey(screen, i)[1] = screen /\ LayoutKey(screen, i)[3] = i /\ IsPart(LayoutKey(screen, i))
                      /\ \A owner : LayoutKey(screen, i) # Key(owner)
    OBVIOUS
  <1>1. LayoutKey(screen, i)[1] = screen /\ LayoutKey(screen, i)[3] = i /\ IsPart(LayoutKey(screen, i))
    BY PartFields DEF LayoutKey, IsPart
  <1>2. ~TopKey(LayoutKey(screen, i))
    BY <1>1, PartsAreInner
  <1> QED BY <1>1, <1>2, KeyIsTop

\* Which edges lead from a screen, or from a place in its layout, to layouts.
LEMMA LayoutEdgesFrom ==
  ASSUME NEW s, IsAppSpec(s), ScreensOnce(s), NEW v \in Elements(s.ui)
  PROVE  /\ EdgesFrom(Decompose(s), Key(v.id), "HAS_LAYOUT") = {LayoutTop(v.id, 0)}
         /\ \A i \in PlacesOf(v) : EdgesFrom(Decompose(s), LayoutKey(v.id, i), "LAYOUT_CHILD")
                                     = {LayoutDown(v.id, i, BelowAt(v)[i][j]) : j \in DOMAIN BelowAt(v)[i]}
  <1> DEFINE g == Decompose(s)
             D(i) == {LayoutDown(v.id, i, BelowAt(v)[i][j]) : j \in DOMAIN BelowAt(v)[i]}
  <1>1. IsScreen(v)
    BY DEF IsAppSpec
  <1>2. PICK k \in DOMAIN s.ui : s.ui[k] = v
    BY DEF Elements, ToSet
  <1>3. ASSUME NEW e \in LinksOf(AllHanging(s)) PROVE e.predicate \notin {"HAS_LAYOUT", "LAYOUT_CHILD"}
    <2>1. PICK x \in AllHanging(s) : e \in Links(x.owner, x.predicate, x.nodes)
      BY DEF LinksOf
    <2>2. Proper(x, SpecNodes(s))
      BY AllHangingProper DEF AllProper
    <2> QED BY <2>1, <2>2, LinkEnds DEF Proper
  <1>4. ASSUME NEW e \in LayoutsEdges(s), e.from[1] = v.id PROVE e \in Elements(LayoutOf(v).edges)
    <2>1. PICK j \in DOMAIN s.ui : e \in Elements(LayoutOf(s.ui[j]).edges)
      BY DEF LayoutsEdges, PartEdges
    <2> DEFINE w == s.ui[j]
    <2>2. w.layout \in Layouts
      BY DEF IsAppSpec, IsScreen, Elements, ToSet
    <2>3. PushLayout(w.id)[<<w.layout, 0>>] \in LayoutValues(w.id)
      BY <2>2, LayoutPushed DEF Places
    <2>4. e \in AllLayoutEdges(w.id)
      BY <2>1, <2>3, LayoutValueHolds DEF LayoutOf, LayoutGraph
    <2> HIDE DEF w
    <2>5. e.from[1] = w.id
      BY <2>4, EdgeFields, LayoutKeyFields, KeyIsTop DEF AllLayoutEdges, LayoutTop, LayoutDown
    <2>6. j = k
      BY <1>2, <1>4, <2>5 DEF w, ScreensOnce
    <2> QED BY <2>1, <2>6, <1>2
  <1>8. Elements(LayoutOf(v).edges) = {LayoutTop(v.id, 0)} \union UNION {D(i) : i \in PlacesOf(v)}
    BY <1>1, ScreenChart
  <1>5. ASSUME NEW e \in Elements(LayoutOf(v).edges) PROVE e \in LayoutsEdges(s)
    <2>1. e \in {LayoutTop(v.id, 0)} \/ \E i \in PlacesOf(v) : e \in D(i)
      BY <1>8
    <2>2. e.predicate \in ChildPredicates
      BY <2>1, EdgeFields DEF LayoutTop, LayoutDown, ChildPredicates
    <2> QED BY <2>2, <1>2 DEF LayoutsEdges, PartEdges
  <1>6. /\ LayoutTop(v.id, 0).from = Key(v.id) /\ LayoutTop(v.id, 0).predicate = "HAS_LAYOUT" /\ Key(v.id)[1] = v.id
        /\ \A i, j : LayoutDown(v.id, i, j).from = LayoutKey(v.id, i) /\ LayoutDown(v.id, i, j).predicate = "LAYOUT_CHILD"
    BY EdgeFields, KeyIsTop DEF LayoutTop, LayoutDown
  <1>7. {"HAS_LAYOUT", "LAYOUT_CHILD"} \subseteq ChildPredicates
    BY DEF ChildPredicates
  <1>9. EdgesFrom(g, Key(v.id), "HAS_LAYOUT") = {LayoutTop(v.id, 0)}
    <2>1. ASSUME NEW e \in EdgesFrom(g, Key(v.id), "HAS_LAYOUT") PROVE e = LayoutTop(v.id, 0)
      <3>1. e \in LinksOf(AllHanging(s)) \union LayoutsEdges(s) /\ e.predicate = "HAS_LAYOUT" /\ e.from = Key(v.id)
        BY <1>7, DecomposedEdges
      <3>2. e \in Elements(LayoutOf(v).edges)
        BY <3>1, <1>3, <1>4, <1>6
      <3> QED BY <3>1, <3>2, <1>8, <1>6
    <2>2. LayoutTop(v.id, 0) \in EdgesFrom(g, Key(v.id), "HAS_LAYOUT")
      <3>1. LayoutTop(v.id, 0) \in LayoutsEdges(s)
        BY <1>5, <1>8
      <3> QED BY <3>1, <1>6, <1>7, DecomposedEdges
    <2> QED BY <2>1, <2>2
  <1>10. ASSUME NEW i \in PlacesOf(v) PROVE EdgesFrom(g, LayoutKey(v.id, i), "LAYOUT_CHILD") = D(i)
    <2>1. ASSUME NEW e \in EdgesFrom(g, LayoutKey(v.id, i), "LAYOUT_CHILD") PROVE e \in D(i)
      <3>1. e \in LinksOf(AllHanging(s)) \union LayoutsEdges(s) /\ e.predicate = "LAYOUT_CHILD" /\ e.from = LayoutKey(v.id, i)
        BY <1>7, DecomposedEdges
      <3>2. e \in Elements(LayoutOf(v).edges)
        BY <3>1, <1>3, <1>4, LayoutKeyFields
      <3>3. PICK k1 \in PlacesOf(v) : e \in D(k1)
        BY <3>1, <3>2, <1>8, <1>6
      <3>4. e.from = LayoutKey(v.id, k1)
        BY <3>3, <1>6
      <3>5. k1 = i
        <4>1. LayoutKey(v.id, k1)[3] = k1 /\ LayoutKey(v.id, i)[3] = i
          BY LayoutKeyFields
        <4> QED BY <3>1, <3>4, <4>1
      <3> QED BY <3>3, <3>5
    <2>2. ASSUME NEW e \in D(i) PROVE e \in EdgesFrom(g, LayoutKey(v.id, i), "LAYOUT_CHILD")
      <3>1. e \in LayoutsEdges(s)
        BY <1>5, <1>8
      <3>2. e.from = LayoutKey(v.id, i) /\ e.predicate = "LAYOUT_CHILD"
        BY <1>6
      <3> QED BY <3>1, <3>2, <1>7, DecomposedEdges
    <2> QED BY <2>1, <2>2
  <1> QED BY <1>9, <1>10

LEMMA LayoutNodesFound ==
  ASSUME NEW s, IsAppSpec(s), Once(s), NEW v \in Elements(s.ui), NEW i \in PlacesOf(v)
  PROVE  LET n == LayoutNode(v.id, ShownAt(v)[i], i)
         IN  /\ n \in SpecNodes(s) /\ n.key = LayoutKey(v.id, i) /\ n.type \in InnerTypes /\ IsPart(n.key)
             /\ LayoutKey(v.id, i) \in Keys(Decompose(s)) /\ NodeAt(Decompose(s), LayoutKey(v.id, i)) = n
  <1> DEFINE n == LayoutNode(v.id, ShownAt(v)[i], i)
  <1>1. IsScreen(v)
    BY DEF IsAppSpec
  <1>2. n \in Elements(LayoutOf(v).nodes)
    BY <1>1, ScreenChart
  <1>3. n \in SpecNodes(s)
    <2>1. PICK k \in DOMAIN s.ui : s.ui[k] = v
      BY DEF Elements, ToSet
    <2>2. n \in ScreenNodes(s.ui[k], k)
      BY <1>2, <2>1 DEF ScreenNodes
    <2> HIDE DEF n
    <2>3. n \in ScreensNodes(s)
      BY <2>2 DEF ScreensNodes
    <2> QED BY <2>3 DEF SpecNodes
  <1>4. n.key = LayoutKey(v.id, i) /\ n.type \in InnerTypes
    BY NodeFields DEF LayoutNode, InnerTypes
  <1>5. IsPart(LayoutKey(v.id, i))
    BY LayoutKeyFields
  <1>6. Laid(Decompose(s), InnerKeys(s), AllRows(s)) /\ Elements(Decompose(s).nodes) = SpecNodes(s)
    BY DecomposeLaid, DecomposeHolds DEF Holds
  <1> HIDE DEF n
  <1>7. n.key \in Keys(Decompose(s)) /\ NodeAt(Decompose(s), n.key) = n
    BY <1>3, <1>4, <1>5, <1>6, InnerFound
  <1> QED BY <1>3, <1>4, <1>5, <1>7 DEF n

LEMMA LayoutsBelowRead ==
  ASSUME NEW s, IsAppSpec(s), Once(s), NEW v \in Elements(s.ui), NEW i \in PlacesOf(v)
  PROVE  Children(Decompose(s), LayoutKey(v.id, i), "LAYOUT_CHILD") = LayoutsAt(v, i)
  <1> DEFINE g == Decompose(s)
             c == BelowAt(v)[i]
             nodes == LayoutsAt(v, i)
             n == Len(ShownAt(v)[i].children)
             next == LayoutNext(v.id, v.layout, 0)
  <1>1. IsScreen(v)
    BY DEF IsAppSpec
  <1>2. Row(ShownAt(v), c, i, n, next) /\ ShownAt(v)[i] \in Layouts
    BY <1>1, ScreenChart
  <1>3. n \in Nat
    <2>1. ShownAt(v)[i].children \in Seq(Layouts)
      BY <1>2, LayoutsAreTrees
    <2> QED BY <2>1
  <1>4. DOMAIN c = 1..n /\ \A j \in 1..n : c[j] \in PlacesOf(v)
    <2>1. \A j \in 1..n : c[j] \in Span(i + 1, next)
      BY <1>2 DEF Row
    <2>2. i \in Nat
      BY DEF PlacesOf, Span
    <2>3. Span(i + 1, next) \subseteq PlacesOf(v)
      BY <2>2 DEF PlacesOf, Span
    <2> QED BY <2>1, <2>3, <1>2 DEF Row
  <1>5. nodes = [j \in 1..n |-> nodes[j]] /\ \A j \in 1..n : nodes[j] = LayoutNode(v.id, ShownAt(v)[c[j]], c[j])
    BY <1>4 DEF LayoutsAt
  <1>6. Laid(g, InnerKeys(s), AllRows(s)) /\ Elements(g.nodes) = SpecNodes(s)
    BY DecomposeLaid, DecomposeHolds DEF Holds
  <1>7. IsList(nodes) /\ DOMAIN nodes = 1..n
    BY <1>3, <1>5, FunctionIsList
  <1>8. ASSUME NEW j \in 1..n
        PROVE  /\ nodes[j] \in SpecNodes(s) /\ nodes[j].key = LayoutKey(v.id, c[j]) /\ nodes[j].type \in InnerTypes
               /\ IsPart(nodes[j].key) /\ nodes[j].order = c[j]
    <2> DEFINE k == c[j]
               m == LayoutNode(v.id, ShownAt(v)[k], k)
    <2>1. k \in PlacesOf(v) /\ nodes[j] = m
      BY <1>4, <1>5
    <2>2. m.order = k
      BY NodeFields DEF LayoutNode
    <2> HIDE DEF k
    <2>3. m \in SpecNodes(s) /\ m.key = LayoutKey(v.id, k) /\ m.type \in InnerTypes /\ IsPart(m.key)
      BY <2>1, LayoutNodesFound
    <2> QED BY <2>1, <2>2, <2>3 DEF k
  <1>9. Hangs(g, nodes)
    BY <1>6, <1>7, <1>8 DEF Hangs, AllInner, Elements, ToSet
  <1>10. InOrder(nodes)
    <2>1. \A j \in 1..n : c[j] \in Nat
      BY <1>4 DEF PlacesOf, Span
    <2>2. \A j, k \in 1..n : j < k => c[j] < c[k]
      BY <1>2 DEF Row
    <2> QED BY <2>1, <2>2, <1>7, <1>8 DEF InOrder
  <1>11. {e.to : e \in EdgesFrom(g, LayoutKey(v.id, i), "LAYOUT_CHILD")} = {nodes[j].key : j \in DOMAIN nodes}
    <2>1. EdgesFrom(g, LayoutKey(v.id, i), "LAYOUT_CHILD") = {LayoutDown(v.id, i, c[j]) : j \in 1..n}
      <3>1. ScreensOnce(s)
        BY DEF Once
      <3>2. EdgesFrom(g, LayoutKey(v.id, i), "LAYOUT_CHILD")
              = {LayoutDown(v.id, i, BelowAt(v)[i][j]) : j \in DOMAIN BelowAt(v)[i]}
        BY <3>1, LayoutEdgesFrom
      <3> QED BY <3>2, <1>4
    <2>2. \A j : LayoutDown(v.id, i, j).to = LayoutKey(v.id, j)
      BY EdgeFields DEF LayoutDown
    <2> HIDE DEF g, nodes
    <2>3. {e.to : e \in EdgesFrom(g, LayoutKey(v.id, i), "LAYOUT_CHILD")} = {LayoutKey(v.id, c[j]) : j \in 1..n}
      BY <2>1, <2>2
    <2> QED BY <2>3, <1>7, <1>8
  <1>12. "LAYOUT_CHILD" \in ChildPredicates
    BY DEF ChildPredicates
  <1> HIDE DEF g, nodes
  <1>13. Children(g, LayoutKey(v.id, i), "LAYOUT_CHILD") = nodes
    BY <1>6, <1>9, <1>10, <1>11, <1>12, ChildrenRead
  <1> QED BY <1>13 DEF g, nodes

LEMMA TopLayoutRead ==
  ASSUME NEW s, IsAppSpec(s), Once(s), NEW v \in Elements(s.ui)
  PROVE  Children(Decompose(s), Key(v.id), "HAS_LAYOUT") = <<LayoutNode(v.id, v.layout, 0)>>
  <1> DEFINE g == Decompose(s)
             n == LayoutNode(v.id, v.layout, 0)
             nodes == <<n>>
  <1>1. 0 \in PlacesOf(v) /\ ShownAt(v)[0] = v.layout
    BY ScreenChart DEF IsAppSpec
  <1>2. n \in SpecNodes(s) /\ n.key = LayoutKey(v.id, 0) /\ n.type \in InnerTypes /\ IsPart(n.key)
    BY <1>1, LayoutNodesFound
  <1>3. Laid(g, InnerKeys(s), AllRows(s)) /\ Elements(g.nodes) = SpecNodes(s)
    BY DecomposeLaid, DecomposeHolds DEF Holds
  <1>4. n.order = 0
    BY NodeFields DEF LayoutNode
  <1>5. EdgesFrom(g, Key(v.id), "HAS_LAYOUT") = {LayoutTop(v.id, 0)} /\ LayoutTop(v.id, 0).to = n.key
    BY <1>2, LayoutEdgesFrom, EdgeFields DEF Once, LayoutTop
  <1> HIDE DEF n, g
  <1>6. Hangs(g, nodes) /\ InOrder(nodes) /\ {nodes[j].key : j \in DOMAIN nodes} = {n.key}
    BY <1>2, <1>3, <1>4 DEF Hangs, InOrder, AllInner, IsList, Elements, ToSet
  <1>7. {e.to : e \in EdgesFrom(g, Key(v.id), "HAS_LAYOUT")} = {nodes[j].key : j \in DOMAIN nodes}
    BY <1>5, <1>6
  <1>8. "HAS_LAYOUT" \in ChildPredicates
    BY DEF ChildPredicates
  <1> HIDE DEF nodes
  <1>9. Children(g, Key(v.id), "HAS_LAYOUT") = nodes
    BY <1>3, <1>6, <1>7, <1>8, ChildrenRead
  <1> QED BY <1>9 DEF nodes, n, g

(* The layouts of all the screens, by their keys.                           *)
LayoutPlaces(s) == UNION {{LayoutKey(v.id, i) : i \in PlacesOf(v)} : v \in Elements(s.ui)}
ScreenOf(s, key) == CHOOSE v \in Elements(s.ui) : v.id = key[1]
Shown(s) == [key \in LayoutPlaces(s) |-> ShownAt(ScreenOf(s, key))[key[3]]]
Depths(s) == [key \in LayoutPlaces(s) |-> Depth[Shown(s)[key]]]

LEMMA ShownOnce ==
  ASSUME NEW s, IsAppSpec(s), ScreensOnce(s), NEW v \in Elements(s.ui), NEW i \in PlacesOf(v)
  PROVE  LayoutKey(v.id, i) \in LayoutPlaces(s) /\ Shown(s)[LayoutKey(v.id, i)] = ShownAt(v)[i] /\ ShownAt(v)[i] \in Layouts
  <1>1. IsScreen(v)
    BY DEF IsAppSpec
  <1>2. LayoutKey(v.id, i) \in LayoutPlaces(s)
    BY DEF LayoutPlaces
  <1>3. LayoutKey(v.id, i)[1] = v.id /\ LayoutKey(v.id, i)[3] = i
    BY LayoutKeyFields
  <1>4. ASSUME NEW w \in Elements(s.ui), w.id = v.id PROVE w = v
    BY <1>4 DEF ScreensOnce, Elements, ToSet
  <1>5. ScreenOf(s, LayoutKey(v.id, i)) = v
    BY <1>3, <1>4 DEF ScreenOf
  <1>6. Shown(s)[LayoutKey(v.id, i)] = ShownAt(v)[i]
    BY <1>2, <1>3, <1>5 DEF Shown
  <1> QED BY <1>1, <1>2, <1>6, ScreenChart

LEMMA NoLayoutsBelow ==
  ASSUME NEW s, IsAppSpec(s), Once(s), NEW key, key \notin LayoutPlaces(s)
  PROVE  Children(Decompose(s), key, "LAYOUT_CHILD") = <<>>
  <1> DEFINE g == Decompose(s)
  <1>1. Laid(g, InnerKeys(s), AllRows(s))
    BY DecomposeLaid
  <1>2. "LAYOUT_CHILD" \in ChildPredicates
    BY DEF ChildPredicates
  <1>3. EdgesFrom(g, key, "LAYOUT_CHILD") = {}
    <2> SUFFICES ASSUME NEW e \in EdgesFrom(g, key, "LAYOUT_CHILD") PROVE FALSE
      OBVIOUS
    <2>1. e \in LinksOf(AllHanging(s)) \union LayoutsEdges(s) /\ e.predicate = "LAYOUT_CHILD" /\ e.from = key
      BY <1>2, DecomposedEdges
    <2>2. e \notin LinksOf(AllHanging(s))
      <3> SUFFICES ASSUME NEW x \in AllHanging(s), e \in Links(x.owner, x.predicate, x.nodes) PROVE FALSE
        BY DEF LinksOf
      <3>1. Proper(x, SpecNodes(s))
        BY AllHangingProper DEF AllProper
      <3> QED BY <2>1, <3>1, LinkEnds DEF Proper
    <2>3. PICK k \in DOMAIN s.ui : e \in Elements(LayoutOf(s.ui[k]).edges)
      BY <2>1, <2>2 DEF LayoutsEdges, PartEdges
    <2> DEFINE v == s.ui[k]
    <2>4. v \in Elements(s.ui) /\ IsScreen(v)
      BY DEF IsAppSpec, Elements, ToSet
    <2> HIDE DEF v
    <2>5. e \in {LayoutTop(v.id, 0)} \/ \E i \in PlacesOf(v) : e \in {LayoutDown(v.id, i, BelowAt(v)[i][j]) : j \in DOMAIN BelowAt(v)[i]}
      <3>1. e \in Elements(LayoutOf(v).edges)
        BY <2>3 DEF v
      <3>2. Elements(LayoutOf(v).edges) = {LayoutTop(v.id, 0)}
              \union UNION {{LayoutDown(v.id, i, BelowAt(v)[i][j]) : j \in DOMAIN BelowAt(v)[i]} : i \in PlacesOf(v)}
        BY <2>4, ScreenChart
      <3> QED BY <3>1, <3>2
    <2>6. \E i \in PlacesOf(v) : key = LayoutKey(v.id, i)
      BY <2>1, <2>5, EdgeFields DEF LayoutTop, LayoutDown
    <2> QED BY <2>4, <2>6 DEF LayoutPlaces
  <1>4. Hangs(g, <<>>) /\ InOrder(<<>>) /\ DOMAIN (<<>>) = {}
    BY DEF Hangs, InOrder, AllInner, IsList, Elements, ToSet
  <1> DEFINE none == <<>>
  <1>5. {e.to : e \in EdgesFrom(g, key, "LAYOUT_CHILD")} = {none[j].key : j \in DOMAIN none}
    BY <1>3, <1>4
  <1> HIDE DEF g, none
  <1>6. Hangs(g, none) /\ InOrder(none)
    BY <1>4 DEF none
  <1>7. Children(g, key, "LAYOUT_CHILD") = none
    BY <1>1, <1>2, <1>5, <1>6, ChildrenRead
  <1> QED BY <1>7 DEF g, none

LEMMA ShownRebuilt ==
  ASSUME NEW s, IsAppSpec(s), Once(s), NEW v \in Elements(s.ui), NEW i \in PlacesOf(v)
  PROVE  LET g    == Decompose(s)
             key  == LayoutKey(v.id, i)
             kids == Children(g, key, "LAYOUT_CHILD")
         IN  /\ Shown(s)[key] = Rebuilt(g, Shown(s), key)
             /\ \A j \in DOMAIN kids : kids[j].key \in LayoutPlaces(s) /\ Depths(s)[kids[j].key] < Depths(s)[key]
  <1> DEFINE g == Decompose(s)
             key == LayoutKey(v.id, i)
             kids == Children(g, key, "LAYOUT_CHILD")
             c == BelowAt(v)[i]
             l == ShownAt(v)[i]
             n == Len(l.children)
             next == LayoutNext(v.id, v.layout, 0)
  <1>1. IsScreen(v) /\ ScreensOnce(s)
    BY DEF IsAppSpec, Once
  <1>2. Row(ShownAt(v), c, i, n, next) /\ l \in Layouts
    BY <1>1, ScreenChart
  <1>3. l = [kind |-> l.kind, action |-> l.action, children |-> l.children] /\ l.children \in Seq(Layouts)
        /\ (\A d \in Elements(l.children) : Depth[d] < Depth[l])
    BY <1>2, LayoutsAreTrees
  <1>4. l.children = [j \in 1..n |-> l.children[j]] /\ \A j \in 1..n : l.children[j] \in Elements(l.children)
    BY <1>3 DEF Elements, ToSet
  <1>5. DOMAIN c = 1..n /\ \A j \in 1..n : c[j] \in PlacesOf(v) /\ ShownAt(v)[c[j]] = l.children[j]
    <2>1. \A j \in 1..n : c[j] \in Span(i + 1, next)
      BY <1>2 DEF Row
    <2>2. i \in Nat
      BY DEF PlacesOf, Span
    <2>3. Span(i + 1, next) \subseteq PlacesOf(v)
      BY <2>2 DEF PlacesOf, Span
    <2> QED BY <2>1, <2>3, <1>2 DEF Row
  <1>6. kids = LayoutsAt(v, i)
    BY LayoutsBelowRead
  <1>7. DOMAIN kids = 1..n /\ \A j \in 1..n : kids[j].key = LayoutKey(v.id, c[j])
    <2>1. \A j \in 1..n : kids[j] = LayoutNode(v.id, ShownAt(v)[c[j]], c[j])
      BY <1>5, <1>6 DEF LayoutsAt
    <2>2. \A l1, i1 : LayoutNode(v.id, l1, i1).key = LayoutKey(v.id, i1)
      BY NodeFields DEF LayoutNode
    <2>3. DOMAIN kids = 1..n
      BY <1>5, <1>6 DEF LayoutsAt
    <2> QED BY <2>1, <2>2, <2>3
  <1>8. ASSUME NEW j \in 1..n
        PROVE  kids[j].key \in LayoutPlaces(s) /\ Shown(s)[kids[j].key] = l.children[j]
    <2> DEFINE k == c[j]
    <2>1. k \in PlacesOf(v) /\ ShownAt(v)[k] = l.children[j] /\ kids[j].key = LayoutKey(v.id, k)
      BY <1>5, <1>7
    <2> HIDE DEF k, kids, l
    <2> QED BY <2>1, <1>1, ShownOnce
  <1>9. key \in LayoutPlaces(s) /\ Shown(s)[key] = l
    BY <1>1, ShownOnce
  <1>10. NodeAt(g, key).props.kind = l.kind /\ NodeAt(g, key).props.action = l.action
    <2>1. NodeAt(g, key) = LayoutNode(v.id, l, i)
      BY LayoutNodesFound
    <2> HIDE DEF l
    <2> QED BY <2>1, NodeFields DEF LayoutNode
  <1> HIDE DEF key, l, n, c, g
  <1>11. [j \in DOMAIN kids |-> Shown(s)[kids[j].key]] = l.children
    BY <1>4, <1>7, <1>8
  <1>12. Rebuilt(g, Shown(s), key) = [kind |-> l.kind, action |-> l.action, children |-> l.children]
    BY <1>10, <1>11 DEF Rebuilt
  <1>13. ASSUME NEW j \in DOMAIN kids PROVE kids[j].key \in LayoutPlaces(s) /\ Depths(s)[kids[j].key] < Depths(s)[key]
    <2>1. kids[j].key \in LayoutPlaces(s) /\ Shown(s)[kids[j].key] = l.children[j] /\ l.children[j] \in Elements(l.children)
      BY <1>4, <1>7, <1>8
    <2> HIDE DEF kids
    <2> QED BY <2>1, <1>3, <1>9 DEF Depths
  <1>14. Shown(s)[key] = Rebuilt(g, Shown(s), key)
    BY <1>3, <1>9, <1>12
  <1> QED BY <1>13, <1>14 DEF g, key

LEMMA SpecRebuilds ==
  ASSUME NEW s, IsAppSpec(s), Once(s)
  PROVE  Rebuilds(Decompose(s), LayoutPlaces(s), Shown(s), Depths(s))
  <1> DEFINE g == Decompose(s)
             L == LayoutPlaces(s)
  <1>1. ScreensOnce(s)
    BY DEF Once
  <1>2. ASSUME NEW key \in L
        PROVE  /\ key \in Keys(g) /\ Shown(s)[key] \in Layouts
               /\ Shown(s)[key] = Rebuilt(g, Shown(s), key)
               /\ \A j \in DOMAIN Children(g, key, "LAYOUT_CHILD") :
                    LET kid == Children(g, key, "LAYOUT_CHILD")[j].key
                    IN  kid \in L /\ Depths(s)[kid] < Depths(s)[key]
    <2>1. PICK v \in Elements(s.ui) : key \in {LayoutKey(v.id, i) : i \in PlacesOf(v)}
      BY DEF LayoutPlaces
    <2> PICK i \in PlacesOf(v) : key = LayoutKey(v.id, i)
      BY <2>1
    <2>2. LayoutKey(v.id, i) \in Keys(g)
      BY LayoutNodesFound
    <2>3. Shown(s)[LayoutKey(v.id, i)] \in Layouts
      BY <1>1, ShownOnce
    <2>4. /\ Shown(s)[LayoutKey(v.id, i)] = Rebuilt(g, Shown(s), LayoutKey(v.id, i))
          /\ \A j \in DOMAIN Children(g, LayoutKey(v.id, i), "LAYOUT_CHILD") :
               /\ Children(g, LayoutKey(v.id, i), "LAYOUT_CHILD")[j].key \in LayoutPlaces(s)
               /\ Depths(s)[Children(g, LayoutKey(v.id, i), "LAYOUT_CHILD")[j].key] < Depths(s)[LayoutKey(v.id, i)]
      BY ShownRebuilt
    <2> HIDE DEF g
    <2> QED BY <2>2, <2>3, <2>4 DEF g
  <1>3. Depths(s) \in [L -> Nat]
    <2>1. \A l \in Layouts : Depth[l] \in Nat
      BY LayoutsAreTrees
    <2> QED BY <1>2, <2>1 DEF Depths
  <1>4. \A key \in Keys(g) \ L : DOMAIN Children(g, key, "LAYOUT_CHILD") = {}
    BY NoLayoutsBelow
  <1>5. L \subseteq Keys(g)
    BY <1>2
  <1> HIDE DEF g, L
  <1>6. Rebuilds(g, L, Shown(s), Depths(s))
    BY <1>2, <1>3, <1>4, <1>5 DEF Rebuilds
  <1> QED BY <1>6 DEF g, L

(* The layout of a screen is rebuilt from its graph.                        *)
LEMMA LayoutComesBack ==
  ASSUME NEW s, IsAppSpec(s), Once(s), NEW v \in Elements(s.ui)
  PROVE  RebuildLayout(Decompose(s))[Children(Decompose(s), Key(v.id), "HAS_LAYOUT")[1].key] = v.layout
  <1>1. 0 \in PlacesOf(v) /\ ShownAt(v)[0] = v.layout
    BY ScreenChart DEF IsAppSpec
  <1>2. LayoutKey(v.id, 0) \in LayoutPlaces(s) /\ Shown(s)[LayoutKey(v.id, 0)] = v.layout
    BY <1>1, ShownOnce DEF Once
  <1>3. RebuildLayout(Decompose(s))[LayoutKey(v.id, 0)] = Shown(s)[LayoutKey(v.id, 0)]
    BY <1>2, SpecRebuilds, LayoutRebuilt
  <1>4. Children(Decompose(s), Key(v.id), "HAS_LAYOUT")[1].key = LayoutKey(v.id, 0)
    <2>1. LayoutNode(v.id, v.layout, 0).key = LayoutKey(v.id, 0)
      BY NodeFields DEF LayoutNode
    <2> DEFINE n == LayoutNode(v.id, v.layout, 0)
    <2>2. Children(Decompose(s), Key(v.id), "HAS_LAYOUT") = <<n>>
      BY TopLayoutRead
    <2>3. <<n>>[1] = n
      OBVIOUS
    <2> HIDE DEF n
    <2>4. Children(Decompose(s), Key(v.id), "HAS_LAYOUT")[1] = n
      BY <2>2, <2>3
    <2> QED BY <2>1, <2>4 DEF n
  <1> QED BY <1>2, <1>3, <1>4

-----------------------------------------------------------------------------
(***************************************************************************)
(* The nodes of a spec that are part of no other, by type.                 *)
(***************************************************************************)
TypeSelves(s)   == [i \in DOMAIN s.types |-> TypeSelf(s.types[i], i)]
NodeSelves(s)   == [i \in DOMAIN s.nodes |-> GraphNodeSelf(s.nodes[i], i)]
ActorSelves(s)  == [i \in DOMAIN s.actors |-> ActorSelf(s.actors[i], i)]
MethodSelves(s) == [i \in DOMAIN s.bridge |-> MethodSelf(s.bridge[i], i)]
ScreenSelves(s) == [i \in DOMAIN s.ui |-> ScreenSelf(s.ui[i], i)]

TopNode(s, n) ==
  \/ n.type \in InnerTypes
  \/ n = RootNode(s)
  \/ n.type = "type" /\ n \in Elements(TypeSelves(s))
  \/ n.type = "graph_node" /\ n \in Elements(NodeSelves(s))
  \/ n.type = "graph_edge" /\ n \in Elements(LinkNodes(s))
  \/ n.type = "actor" /\ n \in Elements(ActorSelves(s))
  \/ n.type = "method" /\ n \in Elements(MethodSelves(s))
  \/ n.type = "screen" /\ n \in Elements(ScreenSelves(s))

LEMMA TopNodes ==
  ASSUME NEW s, IsAppSpec(s), NEW n \in SpecNodes(s)
  PROVE  TopNode(s, n)
  <1>1. ASSUME NEW owner, NEW kind, NEW fields, n \in Elements(FieldNodes(owner, kind, fields)) PROVE n.type \in InnerTypes
    BY <1>1, NodeFields DEF Elements, ToSet, FieldNodes, InnerTypes
  <1>2. CASE n \in TypesNodes(s)
    <2>1. PICK i \in DOMAIN s.types : n \in TypeNodes(s.types[i], i)
      BY <1>2 DEF TypesNodes
    <2>2. CASE n = TypeSelf(s.types[i], i)
      <3>1. n \in Elements(TypeSelves(s))
        BY <2>2 DEF TypeSelves, Elements, ToSet
      <3> QED BY <2>2, <3>1, NodeFields DEF TopNode, TypeSelf
    <2>3. CASE n \in Elements(VariantNodes(s.types[i]))
      <3>1. \A j \in DOMAIN VariantNodes(s.types[i]) : VariantNodes(s.types[i])[j].type = "variant"
        BY NodeFields DEF VariantNodes
      <3>2. n.type = "variant"
        BY <2>3, <3>1 DEF Elements, ToSet
      <3> QED BY <3>2 DEF TopNode, InnerTypes
    <2> QED BY <1>1, <2>1, <2>2, <2>3 DEF TypeNodes, TopNode
  <1>3. CASE n \in GraphTypeNodes(s)
    <2>1. PICK i \in DOMAIN s.nodes : n \in GraphNodeNodes(s.nodes[i], i)
      BY <1>3 DEF GraphTypeNodes
    <2>2. CASE n = GraphNodeSelf(s.nodes[i], i)
      <3>1. n \in Elements(NodeSelves(s))
        BY <2>2 DEF NodeSelves, Elements, ToSet
      <3> QED BY <2>2, <3>1, NodeFields DEF TopNode, GraphNodeSelf
    <2> QED BY <1>1, <2>1, <2>2 DEF GraphNodeNodes, TopNode
  <1>4. CASE n \in Elements(LinkNodes(s))
    <2>1. \A j \in DOMAIN LinkNodes(s) : LinkNodes(s)[j].type = "graph_edge"
      BY NodeFields DEF LinkNodes
    <2>2. n.type = "graph_edge"
      BY <1>4, <2>1 DEF Elements, ToSet
    <2> QED BY <1>4, <2>2 DEF TopNode
  <1>5. CASE n \in ActorsNodes(s)
    <2>1. PICK i \in DOMAIN s.actors : n \in ActorNodes(s.actors[i], i)
      BY <1>5 DEF ActorsNodes
    <2>2. CASE n = ActorSelf(s.actors[i], i)
      <3>1. n \in Elements(ActorSelves(s))
        BY <2>2 DEF ActorSelves, Elements, ToSet
      <3> QED BY <2>2, <3>1, NodeFields DEF TopNode, ActorSelf
    <2>3. CASE n \in Elements(HandlerNodes(s.actors[i]))
      <3>1. \A j \in DOMAIN HandlerNodes(s.actors[i]) : HandlerNodes(s.actors[i])[j].type = "handler"
        BY NodeFields DEF HandlerNodes
      <3>2. n.type = "handler"
        BY <2>3, <3>1 DEF Elements, ToSet
      <3> QED BY <3>2 DEF TopNode, InnerTypes
    <2> QED BY <1>1, <2>1, <2>2, <2>3 DEF ActorNodes, TopNode
  <1>6. CASE n \in MethodsNodes(s)
    <2>1. PICK i \in DOMAIN s.bridge : n \in MethodNodes(s.bridge[i], i)
      BY <1>6 DEF MethodsNodes
    <2>2. CASE n = MethodSelf(s.bridge[i], i)
      <3>1. n \in Elements(MethodSelves(s))
        BY <2>2 DEF MethodSelves, Elements, ToSet
      <3> QED BY <2>2, <3>1, NodeFields DEF TopNode, MethodSelf
    <2> QED BY <1>1, <2>1, <2>2 DEF MethodNodes, TopNode
  <1>7. CASE n \in ScreensNodes(s)
    <2>1. PICK i \in DOMAIN s.ui : n \in ScreenNodes(s.ui[i], i)
      BY <1>7 DEF ScreensNodes
    <2>2. CASE n = ScreenSelf(s.ui[i], i)
      <3>1. n \in Elements(ScreenSelves(s))
        BY <2>2 DEF ScreenSelves, Elements, ToSet
      <3> QED BY <2>2, <3>1, NodeFields DEF TopNode, ScreenSelf
    <2>3. CASE n \in Elements(ActionNodes(s.ui[i]))
      <3>1. \A j \in DOMAIN ActionNodes(s.ui[i]) : ActionNodes(s.ui[i])[j].type = "action"
        BY NodeFields DEF ActionNodes
      <3>2. n.type = "action"
        BY <2>3, <3>1 DEF Elements, ToSet
      <3> QED BY <3>2 DEF TopNode, InnerTypes
    <2>4. CASE n \in Elements(BindingNodes(s.ui[i]))
      <3>1. \A j \in DOMAIN BindingNodes(s.ui[i]) : BindingNodes(s.ui[i])[j].type = "binding"
        BY NodeFields DEF BindingNodes
      <3>2. n.type = "binding"
        BY <2>4, <3>1 DEF Elements, ToSet
      <3> QED BY <3>2 DEF TopNode, InnerTypes
    <2>5. CASE n \in Elements(MoveNodes(s.ui[i]))
      <3>1. \A j \in DOMAIN MoveNodes(s.ui[i]) : MoveNodes(s.ui[i])[j].type = "navigation"
        BY NodeFields DEF MoveNodes
      <3>2. n.type = "navigation"
        BY <2>5, <3>1 DEF Elements, ToSet
      <3> QED BY <3>2 DEF TopNode, InnerTypes
    <2>6. CASE n \in Elements(LayoutOf(s.ui[i]).nodes)
      <3>1. IsScreen(s.ui[i])
        BY DEF IsAppSpec, Elements, ToSet
      <3> DEFINE v == s.ui[i]
      <3>2. IsScreen(v) /\ n \in Elements(LayoutOf(v).nodes)
        BY <3>1, <2>6
      <3> HIDE DEF v
      <3>4. Elements(LayoutOf(v).nodes) = {LayoutNode(v.id, ShownAt(v)[k], k) : k \in PlacesOf(v)}
        BY <3>2, ScreenChart
      <3>3. n.type = "layout"
        <4>1. PICK k \in PlacesOf(v) : n = LayoutNode(v.id, ShownAt(v)[k], k)
          BY <3>2, <3>4
        <4> QED BY <4>1, NodeFields DEF LayoutNode
      <3> QED BY <3>3 DEF TopNode, InnerTypes
    <2> QED BY <1>1, <2>1, <2>2, <2>3, <2>4, <2>5, <2>6 DEF ScreenNodes, TopNode
  <1>8. CASE n = RootNode(s)
    BY <1>8 DEF TopNode
  <1> QED BY <1>2, <1>3, <1>4, <1>5, <1>6, <1>7, <1>8 DEF SpecNodes, CoreNodes

(* Each type has its nodes, in the order of the spec.                       *)
SelvesOf(s, type, nodes) ==
  /\ IsList(nodes) /\ Numbered(nodes) /\ Elements(nodes) \subseteq SpecNodes(s)
  /\ \A j \in DOMAIN nodes : nodes[j].type = type

LEMMA SelvesRead ==
  ASSUME NEW s, IsAppSpec(s), Once(s), NEW type \in TopTypes, NEW nodes, SelvesOf(s, type, nodes),
         \A n \in SpecNodes(s) : n.type = type => n \in Elements(nodes)
  PROVE  Ordered(Decompose(s), type) = nodes /\ OfType(Decompose(s), type) = nodes
  <1> DEFINE g == Decompose(s)
  <1>1. Laid(g, InnerKeys(s), AllRows(s)) /\ Elements(g.nodes) = SpecNodes(s)
    BY DecomposeLaid, DecomposeHolds DEF Holds
  <1>2. IsList(g.nodes) /\ Rising(g, type)
    BY <1>1, LaidRising DEF Laid, NodesLaid
  <1>3. TypedAs(g, type) = Elements(nodes)
    BY <1>1 DEF TypedAs, SelvesOf, Elements, ToSet
  <1>4. IsList(nodes) /\ Numbered(nodes)
    BY DEF SelvesOf
  <1> HIDE DEF g
  <1>5. Ordered(g, type) = nodes /\ Keep(g.nodes, {i \in DOMAIN g.nodes : g.nodes[i].type = type}) = nodes
    BY <1>2, <1>3, <1>4, NodesOfType
  <1> QED BY <1>5 DEF OfType, g

LEMMA TypeSelvesRead ==
  ASSUME NEW s, IsAppSpec(s), Once(s)
  PROVE  Ordered(Decompose(s), "type") = TypeSelves(s) /\ OfType(Decompose(s), "type") = TypeSelves(s)
  <1> DEFINE nodes == TypeSelves(s)
  <1>1. IsList(nodes) /\ DOMAIN nodes = DOMAIN s.types
    BY NodesOf DEF TypeSelves, IsAppSpec
  <1>2. Numbered(nodes) /\ \A j \in DOMAIN nodes : nodes[j].type = "type"
    BY NodeFields DEF Numbered, TypeSelves, TypeSelf
  <1>3. ASSUME NEW j \in DOMAIN nodes PROVE nodes[j] \in SpecNodes(s)
    <2>1. nodes[j] \in TypeNodes(s.types[j], j)
      BY DEF TypeSelves, TypeNodes
    <2>2. nodes[j] \in TypesNodes(s)
      BY <1>1, <2>1 DEF TypesNodes
    <2> QED BY <2>2 DEF SpecNodes, CoreNodes
  <1>4. \A n \in SpecNodes(s) : n.type = "type" => n \in Elements(nodes)
    BY TopNodes, NodeFields DEF TopNode, InnerTypes, RootNode
  <1> HIDE DEF nodes
  <1>5. SelvesOf(s, "type", nodes)
    BY <1>1, <1>2, <1>3 DEF SelvesOf, Elements, ToSet
  <1>6. "type" \in TopTypes
    BY DEF TopTypes
  <1>7. Ordered(Decompose(s), "type") = nodes /\ OfType(Decompose(s), "type") = nodes
    BY <1>4, <1>5, <1>6, SelvesRead
  <1> QED BY <1>7 DEF nodes

LEMMA NodeSelvesRead ==
  ASSUME NEW s, IsAppSpec(s), Once(s)
  PROVE  Ordered(Decompose(s), "graph_node") = NodeSelves(s) /\ OfType(Decompose(s), "graph_node") = NodeSelves(s)
  <1> DEFINE nodes == NodeSelves(s)
  <1>1. IsList(nodes) /\ DOMAIN nodes = DOMAIN s.nodes
    BY NodesOf DEF NodeSelves, IsAppSpec
  <1>2. Numbered(nodes) /\ \A j \in DOMAIN nodes : nodes[j].type = "graph_node"
    BY NodeFields DEF Numbered, NodeSelves, GraphNodeSelf
  <1>3. ASSUME NEW j \in DOMAIN nodes PROVE nodes[j] \in SpecNodes(s)
    <2>1. nodes[j] \in GraphNodeNodes(s.nodes[j], j)
      BY DEF NodeSelves, GraphNodeNodes
    <2>2. nodes[j] \in GraphTypeNodes(s)
      BY <1>1, <2>1 DEF GraphTypeNodes
    <2> QED BY <2>2 DEF SpecNodes, CoreNodes
  <1>4. \A n \in SpecNodes(s) : n.type = "graph_node" => n \in Elements(nodes)
    BY TopNodes, NodeFields DEF TopNode, InnerTypes, RootNode
  <1> HIDE DEF nodes
  <1>5. SelvesOf(s, "graph_node", nodes)
    BY <1>1, <1>2, <1>3 DEF SelvesOf, Elements, ToSet
  <1>6. "graph_node" \in TopTypes
    BY DEF TopTypes
  <1>7. Ordered(Decompose(s), "graph_node") = nodes /\ OfType(Decompose(s), "graph_node") = nodes
    BY <1>4, <1>5, <1>6, SelvesRead
  <1> QED BY <1>7 DEF nodes

LEMMA ActorSelvesRead ==
  ASSUME NEW s, IsAppSpec(s), Once(s)
  PROVE  Ordered(Decompose(s), "actor") = ActorSelves(s) /\ OfType(Decompose(s), "actor") = ActorSelves(s)
  <1> DEFINE nodes == ActorSelves(s)
  <1>1. IsList(nodes) /\ DOMAIN nodes = DOMAIN s.actors
    BY NodesOf DEF ActorSelves, IsAppSpec
  <1>2. Numbered(nodes) /\ \A j \in DOMAIN nodes : nodes[j].type = "actor"
    BY NodeFields DEF Numbered, ActorSelves, ActorSelf
  <1>3. ASSUME NEW j \in DOMAIN nodes PROVE nodes[j] \in SpecNodes(s)
    <2>1. nodes[j] \in ActorNodes(s.actors[j], j)
      BY DEF ActorSelves, ActorNodes
    <2>2. nodes[j] \in ActorsNodes(s)
      BY <1>1, <2>1 DEF ActorsNodes
    <2> QED BY <2>2 DEF SpecNodes
  <1>4. \A n \in SpecNodes(s) : n.type = "actor" => n \in Elements(nodes)
    BY TopNodes, NodeFields DEF TopNode, InnerTypes, RootNode
  <1> HIDE DEF nodes
  <1>5. SelvesOf(s, "actor", nodes)
    BY <1>1, <1>2, <1>3 DEF SelvesOf, Elements, ToSet
  <1>6. "actor" \in TopTypes
    BY DEF TopTypes
  <1>7. Ordered(Decompose(s), "actor") = nodes /\ OfType(Decompose(s), "actor") = nodes
    BY <1>4, <1>5, <1>6, SelvesRead
  <1> QED BY <1>7 DEF nodes

LEMMA MethodSelvesRead ==
  ASSUME NEW s, IsAppSpec(s), Once(s)
  PROVE  Ordered(Decompose(s), "method") = MethodSelves(s) /\ OfType(Decompose(s), "method") = MethodSelves(s)
  <1> DEFINE nodes == MethodSelves(s)
  <1>1. IsList(nodes) /\ DOMAIN nodes = DOMAIN s.bridge
    BY NodesOf DEF MethodSelves, IsAppSpec
  <1>2. Numbered(nodes) /\ \A j \in DOMAIN nodes : nodes[j].type = "method"
    BY NodeFields DEF Numbered, MethodSelves, MethodSelf
  <1>3. ASSUME NEW j \in DOMAIN nodes PROVE nodes[j] \in SpecNodes(s)
    <2>1. nodes[j] \in MethodNodes(s.bridge[j], j)
      BY DEF MethodSelves, MethodNodes
    <2>2. nodes[j] \in MethodsNodes(s)
      BY <1>1, <2>1 DEF MethodsNodes
    <2> QED BY <2>2 DEF SpecNodes
  <1>4. \A n \in SpecNodes(s) : n.type = "method" => n \in Elements(nodes)
    BY TopNodes, NodeFields DEF TopNode, InnerTypes, RootNode
  <1> HIDE DEF nodes
  <1>5. SelvesOf(s, "method", nodes)
    BY <1>1, <1>2, <1>3 DEF SelvesOf, Elements, ToSet
  <1>6. "method" \in TopTypes
    BY DEF TopTypes
  <1>7. Ordered(Decompose(s), "method") = nodes /\ OfType(Decompose(s), "method") = nodes
    BY <1>4, <1>5, <1>6, SelvesRead
  <1> QED BY <1>7 DEF nodes

LEMMA ScreenSelvesRead ==
  ASSUME NEW s, IsAppSpec(s), Once(s)
  PROVE  Ordered(Decompose(s), "screen") = ScreenSelves(s) /\ OfType(Decompose(s), "screen") = ScreenSelves(s)
  <1> DEFINE nodes == ScreenSelves(s)
  <1>1. IsList(nodes) /\ DOMAIN nodes = DOMAIN s.ui
    BY NodesOf DEF ScreenSelves, IsAppSpec
  <1>2. Numbered(nodes) /\ \A j \in DOMAIN nodes : nodes[j].type = "screen"
    BY NodeFields DEF Numbered, ScreenSelves, ScreenSelf
  <1>3. ASSUME NEW j \in DOMAIN nodes PROVE nodes[j] \in SpecNodes(s)
    <2>1. nodes[j] \in ScreenNodes(s.ui[j], j)
      BY DEF ScreenSelves, ScreenNodes
    <2>2. nodes[j] \in ScreensNodes(s)
      BY <1>1, <2>1 DEF ScreensNodes
    <2> QED BY <2>2 DEF SpecNodes
  <1>4. \A n \in SpecNodes(s) : n.type = "screen" => n \in Elements(nodes)
    BY TopNodes, NodeFields DEF TopNode, InnerTypes, RootNode
  <1> HIDE DEF nodes
  <1>5. SelvesOf(s, "screen", nodes)
    BY <1>1, <1>2, <1>3 DEF SelvesOf, Elements, ToSet
  <1>6. "screen" \in TopTypes
    BY DEF TopTypes
  <1>7. Ordered(Decompose(s), "screen") = nodes /\ OfType(Decompose(s), "screen") = nodes
    BY <1>4, <1>5, <1>6, SelvesRead
  <1> QED BY <1>7 DEF nodes

LEMMA LinkNodesRead ==
  ASSUME NEW s, IsAppSpec(s), Once(s)
  PROVE  Ordered(Decompose(s), "graph_edge") = LinkNodes(s)
  <1> DEFINE nodes == LinkNodes(s)
  <1>1. IsList(nodes) /\ DOMAIN nodes = DOMAIN s.links
    BY NodesOf DEF LinkNodes, IsAppSpec
  <1>2. Numbered(nodes) /\ \A j \in DOMAIN nodes : nodes[j].type = "graph_edge"
    BY NodeFields DEF Numbered, LinkNodes
  <1>3. Elements(nodes) \subseteq SpecNodes(s)
    BY DEF SpecNodes, CoreNodes
  <1>4. \A n \in SpecNodes(s) : n.type = "graph_edge" => n \in Elements(nodes)
    BY TopNodes, NodeFields DEF TopNode, InnerTypes, RootNode
  <1> HIDE DEF nodes
  <1>5. SelvesOf(s, "graph_edge", nodes)
    BY <1>1, <1>2, <1>3 DEF SelvesOf
  <1>6. "graph_edge" \in TopTypes
    BY DEF TopTypes
  <1>7. Ordered(Decompose(s), "graph_edge") = nodes
    BY <1>4, <1>5, <1>6, SelvesRead
  <1> QED BY <1>7 DEF nodes

LEMMA AnchorRead ==
  ASSUME NEW s, IsAppSpec(s)
  PROVE  OfType(Decompose(s), "appspec")[1] = RootNode(s)
  <1> DEFINE g == Decompose(s)
             I == {i \in DOMAIN g.nodes : g.nodes[i].type = "appspec"}
             k == Keep(g.nodes, I)
  <1>1. IsList(g.nodes) /\ Elements(g.nodes) = SpecNodes(s)
    BY DecomposeHolds DEF Holds, IsGraph
  <1>2. RootNode(s) \in SpecNodes(s) /\ RootNode(s).type = "appspec"
    BY NodeFields DEF SpecNodes, CoreNodes, RootNode
  <1>3. \A n \in SpecNodes(s) : n.type = "appspec" => n = RootNode(s)
    BY TopNodes DEF TopNode, InnerTypes
  <1>4. I \subseteq DOMAIN g.nodes /\ {g.nodes[i] : i \in I} = {RootNode(s)}
    BY <1>1, <1>2, <1>3 DEF Elements, ToSet
  <1> HIDE DEF g, I
  <1>5. IsList(k) /\ Elements(k) = {RootNode(s)}
    BY <1>1, <1>4, KeptElements
  <1> HIDE DEF k
  <1>6. Len(k) \in Nat /\ DOMAIN k = 1..Len(k) /\ \E i \in 1..Len(k) : k[i] = RootNode(s)
    BY <1>5, ListProperties
  <1>7. k[1] = RootNode(s)
    <2>1. 1 \in 1..Len(k)
      BY <1>6
    <2>2. k[1] \in Elements(k)
      BY <1>5, <2>1, ListProperties
    <2> QED BY <2>2, <1>5
  <1> QED BY <1>7 DEF k, g, I, OfType

(***************************************************************************)
(* The parts of the spec read back.                                        *)
(***************************************************************************)
LEMMA ListIsFunction ==
  ASSUME NEW l, IsList(l)
  PROVE  l = [j \in DOMAIN l |-> l[j]]
  BY DEF IsList

LEMMA FieldProps ==
  ASSUME NEW owner, NEW kind, NEW fields, IsList(fields)
  PROVE  PropsOf(FieldNodes(owner, kind, fields)) = fields
  <1>1. fields = [j \in DOMAIN fields |-> fields[j]]
    BY ListIsFunction
  <1>2. PropsOf(FieldNodes(owner, kind, fields)) = [j \in DOMAIN fields |-> fields[j]]
    BY NodeFields DEF PropsOf, FieldNodes
  <1> QED BY <1>1, <1>2

LEMMA HangsOnOwner ==
  ASSUME NEW s, IsAppSpec(s), Once(s), NEW owner, NEW predicate, NEW nodes, Hanging(owner, predicate, nodes) \in AllHanging(s)
  PROVE  Children(Decompose(s), Key(owner), predicate) = nodes
  <1> DEFINE x == Hanging(owner, predicate, nodes)
  <1>1. x.owner = Key(owner) /\ x.predicate = predicate /\ x.nodes = nodes
    BY HangingFields
  <1> HIDE DEF x
  <1>2. Children(Decompose(s), x.owner, x.predicate) = x.nodes
    BY HangingRead DEF x
  <1> QED BY <1>1, <1>2

LEMMA TypeComesBack ==
  ASSUME NEW s, IsAppSpec(s), Once(s), NEW i \in DOMAIN s.types
  PROVE  TypeFrom(Decompose(s), TypeSelf(s.types[i], i)) = s.types[i]
  <1> DEFINE t == s.types[i]
             g == Decompose(s)
  <1>1. IsDomainType(t)
    BY DEF IsAppSpec, Elements, ToSet
  <1>2. /\ Hanging(t.name, "HAS_FIELD", FieldNodes(t.name, "field", t.fields)) \in AllHanging(s)
        /\ Hanging(t.name, "HAS_VARIANT", VariantNodes(t)) \in AllHanging(s)
    BY DEF AllHanging, TypesHang, TypeHangs
  <1> HIDE DEF t
  <1>3. Children(g, Key(t.name), "HAS_FIELD") = FieldNodes(t.name, "field", t.fields)
        /\ Children(g, Key(t.name), "HAS_VARIANT") = VariantNodes(t)
    BY <1>2, HangsOnOwner
  <1> HIDE DEF g
  <1>4. FieldsOf(g, Key(t.name)) = t.fields
    BY <1>1, <1>3, FieldProps DEF FieldsOf, IsDomainType, AreFields
  <1>5. Column(Children(g, Key(t.name), "HAS_VARIANT"), "variant") = t.variants
    <2>1. Column(VariantNodes(t), "variant") = [j \in DOMAIN t.variants |-> t.variants[j]]
      BY NodeFields DEF Column, VariantNodes
    <2> QED BY <1>1, <1>3, <2>1, ListIsFunction DEF IsDomainType
  <1>6. TypeSelf(t, i).key = Key(t.name) /\ TypeSelf(t, i).props.kind = t.kind /\ Key(t.name)[1] = t.name
    BY NodeFields, KeyIsTop DEF TypeSelf
  <1>7. TypeFrom(g, TypeSelf(t, i))
          = [name |-> t.name, kind |-> t.kind, fields |-> IF t.kind = "record" THEN t.fields ELSE <<>>,
             variants |-> IF t.kind = "enum" THEN t.variants ELSE <<>>]
    <2> DEFINE n == TypeSelf(t, i)
    <2>1. n.key[1] = t.name /\ n.props.kind = t.kind
      BY <1>6
    <2>2. FieldsOf(g, n.key) = t.fields /\ Column(Children(g, n.key, "HAS_VARIANT"), "variant") = t.variants
      BY <1>4, <1>5, <1>6
    <2> HIDE DEF n
    <2>3. TypeFrom(g, n)
            = [name |-> t.name, kind |-> t.kind, fields |-> IF t.kind = "record" THEN t.fields ELSE <<>>,
               variants |-> IF t.kind = "enum" THEN t.variants ELSE <<>>]
      BY <2>1, <2>2 DEF TypeFrom
    <2> QED BY <2>3 DEF n
  <1>8. t = [name |-> t.name, kind |-> t.kind, fields |-> t.fields, variants |-> t.variants]
    BY <1>1 DEF IsDomainType
  <1>10. \/ t.kind = "record" /\ t.variants = <<>>
         \/ t.kind = "enum" /\ t.fields = <<>>
    BY <1>1 DEF IsDomainType
  <1>9. (IF t.kind = "record" THEN t.fields ELSE <<>>) = t.fields /\ (IF t.kind = "enum" THEN t.variants ELSE <<>>) = t.variants
    BY <1>10
  <1> QED BY <1>7, <1>8, <1>9 DEF t, g

LEMMA GraphNodeComesBack ==
  ASSUME NEW s, IsAppSpec(s), Once(s), Spelt(s), NEW i \in DOMAIN s.nodes
  PROVE  GraphNodeFrom(Decompose(s), GraphNodeSelf(s.nodes[i], i)) = s.nodes[i]
  <1> DEFINE t == s.nodes[i]
             g == Decompose(s)
  <1>1. IsNodeType(t) /\ t \in Elements(s.nodes)
    BY DEF IsAppSpec, Elements, ToSet
  <1>2. Hanging(t.name, "HAS_FIELD", FieldNodes(t.name, "gfield", t.fields)) \in AllHanging(s)
    BY DEF AllHanging, NodesHang, NodeHangs
  <1> HIDE DEF t
  <1>3. Children(g, Key(t.name), "HAS_FIELD") = FieldNodes(t.name, "gfield", t.fields)
    BY <1>2, HangsOnOwner
  <1> HIDE DEF g
  <1>4. FieldsOf(g, Key(t.name)) = t.fields
    BY <1>1, <1>3, FieldProps DEF FieldsOf, IsNodeType, AreFields
  <1>5. ReadableFields(t.fields)
    <2>1. t.fields \in FieldLists(s)
      BY <1>1 DEF FieldLists
    <2> QED BY <2>1 DEF ReadableFields, Spelt, TypesUsed
  <1>6. GraphNodeSelf(t, i).key = Key(t.name) /\ Key(t.name)[1] = t.name
    BY NodeFields, KeyIsTop DEF GraphNodeSelf
  <1>7. GraphNodeFrom(g, GraphNodeSelf(t, i)) = [name |-> t.name, fields |-> t.fields]
    BY <1>4, <1>5, <1>6 DEF GraphNodeFrom
  <1> QED BY <1>1, <1>7 DEF t, g, IsNodeType

LEMMA ActorComesBack ==
  ASSUME NEW s, IsAppSpec(s), Once(s), NEW i \in DOMAIN s.actors
  PROVE  ActorFrom(Decompose(s), ActorSelf(s.actors[i], i)) = s.actors[i]
  <1> DEFINE t == s.actors[i]
             g == Decompose(s)
  <1>1. IsActor(t)
    BY DEF IsAppSpec, Elements, ToSet
  <1>2. /\ Hanging(t.name, "HAS_FIELD", FieldNodes(t.name, "state", t.state)) \in AllHanging(s)
        /\ Hanging(t.name, "HAS_HANDLER", HandlerNodes(t)) \in AllHanging(s)
    BY DEF AllHanging, ActorsHang, ActorHangs
  <1> HIDE DEF t
  <1>3. Children(g, Key(t.name), "HAS_FIELD") = FieldNodes(t.name, "state", t.state)
        /\ Children(g, Key(t.name), "HAS_HANDLER") = HandlerNodes(t)
    BY <1>2, HangsOnOwner
  <1> HIDE DEF g
  <1>4. FieldsOf(g, Key(t.name)) = t.state
    BY <1>1, <1>3, FieldProps DEF FieldsOf, IsActor, AreFields
  <1>5. Column(Children(g, Key(t.name), "HAS_HANDLER"), "method") = t.handlers
    <2>1. Column(HandlerNodes(t), "method") = [j \in DOMAIN t.handlers |-> t.handlers[j]]
      BY NodeFields DEF Column, HandlerNodes
    <2> QED BY <1>1, <1>3, <2>1, ListIsFunction DEF IsActor
  <1>6. ActorSelf(t, i).key = Key(t.name) /\ ActorSelf(t, i).props.uses = t.uses /\ Key(t.name)[1] = t.name
    BY NodeFields, KeyIsTop DEF ActorSelf
  <1>7. ActorFrom(g, ActorSelf(t, i)) = [name |-> t.name, handlers |-> t.handlers, state |-> t.state, uses |-> t.uses]
    BY <1>4, <1>5, <1>6 DEF ActorFrom
  <1> QED BY <1>1, <1>7 DEF t, g, IsActor

LEMMA MethodComesBack ==
  ASSUME NEW s, IsAppSpec(s), Once(s), NEW i \in DOMAIN s.bridge
  PROVE  MethodFrom(Decompose(s), MethodSelf(s.bridge[i], i)) = s.bridge[i]
  <1> DEFINE t == s.bridge[i]
             g == Decompose(s)
  <1>1. IsMethod(t)
    BY DEF IsAppSpec, Elements, ToSet
  <1>2. Hanging(t.method, "HAS_FIELD", FieldNodes(t.method, "param", t.params)) \in AllHanging(s)
    BY DEF AllHanging, MethodsHang, MethodHangs
  <1> HIDE DEF t
  <1>3. Children(g, Key(t.method), "HAS_FIELD") = FieldNodes(t.method, "param", t.params)
    BY <1>2, HangsOnOwner
  <1> HIDE DEF g
  <1>4. FieldsOf(g, Key(t.method)) = t.params
    BY <1>1, <1>3, FieldProps DEF FieldsOf, IsMethod, AreFields
  <1>5. MethodSelf(t, i).key = Key(t.method) /\ MethodSelf(t, i).props.result = t.result /\ Key(t.method)[1] = t.method
    BY NodeFields, KeyIsTop DEF MethodSelf
  <1>6. MethodFrom(g, MethodSelf(t, i)) = [method |-> t.method, params |-> t.params, result |-> t.result]
    BY <1>4, <1>5 DEF MethodFrom
  <1> QED BY <1>1, <1>6 DEF t, g, IsMethod

LEMMA ScreenComesBack ==
  ASSUME NEW s, IsAppSpec(s), Once(s), NEW i \in DOMAIN s.ui
  PROVE  ScreenFrom(Decompose(s), ScreenSelf(s.ui[i], i)) = s.ui[i]
  <1> DEFINE v == s.ui[i]
             g == Decompose(s)
  <1>1. IsScreen(v) /\ v \in Elements(s.ui)
    BY DEF IsAppSpec, Elements, ToSet
  <1>2. /\ Hanging(v.id, "HAS_ACTION", ActionNodes(v)) \in AllHanging(s)
        /\ Hanging(v.id, "HAS_BINDING", BindingNodes(v)) \in AllHanging(s)
        /\ Hanging(v.id, "HAS_NAVIGATION", MoveNodes(v)) \in AllHanging(s)
    BY DEF AllHanging, ScreensHang, ScreenHangs
  <1> HIDE DEF v
  <1>3. /\ Children(g, Key(v.id), "HAS_ACTION") = ActionNodes(v)
        /\ Children(g, Key(v.id), "HAS_BINDING") = BindingNodes(v)
        /\ Children(g, Key(v.id), "HAS_NAVIGATION") = MoveNodes(v)
    BY <1>2, HangsOnOwner
  <1>4. PropsOf(ActionNodes(v)) = v.actions
    BY <1>1, ListIsFunction, NodeFields DEF PropsOf, ActionNodes, IsScreen
  <1>5. PropsOf(BindingNodes(v)) = v.bindings
    BY <1>1, ListIsFunction, NodeFields DEF PropsOf, BindingNodes, IsScreen
  <1>6. PropsOf(MoveNodes(v)) = v.navigation
    BY <1>1, ListIsFunction, NodeFields DEF PropsOf, MoveNodes, IsScreen
  <1>7. RebuildLayout(g)[Children(g, Key(v.id), "HAS_LAYOUT")[1].key] = v.layout
    BY <1>1, LayoutComesBack
  <1> HIDE DEF g
  <1>8. ScreenSelf(v, i).key = Key(v.id) /\ Key(v.id)[1] = v.id
    BY NodeFields, KeyIsTop DEF ScreenSelf
  <1>9. ScreenFrom(g, ScreenSelf(v, i)) = [id |-> v.id, actions |-> v.actions, bindings |-> v.bindings,
                                          navigation |-> v.navigation, layout |-> v.layout]
    BY <1>3, <1>4, <1>5, <1>6, <1>7, <1>8 DEF ScreenFrom
  <1> QED BY <1>1, <1>9 DEF v, g, IsScreen

(* All of them.                                                             *)
LEMMA AllComeBack ==
  ASSUME NEW s, IsAppSpec(s), Once(s), Spelt(s)
  PROVE  LET g == Decompose(s)
         IN  /\ Mapped(TypeSelves(s), LAMBDA n : TypeFrom(g, n)) = s.types
             /\ Mapped(NodeSelves(s), LAMBDA n : GraphNodeFrom(g, n)) = s.nodes
             /\ Mapped(ActorSelves(s), LAMBDA n : ActorFrom(g, n)) = s.actors
             /\ Mapped(MethodSelves(s), LAMBDA n : MethodFrom(g, n)) = s.bridge
             /\ Mapped(ScreenSelves(s), LAMBDA n : ScreenFrom(g, n)) = s.ui
             /\ PropsOf(LinkNodes(s)) = s.links
  <1> DEFINE g == Decompose(s)
  <1>1. /\ s.types = [i \in DOMAIN s.types |-> s.types[i]] /\ s.nodes = [i \in DOMAIN s.nodes |-> s.nodes[i]]
        /\ s.actors = [i \in DOMAIN s.actors |-> s.actors[i]] /\ s.bridge = [i \in DOMAIN s.bridge |-> s.bridge[i]]
        /\ s.ui = [i \in DOMAIN s.ui |-> s.ui[i]] /\ s.links = [i \in DOMAIN s.links |-> s.links[i]]
    BY ListIsFunction DEF IsAppSpec
  <1>2. /\ \A i \in DOMAIN s.types : TypeFrom(g, TypeSelf(s.types[i], i)) = s.types[i]
        /\ \A i \in DOMAIN s.nodes : GraphNodeFrom(g, GraphNodeSelf(s.nodes[i], i)) = s.nodes[i]
        /\ \A i \in DOMAIN s.actors : ActorFrom(g, ActorSelf(s.actors[i], i)) = s.actors[i]
        /\ \A i \in DOMAIN s.bridge : MethodFrom(g, MethodSelf(s.bridge[i], i)) = s.bridge[i]
        /\ \A i \in DOMAIN s.ui : ScreenFrom(g, ScreenSelf(s.ui[i], i)) = s.ui[i]
    BY TypeComesBack, GraphNodeComesBack, ActorComesBack, MethodComesBack, ScreenComesBack
  <1> HIDE DEF g
  <1>3. Mapped(TypeSelves(s), LAMBDA n : TypeFrom(g, n)) = s.types
    BY <1>1, <1>2 DEF Mapped, TypeSelves
  <1>4. Mapped(NodeSelves(s), LAMBDA n : GraphNodeFrom(g, n)) = s.nodes
    BY <1>1, <1>2 DEF Mapped, NodeSelves
  <1>5. Mapped(ActorSelves(s), LAMBDA n : ActorFrom(g, n)) = s.actors
    BY <1>1, <1>2 DEF Mapped, ActorSelves
  <1>6. Mapped(MethodSelves(s), LAMBDA n : MethodFrom(g, n)) = s.bridge
    BY <1>1, <1>2 DEF Mapped, MethodSelves
  <1>7. Mapped(ScreenSelves(s), LAMBDA n : ScreenFrom(g, n)) = s.ui
    BY <1>1, <1>2 DEF Mapped, ScreenSelves
  <1>8. PropsOf(LinkNodes(s)) = s.links
    <2>1. DOMAIN LinkNodes(s) = DOMAIN s.links /\ \A i \in DOMAIN s.links : LinkNodes(s)[i].props = s.links[i]
      BY NodeFields DEF LinkNodes
    <2>2. PropsOf(LinkNodes(s)) = [i \in DOMAIN s.links |-> s.links[i]]
      BY <2>1 DEF PropsOf
    <2> QED BY <1>1, <2>2
  <1> QED BY <1>3, <1>4, <1>5, <1>6, <1>7, <1>8 DEF g

(* The spec a graph states is the one it was made from, and the slices the  *)
(* generators take are its parts.                                           *)
LEMMA Reconstructed ==
  ASSUME NEW s, IsAppSpec(s), Once(s), Spelt(s)
  PROVE  Reconstruct(Decompose(s)) = {s}
  <1> DEFINE g == Decompose(s)
  <1>1. /\ Ordered(g, "type") = TypeSelves(s) /\ Ordered(g, "graph_node") = NodeSelves(s)
        /\ Ordered(g, "graph_edge") = LinkNodes(s) /\ Ordered(g, "actor") = ActorSelves(s)
        /\ Ordered(g, "method") = MethodSelves(s) /\ Ordered(g, "screen") = ScreenSelves(s)
    BY TypeSelvesRead, NodeSelvesRead, LinkNodesRead, ActorSelvesRead, MethodSelvesRead, ScreenSelvesRead
  <1>2. OfType(g, "appspec")[1].key[1] = s.name
    <2>1. RootNode(s).key = Key(s.name) /\ Key(s.name)[1] = s.name
      BY NodeFields, KeyIsTop DEF RootNode, Root
    <2> QED BY <2>1, AnchorRead
  <1>3. /\ Mapped(TypeSelves(s), LAMBDA n : TypeFrom(g, n)) = s.types
        /\ Mapped(NodeSelves(s), LAMBDA n : GraphNodeFrom(g, n)) = s.nodes
        /\ Mapped(ActorSelves(s), LAMBDA n : ActorFrom(g, n)) = s.actors
        /\ Mapped(MethodSelves(s), LAMBDA n : MethodFrom(g, n)) = s.bridge
        /\ Mapped(ScreenSelves(s), LAMBDA n : ScreenFrom(g, n)) = s.ui
        /\ PropsOf(LinkNodes(s)) = s.links
    BY AllComeBack
  <1> DEFINE r == [name   |-> OfType(g, "appspec")[1].key[1],
                   types  |-> Mapped(Ordered(g, "type"), LAMBDA n : TypeFrom(g, n)),
                   nodes  |-> Mapped(Ordered(g, "graph_node"), LAMBDA n : GraphNodeFrom(g, n)),
                   links  |-> PropsOf(Ordered(g, "graph_edge")),
                   actors |-> Mapped(Ordered(g, "actor"), LAMBDA n : ActorFrom(g, n)),
                   bridge |-> Mapped(Ordered(g, "method"), LAMBDA n : MethodFrom(g, n)),
                   ui     |-> Mapped(Ordered(g, "screen"), LAMBDA n : ScreenFrom(g, n))]
  <1>4. Reconstruct(g) = IF \A ty \in TypesUsed(r) : Readable(ty) THEN {r} ELSE {}
    BY DEF Reconstruct
  <1> HIDE DEF g
  <1>5. r = [name |-> s.name, types |-> s.types, nodes |-> s.nodes, links |-> s.links,
             actors |-> s.actors, bridge |-> s.bridge, ui |-> s.ui]
    BY <1>1, <1>2, <1>3
  <1>6. r = s
    BY <1>5 DEF IsAppSpec
  <1> HIDE DEF r
  <1> QED BY <1>4, <1>6 DEF Spelt, g

LEMMA CodegenReads ==
  ASSUME NEW s, IsAppSpec(s), Once(s), Spelt(s)
  PROVE  Codegen(Decompose(s)) = {[types |-> s.types, dispatch |-> Dispatch(Decompose(s)),
                                   bridge |-> s.bridge, screens |-> s.ui]}
  <1> DEFINE g == Decompose(s)
  <1>1. OfType(g, "type") = TypeSelves(s) /\ OfType(g, "method") = MethodSelves(s) /\ OfType(g, "screen") = ScreenSelves(s)
    BY TypeSelvesRead, MethodSelvesRead, ScreenSelvesRead
  <1>2. /\ Mapped(TypeSelves(s), LAMBDA n : TypeFrom(g, n)) = s.types
        /\ Mapped(MethodSelves(s), LAMBDA n : MethodFrom(g, n)) = s.bridge
        /\ Mapped(ScreenSelves(s), LAMBDA n : ScreenFrom(g, n)) = s.ui
    BY AllComeBack
  <1> DEFINE r == [types    |-> Mapped(OfType(g, "type"), LAMBDA n : TypeFrom(g, n)),
                   dispatch |-> Dispatch(g),
                   bridge   |-> Mapped(OfType(g, "method"), LAMBDA n : MethodFrom(g, n)),
                   screens  |-> Mapped(OfType(g, "screen"), LAMBDA n : ScreenFrom(g, n))]
  <1>3. Codegen(g) = IF /\ \A t \in Elements(r.types) : ReadableFields(t.fields)
                        /\ \A m \in Elements(r.bridge) : ReadableFields(m.params) /\ Readable(m.result)
                     THEN {r} ELSE {}
    BY DEF Codegen
  <1> HIDE DEF g
  <1>4. r = [types |-> s.types, dispatch |-> Dispatch(g), bridge |-> s.bridge, screens |-> s.ui]
    BY <1>1, <1>2
  <1> HIDE DEF r
  <1>5. r.types = s.types /\ r.bridge = s.bridge
    BY <1>4
  <1>6. ASSUME NEW t \in Elements(s.types) PROVE ReadableFields(t.fields)
    <2>1. t.fields \in FieldLists(s)
      BY DEF FieldLists
    <2> QED BY <2>1 DEF ReadableFields, Spelt, TypesUsed
  <1>7. ASSUME NEW m \in Elements(s.bridge) PROVE ReadableFields(m.params) /\ Readable(m.result)
    <2>1. m.params \in FieldLists(s)
      BY DEF FieldLists
    <2> QED BY <2>1 DEF ReadableFields, Spelt, TypesUsed
  <1>8. Codegen(g) = {r}
    BY <1>3, <1>5, <1>6, <1>7
  <1> QED BY <1>4, <1>8 DEF g

-----------------------------------------------------------------------------
(***************************************************************************)
(* Who handles a method, by the edges.                                     *)
(***************************************************************************)
HandledEdge(s, e) ==
  \E m \in Elements(s.bridge), a \in Elements(s.actors) :
    m.method \in Elements(a.handlers) /\ e = Edge("HANDLED_BY", Key(m.method), Key(a.name))

LEMMA FieldPredicates ==
  ASSUME NEW owner, NEW kind, NEW fields, NEW e \in FieldEdges(owner, kind, fields)
  PROVE  e.predicate \in {"HAS_FIELD", "OF_TYPE"}
  <1>1. e \in Links(Key(owner), "HAS_FIELD", FieldNodes(owner, kind, fields)) => e.predicate = "HAS_FIELD"
    BY LinkEnds
  <1>2. e \in TypedEdges(owner, kind, fields) => e.predicate = "OF_TYPE"
    BY EdgeFields DEF TypedEdges
  <1> QED BY <1>1, <1>2 DEF FieldEdges

LEMMA CorePredicates ==
  ASSUME NEW s, NEW e \in CoreEdges(s)
  PROVE  e.predicate # "HANDLED_BY"
  <1>1. CASE e \in TypesEdges(s)
    <2>1. PICK i \in DOMAIN s.types : e \in TypeEdges(s, s.types[i])
      BY <1>1 DEF TypesEdges
    <2> DEFINE t == s.types[i]
    <2>2. e = Edge("HAS_TYPE", Root(s), Key(t.name)) \/ e \in FieldEdges(t.name, "field", t.fields)
          \/ e \in Links(Key(t.name), "HAS_VARIANT", VariantNodes(t))
      BY <2>1 DEF TypeEdges
    <2> HIDE DEF t
    <2> QED BY <2>2, EdgeFields, FieldPredicates, LinkEnds
  <1>2. CASE e \in GraphTypeEdges(s)
    <2>1. PICK i \in DOMAIN s.nodes : e \in GraphNodeEdges(s, s.nodes[i])
      BY <1>2 DEF GraphTypeEdges
    <2> DEFINE t == s.nodes[i]
    <2>2. e = Edge("HAS_GRAPH_NODE", Root(s), Key(t.name)) \/ e \in FieldEdges(t.name, "gfield", t.fields)
      BY <2>1 DEF GraphNodeEdges
    <2> HIDE DEF t
    <2> QED BY <2>2, EdgeFields, FieldPredicates
  <1>3. CASE e \in Links(Root(s), "HAS_GRAPH_EDGE", LinkNodes(s))
    BY <1>3, LinkEnds
  <1> QED BY <1>1, <1>2, <1>3 DEF CoreEdges

LEMMA ActorPredicates ==
  ASSUME NEW s, NEW e \in ActorsEdges(s)
  PROVE  e.predicate # "HANDLED_BY"
  <1>1. PICK i \in DOMAIN s.actors : e \in ActorEdges(s, s.actors[i])
    BY DEF ActorsEdges
  <1> DEFINE t == s.actors[i]
  <1>2. e = Edge("HAS_ACTOR", Root(s), Key(t.name)) \/ e \in FieldEdges(t.name, "state", t.state)
        \/ e \in Links(Key(t.name), "HAS_HANDLER", HandlerNodes(t))
    BY <1>1 DEF ActorEdges
  <1> HIDE DEF t
  <1> QED BY <1>2, EdgeFields, FieldPredicates, LinkEnds

LEMMA ScreenPredicates ==
  ASSUME NEW s, IsAppSpec(s), NEW e \in ScreensEdges(s)
  PROVE  e.predicate # "HANDLED_BY"
  <1>1. PICK i \in DOMAIN s.ui : e \in ScreenEdges(s, s.ui[i])
    BY DEF ScreensEdges
  <1> DEFINE v == s.ui[i]
  <1>2. IsScreen(v)
    BY DEF IsAppSpec, Elements, ToSet
  <1>3. e \in {Edge("HAS_SCREEN", Root(s), Key(v.id))} \/ e \in ActionEdges(v) \/ e \in BindingEdges(v)
        \/ e \in MoveEdges(v) \/ e \in Elements(LayoutOf(v).edges)
    BY <1>1 DEF ScreenEdges
  <1> HIDE DEF v
  <1>4. DOMAIN ActionNodes(v) = DOMAIN v.actions /\ DOMAIN BindingNodes(v) = DOMAIN v.bindings
        /\ DOMAIN MoveNodes(v) = DOMAIN v.navigation
    BY DEF ActionNodes, BindingNodes, MoveNodes
  <1>5. CASE e \in {Edge("HAS_SCREEN", Root(s), Key(v.id))}
    BY <1>5, EdgeFields
  <1>6. CASE e \in ActionEdges(v)
    <2>1. \A j \in DOMAIN v.actions : Calls(v)[j].predicate = "CALLS"
      BY EdgeFields DEF Calls
    <2>2. e \in Tips(ActionNodes(v), Calls(v)) => e.predicate = "CALLS"
      BY <1>4, <2>1 DEF Tips
    <2>3. e \in Links(Key(v.id), "HAS_ACTION", ActionNodes(v)) => e.predicate = "HAS_ACTION"
      BY LinkEnds
    <2> QED BY <1>6, <2>2, <2>3 DEF ActionEdges
  <1>7. CASE e \in BindingEdges(v)
    <2>1. \A j \in DOMAIN v.bindings : Binds(v)[j].predicate = "BINDS"
      BY EdgeFields DEF Binds
    <2>2. e \in Tips(BindingNodes(v), Binds(v)) => e.predicate = "BINDS"
      BY <1>4, <2>1 DEF Tips
    <2>3. e \in Links(Key(v.id), "HAS_BINDING", BindingNodes(v)) => e.predicate = "HAS_BINDING"
      BY LinkEnds
    <2> QED BY <1>7, <2>2, <2>3 DEF BindingEdges
  <1>8. CASE e \in MoveEdges(v)
    <2>1. \A j \in DOMAIN v.navigation : Moves(v)[j].predicate = "NAVIGATES_TO"
      BY EdgeFields DEF Moves
    <2>2. e \in Tips(MoveNodes(v), Moves(v)) => e.predicate = "NAVIGATES_TO"
      BY <1>4, <2>1 DEF Tips
    <2>3. e \in Links(Key(v.id), "HAS_NAVIGATION", MoveNodes(v)) => e.predicate = "HAS_NAVIGATION"
      BY LinkEnds
    <2> QED BY <1>8, <2>2, <2>3 DEF MoveEdges
  <1>9. CASE e \in Elements(LayoutOf(v).edges)
    <2>1. v.layout \in Layouts
      BY <1>2 DEF IsScreen
    <2>2. PushLayout(v.id)[<<v.layout, 0>>] \in LayoutValues(v.id)
      BY <2>1, LayoutPushed DEF Places
    <2>3. e \in AllLayoutEdges(v.id)
      BY <1>9, <2>2, LayoutValueHolds DEF LayoutOf, LayoutGraph
    <2> QED BY <2>3, EdgeFields DEF AllLayoutEdges, LayoutTop, LayoutDown
  <1> QED BY <1>3, <1>5, <1>6, <1>7, <1>8, <1>9

LEMMA HandledEdges ==
  ASSUME NEW s, IsAppSpec(s), NEW e
  PROVE  e \in SpecEdges(s) /\ e.predicate = "HANDLED_BY" <=> HandledEdge(s, e)
  <1>1. ASSUME e \in SpecEdges(s), e.predicate = "HANDLED_BY" PROVE HandledEdge(s, e)
    <2>1. e \in MethodsEdges(s)
      BY <1>1, CorePredicates, ActorPredicates, ScreenPredicates DEF SpecEdges
    <2>2. PICK i \in DOMAIN s.bridge : e \in MethodEdges(s, s.bridge[i])
      BY <2>1 DEF MethodsEdges
    <2> DEFINE m == s.bridge[i]
    <2>3. m \in Elements(s.bridge)
      BY DEF Elements, ToSet
    <2>4. e = Edge("HAS_METHOD", Root(s), Key(m.method)) \/ e \in FieldEdges(m.method, "param", m.params)
          \/ e \in ResultEdges(m) \/ e \in Dispatched(s, m)
      BY <2>2 DEF MethodEdges
    <2> HIDE DEF m
    <2>5. e \in ResultEdges(m) => e.predicate = "OF_TYPE"
      BY EdgeFields DEF ResultEdges
    <2>6. e \in Dispatched(s, m)
      BY <1>1, <2>4, <2>5, EdgeFields, FieldPredicates
    <2> QED BY <2>3, <2>6 DEF Dispatched, HandledEdge
  <1>2. ASSUME HandledEdge(s, e) PROVE e \in SpecEdges(s) /\ e.predicate = "HANDLED_BY"
    <2>1. PICK m \in Elements(s.bridge), a \in Elements(s.actors) :
            m.method \in Elements(a.handlers) /\ e = Edge("HANDLED_BY", Key(m.method), Key(a.name))
      BY <1>2 DEF HandledEdge
    <2>2. PICK i \in DOMAIN s.bridge : s.bridge[i] = m
      BY DEF Elements, ToSet
    <2>3. e \in Dispatched(s, m)
      BY <2>1 DEF Dispatched
    <2>4. e \in MethodEdges(s, m)
      BY <2>3 DEF MethodEdges
    <2>5. e \in MethodsEdges(s)
      BY <2>2, <2>4 DEF MethodsEdges
    <2> QED BY <2>1, <2>5, EdgeFields DEF SpecEdges
  <1> QED BY <1>1, <1>2

(* The dispatch table, actor by actor.                                      *)
NamesIn(nodes) == Mapped(nodes, LAMBDA m : m.key[1])
HandledBy(g, methods, a) ==
  Keep(methods, {i \in DOMAIN methods : Edge("HANDLED_BY", methods[i].key, a.key) \in Elements(g.edges)})
DispatchRow(g, methods, a) == [actor |-> a.key[1], methods |-> NamesIn(HandledBy(g, methods, a))]

LEMMA RowMethods ==
  ASSUME NEW s, IsAppSpec(s), NEW j \in DOMAIN s.actors, NEW m
  PROVE  m \in Elements(NamesIn(HandledBy(Decompose(s), MethodSelves(s), ActorSelves(s)[j])))
           <=> \E i \in DOMAIN s.bridge :
                 s.bridge[i].method = m /\ Edge("HANDLED_BY", Key(m), Key(s.actors[j].name)) \in SpecEdges(s)
  <1> DEFINE methods == MethodSelves(s)
             a == ActorSelves(s)[j]
             I == {i \in DOMAIN methods : Edge("HANDLED_BY", methods[i].key, a.key) \in Elements(Decompose(s).edges)}
             k == Keep(methods, I)
  <1>1. IsList(methods) /\ DOMAIN methods = DOMAIN s.bridge
    BY NodesOf DEF MethodSelves, IsAppSpec
  <1>2. \A i \in DOMAIN s.bridge : methods[i].key = Key(s.bridge[i].method) /\ methods[i].key[1] = s.bridge[i].method
    BY NodeFields, KeyIsTop DEF MethodSelves, MethodSelf
  <1>3. a.key = Key(s.actors[j].name)
    BY NodeFields DEF ActorSelves, ActorSelf
  <1>4. Elements(Decompose(s).edges) = SpecEdges(s)
    BY DecomposeHolds DEF Holds
  <1>5. I \subseteq DOMAIN methods
    OBVIOUS
  <1>6. \A i : i \in I <=> i \in DOMAIN s.bridge /\ Edge("HANDLED_BY", Key(s.bridge[i].method), Key(s.actors[j].name)) \in SpecEdges(s)
    BY <1>1, <1>2, <1>3, <1>4
  <1>7. HandledBy(Decompose(s), methods, a) = k
    BY DEF HandledBy
  <1> HIDE DEF methods, a, I
  <1>8. IsList(k) /\ Elements(k) = {methods[i] : i \in I}
    BY <1>1, <1>5, KeptElements
  <1> HIDE DEF k
  <1>9. Elements(NamesIn(k)) = {n.key[1] : n \in Elements(k)}
    BY DEF NamesIn, Mapped, Elements, ToSet
  <1>10. m \in Elements(NamesIn(k)) <=> \E i \in I : m = methods[i].key[1]
    BY <1>8, <1>9
  <1>11. m \in Elements(NamesIn(k)) <=> \E i \in DOMAIN s.bridge :
           s.bridge[i].method = m /\ Edge("HANDLED_BY", Key(m), Key(s.actors[j].name)) \in SpecEdges(s)
    BY <1>2, <1>5, <1>6, <1>10
  <1> QED BY <1>7, <1>11 DEF methods, a

\* The rows of the table that have a method.
DispatchRows(s) == [j \in DOMAIN s.actors |-> DispatchRow(Decompose(s), MethodSelves(s), ActorSelves(s)[j])]

DispatchBy(g, methods, actors) ==
  LET all == [j \in DOMAIN actors |-> DispatchRow(g, methods, actors[j])]
  IN  Keep(all, {i \in DOMAIN all : all[i].methods # <<>>})

LEMMA DispatchIsRows ==
  ASSUME NEW s, IsAppSpec(s), Once(s)
  PROVE  LET all == DispatchRows(s)
             I   == {i \in DOMAIN all : all[i].methods # <<>>}
         IN  /\ IsList(all)
             /\ Elements(Dispatch(Decompose(s))) = {all[i] : i \in I}
  <1> DEFINE g == Decompose(s)
             rows == DispatchRows(s)
             I == {i \in DOMAIN rows : rows[i].methods # <<>>}
  <1>1. OfType(g, "actor") = ActorSelves(s)
    BY ActorSelvesRead
  <1>2. OfType(g, "method") = MethodSelves(s)
    BY MethodSelvesRead
  <1>3. DOMAIN ActorSelves(s) = DOMAIN s.actors
    BY DEF ActorSelves
  <1>4. IsList(rows)
    BY NodesOf DEF DispatchRows, IsAppSpec
  <1>5. Dispatch(g) = Keep(rows, I)
    <2>1. Dispatch(g) = DispatchBy(g, OfType(g, "method"), OfType(g, "actor"))
      BY Zenon DEF Dispatch, DispatchBy, DispatchRow, NamesIn, HandledBy, Mapped
    <2>2. DispatchBy(g, MethodSelves(s), ActorSelves(s)) = Keep(rows, I)
      BY <1>3 DEF DispatchBy, DispatchRows
    <2> QED BY <1>1, <1>2, <2>1, <2>2
  <1>6. I \subseteq DOMAIN rows
    OBVIOUS
  <1> HIDE DEF rows, I, g
  <1>7. Elements(Dispatch(g)) = {rows[i] : i \in I}
    BY <1>4, <1>5, <1>6, KeptElements
  <1> QED BY <1>4, <1>7 DEF rows, I, g

\* A row has the methods its actor lists.
LEMMA RowHandles ==
  ASSUME NEW s, IsAppSpec(s), Once(s), HandlerRule(s), NEW j \in DOMAIN s.actors
  PROVE  /\ DispatchRows(s)[j].actor = s.actors[j].name
         /\ Elements(DispatchRows(s)[j].methods) = Elements(s.actors[j].handlers)
  <1> DEFINE row == DispatchRow(Decompose(s), MethodSelves(s), ActorSelves(s)[j])
             a == s.actors[j]
  <1>1. DispatchRows(s)[j] = row
    BY DEF DispatchRows
  <1>2. row.actor = a.name
    BY NodeFields, KeyIsTop DEF DispatchRow, ActorSelves, ActorSelf
  <1>3. row.methods = NamesIn(HandledBy(Decompose(s), MethodSelves(s), ActorSelves(s)[j]))
    BY DEF DispatchRow
  <1>4. a \in Elements(s.actors)
    BY DEF Elements, ToSet
  <1> HIDE DEF row
  <1>5. ASSUME NEW m \in Elements(row.methods) PROVE m \in Elements(a.handlers)
    <2> DEFINE e == Edge("HANDLED_BY", Key(m), Key(a.name))
    <2>1. e \in SpecEdges(s) /\ e.predicate = "HANDLED_BY"
      BY <1>3, RowMethods, EdgeFields
    <2> HIDE DEF e
    <2>2. HandledEdge(s, e)
      BY <2>1, HandledEdges
    <2>3. PICK m1 \in Elements(s.bridge), a1 \in Elements(s.actors) :
            m1.method \in Elements(a1.handlers) /\ e = Edge("HANDLED_BY", Key(m1.method), Key(a1.name))
      BY <2>2 DEF HandledEdge
    <2>4. e.from = Key(m) /\ e.to = Key(a.name) /\ e.from = Key(m1.method) /\ e.to = Key(a1.name)
      BY <2>3, EdgeFields DEF e
    <2>5. m = m1.method /\ a.name = a1.name
      BY <2>4, KeysEqual
    <2>6. PICK k \in DOMAIN s.actors : s.actors[k] = a1
      BY DEF Elements, ToSet
    <2>7. k = j
      BY <2>5, <2>6 DEF Once, ActorsOnce
    <2> QED BY <2>3, <2>5, <2>6, <2>7
  <1>6. ASSUME NEW m \in Elements(a.handlers) PROVE m \in Elements(row.methods)
    <2> DEFINE e == Edge("HANDLED_BY", Key(m), Key(a.name))
    <2>1. m \in Methods(s)
      BY <1>4, <1>6 DEF HandlerRule
    <2>2. PICK m1 \in Elements(s.bridge) : m1.method = m
      BY <2>1 DEF Methods
    <2>3. PICK i \in DOMAIN s.bridge : s.bridge[i] = m1
      BY DEF Elements, ToSet
    <2>4. HandledEdge(s, e)
      BY <1>4, <1>6, <2>2 DEF HandledEdge
    <2> HIDE DEF e
    <2>5. e \in SpecEdges(s)
      BY <2>4, HandledEdges
    <2> QED BY <1>3, <2>2, <2>3, <2>5, RowMethods DEF e
  <1> QED BY <1>1, <1>2, <1>5, <1>6

\* The generators send each method to the actor that lists it, and nowhere else.
LEMMA DispatchHandles ==
  ASSUME NEW s, IsAppSpec(s), Once(s), HandlerRule(s)
  PROVE  Routed(Dispatch(Decompose(s))) = Handled(s)
  <1> DEFINE table == Dispatch(Decompose(s))
             rows == DispatchRows(s)
             I == {i \in DOMAIN rows : rows[i].methods # <<>>}
  <1>1. Elements(table) = {rows[i] : i \in I}
    BY DispatchIsRows
  <1>2. DOMAIN rows = DOMAIN s.actors
    BY DEF DispatchRows
  <1>3. \A i \in DOMAIN s.actors : /\ rows[i].actor = s.actors[i].name
                                   /\ Elements(rows[i].methods) = Elements(s.actors[i].handlers)
    BY RowHandles
  <1> HIDE DEF rows, table
  <1>4. Elements(s.actors) = {s.actors[i] : i \in DOMAIN s.actors}
    BY DEF Elements, ToSet
  <1>5. ASSUME NEW p \in Routed(table) PROVE p \in Handled(s)
    <2>1. PICK d \in Elements(table) : \E m \in Elements(d.methods) : p = <<d.actor, m>>
      BY DEF Routed
    <2>2. PICK m \in Elements(d.methods) : p = <<d.actor, m>>
      BY <2>1
    <2>3. PICK i \in DOMAIN s.actors : d = rows[i]
      BY <1>1, <1>2
    <2>4. m \in Elements(s.actors[i].handlers) /\ p = <<s.actors[i].name, m>> /\ s.actors[i] \in Elements(s.actors)
      BY <1>3, <1>4, <2>2, <2>3
    <2> QED BY <2>4 DEF Handled
  <1>6. ASSUME NEW p \in Handled(s) PROVE p \in Routed(table)
    <2>1. PICK a \in Elements(s.actors) : \E m \in Elements(a.handlers) : p = <<a.name, m>>
      BY DEF Handled
    <2>2. PICK m \in Elements(a.handlers) : p = <<a.name, m>>
      BY <2>1
    <2>3. PICK i \in DOMAIN s.actors : a = s.actors[i]
      BY <1>4
    <2>4. m \in Elements(rows[i].methods) /\ p = <<rows[i].actor, m>>
      BY <1>3, <2>2, <2>3
    <2>5. rows[i].methods # <<>>
      BY <2>4 DEF Elements, ToSet
    <2>6. rows[i] \in Elements(table)
      BY <1>1, <1>2, <2>5
    <2> QED BY <2>4, <2>6 DEF Routed
  <1>7. Routed(table) = Handled(s)
    BY <1>5, <1>6
  <1> QED BY <1>7 DEF table

(* A spec that obeys the rules and keeps its names apart uses each once.    *)
LEMMA ListsJoin ==
  ASSUME NEW a, IsList(a), NEW b, IsList(b)
  PROVE  IsList(a \o b) /\ Elements(a \o b) = Elements(a) \union Elements(b)
  <1> DEFINE X == Elements(a) \union Elements(b)
             c == a \o b
  <1>1. a \in Seq(X) /\ b \in Seq(X)
    BY ListIsSeq
  <1>2. c \in Seq(X) /\ \A x : x \in Elements(c) <=> x \in Elements(a) \/ x \in Elements(b)
    BY <1>1, Concatenated
  <1>3. IsList(c)
    BY <1>2, ElementsOfSeq
  <1> HIDE DEF c
  <1>4. Elements(c) = X
    BY <1>2
  <1> QED BY <1>3, <1>4 DEF c

LEMMA JoinedNamesApart ==
  ASSUME NEW a, IsList(a), NEW b, IsList(b), IsInjective(a \o b)
  PROVE  IsInjective(a) /\ Elements(a) \cap Elements(b) = {}
  <1> DEFINE X == Elements(a) \union Elements(b)
             c == a \o b
  <1>1. a \in Seq(X) /\ b \in Seq(X)
    BY ListIsSeq
  <1>3. /\ Len(a) \in Nat /\ Len(b) \in Nat /\ DOMAIN a = 1..Len(a) /\ DOMAIN b = 1..Len(b)
        /\ DOMAIN c = 1 .. (Len(a) + Len(b))
        /\ \A i \in DOMAIN a : c[i] = a[i]
        /\ \A j \in DOMAIN b : c[Len(a) + j] = b[j]
    <2> HIDE DEF X
    <2> QED BY <1>1
  <1> HIDE DEF X, c
  <1>5. \A i, j \in DOMAIN c : c[i] = c[j] => i = j
    BY DEF IsInjective, c
  <1>6. IsInjective(a)
    <2> SUFFICES ASSUME NEW i \in DOMAIN a, NEW j \in DOMAIN a, a[i] = a[j] PROVE i = j
      BY DEF IsInjective
    <2>1. i \in DOMAIN c /\ j \in DOMAIN c /\ c[i] = c[j]
      BY <1>3
    <2> QED BY <1>5, <2>1
  <1>7. Elements(a) \cap Elements(b) = {}
    <2> SUFFICES ASSUME NEW x \in Elements(a), x \in Elements(b) PROVE FALSE
      OBVIOUS
    <2>1. PICK i \in DOMAIN a : a[i] = x
      BY DEF Elements, ToSet
    <2>2. PICK j \in DOMAIN b : b[j] = x
      BY DEF Elements, ToSet
    <2>3. i \in DOMAIN c /\ Len(a) + j \in DOMAIN c /\ c[i] = c[Len(a) + j] /\ i # Len(a) + j
      BY <1>3, <2>1, <2>2
    <2> QED BY <1>5, <2>3
  <1> QED BY <1>6, <1>7

LEMMA OwnersApartOnce ==
  ASSUME NEW s, IsAppSpec(s), Apart(s)
  PROVE  OwnersOnce(s)
  <1> DEFINE T == [i \in DOMAIN s.types |-> s.types[i].name]
             N == [i \in DOMAIN s.nodes |-> s.nodes[i].name]
             A == [i \in DOMAIN s.actors |-> s.actors[i].name]
             M == [i \in DOMAIN s.bridge |-> s.bridge[i].method]
  <1>1. IsList(T) /\ IsList(N) /\ IsList(A) /\ IsList(M)
    BY NodesOf DEF IsAppSpec
  <1>2. Elements(T) = TypeNames(s) /\ Elements(N) = NodeNames(s)
    BY DEF Elements, ToSet, TypeNames, NodeNames
  <1>3. Elements(A) = {a.name : a \in Elements(s.actors)} /\ Elements(M) = Methods(s)
    BY DEF Elements, ToSet, Methods
  <1>4. IsInjective(T \o N \o A \o M)
    BY DEF Apart
  <1> HIDE DEF T, N, A, M
  <1>5. IsList(T \o N \o A)
    <2>1. IsList(T \o N)
      BY <1>1, ListsJoin
    <2> QED BY <1>1, <2>1, ListsJoin
  <1>6. IsInjective(T \o N \o A) /\ Elements(T \o N \o A) \cap Elements(M) = {}
    BY <1>1, <1>4, <1>5, JoinedNamesApart
  <1>7. IsList(T \o N)
    BY <1>1, ListsJoin
  <1>8. IsInjective(T \o N) /\ Elements(T \o N) \cap Elements(A) = {}
    BY <1>1, <1>6, <1>7, JoinedNamesApart
  <1>9. Elements(T) \cap Elements(N) = {}
    BY <1>1, <1>8, JoinedNamesApart
  <1>10. Elements(T \o N) = Elements(T) \union Elements(N)
    BY <1>1, ListsJoin
  <1>11. Elements(T \o N \o A) = Elements(T \o N) \union Elements(A)
    BY <1>1, <1>7, ListsJoin
  <1> QED BY <1>2, <1>3, <1>6, <1>8, <1>9, <1>10, <1>11 DEF OwnersOnce

LEMMA FieldsApart ==
  ASSUME NEW s, Apart(s), NEW fields \in FieldLists(s)
  PROVE  NamesApart(fields)
  BY DEF Apart, Distinct, NamesApart

LEMMA NamesOnce ==
  ASSUME NEW s, IsAppSpec(s), Valid(s), Apart(s)
  PROVE  Once(s)
  <1> DEFINE A == [i \in DOMAIN s.actors |-> s.actors[i].name]
             M == [i \in DOMAIN s.bridge |-> s.bridge[i].method]
             V == [i \in DOMAIN s.ui |-> s.ui[i].id]
             N == [i \in DOMAIN s.nodes |-> s.nodes[i].name]
  <1>1. IsInjective(A) /\ IsInjective(M) /\ IsInjective(V) /\ IsInjective(N)
    BY DEF Valid, NameRule
  <1>2. TypesApart(s)
    <2>1. \A i, j \in DOMAIN s.types : s.types[i].name = s.types[j].name => i = j
      BY DEF Valid, NameRule, Distinct
    <2>2. ASSUME NEW t \in Elements(s.types) PROVE NamesApart(t.fields) /\ IsInjective(t.variants)
      <3>1. t.fields \in FieldLists(s)
        BY DEF FieldLists
      <3> QED BY <3>1, FieldsApart DEF Valid, TypeRule
    <2> QED BY <2>1, <2>2 DEF TypesApart
  <1>3. NodesOnce(s)
    <2>1. ASSUME NEW n \in Elements(s.nodes) PROVE NamesApart(n.fields)
      <3>1. n.fields \in FieldLists(s)
        BY DEF FieldLists
      <3> QED BY <3>1, FieldsApart
    <2> QED BY <1>1, <2>1 DEF NodesOnce, IsInjective
  <1>4. ActorsOnce(s)
    <2>1. ASSUME NEW a \in Elements(s.actors) PROVE NamesApart(a.state) /\ IsInjective(a.handlers)
      <3>1. a.state \in FieldLists(s)
        BY DEF FieldLists
      <3> QED BY <3>1, FieldsApart DEF Valid, HandlerRule
    <2> QED BY <1>1, <2>1 DEF ActorsOnce, IsInjective
  <1>5. MethodsOnce(s)
    <2>1. ASSUME NEW m \in Elements(s.bridge) PROVE NamesApart(m.params)
      <3>1. m.params \in FieldLists(s)
        BY DEF FieldLists
      <3> QED BY <3>1, FieldsApart
    <2> QED BY <1>1, <2>1 DEF MethodsOnce, IsInjective
  <1>6. ScreensOnce(s)
    <2>1. ASSUME NEW v \in Elements(s.ui) PROVE ScreenOnce(v)
      <3>1. \A i, j \in DOMAIN v.actions : v.actions[i].id = v.actions[j].id => i = j
        BY DEF Valid, ScreenRule, Distinct
      <3>2. /\ \A i, j \in DOMAIN v.bindings : v.bindings[i].field = v.bindings[j].field => i = j
            /\ \A i, j \in DOMAIN v.navigation : v.navigation[i].action = v.navigation[j].action => i = j
        BY DEF Apart, Distinct
      <3> QED BY <3>1, <3>2 DEF ScreenOnce
    <2> QED BY <1>1, <2>1 DEF ScreensOnce, IsInjective
  <1> QED BY <1>2, <1>3, <1>4, <1>5, <1>6, OwnersApartOnce DEF Once
=============================================================================
