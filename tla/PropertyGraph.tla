--------------------------- MODULE PropertyGraph ---------------------------
(***************************************************************************)
(* The graphs a design and a spec are decomposed to (composition_graph.rs, *)
(* spec_graph.rs): a list of nodes and a list of edges between their keys, *)
(* and how what hangs on a node is read, in the order it is given.         *)
(***************************************************************************)
EXTENDS Naturals, FiniteSets, SequencesExt

Elements(s) == ToSet(s)
IsList(s)   == s \in Seq(Elements(s))

\* The places of I in the order of what `at' gives them, and else as they come.
Arranged(I, at) ==
    LET Before(i) == {j \in I : at[j] < at[i] \/ (at[j] = at[i] /\ j < i)}
    IN  [k \in 1 .. Cardinality(I) |-> CHOOSE i \in I : Cardinality(Before(i)) = k - 1]

\* What a list has at some places.
Keep(s, I) ==
    LET places == Arranged(I, [i \in I |-> 0])
    IN  [k \in DOMAIN places |-> s[places[k]]]

Node(type, key, order, props) == [type |-> type, key |-> key, order |-> order, props |-> props]
Edge(predicate, from, to)     == [predicate |-> predicate, from |-> from, to |-> to]

Keys(g) == {n.key : n \in Elements(g.nodes)}

\* A key finds the first node that carries it.
NodeAt(g, key) == g.nodes[SelectInSeq(g.nodes, LAMBDA n : n.key = key)]

\* The nodes of a type, in their order.
Ordered(g, type) ==
    LET I == {i \in DOMAIN g.nodes : g.nodes[i].type = type}
        places == Arranged(I, [i \in I |-> g.nodes[i].order])
    IN  [k \in DOMAIN places |-> g.nodes[places[k]]]

\* What a predicate leads to from a node, in its order: a key nobody carries is no child.
Children(g, parent, predicate) ==
    LET I == {i \in DOMAIN g.edges : /\ g.edges[i].predicate = predicate
                                     /\ g.edges[i].from = parent
                                     /\ g.edges[i].to \in Keys(g)}
        places == Arranged(I, [i \in I |-> NodeAt(g, g.edges[i].to).order])
    IN  [k \in DOMAIN places |-> NodeAt(g, g.edges[places[k]].to)]
=============================================================================
