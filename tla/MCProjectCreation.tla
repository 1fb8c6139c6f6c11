---- MODULE MCProjectCreation ----
(* Two applications of different names, two designs: one states a board and *)
(* a published component, the other neither.                                *)
EXTENDS CreationSheet, TLC

CONSTANTS north, south, rich, bare

MCTrees == {north, south}
Symmetry == Permutations(MCTrees)
MCName == [t \in MCTrees |-> t]
MCDesigns == {rich, bare}
MCBsp == [d \in MCDesigns |-> IF d = rich THEN {"bsp"} ELSE {}]
MCPublished == [d \in MCDesigns |-> IF d = rich THEN {"display"} ELSE {}]
====
