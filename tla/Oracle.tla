------------------------------- MODULE Oracle -------------------------------
(***************************************************************************)
(* A tool outside the program - a compiler, a linter, a test run - whose   *)
(* answer about a tree is arbitrary but repeatable: drawn the first time   *)
(* that tree is asked about, and remembered.                               *)
(***************************************************************************)

\* What it can say of tree.
Answers(known, tree, possible) ==
  IF tree \in DOMAIN known THEN {known[tree]} ELSE possible

\* known, once it has answered.
Learn(known, tree, answer) ==
  [t \in DOMAIN known \union {tree} |-> IF t = tree THEN answer ELSE known[t]]

Nothing == [t \in {} |-> t]
=============================================================================
