---------------------------- MODULE MCBuildRuns ----------------------------
EXTENDS BuildRuns, TLC
Symmetry == Permutations(Threads)
=============================================================================
