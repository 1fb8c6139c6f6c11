--------------------------- MODULE MCProjectSync ---------------------------
EXTENDS ProjectSync
\* A build file at the root and a source in a directory.
MCFiles == {"build", "source"}
MCDir == [f \in MCFiles |-> IF f = "build" THEN "root" ELSE "src"]
=============================================================================
