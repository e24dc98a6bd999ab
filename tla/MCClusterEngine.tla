--------------------------- MODULE MCClusterEngine ---------------------------
(* Small instances of the clustering engine for TLC. *)
EXTENDS ClusterEngine, TLC

\* Replicas are interchangeable, and so are the articles with a row; liveness is
\* checked without symmetry.
Symmetry == Permutations(Worker) \cup Permutations(Stored)
=============================================================================
