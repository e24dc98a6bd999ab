----------------------------- MODULE MCPipeline -----------------------------
(* Small instances of dedup and clustering together for TLC. *)
EXTENDS Pipeline, TLC

\* Articles that are their own messages are interchangeable, and so are replicas.
Itself == [m \in Message |-> m]
Symmetry == Permutations(Article) \cup Permutations(DedupWorker) \cup Permutations(ClusterWorker)

\* Texts that resemble only themselves; texts that all resemble each other.
Self == {<<a, a>> : a \in Article}
Everything == Article \X Article
=============================================================================
