---------------------------- MODULE MCDedupEngine ----------------------------
(* Small instances of the dedup engine for TLC. *)
EXTENDS DedupEngine, TLC

CONSTANTS a1, a2, a3, m1, m2, m3

\* A message of each article.
OneOfEach == [m \in Message |-> CASE m = m1 -> a1 [] m = m2 -> a2 [] m = m3 -> a3]

\* Articles that are their own messages are interchangeable.
Itself == [m \in Message |-> m]

\* Texts that resemble only themselves; texts that all resemble each other.
Self == {<<a, a>> : a \in Article}
Everything == Article \X Article

\* Replicas are interchangeable; liveness is checked without symmetry.
Symmetry == Permutations(Worker) \cup Permutations(Article)
=============================================================================
