----------------------------- MODULE DedupClaims -----------------------------
(***************************************************************************)
(* What the repository's documents and comments say of the dedup engine    *)
(* and the engine does not keep.  Each property is checked by a run of its *)
(* own, which ends in a counterexample.                                    *)
(***************************************************************************)
EXTENDS MCDedupEngine

\* README.md:179, "Any worker can crash and restart without losing in-flight
\* messages": when every message of a stored article is settled, the article
\* was announced.  One crash is allowed.
StoredIsAnnounced ==
    \A a \in stored :
        (\A m \in Message : UrlHash[m] = a => Bus!Settled(m))
            => Announced(a) \/ Within(a, Label \ {"idle"})
=============================================================================
