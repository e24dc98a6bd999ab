--------------------------- MODULE MCTableReaders ---------------------------
(* A small instance of the readers of the tables for TLC. *)
EXTENDS TableReaders, TLC

CONSTANTS c1, c2

\* One label matches two rules, the other none.
Labels == (c1 :> {"ai", "bank"}) @@ (c2 :> {"weather"})
Rules == <<[topic |-> "Technology", keywords |-> {"ai", "software"}],
           [topic |-> "Business & Finance", keywords |-> {"bank"}]>>

\* Articles are interchangeable.
ArticleSymmetry == Permutations(Article)
=============================================================================
