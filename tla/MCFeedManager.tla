---------------------------- MODULE MCFeedManager ----------------------------
(* Small instances of the feed manager for TLC. *)
EXTENDS FeedManager, TLC

CONSTANTS f1, f2, i1, i2, i3, k1, k2

\* i3 has no key.
Keys == [i \in Item |-> CASE i = i1 -> k1 [] i = i2 -> k2 [] i = i3 -> None]

\* Feeds are interchangeable where all or none of them are tagged.
FeedSymmetry == Permutations(Feed)
=============================================================================
