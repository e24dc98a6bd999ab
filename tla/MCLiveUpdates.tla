---------------------------- MODULE MCLiveUpdates ----------------------------
(* A small instance of the live updates for TLC. *)
EXTENDS LiveUpdates

CONSTANTS a1, a2, a3, c1, c2

\* The first cluster is there when the page is loaded, the second one is founded
\* and joined while it is open.
Stories == [a \in Article |-> IF a = a1 THEN c1 ELSE c2]
=============================================================================
