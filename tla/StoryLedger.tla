----------------------------- MODULE StoryLedger -----------------------------
(***************************************************************************)
(* What clustering promises, with no cache, no versions, no workers and no *)
(* message bus: a story is a sequence of articles that only ever grows at  *)
(* its end, one article at a time, and an announcement says of one         *)
(* position of one story which article stands there.  A lost update, a     *)
(* rewritten centroid or an event that reports a place the database never  *)
(* gave to its article is not a behaviour of this specification.           *)
(***************************************************************************)
EXTENDS Naturals, Sequences

CONSTANTS Story, Article

VARIABLES
    stories,     \* the articles of each story, in the order they joined
    announced    \* the positions made public: records of story, position, article

ledgerVars == <<stories, announced>>

Init ==
    /\ stories = [s \in Story |-> <<>>]
    /\ announced = {}

Grow(s, a) ==
    /\ stories' = [stories EXCEPT ![s] = Append(@, a)]
    /\ UNCHANGED announced

Announce(s, n) ==
    /\ n \in DOMAIN stories[s]
    /\ announced' = announced \cup {[cluster |-> s, version |-> n, article |-> stories[s][n]]}
    /\ UNCHANGED stories

Next ==
    \E s \in Story :
        \/ \E a \in Article : Grow(s, a)
        \/ \E n \in DOMAIN stories[s] : Announce(s, n)

Spec == Init /\ [][Next]_ledgerVars
=============================================================================
