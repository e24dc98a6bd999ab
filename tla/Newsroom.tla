------------------------------ MODULE Newsroom ------------------------------
(***************************************************************************)
(* What dedup and clustering promise together, with no cache, no handlers  *)
(* and no message bus: articles are kept in an archive that never forgets  *)
(* one; of articles that resemble each other no more than Copies are kept, *)
(* the strays apart whose resemblance was once overlooked; and the stories *)
(* of the ledger grow by articles of the archive only.                     *)
(***************************************************************************)
EXTENDS Naturals, FiniteSets

CONSTANTS
    Story, Article,
    Alike,    \* pairs of articles that resemble each other
    Copies    \* how many that all resemble each other may be kept

VARIABLES
    archive,             \* the articles that were kept
    strays,              \* the articles whose resemblance to a kept one was overlooked
    stories, announced   \* the ledger

newsVars == <<archive, strays, stories, announced>>

Ledger == INSTANCE StoryLedger

Init ==
    /\ archive = {}
    /\ strays = {}
    /\ Ledger!Init

FewCopies(kept) ==
    \A S \in SUBSET kept :
        (\A a, b \in S : <<a, b>> \in Alike) => Cardinality(S) <= Copies

Keep(a) ==
    /\ archive' = archive \cup {a}
    /\ FewCopies(archive' \ strays)
    /\ UNCHANGED <<strays, stories, announced>>

Overlook(a) ==
    /\ \E b \in archive : <<a, b>> \in Alike
    /\ strays' = strays \cup {a}
    /\ UNCHANGED <<archive, stories, announced>>

Grow(s, a) ==
    /\ a \in archive
    /\ Ledger!Grow(s, a)
    /\ UNCHANGED <<archive, strays>>

Announce(s, n) ==
    /\ Ledger!Announce(s, n)
    /\ UNCHANGED <<archive, strays>>

Next ==
    \/ \E a \in Article : Keep(a) \/ Overlook(a)
    \/ \E s \in Story, a \in Article : Grow(s, a)
    \/ \E s \in Story : \E n \in DOMAIN stories[s] : Announce(s, n)

Spec == Init /\ [][Next]_newsVars
=============================================================================
