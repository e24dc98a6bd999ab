------------------------------ MODULE MCFetcher ------------------------------
(* A small instance of the fetcher for TLC. *)
EXTENDS Fetcher

CONSTANTS p1, p2, p3, p4, d1, i1, i2, c1

OneDomain == [p \in Page |-> d1]
FeedInDomain == [c \in Command |-> d1]

\* The item that is not malformed asks for a page that makes no valid payload.
PageOfItem == [i \in Item |-> p2]

\* A thin page, an entry without a link, a link that occurs twice, one that urlparse
\* refuses, and one entry too many.
FeedEntries == [c \in Command |-> <<p4, None, p1, p4, p3, p2>>]
=============================================================================
