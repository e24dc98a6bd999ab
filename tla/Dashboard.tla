------------------------------ MODULE Dashboard ------------------------------
(***************************************************************************)
(* What the browser does with its state: the store of clusters, the cards  *)
(* of the grid and the set of articles whose events it has processed.      *)
(*                                                                         *)
(* A screen is a record of these.  A cluster's article_count is kept as    *)
(* the bag of the articles it counts, which is what tells a count that is  *)
(* right by accident from one that is right.  A card shows such a bag; the *)
(* grid lists the cards from the top.  Header counters, labels, sources    *)
(* and times are left out.                                                 *)
(***************************************************************************)
EXTENDS Naturals, FiniteSets, SequencesExt

CONSTANTS
    Article,
    Cluster,
    MaxClusters     \* CONFIG.MAX_CLUSTERS, and the limit of the fetch (300)

Bag(articles) == [a \in Article |-> IF a \in articles THEN 1 ELSE 0]
Add(bag, a) == [bag EXCEPT ![a] = @ + 1]

Blank == [store |-> <<>>, grid |-> <<>>, failed |-> FALSE, processed |-> {}]

\* The cards of a cluster, by position.
CardsOf(grid, c) == {k \in DOMAIN grid : grid[k].cluster = c}
First(grid, c) == CHOOSE k \in CardsOf(grid, c) : \A j \in CardsOf(grid, c) : k <= j

\* renderFullGrid.  Cards of different clusters may come in any order.
FullGrid(store) ==
    LET order == SetToSeq(DOMAIN store)
    IN  [k \in DOMAIN order |-> [cluster |-> order[k], bag |-> store[order[k]]]]

\* fetchInitialClusters: the answer replaces the store ...
Answered(screen, snapshot) ==
    LET store == [c \in DOMAIN snapshot |-> Bag(snapshot[c])]
    IN  [screen EXCEPT !.store = store, !.grid = FullGrid(store), !.failed = FALSE]

\* ... and a failure replaces the grid by an excuse, but leaves the store alone.
Unanswered(screen) == [screen EXCEPT !.grid = <<>>, !.failed = TRUE]

\* A new cluster's card is put on top of the others, even if it has one already.
NewCluster(screen, c, a) ==
    [screen EXCEPT !.store = [d \in DOMAIN @ \cup {c} |-> IF d = c THEN Bag({a}) ELSE @[d]],
                   !.grid = <<[cluster |-> c, bag |-> Bag({a})]>> \o @,
                   !.failed = FALSE]

\* Variant: the last card of the cluster is the one that is found.
RefreshedLast(grid, c, bag) ==
    LET last == CHOOSE k \in CardsOf(grid, c) : \A j \in CardsOf(grid, c) : k >= j IN
    IF CardsOf(grid, c) = {} THEN grid
    ELSE [grid EXCEPT ![last].bag = bag]

\* updateCardDOM and moveCardToFront: getElementById finds the topmost card.
Refreshed(grid, c, bag) ==
    IF CardsOf(grid, c) = {} THEN grid
    ELSE <<[cluster |-> c, bag |-> bag]>> \o RemoveAt(grid, First(grid, c))

KnownCluster(screen, c, a) ==
    LET bag == Add(screen.store[c], a)
    IN  [screen EXCEPT !.store[c] = bag, !.grid = Refreshed(@, c, bag)]

Without(grid, c) == IF CardsOf(grid, c) = {} THEN grid ELSE RemoveAt(grid, First(grid, c))

\* enforceMemoryBound: the store is one too large, and one cluster goes.  It is
\* the one with the oldest time of either clock, so which one is left open.
Bounded(screen) ==
    IF Cardinality(DOMAIN screen.store) <= MaxClusters THEN {screen}
    ELSE {[screen EXCEPT !.store = [d \in DOMAIN @ \ {c} |-> @[d]],
                         !.grid = Without(@, c)] : c \in DOMAIN screen.store}

\* Variant: events are not remembered.
UpdatesForgetful(screen, c, a, isNew) ==
    Bounded(IF isNew \/ c \notin DOMAIN screen.store
            THEN NewCluster(screen, c, a) ELSE KnownCluster(screen, c, a))

\* handleClusterUpdate: the screens that may follow.  An article is processed
\* once.  An event of a cluster that is not in the store is passed on as that of
\* a new cluster, but by then its article counts as processed.
Updates(screen, c, a, isNew) ==
    LET noted == [screen EXCEPT !.processed = @ \cup {a}] IN
    CASE a \in screen.processed -> {screen}
      [] a \notin screen.processed /\ isNew -> Bounded(NewCluster(noted, c, a))
      [] a \notin screen.processed /\ ~ isNew /\ c \in DOMAIN screen.store ->
            Bounded(KnownCluster(noted, c, a))
      [] OTHER -> {noted}
=============================================================================
