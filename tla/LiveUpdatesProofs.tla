--------------------------- MODULE LiveUpdatesProofs ---------------------------
(***************************************************************************)
(* What holds of the live updates for every number of articles, clusters,  *)
(* sockets, fetches and faults.                                            *)
(***************************************************************************)
EXTENDS LiveUpdates, CommonLemmas, WellFoundedInduction

-----------------------------------------------------------------------------
(* Screens *)

Bags == [Article -> Nat]
Stores == UNION {[C -> Bags] : C \in SUBSET Cluster}
Card == [cluster : Cluster, bag : Bags]
Screens == [store : Stores, grid : Seq(Card), failed : BOOLEAN, processed : SUBSET Article]

\* The topmost card of a cluster shows this bag, if it has a card.
TopShows(grid, c, bag) ==
    \A k \in Page!CardsOf(grid, c) :
        (\A j \in Page!CardsOf(grid, c) : k <= j) => grid[k].bag = bag

\* The topmost card of a cluster in the store shows what the store holds.
Current(store, grid) == \A c \in DOMAIN store : TopShows(grid, c, store[c])

\* A count is made of stored articles: of each one from an answer and, if its event
\* was processed, one from that.
Grounded(store, processed, rows) ==
    \A c \in DOMAIN store : \A a \in Article :
        store[c][a] <= IF a \notin rows[c] THEN 0 ELSE IF a \in processed THEN 2 ELSE 1

\* A store maps some clusters to bags.
LEMMA StoreProperties ==
    ASSUME NEW st
    PROVE  st \in Stores <=> DOMAIN st \subseteq Cluster /\ st \in [DOMAIN st -> Bags]
<1>1. ASSUME st \in Stores
      PROVE  DOMAIN st \subseteq Cluster /\ st \in [DOMAIN st -> Bags]
  <2>1. PICK C \in SUBSET Cluster : st \in [C -> Bags]
    BY <1>1 DEF Stores
  <2>. QED
    BY <2>1
<1>2. ASSUME DOMAIN st \subseteq Cluster, st \in [DOMAIN st -> Bags]
      PROVE  st \in Stores
    BY <1>2 DEF Stores
<1>. QED
    BY <1>1, <1>2

\* Of the cards of a cluster that has one, First is the topmost.
LEMMA FirstProperties ==
    ASSUME NEW grid \in Seq(Card), NEW c, Page!CardsOf(grid, c) # {}
    PROVE  /\ Page!First(grid, c) \in 1 .. Len(grid)
           /\ grid[Page!First(grid, c)].cluster = c
           /\ \A j \in Page!CardsOf(grid, c) : Page!First(grid, c) <= j
<1>. DEFINE T == Page!CardsOf(grid, c)
<1>1. T \subseteq 1 .. Len(grid) /\ \A k \in T : grid[k].cluster = c
    BY DEF Page!CardsOf
<1>. DEFINE Less == {p \in Nat \X Nat : p[1] < p[2]}
<1>2. IsWellFoundedOn(Less, Nat)
    BY NatLessThanWellFounded, Zenon DEF OpToRel
<1>3. T \subseteq Nat
    BY <1>1
<1>4. PICK k \in T : \A j \in T : ~ (<<j, k>> \in Less)
    BY <1>2, <1>3, WFMin
<1>5. \A j \in T : k <= j
  <2>1. ASSUME NEW j \in T, j < k
        PROVE  FALSE
    <3>1. <<j, k>> \in Nat \X Nat /\ <<j, k>>[1] < <<j, k>>[2]
      BY <1>3, <2>1
    <3>. QED
      BY <1>4, <3>1
  <2>. QED
    BY <1>3, <2>1
<1>. HIDE DEF T
<1>6. \E i \in T : \A j \in T : i <= j
    BY <1>5
<1>7. /\ Page!First(grid, c) \in T
      /\ \A j \in T : Page!First(grid, c) <= j
    BY <1>6 DEF Page!First, T
<1>. QED
    BY <1>1, <1>7 DEF T

\* A card on top of the grid is the topmost of its cluster, and of no other.
LEMMA OnTop ==
    ASSUME NEW grid \in Seq(Card), NEW card \in Card
    PROVE  /\ <<card>> \o grid \in Seq(Card)
           /\ TopShows(<<card>> \o grid, card.cluster, card.bag)
           /\ \A d, bag : d # card.cluster /\ TopShows(grid, d, bag)
                            => TopShows(<<card>> \o grid, d, bag)
<1>. DEFINE t == <<card>> \o grid
<1>1. /\ t \in Seq(Card) /\ Len(t) = Len(grid) + 1 /\ t[1] = card
      /\ \A k \in 1 .. Len(grid) : t[k + 1] = grid[k]
    OBVIOUS
<1>. HIDE DEF t
<1>2. TopShows(t, card.cluster, card.bag)
    BY <1>1 DEF TopShows, Page!CardsOf
<1>3. ASSUME NEW d, NEW bag, d # card.cluster, TopShows(grid, d, bag),
             NEW k \in Page!CardsOf(t, d), \A j \in Page!CardsOf(t, d) : k <= j
      PROVE  t[k].bag = bag
  <2>1. k \in 2 .. Len(t) /\ t[k].cluster = d
    BY <1>1, <1>3 DEF Page!CardsOf
  <2>2. k - 1 \in 1 .. Len(grid) /\ t[k] = grid[k - 1]
    BY <1>1, <2>1
  <2>3. k - 1 \in Page!CardsOf(grid, d)
    BY <2>1, <2>2 DEF Page!CardsOf
  <2>4. ASSUME NEW j \in Page!CardsOf(grid, d)
        PROVE  k - 1 <= j
    <3>1. j \in 1 .. Len(grid) /\ grid[j].cluster = d
      BY DEF Page!CardsOf
    <3>2. j + 1 \in Page!CardsOf(t, d)
      BY <1>1, <3>1 DEF Page!CardsOf
    <3>. QED
      BY <1>3, <2>1, <3>1, <3>2
  <2>. QED
    BY <1>3, <2>2, <2>3, <2>4 DEF TopShows
<1>. QED
    BY <1>1, <1>2, <1>3 DEF TopShows, t

\* Taking out a cluster's first card leaves the other clusters' as they were.
LEMMA WithoutFirst ==
    ASSUME NEW grid \in Seq(Card), NEW c, Page!CardsOf(grid, c) # {}
    PROVE  /\ Page!RemoveAt(grid, Page!First(grid, c)) \in Seq(Card)
           /\ \A d, bag : d # c /\ TopShows(grid, d, bag)
                => TopShows(Page!RemoveAt(grid, Page!First(grid, c)), d, bag)
<1>. DEFINE i == Page!First(grid, c)
            t == Page!RemoveAt(grid, i)
<1>1. i \in 1 .. Len(grid) /\ grid[i].cluster = c
    BY FirstProperties
<1>. HIDE DEF i
<1>2. t = RemoveAt(grid, i)
    BY DEF Page!RemoveAt, RemoveAt
<1>3. /\ t \in Seq(Card)
      /\ Len(t) = Len(grid) - 1
      /\ \A j \in 1 .. Len(grid) - 1 : t[j] = IF j < i THEN grid[j] ELSE grid[j + 1]
    BY <1>1, <1>2, RemoveAtProperties
<1>. HIDE DEF t
<1>4. ASSUME NEW d, NEW bag, d # c, TopShows(grid, d, bag),
             NEW k \in Page!CardsOf(t, d), \A j \in Page!CardsOf(t, d) : k <= j
      PROVE  t[k].bag = bag
  <2>. DEFINE origin == IF k < i THEN k ELSE k + 1
  <2>1. k \in 1 .. Len(grid) - 1 /\ t[k].cluster = d
    BY <1>3, <1>4 DEF Page!CardsOf
  <2>2. origin \in 1 .. Len(grid) /\ t[k] = grid[origin]
    BY <1>1, <1>3, <2>1
  <2>3. origin \in Page!CardsOf(grid, d)
    BY <2>1, <2>2 DEF Page!CardsOf
  <2>4. ASSUME NEW j \in Page!CardsOf(grid, d)
        PROVE  origin <= j
    <3>. DEFINE place == IF j < i THEN j ELSE j - 1
    <3>1. j \in 1 .. Len(grid) /\ grid[j].cluster = d /\ j # i
      BY <1>1, <1>4 DEF Page!CardsOf
    <3>2. place \in 1 .. Len(grid) - 1 /\ t[place] = grid[j]
      BY <1>1, <1>3, <3>1
    <3>3. place \in Page!CardsOf(t, d)
      BY <1>3, <3>1, <3>2 DEF Page!CardsOf
    <3>4. k <= place
      BY <1>4, <3>3
    <3>. QED
      BY <1>1, <2>1, <3>1, <3>4
  <2>. HIDE DEF origin
  <2>. QED
    BY <1>4, <2>2, <2>3, <2>4 DEF TopShows
<1>. QED
    BY <1>3, <1>4 DEF TopShows, t, i

\* A finite set as a sequence.
LEMMA SetToSeqProperties ==
    ASSUME NEW S, IsFiniteSet(S)
    PROVE  Page!SetToSeq(S) \in Seq(S)
<1>. DEFINE n == Cardinality(S)
<1>1. Page!Cardinality(S) = n
    BY DEF Page!Cardinality, Cardinality
<1>2. n \in Nat /\ ExistsBijection(1 .. n, S)
    BY FS_CardinalityType
<1>. HIDE DEF n
<1>3. PICK f \in [1 .. n -> S] : \A a, b \in DOMAIN f : f[a] = f[b] => a = b
    BY <1>2 DEF ExistsBijection, Bijection, Injection, IsInjective
<1>4. Page!SetToSeq(S) \in [1 .. n -> S]
    BY <1>1, <1>3 DEF Page!SetToSeq, Page!IsInjective
<1>. QED
    BY <1>2, <1>4

-----------------------------------------------------------------------------
(* What the browser does to its screen *)

\* What the handlers rely on.
Right(scr, rows) ==
    /\ scr \in Screens
    /\ Current(scr.store, scr.grid)
    /\ Grounded(scr.store, scr.processed, rows)

\* The bag of some articles.
LEMMA BagProperties ==
    ASSUME NEW S
    PROVE  /\ Page!Bag(S) \in Bags
           /\ \A a \in Article : Page!Bag(S)[a] = IF a \in S THEN 1 ELSE 0
    BY DEF Page!Bag, Bags

\* The components of a screen.
LEMMA ScreenFields ==
    ASSUME NEW scr
    PROVE  scr \in Screens <=>
             /\ scr = [store |-> scr.store, grid |-> scr.grid, failed |-> scr.failed,
                       processed |-> scr.processed]
             /\ scr.store \in Stores /\ scr.grid \in Seq(Card) /\ scr.failed \in BOOLEAN
             /\ scr.processed \subseteq Article
    BY DEF Screens

\* The full grid has a card for what is in the store, and for nothing else.
LEMMA FullGridProperties ==
    ASSUME NEW store \in Stores
    PROVE  Page!FullGrid(store) \in Seq(Card) /\ Current(store, Page!FullGrid(store))
<1>. DEFINE order == Page!SetToSeq(DOMAIN store)
            grid == Page!FullGrid(store)
<1>1. DOMAIN store \subseteq Cluster /\ store \in [DOMAIN store -> Bags]
    BY StoreProperties
<1>2. IsFiniteSet(DOMAIN store)
    BY <1>1, LiveAssumption, FS_Subset DEF LiveAssumption
<1>3. order \in Seq(DOMAIN store)
    BY <1>2, SetToSeqProperties
<1>4. grid = [k \in DOMAIN order |-> [cluster |-> order[k], bag |-> store[order[k]]]]
    BY DEF Page!FullGrid
<1>. HIDE DEF order, grid
<1>5. /\ DOMAIN grid = 1 .. Len(order) /\ Len(order) \in Nat
      /\ \A k \in 1 .. Len(order) : /\ order[k] \in DOMAIN store
                                    /\ grid[k] = [cluster |-> order[k], bag |-> store[order[k]]]
    BY <1>3, <1>4
<1>6. \A k \in 1 .. Len(order) : grid[k] \in Card
    BY <1>1, <1>5 DEF Card
<1>7. grid \in Seq(Card)
  <2>1. grid \in [1 .. Len(order) -> Card]
    BY <1>4, <1>5, <1>6
  <2>. QED
    BY <1>5, <2>1
<1>8. Current(store, grid)
    BY <1>5 DEF Current, TopShows, Page!CardsOf
<1>. QED
    BY <1>7, <1>8 DEF grid

\* An answer makes the screen right, whatever it was.
LEMMA AnsweredIsRight ==
    ASSUME NEW scr \in Screens, NEW rows, NEW snapshot \in Snapshot,
           \A c \in DOMAIN snapshot : snapshot[c] \subseteq rows[c]
    PROVE  Right(Page!Answered(scr, snapshot), rows)
<1>. DEFINE store == [c \in DOMAIN snapshot |-> Page!Bag(snapshot[c])]
            next == Page!Answered(scr, snapshot)
<1>1. DOMAIN snapshot \subseteq Cluster
  <2>1. PICK C \in SUBSET Cluster : snapshot \in [C -> SUBSET Article]
    BY DEF Snapshot
  <2>. QED
    BY <2>1
<1>2. store \in [DOMAIN snapshot -> Bags]
    BY BagProperties
<1>3. store \in Stores
    BY <1>1, <1>2 DEF Stores
<1>4. next = [scr EXCEPT !.store = store, !.grid = Page!FullGrid(store), !.failed = FALSE]
    BY DEF Page!Answered
<1>5. Page!FullGrid(store) \in Seq(Card) /\ Current(store, Page!FullGrid(store))
    BY <1>3, FullGridProperties
<1>6. Grounded(store, scr.processed, rows)
    BY BagProperties DEF Grounded
<1>. HIDE DEF store, next
<1>7. next \in Screens
    BY <1>3, <1>4, <1>5 DEF Screens
<1>8. /\ next.store = store /\ next.grid = Page!FullGrid(store)
      /\ next.processed = scr.processed
    BY <1>4 DEF Screens
<1>. QED
    BY <1>5, <1>6, <1>7, <1>8 DEF Right, next

\* A new cluster, with an article that was not counted before.
LEMMA NewClusterIsRight ==
    ASSUME NEW rows, NEW scr, Right(scr, rows), NEW c \in Cluster, NEW a \in Article,
           a \in rows[c], a \in scr.processed
    PROVE  /\ Right(Page!NewCluster(scr, c, a), rows)
           /\ Page!NewCluster(scr, c, a).processed = scr.processed
<1>. DEFINE store == [d \in DOMAIN scr.store \cup {c} |->
                        IF d = c THEN Page!Bag({a}) ELSE scr.store[d]]
            card == [cluster |-> c, bag |-> Page!Bag({a})]
            grid == <<card>> \o scr.grid
            next == Page!NewCluster(scr, c, a)
<1>1. /\ scr \in Screens /\ scr.store \in Stores /\ scr.grid \in Seq(Card)
      /\ DOMAIN scr.store \subseteq Cluster /\ scr.store \in [DOMAIN scr.store -> Bags]
    BY StoreProperties DEF Right, Screens
<1>2. store \in Stores
  <2>1. /\ DOMAIN store \subseteq Cluster
        /\ store \in [DOMAIN store -> Bags]
    BY <1>1, BagProperties
  <2>. QED
    BY <2>1, StoreProperties
<1>3. card \in Card
    BY BagProperties DEF Card
<1>4. grid \in Seq(Card) /\ Current(store, grid)
  <2>1. /\ grid \in Seq(Card) /\ TopShows(grid, c, Page!Bag({a}))
        /\ \A d, bag : d # c /\ TopShows(scr.grid, d, bag) => TopShows(grid, d, bag)
    BY <1>1, <1>3, OnTop
  <2>2. \A d \in DOMAIN scr.store : TopShows(scr.grid, d, scr.store[d])
    BY DEF Right, Current
  <2>. QED
    BY <2>1, <2>2 DEF Current
<1>5. Grounded(store, scr.processed, rows)
    BY BagProperties DEF Grounded, Right
<1>6. next = [scr EXCEPT !.store = store, !.grid = grid, !.failed = FALSE]
    BY DEF Page!NewCluster
<1>. HIDE DEF store, grid, next
<1>7. next \in Screens
    BY <1>1, <1>2, <1>4, <1>6 DEF Screens
<1>8. next.store = store /\ next.grid = grid /\ next.processed = scr.processed
    BY <1>1, <1>6 DEF Screens
<1>. QED
    BY <1>4, <1>5, <1>7, <1>8 DEF Right, next

\* updateCardDOM shows the bag on top, and leaves the other clusters' cards alone.
LEMMA RefreshedProperties ==
    ASSUME NEW grid \in Seq(Card), NEW c \in Cluster, NEW bag \in Bags
    PROVE  /\ Page!Refreshed(grid, c, bag) \in Seq(Card)
           /\ TopShows(Page!Refreshed(grid, c, bag), c, bag)
           /\ \A d, b : d # c /\ TopShows(grid, d, b)
                            => TopShows(Page!Refreshed(grid, c, bag), d, b)
<1>1. CASE Page!CardsOf(grid, c) = {}
    BY <1>1 DEF Page!Refreshed, TopShows
<1>2. CASE Page!CardsOf(grid, c) # {}
  <2>. DEFINE card == [cluster |-> c, bag |-> bag]
              rest == Page!RemoveAt(grid, Page!First(grid, c))
  <2>1. card \in Card /\ card.cluster = c /\ card.bag = bag
    BY DEF Card
  <2>2. /\ rest \in Seq(Card)
        /\ \A d, b : d # c /\ TopShows(grid, d, b) => TopShows(rest, d, b)
    BY <1>2, WithoutFirst
  <2>3. Page!Refreshed(grid, c, bag) = <<card>> \o rest
    BY <1>2 DEF Page!Refreshed
  <2>. HIDE DEF card, rest
  <2>. QED
    BY <2>1, <2>2, <2>3, OnTop
<1>. QED
    BY <1>1, <1>2

\* A cluster of the store, with an article whose event was not processed before.
LEMMA KnownClusterIsRight ==
    ASSUME NEW rows, NEW scr, NEW old, Right(old, rows), NEW c \in DOMAIN old.store,
           NEW a \in Article, a \in rows[c], a \notin old.processed,
           scr = [old EXCEPT !.processed = @ \cup {a}]
    PROVE  Right(Page!KnownCluster(scr, c, a), rows)
<1>. DEFINE bag == Page!Add(scr.store[c], a)
            store == [scr.store EXCEPT ![c] = bag]
            grid == Page!Refreshed(scr.grid, c, bag)
            next == Page!KnownCluster(scr, c, a)
<1>1. /\ scr \in Screens /\ scr.store = old.store /\ scr.grid = old.grid
      /\ scr.processed = old.processed \cup {a}
      /\ old.store \in Stores /\ old.grid \in Seq(Card)
    BY DEF Right, Screens
<1>2. DOMAIN old.store \subseteq Cluster /\ old.store \in [DOMAIN old.store -> Bags]
    BY <1>1, StoreProperties
<1>3. /\ bag \in Bags
      /\ \A b \in Article : bag[b] = old.store[c][b] + (IF b = a THEN 1 ELSE 0)
    BY <1>1, <1>2 DEF Page!Add, Bags
<1>4. /\ store \in [DOMAIN old.store -> Bags]
      /\ store[c] = bag
      /\ \A d \in DOMAIN old.store : d # c => store[d] = old.store[d]
    BY <1>1, <1>2, <1>3
<1>. HIDE DEF bag, store
<1>5. store \in Stores /\ DOMAIN store = DOMAIN old.store
    BY <1>2, <1>4 DEF Stores
<1>6. grid \in Seq(Card) /\ Current(store, grid)
  <2>1. /\ grid \in Seq(Card) /\ TopShows(grid, c, bag)
        /\ \A d, b : d # c /\ TopShows(old.grid, d, b) => TopShows(grid, d, b)
    BY <1>1, <1>2, <1>3, RefreshedProperties
  <2>2. \A d \in DOMAIN old.store : TopShows(old.grid, d, old.store[d])
    BY DEF Right, Current
  <2>. QED
    BY <1>4, <1>5, <2>1, <2>2 DEF Current
<1>7. Grounded(store, scr.processed, rows)
  <2>1. ASSUME NEW d \in DOMAIN old.store, NEW b \in Article
        PROVE  store[d][b] <= IF b \notin rows[d] THEN 0
                              ELSE IF b \in scr.processed THEN 2 ELSE 1
    <3>1. old.store[d][b] <= IF b \notin rows[d] THEN 0
                             ELSE IF b \in old.processed THEN 2 ELSE 1
      BY DEF Right, Grounded
    <3>2. old.store[d][b] \in Nat
      BY <1>2 DEF Bags
    <3>3. CASE d = c /\ b = a
      BY <1>1, <1>3, <1>4, <3>1, <3>2, <3>3
    <3>4. CASE d = c /\ b # a
      BY <1>1, <1>3, <1>4, <3>1, <3>2, <3>4
    <3>5. CASE d # c
      BY <1>1, <1>4, <3>1, <3>2, <3>5
    <3>. QED
      BY <3>3, <3>4, <3>5
  <2>. QED
    BY <1>5, <2>1 DEF Grounded
<1>8. next = [scr EXCEPT !.store = store, !.grid = grid]
    BY DEF Page!KnownCluster, bag, store
<1>. HIDE DEF grid, next
<1>9. next \in Screens
    BY <1>1, <1>5, <1>6, <1>8 DEF Screens
<1>10. next.store = store /\ next.grid = grid /\ next.processed = scr.processed
    BY <1>1, <1>8 DEF Screens
<1>. QED
    BY <1>6, <1>7, <1>9, <1>10 DEF Right, next

\* Whichever cluster is evicted, what is left is right.
LEMMA BoundedIsRight ==
    ASSUME NEW rows, NEW scr, Right(scr, rows), NEW next \in Page!Bounded(scr)
    PROVE  Right(next, rows) /\ next.processed = scr.processed
<1>1. CASE next = scr
    BY <1>1
<1>2. CASE next # scr
  <2>1. PICK c \in DOMAIN scr.store :
            next = [scr EXCEPT !.store = [d \in DOMAIN @ \ {c} |-> @[d]],
                               !.grid = Page!Without(@, c)]
    BY <1>2 DEF Page!Bounded
  <2>. DEFINE store == [d \in DOMAIN scr.store \ {c} |-> scr.store[d]]
              grid == Page!Without(scr.grid, c)
  <2>2. next = [scr EXCEPT !.store = store, !.grid = grid]
    BY <2>1
  <2>3. /\ scr \in Screens /\ scr.store \in Stores /\ scr.grid \in Seq(Card)
        /\ DOMAIN scr.store \subseteq Cluster /\ scr.store \in [DOMAIN scr.store -> Bags]
    BY StoreProperties DEF Right, Screens
  <2>4. store \in Stores
    <3>1. DOMAIN store \subseteq Cluster /\ store \in [DOMAIN store -> Bags]
      BY <2>3
    <3>. QED
      BY <3>1, StoreProperties
  <2>5. grid \in Seq(Card) /\ Current(store, grid)
    <3>1. /\ grid \in Seq(Card)
          /\ \A d, bag : d # c /\ TopShows(scr.grid, d, bag) => TopShows(grid, d, bag)
      BY <2>3, WithoutFirst DEF Page!Without
    <3>2. \A d \in DOMAIN scr.store : TopShows(scr.grid, d, scr.store[d])
      BY DEF Right, Current
    <3>. QED
      BY <3>1, <3>2 DEF Current
  <2>6. Grounded(store, scr.processed, rows)
    BY DEF Right, Grounded
  <2>. HIDE DEF store, grid
  <2>7. next \in Screens
    BY <2>2, <2>3, <2>4, <2>5 DEF Screens
  <2>8. next.store = store /\ next.grid = grid /\ next.processed = scr.processed
    BY <2>2, <2>3 DEF Screens
  <2>. QED
    BY <2>5, <2>6, <2>7, <2>8 DEF Right
<1>. QED
    BY <1>1, <1>2

\* handleClusterUpdate leaves the screen right, whether the event is new or not.
LEMMA UpdatesAreRight ==
    ASSUME NEW rows, NEW scr, Right(scr, rows), NEW c \in Cluster, NEW a \in Article,
           a \in rows[c], NEW isNew \in BOOLEAN, NEW next \in Page!Updates(scr, c, a, isNew)
    PROVE  Right(next, rows)
<1>. DEFINE noted == [scr EXCEPT !.processed = @ \cup {a}]
<1>1. /\ noted \in Screens /\ noted.store = scr.store /\ noted.grid = scr.grid
      /\ noted.processed = scr.processed \cup {a}
    BY DEF Right, Screens
<1>2. Right(noted, rows)
  <2>1. Grounded(scr.store, scr.processed \cup {a}, rows)
    <3>1. ASSUME NEW d \in DOMAIN scr.store, NEW b \in Article
          PROVE  scr.store[d][b] <= IF b \notin rows[d] THEN 0
                                    ELSE IF b \in scr.processed \cup {a} THEN 2 ELSE 1
      <4>1. scr.store[d][b] <= IF b \notin rows[d] THEN 0
                               ELSE IF b \in scr.processed THEN 2 ELSE 1
        BY DEF Right, Grounded
      <4>2. scr.store[d][b] \in Nat
        BY StoreProperties DEF Right, Screens, Bags
      <4>. QED
        BY <4>1, <4>2
    <3>. QED
      BY <3>1 DEF Grounded
  <2>. QED
    BY <1>1, <2>1 DEF Right
<1>3. CASE a \in scr.processed
    BY <1>3 DEF Page!Updates
<1>4. CASE a \notin scr.processed /\ isNew
  <2>1. next \in Page!Bounded(Page!NewCluster(noted, c, a))
    BY <1>4 DEF Page!Updates
  <2>2. Right(Page!NewCluster(noted, c, a), rows)
    BY <1>1, <1>2, NewClusterIsRight
  <2>. QED
    BY <2>1, <2>2, BoundedIsRight
<1>5. CASE a \notin scr.processed /\ ~ isNew /\ c \in DOMAIN scr.store
  <2>1. next \in Page!Bounded(Page!KnownCluster(noted, c, a))
    BY <1>5 DEF Page!Updates
  <2>2. Right(Page!KnownCluster(noted, c, a), rows)
    BY <1>5, KnownClusterIsRight
  <2>. QED
    BY <2>1, <2>2, BoundedIsRight
<1>6. CASE a \notin scr.processed /\ ~ isNew /\ c \notin DOMAIN scr.store
    BY <1>2, <1>6 DEF Page!Updates
<1>. QED
    BY <1>3, <1>4, <1>5, <1>6

-----------------------------------------------------------------------------
(* Types, and what the hub knows *)

\* The types of all but the screen, and the facts that they rest on: a message in
\* the queue has deliveries left, and nothing is sent unless something is broadcast.
LiveType ==
    /\ Bus!TypeOK
    /\ \A a \in Article : mstate[a] \in {"unsent", "queued"} => delivered[a] < MaxDeliver
    /\ db \in [Cluster -> SUBSET Article]
    /\ founder \in [Cluster -> Article \cup {None}]
    /\ active \subseteq Socket
    /\ endpoint \in [Socket -> Endpoint]
    /\ message \in Article \cup {None}
    /\ sending \in [Socket -> Todo]
    /\ \A s \in Socket : sending[s] = "send" => message # None
    /\ wire \in [Socket -> Seq(Article)]
    /\ link \in [Socket -> Link]
    /\ resync \in BOOLEAN
    /\ fetch \in [Fetch -> [stage : Asking, answer : Snapshot]]
    /\ faults \in 0 .. MaxFaults

\* What the numbers are.
LEMMA NumbersAssumed ==
    /\ MaxSockets \in Nat \ {0} /\ MaxFetches \in Nat \ {0} /\ MaxDeliver \in Nat \ {0}
    /\ MaxFaults \in Nat
    BY LiveAssumption DEF LiveAssumption

\* No answer is an answer about no cluster.
LEMMA NoAnswerIsSnapshot == NoAnswer \in Snapshot
<1>1. NoAnswer \in [{} -> SUBSET Article]
    BY DEF NoAnswer
<1>. QED
    BY <1>1 DEF Snapshot

\* Asking, answering and giving up leave the list of fetches well-formed.
LEMMA FetchesStay ==
    ASSUME NEW fetches \in [Fetch -> [stage : Asking, answer : Snapshot]]
    PROVE  /\ Ask(fetches) \in [Fetch -> [stage : Asking, answer : Snapshot]]
           /\ Over \in [stage : Asking, answer : Snapshot]
           /\ \A i \in Fetch : Ask(fetches)[i].answer = fetches[i].answer
<1>1. Over \in [stage : Asking, answer : Snapshot]
    BY NoAnswerIsSnapshot DEF Over, Asking
<1>2. ASSUME NEW i \in Fetch
      PROVE  /\ [fetches[i] EXCEPT !.stage = "asked"] \in [stage : Asking, answer : Snapshot]
             /\ [fetches[i] EXCEPT !.stage = "asked"].answer = fetches[i].answer
    BY DEF Asking
<1>. QED
    BY <1>1, <1>2 DEF Ask

\* The initial state is well-typed.
LEMMA InitType == Init => LiveType
<1>. SUFFICES ASSUME Init PROVE LiveType
    OBVIOUS
<1>. USE NumbersAssumed
<1>1. Bus!TypeOK /\ \A a \in Article : mstate[a] = "unsent" => delivered[a] < MaxDeliver
    BY DEF Init, Bus!TypeOK, Bus!MsgState
<1>2. \A a \in Article : mstate[a] # "queued"
    BY DEF Init
<1>3. /\ db \in [Cluster -> SUBSET Article]
      /\ founder \in [Cluster -> Article \cup {None}]
    BY LiveAssumption DEF Init, LiveAssumption
<1>4. fetch \in [Fetch -> [stage : Asking, answer : Snapshot]]
    BY NoAnswerIsSnapshot DEF Init, Asking
<1>5. wire \in [Socket -> Seq(Article)]
    BY DEF Init
<1>6. /\ endpoint \in [Socket -> Endpoint] /\ link \in [Socket -> Link]
      /\ sending \in [Socket -> Todo] /\ \A s \in Socket : sending[s] # "send"
    BY DEF Init, Endpoint, Link, Todo
<1>7. active \subseteq Socket /\ message = None /\ faults = 0 /\ resync = FALSE
    BY Zenon DEF Init
<1>8. message \in Article \cup {None} /\ faults \in 0 .. MaxFaults
    BY <1>7
<1>9. resync \in BOOLEAN
    BY <1>7, Zenon
<1>10. \A a \in Article : mstate[a] \in {"unsent", "queued"} => delivered[a] < MaxDeliver
    BY <1>1, <1>2
<1>11. active \subseteq Socket
    BY <1>7
<1>12. \A s \in Socket : sending[s] = "send" => message # None
    BY <1>6
<1>. QED
    BY <1>1, <1>3, <1>4, <1>5, <1>6, <1>8, <1>9, <1>10, <1>11, <1>12, Zenon DEF LiveType

\* No step leaves the types.
LEMMA TypeStep ==
    ASSUME LiveType, Next
    PROVE  LiveType'
<1>. USE NumbersAssumed
     DEF LiveType, busVars, dbVars, hubVars, browserVars, Fault, Todo, Endpoint, Link
<1>1. ASSUME NEW a \in Article, Commit(a)
      PROVE  LiveType'
    BY <1>1, LiveAssumption
    DEF Commit, Bus!Publish, Bus!TypeOK, Bus!MsgState, LiveAssumption
<1>2. ASSUME NEW a \in Article, Broadcast(a)
      PROVE  LiveType'
  <2>1. Bus!TypeOK' /\ \A b \in Article : mstate'[b] \in {"unsent", "queued"} =>
                                            delivered'[b] < MaxDeliver
    BY <1>2 DEF Broadcast, Bus!Deliver, Bus!TypeOK, Bus!MsgState
  <2>2. sending' \in [Socket -> Todo] /\ message' \in Article /\ message' # None
    BY <1>2, LiveAssumption DEF Broadcast, LiveAssumption
  <2>. QED
    BY <1>2, <2>1, <2>2 DEF Broadcast
<1>3. ASSUME NEW a \in Article, AckWait(a)
      PROVE  LiveType'
    BY <1>3 DEF AckWait, Bus!AckWait, Bus!Requeued, Bus!TypeOK, Bus!MsgState
<1>4. CASE AckBroadcast
    BY <1>4 DEF AckBroadcast, Bus!Ack, Bus!Settled, Bus!TypeOK, Bus!MsgState
<1>5. ASSUME NEW s \in Socket, Deliver(s) \/ SendTimesOut(s)
      PROVE  LiveType'
  <2>1. /\ UNCHANGED <<busVars, dbVars, endpoint, message, browserVars>>
        /\ \E todo \in {"nothing", "remove"} : sending' = [sending EXCEPT ![s] = todo]
        /\ active' \subseteq active
        /\ faults' \in 0 .. MaxFaults
    BY <1>5 DEF Deliver, Send, SendToGone, Disconnect, SendTimesOut, Reached
  <2>2. wire' \in [Socket -> Seq(Article)]
    <3>1. CASE Send(s)
      BY <3>1 DEF Send
    <3>2. CASE SendToGone(s) \/ Disconnect(s)
      BY <3>2 DEF SendToGone, Disconnect
    <3>3. CASE SendTimesOut(s)
      <4>1. message \in Article /\ wire[s] \in Seq(Article)
        BY <3>3 DEF SendTimesOut
      <4>2. PICK late \in {<<>>, <<message>>} : wire' = [wire EXCEPT ![s] = @ \o late]
        BY <3>3 DEF SendTimesOut
      <4>3. late \in Seq(Article)
        <5>1. <<>> \in Seq(Article) /\ <<message>> \in Seq(Article)
          BY <4>1
        <5>. QED
          BY <4>2, <5>1
      <4>4. wire[s] \o late \in Seq(Article)
        BY <4>1, <4>3
      <4>. QED
        BY <4>2, <4>4
    <3>. QED
      BY <1>5, <3>1, <3>2, <3>3 DEF Deliver
  <2>. QED
    BY <2>1, <2>2 DEF Bus!TypeOK
<1>6. ASSUME NEW s \in Socket, ServeSocket(s) \/ PingTimesOut(s)
      PROVE  LiveType'
  <2>1. /\ UNCHANGED <<busVars, dbVars, message, sending, wire, browserVars>>
        /\ \E to \in Endpoint : endpoint' = [endpoint EXCEPT ![s] = to]
        /\ active' \subseteq active \cup {s}
        /\ faults' \in 0 .. MaxFaults
    BY <1>6 DEF ServeSocket, Accept, Register, PingFails, PingTimesOut, EndServe, Serve
  <2>. QED
    BY <2>1 DEF Bus!TypeOK
<1>7. CASE Crash
    BY <1>7 DEF Crash, Bus!TypeOK
<1>8. ASSUME NEW s \in Socket, Open(s)
      PROVE  LiveType'
  <2>1. fetch' \in [Fetch -> [stage : Asking, answer : Snapshot]]
    BY <1>8, FetchesStay DEF Open
  <2>. QED
    BY <1>8, <2>1 DEF Open, Bus!TypeOK
<1>9. ASSUME NEW s \in Socket, Closed(s) \/ Drop(s) \/ Refused(s) \/ Reconnect(s)
      PROVE  LiveType'
  <2>1. /\ UNCHANGED <<busVars, dbVars, active, message, sending, fetch, screen>>
        /\ \/ endpoint' = endpoint
           \/ \E to \in Endpoint : endpoint' = [endpoint EXCEPT ![s] = to]
        /\ \E to \in Link : link' = [link EXCEPT ![s] = to]
        /\ wire' = wire \/ wire' = [wire EXCEPT ![s] = <<>>]
        /\ resync' \in BOOLEAN
        /\ faults' \in 0 .. MaxFaults
    <3>1. ASSUME Closed(s) \/ Drop(s) \/ Refused(s)
          PROVE  Close(s) /\ endpoint' \in {endpoint, [endpoint EXCEPT ![s] = "closed"]}
                 /\ faults' \in 0 .. MaxFaults
      BY <3>1 DEF Closed, Drop, Refused, Close
    <3>2. CASE Reconnect(s)
      BY <3>2 DEF Reconnect
    <3>. QED
      BY <1>9, <3>1, <3>2 DEF Close
  <2>2. wire' \in [Socket -> Seq(Article)]
    <3>1. <<>> \in Seq(Article)
      OBVIOUS
    <3>. QED
      BY <2>1, <3>1
  <2>3. endpoint' \in [Socket -> Endpoint] /\ link' \in [Socket -> Link]
    BY <2>1
  <2>. QED
    BY <2>1, <2>2, <2>3 DEF Bus!TypeOK
<1>10. ASSUME NEW s \in Socket, Receive(s)
      PROVE  LiveType'
  <2>1. wire' \in [Socket -> Seq(Article)]
    BY <1>10 DEF Receive
  <2>. QED
    BY <1>10, <2>1 DEF Receive, Bus!TypeOK
<1>11. ASSUME NEW i \in Fetch, Read(i)
      PROVE  LiveType'
  <2>1. PICK C \in SUBSET Cluster :
            fetch' = [fetch EXCEPT ![i] = [stage |-> "answered", answer |-> [c \in C |-> db[c]]]]
    BY <1>11 DEF Read
  <2>2. [c \in C |-> db[c]] \in Snapshot
    BY DEF Snapshot
  <2>3. fetch' \in [Fetch -> [stage : Asking, answer : Snapshot]]
    BY <2>1, <2>2 DEF Asking
  <2>. QED
    BY <1>11, <2>3 DEF Read, Bus!TypeOK
<1>12. ASSUME NEW i \in Fetch, Answer(i) \/ FetchFails(i)
      PROVE  LiveType'
  <2>1. fetch' \in [Fetch -> [stage : Asking, answer : Snapshot]]
    BY <1>12, FetchesStay DEF Answer, FetchFails
  <2>. QED
    BY <1>12, <2>1 DEF Answer, FetchFails, Bus!TypeOK
<1>13. CASE Retry
  <2>1. fetch' \in [Fetch -> [stage : Asking, answer : Snapshot]]
    BY <1>13, FetchesStay DEF Retry
  <2>. QED
    BY <1>13, <2>1 DEF Retry, Bus!TypeOK
<1>. QED
    BY <1>1, <1>2, <1>3, <1>4, <1>5, <1>6, <1>7, <1>8, <1>9, <1>10, <1>11, <1>12, <1>13
    DEF Next, Browse, Fail

\* What the hub knows, and why: a socket that was not opened yet has no endpoint.
HubInv ==
    /\ HubForgets
    /\ \A s \in Socket : link[s] = "none" => endpoint[s] = "none"

\* No step makes the hub remember a socket whose endpoint is gone.
LEMMA HubStep ==
    ASSUME LiveType, HubInv, Next
    PROVE  HubInv'
<1>. USE DEF LiveType, HubInv, HubForgets, busVars, dbVars, hubVars, browserVars
<1>1. ASSUME UNCHANGED <<endpoint, link>>, active' \subseteq active
      PROVE  HubInv'
    BY <1>1
<1>2. ASSUME NEW s \in Socket, ServeSocket(s) \/ PingTimesOut(s)
      PROVE  HubInv'
    BY <1>2 DEF ServeSocket, Accept, Register, PingFails, PingTimesOut, EndServe, Serve
<1>3. CASE Crash
    BY <1>3 DEF Crash
<1>4. ASSUME NEW s \in Socket, Browse(s) \/ Drop(s) \/ Refused(s)
      PROVE  HubInv'
    BY <1>4 DEF Browse, Open, Closed, Reconnect, Receive, Drop, Refused, Close
<1>5. ASSUME NEW s \in Socket, Deliver(s) \/ SendTimesOut(s)
      PROVE  UNCHANGED <<endpoint, link>> /\ active' \subseteq active
    BY <1>5 DEF Deliver, Send, SendToGone, Disconnect, SendTimesOut
<1>6. ASSUME \/ \E a \in Article : Commit(a) \/ Broadcast(a) \/ AckWait(a)
             \/ AckBroadcast
             \/ \E i \in Fetch : Read(i) \/ Answer(i) \/ FetchFails(i)
             \/ Retry
      PROVE  UNCHANGED <<endpoint, link, active>>
    BY <1>6 DEF Commit, Broadcast, AckWait, AckBroadcast, Read, Answer, FetchFails, Retry
<1>. QED
    BY <1>1, <1>2, <1>3, <1>4, <1>5, <1>6 DEF Next, Fail

-----------------------------------------------------------------------------
(* What the screen is made of *)

\* The article is stored in its cluster.
Known(a) == a \in db[ClusterOf[a]]

\* Whatever is on its way to the screen is in the database.
SourcesInv ==
    /\ \A a \in Article : mstate[a] # "unsent" => Known(a)
    /\ message # None => Known(message)
    /\ \A s \in Socket : \A k \in 1 .. Len(wire[s]) : Known(wire[s][k])
    /\ \A i \in Fetch : \A c \in DOMAIN fetch[i].answer : fetch[i].answer[c] \subseteq db[c]

\* What is stored stays where it is.
LEMMA RowsGrow ==
    ASSUME LiveType, Next
    PROVE  \A c \in Cluster : db[c] \subseteq db'[c]
<1>1. ASSUME NEW a \in Article, Commit(a)
      PROVE  \A c \in Cluster : db[c] \subseteq db'[c]
    BY <1>1 DEF Commit, LiveType
<1>2. ASSUME ~ \E a \in Article : Commit(a)
      PROVE  db' = db
  <2>. USE DEF dbVars
  <2>1. ASSUME NEW s \in Socket, Deliver(s) \/ ServeSocket(s) \/ Browse(s) \/ Fail(s)
        PROVE  db' = db
    BY <2>1
    DEF Deliver, Send, SendToGone, Disconnect, ServeSocket, Accept, Register, PingFails, EndServe,
        Serve, Browse, Open, Closed, Close, Reconnect, Receive, Fail, SendTimesOut, PingTimesOut,
        Drop, Refused
  <2>2. ASSUME \/ \E a \in Article : Broadcast(a) \/ AckWait(a)
               \/ AckBroadcast
               \/ \E i \in Fetch : Read(i) \/ Answer(i) \/ FetchFails(i)
               \/ Retry
               \/ Crash
        PROVE  db' = db
    BY <2>2 DEF Broadcast, AckWait, AckBroadcast, Read, Answer, FetchFails, Retry, Crash
  <2>. QED
    BY <1>2, <2>1, <2>2 DEF Next
<1>. QED
    BY <1>1, <1>2

\* Nothing gets on its way that is not stored.
LEMMA SourcesStep ==
    ASSUME LiveType, SourcesInv, Next
    PROVE  SourcesInv'
<1>. USE DEF busVars, dbVars, hubVars, browserVars
<1>0. \A a \in Article : Known(a) => Known(a)'
    BY RowsGrow, LiveAssumption DEF Known, LiveAssumption
<1>1. ASSUME NEW a \in Article, mstate'[a] # "unsent"
      PROVE  Known(a)'
  <2>1. ASSUME NEW b \in Article, Commit(b)
        PROVE  Known(a)'
    <3>1. Known(b)' /\ (a = b \/ mstate[a] # "unsent")
      BY <1>1, <2>1, LiveAssumption
      DEF Commit, Bus!Publish, Known, LiveAssumption, LiveType, Bus!TypeOK
    <3>. QED
      BY <1>0, <3>1 DEF SourcesInv
  <2>2. ASSUME \/ \E b \in Article : Broadcast(b) \/ AckWait(b)
        PROVE  mstate[a] # "unsent"
    BY <1>1, <2>2 DEF Broadcast, AckWait, Bus!Deliver, Bus!AckWait, LiveType, Bus!TypeOK
  <2>6. CASE AckBroadcast
    <3>1. a = message \/ mstate[a] # "unsent"
      BY <1>1, <2>6 DEF AckBroadcast, Bus!Ack, LiveType, Bus!TypeOK
    <3>2. message # None
      BY <2>6 DEF AckBroadcast
    <3>. QED
      BY <1>0, <3>1, <3>2 DEF SourcesInv
  <2>3. ASSUME NEW s \in Socket, Deliver(s) \/ ServeSocket(s) \/ Browse(s) \/ Fail(s)
        PROVE  mstate' = mstate
    BY <2>3
    DEF Deliver, Send, SendToGone, Disconnect, ServeSocket, Accept, Register, PingFails, EndServe,
        Serve, Browse, Open, Closed, Close, Reconnect, Receive, Fail, SendTimesOut, PingTimesOut,
        Drop, Refused
  <2>4. ASSUME \/ \E i \in Fetch : Read(i) \/ Answer(i) \/ FetchFails(i)
               \/ Retry
               \/ Crash
        PROVE  mstate' = mstate
    BY <2>4 DEF Read, Answer, FetchFails, Retry, Crash
  <2>5. CASE mstate[a] # "unsent"
    BY <1>0, <2>5 DEF SourcesInv
  <2>. QED
    BY <1>1, <2>1, <2>2, <2>3, <2>4, <2>5, <2>6 DEF Next
<1>2. ASSUME NEW a, a = message', a # None
      PROVE  Known(a)'
  <2>1. ASSUME NEW b \in Article, Broadcast(b)
        PROVE  Known(a)'
    <3>1. a = b /\ mstate[b] = "queued"
      BY <1>2, <2>1 DEF Broadcast, Bus!Deliver
    <3>. QED
      BY <1>0, <3>1 DEF SourcesInv
  <2>2. ASSUME NEW s \in Socket, Deliver(s) \/ ServeSocket(s) \/ Browse(s) \/ Fail(s)
        PROVE  message' = message
    BY <2>2
    DEF Deliver, Send, SendToGone, Disconnect, ServeSocket, Accept, Register, PingFails, EndServe,
        Serve, Browse, Open, Closed, Close, Reconnect, Receive, Fail, SendTimesOut, PingTimesOut,
        Drop, Refused
  <2>3. ASSUME \/ \E b \in Article : Commit(b) \/ AckWait(b)
               \/ AckBroadcast
               \/ \E i \in Fetch : Read(i) \/ Answer(i) \/ FetchFails(i)
               \/ Retry
               \/ Crash
        PROVE  message' = message \/ message' = None
    BY <2>3 DEF Commit, AckWait, AckBroadcast, Read, Answer, FetchFails, Retry, Crash
  <2>4. CASE message' = message
    BY <1>0, <1>2, <2>4 DEF SourcesInv, LiveType
  <2>. QED
    BY <1>2, <2>1, <2>2, <2>3, <2>4 DEF Next
<1>3. ASSUME NEW s \in Socket, NEW k \in 1 .. Len(wire'[s]), NEW a, a = wire'[s][k]
      PROVE  Known(a)'
  <2>. DEFINE Carried == \/ \E j \in 1 .. Len(wire[s]) : a = wire[s][j]
                         \/ message # None /\ a = message
  <2>1. wire[s] \in Seq(Article) /\ message \in Article \cup {None}
    BY DEF LiveType
  <2>2. CASE Carried
    <3>1. a \in Article /\ Known(a)
      BY <2>1, <2>2 DEF SourcesInv
    <3>. QED
      BY <1>0, <3>1
  <2>3. CASE wire'[s] = wire[s]
    BY <1>3, <2>2, <2>3
  <2>4. ASSUME NEW t \in Socket, Send(t) \/ SendTimesOut(t)
        PROVE  Carried
    <3>1. message \in Article /\ message # None
      BY <2>1, <2>4 DEF Send, SendTimesOut, LiveType
    <3>2. wire'[s] = wire[s] \/ wire'[s] = Append(wire[s], message)
      <4>1. CASE Send(t)
        BY <4>1 DEF Send, LiveType
      <4>2. CASE SendTimesOut(t)
        <5>1. PICK late \in {<<>>, <<message>>} : wire' = [wire EXCEPT ![t] = @ \o late]
          BY <4>2 DEF SendTimesOut
        <5>2. wire[s] \o <<>> = wire[s] /\ wire[s] \o <<message>> = Append(wire[s], message)
          BY <2>1, <3>1
        <5>3. CASE late = <<>>
          BY <5>1, <5>2, <5>3 DEF LiveType
        <5>4. CASE late = <<message>>
          BY <5>1, <5>2, <5>4 DEF LiveType
        <5>. QED
          BY <5>1, <5>3, <5>4
      <4>. QED
        BY <2>4, <4>1, <4>2
    <3>3. CASE wire'[s] = wire[s]
      BY <1>3, <3>3
    <3>4. CASE wire'[s] = Append(wire[s], message)
      BY <1>3, <2>1, <3>1, <3>4
    <3>. QED
      BY <3>2, <3>3, <3>4
  <2>5. ASSUME NEW t \in Socket, Receive(t)
        PROVE  Carried
    <3>1. CASE t = s
      <4>1. wire[s] # <<>> /\ wire'[s] = Tail(wire[s])
        BY <2>5, <3>1 DEF Receive, LiveType
      <4>2. k + 1 \in 1 .. Len(wire[s]) /\ a = wire[s][k + 1]
        BY <1>3, <2>1, <4>1
      <4>. QED
        BY <4>2
    <3>2. CASE t # s
      BY <1>3, <2>5, <3>2 DEF Receive, LiveType
    <3>. QED
      BY <3>1, <3>2
  <2>6. ASSUME NEW t \in Socket, Closed(t) \/ Drop(t) \/ Refused(t)
        PROVE  Carried
    <3>1. wire' = [wire EXCEPT ![t] = <<>>]
      BY <2>6 DEF Closed, Drop, Refused, Close
    <3>2. CASE t = s
      BY <1>3, <3>1, <3>2 DEF LiveType
    <3>3. CASE t # s
      BY <1>3, <3>1, <3>3 DEF LiveType
    <3>. QED
      BY <3>2, <3>3
  <2>7. ASSUME \/ \E t \in Socket : \/ SendToGone(t) \/ Disconnect(t) \/ ServeSocket(t) \/ Open(t)
                                    \/ Reconnect(t) \/ PingTimesOut(t)
               \/ \E b \in Article : Commit(b) \/ Broadcast(b) \/ AckWait(b)
               \/ AckBroadcast
               \/ \E i \in Fetch : Read(i) \/ Answer(i) \/ FetchFails(i)
               \/ Retry
               \/ Crash
        PROVE  wire' = wire
    BY <2>7
    DEF SendToGone, Disconnect, ServeSocket, Accept, Register, PingFails, EndServe, Serve, Open,
        Reconnect, PingTimesOut, Commit, Broadcast, AckWait, AckBroadcast, Read, Answer, FetchFails,
        Retry, Crash
  <2>. HIDE DEF Carried
  <2>. QED
    BY <2>2, <2>3, <2>4, <2>5, <2>6, <2>7 DEF Next, Deliver, Browse, Fail
<1>4. ASSUME NEW i \in Fetch
      PROVE  \A c \in DOMAIN fetch'[i].answer : fetch'[i].answer[c] \subseteq db'[c]
  <2>1. CASE fetch'[i].answer = fetch[i].answer
    <3>1. DOMAIN fetch[i].answer \subseteq Cluster
      <4>1. fetch[i].answer \in Snapshot
        BY DEF LiveType
      <4>2. PICK C \in SUBSET Cluster : fetch[i].answer \in [C -> SUBSET Article]
        BY <4>1 DEF Snapshot
      <4>. QED
        BY <4>2
    <3>2. \A c \in DOMAIN fetch[i].answer : fetch[i].answer[c] \subseteq db[c]
      BY DEF SourcesInv
    <3>. QED
      BY <2>1, <3>1, <3>2, RowsGrow
  <2>2. ASSUME NEW j \in Fetch, Read(j)
        PROVE  \/ fetch'[i].answer = fetch[i].answer
               \/ \E C \in SUBSET Cluster : fetch'[i].answer = [c \in C |-> db[c]] /\ db' = db
    <3>1. PICK C \in SUBSET Cluster :
            fetch' = [fetch EXCEPT ![j] = [stage |-> "answered", answer |-> [c \in C |-> db[c]]]]
      BY <2>2 DEF Read
    <3>2. db' = db
      BY <2>2 DEF Read
    <3>3. CASE i = j
      BY <3>1, <3>2, <3>3 DEF LiveType
    <3>4. CASE i # j
      BY <3>1, <3>4 DEF LiveType
    <3>. QED
      BY <3>3, <3>4
  <2>3. ASSUME NEW j \in Fetch, Answer(j) \/ FetchFails(j)
        PROVE  fetch'[i].answer = fetch[i].answer \/ fetch'[i].answer = NoAnswer
    BY <2>3 DEF Answer, FetchFails, Over, LiveType
  <2>4. ASSUME Retry \/ \E s \in Socket : Open(s)
        PROVE  fetch'[i].answer = fetch[i].answer
    BY <2>4, FetchesStay DEF Retry, Open, LiveType
  <2>5. ASSUME \/ \E t \in Socket : \/ Deliver(t) \/ ServeSocket(t) \/ Closed(t) \/ Reconnect(t)
                                    \/ Receive(t) \/ Fail(t)
               \/ \E b \in Article : Commit(b) \/ Broadcast(b) \/ AckWait(b)
               \/ AckBroadcast
               \/ Crash
        PROVE  fetch' = fetch
    BY <2>5
    DEF Deliver, Send, SendToGone, Disconnect, ServeSocket, Accept, Register, PingFails, EndServe,
        Serve, Closed, Close, Reconnect, Receive, Fail, SendTimesOut, PingTimesOut, Drop, Refused,
        Commit, Broadcast, AckWait, AckBroadcast, Crash
  <2>6. CASE fetch'[i].answer = NoAnswer
    BY <2>6 DEF NoAnswer
  <2>7. CASE \E C \in SUBSET Cluster : fetch'[i].answer = [c \in C |-> db[c]] /\ db' = db
    BY <2>7
  <2>. QED
    BY <2>1, <2>2, <2>3, <2>4, <2>5, <2>6, <2>7 DEF Next, Browse
<1>. QED
    BY <1>1, <1>2, <1>3, <1>4 DEF SourcesInv, Known

\* No step makes the screen wrong.
LEMMA ScreenStep ==
    ASSUME LiveType, SourcesInv, Right(screen, db), Next
    PROVE  Right(screen, db)'
<1>. USE DEF busVars, dbVars, hubVars, browserVars
<1>1. CASE screen' = screen
  <2>1. Grounded(screen.store, screen.processed, db')
    <3>1. ASSUME NEW c \in DOMAIN screen.store, NEW a \in Article
          PROVE  screen.store[c][a] <= IF a \notin db'[c] THEN 0
                                       ELSE IF a \in screen.processed THEN 2 ELSE 1
      <4>1. screen.store[c][a] <= IF a \notin db[c] THEN 0
                                  ELSE IF a \in screen.processed THEN 2 ELSE 1
        BY DEF Right, Grounded
      <4>2. c \in Cluster /\ screen.store[c][a] \in Nat
        BY StoreProperties DEF Right, Screens, Bags
      <4>3. db[c] \subseteq db'[c]
        BY <4>2, RowsGrow
      <4>. QED
        BY <4>1, <4>2, <4>3
    <3>. QED
      BY <3>1 DEF Grounded
  <2>. QED
    BY <1>1, <2>1 DEF Right
<1>2. ASSUME NEW s \in Socket, Receive(s)
      PROVE  Right(screen, db)'
  <2>. DEFINE a == Head(wire[s])
              c == ClusterOf[a]
  <2>1. a \in Article /\ Known(a)
    <3>1. wire[s] \in Seq(Article) /\ wire[s] # <<>>
      BY <1>2 DEF Receive, LiveType
    <3>2. 1 \in 1 .. Len(wire[s]) /\ a = wire[s][1] /\ a \in Article
      BY <3>1
    <3>. QED
      BY <3>2 DEF SourcesInv
  <2>2. c \in Cluster /\ a \in db[c]
    BY <2>1, LiveAssumption DEF Known, LiveAssumption
  <2>3. screen' \in Page!Updates(screen, c, a, founder[c] = a) /\ db' = db
    BY <1>2 DEF Receive
  <2>4. (founder[c] = a) \in BOOLEAN
    OBVIOUS
  <2>. HIDE DEF a, c
  <2>. QED
    BY <2>1, <2>2, <2>3, <2>4, UpdatesAreRight
<1>3. ASSUME NEW i \in Fetch, Answer(i)
      PROVE  Right(screen, db)'
  <2>1. /\ fetch[i].answer \in Snapshot
        /\ \A c \in DOMAIN fetch[i].answer : fetch[i].answer[c] \subseteq db[c]
    BY DEF LiveType, SourcesInv
  <2>2. screen' = Page!Answered(screen, fetch[i].answer) /\ db' = db
    BY <1>3 DEF Answer
  <2>. QED
    BY <2>1, <2>2, AnsweredIsRight DEF Right
<1>4. ASSUME Retry \/ \E i \in Fetch : FetchFails(i)
      PROVE  Right(screen, db)'
  <2>1. PICK failed \in BOOLEAN :
            screen' = [screen EXCEPT !.grid = <<>>, !.failed = failed]
    BY <1>4 DEF Retry, FetchFails, Page!Unanswered
  <2>2. db' = db
    BY <1>4 DEF Retry, FetchFails
  <2>3. screen' \in Screens
    <3>1. screen \in Screens /\ <<>> \in Seq(Card)
      BY DEF Right
    <3>. QED
      BY <2>1, <3>1 DEF Screens
  <2>4. /\ screen'.store = screen.store /\ screen'.processed = screen.processed
        /\ screen'.grid = <<>>
    BY <2>1 DEF Right, Screens
  <2>5. Current(screen.store, <<>>)
    BY DEF Current, TopShows, Page!CardsOf
  <2>. QED
    BY <2>2, <2>3, <2>4, <2>5 DEF Right
<1>5. ASSUME \/ \E s \in Socket : Deliver(s) \/ ServeSocket(s) \/ Open(s) \/ Closed(s)
                                  \/ Reconnect(s) \/ Fail(s)
             \/ \E a \in Article : Commit(a) \/ Broadcast(a) \/ AckWait(a)
             \/ AckBroadcast
             \/ \E i \in Fetch : Read(i)
             \/ Crash
      PROVE  screen' = screen
    BY <1>5
    DEF Deliver, Send, SendToGone, Disconnect, ServeSocket, Accept, Register, PingFails, EndServe,
        Serve, Open, Closed, Close, Reconnect, Fail, SendTimesOut, PingTimesOut, Drop, Refused,
        Commit, Broadcast, AckWait, AckBroadcast, Read, Crash
<1>. QED
    BY <1>1, <1>2, <1>3, <1>4, <1>5 DEF Next, Browse

-----------------------------------------------------------------------------
(* The theorems *)

\* The inductive invariant.
LiveInv == LiveType /\ HubInv /\ SourcesInv /\ Right(screen, db)

\* Everything that the invariant says holds of every reachable state.
THEOREM LiveInvariance == Spec => []LiveInv
<1>1. Init => LiveInv
  <2>. SUFFICES ASSUME Init PROVE LiveInv
    OBVIOUS
  <2>1. HubInv
    BY DEF Init, HubInv, HubForgets
  <2>2. SourcesInv
    <3>1. \A a \in Article : mstate[a] # "unsent" => Known(a)
      BY LiveAssumption DEF Init, Known, LiveAssumption
    <3>2. message = None /\ \A s \in Socket : wire[s] = <<>>
      BY DEF Init
    <3>3. \A i \in Fetch : fetch[i].answer = <<>>
      BY DEF Init, NoAnswer
    <3>. QED
      BY <3>1, <3>2, <3>3 DEF SourcesInv
  <2>3. Right(screen, db)
    <3>1. screen = [store |-> <<>>, grid |-> <<>>, failed |-> FALSE, processed |-> {}]
      BY DEF Init, Page!Blank
    <3>2. <<>> \in Stores
      <4>1. <<>> \in [{} -> Bags]
        OBVIOUS
      <4>. QED
        BY <4>1 DEF Stores
    <3>. QED
      BY <3>1, <3>2 DEF Right, Screens, Current, Grounded
  <2>. QED
    BY <2>1, <2>2, <2>3, InitType DEF LiveInv
<1>2. LiveInv /\ [Next]_vars => LiveInv'
  <2>. SUFFICES ASSUME LiveInv, [Next]_vars PROVE LiveInv'
    OBVIOUS
  <2>1. CASE Next
    BY <2>1, TypeStep, HubStep, SourcesStep, ScreenStep DEF LiveInv
  <2>2. CASE UNCHANGED vars
    BY <2>2
    DEF vars, busVars, dbVars, hubVars, browserVars, LiveInv, LiveType, HubInv, HubForgets,
        SourcesInv, Known, Bus!TypeOK
  <2>. QED
    BY <2>1, <2>2
<1>. QED
    BY <1>1, <1>2, PTL DEF Spec

\* The state is well-typed.
THEOREM LiveTypeInvariance == Spec => []TypeOK
<1>1. LiveInv => TypeOK
    BY StoreProperties DEF LiveInv, LiveType, Right, Screens, TypeOK
<1>. QED
    BY <1>1, LiveInvariance, PTL

\* The hub holds no socket whose endpoint is gone.
THEOREM HubForgetsGone == Spec => []HubForgets
<1>1. LiveInv => HubForgets
    BY DEF LiveInv, HubInv
<1>. QED
    BY <1>1, LiveInvariance, PTL

\* Counts on the screen are made of stored articles, of none more than twice.
THEOREM CountsStayGrounded == Spec => []CountsAreGrounded
<1>1. LiveInv => CountsAreGrounded
  <2>. SUFFICES ASSUME LiveInv, NEW c \in DOMAIN screen.store, NEW a \in Article
                PROVE  screen.store[c][a] <= IF a \in db[c] THEN 2 ELSE 0
    BY DEF CountsAreGrounded
  <2>1. screen.store[c][a] <= IF a \notin db[c] THEN 0
                              ELSE IF a \in screen.processed THEN 2 ELSE 1
    BY DEF LiveInv, Right, Grounded
  <2>2. screen.store[c][a] \in Nat
    BY StoreProperties DEF LiveInv, Right, Screens, Bags
  <2>. QED
    BY <2>1, <2>2
<1>. QED
    BY <1>1, LiveInvariance, PTL

\* The topmost card of a cluster shows the number that the store holds.
THEOREM FirstCardStaysCurrent == Spec => []FirstCardIsCurrent
<1>1. LiveInv => FirstCardIsCurrent
  <2>. SUFFICES ASSUME LiveInv, NEW c \in DOMAIN screen.store,
                       Page!CardsOf(screen.grid, c) # {}
                PROVE  screen.grid[Page!First(screen.grid, c)].bag = screen.store[c]
    BY DEF FirstCardIsCurrent
  <2>1. screen.grid \in Seq(Card) /\ TopShows(screen.grid, c, screen.store[c])
    BY DEF LiveInv, Right, Screens, Current
  <2>2. /\ Page!First(screen.grid, c) \in Page!CardsOf(screen.grid, c)
        /\ \A j \in Page!CardsOf(screen.grid, c) : Page!First(screen.grid, c) <= j
    BY <2>1, FirstProperties DEF Page!CardsOf
  <2>. QED
    BY <2>1, <2>2 DEF TopShows
<1>. QED
    BY <1>1, LiveInvariance, PTL
=============================================================================
