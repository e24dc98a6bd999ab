-------------------------- MODULE TableReadersProofs --------------------------
(***************************************************************************)
(* What a client of the paged endpoints and the export get, whatever the   *)
(* engines commit in between, for tables and pages of every size.          *)
(***************************************************************************)
EXTENDS TableReaders, CommonLemmas

Row == Article \cup Cluster

-----------------------------------------------------------------------------
(* Where the rows are *)

\* The rows behind the first n.
Beyond(s, n) == {s[k] : k \in n + 1 .. Len(s)}

\* A row that comes in pushes no other one forward.
LEMMA InsertBeyond ==
    ASSUME NEW s \in Seq(Row), NEW e \in Row, NEW i \in 1 .. Len(s) + 1, NEW n \in Nat
    PROVE  Beyond(s, n) \subseteq Beyond(InsertAt(s, i, e), n)
<1>. DEFINE t == InsertAt(s, i, e)
<1>1. /\ Len(t) = Len(s) + 1
      /\ \A j \in 1 .. Len(s) + 1 :
            t[j] = IF j < i THEN s[j] ELSE IF j = i THEN e ELSE s[j - 1]
    BY InsertAtPlaces
<1>. HIDE DEF t
<1>2. ASSUME NEW k \in n + 1 .. Len(s) PROVE \E j \in n + 1 .. Len(t) : t[j] = s[k]
  <2>1. CASE k < i
    BY <1>1, <2>1
  <2>2. CASE k >= i
    <3>1. k + 1 \in n + 1 .. Len(t) /\ t[k + 1] = s[k]
      BY <1>1, <2>2
    <3>. QED
      BY <3>1
  <2>. QED
    BY <2>1, <2>2
<1>. QED
    BY <1>2 DEF Beyond, t

\* A row that moves to the front of its place pushes no other one forward.
LEMMA MoveBeyond ==
    ASSUME NEW s \in Seq(Row), IsInjective(s), NEW p \in 1 .. Len(s), NEW c \in Row, s[p] = c,
           NEW i \in 1 .. p, NEW n \in Nat
    PROVE  Beyond(s, n) \ {c} \subseteq Beyond(InsertAt(RemoveFirst(s, c), i, c), n)
<1>. DEFINE r == RemoveFirst(s, c)
            t == InsertAt(r, i, c)
<1>1. /\ r \in Seq(Row) /\ Len(r) = Len(s) - 1
      /\ \A j \in 1 .. Len(s) - 1 : r[j] = IF j < p THEN s[j] ELSE s[j + 1]
  <2>1. r = RemoveAt(s, p)
    BY PlaceOf
  <2>. QED
    BY <2>1, RemoveAtProperties
<1>. HIDE DEF r
<1>2. /\ Len(t) = Len(s)
      /\ \A j \in 1 .. Len(s) :
            t[j] = IF j < i THEN r[j] ELSE IF j = i THEN c ELSE r[j - 1]
  <2>1. i \in 1 .. Len(r) + 1 /\ Len(r) + 1 = Len(s)
    BY <1>1
  <2>. QED
    BY <1>1, <2>1, InsertAtPlaces
<1>. HIDE DEF t
<1>3. ASSUME NEW k \in n + 1 .. Len(s), s[k] # c PROVE \E j \in n + 1 .. Len(t) : t[j] = s[k]
  <2>0. k # p
    BY <1>3
  <2>1. CASE k < i
    <3>1. k \in 1 .. Len(s) - 1
      BY <2>1
    <3>2. t[k] = r[k]
      BY <1>2, <2>1, <3>1
    <3>3. r[k] = s[k]
      BY <1>1, <2>1, <3>1
    <3>. QED
      BY <1>2, <3>1, <3>2, <3>3
  <2>2. CASE k >= i /\ k < p
    <3>1. k + 1 \in n + 1 .. Len(t) /\ t[k + 1] = r[k] /\ r[k] = s[k]
      BY <1>1, <1>2, <2>2
    <3>. QED
      BY <3>1
  <2>3. CASE k > p
    <3>1. k \in n + 1 .. Len(t) /\ t[k] = r[k - 1] /\ r[k - 1] = s[k]
      BY <1>1, <1>2, <2>3
    <3>. QED
      BY <3>1
  <2>. QED
    BY <2>0, <2>1, <2>2, <2>3
<1>. QED
    BY <1>3 DEF Beyond, t, r

\* A page has the rows up to its end.
LEMMA PageBeyond ==
    ASSUME NEW t \in Table, rows[t] \in Seq(Row), NEW n \in Nat
    PROVE  /\ Page(t, n) \in Seq(Row)
           /\ Beyond(rows[t], n) \subseteq
                ToSet(Page(t, n)) \cup Beyond(rows[t], n + Len(Page(t, n)))
           /\ Page(t, n) = <<>> => Beyond(rows[t], n) = {}
<1>. DEFINE s == rows[t]
            last == IF n + Limit < Len(s) THEN n + Limit ELSE Len(s)
<1>0. Limit \in Nat \ {0} /\ s \in Seq(Row)
    BY ReadersAssumption DEF ReadersAssumption
<1>1. Page(t, n) = SubSeq(s, n + 1, last)
    BY DEF Page
<1>. HIDE DEF s
<1>2. CASE n >= Len(s)
  <2>1. Beyond(s, n) = {}
    BY <1>0, <1>2 DEF Beyond
  <2>2. SubSeq(s, n + 1, last) \in Seq(Row)
    <3>1. last = Len(s) /\ Len(s) < n + 1
      BY <1>0, <1>2
    <3>. QED
      BY <1>0, <3>1
  <2>. QED
    BY <1>1, <2>1, <2>2 DEF s
<1>3. CASE n < Len(s)
  <2>1. n + 1 \in 1 .. Len(s) + 1 /\ last \in 0 .. Len(s) /\ n + 1 <= last
    BY <1>0, <1>3
  <2>. HIDE DEF last
  <2>2. /\ SubSeq(s, n + 1, last) \in Seq(Row)
        /\ Len(SubSeq(s, n + 1, last)) = last - n
        /\ \A i \in 1 .. last - n : SubSeq(s, n + 1, last)[i] = s[n + i]
    BY <1>0, <2>1, PartOf
  <2>. DEFINE page == SubSeq(s, n + 1, last)
  <2>. HIDE DEF page
  <2>3. ASSUME NEW k \in n + 1 .. last PROVE s[k] \in ToSet(page)
    <3>1. k - n \in 1 .. last - n /\ DOMAIN page = 1 .. last - n /\ page[k - n] = s[k]
      BY <2>1, <2>2 DEF page
    <3>. QED
      BY <3>1 DEF ToSet
  <2>4. Beyond(s, n) \subseteq ToSet(page) \cup Beyond(s, last)
    BY <1>0, <2>1, <2>3 DEF Beyond
  <2>5. n + Len(page) = last /\ page # <<>>
    <3>1. Len(page) = last - n /\ Len(s) \in Nat
      BY <1>0, <2>2 DEF page
    <3>2. n + Len(page) = last /\ Len(page) > 0
      BY <2>1, <3>1
    <3>. QED
      BY <3>2
  <2>. QED
    BY <1>1, <2>2, <2>4, <2>5 DEF s, page
<1>. QED
    BY <1>0, <1>2, <1>3

-----------------------------------------------------------------------------
(* The tables *)

RowsInv ==
    /\ rows \in [Table -> Seq(Row)]
    /\ \A t \in Table : IsInjective(rows[t])
    /\ Stored("articles") \subseteq Article /\ Stored("clusters") \subseteq Cluster
    /\ members \in [Cluster -> SUBSET Article]
    /\ \A c \in Cluster : members[c] \subseteq Stored("articles")

\* A committed article takes a place in the table.
LEMMA SaveArticleProperties ==
    ASSUME RowsInv, NEW a \in Article, SaveArticle(a)
    PROVE  /\ RowsInv'
           /\ ToSet(rows["articles"]) \subseteq ToSet(rows'["articles"])
           /\ \A t \in Table, n \in Nat : Beyond(rows[t], n) \subseteq Beyond(rows'[t], n)
<1>. DEFINE s == rows["articles"]
<1>1. s \in Seq(Row) /\ IsInjective(s) /\ a \notin ToSet(s) /\ a \in Row
    BY DEF RowsInv, Table, SaveArticle, Stored, Row
<1>2. PICK k \in 1 .. Len(s) + 1 : rows' = [rows EXCEPT !["articles"] = InsertAt(s, k, a)]
    BY DEF SaveArticle
<1>3. /\ InsertAt(s, k, a) \in Seq(Row)
      /\ IsInjective(InsertAt(s, k, a))
      /\ ToSet(InsertAt(s, k, a)) = ToSet(s) \cup {a}
    BY <1>1, InsertAtProperties
<1>4. \A n \in Nat : Beyond(s, n) \subseteq Beyond(InsertAt(s, k, a), n)
    BY <1>1, InsertBeyond
<1>5. rows'["articles"] = InsertAt(s, k, a) /\ rows'["clusters"] = rows["clusters"]
      /\ rows' \in [Table -> Seq(Row)]
    BY <1>2, <1>3 DEF RowsInv, Table
<1>6. UNCHANGED members
    BY DEF SaveArticle
<1>. HIDE DEF s
<1>7. RowsInv'
    BY <1>3, <1>5, <1>6 DEF RowsInv, Table, Stored, s
<1>8. ToSet(rows["articles"]) \subseteq ToSet(rows'["articles"])
    BY <1>3, <1>5 DEF s
<1>9. \A t \in Table, n \in Nat : Beyond(rows[t], n) \subseteq Beyond(rows'[t], n)
    BY <1>4, <1>5 DEF Table, s
<1>. QED
    BY <1>7, <1>8, <1>9

\* A committed place may move its cluster to the front, and nothing else.
LEMMA JoinClusterProperties ==
    ASSUME RowsInv, NEW a \in Article, NEW c \in Cluster, JoinCluster(a, c)
    PROVE  /\ RowsInv'
           /\ rows'["articles"] = rows["articles"]
           /\ \A n \in Nat :
                Beyond(rows["clusters"], n) \ {c} \subseteq Beyond(rows'["clusters"], n)
<1>. DEFINE s == rows["clusters"]
            r == RemoveFirst(s, c)
<1>1. s \in Seq(Row) /\ IsInjective(s) /\ ToSet(s) \subseteq Cluster /\ c \in Row
    BY DEF RowsInv, Table, Stored, Row
<1>2. /\ r \in Seq(Row) /\ IsInjective(r) /\ ToSet(r) = ToSet(s) \ {c}
      /\ Len(r) <= Len(s) /\ (c \in ToSet(s) => Len(r) = Len(s) - 1)
    BY <1>1, RemoveFirstProperties
<1>3. PICK k \in Places(c) : rows' = [rows EXCEPT !["clusters"] = InsertAt(r, k, c)]
    BY DEF JoinCluster
<1>4. c \notin ToSet(s) => r = s /\ k \in 1 .. Len(s) + 1
    BY <1>1, <1>3 DEF Places, Stored, RemoveFirst, ToSet
<1>5. ASSUME c \in ToSet(s)
      PROVE  \E p \in 1 .. Len(s) : s[p] = c /\ k \in 1 .. p
  <2>1. PICK p \in 1 .. Len(s) : s[p] = c
    BY <1>5 DEF ToSet
  <2>2. k \in 1 .. Len(s) /\ \A i \in 1 .. k - 1 : s[i] # c
    BY <1>1, <1>3, <1>5 DEF Places, Stored
  <2>3. k <= p
    BY <1>1, <2>1, <2>2
  <2>. QED
    BY <2>1, <2>2, <2>3
<1>. HIDE DEF s, r
<1>6. k \in 1 .. Len(r) + 1
  <2>1. CASE c \in ToSet(s)
    <3>1. PICK p \in 1 .. Len(s) : k \in 1 .. p
      BY <1>5, <2>1
    <3>. QED
      BY <1>1, <1>2, <2>1, <3>1
  <2>2. CASE c \notin ToSet(s)
    BY <1>4, <2>2
  <2>. QED
    BY <2>1, <2>2
<1>7. /\ InsertAt(r, k, c) \in Seq(Row)
      /\ IsInjective(InsertAt(r, k, c))
      /\ ToSet(InsertAt(r, k, c)) = ToSet(s) \cup {c}
  <2>1. c \notin ToSet(r)
    BY <1>2
  <2>2. /\ InsertAt(r, k, c) \in Seq(Row)
        /\ IsInjective(InsertAt(r, k, c))
        /\ ToSet(InsertAt(r, k, c)) = ToSet(r) \cup {c}
    BY <1>1, <1>2, <1>6, <2>1, InsertAtProperties
  <2>. QED
    BY <1>2, <2>2
<1>8. ASSUME NEW n \in Nat PROVE Beyond(s, n) \ {c} \subseteq Beyond(InsertAt(r, k, c), n)
  <2>1. CASE c \in ToSet(s)
    <3>1. PICK p \in 1 .. Len(s) : s[p] = c /\ k \in 1 .. p
      BY <1>5, <2>1
    <3>2. Beyond(s, n) \ {c} \subseteq Beyond(InsertAt(RemoveFirst(s, c), k, c), n)
      BY <1>1, <3>1, MoveBeyond
    <3>. QED
      BY <3>2 DEF r
  <2>2. CASE c \notin ToSet(s)
    <3>1. Beyond(s, n) \subseteq Beyond(InsertAt(s, k, c), n)
      BY <1>1, <1>4, <2>2, InsertBeyond
    <3>. QED
      BY <1>4, <2>2, <3>1
  <2>. QED
    BY <2>1, <2>2
<1>9. /\ rows'["clusters"] = InsertAt(r, k, c) /\ rows'["articles"] = rows["articles"]
      /\ rows' \in [Table -> Seq(Row)]
    BY <1>3, <1>7 DEF RowsInv, Table
<1>10. RowsInv'
  <2>1. members' = [members EXCEPT ![c] = @ \cup {a}] /\ a \in Stored("articles")
    BY DEF JoinCluster
  <2>2. Stored("articles")' = Stored("articles")
    BY <1>9 DEF Stored
  <2>3. /\ members' \in [Cluster -> SUBSET Article]
        /\ \A d \in Cluster : members'[d] \subseteq Stored("articles")
    BY <2>1 DEF RowsInv
  <2>4. Stored("clusters")' \subseteq Cluster
    BY <1>1, <1>7, <1>9 DEF Stored
  <2>5. \A t \in Table : IsInjective(rows'[t])
    BY <1>7, <1>9 DEF RowsInv, Table
  <2>. QED
    BY <1>9, <2>2, <2>3, <2>4, <2>5 DEF RowsInv
<1>. QED
    BY <1>8, <1>9, <1>10 DEF s

\* Every step of the writers and readers leaves tables without doubles.
LEMMA RowsStep ==
    ASSUME RowsInv, [Next]_vars
    PROVE  RowsInv' /\ Stored("articles") \subseteq Stored("articles")'
<1>1. ASSUME NEW a \in Article, SaveArticle(a)
      PROVE  RowsInv' /\ Stored("articles") \subseteq Stored("articles")'
    BY <1>1, SaveArticleProperties DEF Stored
<1>2. ASSUME NEW a \in Article, NEW c \in Cluster, JoinCluster(a, c)
      PROVE  RowsInv' /\ Stored("articles") \subseteq Stored("articles")'
    BY <1>2, JoinClusterProperties DEF Stored
<1>3. CASE UNCHANGED <<rows, members>>
    BY <1>3 DEF RowsInv, Stored
<1>4. ASSUME \/ StartPaging \/ GetPage \/ ReadTable \/ WriteFiles \/ UNCHANGED vars
             \/ \E filter \in Filter : StartExport(filter)
      PROVE  UNCHANGED <<rows, members>>
    BY <1>4 DEF StartPaging, GetPage, ReadTable, WriteFiles, StartExport, vars, tableVars
<1>. QED
    BY <1>1, <1>2, <1>3, <1>4 DEF Next

-----------------------------------------------------------------------------
(* Pages *)

\* What a client has missed so far.
Waiting == pager.atStart \ (moved \cup pager.seen)

PagerInv ==
    /\ pager \in [active : BOOLEAN, atStart : SUBSET Row, seen : SUBSET Row, offset : Nat,
                  done : BOOLEAN]
    /\ reader \in Table \cup {"script"}
    /\ reader \notin Table => pager = NewPager
    /\ IF pager.done = TRUE THEN Waiting = {}
       ELSE reader \in Table => Waiting \subseteq Beyond(rows[reader], pager.offset)

\* The rows behind the offset of a client have what it still waits for, however often
\* rows come in or move between two of its pages.
LEMMA PagerStep ==
    ASSUME RowsInv, PagerInv, [Next]_vars
    PROVE  PagerInv'
<1>1. /\ pager.offset \in Nat /\ pager.atStart \subseteq Row /\ pager.seen \subseteq Row
      /\ pager.active \in BOOLEAN /\ pager.done \in BOOLEAN
    BY DEF PagerInv
<1>2. ASSUME NEW a \in Article, SaveArticle(a) PROVE PagerInv'
  <2>1. UNCHANGED <<moved, reader, pager>>
    BY <1>2 DEF SaveArticle
  <2>2. \A t \in Table, n \in Nat : Beyond(rows[t], n) \subseteq Beyond(rows'[t], n)
    BY <1>2, SaveArticleProperties
  <2>. QED
    BY <1>1, <2>1, <2>2 DEF PagerInv, Waiting
<1>3. ASSUME NEW a \in Article, NEW c \in Cluster, JoinCluster(a, c) PROVE PagerInv'
  <2>1. moved' = moved \cup {c} /\ UNCHANGED <<reader, pager>>
    BY <1>3 DEF JoinCluster
  <2>2. /\ rows'["articles"] = rows["articles"]
        /\ \A n \in Nat :
            Beyond(rows["clusters"], n) \ {c} \subseteq Beyond(rows'["clusters"], n)
    BY <1>3, JoinClusterProperties
  <2>3. Waiting' \subseteq Waiting \ {c}
    BY <2>1 DEF Waiting
  <2>4. ASSUME reader \in Table, Waiting \subseteq Beyond(rows[reader], pager.offset)
        PROVE  Waiting' \subseteq Beyond(rows'[reader], pager.offset)
    BY <1>1, <2>2, <2>3, <2>4 DEF Table
  <2>. QED
    BY <1>1, <2>1, <2>3, <2>4 DEF PagerInv
<1>4. CASE StartPaging
  <2>1. /\ reader \in Table /\ reader' = reader /\ rows' = rows /\ moved' = {}
        /\ pager' = [NewPager EXCEPT !.active = TRUE, !.atStart = Stored(reader)]
    BY <1>4 DEF StartPaging
  <2>2. rows[reader] \in Seq(Row)
    BY <2>1 DEF RowsInv
  <2>3. Stored(reader) \subseteq Row /\ Stored(reader) = Beyond(rows[reader], 0)
    BY <2>2 DEF Stored, ToSet, Beyond
  <2>4. pager' = [active |-> TRUE, atStart |-> Stored(reader), seen |-> {}, offset |-> 0,
                  done |-> FALSE]
    BY <2>1 DEF NewPager
  <2>5. /\ pager' \in [active : BOOLEAN, atStart : SUBSET Row, seen : SUBSET Row,
                       offset : Nat, done : BOOLEAN]
        /\ pager'.atStart = Stored(reader) /\ pager'.seen = {} /\ pager'.offset = 0
        /\ pager'.done = FALSE
    BY <2>3, <2>4
  <2>6. Waiting' = Stored(reader)
    BY <2>1, <2>5 DEF Waiting
  <2>. QED
    BY <2>1, <2>3, <2>5, <2>6 DEF PagerInv
<1>5. CASE GetPage
  <2>. DEFINE page == Page(reader, pager.offset)
  <2>1. /\ pager.active /\ ~ pager.done
        /\ pager' = [pager EXCEPT !.seen = @ \cup ToSet(page), !.offset = @ + Len(page),
                                  !.done = (page = <<>>)]
        /\ UNCHANGED <<rows, moved, reader>>
    BY <1>5 DEF GetPage, tableVars
  <2>2. CASE reader \in Table
    <3>1. rows[reader] \in Seq(Row)
      BY <2>2 DEF RowsInv
    <3>2. /\ page \in Seq(Row)
          /\ Beyond(rows[reader], pager.offset) \subseteq
                ToSet(page) \cup Beyond(rows[reader], pager.offset + Len(page))
          /\ page = <<>> => Beyond(rows[reader], pager.offset) = {}
      BY <1>1, <2>2, <3>1, PageBeyond
    <3>. HIDE DEF page
    <3>3. ToSet(page) \subseteq Row /\ Len(page) \in Nat
      BY <3>2 DEF ToSet
    <3>4. /\ pager' \in [active : BOOLEAN, atStart : SUBSET Row, seen : SUBSET Row,
                         offset : Nat, done : BOOLEAN]
          /\ pager'.seen = pager.seen \cup ToSet(page) /\ pager'.offset = pager.offset + Len(page)
          /\ pager'.atStart = pager.atStart
          /\ pager'.done = IF page = <<>> THEN TRUE ELSE FALSE
      <4>1. pager.offset + Len(page) \in Nat /\ pager.seen \cup ToSet(page) \in SUBSET Row
        BY <1>1, <3>3
      <4>2. CASE page = <<>>
        <5>1. pager' = [pager EXCEPT !.seen = pager.seen \cup ToSet(page),
                                     !.offset = pager.offset + Len(page), !.done = TRUE]
          BY <2>1, <4>2
        <5>. QED
          BY <4>1, <4>2, <5>1 DEF PagerInv
      <4>3. CASE page # <<>>
        <5>1. pager' = [pager EXCEPT !.seen = pager.seen \cup ToSet(page),
                                     !.offset = pager.offset + Len(page), !.done = FALSE]
          BY <2>1, <4>3
        <5>. QED
          BY <4>1, <4>3, <5>1 DEF PagerInv
      <4>. QED
        BY <4>2, <4>3
    <3>5. Waiting \subseteq Beyond(rows[reader], pager.offset)
      BY <2>1, <2>2 DEF PagerInv
    <3>6. Waiting' = Waiting \ ToSet(page)
      BY <2>1, <3>4 DEF Waiting
    <3>7. CASE page = <<>>
      BY <2>1, <2>2, <3>2, <3>4, <3>5, <3>6, <3>7 DEF PagerInv
    <3>8. CASE page # <<>>
      BY <2>1, <2>2, <3>2, <3>4, <3>5, <3>6, <3>8 DEF PagerInv
    <3>. QED
      BY <3>7, <3>8
  <2>3. CASE reader \notin Table
    <3>1. pager = NewPager
      BY <2>3 DEF PagerInv
    <3>2. ~ pager.active
      BY <3>1 DEF NewPager
    <3>. QED
      BY <2>1, <3>2
  <2>. QED
    BY <2>2, <2>3
<1>6. CASE UNCHANGED <<rows, moved, reader, pager>>
    BY <1>6 DEF PagerInv, Waiting
<1>7. ASSUME \/ ReadTable \/ WriteFiles \/ UNCHANGED vars
             \/ \E filter \in Filter : StartExport(filter)
      PROVE  UNCHANGED <<rows, moved, reader, pager>>
    BY <1>7 DEF ReadTable, WriteFiles, StartExport, vars, tableVars
<1>. QED
    BY <1>2, <1>3, <1>4, <1>5, <1>6, <1>7 DEF Next

-----------------------------------------------------------------------------
(* The export *)

\* Without a filter, the articles have a row each and the clusters their own.
LEMMA FilesOfAllTopics ==
    ASSUME NEW clusters, NEW articles
    PROVE  /\ {a.article : a \in Export!ArticlesCsv(articles, clusters, None)} =
              {a.id : a \in articles}
           /\ \A c \in Export!ClustersCsv(clusters, None) :
                \E d \in clusters : c.articles = d.articles
<1>1. \A topic : Export!Passes(topic, None)
    BY DEF Export!Passes
<1>. DEFINE line(b) == [article |-> b.id, cluster |-> b.cluster,
                       topic |-> Export!ArticleTopic(b, clusters)]
<1>2. \A b : line(b).article = b.id
    OBVIOUS
<1>. HIDE DEF line
<1>3. Export!ArticlesCsv(articles, clusters, None) = {line(b) : b \in articles}
    BY <1>1 DEF Export!ArticlesCsv, line
<1>4. {a.article : a \in Export!ArticlesCsv(articles, clusters, None)} = {a.id : a \in articles}
    BY <1>2, <1>3
<1>5. ASSUME NEW c \in Export!ClustersCsv(clusters, None)
      PROVE  \E d \in clusters : c.articles = d.articles
    BY <1>5 DEF Export!ClustersCsv
<1>. QED
    BY <1>4, <1>5

\* What the export has read is what its clusters count, once it has the articles.
ScriptInv ==
    /\ script \in [running : BOOLEAN, read : 0 .. 2, filter : Filter \cup {None},
                   clusters : SUBSET [id : Cluster, articles : SUBSET Article],
                   articles : SUBSET [id : Article, cluster : Cluster \cup {None}]]
    /\ \A c \in script.clusters : c.articles \subseteq Stored("articles")
    /\ script.read = 2 =>
        \A c \in script.clusters : c.articles \subseteq {a.id : a \in script.articles}

\* The rows of the articles keep their types.
LEMMA ArticleRowStep ==
    ASSUME articleRow \in [Article -> [version : {1}, cluster : Cluster \cup {None}]],
           [Next]_vars
    PROVE  articleRow' \in [Article -> [version : {1}, cluster : Cluster \cup {None}]]
<1>1. ASSUME NEW a \in Article, NEW c \in Cluster, JoinCluster(a, c)
      PROVE  articleRow' \in [Article -> [version : {1}, cluster : Cluster \cup {None}]]
    BY <1>1 DEF JoinCluster, Upsert
<1>2. CASE articleRow' = articleRow
    BY <1>2
<1>3. ASSUME \/ StartPaging \/ GetPage \/ ReadTable \/ WriteFiles \/ UNCHANGED vars
             \/ \E filter \in Filter : StartExport(filter)
             \/ \E a \in Article : SaveArticle(a)
      PROVE  articleRow' = articleRow
    BY <1>3 DEF StartPaging, GetPage, ReadTable, WriteFiles, StartExport, SaveArticle, vars,
                tableVars
<1>. QED
    BY <1>1, <1>2, <1>3 DEF Next

\* The rows that a query gets.
LEMMA RowsRead ==
    ASSUME RowsInv,
           articleRow \in [Article -> [version : {1}, cluster : Cluster \cup {None}]]
    PROVE  /\ ClusterRows \in SUBSET [id : Cluster, articles : SUBSET Article]
           /\ \A c \in ClusterRows : c.articles \subseteq Stored("articles")
           /\ ArticleRows \in SUBSET [id : Article, cluster : Cluster \cup {None}]
           /\ {a.id : a \in ArticleRows} = Stored("articles")
<1>. DEFINE line(a) == [id |-> a, cluster |-> articleRow[a].cluster]
<1>1. \A a : line(a).id = a
    OBVIOUS
<1>2. \A a \in Article : line(a) \in [id : Article, cluster : Cluster \cup {None}]
    OBVIOUS
<1>3. ArticleRows = {line(a) : a \in Stored("articles")} /\ Stored("articles") \subseteq Article
    BY DEF ArticleRows, RowsInv
<1>. HIDE DEF line
<1>4. /\ ArticleRows \in SUBSET [id : Article, cluster : Cluster \cup {None}]
      /\ {a.id : a \in ArticleRows} = Stored("articles")
    BY <1>1, <1>2, <1>3
<1>5. /\ ClusterRows \in SUBSET [id : Cluster, articles : SUBSET Article]
      /\ \A c \in ClusterRows : c.articles \subseteq Stored("articles")
    BY DEF ClusterRows, RowsInv
<1>. QED
    BY <1>4, <1>5

\* Articles are never deleted: those that the clusters count when they are read are
\* there when the articles are read.
LEMMA ScriptStep ==
    ASSUME RowsInv, ScriptInv,
           articleRow \in [Article -> [version : {1}, cluster : Cluster \cup {None}]],
           [Next]_vars
    PROVE  ScriptInv'
<1>1. Stored("articles") \subseteq Stored("articles")'
    BY RowsStep
<1>2. CASE script' = script
    BY <1>1, <1>2 DEF ScriptInv
<1>3. ASSUME NEW filter \in Filter, StartExport(filter) PROVE ScriptInv'
  <2>1. script' = [running |-> TRUE, read |-> 0, filter |-> filter, clusters |-> {},
                   articles |-> {}]
    BY <1>3 DEF StartExport, NoScript
  <2>. QED
    BY <2>1 DEF ScriptInv
<1>4. CASE WriteFiles
  <2>1. script' = [running |-> FALSE, read |-> 0, filter |-> None, clusters |-> {},
                   articles |-> {}]
    BY <1>4 DEF WriteFiles, NoScript
  <2>. QED
    BY <2>1 DEF ScriptInv
<1>5. CASE ReadTable
  <2>1. script.read \in {0, 1} /\ Stored("articles")' = Stored("articles")
    BY <1>5 DEF ReadTable, Queries, ScriptInv, tableVars, Stored
  <2>2. CASE script.read = 0
    <3>1. Queries[script.read + 1] = "clusters"
      BY <2>2 DEF Queries
    <3>2. script' = [script EXCEPT !.read = 1, !["clusters"] = ClusterRows]
      BY <1>5, <2>2, <3>1 DEF ReadTable
    <3>3. /\ script' \in [running : BOOLEAN, read : 0 .. 2, filter : Filter \cup {None},
                          clusters : SUBSET [id : Cluster, articles : SUBSET Article],
                          articles : SUBSET [id : Article, cluster : Cluster \cup {None}]]
          /\ script'.clusters = ClusterRows /\ script'.read = 1
      <4>1. script' = [running |-> script.running, read |-> 1, filter |-> script.filter,
                       clusters |-> ClusterRows, articles |-> script.articles]
        BY <3>2 DEF ScriptInv
      <4>. QED
        BY <4>1, RowsRead DEF ScriptInv
    <3>. QED
      BY <2>1, <3>3, RowsRead DEF ScriptInv
  <2>3. CASE script.read = 1
    <3>1. Queries[script.read + 1] = "articles"
      BY <2>3 DEF Queries
    <3>2. script' = [script EXCEPT !.read = 2, !["articles"] = ArticleRows]
      BY <1>5, <2>3, <3>1 DEF ReadTable
    <3>3. /\ script' \in [running : BOOLEAN, read : 0 .. 2, filter : Filter \cup {None},
                          clusters : SUBSET [id : Cluster, articles : SUBSET Article],
                          articles : SUBSET [id : Article, cluster : Cluster \cup {None}]]
          /\ script'.clusters = script.clusters /\ script'.articles = ArticleRows
      <4>1. script' = [running |-> script.running, read |-> 2, filter |-> script.filter,
                       clusters |-> script.clusters, articles |-> ArticleRows]
        BY <3>2 DEF ScriptInv
      <4>. QED
        BY <4>1, RowsRead DEF ScriptInv
    <3>. QED
      BY <2>1, <3>3, RowsRead DEF ScriptInv
  <2>. QED
    BY <2>1, <2>2, <2>3
<1>6. ASSUME \/ StartPaging \/ GetPage \/ UNCHANGED vars
             \/ \E a \in Article : SaveArticle(a) \/ \E c \in Cluster : JoinCluster(a, c)
      PROVE  script' = script
    BY <1>6 DEF StartPaging, GetPage, SaveArticle, JoinCluster, vars
<1>. QED
    BY <1>2, <1>3, <1>4, <1>5, <1>6 DEF Next

-----------------------------------------------------------------------------
(* The theorems *)

ReadersInv ==
    /\ RowsInv
    /\ articleRow \in [Article -> [version : {1}, cluster : Cluster \cup {None}]]
    /\ PagerInv
    /\ ScriptInv

\* The invariants hold of empty tables and idle readers.
LEMMA ReadersInit ==
    Init => ReadersInv
<1>. SUFFICES ASSUME Init PROVE ReadersInv
    OBVIOUS
<1>1. <<>> \in Seq(Row) /\ ToSet(<<>>) = {} /\ IsInjective(<<>>)
    BY DEF ToSet, IsInjective
<1>2. RowsInv
    BY <1>1 DEF Init, RowsInv, Table, Stored
<1>3. articleRow \in [Article -> [version : {1}, cluster : Cluster \cup {None}]]
    BY DEF Init
<1>4. pager = [active |-> FALSE, atStart |-> {}, seen |-> {}, offset |-> 0, done |-> FALSE]
    BY DEF Init, NewPager
<1>5. pager \in [active : BOOLEAN, atStart : SUBSET Row, seen : SUBSET Row, offset : Nat,
                 done : BOOLEAN] /\ pager.atStart = {} /\ pager = NewPager
    BY <1>4 DEF NewPager
<1>6. Waiting = {}
    BY <1>5 DEF Waiting
<1>7. PagerInv
    BY <1>5, <1>6 DEF Init, PagerInv
<1>8. script = [running |-> FALSE, read |-> 0, filter |-> None, clusters |-> {}, articles |-> {}]
    BY DEF Init, NoScript
<1>9. ScriptInv
    BY <1>8 DEF ScriptInv
<1>. QED
    BY <1>2, <1>3, <1>7, <1>9 DEF ReadersInv

\* The invariants of the readers are inductive together.
LEMMA ReadersStep ==
    ReadersInv /\ [Next]_vars => ReadersInv'
    BY RowsStep, ArticleRowStep, PagerStep, ScriptStep DEF ReadersInv

\* A client that pages through a table misses only clusters that moved meanwhile.
THEOREM PagesAreComplete ==
    Spec => []PagesMissOnlyMoved
<1>1. ReadersInv => PagesMissOnlyMoved
    BY DEF ReadersInv, PagerInv, Waiting, PagesMissOnlyMoved
<1>. QED
    BY <1>1, ReadersInit, ReadersStep, PTL DEF Spec

\* An export of all topics has every article that its clusters count.
THEOREM CountsAreExported ==
    Spec => []CountedIsExported
<1>1. Init => CountedIsExported
    BY DEF Init, NoFiles, CountedIsExported
<1>2. ReadersInv /\ CountedIsExported /\ [Next]_vars => CountedIsExported'
  <2>. SUFFICES ASSUME ReadersInv, CountedIsExported, [Next]_vars PROVE CountedIsExported'
    OBVIOUS
  <2>1. CASE files' = files
    BY <2>1 DEF CountedIsExported
  <2>2. CASE WriteFiles
    <3>1. /\ script.read = 2
          /\ files' = [filter |-> script.filter,
                       clusters |-> Export!ClustersCsv(script.clusters, script.filter),
                       articles |-> Export!ArticlesCsv(script.articles, script.clusters,
                                                       script.filter),
                       json |-> Export!Json(script.articles, script.clusters, script.filter)]
      BY <2>2 DEF WriteFiles, Queries
    <3>2. \A c \in script.clusters : c.articles \subseteq {a.id : a \in script.articles}
      BY <3>1 DEF ReadersInv, ScriptInv
    <3>3. CASE script.filter = None
      <4>1. {a.article : a \in files'.articles} = {a.id : a \in script.articles}
        BY <3>1, <3>3, FilesOfAllTopics
      <4>2. \A c \in files'.clusters : \E d \in script.clusters : c.articles = d.articles
        BY <3>1, <3>3, FilesOfAllTopics
      <4>. QED
        BY <3>2, <4>1, <4>2 DEF CountedIsExported
    <3>4. CASE script.filter # None
      BY <3>1, <3>4 DEF CountedIsExported
    <3>. QED
      BY <3>3, <3>4
  <2>3. ASSUME \/ StartPaging \/ GetPage \/ ReadTable \/ UNCHANGED vars
               \/ \E filter \in Filter : StartExport(filter)
               \/ \E a \in Article : SaveArticle(a) \/ \E c \in Cluster : JoinCluster(a, c)
        PROVE  files' = files
    BY <2>3 DEF StartPaging, GetPage, ReadTable, StartExport, SaveArticle, JoinCluster, vars
  <2>. QED
    BY <2>1, <2>2, <2>3 DEF Next
<1>. QED
    BY <1>1, <1>2, ReadersInit, ReadersStep, PTL DEF Spec
=============================================================================
