---------------------------- MODULE TableReaders ----------------------------
(***************************************************************************)
(* Who reads the tables in several queries while the engines write them:   *)
(* clients that page through GET /articles and GET /clusters, and the      *)
(* export script.  Every query sees the rows that are committed when it    *)
(* runs, and no two queries share a snapshot.  Readers write nothing, so   *)
(* none meets another one: a behaviour has the engines and one reader.     *)
(***************************************************************************)
EXTENDS Naturals, Sequences, FiniteSets, SequencesExt

CONSTANTS
    Article, Cluster,
    LabelOf, TopicRules,    \* see ExportData
    Filter,                 \* what --topic may be, None for all topics
    Limit,                  \* rows of a page
    None

ASSUME ReadersAssumption ==
    /\ IsFiniteSet(Article) /\ IsFiniteSet(Cluster)
    /\ Limit \in Nat \ {0}
    /\ None \notin Cluster

VARIABLES
    rows,       \* each table in the order in which its pages are read
    members,    \* the articles that each cluster's row counts
    articleRow, \* version and cluster_id of the articles
    moved,      \* clusters that gained an article since their paging began
    reader,     \* who reads: a client of one of the endpoints, or the script
    pager,      \* what the client has got
    script,     \* what the export has read so far
    files       \* what its last complete run wrote

tableVars == <<rows, members, articleRow, moved>>
vars == <<tableVars, reader, pager, script, files>>

Export == INSTANCE ExportData

-----------------------------------------------------------------------------
Table == {"articles", "clusters"}

\* A client: the rows there were at its start, those it got, how many of them
\* and whether it is done.
NewPager == [active |-> FALSE, atStart |-> {}, seen |-> {}, offset |-> 0, done |-> FALSE]

Stored(t) == ToSet(rows[t])
ClusterRows == {[id |-> c, articles |-> members[c]] : c \in Stored("clusters")}
ArticleRows == {[id |-> a, cluster |-> articleRow[a].cluster] : a \in Stored("articles")}

\* The export: its filter, how many of its queries have run, and their rows.
NoScript == [running |-> FALSE, read |-> 0, filter |-> None, clusters |-> {}, articles |-> {}]
NoFiles == [filter |-> None, clusters |-> {}, articles |-> {}, json |-> {}]

TypeOK ==
    /\ rows \in [Table -> Seq(Article \cup Cluster)]
    /\ \A t \in Table : IsInjective(rows[t])
    /\ Stored("articles") \subseteq Article /\ Stored("clusters") \subseteq Cluster
    /\ members \in [Cluster -> SUBSET Article]
    /\ articleRow \in [Article -> [version : {1}, cluster : Cluster \cup {None}]]
    /\ moved \subseteq Cluster
    /\ reader \in Table \cup {"script"}
    /\ pager.offset \in Nat /\ pager.done \in BOOLEAN
    /\ script.running \in BOOLEAN /\ script.read \in 0 .. 2
    /\ script.filter \in Filter \cup {None}

Init ==
    /\ rows = [t \in Table |-> <<>>]
    /\ members = [c \in Cluster |-> {}]
    /\ articleRow = [a \in Article |-> [version |-> 1, cluster |-> None]]
    /\ moved = {}
    /\ reader \in Table \cup {"script"}
    /\ pager = NewPager
    /\ script = NoScript
    /\ files = NoFiles

-----------------------------------------------------------------------------
(* The engines *)

\* The dedup engine saves an article; published_at decides on its place.
SaveArticle(a) ==
    /\ a \notin Stored("articles")
    /\ \E k \in 1 .. Len(rows["articles"]) + 1 :
        rows' = [rows EXCEPT !["articles"] = InsertAt(@, k, a)]
    /\ UNCHANGED <<members, articleRow, moved, reader, pager, script, files>>

\* The version-guarded UPSERT of an article.
Upsert(old, new) == IF old.version < new.version THEN new ELSE old

\* Where the row of a cluster may go: last_activity grows, but it is read from the
\* clock before the commit, so a commit need not make its cluster the first one.
Places(c) ==
    IF c \in Stored("clusters")
    THEN {k \in DOMAIN rows["clusters"] : \A i \in 1 .. k - 1 : rows["clusters"][i] # c}
    ELSE 1 .. Len(rows["clusters"]) + 1

\* The clustering engine commits the place of a stored article, once more if its
\* message comes again, and saves the article with the version it has.
JoinCluster(a, c) ==
    /\ a \in Stored("articles")
    /\ members' = [members EXCEPT ![c] = @ \cup {a}]
    /\ \E k \in Places(c) :
        rows' = [rows EXCEPT !["clusters"] = InsertAt(RemoveFirst(@, c), k, c)]
    /\ articleRow' = [articleRow EXCEPT ![a] = Upsert(@, [@ EXCEPT !.cluster = c])]
    /\ moved' = moved \cup {c}
    /\ UNCHANGED <<reader, pager, script, files>>

-----------------------------------------------------------------------------
(* Pages *)

StartPaging ==
    /\ reader \in Table /\ ~ pager.active
    /\ pager' = [NewPager EXCEPT !.active = TRUE, !.atStart = Stored(reader)]
    /\ moved' = {}
    /\ UNCHANGED <<rows, members, articleRow, reader, script, files>>

\* Variant: the offset counts from one.
PageFromOne(t, offset) ==
    SubSeq(rows[t], offset + 2,
           IF offset + 1 + Limit < Len(rows[t]) THEN offset + 1 + Limit ELSE Len(rows[t]))

\* LIMIT and OFFSET.
Page(t, offset) ==
    SubSeq(rows[t], offset + 1,
           IF offset + Limit < Len(rows[t]) THEN offset + Limit ELSE Len(rows[t]))

\* A client asks for the next page until there is none.
GetPage ==
    LET page == Page(reader, pager.offset) IN
    /\ pager.active /\ ~ pager.done
    /\ pager' = [pager EXCEPT !.seen = @ \cup ToSet(page),
                              !.offset = @ + Len(page),
                              !.done = (page = <<>>)]
    /\ UNCHANGED <<tableVars, reader, script, files>>

-----------------------------------------------------------------------------
(* The export script *)

StartExport(filter) ==
    /\ reader = "script" /\ ~ script.running
    /\ script' = [NoScript EXCEPT !.running = TRUE, !.filter = filter]
    /\ UNCHANGED <<tableVars, reader, pager, files>>

\* Variant: the articles are read first.
QueriesSwapped == <<"articles", "clusters">>

\* The two queries of the script, in their order.
Queries == <<"clusters", "articles">>

ReadTable ==
    LET t == Queries[script.read + 1] IN
    /\ script.running /\ script.read < Len(Queries)
    /\ script' = [script EXCEPT
            !.read = @ + 1,
            ![t] = IF t = "clusters" THEN ClusterRows ELSE ArticleRows]
    /\ UNCHANGED <<tableVars, reader, pager, files>>

\* The files are written from what was read.
WriteFiles ==
    LET clusters == script.clusters
        articles == script.articles
    IN
    /\ script.running /\ script.read = Len(Queries)
    /\ files' = [filter |-> script.filter,
                 clusters |-> Export!ClustersCsv(clusters, script.filter),
                 articles |-> Export!ArticlesCsv(articles, clusters, script.filter),
                 json |-> Export!Json(articles, clusters, script.filter)]
    /\ script' = NoScript
    /\ UNCHANGED <<tableVars, reader, pager>>

Next ==
    \/ \E a \in Article : SaveArticle(a) \/ \E c \in Cluster : JoinCluster(a, c)
    \/ StartPaging
    \/ GetPage
    \/ \E filter \in Filter : StartExport(filter)
    \/ ReadTable
    \/ WriteFiles

Spec == Init /\ [][Next]_vars

-----------------------------------------------------------------------------
(* Properties *)

\* Pages are cut from a table that changes.  Rows come in before and between
\* those a client has not read yet, so it may get some twice, but it misses only
\* clusters that an article moved while it was reading.
PagesMissOnlyMoved ==
    pager.done => pager.atStart \ moved \subseteq pager.seen

\* The clusters are read before the articles, and articles stay: an export of all
\* topics has a row for every article that its clusters count.
CountedIsExported ==
    files.filter = None =>
        \A c \in files.clusters : c.articles \subseteq {a.article : a \in files.articles}
=============================================================================
