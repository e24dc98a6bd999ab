------------------------------ MODULE Pipeline ------------------------------
(***************************************************************************)
(* Dedup and clustering over the subject ARTICLE_UNIQUE: what one engine   *)
(* publishes is what the other one is delivered, while each of them races, *)
(* retries and fails on its own.  They share the Redis server, which loses *)
(* the keys of both when it restarts, and the table "articles", where      *)
(* clustering looks for the row that dedup saved.                          *)
(*                                                                         *)
(* A delivery of an extract announces its article once at most, so the     *)
(* messages of ARTICLE_UNIQUE are numbered per extract.                    *)
(***************************************************************************)
EXTENDS Naturals, Sequences, FiniteSets

CONSTANTS
    Article, Message, UrlHash, Near, Alike,  \* see DedupEngine
    Unusable,        \* the extracts whose announcement clustering rejects
    DedupWorker, ClusterWorker,              \* the replicas of both workers
    MaxDeliver, TimelineLimit, ActiveLimit, ClockTies,
    DedupFault, ClusterFault,                \* what may go wrong in each engine
    MaxFaults,       \* and how often in each
    KeyLoss,         \* may Redis lose one key on its own, or only all of them?
    None

VARIABLES
    \* the consumer of EXTRACT_COMPLETED and the state of dedup
    extracts, extractDeliveries, stored, bands, embeddings, timeline, dedupDirty,
    uniques, duplicates, overlooked, dedupPc, dedupJob, dedupFaults,
    \* the consumer of ARTICLE_UNIQUE and the state of clustering
    announcements, announcementDeliveries, db, articleRow, cache, active, clusterDirty,
    events, clusterPc, clusterJob, clock, clusterFaults

dedupVars == <<extracts, extractDeliveries, stored, bands, embeddings, timeline, dedupDirty,
               uniques, duplicates, overlooked, dedupPc, dedupJob, dedupFaults>>
clusterVars == <<announcements, announcementDeliveries, db, articleRow, cache, active,
                 clusterDirty, events, clusterPc, clusterJob, clock, clusterFaults>>
vars == <<dedupVars, clusterVars>>

Announcement == Message \X (1 .. MaxDeliver)

ASSUME BoundsAssumption ==
    /\ MaxDeliver \in Nat \ {0}
    /\ TimelineLimit \in Nat \ {0}
    /\ ActiveLimit \in Nat \ {0}
    /\ MaxFaults \in Nat
    /\ DedupFault \subseteq {"fail", "crash", "slow", "embed"}
    /\ ClusterFault \subseteq {"fail", "crash", "slow"}
    /\ {ClockTies, KeyLoss} \subseteq BOOLEAN
    /\ IsFiniteSet(DedupWorker)

ASSUME ArticleAssumption ==
    /\ UrlHash \in [Message -> Article]
    /\ \A a \in Article : <<a, a>> \in Near \cap Alike
    /\ \A a, b \in Article : /\ <<a, b>> \in Near => <<b, a>> \in Near
                             /\ <<a, b>> \in Alike => <<b, a>> \in Alike
    /\ Unusable \subseteq Message

ASSUME NoneAssumption ==
    /\ None \notin Article \cup Message
    /\ None \notin Announcement \cup (Announcement \X (1 .. MaxDeliver))

Dedup == INSTANCE DedupEngine WITH
    Worker <- DedupWorker, FaultKind <- DedupFault,
    mstate <- extracts, delivered <- extractDeliveries, dirty <- dedupDirty,
    pc <- dedupPc, job <- dedupJob, faults <- dedupFaults

\* Every announced article has its row (DedupEngine!UniqueIsStored).
Clustering == INSTANCE ClusterEngine WITH
    Article <- Announcement, Stored <- Announcement,
    Unusable <- Unusable \X (1 .. MaxDeliver),
    Worker <- ClusterWorker, FaultKind <- ClusterFault,
    mstate <- announcements, delivered <- announcementDeliveries, dirty <- clusterDirty,
    pc <- clusterPc, job <- clusterJob, faults <- clusterFaults

-----------------------------------------------------------------------------
Init == Dedup!Init /\ Clustering!Init

\* Dedup and its bus, up to a publication of ARTICLE_UNIQUE.
Deduplicate ==
    /\ UNCHANGED <<uniques, clusterVars>>
    /\ \/ \E w \in DedupWorker :
            Dedup!Handle(w) \/ Dedup!EmbedFails(w) \/ Dedup!Fail(w) \/ Dedup!Crash(w)
       \/ \E w \in DedupWorker, m \in Message : Dedup!Deliver(w, m)
       \/ \E m \in Message : Dedup!Arrive(m) \/ Dedup!AckWait(m) \/ Dedup!SlowHandler(m)
       \/ KeyLoss /\ \E a \in Article : Dedup!ExpireBands(a) \/ Dedup!ExpireEmbedding(a)

\* ARTICLE_UNIQUE is published, and its stream has one message more.
Announce(w) ==
    /\ Dedup!PublishUnique(w)
    /\ LET m == dedupJob[w].msg IN Clustering!Arrive(<<m, uniques'[m]>>)

\* Clustering and its bus.
Cluster ==
    /\ \/ \E w \in ClusterWorker : Clustering!Handle(w) \/ Clustering!Fail(w) \/ Clustering!Crash(w)
       \/ \E w \in ClusterWorker, a \in Announcement : Clustering!Deliver(w, a)
       \/ \E a \in Announcement : Clustering!AckWait(a) \/ Clustering!SlowHandler(a)
       \/ KeyLoss /\ \E c \in Clustering!Cluster : Clustering!Expire(c)
    /\ UNCHANGED dedupVars

\* One Redis serves both.
RedisRestart ==
    \/ Dedup!RedisRestart /\ Clustering!RedisRestart
    \/ Dedup!RedisRestart /\ (\A c \in Clustering!Cluster : active[c] = 0) /\ UNCHANGED clusterVars
    \/ /\ Clustering!RedisRestart
       /\ bands \cup embeddings \cup timeline \cup dedupDirty = {}
       /\ UNCHANGED dedupVars

\* The end of the story: nothing is under way in either engine.
Done ==
    /\ \A m \in Message : Dedup!Bus!Settled(m)
    /\ \A w \in DedupWorker : Dedup!At(w, "idle")
    /\ \A a \in Announcement : announcements[a] = "unsent" \/ Clustering!Bus!Settled(a)
    /\ \A w \in ClusterWorker : Clustering!At(w, "idle")
    /\ UNCHANGED vars

Next ==
    \/ Deduplicate
    \/ \E w \in DedupWorker : Announce(w)
    \/ Cluster
    \/ RedisRestart
    \/ Done

Spec == Init /\ [][Next]_vars

-----------------------------------------------------------------------------
(* Properties *)

NoFault == dedupFaults = 0 /\ clusterFaults = 0

\* The article stands in a story, and its place was announced.
Clustered(a) == \E e \in events : UrlHash[e.article[1]] = a

\* An announcement of the article waits for clustering, is in a handler's hands, was
\* rejected, or conflicted until its deliveries were used up.
UnderWay(a) ==
    \E n \in Announcement :
        /\ UrlHash[n[1]] = a
        /\ \/ announcements[n] \in {"queued", "inflight", "dropped"}
           \/ announcements[n] = "termed" /\ n[1] \in Unusable

\* Without a fault no extract vanishes between the two engines: once it is
\* acknowledged, its article was declared a duplicate, is in the hands of a replica
\* that will announce it, is under way, or stands in a story.
NothingVanishes ==
    NoFault => \A m \in Message : extracts[m] = "acked" =>
        LET a == UrlHash[m] IN
        \/ Dedup!Declared(a)
        \/ Dedup!Within(a, {"markDirty", "unique"})
        \/ UnderWay(a)
        \/ Clustered(a)

\* Places that the announcements of an extract have in stored clusters.
PlacesOf(m) ==
    {p \in Clustering!Cluster \X (1 .. Cardinality(Announcement) * MaxDeliver) :
        /\ p[2] \in DOMAIN db[p[1]].members
        /\ db[p[1]].members[p[2]][1] = m}

\* Without a fault an extract is counted once, whatever conflicts there are.
CountedOnceEndToEnd ==
    NoFault => \A m \in Message : Cardinality(PlacesOf(m)) <= 1

\* What a reader of the tables and of ARTICLE_CLUSTERED sees: stories of articles.
Text(members) == [i \in DOMAIN members |-> UrlHash[members[i][1]]]

News == INSTANCE Newsroom WITH
    Story <- Clustering!Cluster,
    Copies <- Cardinality(DedupWorker),
    archive <- stored,
    strays <- overlooked,
    stories <- [c \in Clustering!Cluster |-> Text(db[c].members)],
    announced <- {[e EXCEPT !.article = UrlHash[@[1]]] : e \in events}

ImplementsNewsroom == News!Spec
=============================================================================
