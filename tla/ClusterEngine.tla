---------------------------- MODULE ClusterEngine ----------------------------
(***************************************************************************)
(* The clustering engine: ClusterService.process_article as the replicas   *)
(* of cluster_worker run it, over the ARTICLE_UNIQUE subject, the Redis    *)
(* cache, the PostgreSQL tables "clusters" and "articles" and the          *)
(* ARTICLE_CLUSTERED subject.                                              *)
(*                                                                         *)
(* The handler is one coroutine; every action below is the code between    *)
(* two of its awaits, so all interleavings of the replicas at their awaits *)
(* are behaviours.  A centroid is represented by the sequence of articles  *)
(* averaged into it, and article_count is the length of that sequence.     *)
(* Cosine similarity is a free choice: any active cluster may be the best  *)
(* match of any article, and any article may have none.                    *)
(***************************************************************************)
EXTENDS Naturals, Sequences, FiniteSets

CONSTANTS
    Article,      \* the articles announced by ARTICLE_UNIQUE, one message each
    Stored,       \* those with a row in "articles"
    Unusable,     \* those whose payload or embedding is rejected as permanent
    Worker,       \* cluster_worker replicas, one handler at a time each
    MaxDeliver,   \* max_deliver of the consumer (5 in the code)
    ActiveLimit,  \* how many active clusters a lookup reads (100 in the code)
    FaultKind,    \* which of "fail", "crash" and "slow" may happen
    MaxFaults,    \* and how often in all
    ClockTies,    \* may two handlers read the same microsecond?
    None          \* no cluster

ASSUME BoundsAssumption ==
    /\ MaxDeliver \in Nat \ {0}
    /\ ActiveLimit \in Nat \ {0}
    /\ MaxFaults \in Nat
    /\ FaultKind \subseteq {"fail", "crash", "slow"}
    /\ ClockTies \in BOOLEAN

ASSUME ArticleAssumption ==
    /\ Stored \subseteq Article
    /\ Unusable \subseteq Article

\* uuid4() names a new cluster: no two handler executions draw the same name,
\* so the execution (the article and the number of its delivery) is the name.
Cluster == Article \X (1 .. MaxDeliver)

ASSUME NoneAssumption == None \notin Article \cup Cluster

VARIABLES
    mstate, delivered,  \* the consumer of ARTICLE_UNIQUE
    db,                 \* table "clusters"
    articleRow,         \* version and cluster_id of the rows of "articles"
    cache,              \* the keys cache:cluster:<id>
    active,             \* scores of the sorted set cache:clusters:active, 0 = not in it
    dirty,              \* the sets cache:dirty:clusters and cache:dirty:articles
    events,             \* what was published on ARTICLE_CLUSTERED
    pc, job,            \* where each worker's handler stands, and its locals
    clock,              \* the last microsecond anyone read from datetime.now
    faults              \* faults that happened so far

busVars == <<mstate, delivered>>
cacheVars == <<cache, active, dirty>>
dbVars == <<db, articleRow>>
vars == <<mstate, delivered, db, articleRow, cache, active, dirty, events,
          pc, job, clock, faults>>

Bus == INSTANCE JetStreamConsumer WITH Msg <- Article

-----------------------------------------------------------------------------
\* Rows.  A row that is not there has version 0: versions start at 1.
Row == [version : Nat, members : Seq(Article), stamp : Nat]
NoRow == [version |-> 0, members |-> <<>>, stamp |-> 0]
Present(row) == row.version > 0

ArticleRow == [version : Nat, cluster : Cluster \cup {None}]

\* Variant: the UPSERT without its version guard.
UpsertAlways(old, new) == new

\* INSERT ... ON CONFLICT DO UPDATE ... WHERE table.version < excluded.version:
\* what the table holds afterwards, and what the SELECT that follows returns.
Upsert(old, new) == IF old.version < new.version THEN new ELSE old

Job == [article : Article \cup {None}, attempt : 0 .. MaxDeliver,
        cluster : Cluster \cup {None}, row : Row, isNew : BOOLEAN]
NoJob == [article |-> None, attempt |-> 0, cluster |-> None,
          row |-> NoRow, isNew |-> FALSE]

Label == {"idle", "lookup", "get", "article", "save", "setCache",
          "markCluster", "markArticle", "publish", "ack"}

Event == [cluster : Cluster, version : Nat, article : Article]

TypeOK ==
    /\ Bus!TypeOK
    /\ db \in [Cluster -> Row]
    /\ articleRow \in [Article -> ArticleRow]
    /\ cache \in [Cluster -> Row]
    /\ active \in [Cluster -> Nat]
    /\ dirty \subseteq Cluster \cup Article
    /\ events \subseteq Event
    /\ pc \in [Worker -> Label]
    /\ job \in [Worker -> Job]
    /\ clock \in Nat
    /\ faults \in 0 .. MaxFaults

Init ==
    /\ Bus!Init
    /\ db = [c \in Cluster |-> NoRow]
    /\ articleRow = [a \in Article |->
                        [version |-> IF a \in Stored THEN 1 ELSE 0, cluster |-> None]]
    /\ cache = [c \in Cluster |-> NoRow]
    /\ active = [c \in Cluster |-> 0]
    /\ dirty = {}
    /\ events = {}
    /\ pc = [w \in Worker |-> "idle"]
    /\ job = [w \in Worker |-> NoJob]
    /\ clock = 1
    /\ faults = 0

-----------------------------------------------------------------------------
\* datetime.now(UTC): the microseconds a handler may read.
Now == IF ClockTies THEN {clock, clock + 1} ELSE {clock + 1}

Goto(w, label) == pc' = [pc EXCEPT ![w] = label]
At(w, label) == pc[w] = label

\* The handler is over, one way or another.
Finish(w) ==
    /\ Goto(w, "idle")
    /\ job' = [job EXCEPT ![w] = NoJob]

\* zrevrange(0, limit - 1): the ActiveLimit highest scores.
Window ==
    {c \in Cluster :
        /\ active[c] > 0
        /\ Cardinality({d \in Cluster : active[d] > active[c]}) < ActiveLimit}

\* The dedup engine publishes ARTICLE_UNIQUE.
Arrive(a) ==
    /\ Bus!Publish(a)
    /\ UNCHANGED <<dbVars, cacheVars, events, pc, job, clock, faults>>

\* The server hands the message to a replica, which enters process_article.
Deliver(w, a) ==
    /\ At(w, "idle")
    /\ Bus!Deliver(a)
    /\ Goto(w, "lookup")
    /\ job' = [job EXCEPT ![w] = [NoJob EXCEPT !.article = a, !.attempt = delivered[a] + 1]]
    /\ UNCHANGED <<dbVars, cacheVars, events, clock, faults>>

\* A bad schema, an empty embedding or a zero vector: PermanentError, TERM.
Reject(w) ==
    /\ At(w, "lookup")
    /\ job[w].article \in Unusable
    /\ Bus!Term(job[w].article)
    /\ Finish(w)
    /\ UNCHANGED <<dbVars, cacheVars, events, clock, faults>>

\* The best of the active clusters is similar enough.
Match(w) ==
    /\ At(w, "lookup")
    /\ job[w].article \notin Unusable
    /\ \E c \in Window :
        /\ Present(cache[c])
        /\ job' = [job EXCEPT ![w].cluster = c]
    /\ Goto(w, "get")
    /\ UNCHANGED <<busVars, dbVars, cacheVars, events, clock, faults>>

\* A new cluster around the article.
Found(w, t) ==
    LET a == job[w].article IN
    /\ job' = [job EXCEPT
            ![w].cluster = <<a, job[w].attempt>>,
            ![w].row = [version |-> 1, members |-> <<a>>, stamp |-> t],
            ![w].isNew = TRUE]
    /\ clock' = t
    /\ Goto(w, "article")
    /\ UNCHANGED <<busVars, dbVars, cacheVars, events, faults>>

\* No active cluster is similar enough.
NoMatch(w) ==
    /\ At(w, "lookup")
    /\ job[w].article \notin Unusable
    /\ \E t \in Now : Found(w, t)

\* The key vanished between the lookup and get_cluster.
GetMiss(w) ==
    /\ At(w, "get")
    /\ ~ Present(cache[job[w].cluster])
    /\ \E t \in Now : Found(w, t)

\* get_cluster returns the cached copy; the article is averaged into it.
GetHit(w) ==
    LET cached == cache[job[w].cluster] IN
    /\ At(w, "get")
    /\ Present(cached)
    /\ \E t \in Now :
        /\ job' = [job EXCEPT
                ![w].row = [version |-> cached.version + 1,
                            members |-> Append(cached.members, job[w].article),
                            stamp |-> t],
                ![w].isNew = FALSE]
        /\ clock' = t
    /\ Goto(w, "article")
    /\ UNCHANGED <<busVars, dbVars, cacheVars, events, faults>>

\* get_by_url_hash finds the row of the article ...
FindArticle(w) ==
    /\ At(w, "article")
    /\ Present(articleRow[job[w].article])
    /\ Goto(w, "save")
    /\ UNCHANGED <<busVars, dbVars, cacheVars, events, job, clock, faults>>

\* ... or does not: a warning, and a return that is ACKed.
ArticleMissing(w) ==
    /\ At(w, "article")
    /\ ~ Present(articleRow[job[w].article])
    /\ Goto(w, "ack")
    /\ UNCHANGED <<busVars, dbVars, cacheVars, events, job, clock, faults>>

\* The transaction: the cluster's upsert, the check of the row that came back
\* for a cluster that is not new, and the article's upsert.
Saved(w) == Upsert(db[job[w].cluster], job[w].row)

\* Variant: the check without last_activity.
ConflictByVersion(w) ==
    /\ ~ job[w].isNew
    /\ Saved(w).version # job[w].row.version

\* Variant: the check expects the version that was read, not the one written.
ConflictWithBase(w) ==
    /\ ~ job[w].isNew
    /\ Saved(w).version # job[w].row.version - 1

Conflict(w) ==
    /\ ~ job[w].isNew
    /\ \/ Saved(w).version # job[w].row.version
       \/ Saved(w).stamp # job[w].row.stamp

Save(w) ==
    LET a == job[w].article
        c == job[w].cluster
    IN
    /\ At(w, "save")
    /\ ~ Conflict(w)
    /\ db' = [db EXCEPT ![c] = Saved(w)]
    /\ articleRow' = [articleRow EXCEPT ![a] = Upsert(@, [@ EXCEPT !.cluster = c])]
    /\ Goto(w, "setCache")
    /\ UNCHANGED <<busVars, cacheVars, events, job, clock, faults>>

\* Variant: the conflict is logged and forgotten.
SaveRefusedAcked(w) ==
    /\ At(w, "save")
    /\ Conflict(w)
    /\ Bus!Ack(job[w].article)
    /\ Finish(w)
    /\ UNCHANGED <<dbVars, cacheVars, events, clock, faults>>

\* Variant: the transaction is tried again with the same stale row.
SaveRefusedSpins(w) ==
    /\ At(w, "save")
    /\ Conflict(w)
    /\ UNCHANGED vars

\* RetryableError: the transaction is rolled back and the message NAKed.
SaveRefused(w) ==
    /\ At(w, "save")
    /\ Conflict(w)
    /\ Bus!Nak(job[w].article)
    /\ Finish(w)
    /\ UNCHANGED <<dbVars, cacheVars, events, clock, faults>>

\* Variant: only new clusters are written to the cache.
SetCacheIfNew(w) ==
    LET c == job[w].cluster IN
    /\ At(w, "setCache")
    /\ IF job[w].isNew
       THEN /\ cache' = [cache EXCEPT ![c] = job[w].row]
            /\ active' = [active EXCEPT ![c] = job[w].row.stamp]
       ELSE UNCHANGED <<cache, active>>
    /\ Goto(w, "markCluster")
    /\ UNCHANGED <<busVars, dbVars, dirty, events, job, clock, faults>>

\* set_cluster: the key and the sorted set in one MULTI.
SetCache(w) ==
    LET c == job[w].cluster IN
    /\ At(w, "setCache")
    /\ cache' = [cache EXCEPT ![c] = job[w].row]
    /\ active' = [active EXCEPT ![c] = job[w].row.stamp]
    /\ Goto(w, "markCluster")
    /\ UNCHANGED <<busVars, dbVars, dirty, events, job, clock, faults>>

MarkCluster(w) ==
    /\ At(w, "markCluster")
    /\ dirty' = dirty \cup {job[w].cluster}
    /\ Goto(w, "markArticle")
    /\ UNCHANGED <<busVars, dbVars, cache, active, events, job, clock, faults>>

MarkArticle(w) ==
    /\ At(w, "markArticle")
    /\ dirty' = dirty \cup {job[w].article}
    /\ Goto(w, "publish")
    /\ UNCHANGED <<busVars, dbVars, cache, active, events, job, clock, faults>>

\* ARTICLE_CLUSTERED.
Publish(w) ==
    /\ At(w, "publish")
    /\ events' = events \cup {[cluster |-> job[w].cluster,
                               version |-> job[w].row.version,
                               article |-> job[w].article]}
    /\ Goto(w, "ack")
    /\ UNCHANGED <<busVars, dbVars, cacheVars, job, clock, faults>>

\* process_article returned.
Ack(w) ==
    /\ At(w, "ack")
    /\ Bus!Ack(job[w].article)
    /\ Finish(w)
    /\ UNCHANGED <<dbVars, cacheVars, events, clock, faults>>

-----------------------------------------------------------------------------
\* What may go wrong.
Fault(kind) ==
    /\ kind \in FaultKind
    /\ faults < MaxFaults
    /\ faults' = faults + 1

\* An await raises: Redis, PostgreSQL or NATS failed, or the circuit breaker is
\* open.  A call that failed after it took effect fails at the next label.
Fail(w) ==
    /\ ~ At(w, "idle")
    /\ Fault("fail")
    /\ Bus!Nak(job[w].article)
    /\ Finish(w)
    /\ UNCHANGED <<dbVars, cacheVars, events, clock>>

\* The process dies and is started again; nobody answers the delivery.
Crash(w) ==
    /\ ~ At(w, "idle")
    /\ Fault("crash")
    /\ Finish(w)
    /\ UNCHANGED <<busVars, dbVars, cacheVars, events, clock>>

Held(a) ==
    \E w \in Worker :
        /\ ~ At(w, "idle")
        /\ job[w].article = a
        /\ job[w].attempt = delivered[a]

\* Variant: an ack_wait shorter than the handler.
AckWaitEager(a) ==
    /\ Bus!AckWait(a)
    /\ UNCHANGED <<dbVars, cacheVars, events, pc, job, clock, faults>>

\* ack_wait runs out on a delivery nobody holds any more ...
AckWait(a) ==
    /\ ~ Held(a)
    /\ Bus!AckWait(a)
    /\ UNCHANGED <<dbVars, cacheVars, events, pc, job, clock, faults>>

\* ... or on a handler that is merely slow.
SlowHandler(a) ==
    /\ Held(a)
    /\ Fault("slow")
    /\ Bus!AckWait(a)
    /\ UNCHANGED <<dbVars, cacheVars, events, pc, job, clock>>

\* The TTL set_cluster gives the key runs out, or volatile-lru evicts the key.
Expire(c) ==
    /\ Present(cache[c])
    /\ cache' = [cache EXCEPT ![c] = NoRow]
    /\ UNCHANGED <<busVars, dbVars, active, dirty, events, pc, job, clock, faults>>

\* Redis keeps nothing on disk.
RedisRestart ==
    /\ \E c \in Cluster : active[c] > 0
    /\ cache' = [c \in Cluster |-> NoRow]
    /\ active' = [c \in Cluster |-> 0]
    /\ dirty' = {}
    /\ UNCHANGED <<busVars, dbVars, events, pc, job, clock, faults>>

-----------------------------------------------------------------------------
\* What a replica does of its own accord.
Handle(w) ==
    \/ Reject(w) \/ Match(w) \/ NoMatch(w) \/ GetMiss(w) \/ GetHit(w)
    \/ FindArticle(w) \/ ArticleMissing(w) \/ Save(w) \/ SaveRefused(w)
    \/ SetCache(w) \/ MarkCluster(w) \/ MarkArticle(w) \/ Publish(w) \/ Ack(w)

\* The end of the story: every message is settled and every handler is done.
Done ==
    /\ \A a \in Article : Bus!Settled(a)
    /\ \A w \in Worker : At(w, "idle")
    /\ UNCHANGED vars

Next ==
    \/ \E w \in Worker : Handle(w) \/ Fail(w) \/ Crash(w)
    \/ \E w \in Worker, a \in Article : Deliver(w, a)
    \/ \E a \in Article : Arrive(a) \/ AckWait(a) \/ SlowHandler(a)
    \/ \E c \in Cluster : Expire(c)
    \/ RedisRestart
    \/ Done

Spec == Init /\ [][Next]_vars

\* Replicas keep running, the server keeps delivering and its timers fire.
\* Nothing forces a fault, a cache loss or an arrival.
Fairness ==
    /\ \A w \in Worker : WF_vars(Handle(w))
    /\ \A a \in Article : WF_vars(\E w \in Worker : Deliver(w, a))
    /\ \A a \in Article : WF_vars(AckWait(a))

FairSpec == Spec /\ Fairness

-----------------------------------------------------------------------------
(* Properties *)

\* The cached copy of a cluster is the row of the database or the row just
\* before it: two replicas that race through get_cluster, the transaction and
\* set_cluster never leave the cache with a row the database does not know.
CacheTracksDb ==
    \A c \in Cluster : Present(cache[c]) =>
        /\ db[c].version \in {cache[c].version, cache[c].version + 1}
        /\ db[c].version = cache[c].version => db[c] = cache[c]

\* Whatever ARTICLE_CLUSTERED said of an article's place in a cluster is, and
\* stays, what the database holds, also after retries, crashes and conflicts.
EventsMatchDb ==
    \A e \in events :
        /\ e.version \in DOMAIN db[e.cluster].members
        /\ db[e.cluster].members[e.version] = e.article

\* set_cluster precedes the publication: a client that hears of a version and
\* then reads the cluster from the cache never gets an older one.
EventsNotAheadOfCache ==
    \A e \in events :
        Present(cache[e.cluster]) => cache[e.cluster].version >= e.version

\* A message is ACKed only after its article's place was announced, unless the
\* article has no row to bind to a cluster.
AckedWasAnnounced ==
    \A a \in Stored :
        mstate[a] = "acked" => \E e \in events : e.article = a

\* Places an article has in stored clusters.
Places(a) ==
    {p \in Cluster \X (1 .. Cardinality(Article) * MaxDeliver) :
        /\ p[2] \in DOMAIN db[p[1]].members
        /\ db[p[1]].members[p[2]] = a}

\* Without a fault no article is counted twice, however often conflicts made
\* the server deliver its message again.
CountedOnceUnlessFault ==
    faults = 0 => \A a \in Article : Cardinality(Places(a)) <= 1

\* Without a fault the cache lags behind the database only while the handler
\* that committed is on its way to set_cluster.
LagIsTransient ==
    faults = 0 => \A c \in Cluster :
        Present(cache[c]) /\ cache[c] # db[c] =>
            \E w \in Worker : At(w, "setCache") /\ job[w].cluster = c

\* Without a fault a message is given up only because rivals joined a story in its
\* stead: the NAK of a conflict is not delayed, so one slow rival can use up all its
\* deliveries.  Nothing of the refused transactions was kept.
DroppedByRivals ==
    faults = 0 => \A a \in Stored : mstate[a] = "dropped" =>
        /\ \E c \in Cluster : db[c].version > 1
        /\ Places(a) = {}

\* Every message that is published is answered for good: no retry, conflict or
\* crash keeps it in the stream for ever.
EveryMessageSettles ==
    \A a \in Article : mstate[a] = "queued" ~> Bus!Settled(a)

\* The engine implements the ledger: clusters only grow, one article at a time
\* and at the end, and events report places that exist.
Ledger == INSTANCE StoryLedger WITH
    Story <- Cluster,
    stories <- [c \in Cluster |-> db[c].members],
    announced <- events

ImplementsLedger == Ledger!Spec
=============================================================================
