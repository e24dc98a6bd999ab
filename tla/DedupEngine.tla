----------------------------- MODULE DedupEngine -----------------------------
(***************************************************************************)
(* The dedup engine: DedupService.process_article as the replicas of       *)
(* dedup_worker run it, over the EXTRACT_COMPLETED subject, the SimHash    *)
(* bands, embeddings and timeline in Redis and the table "articles".       *)
(*                                                                         *)
(* An article is identified by its url_hash; several messages may carry    *)
(* the same one.  What SimHash and cosine similarity say of two articles   *)
(* are two relations, Near and Alike; the messages of one article carry    *)
(* the same text.  As in ClusterEngine, an action is the code between two  *)
(* awaits of the handler.                                                  *)
(***************************************************************************)
EXTENDS Naturals, FiniteSets

CONSTANTS
    Article,        \* url_hashes
    Message,        \* EXTRACT_COMPLETED messages
    UrlHash,        \* the article of each message
    Near,           \* pairs with a SimHash distance of at most 3
    Alike,          \* pairs whose cosine similarity is above the threshold
    Worker,         \* dedup_worker replicas, one handler at a time each
    MaxDeliver,     \* max_deliver of the consumer (5 in the code)
    TimelineLimit,  \* how much of the timeline is compared (100 in the code)
    FaultKind,      \* which of "fail", "crash", "slow" and "embed" may happen
    MaxFaults,      \* and how often in all
    None            \* no message, no article

ASSUME BoundsAssumption ==
    /\ MaxDeliver \in Nat \ {0}
    /\ TimelineLimit \in Nat \ {0}
    /\ MaxFaults \in Nat
    /\ FaultKind \subseteq {"fail", "crash", "slow", "embed"}
    /\ IsFiniteSet(Worker)

ASSUME ArticleAssumption ==
    /\ UrlHash \in [Message -> Article]
    /\ \A a \in Article : <<a, a>> \in Near \cap Alike
    /\ \A a, b \in Article : /\ <<a, b>> \in Near => <<b, a>> \in Near
                             /\ <<a, b>> \in Alike => <<b, a>> \in Alike

ASSUME NoneAssumption == None \notin Article \cup Message

VARIABLES
    mstate, delivered,  \* the consumer of EXTRACT_COMPLETED
    stored,             \* articles with a row
    bands,              \* articles registered in simhash:band:*
    embeddings,         \* articles with a key cache:embedding:*
    timeline,           \* articles in timeline:global
    dirty,              \* the set cache:dirty:articles
    uniques,            \* times ARTICLE_UNIQUE was published for each message
    duplicates,         \* what was published on ARTICLE_DUPLICATE
    overlooked,         \* history: articles whose match the vector index overlooked
    pc, job,            \* where each worker's handler stands, and its locals
    faults              \* faults that happened so far

busVars == <<mstate, delivered>>
cacheVars == <<bands, embeddings, timeline, dirty>>
eventVars == <<uniques, duplicates, overlooked>>
vars == <<mstate, delivered, stored, bands, embeddings, timeline, dirty,
          uniques, duplicates, overlooked, pc, job, faults>>

Bus == INSTANCE JetStreamConsumer WITH Msg <- Message

-----------------------------------------------------------------------------
Label == {"idle", "guard", "bands", "embed", "cacheEmbedding", "timeline",
          "vectors", "search", "duplicate", "addBands", "addTimeline", "save",
          "markDirty", "unique", "ack"}

\* duplicate_of names the original by its url_hash or by the id of its row.
Name == {"url_hash", "id"}
Duplicate == [article : Article, original : Article, name : Name]

Job == [msg : Message \cup {None}, attempt : 0 .. MaxDeliver,
        recent : SUBSET Article, original : Article \cup {None}, name : Name]
NoJob == [msg |-> None, attempt |-> 0, recent |-> {}, original |-> None,
          name |-> "url_hash"]

TypeOK ==
    /\ Bus!TypeOK
    /\ stored \subseteq Article
    /\ bands \subseteq Article
    /\ embeddings \subseteq Article
    /\ timeline \subseteq Article
    /\ dirty \subseteq Article
    /\ uniques \in [Message -> Nat]
    /\ duplicates \subseteq Duplicate
    /\ overlooked \subseteq Article
    /\ pc \in [Worker -> Label]
    /\ job \in [Worker -> Job]
    /\ faults \in 0 .. MaxFaults

Init ==
    /\ Bus!Init
    /\ stored = {}
    /\ bands = {}
    /\ embeddings = {}
    /\ timeline = {}
    /\ dirty = {}
    /\ uniques = [m \in Message |-> 0]
    /\ duplicates = {}
    /\ overlooked = {}
    /\ pc = [w \in Worker |-> "idle"]
    /\ job = [w \in Worker |-> NoJob]
    /\ faults = 0

-----------------------------------------------------------------------------
Goto(w, label) == pc' = [pc EXCEPT ![w] = label]
At(w, label) == pc[w] = label
Hash(w) == UrlHash[job[w].msg]

\* The handler is over, one way or another.
Finish(w) ==
    /\ Goto(w, "idle")
    /\ job' = [job EXCEPT ![w] = NoJob]

\* An await that changes nothing but the handler's position.
Step(w, from, to) ==
    /\ At(w, from)
    /\ Goto(w, to)
    /\ UNCHANGED <<busVars, stored, cacheVars, eventVars, job, faults>>

\* The article is a duplicate of b, which is known by that name.
Hit(w, from, b, name) ==
    /\ At(w, from)
    /\ Goto(w, "duplicate")
    /\ job' = [job EXCEPT ![w].recent = {}, ![w].original = b, ![w].name = name]
    /\ UNCHANGED <<busVars, stored, cacheVars, eventVars, faults>>

\* The fetcher publishes EXTRACT_COMPLETED.
Arrive(m) ==
    /\ Bus!Publish(m)
    /\ UNCHANGED <<stored, cacheVars, eventVars, pc, job, faults>>

\* Variant: the delivery is counted by the server and by the replica.
DeliverCountedTwice(w, m) ==
    /\ At(w, "idle")
    /\ Bus!Deliver(m)
    /\ Goto(w, "guard")
    /\ job' = [job EXCEPT ![w] = [NoJob EXCEPT !.msg = m, !.attempt = delivered'[m] + 1]]
    /\ UNCHANGED <<stored, cacheVars, eventVars, faults>>

\* The server hands the message to a replica, which enters process_article.
Deliver(w, m) ==
    /\ At(w, "idle")
    /\ Bus!Deliver(m)
    /\ Goto(w, "guard")
    /\ job' = [job EXCEPT ![w] = [NoJob EXCEPT !.msg = m, !.attempt = delivered[m] + 1]]
    /\ UNCHANGED <<stored, cacheVars, eventVars, faults>>

\* The idempotency guard: the row is there already, and the message is ACKed.
GuardHit(w) == Step(w, "guard", "ack") /\ Hash(w) \in stored

GuardMiss(w) == Step(w, "guard", "bands") /\ Hash(w) \notin stored

\* Variant: a near duplicate is dropped without a word.
BandsHitSilent(w) ==
    /\ Step(w, "bands", "ack")
    /\ \E b \in bands : <<Hash(w), b>> \in Near

\* Stage 1: a registered article within SimHash distance, the article's own
\* earlier registration included.
BandsHit(w) ==
    \E b \in bands :
        /\ Hit(w, "bands", b, "url_hash")
        /\ <<Hash(w), b>> \in Near

BandsMiss(w) ==
    /\ Step(w, "bands", "embed")
    /\ \A b \in bands : <<Hash(w), b>> \notin Near

\* Stage 2: the model's embedding, or none: the candidate is dropped and ACKed.
Embed(w) == Step(w, "embed", "cacheEmbedding")

Fault(kind) ==
    /\ kind \in FaultKind
    /\ faults < MaxFaults
    /\ faults' = faults + 1

EmbedFails(w) ==
    /\ At(w, "embed")
    /\ Fault("embed")
    /\ Goto(w, "ack")
    /\ UNCHANGED <<busVars, stored, cacheVars, eventVars, job>>

\* Variant: the timeline, too, is written early.
CacheEmbeddingAndTimeline(w) ==
    /\ At(w, "cacheEmbedding")
    /\ embeddings' = embeddings \cup {Hash(w)}
    /\ timeline' = timeline \cup {Hash(w)}
    /\ Goto(w, "timeline")
    /\ UNCHANGED <<busVars, stored, bands, dirty, eventVars, job, faults>>

CacheEmbedding(w) ==
    /\ At(w, "cacheEmbedding")
    /\ embeddings' = embeddings \cup {Hash(w)}
    /\ Goto(w, "timeline")
    /\ UNCHANGED <<busVars, stored, bands, timeline, dirty, eventVars, job, faults>>

\* get_timeline: the newest entries.  Their scores are the replicas' clocks, so
\* which ones are the newest is left open.
GetTimeline(w) ==
    /\ At(w, "timeline")
    /\ \E recent \in SUBSET timeline :
        /\ \/ recent = timeline /\ Cardinality(timeline) <= TimelineLimit
           \/ Cardinality(recent) = TimelineLimit
        /\ job' = [job EXCEPT ![w].recent = recent]
    /\ Goto(w, "vectors")
    /\ UNCHANGED <<busVars, stored, cacheVars, eventVars, faults>>

\* Tier 4a: a similar one among the cached embeddings of those, the article's
\* own left out.
Candidate(w, b) ==
    /\ b \in job[w].recent \cap embeddings
    /\ b # Hash(w)
    /\ <<Hash(w), b>> \in Alike

\* Variant: a similar article is dropped without a word.
VectorsHitSilent(w) ==
    /\ Step(w, "vectors", "ack")
    /\ \E b \in Article : Candidate(w, b)

VectorsHit(w) == \E b \in Article : Hit(w, "vectors", b, "url_hash") /\ Candidate(w, b)

\* Variant: the timeline is read page by page, and always the first page.
VectorsMissRereads(w) ==
    /\ \A b \in Article : ~ Candidate(w, b)
    /\ Step(w, "vectors", IF job[w].recent = {} THEN "search" ELSE "timeline")

\* The list of candidates is not needed any more.
VectorsMiss(w) ==
    /\ At(w, "vectors")
    /\ \A b \in Article : ~ Candidate(w, b)
    /\ Goto(w, "search")
    /\ job' = [job EXCEPT ![w].recent = {}]
    /\ UNCHANGED <<busVars, stored, cacheVars, eventVars, faults>>

\* Variant: only what is on the timeline is searched.
MatchedOnTimeline(w, b) == b \in stored \cap timeline /\ <<Hash(w), b>> \in Alike

\* Tier 4b: the vector search in the database, which answers with a row's id.
Matched(w, b) == b \in stored /\ <<Hash(w), b>> \in Alike

SearchHit(w) == \E b \in Article : Hit(w, "search", b, "id") /\ Matched(w, b)

\* No match, or one that the index, which is approximate, overlooks.
SearchMiss(w) ==
    /\ At(w, "search")
    /\ overlooked' = overlooked \cup {a \in {Hash(w)} : \E b \in Article : Matched(w, b)}
    /\ Goto(w, "addBands")
    /\ UNCHANGED <<busVars, stored, cacheVars, uniques, duplicates, job, faults>>

PublishDuplicate(w) ==
    /\ At(w, "duplicate")
    /\ duplicates' = duplicates \cup {[article |-> Hash(w), original |-> job[w].original,
                                       name |-> job[w].name]}
    /\ Goto(w, "ack")
    /\ UNCHANGED <<busVars, stored, cacheVars, uniques, overlooked, job, faults>>

\* Registration: bands, timeline, row, dirty mark, ARTICLE_UNIQUE.
AddBands(w) ==
    /\ At(w, "addBands")
    /\ bands' = bands \cup {Hash(w)}
    /\ Goto(w, "addTimeline")
    /\ UNCHANGED <<busVars, stored, embeddings, timeline, dirty, eventVars, job, faults>>

\* Variant: the article is announced first and saved by nobody.
AddTimelineAnnounce(w) ==
    /\ At(w, "addTimeline")
    /\ timeline' = timeline \cup {Hash(w)}
    /\ Goto(w, "unique")
    /\ UNCHANGED <<busVars, stored, bands, embeddings, dirty, eventVars, job, faults>>

AddTimeline(w) ==
    /\ At(w, "addTimeline")
    /\ timeline' = timeline \cup {Hash(w)}
    /\ Goto(w, "save")
    /\ UNCHANGED <<busVars, stored, bands, embeddings, dirty, eventVars, job, faults>>

\* The upsert inserts the row or, at the same version, leaves the one it finds.
Save(w) ==
    /\ At(w, "save")
    /\ stored' = stored \cup {Hash(w)}
    /\ Goto(w, "markDirty")
    /\ UNCHANGED <<busVars, cacheVars, eventVars, job, faults>>

MarkDirty(w) ==
    /\ At(w, "markDirty")
    /\ dirty' = dirty \cup {Hash(w)}
    /\ Goto(w, "unique")
    /\ UNCHANGED <<busVars, stored, bands, embeddings, timeline, eventVars, job, faults>>

PublishUnique(w) ==
    /\ At(w, "unique")
    /\ uniques' = [uniques EXCEPT ![job[w].msg] = @ + 1]
    /\ Goto(w, "ack")
    /\ UNCHANGED <<busVars, stored, cacheVars, duplicates, overlooked, job, faults>>

\* process_article returned.
Ack(w) ==
    /\ At(w, "ack")
    /\ Bus!Ack(job[w].msg)
    /\ Finish(w)
    /\ UNCHANGED <<stored, cacheVars, eventVars, faults>>

-----------------------------------------------------------------------------
\* What may go wrong.

\* An await raises: Redis, PostgreSQL or NATS failed, or the circuit breaker is
\* open.  A call that failed after it took effect fails at the next label.
Fail(w) ==
    /\ ~ At(w, "idle")
    /\ Fault("fail")
    /\ Bus!Nak(job[w].msg)
    /\ Finish(w)
    /\ UNCHANGED <<stored, cacheVars, eventVars>>

\* The process dies and is started again; nobody answers the delivery.
Crash(w) ==
    /\ ~ At(w, "idle")
    /\ Fault("crash")
    /\ Finish(w)
    /\ UNCHANGED <<busVars, stored, cacheVars, eventVars>>

Held(m) ==
    \E w \in Worker :
        /\ ~ At(w, "idle")
        /\ job[w].msg = m
        /\ job[w].attempt = delivered[m]

\* ack_wait runs out on a delivery nobody holds any more ...
AckWait(m) ==
    /\ ~ Held(m)
    /\ Bus!AckWait(m)
    /\ UNCHANGED <<stored, cacheVars, eventVars, pc, job, faults>>

\* ... or on a handler that is merely slow.
SlowHandler(m) ==
    /\ Held(m)
    /\ Fault("slow")
    /\ Bus!AckWait(m)
    /\ UNCHANGED <<stored, cacheVars, eventVars, pc, job>>

\* A band entry is past its window.
ExpireBands(a) ==
    /\ a \in bands
    /\ bands' = bands \ {a}
    /\ UNCHANGED <<busVars, stored, embeddings, timeline, dirty, eventVars, pc, job, faults>>

\* The TTL of an embedding runs out, or volatile-lru evicts its key.
ExpireEmbedding(a) ==
    /\ a \in embeddings
    /\ embeddings' = embeddings \ {a}
    /\ UNCHANGED <<busVars, stored, bands, timeline, dirty, eventVars, pc, job, faults>>

\* Redis keeps nothing on disk.
RedisRestart ==
    /\ bands \cup embeddings \cup timeline \cup dirty # {}
    /\ bands' = {}
    /\ embeddings' = {}
    /\ timeline' = {}
    /\ dirty' = {}
    /\ UNCHANGED <<busVars, stored, eventVars, pc, job, faults>>

-----------------------------------------------------------------------------
\* What a replica does of its own accord.
Handle(w) ==
    \/ GuardHit(w) \/ GuardMiss(w) \/ BandsHit(w) \/ BandsMiss(w) \/ Embed(w)
    \/ CacheEmbedding(w) \/ GetTimeline(w) \/ VectorsHit(w) \/ VectorsMiss(w)
    \/ SearchHit(w) \/ SearchMiss(w) \/ PublishDuplicate(w) \/ AddBands(w)
    \/ AddTimeline(w) \/ Save(w) \/ MarkDirty(w) \/ PublishUnique(w) \/ Ack(w)

\* The end of the story: every message is settled and every handler is done.
Done ==
    /\ \A m \in Message : Bus!Settled(m)
    /\ \A w \in Worker : At(w, "idle")
    /\ UNCHANGED vars

Next ==
    \/ \E w \in Worker : Handle(w) \/ EmbedFails(w) \/ Fail(w) \/ Crash(w)
    \/ \E w \in Worker, m \in Message : Deliver(w, m)
    \/ \E m \in Message : Arrive(m) \/ AckWait(m) \/ SlowHandler(m)
    \/ \E a \in Article : ExpireBands(a) \/ ExpireEmbedding(a)
    \/ RedisRestart
    \/ Done

Spec == Init /\ [][Next]_vars

\* Replicas keep running, the server keeps delivering and its timers fire.
Fairness ==
    /\ \A w \in Worker : WF_vars(Handle(w))
    /\ \A m \in Message : WF_vars(\E w \in Worker : Deliver(w, m))
    /\ \A m \in Message : WF_vars(AckWait(m))

FairSpec == Spec /\ Fairness

-----------------------------------------------------------------------------
(* Properties *)

Announced(a) == \E m \in Message : UrlHash[m] = a /\ uniques[m] > 0
Declared(a) == \E d \in duplicates : d.article = a

\* Some replica is between two steps of registering the article.
Within(a, labels) == \E w \in Worker : pc[w] \in labels /\ Hash(w) = a

\* ARTICLE_UNIQUE is published for articles with a row only, whatever fails: the
\* clustering engine always finds the article it is told of.
UniqueIsStored == \A m \in Message : uniques[m] > 0 => UrlHash[m] \in stored

\* Search and save are two steps, so alike articles slip through side by side.  Of
\* those whose match was not overlooked there are never more than there are replicas.
ClonesBoundedByReplicas ==
    \A S \in SUBSET (stored \ overlooked) :
        (\A a, b \in S : <<a, b>> \in Alike) => Cardinality(S) <= Cardinality(Worker)

\* Without a fault, what a duplicate is declared a duplicate of is in the
\* database or on its way there: two alike articles do not drop each other.
OriginalsSurvive ==
    faults = 0 => \A d \in duplicates :
        d.original \in stored \/ Within(d.original, {"addTimeline", "save"})

\* Without a fault, an acknowledged article was announced as unique or as a
\* duplicate, or a replica with another message of it is about to announce it.
Accounted ==
    faults = 0 => \A m \in Message : mstate[m] = "acked" =>
        \/ Announced(UrlHash[m])
        \/ Declared(UrlHash[m])
        \/ UrlHash[m] \in stored /\ Within(UrlHash[m], {"markDirty", "unique"})

\* Every message is answered for good, through retries, crashes and a handler
\* slower than ack_wait.
EveryMessageSettles ==
    \A m \in Message : mstate[m] = "queued" ~> Bus!Settled(m)

\* Every article is decided upon, unless there is a fault.
EventuallyDecided ==
    \A m \in Message :
        mstate[m] = "queued" ~>
            faults > 0 \/ Announced(UrlHash[m]) \/ Declared(UrlHash[m])
=============================================================================
