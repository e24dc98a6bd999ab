# VyomaCast in TLA+

Models, model-checking runs and machine-checked proofs of the VyomaCast news
pipeline: feeds are polled, articles are fetched, de-duplicated, clustered into
stories and pushed to browsers, by independent worker processes that talk over
NATS JetStream, share a Redis cache and write to PostgreSQL.

## 1. The system

| part | source | state | operations |
|------|--------|-------|------------|
| Feed manager | `services/feed_manager.py`, `workers/feed_manager.py` | `SeenGuidCache` (in memory), rows of `feeds` (status, etag, error count, `next_poll_at`), semaphore | poll cycle, process feed (304, success, failure with backoff), publish FEED_ITEMS_NEW |
| Fetcher | `services/fetcher_service.py`, `workers/fetcher_worker.py` | extraction and per-domain semaphores | consume FEED_ITEMS_NEW and FEED_PROCESS_COMMAND, fetch pages, extract, publish EXTRACT_COMPLETED |
| Dedup engine | `services/dedup_service.py`, `workers/dedup_worker.py` | none of its own: Redis bands, embeddings and timeline, table `articles` | consume EXTRACT_COMPLETED, SimHash stage, vector stage, save, publish ARTICLE_UNIQUE or ARTICLE_DUPLICATE |
| Clustering engine | `services/cluster_service.py`, `workers/cluster_worker.py` | none of its own: Redis clusters, tables `clusters` and `articles` | consume ARTICLE_UNIQUE, match, optimistic save, cache, publish ARTICLE_CLUSTERED |
| Notifier and WebSocket hub | `workers/notifier_worker.py`, `api/websocket/hub.py`, `api/main.py` | set of connections | consume ARTICLE_CLUSTERED, broadcast; connect, ping, disconnect |
| REST API | `api/v1/endpoints.py`, `api/dependencies.py` | none | reads of the database, page by page |
| Dashboard | `dashboard/js/app.js` | store of clusters, grid of cards, processed articles, socket | fetch, apply update, evict, reconnect |
| Message bus | `infrastructure/messaging/nats_bus.py` | subscriptions; the server's streams and consumers | publish, subscribe, ACK / NAK / TERM |
| Cache | `infrastructure/cache/redis_cache.py` | Redis keys; circuit breaker counters | cluster, timeline, band, embedding and dirty-set commands |
| Repositories | `infrastructure/database/repositories.py` | PostgreSQL tables | version-guarded upserts, vector search, feed bookkeeping |
| Embedding loader | `services/embedding_service.py`, `LazyModelProxy` | the loaded model | double-checked lazy loading |
| HTTP fetcher | `infrastructure/http/aiohttp_fetcher.py` | session | fetch page, fetch feed |
| Domain | `domain/*.py`, `config.py` | value objects, settings | validation |
| Data export | `scripts/export_data.py` | none | two queries, three files |
| Seeding | `scripts/seed_feeds.py` | rows of `feeds` | upsert of the feeds while they are polled |
| Scripts, migrations | `scripts/`, `alembic/` | | operations tooling |

How they interact: the four engines are chained by JetStream subjects
(FEED_ITEMS_NEW, EXTRACT_COMPLETED, ARTICLE_UNIQUE, ARTICLE_CLUSTERED), each
consumed by a durable queue group, so any replica of a worker may get a message
and a message may be delivered several times. Replicas share no memory; they
meet in Redis (which keeps nothing on disk and expires or evicts keys) and in
PostgreSQL (one transaction per save). Every handler is a coroutine of several
awaits, and between two awaits every other replica may move.

What is hard about it: a handler reads the cache, decides, and writes the
database and the cache in separate steps; the optimistic version check relies on
timestamps; a message is redelivered after its handler already committed; a
crash between two writes leaves them inconsistent; NAKs carry no delay; keys have
TTLs while the indexes that name them have none.

What makes each part correct:

* Clustering: no lost update of a cluster, a cache that agrees with the
  database, announcements that are true, no article counted twice or lost,
  every message settled.
* Dedup: no article announced that is not stored, at most one of a group of
  alike articles kept, no article lost, a duplicate names an article that exists.
* Dedup and clustering together: no article vanishes between the two, none is counted
  twice however often it is retried, stories are made of kept articles.
* Feed manager: every item of a feed is requested, once per process life;
  failing feeds back off and are not polled for ever; a poll cycle never runs
  more feeds at a time than configured.
* Fetcher: no domain sees more requests than its limit, no request is acknowledged
  before its pages are worked off, a repeated link is fetched once.
* Notifier, hub, dashboard: connected clients receive updates, dead clients are
  dropped, counts on the screen come from stored articles, the browser comes back.
* REST API and export: pages that follow each other miss nothing that stands still,
  an export has every article that its clusters count.
* Cache and circuit breaker: the breaker opens after `max_failures` and recovers;
  the bands of a fingerprint overlook no near duplicate.

| module | models | section |
|--------|--------|---------|
| `JetStreamConsumer` | the messages of one durable consumer | 2 |
| `ClusterEngine`, `StoryLedger`, `ClusterEngineProofs` | clustering, what it promises, proofs | 2 |
| `DedupEngine`, `DedupClaims`, `DedupEngineProofs` | dedup, a claim of the README, proofs | 3 |
| `Pipeline`, `Newsroom`, `PipelineProofs` | dedup and clustering together, what both promise, proofs | 4 |
| `SeenGuidCache`, `FeedManager`, `FeedManagerProofs` | poll cycles, proofs | 5 |
| `Fetcher`, `FetcherProofs` | fetcher, proofs | 6 |
| `Dashboard`, `LiveUpdates`, `LiveUpdatesProofs` | the page; notifier, hub, sockets and page; proofs | 7 |
| `ExportData`, `TableReaders`, `TableReadersProofs` | the exported files; readers of the tables, proofs | 8 |
| `CachedWorker`, `SimHashBands` | circuit breaker; bands of stage 1 (theorem in `DedupEngineProofs`) | 9 |
| `CommonLemmas` | facts about sequences and about counting that the proofs use | |
| `MC...` | instances for the model checker | |

## 2. The clustering engine

`JetStreamConsumer` is the life of the messages of one durable consumer: the
server's part (queueing, delivery, the budget `max_deliver`, `ack_wait`) and the
answers `NatsEventBus._message_handler` gives. An engine instantiates it for its
subject and takes its actions as conjuncts of its own.

`ClusterEngine` is `ClusterService.process_article` as the replicas run it. One
action is the code between two awaits:

| action | code (`cluster_service.py`) |
|--------|------|
| `Deliver` | `cluster_worker.py:68-88`, entry of `process_article` |
| `Reject` | 49-55: PermanentError, TERM |
| `Match`, `NoMatch` | 57-79: `get_active_clusters`, best similarity |
| `GetHit`, `GetMiss` | 82-124: `get_cluster`, join or found a cluster |
| `FindArticle`, `ArticleMissing` | 131-134 |
| `Save`, `SaveRefused` | 143-171: the transaction and its optimistic check |
| `SetCache` | 173-187 |
| `MarkCluster`, `MarkArticle` | 188, 189 |
| `Publish`, `Ack` | 191-204 and the ACK of the bus |
| `Fail`, `Crash`, `SlowHandler` | an await that raises; the process dies; a handler slower than `ack_wait` |
| `Expire`, `RedisRestart` | a key's TTL or eviction; Redis without persistence |

State: `db` and `articleRow` are the rows of the two tables; `cache`, `active`
and `dirty` are the Redis keys; `events` what was published; `pc` and `job` a
handler's position and locals; `clock` the last microsecond read. A centroid is
the sequence of articles averaged into it, and `article_count` its length, which
is what makes a lost update visible. Similarity is a free choice among the
clusters of the window. A new cluster's `uuid4` is the pair of article and
delivery number, which no two handler executions share.

`StoryLedger` is what clustering promises, without cache, versions, workers or
bus: stories grow at their end, one article at a time, and announcements report
positions that exist. `ImplementsLedger` says the engine refines it, with
`db[c].members` for the story. It is proved, and so is `CountedOnceUnlessFault`; the
model checker meets both in the run of section 4, as part of what dedup and clustering
promise together.

### Runs

| run | instance | shows |
|-----|----------|-------|
| `cluster_race` | 3 articles, a rejected one and one without a row, 2 replicas, 2 deliveries, no fault | cache lag is transient; only rivals make a message be given up, and nothing of it is kept |
| `cluster_live` | 2 articles, 2 replicas, 2 deliveries, one fault of any kind, fair | cache tracks database, events match the database and are never newer than the cache, acks are earned, every message is settled |

Two replicas are enough for every race between a reader and a committer; two
deliveries are enough for a redelivery after a conflict or a fault and for the
budget to run out. Three articles are a founder and two joiners: the smallest
instance in which two joins conflict without any fault, and in which one of them can
conflict until its deliveries are used up, which is the case that `DroppedByRivals`
speaks of. In `cluster_live` there are two, because a redelivery after a fault
(a failed await, a crash, a handler slower than `ack_wait`, explored at every await)
is a second joiner of the same cluster. `ActiveLimit` keeps the code's 100, which no
instance reaches: a smaller window only removes choices of `Match`. The liveness run
has no symmetry.

Without a fault not every article is announced: see the second divergence. So no
property says that it is; `DroppedByRivals` says what remains true.

### Where code and documents part

* A crash between the commit (171) and `set_cluster` (187) leaves the cached
  copy one version behind, and every later article of that cluster conflicts
  until `max_deliver` drops it, messages of articles that were nowhere near the
  crash. `README.md:179` promises that no in-flight message is lost.
* NAKs carry no delay (`nats_bus.py:179`), where `exceptions.py:7` speaks of
  exponential back-off: all deliveries of a message can fall into one conflict
  window, between another replica's commit and its `set_cluster`, so a message
  can be dropped without any fault. `DroppedByRivals` is what remains true: it takes a
  rival that joined a story, and the dropped article has no place anywhere.
* The redelivery of a message whose handling committed and then failed counts
  its article twice; `README.md:59` speaks of exactly-once.
  `CountedOnceUnlessFault` is what remains true.
* `article.version` is not raised (160), so the upsert of the article's row
  never takes effect and `cluster_id` stays empty (`docs/future_improvements.md:37`
  knows of it, with another cause). `articleRow` shows it in every behaviour.
* Two replicas that read the same microsecond pass the check of line 152
  although one of them was refused; `~ ClockTies` excludes it.
* `set_cluster` gives a TTL (`redis_cache.py:127`) where `interfaces.py:365`
  says there must be none: `Expire` is that TTL.

### Fairness

`FairSpec` assumes that a replica with a handler keeps running it
(`WF(Handle(w))`: asyncio schedules a ready coroutine), that the server keeps
delivering a queued message (`WF` of a delivery to some replica) and that its
`ack_wait` timer fires. No fault, no loss of a cache key and no arrival is
forced.

### Proofs

`ClusterEngineProofs` proves for any number of articles, replicas, deliveries
and faults:

* `TypeCorrectness`, `AcksAreEarned`: whatever the clock does;
* `CacheCoherence`, `EventsAreTrue`, `CacheFollowsEvents`, `Refinement`,
  `CountedOnce`, `LagEnds`, `RivalsDrop`: when two readings of the clock differ (`~ ClockTies`). The hypothesis is needed:
  with `ClockTies = TRUE` two replicas take each other's row for their own.

The inductive invariant `IInv` adds to these properties what a handler relies on
between its awaits:

* `BudgetLeft`, `JobShape`, `UniqueAttempts`: no two replicas run the same
  delivery, so a new cluster's name is its founder's alone (`FreshNames`);
* `DbShape`: a version counts the members, stamps lie in the past;
* `UniqueStamps`: nobody else has the `last_activity` of a row that is not
  committed yet. This is what makes the check of lines 147-157 sound;
* `JoinBase`: a row made from a cached copy extends the stored row, or is not
  newer than it. With `UniqueStamps` this gives `CommitAppends`: an accepted
  commit appends exactly one article;
* `RefreshDue`: between commit and `set_cluster` the cache is behind, so nobody
  else can commit to the cluster. This is why an unguarded `SET` of the cache
  never overwrites a newer copy;
* `PlaceTaken`: the place a handler is about to announce is in the database.

`StepKinds` reduces every action to one of ten kinds of steps, and each part of
the invariant has a lemma with one case per kind. Without `RefreshDue` the
invariant is not inductive: `CacheTracksDb` alone does not forbid two handlers
between commit and `set_cluster` of the same cluster.

`CountedOnce`, `LagEnds` and `RivalsDrop` speak of behaviours without a fault, which are reached by steps without
one. `OnceInv` ties the message to its handler: an article that waits in the queue,
or whose handler has not committed, has no place yet, and a message has one handler
at most, since `ack_wait` runs out only after a fault. So the commit that appends an
article is the first one. `LagEnds` follows step by step: only a commit puts the
database ahead of the cache, and only `set_cluster` or a fault ends that handler's
way there. `RivalsDrop` carries `GivenUp` along: without a fault only a conflict can use
up a message's deliveries; a conflict is over a row that someone joined (`RivalJoined`,
from `JoinBase`), versions never go back, and a refused commit leaves no place.

`SentInvariance` looks at where articles come from: a cluster has only members that
were published, an event tells only of such, and every handler works on one. Section 4
builds on it.

## 3. The dedup engine

`DedupEngine` is `DedupService.process_article` as the replicas run it, on the
same `JetStreamConsumer`.

| action | code (`dedup_service.py`) |
|--------|------|
| `Arrive` | `fetcher_service.py:202-225`, publish of EXTRACT_COMPLETED |
| `Deliver` | `dedup_worker.py:69-87`, entry of `process_article` |
| `GuardHit`, `GuardMiss` | 131-135: the idempotency guard |
| `BandsHit`, `BandsMiss` | 149-173: SimHash bands in Redis |
| `Embed`, `EmbedFails`, `CacheEmbedding` | 191-201 |
| `GetTimeline`, `VectorsHit`, `VectorsMiss` | 206-219: cached embeddings of the timeline |
| `SearchHit`, `SearchMiss` | 221-232: vector search in PostgreSQL |
| `PublishDuplicate` | 170-189, 234-253 |
| `AddBands`, `AddTimeline`, `Save`, `MarkDirty`, `PublishUnique` | 255-314 |
| `Ack`, `Fail`, `Crash`, `AckWait`, `SlowHandler` | the bus and what goes wrong |
| `ExpireBands`, `ExpireEmbedding`, `RedisRestart` | what Redis forgets |

An article is its `url_hash`, and all messages of one article carry the same
text. What SimHash and cosine similarity say of two texts are two relations,
`Near` and `Alike`, reflexive and symmetric but not transitive; `BandsHit` may
only find what was registered, the article's own earlier registration included,
because line 156 leaves nothing out. `GetTimeline` reads any `TimelineLimit` of
the entries: their scores are clocks of different replicas. The HNSW index of
`tables.py:109-116` is approximate: `SearchMiss` may happen although there is a match,
and the history variable `overlooked` keeps the articles it happened to. `FaultKind` and
`MaxFaults` bound what goes wrong.

In both engines a delivery that waits in a client's buffer counts as a handler
that stands before its first await: `ack_wait` runs there as well
(`SlowHandler`).

### Runs

| run | instance | shows |
|-----|----------|-------|
| `dedup_race` | 3 alike articles, 2 replicas, 2 deliveries, inexact index, one fault of any kind | announced is stored; at most two of the three are stored, those apart that the index overlooked |
| `dedup_live` | 2 alike articles, 2 replicas, 2 deliveries, inexact index, a crash or a slow handler, fair | every message is settled; without a fault originals survive, acknowledged is accounted for, every article is decided upon |
| `claim_unique_lost` | 1 article, 1 replica, a crash | ends in a counterexample, see below |

Three articles on two replicas are the smallest instance in which the bound of
`ClonesBoundedByReplicas` could be passed. No bound holds for articles that the index
overlooked, so the property leaves them out: it says that nothing but the index and the
window between search and save lets a copy slip through. In `dedup_race` `Near` is the
identity: an article meets its own bands only, and alike articles must be found by the
later, racier stages. In `dedup_live` all articles are near, so that one may be a duplicate in
stage 1 of another that is not saved yet. Redis may forget anything at any time in every run.

### Where code and documents part

* A crash or a failed publish between `repo.save` (284) and the publish of
  ARTICLE_UNIQUE (309): the redelivery stops at the guard, is acknowledged, and
  the article is never clustered. `README.md:179` promises otherwise
  (`claim_unique_lost`).
* A failure between `add_simhash_bands` (258) and the save: the redelivery finds
  its own bands, and the article is published as a duplicate of itself and
  stored nowhere, where `events.py:269` speaks of the original article. This is why
  `OriginalsSurvive` is for behaviours without a fault.
* `duplicate_of` is a row's id when the database found the match (232) and a
  `url_hash` otherwise; `events.py:269` knows the latter only.
* The guard (132) is no guard against messages of one url that are handled at
  the same time: both may be announced as unique.

### Fairness

As in section 2: handlers run, the server delivers, `ack_wait` fires.

### Proofs

`DedupEngineProofs`, for any number of articles, messages, replicas, deliveries
and faults:

* `TypeCorrectness`: `TypeInv` adds to `TypeOK` that a busy handler has a message
  and has counted its delivery;
* `AnnouncedIsStored`: the invariant adds that a handler past the save has its
  article stored. Rows are never deleted by any step, so this is stable
  under every other step;
* `ClonesAreBounded`: whatever the index overlooks. The invariant `KeptBound`
  speaks of the articles that are stored or held by a handler between search and
  save, and were not overlooked. A handler that enters that window and overlooked nothing has seen no stored article
  like its own; so a set of alike articles that it joins is entirely in the hands of
  handlers, of which there are no more than replicas;
* `OriginalsAreKept`: `OriginalsInv` follows the original back to where it was found:
  everything in the bands, in the timeline, in what a handler read of it, and
  everything declared an original is stored or about to be;
* `AcknowledgedIsTold`: `ToldInv` has that for every stored article, because the guard
  (131-135) acknowledges whatever is stored without looking further;
* `AnnouncementsAreBounded`: ARTICLE_UNIQUE is published for a message at most as often
  as it was delivered, and whoever is about to publish has room for one more.
  `RoomInv` counts, for each message, what was announced and the handlers on their
  way to announcing: together they are no more than its deliveries, since a handler is
  entered by a delivery and announces once;
* `DeliveredOnceUnlessFault`: without a fault no message is delivered twice. `FirstInv`
  adds that a message in flight has its handler, so `ack_wait` has nothing to run out on;
* `NearShareABand`, see section 9.

## 4. Dedup and clustering together

`Pipeline` joins the two engines of sections 2 and 3, each with its own replicas, faults
and message bus, at the three places where they meet:

* the subject ARTICLE_UNIQUE: `Announce` is the publication of dedup (290-314) and the
  arrival of one message more in the stream of clustering, in one step;
* the table `articles`: clustering looks for the row of the article it was told of
  (`cluster_service.py:131`). Here it finds it always (`Stored <- Announcement`), because
  dedup announces only what it has saved (`UniqueIsStored`) and deletes nothing;
* the Redis server: `RedisRestart` takes the keys of both. The dirty sets of the two are
  kept apart (`dedupDirty`, `clusterDirty`), as are their keys. A restart that finds
  nothing to lose in one engine leaves it as it is.

A message of ARTICLE_UNIQUE is a pair of an extract and a number: the first, second, ...
announcement of it. There are at most `MaxDeliver` of them, which is no assumption of the
model but a theorem (`AnnouncementsAreBounded`): `Announce` is never disabled for lack of
a number.

`Newsroom` is what the two promise together, with no cache, bus or handlers: an `archive`
that forgets nothing and keeps, of articles that all resemble each other, no more than
`Copies`, the `strays` apart whose resemblance to one of the archive was overlooked, and
the stories of `StoryLedger`, which grow by articles of the archive.
`ImplementsNewsroom` maps `stored` to the archive, `overlooked` to the strays, the members of `db[c]`, read as
articles, to the stories, and the number of dedup's replicas to `Copies`.

### Run

`pipeline`: three articles alike, one replica of dedup and two of clustering, two
deliveries, an index that may overlook a match, Redis restarting at any time. With one
replica of dedup `Copies` is 1, so that the archive's bound is the first thing a second
copy would break. Dedup keeps an article, drops it as a duplicate, or keeps it because
the index overlooked the others; with three announcements clustering has a founder and
two joiners, so joins conflict and are redelivered, and a message may be given up. That
is one of the ends that `NothingVanishes` allows, because the code does, and redelivery
is what `CountedOnceEndToEnd` is about.

Both speak of behaviours without a fault: what a fault can cost is listed in sections 2
and 3. Faults, a second replica of dedup and keys that expire one by one
(`KeyLoss = FALSE`) are left to the engines' own runs, and to the proofs, which have them
all.

### Proofs

`PipelineProofs`, for any number of articles, extracts and replicas of both engines:

* `DedupRuns`, `ClusteringRuns`: a behaviour of the pipeline is one of each engine, so
  every theorem of `DedupEngineProofs` and `ClusterEngineProofs` holds of it
  (`DedupFacts`, `ClusterFacts`). For clustering this needs `AnnouncementsAreBounded`: a
  publication without a number would be a step that clustering does not know;
* `StreamIsGlued`: `Glue`, the one invariant that belongs to neither engine: the stream
  has the first `uniques[m]` announcements of an extract `m`, and no others;
* `StoriesAreSaved`: members were published (`SentInvariance`), what was published was
  announced (`Glue`), what was announced is stored (`AnnouncedIsStored`);
* `NothingIsLost`: from `AcknowledgedIsTold`, `Glue` and `AcksAreEarned`, along the
  article's way: an announced article's message is queued, in a handler's hands, or
  settled, and if it was acknowledged its place was announced;
* `CountedOnceInAll`, without clock ties: an extract has one announcement
  (`DeliveredOnceUnlessFault`), and an announcement one place (`CountedOnce`);
* `NewsroomIsKept`, without clock ties and whatever the index overlooks: steps of
  dedup keep an article, overlook a match or do nothing that a reader of the tables sees
  (`NewsFromDedup`, with `ClonesAreBounded`); steps of clustering are steps of the
  ledger (`Refinement`), by articles that the archive has (`StoriesAreSaved`).

## 5. The feed manager

`SeenGuidCache` is the LRU memory of item keys; `FeedManager` the poll cycle, the
tasks and the table `feeds`, which `seed_feeds.py` may write in between.

| action | code (`feed_manager.py`) |
|--------|------|
| `List`, `FallDue` | the sites; `next_poll_at` passes |
| `StartCycle`, `EndCycle` | 195-219, 180-186; `repositories.py:559-569` |
| `Acquire` | 221-224 |
| `NotModified`, `Modified` | 230-251 and `aiohttp_fetcher.py:150-168` |
| `SkipEntry`, `TakeEntry`, `Publish`, `LastEntry` | 255-298 |
| `UpdatePollState`, `EndTask` | 235-245, 300-316; `repositories.py:592-618` |
| `RecordError`, `RecordErrorFails` | 318-336; `repositories.py:621-643` |
| `Reseed` | `seed_feeds.py:83-114`, `repositories.py:571-589`: the row of a feed starts anew, due now, behind those already due |
| `Fail`, `Crash` | an await that raises; the process dies and starts again |

A site's feed is the sequence of everything it listed, newest first, and its
version (ETag, Last-Modified) the length of it. Times are abstracted to the order
in which feeds fall due, which is what `get_due_for_poll` sorts by: amounts of
back-off are not modelled. The loop over the entries stops at every entry it
skips, which is finer than the code.

### Runs

| run | instance | shows |
|-----|----------|-------|
| `feed_race` | 2 feeds, 3 items (one without a key) in any order on either, 2 entries looked at, one fault or seeding | stored versions hide nothing unpublished, one publish per process and item, versions never go back |
| `feed_live` | 2 feeds (one without versions), 2 items, memory, cycle and semaphore of one, 2 faults or seedings, fair | every listed item is published or its feed put aside |

`feed_race` allows everything to fail but the publish itself, see below.
`feed_live` assumes that tasks run, that cycles follow each other and that time
passes; two failures and `ErrorLimit = 2` include the feed that is put aside. A
memory of one key is smaller than the list of items, so items are forgotten and
published again; `PublishedOncePerProcess` therefore speaks of a memory with room
for all keys.

### Where code and documents part

* An item is marked as seen (269) before it is published (297). A publish that
  fails loses it: the next poll answers 304 or skips the key, until the process
  restarts or the feed changes, where line 6 of the file promises an event for each
  new item. `StoredIsPublished` is therefore proved for `"publish" \notin FaultKind`.
* `seed_feeds.py` resets the ETag of a feed that is being polled; the task then
  stores the ETag it has, as `VersionNeverGoesBack` allows.
* The cap of the back-off is a day (321), shorter than a longer `poll_interval`: a
  failing feed is then asked more often than a healthy one. Times are not modelled.

### Proofs

`FeedManagerProofs`, for any number of feeds, items, tasks and faults:

* `TypeCorrectness`: `TInv` adds to `TypeOK` that no row or task has a version that
  its site has not had yet, and that a task at work has a version at least as new as
  its row, since at most one task of a feed runs;
* `VersionsGrow` follows from that, for the one step that writes the version;
* `PublishedOnce`: `MemoryInv` says that what was emitted is in the memory or that
  the key a task carries to its publish is in the memory, not emitted yet, and in
  the hands of that task alone. A memory with room for all keys evicts none, which
  is a fact about the LRU operators (`CommonLemmas`);
* `StoredIsPublished`: `Covered(sites, keys, f, v, left)` says that every own item a
  version shows is among the published keys or among the entries that are `left`.
  `PublishInv` has it for the stored version with nothing left, and for a task's
  version with the entries it still has to look at. It needs the invariant that all
  keys in the memory are published or in the hands of a task, because a task skips
  what it finds there; a crash empties memory and tasks together, so this survives.

## 6. The fetcher

`Fetcher` has one lane for each of the two subscriptions of a process, since
`nats_bus.py:145` awaits the callbacks of a subscription one after the other. The
item lane runs one `_process_article`, the feed lane one for each link of the
command's first 20 entries, side by side.

| action | code (`fetcher_service.py`) |
|--------|------|
| `Deliver`, `Start`, `Reject` | `fetcher_worker.py:39-64` |
| `Buffer`, `Take` | `nats_bus.py:133-145`: a delivery waits in the client until its lane is free |
| `FetchFeed`, `FetchFeedFails`, `ParseFails` | 77-86: the RSS, outside all semaphores |
| `StartTasks` | 92-117: the batch, by distinct links |
| `StartPage` | 119-130: `_get_domain_sem`, which an unparsable link leaves by an exception |
| `Request`, `FetchPage` | 129-142: the domain's semaphore and the GET |
| `StartExtraction`, `Extracted` | 144-220: the semaphore of the process, texts that are too short, payloads that do not validate |
| `Publish`, `PublishLate`, `GiveUp` | 164-225, and what is logged and swallowed |
| `Ack`, `Nak` | `gather()` is through; the answer of the bus |
| `Crash`, `AckWait`, `SlowHandler` | the process dies; `ack_wait` passes |

What was published or lost is counted for each request, since a page may be asked for
by an item and by a feed. What a page holds is abstracted to three sets: `Thin` pages have too little text,
`Unparsable` links are refused by `urlparse`, and of the text of an `Invalid` page no
valid payload can be made.

`ack_wait` runs from the delivery, whether a handler has the message or the client's
buffer. A message that is requeued there is delivered once more, and so may be handled
by another process beside the first handler, or by the same process after it: the
buffered delivery is taken even if the message was acknowledged in the meantime.

### Run

`fetcher`: one process, four pages of one domain, an item for an invalid page and a
malformed one, and a command whose feed has a thin page, a missing link, a repeated
one, one that `urlparse` refuses and one entry too many; two deliveries, either of
which may wait in the client's buffer, one fault of any of seven kinds at any
place. One domain and two lanes with at most three tasks make the semaphores of two
places full; a second process shares nothing with the first but the messages, and handlers side by
side in two processes are left to the proofs; two handlings of a message by one
process, the second after the first's ack, are in the run.
`PolitePerDomain`, `AckedIsWorkedOff` and `OncePerDelivery` are safety;
`EveryRequestSettles` and `EveryPageArrives` are liveness under weak fairness of the
process's own steps, of deliveries and of `ack_wait`.

### Where code and documents part

* A page that cannot be fetched, an extraction or a publish that fails is logged and
  acknowledged (139, 155, 225): nothing asks for it again, `README.md:179`
  notwithstanding. `AckedIsWorkedOff` says that this is all that is lost.
* An unparsable link, or a page that makes no valid payload, makes a single item raise, which is NAKed at once until
  `max_deliver` drops it; in a batch `gather(return_exceptions=True)` keeps the same
  exception to itself.
* The RSS request takes no place in its domain's semaphore (78), whose limit holds
  nevertheless: while it runs its lane has no tasks, and the other lane has at most
  one. It would not with a limit of one (`BoundsAssumption`).
* A batch that is slower than `ack_wait` is handled a second time, by another process
  while it runs or by the same one afterwards, and its pages are published again under
  new event ids.

### Proofs

`FetcherProofs`, for any number of processes, pages, domains and faults:

* `TypeCorrectness`: `LaneInv` says which message a lane may have, that the item lane
  has no task but that of its item's page, and the feed lane none before `"started"`;
* `Polite`: `PoliteInv` bounds the tasks inside a domain's semaphore, and `LaneInv`
  those that can run beside the RSS request;
* `WorkedOff`: `WorkedInv` has, for each task that is over, what became of its page;
* `PublishedPerDelivery`: the invariant counts, for a request and a page, what was
  published and the deliveries that may still publish it (`Open`): those of the processes
  that handle the request (`Publishers`) and those that wait in a buffer. Together they
  are no more than the deliveries made; a delivery that leaves the buffer becomes a
  handler in its stead (`RoomMoved`). A task that is over does not publish again, and a request
  is taken up only by a delivery. What such a count allows is stated once, as `Fits` and
  its lemmas in `CommonLemmas`, for the fetcher and for `RoomInv` of dedup.

## 7. Notifier, hub and dashboard

`Dashboard` has the functions of `app.js` that change the page: `store`, `grid`,
`processed`. An article count is kept as the bag of the articles it counts.
`LiveUpdates` composes the page with the server: events on a `JetStreamConsumer`, the
broadcast of `hub.py`, the endpoints of the sockets, the wire, sockets and fetches.

| action | code |
|--------|------|
| `Commit` | `cluster_service.py:171-204`, what the engine of section 2 does, in one step |
| `Broadcast`, `Send`, `SendToGone`, `SendTimesOut`, `Disconnect`, `AckBroadcast` | `notifier_worker.py:47-79`, `hub.py:32-58` |
| `Accept`, `Register`, `PingFails`, `PingTimesOut`, `EndServe`, `Crash` | `hub.py:19-30, 77-104`, `main.py:38-55` |
| `Open`, `Closed`, `Drop`, `Refused`, `Reconnect`, `Receive` | `app.js:239-301`, `handleClusterUpdate` 319-394 |
| `Read`, `Answer`, `FetchFails`, `Retry` | `endpoints.py:112-132`, `app.js:53-83, 213-227` |

### Run

`live_updates`: a cluster that is stored and one that is founded and joined while the
page is open, a store of one cluster (so that eviction happens), two sockets and two
fetches, one fault: a dropped or refused connection, a slow client, a failed fetch, or
a restart of the API. `MaxSockets` and `MaxFetches` exceed `MaxFaults`, so the page
never runs out of either. Deadlock is not checked: a page whose sockets are used up
has nothing left to do. Fairness is that of the event loops of the API and of the page,
of the server's deliveries and of `ack_wait`; fetches need not be answered.

### Proofs

`LiveUpdatesProofs`, for any number of articles, sockets, fetches and faults, when the
set of clusters is finite. `LiveInv` has four parts:

* `LiveType`: types, with cards of the grid that are counts of articles of a cluster;
* `HubInv`: `HubForgets`, and a socket that was not opened yet has no endpoint, so none
  is put into the hub before it is served;
* `SourcesInv`: whatever is on its way to the screen, as an event in the queue, in a
  broadcast, on a wire or in the answer of a fetch, is stored. Rows only grow, so a late
  answer stays true of the articles it has;
* `Right`: the topmost card of a cluster has the number of the store, and an article is
  counted at most once, or twice if an event of it was processed.

`LiveTypeInvariance`, `HubForgetsGone`, `CountsStayGrounded` and `FirstCardStaysCurrent`
follow. The hard case is `enforceMemoryBound`: it
removes a cluster from the store and its topmost card only, so that an outdated second
card may surface. Then no entry of the store speaks of it, and when the cluster comes
back, its new card is put above the old one.

### Where code and documents part

* A client that takes a frame too slowly is dropped from `active_connections`
  (`hub.py:47`), but its endpoint keeps pinging it: the socket stays open, the page
  sees no reason to reconnect, and no event reaches it any more, where `README.md:71`
  promises live connections indefinitely. `EventReachesBrowser` excludes faults.
* The first event of a cluster the page does not know is passed on as new after its
  article was marked as processed (319), and so is lost.
* An article that is part of a fetched answer and of an event is counted twice
  (`CountsAreGrounded` bounds it by two), and a founder's event gives a cluster of the
  answer a second card.
* A fetch that fails on a reconnect blanks the grid and leaves the store (78-83).
* Replicas of the API share one queue group, so each event reaches the browsers of one
  replica only; the model has one.

## 8. Readers of the tables

`TableReaders` has the two tables in the order in which they are read, the engines'
commits (`SaveArticle`, `JoinCluster`), and one reader, since readers write nothing:
a client that pages through `/articles` or `/clusters` by LIMIT and OFFSET
(`StartPaging`, `GetPage`), or the export (`StartExport`, `ReadTable`, `WriteFiles`).
`ExportData` has the functions that make the three files of the rows.

### Run

`readers`: three articles, two clusters with labels that match two rules and none,
pages of one row, an export with and without a filter. Pages of one row put a
commit between any two rows; two clusters can overtake each other, three articles
come before, between and behind what was read.

### Where code and documents part

* A cluster that gains an article while a client reads moves towards the front and is
  missed by it; `PagesMissOnlyMoved` says that nothing else is.
* `cluster_id` of an article's row is never written (section 2), so `GET
  /clusters/{id}` (`endpoints.py:141`) and the JSON export list no articles, and with
  a topic the CSV of the articles is empty, since all of them are "Unclustered".
  For the same reason nothing is stated here about how the three files of an export
  agree on the cluster of an article: there is nothing to compare until the write is repaired.
* `/stats` counts the articles before the clusters.

### Proofs

`TableReadersProofs`, for any number of rows, page size and filters:

* `PagesAreComplete`: `PagerInv` says that the rows a client is still owed stand
  behind its offset. Rows are inserted anywhere, which moves others back, and a
  cluster that moves forward is owed no more;
* `CountsAreExported`: `ScriptInv` says that the clusters that were read count only
  articles that are stored, and later only articles that were read. The order of the
  two queries is what makes it true.

`RowsInv` (no row twice in its table) is the invariant under both; it rests on
`InsertAt` and `RemoveFirst`, about which `CommonLemmas` has what is needed.

## 9. Circuit breaker and bands

`CachedWorker` is a worker whose handler calls Redis through `RedisCircuitBreaker`
(`redis_cache.py:26-61`). In the run `breaker` three messages of two calls each meet
two outages of any length; `CalmAfterOutage` says that what comes in when Redis is
back and the back-off is over is handled. Deliveries are strongly fair, because the
worker is not always free. The system may stop (all messages settled, Redis down), so
deadlock is not checked.

While the breaker is open a message is NAKed without delay and spends its deliveries at
once: an outage of a second drops every message of the next 30 seconds, where the
README speaks of resilience. When the back-off is over every call passes, not the one
that the comment of line 47 allows.

`SimHashBands` has the bands of a fingerprint, and `DedupEngineProofs` the theorem
`NearShareABand` about them: two fingerprints that differ in at most three
bits share a band, so stage 1 compares them. Four disjoint bands suffice for it, and
the default settings have eight. The docstring speaks of 8 bands of 16 bits, the code
cuts 16 overlapping ones; `config.py:59` also allows settings (4 bands of 4 bits) for
which the theorem fails, and the threshold of 3 is written out at
`dedup_service.py:164`.

## 10. Plan

Done, in this order: `JetStreamConsumer`, `ClusterEngine` with `StoryLedger` and
proofs, `DedupEngine` and proofs, `FeedManager` and proofs, `Fetcher` and proofs,
`Dashboard` and `LiveUpdates` and proofs, `TableReaders` with `ExportData` and proofs,
`CachedWorker`, `SimHashBands`, `Pipeline` with `Newsroom` and proofs.

What is left, in the order of its worth:

1. The fetcher and the notifier as further ends of `Pipeline`: a page's extract, and the
   screen that shows its story.
2. The screen of `LiveUpdates` as a refinement: without faults and evictions it
   converges to the ledger of section 2.
3. Back-off amounts and `poll_interval` in `FeedManager`, on a discrete clock.
4. Several replicas of the API, which share the events of one queue group.

## 11. What is only model-checked, and what is not modelled

Liveness (`EveryMessageSettles`, `EventuallyDecided`,
`EveryItemPublished`, `EveryRequestSettles`, `EveryPageArrives`, `GoneIsForgotten`,
`BrowserComesBack`, `EveryEventSettles`, `EventReachesBrowser`, `CalmAfterOutage`) is
checked on the instances only: the proof system has no rules for fairness and ENABLED.
Every invariant and every action property of the runs is proved.

Not modelled:

* connection management of NATS, Redis and PostgreSQL, headers and sessions of the
  HTTP fetcher: I/O whose outcomes the models choose from;
* the numbers behind similarity, quality and summaries, and normalization of URLs:
  pure functions of one article or two, here relations or free choices;
* times: back-off amounts, quality of `published_at`, scores of the timeline; what
  depends on their order is left open or, for versions of rows, modelled;
* the embedding loader (double-checked loading inside one event loop, and every worker
  handles one message at a time), and the search of the REST API that asks it and loads
  the model anew for every request;
* header counters, labels and times of the page, and the trim of its set of processed
  articles at 10000;
* metrics, health checks, `get_and_clear_dirty` and `save_batch`, which have no caller;
* `check_infra.py`, `setup_nats.py`, `benchmark_latency.py`, `verify_schema.py` and the
  migrations: run by hand while the pipeline is down.

## 12. How to run

    tlc -config ClusterRace.cfg MCClusterEngine      any run: its cfg and module
    tlapm ClusterEngineProofs.tla                    the proofs, module by module

`PROJECT.json` lists the components, runs, theorems, hazards and divergences, and maps
every definition to the lines it models. Definitions whose comment starts with
"Variant" are plausible bugs: put in the place of the definition they precede in
the text, each makes one property fail.
