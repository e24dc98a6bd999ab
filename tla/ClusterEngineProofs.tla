------------------------- MODULE ClusterEngineProofs -------------------------
(***************************************************************************)
(* Proofs about the clustering engine for every number of articles,        *)
(* replicas, deliveries and faults.  The argument is an inductive          *)
(* invariant, IInv: what a replica that has read a cluster, and one that   *)
(* has committed a row, may rely on while the others move.                 *)
(***************************************************************************)
EXTENDS ClusterEngine, FiniteSetTheorems, TLAPS

-----------------------------------------------------------------------------
(* The inductive invariant. *)

Busy(w) == ~ At(w, "idle")
Undecided(w) == pc[w] \in {"lookup", "get"}
Pending(w) == pc[w] \in {"article", "save"}
Refreshed(w) == pc[w] \in {"markCluster", "markArticle", "publish"}

\* The name a new cluster of this handler execution gets.
Own(w) == <<job[w].article, job[w].attempt>>

\* A message that may be delivered has budget left.
BudgetLeft ==
    \A a \in Article : mstate[a] \in {"unsent", "queued"} => delivered[a] < MaxDeliver

\* The locals of a handler at each of its awaits.
JobShape ==
    \A w \in Worker :
        /\ Busy(w) => /\ job[w].article \in Article
                      /\ job[w].attempt \in 1 .. delivered[job[w].article]
        /\ Busy(w) /\ ~ At(w, "lookup") => job[w].cluster \in Cluster
        /\ Pending(w) /\ job[w].isNew =>
            /\ job[w].cluster = Own(w)
            /\ job[w].row.version = 1
            /\ job[w].row.members = <<job[w].article>>

\* No two replicas run the same delivery of the same message.
UniqueAttempts ==
    \A v, w \in Worker : v # w /\ Busy(v) /\ Busy(w) => Own(v) # Own(w)

\* A handler's own name is in use only after its own commit.
FreshNames ==
    /\ \A c \in Cluster : Present(db[c]) => c[2] <= delivered[c[1]]
    /\ \A w \in Worker :
        Undecided(w) \/ (Pending(w) /\ job[w].isNew) => ~ Present(db[Own(w)])

\* Stored rows: the version counts the members, stamps lie in the past.
DbShape ==
    \A c \in Cluster :
        /\ db[c].version = Len(db[c].members)
        /\ db[c].stamp <= clock

\* What a handler that made row r out of a cached copy and article a may rely
\* on until its transaction, d being the stored row and k the cached one: the
\* copy was not ahead of the database, if the copy is still the stored row then
\* r is that row and the article, and the cache does not fall behind the copy.
Extends(d, k, r, a) ==
    /\ Present(d)
    /\ r.version \in 2 .. d.version + 1
    /\ r.version = d.version + 1 => r.members = Append(d.members, a)
    /\ Present(k) => k.version + 1 >= r.version

JoinBase ==
    \A w \in Worker : Pending(w) /\ ~ job[w].isNew =>
        Extends(db[job[w].cluster], cache[job[w].cluster], job[w].row, job[w].article)

\* Nobody else has the last_activity of a row that is not committed yet.
UniqueStamps ==
    \A w \in Worker : Pending(w) =>
        /\ job[w].row.stamp <= clock
        /\ \A c \in Cluster : db[c].stamp # job[w].row.stamp
        /\ \A v \in Worker : v # w /\ Pending(v) => job[v].row.stamp # job[w].row.stamp

\* A handler between its commit and set_cluster holds the current row of its
\* cluster, the cache is behind, and nobody can commit to the cluster.
RefreshDue ==
    \A w \in Worker : At(w, "setCache") =>
        /\ db[job[w].cluster] = job[w].row
        /\ Present(job[w].row)
        /\ cache[job[w].cluster].version < job[w].row.version
        /\ \A v \in Worker : v # w /\ job[v].cluster = job[w].cluster =>
            /\ ~ At(v, "setCache")
            /\ Pending(v) => job[v].row.version <= job[w].row.version

\* The place a handler is about to announce is in the database for good, and
\* the cache is no older.
PlaceTaken ==
    \A w \in Worker : At(w, "setCache") \/ Refreshed(w) =>
        LET c == job[w].cluster
            n == job[w].row.version
        IN
        /\ n \in DOMAIN db[c].members
        /\ db[c].members[n] = job[w].article
        /\ Refreshed(w) /\ Present(cache[c]) => cache[c].version >= n

IInv ==
    /\ TypeOK
    /\ BudgetLeft
    /\ JobShape
    /\ UniqueAttempts
    /\ FreshNames
    /\ DbShape
    /\ CacheTracksDb
    /\ JoinBase
    /\ UniqueStamps
    /\ RefreshDue
    /\ PlaceTaken
    /\ EventsMatchDb
    /\ EventsNotAheadOfCache

-----------------------------------------------------------------------------
(* Type correctness. *)

USE DEF Bus!Settled, Bus!MsgState, At, Goto, Finish

\* The initial row and locals have their types.
LEMMA JobType ==
    /\ NoRow \in Row
    /\ NoJob \in Job
    /\ \A c \in Cluster : c[1] \in Article /\ c[2] \in 1 .. MaxDeliver
BY BoundsAssumption DEF NoRow, NoJob, Row, Job, Cluster

\* What the bus does to a message keeps the bus well-typed.
LEMMA BusType ==
    ASSUME Bus!TypeOK, BudgetLeft, NEW a \in Article,
           \/ Bus!Publish(a) \/ Bus!Deliver(a) \/ Bus!Ack(a)
           \/ Bus!Term(a) \/ Bus!Nak(a) \/ Bus!AckWait(a)
    PROVE  Bus!TypeOK' /\ BudgetLeft'
BY BoundsAssumption
DEF Bus!TypeOK, BudgetLeft, Bus!Publish, Bus!Deliver, Bus!Ack, Bus!Term, Bus!Nak,
    Bus!AckWait, Bus!Requeued

\* Init establishes the type invariant.
LEMMA InitType == Init => TypeOK
<1> SUFFICES ASSUME Init PROVE TypeOK
    OBVIOUS
<1>1. Bus!TypeOK
    BY BoundsAssumption DEF Init, Bus!Init, Bus!TypeOK
<1>2. db \in [Cluster -> Row] /\ cache \in [Cluster -> Row] /\ job \in [Worker -> Job]
    BY JobType DEF Init
<1>3. articleRow \in [Article -> ArticleRow]
    BY DEF Init, ArticleRow
<1> QED
    BY <1>1, <1>2, <1>3, BoundsAssumption DEF Init, TypeOK, Label, Event
-----------------------------------------------------------------------------
(* The kinds of steps, each reduced to what the invariant talks about. *)

\* Everything the invariant talks about, except the bus.
coreVars == <<db, cache, events, pc, job, clock>>

Others(w) == \A v \in Worker : v # w => pc'[v] = pc[v] /\ job'[v] = job[v]

SameJob(w) == job'[w] = job[w]

\* The bus, a timer, Redis: cached copies may go.
EnvStep ==
    /\ UNCHANGED <<delivered, db, events, pc, job, clock>>
    /\ \A c \in Cluster : cache'[c] = cache[c] \/ cache'[c] = NoRow

\* The handler ends.
Ended(w) ==
    /\ Busy(w) /\ pc'[w] = "idle" /\ Others(w)
    /\ UNCHANGED <<delivered, db, cache, events, clock>>

Started(w, a) ==
    /\ ~ Busy(w) /\ pc'[w] = "lookup" /\ Others(w)
    /\ job'[w].article = a /\ job'[w].attempt = delivered[a] + 1
    /\ delivered' = [delivered EXCEPT ![a] = @ + 1] /\ mstate'[a] = "inflight"
    /\ UNCHANGED <<db, cache, events, clock>>

Matched(w, c) ==
    /\ pc[w] = "lookup" /\ pc'[w] = "get" /\ Others(w)
    /\ job'[w].article = job[w].article /\ job'[w].attempt = job[w].attempt
    /\ job'[w].cluster = c
    /\ UNCHANGED <<delivered, db, cache, events, clock>>

Founded(w) ==
    /\ Undecided(w) /\ pc'[w] = "article" /\ Others(w)
    /\ job'[w].article = job[w].article /\ job'[w].attempt = job[w].attempt
    /\ job'[w].cluster = Own(w) /\ job'[w].isNew = TRUE
    /\ job'[w].row.version = 1 /\ job'[w].row.members = <<job[w].article>>
    /\ job'[w].row.stamp = clock' /\ clock' \in Now
    /\ UNCHANGED <<delivered, db, cache, events>>

Joined(w) ==
    LET c == job[w].cluster IN
    /\ pc[w] = "get" /\ pc'[w] = "article" /\ Others(w) /\ Present(cache[c])
    /\ job'[w].article = job[w].article /\ job'[w].attempt = job[w].attempt
    /\ job'[w].cluster = c /\ job'[w].isNew = FALSE
    /\ job'[w].row.version = cache[c].version + 1
    /\ job'[w].row.members = Append(cache[c].members, job[w].article)
    /\ job'[w].row.stamp = clock' /\ clock' \in Now
    /\ UNCHANGED <<delivered, db, cache, events>>

\* The handler goes on with the same locals.
Moved(w) ==
    /\ \/ pc[w] = "article" /\ pc'[w] \in {"save", "ack"}
       \/ pc[w] = "markCluster" /\ pc'[w] = "markArticle"
       \/ pc[w] = "markArticle" /\ pc'[w] = "publish"
    /\ Others(w) /\ SameJob(w)
    /\ UNCHANGED <<delivered, db, cache, events, clock>>

Committed(w) ==
    LET c == job[w].cluster
        r == job[w].row
    IN
    /\ pc[w] = "save" /\ pc'[w] = "setCache" /\ Others(w) /\ SameJob(w)
    /\ job[w].isNew \/ (Saved(w).version = r.version /\ Saved(w).stamp = r.stamp)
    /\ db' = [db EXCEPT ![c] = Saved(w)]
    /\ UNCHANGED <<delivered, cache, events, clock>>

Cached(w) ==
    /\ pc[w] = "setCache" /\ pc'[w] = "markCluster" /\ Others(w) /\ SameJob(w)
    /\ cache' = [cache EXCEPT ![job[w].cluster] = job[w].row]
    /\ UNCHANGED <<delivered, db, events, clock>>

Published(w) ==
    /\ pc[w] = "publish" /\ pc'[w] = "ack" /\ Others(w) /\ SameJob(w)
    /\ events' = events \cup {[cluster |-> job[w].cluster,
                               version |-> job[w].row.version,
                               article |-> job[w].article]}
    /\ UNCHANGED <<delivered, db, cache, clock>>

WorkerStep(w) ==
    \/ Ended(w)
    \/ \E a \in Article : Started(w, a)
    \/ \E c \in Cluster : Matched(w, c)
    \/ Founded(w)
    \/ Joined(w)
    \/ Moved(w)
    \/ Committed(w)
    \/ Cached(w)
    \/ Published(w)

\* Every step of the engine is of one of these kinds.
LEMMA StepKinds ==
    ASSUME TypeOK, JobShape, Next
    PROVE  EnvStep \/ \E w \in Worker : WorkerStep(w)
<1> USE DEF TypeOK, Others, SameJob, dbVars, cacheVars, busVars, vars
<1>1. ASSUME NEW w \in Worker, Reject(w) \/ SaveRefused(w) \/ Ack(w) \/ Fail(w) \/ Crash(w)
      PROVE  Ended(w)
    BY <1>1 DEF Reject, SaveRefused, Ack, Fail, Crash, Ended, Busy, Bus!Term, Bus!Nak, Bus!Ack
<1>2. ASSUME NEW w \in Worker, NEW a \in Article, Deliver(w, a)
      PROVE  Started(w, a)
    BY <1>2 DEF Deliver, Started, Busy, Bus!Deliver, Bus!TypeOK, NoJob, Job
<1>3. ASSUME NEW w \in Worker, Match(w)
      PROVE  \E c \in Cluster : Matched(w, c)
    BY <1>3 DEF Match, Matched, Window, Job
<1>4. ASSUME NEW w \in Worker, NoMatch(w) \/ GetMiss(w)
      PROVE  Founded(w)
  <2>. PICK t \in Now : Undecided(w) /\ Found(w, t)
    BY <1>4 DEF NoMatch, GetMiss, Undecided
  <2>1. Undecided(w) /\ Found(w, t)
    OBVIOUS
  <2>2. /\ job'[w].article = job[w].article
        /\ job'[w].attempt = job[w].attempt
        /\ job'[w].cluster = Own(w)
        /\ job'[w].isNew = TRUE
        /\ job'[w].row = [version |-> 1, members |-> <<job[w].article>>, stamp |-> t]
    BY <2>1 DEF Found, Own, Job
  <2>3. Others(w) /\ clock' = t /\ pc'[w] = "article"
    BY <2>1 DEF Found
  <2> QED
    BY <2>1, <2>2, <2>3 DEF Found, Founded
<1>5. ASSUME NEW w \in Worker, GetHit(w)
      PROVE  Joined(w)
  <2>1. PICK t \in Now :
            /\ job' = [job EXCEPT
                    ![w].row = [version |-> cache[job[w].cluster].version + 1,
                                members |-> Append(cache[job[w].cluster].members, job[w].article),
                                stamp |-> t],
                    ![w].isNew = FALSE]
            /\ clock' = t
    BY <1>5 DEF GetHit
  <2> HIDE DEF TypeOK
  <2>2. job \in [Worker -> Job]
    BY DEF TypeOK
  <2>3. /\ job'[w].article = job[w].article
        /\ job'[w].attempt = job[w].attempt
        /\ job'[w].cluster = job[w].cluster
        /\ job'[w].isNew = FALSE
        /\ job'[w].row = [version |-> cache[job[w].cluster].version + 1,
                          members |-> Append(cache[job[w].cluster].members, job[w].article),
                          stamp |-> t]
    BY <2>1, <2>2 DEF Job
  <2>4. /\ pc[w] = "get" /\ pc' = [pc EXCEPT ![w] = "article"] /\ Present(cache[job[w].cluster])
        /\ UNCHANGED <<delivered, db, cache, events>>
    BY <1>5 DEF GetHit
  <2>5. Others(w) /\ pc'[w] = "article"
    BY <2>1, <2>2, <2>4, <1>5 DEF TypeOK
  <2>6. job'[w].row.stamp = clock' /\ clock' \in Now
    BY <2>1, <2>3
  <2> QED
    <3> HIDE DEF Others
    <3> QED
      BY <2>3, <2>4, <2>5, <2>6 DEF Joined
<1>6. ASSUME NEW w \in Worker,
             FindArticle(w) \/ ArticleMissing(w) \/ MarkCluster(w) \/ MarkArticle(w)
      PROVE  Moved(w)
    BY <1>6 DEF FindArticle, ArticleMissing, MarkCluster, MarkArticle, Moved
<1>7. ASSUME NEW w \in Worker, Save(w)
      PROVE  Committed(w)
    BY <1>7 DEF Save, Conflict, Committed
<1>8. ASSUME NEW w \in Worker, SetCache(w)
      PROVE  Cached(w)
    BY <1>8 DEF SetCache, Cached
<1>9. ASSUME NEW w \in Worker, Publish(w)
      PROVE  Published(w)
    BY <1>9 DEF Publish, Published
<1>10. ASSUME NEW a \in Article, Arrive(a) \/ AckWait(a) \/ SlowHandler(a)
       PROVE  EnvStep
    BY <1>10 DEF Arrive, AckWait, SlowHandler, EnvStep, Bus!Publish, Bus!AckWait
<1>11. ASSUME (\E c \in Cluster : Expire(c)) \/ RedisRestart \/ Done
       PROVE  EnvStep
    BY <1>11 DEF Expire, RedisRestart, Done, EnvStep
<1> QED
    BY <1>1, <1>2, <1>3, <1>4, <1>5, <1>6, <1>7, <1>8, <1>9, <1>10, <1>11
    DEF Next, Handle, WorkerStep
-----------------------------------------------------------------------------
(* Each part of the invariant is preserved. *)

\* What an upsert leaves in the table is the old row or the new one.
LEMMA UpsertRow ==
    ASSUME NEW S, NEW old \in S, NEW new \in S
    PROVE  Upsert(old, new) \in S
BY DEF Upsert

\* Types and delivery budgets are preserved by every step.
LEMMA NextType ==
    ASSUME TypeOK, BudgetLeft, JobShape, Next
    PROVE  TypeOK' /\ BudgetLeft'
<1> USE JobType DEF TypeOK, dbVars, cacheVars, busVars, vars, Busy, Label
<1>1. ASSUME NEW w \in Worker, Reject(w) \/ SaveRefused(w) \/ Ack(w) \/ Fail(w)
      PROVE  TypeOK' /\ BudgetLeft'
  <2>1. job[w].article \in Article
    BY <1>1 DEF Reject, SaveRefused, Ack, Fail, JobShape
  <2>2. Bus!TypeOK' /\ BudgetLeft'
    BY <1>1, <2>1, BusType DEF Reject, SaveRefused, Ack, Fail
  <2> QED
    BY <1>1, <2>2, BoundsAssumption DEF Reject, SaveRefused, Ack, Fail, Fault
<1>2. ASSUME NEW w \in Worker, Crash(w)
      PROVE  TypeOK' /\ BudgetLeft'
    BY <1>2, BoundsAssumption DEF Crash, Fault, Bus!TypeOK, BudgetLeft
<1>3. ASSUME NEW w \in Worker, NEW a \in Article, Deliver(w, a)
      PROVE  TypeOK' /\ BudgetLeft'
  <2>1. Bus!TypeOK' /\ BudgetLeft'
    BY <1>3, BusType DEF Deliver
  <2>2. delivered[a] + 1 \in 0 .. MaxDeliver
    BY <1>3, BoundsAssumption DEF Deliver, Bus!Deliver, BudgetLeft, Bus!TypeOK
  <2> QED
    BY <1>3, <2>1, <2>2 DEF Deliver, Job, NoJob
<1>4. ASSUME NEW w \in Worker, Match(w)
      PROVE  TypeOK' /\ BudgetLeft'
    BY <1>4 DEF Match, Window, Job, BudgetLeft, Bus!TypeOK
<1>5. ASSUME NEW w \in Worker, NoMatch(w) \/ GetMiss(w) \/ GetHit(w)
      PROVE  TypeOK' /\ BudgetLeft'
  <2>1. Now \subseteq Nat
    BY DEF Now
  <2>2. job' \in [Worker -> Job]
    <3>1. ASSUME NEW t \in Nat, Found(w, t)
          PROVE  job' \in [Worker -> Job]
      <4>1. Busy(w)
        BY <1>5 DEF NoMatch, GetMiss, GetHit
      <4>2. <<job[w].article, job[w].attempt>> \in Cluster
        BY <4>1, BoundsAssumption DEF JobShape, Cluster, Bus!TypeOK
      <4>3. [version |-> 1, members |-> <<job[w].article>>, stamp |-> t] \in Row
        BY <4>1 DEF JobShape, Row
      <4> QED
        BY <3>1, <4>2, <4>3 DEF Found, Job
    <3>2. ASSUME GetHit(w)
          PROVE  job' \in [Worker -> Job]
      <4> DEFINE cached == cache[job[w].cluster]
      <4>1. job[w].cluster \in Cluster /\ job[w].article \in Article
        BY <3>2 DEF GetHit, JobShape
      <4>2. cached.members \in Seq(Article) /\ cached.version \in Nat
        BY <4>1 DEF Row
      <4>3. Append(cached.members, job[w].article) \in Seq(Article)
        BY <4>1, <4>2
      <4>4. \A t \in Nat : [version |-> cached.version + 1,
                            members |-> Append(cached.members, job[w].article),
                            stamp |-> t] \in Row
        BY <4>2, <4>3 DEF Row
      <4>5. PICK t \in Now :
                job' = [job EXCEPT
                    ![w].row = [version |-> cached.version + 1,
                                members |-> Append(cached.members, job[w].article),
                                stamp |-> t],
                    ![w].isNew = FALSE]
        BY <3>2 DEF GetHit
      <4> HIDE DEF cached
      <4> QED
        BY <2>1, <4>4, <4>5 DEF Job
    <3> QED
      BY <1>5, <2>1, <3>1, <3>2 DEF NoMatch, GetMiss
  <2>3. clock' \in Nat
    BY <1>5, <2>1 DEF NoMatch, GetMiss, GetHit, Found
  <2> QED
    BY <1>5, <2>2, <2>3 DEF NoMatch, GetMiss, GetHit, Found, BudgetLeft, Bus!TypeOK
<1>6. ASSUME NEW w \in Worker,
             FindArticle(w) \/ ArticleMissing(w) \/ MarkCluster(w) \/ MarkArticle(w)
      PROVE  TypeOK' /\ BudgetLeft'
  <2>1. job[w].article \in Article /\ job[w].cluster \in Cluster
    BY <1>6 DEF FindArticle, ArticleMissing, MarkCluster, MarkArticle, JobShape
  <2> QED
    BY <1>6, <2>1 DEF FindArticle, ArticleMissing, MarkCluster, MarkArticle, BudgetLeft, Bus!TypeOK
<1>7. ASSUME NEW w \in Worker, Save(w)
      PROVE  TypeOK' /\ BudgetLeft'
  <2>1. job[w].article \in Article /\ job[w].cluster \in Cluster /\ job[w].row \in Row
    BY <1>7 DEF Save, JobShape, Job
  <2>2. db' \in [Cluster -> Row]
    BY <1>7, <2>1, UpsertRow DEF Save, Saved
  <2>3. articleRow' \in [Article -> ArticleRow]
    BY <1>7, <2>1 DEF Save, ArticleRow, Upsert
  <2> QED
    BY <1>7, <2>2, <2>3 DEF Save, BudgetLeft, Bus!TypeOK
<1>8. ASSUME NEW w \in Worker, SetCache(w) \/ Publish(w)
      PROVE  TypeOK' /\ BudgetLeft'
  <2>1. job[w].article \in Article /\ job[w].cluster \in Cluster /\ job[w].row \in Row
    BY <1>8 DEF SetCache, Publish, JobShape, Job
  <2>2. CASE SetCache(w)
    <3>1. job[w].row.stamp \in Nat
      BY <2>1 DEF Row
    <3> QED
      BY <2>1, <2>2, <3>1 DEF SetCache, BudgetLeft, Bus!TypeOK
  <2>3. CASE Publish(w)
    <3>1. [cluster |-> job[w].cluster, version |-> job[w].row.version,
           article |-> job[w].article] \in Event
      BY <2>1 DEF Row, Event
    <3> QED
      BY <2>3, <3>1 DEF Publish, BudgetLeft, Bus!TypeOK
  <2> QED
    BY <1>8, <2>2, <2>3
<1>9. ASSUME NEW a \in Article, Arrive(a) \/ AckWait(a) \/ SlowHandler(a)
      PROVE  TypeOK' /\ BudgetLeft'
  <2>1. Bus!TypeOK' /\ BudgetLeft'
    BY <1>9, BusType DEF Arrive, AckWait, SlowHandler
  <2> QED
    BY <1>9, <2>1, BoundsAssumption DEF Arrive, AckWait, SlowHandler, Fault
<1>10. ASSUME (\E c \in Cluster : Expire(c)) \/ RedisRestart \/ Done
       PROVE  TypeOK' /\ BudgetLeft'
    BY <1>10 DEF Expire, RedisRestart, Done, BudgetLeft, Bus!TypeOK
<1> QED
    BY <1>1, <1>2, <1>3, <1>4, <1>5, <1>6, <1>7, <1>8, <1>9, <1>10
    DEF Next, Handle
\* The types the remaining lemmas need, with the Boolean structure left out.
CoreType ==
    /\ delivered \in [Article -> 0 .. MaxDeliver]
    /\ db \in [Cluster -> Row]
    /\ cache \in [Cluster -> Row]
    /\ events \subseteq Event
    /\ pc \in [Worker -> Label]
    /\ job \in [Worker -> Job]
    /\ clock \in Nat

\* The short type invariant follows from the long one.
LEMMA CoreTypes == ASSUME TypeOK PROVE CoreType
BY BoundsAssumption DEF TypeOK, Bus!TypeOK, CoreType

\* A handler's locals are what its await says they are, after every step.
LEMMA NextJobShape ==
    ASSUME CoreType, JobShape, EnvStep \/ \E w \in Worker : WorkerStep(w)
    PROVE  JobShape'
<1> USE DEF CoreType, JobShape, Others, SameJob, Busy, Pending, Undecided, Own, Label
<1>1. CASE EnvStep
    BY <1>1 DEF EnvStep
<1>2. ASSUME NEW w \in Worker, Ended(w)
      PROVE  JobShape'
    BY <1>2 DEF Ended
<1>3. ASSUME NEW w \in Worker, NEW a \in Article, Started(w, a)
      PROVE  JobShape'
    BY <1>3 DEF Started
<1>4. ASSUME NEW w \in Worker, NEW c \in Cluster, Matched(w, c)
      PROVE  JobShape'
    BY <1>4 DEF Matched
<1>5. ASSUME NEW w \in Worker, Founded(w)
      PROVE  JobShape'
  <2>1. job[w].article \in Article /\ job[w].attempt \in 1 .. delivered[job[w].article]
    BY <1>5 DEF Founded
  <2>2. Own(w) \in Cluster
    BY <2>1, BoundsAssumption DEF Cluster
  <2>3. /\ job'[w].article = job[w].article /\ job'[w].attempt = job[w].attempt
        /\ job'[w].cluster = Own(w)
        /\ job'[w].row.version = 1 /\ job'[w].row.members = <<job[w].article>>
        /\ delivered' = delivered
    BY <1>5 DEF Founded
  <2>4. \A v \in Worker : v # w => pc'[v] = pc[v] /\ job'[v] = job[v]
    BY <1>5 DEF Founded
  <2> HIDE DEF CoreType
  <2> QED
    BY <2>1, <2>2, <2>3, <2>4
<1>6. ASSUME NEW w \in Worker, Joined(w)
      PROVE  JobShape'
    BY <1>6 DEF Joined
<1>7. ASSUME NEW w \in Worker, Moved(w)
      PROVE  JobShape'
    BY <1>7 DEF Moved
<1>8. ASSUME NEW w \in Worker, Committed(w) \/ Cached(w) \/ Published(w)
      PROVE  JobShape'
    BY <1>8 DEF Committed, Cached, Published
<1> QED
    BY <1>1, <1>2, <1>3, <1>4, <1>5, <1>6, <1>7, <1>8 DEF WorkerStep

\* The server hands a delivery to one replica only, and it stays that way.
LEMMA NextUniqueAttempts ==
    ASSUME CoreType, JobShape, UniqueAttempts, EnvStep \/ \E w \in Worker : WorkerStep(w)
    PROVE  UniqueAttempts'
<1> USE DEF CoreType, UniqueAttempts, Others, SameJob, Busy, Undecided, Own
<1>1. CASE EnvStep
    BY <1>1 DEF EnvStep
<1>2. ASSUME NEW w \in Worker, Ended(w)
      PROVE  UniqueAttempts'
    BY <1>2 DEF Ended
<1>3. ASSUME NEW w \in Worker, NEW a \in Article, Started(w, a)
      PROVE  UniqueAttempts'
  <2>1. \A v \in Worker : v # w /\ Busy(v) => Own(v) # Own(w)'
    BY <1>3 DEF Started, JobShape
  <2> QED
    BY <1>3, <2>1 DEF Started
<1>4. ASSUME NEW w \in Worker,
             \/ \E c \in Cluster : Matched(w, c)
             \/ Founded(w) \/ Joined(w) \/ Moved(w)
             \/ Committed(w) \/ Cached(w) \/ Published(w)
      PROVE  UniqueAttempts'
  <2>1. Own(w)' = Own(w) /\ Busy(w) /\ Others(w)
    BY <1>4 DEF Matched, Founded, Joined, Moved, Committed, Cached, Published
  <2> QED
    BY <2>1
<1> QED
    BY <1>1, <1>2, <1>3, <1>4 DEF WorkerStep
\* Optimistic concurrency works: a transaction that is not refused appends the
\* handler's article to the row that is current at that moment, and the cache,
\* if it has the cluster at all, has just that row.
LEMMA CommitAppends ==
    ASSUME CoreType, JobShape, FreshNames, DbShape, CacheTracksDb, JoinBase, UniqueStamps,
           NEW w \in Worker, Committed(w)
    PROVE  LET c == job[w].cluster
               r == job[w].row
           IN
           /\ c \in Cluster
           /\ r \in Row
           /\ r.version = db[c].version + 1
           /\ r.members = Append(db[c].members, job[w].article)
           /\ db' = [db EXCEPT ![c] = r]
           /\ Present(cache[c]) => cache[c].version = db[c].version
<1> DEFINE c == job[w].cluster
           r == job[w].row
<1> USE DEF CoreType, Busy, Pending, Present, Row
<1>1. c \in Cluster /\ r \in Row /\ job[w].article \in Article /\ Pending(w)
    BY DEF Committed, JobShape, Job
<1>2. db[c] \in Row /\ cache[c] \in Row
    BY <1>1
<1>3. CASE job[w].isNew
  <2>1. ~ Present(db[c]) /\ r.version = 1 /\ r.members = <<job[w].article>>
    BY <1>1, <1>3 DEF FreshNames, JobShape
  <2>2. db[c].version = 0 /\ db[c].members = <<>>
    BY <1>1, <1>2, <2>1 DEF DbShape
  <2>3. Saved(w) = r
    BY <2>1, <2>2 DEF Saved, Upsert
  <2>4. Present(cache[c]) => db[c].version \in {cache[c].version, cache[c].version + 1}
    BY <1>1 DEF CacheTracksDb
  <2>5. ~ Present(cache[c])
    BY <1>2, <2>2, <2>4
  <2> QED
    BY <1>1, <2>1, <2>2, <2>3, <2>5 DEF Committed
<1>4. CASE ~ job[w].isNew
  <2>1. Saved(w).version = r.version /\ Saved(w).stamp = r.stamp
    BY <1>4 DEF Committed
  <2>2. db[c].stamp # r.stamp
    BY <1>1 DEF UniqueStamps
  <2>3. db[c].version < r.version /\ Saved(w) = r
    BY <2>1, <2>2 DEF Saved, Upsert
  <2>4. /\ Present(db[c])
        /\ r.version \in 1 .. db[c].version + 1
        /\ r.version = db[c].version + 1 => r.members = Append(db[c].members, job[w].article)
        /\ Present(cache[c]) => cache[c].version + 1 >= r.version
    BY <1>1, <1>4 DEF JoinBase, Extends
  <2>5. r.version = db[c].version + 1
    BY <1>1, <1>2, <2>3, <2>4
  <2>6. Present(cache[c]) => db[c].version \in {cache[c].version, cache[c].version + 1}
    BY <1>1 DEF CacheTracksDb
  <2>7. Present(cache[c]) => cache[c].version = db[c].version
    BY <1>2, <2>4, <2>5, <2>6
  <2> QED
    BY <1>1, <2>3, <2>4, <2>5, <2>7 DEF Committed
<1> QED
    BY <1>3, <1>4

\* uuid4's names stay fresh: nobody but their owner commits them.
LEMMA NextFreshNames ==
    ASSUME CoreType, JobShape, UniqueAttempts, FreshNames, DbShape, CacheTracksDb, JoinBase,
           UniqueStamps, CoreType', EnvStep \/ \E w \in Worker : WorkerStep(w)
    PROVE  FreshNames'
<1> USE DEF CoreType, FreshNames, Others, SameJob, Busy, Pending, Undecided, Own, Present, Label
<1>1. CASE EnvStep
    BY <1>1 DEF EnvStep
<1>2. ASSUME NEW w \in Worker, Ended(w)
      PROVE  FreshNames'
    BY <1>2 DEF Ended
<1>3. ASSUME NEW w \in Worker, NEW a \in Article, Started(w, a)
      PROVE  FreshNames'
  <2>1. \A c \in Cluster : c[1] \in Article /\ c[2] \in Nat
    BY JobType, BoundsAssumption
  <2>2. \A c \in Cluster : Present(db'[c]) => c[2] <= delivered'[c[1]]
    BY <1>3, <2>1, BoundsAssumption DEF Started
  <2>3. ~ Present(db'[Own(w)'])
    <3>1. Own(w)' = <<a, delivered[a] + 1>> /\ db' = db
      BY <1>3 DEF Started
    <3>2. delivered'[a] = delivered[a] + 1 /\ delivered'[a] \in 0 .. MaxDeliver
      BY <1>3 DEF Started
    <3>3. <<a, delivered[a] + 1>> \in Cluster
      BY <3>2, BoundsAssumption DEF Cluster
    <3> QED
      BY <3>1, <3>3, BoundsAssumption
  <2> QED
    BY <1>3, <2>2, <2>3 DEF Started
<1>4. ASSUME NEW w \in Worker,
             \/ \E c \in Cluster : Matched(w, c)
             \/ Founded(w) \/ Joined(w) \/ Moved(w) \/ Cached(w) \/ Published(w)
      PROVE  FreshNames'
  <2>1. /\ Own(w)' = Own(w) /\ Others(w) /\ db' = db /\ delivered' = delivered
        /\ Undecided(w)' \/ (Pending(w)' /\ job'[w].isNew) =>
                Undecided(w) \/ (Pending(w) /\ job[w].isNew)
    BY <1>4 DEF Matched, Founded, Joined, Moved, Cached, Published
  <2> QED
    BY <2>1
<1>5. ASSUME NEW w \in Worker, Committed(w)
      PROVE  FreshNames'
  <2> DEFINE c == job[w].cluster
  <2>1. c \in Cluster /\ \A d \in Cluster : d # c => db'[d] = db[d]
    BY <1>5, CommitAppends
  <2>2. c[2] <= delivered[c[1]]
    <3>1. CASE job[w].isNew
      BY <1>5, <3>1 DEF Committed, JobShape
    <3>2. CASE ~ job[w].isNew
      BY <1>5, <2>1, <3>2 DEF Committed, JoinBase, Extends
    <3> QED
      BY <3>1, <3>2
  <2>3. ASSUME NEW v \in Worker, v # w, Undecided(v) \/ (Pending(v) /\ job[v].isNew)
        PROVE  Own(v) # c
    <3>1. Busy(v) /\ Busy(w) /\ ~ Present(db[Own(v)])
      BY <1>5, <2>3 DEF Committed
    <3>2. CASE job[w].isNew
      BY <1>5, <2>3, <3>1, <3>2 DEF Committed, JobShape, UniqueAttempts
    <3>3. CASE ~ job[w].isNew
      BY <1>5, <3>1, <3>3 DEF Committed, JoinBase, Extends
    <3> QED
      BY <3>2, <3>3
  <2>4. ~ Undecided(w)' /\ ~ Pending(w)' /\ delivered' = delivered
    BY <1>5 DEF Committed
  <2>5. \A v \in Worker : v # w => pc'[v] = pc[v] /\ job'[v] = job[v]
    BY <1>5 DEF Committed
  <2>6. ASSUME NEW v \in Worker, Undecided(v)' \/ (Pending(v)' /\ job'[v].isNew)
        PROVE  ~ Present(db'[Own(v)'])
    <3>1. v # w /\ Own(v) # c /\ Own(v)' = Own(v) /\ ~ Present(db[Own(v)])
      BY <2>3, <2>4, <2>5, <2>6
    <3>2. Own(v) \in Cluster
      BY <2>5, <2>6, <3>1, BoundsAssumption DEF JobShape, Cluster
    <3> QED
      BY <2>1, <3>1, <3>2
  <2> QED
    BY <2>1, <2>2, <2>4, <2>6
<1> QED
    BY <1>1, <1>2, <1>3, <1>4, <1>5 DEF WorkerStep
\* The part of the invariant the transaction depends on, and a clock that
\* separates any two readings.
Core ==
    /\ ~ ClockTies
    /\ CoreType
    /\ JobShape
    /\ UniqueAttempts
    /\ FreshNames
    /\ DbShape
    /\ CacheTracksDb
    /\ JoinBase
    /\ UniqueStamps

\* Versions keep counting members; the stored stamps stay in the past.
LEMMA NextDbShape ==
    ASSUME Core, EnvStep \/ \E w \in Worker : WorkerStep(w)
    PROVE  DbShape'
<1> USE DEF Core, CoreType, DbShape
<1>1. CASE db' = db /\ clock' \in {clock, clock + 1}
    BY <1>1 DEF Row
<1>2. ASSUME NEW w \in Worker, Committed(w)
      PROVE  DbShape'
  <2> DEFINE c == job[w].cluster
             r == job[w].row
  <2>1. /\ c \in Cluster /\ r \in Row
        /\ r.version = db[c].version + 1
        /\ r.members = Append(db[c].members, job[w].article)
        /\ db' = [db EXCEPT ![c] = r]
    BY <1>2, CommitAppends
  <2>2. Len(r.members) = Len(db[c].members) + 1
    BY <2>1 DEF Row
  <2>3. r.stamp <= clock /\ clock' = clock
    BY <1>2 DEF Committed, UniqueStamps, Pending
  <2> HIDE DEF c, r
  <2> QED
    BY <2>1, <2>2, <2>3
<1> QED
    BY <1>1, <1>2
    DEF EnvStep, WorkerStep, Ended, Started, Matched, Founded, Joined, Moved, Cached, Published, Now

\* A clock that separates two readings keeps last_activity a fingerprint.
LEMMA NextUniqueStamps ==
    ASSUME Core, EnvStep \/ \E w \in Worker : WorkerStep(w)
    PROVE  UniqueStamps'
<1> USE DEF Core, CoreType, UniqueStamps, Others, SameJob, Pending, Undecided, Row, Job
<1>1. CASE EnvStep
    BY <1>1 DEF EnvStep
<1>2. ASSUME NEW w \in Worker,
             \/ Ended(w) \/ Moved(w) \/ Cached(w) \/ Published(w)
             \/ \E a \in Article : Started(w, a)
             \/ \E c \in Cluster : Matched(w, c)
      PROVE  UniqueStamps'
  <2>1. /\ Others(w) /\ db' = db /\ clock' = clock
        /\ Pending(w)' => Pending(w) /\ job'[w] = job[w]
    BY <1>2 DEF Ended, Moved, Cached, Published, Started, Matched
  <2>2. \A v \in Worker : Pending(v)' => Pending(v) /\ job'[v] = job[v]
    BY <2>1
  <2> HIDE DEF CoreType, Pending
  <2> QED
    BY <2>1, <2>2
<1>3. ASSUME NEW w \in Worker, Founded(w) \/ Joined(w)
      PROVE  UniqueStamps'
  <2>1. /\ job'[w].row.stamp = clock + 1 /\ clock' = clock + 1
        /\ Others(w) /\ db' = db
    BY <1>3 DEF Founded, Joined, Now
  <2>2. \A c \in Cluster : db[c].stamp \in Nat /\ db[c].stamp <= clock
    BY DEF DbShape
  <2>3. \A v \in Worker : job[v].row.stamp \in Nat
    OBVIOUS
  <2>4. \A v \in Worker : v # w /\ Pending(v)' =>
            /\ Pending(v) /\ job'[v] = job[v] /\ job[v].row.stamp < clock + 1
    BY <2>1, <2>3
  <2> HIDE DEF CoreType
  <2>5. clock \in Nat
    BY DEF CoreType
  <2> QED
    BY <2>1, <2>2, <2>3, <2>4, <2>5
<1>4. ASSUME NEW w \in Worker, Committed(w)
      PROVE  UniqueStamps'
  <2>1. /\ job[w].cluster \in Cluster
        /\ db' = [db EXCEPT ![job[w].cluster] = job[w].row]
    BY <1>4, CommitAppends
  <2>2. Others(w) /\ ~ Pending(w)' /\ clock' = clock /\ Pending(w)
    BY <1>4 DEF Committed
  <2>3. \A v \in Worker : Pending(v)' => v # w /\ Pending(v) /\ job'[v] = job[v]
    BY <2>2
  <2>4. \A c \in Cluster : db'[c] = db[c] \/ db'[c] = job[w].row
    BY <2>1
  <2> HIDE DEF CoreType, Pending, Others
  <2> QED
    BY <2>2, <2>3, <2>4
<1> QED
    BY <1>1, <1>2, <1>3, <1>4 DEF WorkerStep

\* set_cluster writes what the database holds, so neither the cache nor the
\* database overtakes the other.
LEMMA NextCacheTracksDb ==
    ASSUME Core, RefreshDue, EnvStep \/ \E w \in Worker : WorkerStep(w)
    PROVE  CacheTracksDb'
<1> USE DEF Core, CoreType, CacheTracksDb, Present
<1>1. CASE EnvStep
    BY <1>1 DEF EnvStep, NoRow
<1>2. CASE UNCHANGED <<db, cache>>
    BY <1>2
<1>3. ASSUME NEW w \in Worker, Committed(w)
      PROVE  CacheTracksDb'
  <2> DEFINE c == job[w].cluster
             r == job[w].row
  <2>1. /\ c \in Cluster /\ r \in Row
        /\ r.version = db[c].version + 1
        /\ db' = [db EXCEPT ![c] = r]
        /\ Present(cache[c]) => cache[c].version = db[c].version
    BY <1>3, CommitAppends
  <2>2. cache' = cache
    BY <1>3 DEF Committed
  <2>3. db[c].version \in Nat
    BY <2>1 DEF Row
  <2> HIDE DEF c, r
  <2> QED
    BY <2>1, <2>2, <2>3
<1>4. ASSUME NEW w \in Worker, Cached(w)
      PROVE  CacheTracksDb'
  <2>1. job[w].cluster \in Cluster
    BY <1>4 DEF Cached, JobShape, Busy
  <2>2. db[job[w].cluster] = job[w].row
    BY <1>4 DEF Cached, RefreshDue
  <2> QED
    BY <1>4, <2>1, <2>2 DEF Cached
<1> QED
    BY <1>1, <1>2, <1>3, <1>4
    DEF WorkerStep, Ended, Started, Matched, Founded, Joined, Moved, Published

\* A handler may go on relying on the copy it extended.
LEMMA NextJoinBase ==
    ASSUME Core, RefreshDue, EnvStep \/ \E w \in Worker : WorkerStep(w)
    PROVE  JoinBase'
<1> USE DEF Core
<1>a. ASSUME NEW v \in Worker, Pending(v), ~ job[v].isNew
      PROVE  /\ job[v].cluster \in Cluster /\ job[v].row.version \in Nat
             /\ Extends(db[job[v].cluster], cache[job[v].cluster], job[v].row, job[v].article)
    BY <1>a DEF JoinBase, JobShape, Pending, Busy, CoreType, Job, Row
<1>1. CASE EnvStep
  <2>1. UNCHANGED <<db, pc, job>> /\ \A c \in Cluster : Present(cache'[c]) => cache'[c] = cache[c]
    BY <1>1 DEF EnvStep, NoRow, Present
  <2> QED
    BY <1>a, <2>1 DEF JoinBase, Extends, Pending
<1>2. ASSUME NEW w \in Worker,
             \/ Ended(w) \/ Moved(w) \/ Published(w) \/ Founded(w)
             \/ \E a \in Article : Started(w, a)
             \/ \E c \in Cluster : Matched(w, c)
      PROVE  JoinBase'
  <2>1. Others(w) /\ db' = db /\ cache' = cache
    BY <1>2 DEF Ended, Moved, Published, Founded, Started, Matched
  <2>2. Pending(w)' /\ ~ job'[w].isNew => Pending(w) /\ job'[w] = job[w]
    BY <1>2 DEF Ended, Moved, Published, Founded, Started, Matched, Pending, SameJob
  <2>3. \A v \in Worker : Pending(v)' /\ ~ job'[v].isNew => Pending(v) /\ job'[v] = job[v]
    BY <2>1, <2>2 DEF Others, Pending
  <2> QED
    BY <2>1, <2>3 DEF JoinBase
<1>3. ASSUME NEW w \in Worker, Joined(w)
      PROVE  JoinBase'
  <2> DEFINE c == job[w].cluster
  <2>1. /\ c \in Cluster /\ db[c] \in Row /\ cache[c] \in Row /\ Present(cache[c])
        /\ job'[w].cluster = c
        /\ job'[w].article = job[w].article
        /\ job'[w].row.version = cache[c].version + 1
        /\ job'[w].row.members = Append(cache[c].members, job[w].article)
        /\ db' = db /\ cache' = cache
    BY <1>3 DEF Joined, JobShape, Busy, CoreType
  <2>2. /\ db[c].version \in {cache[c].version, cache[c].version + 1}
        /\ db[c].version = cache[c].version => db[c] = cache[c]
    BY <2>1 DEF CacheTracksDb
  <2>3. db[c].version \in Nat /\ cache[c].version \in Nat \ {0}
    BY <2>1 DEF Row, Present
  <2>4. Extends(db'[c], cache'[c], job'[w].row, job'[w].article)
    <3> DEFINE d == db[c]
               k == cache[c]
               r == job'[w].row
               a == job[w].article
    <3>1. /\ d.version \in Nat /\ k.version \in Nat \ {0}
          /\ d.version \in {k.version, k.version + 1} /\ (d.version = k.version => d = k)
          /\ r.version = k.version + 1 /\ r.members = Append(k.members, a)
      BY <2>1, <2>2, <2>3
    <3> HIDE DEF c, d, k, r, a, Core
    <3>2. Extends(d, k, r, a)
      BY <3>1 DEF Extends, Present
    <3> QED
      BY <2>1, <3>2 DEF d, k, r, a
  <2>5. \A v \in Worker : v # w /\ Pending(v)' => Pending(v) /\ job'[v] = job[v]
    BY <1>3 DEF Joined, Others, Pending
  <2> QED
    BY <2>1, <2>4, <2>5 DEF JoinBase
<1>4. ASSUME NEW w \in Worker, Committed(w)
      PROVE  JoinBase'
  <2> DEFINE c == job[w].cluster
             r == job[w].row
  <2>1. /\ c \in Cluster /\ r.version = db[c].version + 1 /\ db[c].version \in Nat
        /\ db' = [db EXCEPT ![c] = r] /\ db \in [Cluster -> Row]
    BY <1>4, CommitAppends DEF CoreType, Row
  <2>2. /\ cache' = cache
        /\ \A v \in Worker : Pending(v)' => Pending(v) /\ job'[v] = job[v]
    BY <1>4 DEF Committed, Others, Pending
  <2>3. db'[c] = r /\ \A d \in Cluster : d # c => db'[d] = db[d]
    BY <2>1
  <2>4. ASSUME NEW k, NEW q, NEW a, Extends(db[c], k, q, a), q.version \in Nat
        PROVE  Extends(r, k, q, a)
    <3> HIDE DEF c, r
    <3> QED
      BY <2>1, <2>4 DEF Extends, Present
  <2>5. ASSUME NEW v \in Worker, Pending(v)', ~ job'[v].isNew
        PROVE  Extends(db[job[v].cluster], cache[job[v].cluster], job[v].row, job[v].article)'
    <3>1. Pending(v) /\ ~ job[v].isNew /\ job'[v] = job[v]
      BY <2>2, <2>5
    <3>2. CASE job[v].cluster # c
      BY <1>a, <2>2, <2>3, <3>1, <3>2
    <3>3. CASE job[v].cluster = c
      BY <1>a, <2>2, <2>3, <2>4, <3>1, <3>3
    <3> QED
      BY <3>2, <3>3
  <2> QED
    BY <2>5 DEF JoinBase
<1>5. ASSUME NEW w \in Worker, Cached(w)
      PROVE  JoinBase'
  <2> DEFINE c == job[w].cluster
  <2>1. c \in Cluster /\ cache \in [Cluster -> Row] /\ job[w].row.version \in Nat
    BY <1>5 DEF Cached, JobShape, Busy, CoreType, Job, Row
  <2>2. /\ db' = db /\ cache' = [cache EXCEPT ![c] = job[w].row]
        /\ \A v \in Worker : Pending(v)' => v # w /\ Pending(v) /\ job'[v] = job[v]
    BY <1>5 DEF Cached, Others, Pending
  <2>3. \A v \in Worker : v # w /\ Pending(v) /\ job[v].cluster = c =>
            job[v].row.version <= job[w].row.version
    BY <1>5 DEF Cached, RefreshDue
  <2>4. cache'[c] = job[w].row /\ \A d \in Cluster : d # c => cache'[d] = cache[d]
    BY <2>1, <2>2
  <2>5. ASSUME NEW v \in Worker, Pending(v)', ~ job'[v].isNew
        PROVE  Extends(db[job[v].cluster], cache[job[v].cluster], job[v].row, job[v].article)'
    <3>1. v # w /\ Pending(v) /\ ~ job[v].isNew /\ job'[v] = job[v]
      BY <2>2, <2>5
    <3>2. CASE job[v].cluster # c
      BY <1>a, <2>2, <2>4, <3>1, <3>2
    <3>3. CASE job[v].cluster = c
      <4>1. job[w].row.version + 1 >= job[v].row.version
        BY <1>a, <2>1, <2>3, <3>1, <3>3
      <4> QED
        BY <1>a, <2>2, <2>4, <3>1, <3>3, <4>1 DEF Extends
    <3> QED
      BY <3>2, <3>3
  <2> QED
    BY <2>5 DEF JoinBase
<1> QED
    BY <1>1, <1>2, <1>3, <1>4, <1>5 DEF WorkerStep

\* A handler that committed keeps its cluster to itself until set_cluster.
LEMMA NextRefreshDue ==
    ASSUME Core, RefreshDue, EnvStep \/ \E w \in Worker : WorkerStep(w)
    PROVE  RefreshDue'
<1> USE DEF Core
<1>a. \A v \in Worker : job[v].row.version \in Nat
    BY DEF CoreType, Job, Row
<1>b. \A v \in Worker : At(v, "setCache") \/ Pending(v) => job[v].cluster \in Cluster
    BY DEF JobShape, Busy, Pending
<1>1. CASE EnvStep
  <2>1. UNCHANGED <<db, pc, job>>
    BY <1>1 DEF EnvStep
  <2>2. \A c \in Cluster : cache'[c] = cache[c] \/ cache'[c].version = 0
    BY <1>1 DEF EnvStep, NoRow
  <2>3. \A v \in Worker : Present(job[v].row) => 0 < job[v].row.version
    BY DEF Present
  <2> QED
    BY <1>b, <2>1, <2>2, <2>3 DEF RefreshDue, Pending
\* A step of a handler that neither commits nor refreshes the cache, and gets
\* no new row.
<1>2. ASSUME NEW w \in Worker,
             \/ Ended(w) \/ Moved(w) \/ Published(w)
             \/ \E a \in Article : Started(w, a)
             \/ \E c \in Cluster : Matched(w, c)
      PROVE  RefreshDue'
  <2>1. Others(w) /\ db' = db /\ cache' = cache
    BY <1>2 DEF Ended, Moved, Published, Started, Matched
  <2>2. /\ pc'[w] # "setCache"
        /\ Pending(w)' => Pending(w) /\ job'[w] = job[w]
    BY <1>2 DEF Ended, Moved, Published, Started, Matched, Pending, SameJob
  <2>3. \A v \in Worker :
            /\ pc'[v] = "setCache" => pc[v] = "setCache" /\ job'[v] = job[v]
            /\ Pending(v)' => Pending(v) /\ job'[v] = job[v]
    BY <2>1, <2>2 DEF Others, Pending
  <2> HIDE DEF Core
  <2>4. ASSUME NEW u \in Worker, pc'[u] = "setCache"
        PROVE  /\ db'[job'[u].cluster] = job'[u].row
               /\ Present(job'[u].row)
               /\ cache'[job'[u].cluster].version < job'[u].row.version
    <3>1. pc[u] = "setCache" /\ job'[u] = job[u]
      BY <2>3, <2>4
    <3>2. /\ db[job[u].cluster] = job[u].row
          /\ Present(job[u].row)
          /\ cache[job[u].cluster].version < job[u].row.version
      BY <3>1 DEF RefreshDue
    <3> QED
      BY <2>1, <3>1, <3>2
  <2>5. ASSUME NEW u \in Worker, pc'[u] = "setCache",
               NEW v \in Worker, v # u, job'[v].cluster = job'[u].cluster
        PROVE  /\ pc'[v] # "setCache"
               /\ Pending(v)' => job'[v].row.version <= job'[u].row.version
    <3>1. /\ pc[u] = "setCache" /\ job'[u] = job[u]
          /\ pc'[v] = "setCache" => pc[v] = "setCache" /\ job'[v] = job[v]
          /\ Pending(v)' => Pending(v) /\ job'[v] = job[v]
      BY <2>3, <2>5
    <3>2. job[v].cluster = job[u].cluster =>
              /\ pc[v] # "setCache"
              /\ Pending(v) => job[v].row.version <= job[u].row.version
      BY <2>5, <3>1 DEF RefreshDue
    <3> QED
      BY <2>5, <3>1, <3>2
  <2> QED
    BY <2>4, <2>5 DEF RefreshDue
<1>3. ASSUME NEW w \in Worker, Founded(w)
      PROVE  RefreshDue'
  <2>1. /\ db' = db /\ cache' = cache
        /\ pc'[w] = "article" /\ job'[w].cluster = Own(w)
        /\ \A v \in Worker : v # w => pc'[v] = pc[v] /\ job'[v] = job[v]
    BY <1>3 DEF Founded, Others
  <2>2. \A u \in Worker : At(u, "setCache") => job[u].cluster # Own(w)
    BY <1>3 DEF Founded, FreshNames, RefreshDue
  <2>3. \A u \in Worker : pc'[u] = "setCache" => u # w /\ pc[u] = "setCache"
    BY <2>1
  <2> HIDE DEF Core
  <2> QED
    BY <2>1, <2>2, <2>3 DEF RefreshDue, Pending
<1>4. ASSUME NEW w \in Worker, Joined(w)
      PROVE  RefreshDue'
  <2> DEFINE c == job[w].cluster
  <2>1. /\ db' = db /\ cache' = cache
        /\ pc'[w] = "article" /\ job'[w].cluster = c
        /\ job'[w].row.version = cache[c].version + 1
        /\ \A v \in Worker : v # w => pc'[v] = pc[v] /\ job'[v] = job[v]
    BY <1>4 DEF Joined, Others
  <2>2. c \in Cluster /\ cache[c].version \in Nat
    BY <1>4 DEF Joined, JobShape, Busy, CoreType, Row
  <2>3. ASSUME NEW u \in Worker, At(u, "setCache"), job[u].cluster = c
        PROVE  job'[w].row.version <= job[u].row.version
    <3>1. cache[c].version < job[u].row.version
      BY <2>3 DEF RefreshDue
    <3> QED
      BY <1>a, <2>1, <2>2, <3>1
  <2>4. \A u \in Worker : pc'[u] = "setCache" => u # w /\ pc[u] = "setCache"
    BY <2>1
  <2> HIDE DEF Core, c
  <2> QED
    BY <2>1, <2>3, <2>4 DEF RefreshDue, Pending
<1>5. ASSUME NEW w \in Worker, Committed(w)
      PROVE  RefreshDue'
  <2> DEFINE c == job[w].cluster
             r == job[w].row
  <2>1. /\ c \in Cluster /\ r \in Row
        /\ r.version = db[c].version + 1 /\ db[c].version \in Nat
        /\ db' = [db EXCEPT ![c] = r] /\ db \in [Cluster -> Row]
        /\ Present(cache[c]) => cache[c].version = db[c].version
    BY <1>5, CommitAppends DEF CoreType, Row
  <2>2. /\ cache' = cache /\ pc'[w] = "setCache" /\ job'[w] = job[w] /\ Pending(w)
        /\ ~ At(w, "setCache")
        /\ \A v \in Worker : v # w => pc'[v] = pc[v] /\ job'[v] = job[v]
    BY <1>5 DEF Committed, Others, SameJob, Pending
  <2>3. db'[c] = r /\ \A d \in Cluster : d # c => db'[d] = db[d]
    BY <2>1
  <2>4. cache[c].version \in Nat
    BY <2>1 DEF CoreType, Row
  <2>5. Present(r) /\ cache[c].version < r.version
    BY <2>1, <2>4 DEF Present
  <2>6. ASSUME NEW u \in Worker, u # w, At(u, "setCache")
        PROVE  job[u].cluster # c
    <3>1. SUFFICES ASSUME job[u].cluster = c PROVE FALSE
      OBVIOUS
    <3>2. db[c] = job[u].row /\ r.version <= job[u].row.version
      BY <2>2, <2>6, <3>1 DEF RefreshDue
    <3> QED
      BY <2>1, <3>2
  <2>7. ASSUME NEW v \in Worker, v # w, Pending(v), job[v].cluster = c
        PROVE  job[v].row.version <= r.version
    <3>1. CASE job[v].isNew
      BY <1>a, <2>1, <2>7, <3>1 DEF JobShape
    <3>2. CASE ~ job[v].isNew
      <4>1. job[v].row.version \in 1 .. db[c].version + 1
        BY <2>7, <3>2 DEF JoinBase, Extends
      <4> QED
        BY <2>1, <4>1
    <3> QED
      BY <3>1, <3>2
  <2>8. \A v \in Worker : pc'[v] = "setCache" => v = w \/ pc[v] = "setCache"
    BY <2>2
  <2> HIDE DEF Core, c, r
  <2>9. /\ db'[job'[w].cluster] = job'[w].row
        /\ Present(job'[w].row)
        /\ cache'[job'[w].cluster].version < job'[w].row.version
    BY <2>2, <2>3, <2>5 DEF c, r
  <2>10. \A v \in Worker : v # w /\ job'[v].cluster = job'[w].cluster =>
            /\ pc'[v] # "setCache"
            /\ Pending(v)' => job'[v].row.version <= job'[w].row.version
    BY <2>2, <2>6, <2>7 DEF c, r, Pending
  <2>11. ASSUME NEW u \in Worker, u # w, pc'[u] = "setCache"
         PROVE  /\ db'[job'[u].cluster] = job'[u].row
                /\ Present(job'[u].row)
                /\ cache'[job'[u].cluster].version < job'[u].row.version
                /\ \A v \in Worker : v # u /\ job'[v].cluster = job'[u].cluster =>
                     /\ pc'[v] # "setCache"
                     /\ Pending(v)' => job'[v].row.version <= job'[u].row.version
    <3>1. At(u, "setCache") /\ job'[u] = job[u] /\ job[u].cluster # c /\ job[u].cluster \in Cluster
      BY <1>b, <2>2, <2>6, <2>11
    <3>2. job'[w].cluster = c
      BY <2>2 DEF c
    <3> QED
      BY <2>2, <2>3, <3>1, <3>2 DEF RefreshDue, Pending
  <2> QED
    BY <2>9, <2>10, <2>11 DEF RefreshDue
<1>6. ASSUME NEW w \in Worker, Cached(w)
      PROVE  RefreshDue'
  <2> DEFINE c == job[w].cluster
  <2>1. /\ c \in Cluster /\ cache \in [Cluster -> Row]
        /\ cache' = [cache EXCEPT ![c] = job[w].row] /\ db' = db
        /\ pc'[w] = "markCluster" /\ At(w, "setCache")
        /\ \A v \in Worker : v # w => pc'[v] = pc[v] /\ job'[v] = job[v]
    BY <1>6, <1>b DEF Cached, Others, CoreType
  <2>2. \A u \in Worker : pc'[u] = "setCache" => u # w /\ pc[u] = "setCache" /\ job[u].cluster # c
    BY <2>1 DEF RefreshDue
  <2>3. \A v \in Worker : Pending(v)' \/ pc'[v] = "setCache" => v # w
    BY <2>1 DEF Pending
  <2> HIDE DEF Core, c
  <2> QED
    BY <1>b, <2>1, <2>2, <2>3 DEF RefreshDue, Pending
<1> QED
    BY <1>1, <1>2, <1>3, <1>4, <1>5, <1>6 DEF WorkerStep
\* Stored rows only grow: what stands at a place stays there.
LEMMA DbGrows ==
    ASSUME Core, EnvStep \/ \E w \in Worker : WorkerStep(w),
           NEW c \in Cluster, NEW n \in DOMAIN db[c].members
    PROVE  n \in DOMAIN db'[c].members /\ db'[c].members[n] = db[c].members[n]
<1>1. CASE db' = db
    BY <1>1
<1>2. ASSUME NEW w \in Worker, Committed(w)
      PROVE  n \in DOMAIN db'[c].members /\ db'[c].members[n] = db[c].members[n]
  <2> DEFINE d == job[w].cluster
             r == job[w].row
  <2>1. /\ d \in Cluster /\ r.members = Append(db[d].members, job[w].article)
        /\ db' = [db EXCEPT ![d] = r] /\ db \in [Cluster -> Row]
    BY <1>2, CommitAppends DEF Core, CoreType
  <2>2. CASE c # d
    BY <2>1, <2>2
  <2>3. CASE c = d
    <3>1. db'[c].members = Append(db[c].members, job[w].article)
      BY <2>1, <2>3
    <3>2. db[c].members \in Seq(Article)
      BY <2>1 DEF Row
    <3> QED
      BY <3>1, <3>2
  <2> QED
    BY <2>2, <2>3
<1> QED
    BY <1>1, <1>2
    DEF EnvStep, WorkerStep, Ended, Started, Matched, Founded, Joined, Moved, Cached, Published

\* The cached copy of a cluster, once at some version, is never replaced by an
\* older one: it goes, or it gets newer.
LEMMA CacheGrows ==
    ASSUME Core, RefreshDue, EnvStep \/ \E w \in Worker : WorkerStep(w),
           NEW c \in Cluster, Present(cache'[c])
    PROVE  \/ cache'[c] = cache[c]
           \/ cache'[c] = db[c] /\ db' = db /\ c \in Cluster
<1>1. CASE EnvStep
    BY <1>1 DEF EnvStep, NoRow, Present
<1>2. CASE cache' = cache
    BY <1>2
<1>3. ASSUME NEW w \in Worker, Cached(w)
      PROVE  cache'[c] = cache[c] \/ (cache'[c] = db[c] /\ db' = db)
    BY <1>3 DEF Cached, RefreshDue, Core, CoreType
<1> QED
    BY <1>1, <1>2, <1>3
    DEF WorkerStep, Ended, Started, Matched, Founded, Joined, Moved, Committed, Published

\* A place that was committed is not taken away before it is announced.
LEMMA NextPlaceTaken ==
    ASSUME Core, RefreshDue, PlaceTaken, EnvStep \/ \E w \in Worker : WorkerStep(w)
    PROVE  PlaceTaken'
<1>a. ASSUME NEW u \in Worker, At(u, "setCache") \/ Refreshed(u), SameJob(u)
      PROVE  /\ job[u].cluster \in Cluster
             /\ job[u].row.version \in DOMAIN db'[job[u].cluster].members
             /\ db'[job[u].cluster].members[job[u].row.version] = job[u].article
  <2>1. job[u].cluster \in Cluster
    BY <1>a DEF Core, JobShape, Busy, Refreshed
  <2> QED
    BY <1>a, <2>1, DbGrows DEF PlaceTaken
<1>b. ASSUME NEW u \in Worker, Refreshed(u), Present(cache'[job[u].cluster])
      PROVE  cache'[job[u].cluster].version >= job[u].row.version
  <2> DEFINE c == job[u].cluster
             n == job[u].row.version
  <2>1. c \in Cluster /\ n \in DOMAIN db[c].members
    BY <1>b DEF Core, JobShape, Busy, Refreshed, PlaceTaken
  <2>2. db[c].version = Len(db[c].members) /\ db[c].members \in Seq(Article)
    BY <2>1 DEF Core, DbShape, CoreType, Row
  <2>3. db[c].version >= n
    BY <2>1, <2>2
  <2>4. cache'[c] = cache[c] \/ cache'[c] = db[c]
    BY <1>b, <2>1, CacheGrows
  <2> QED
    BY <1>b, <2>3, <2>4 DEF PlaceTaken
<1>1. ASSUME NEW w \in Worker, Committed(w)
      PROVE  PlaceTaken'
  <2> DEFINE c == job[w].cluster
             r == job[w].row
  <2>1. /\ c \in Cluster /\ db[c] \in Row
        /\ r.version = db[c].version + 1 /\ db[c].version = Len(db[c].members)
        /\ r.members = Append(db[c].members, job[w].article)
        /\ db'[c] = r
    BY <1>1, CommitAppends DEF Core, CoreType, DbShape
  <2>2. r.version \in DOMAIN r.members /\ r.members[r.version] = job[w].article
    <3>1. db[c].members \in Seq(Article)
      BY <2>1 DEF Row
    <3> HIDE DEF c, r
    <3> QED
      BY <2>1, <3>1
  <2>3. /\ pc'[w] = "setCache" /\ job'[w] = job[w]
        /\ \A v \in Worker : v # w => pc'[v] = pc[v] /\ job'[v] = job[v]
    BY <1>1 DEF Committed, Others, SameJob
  <2>4. ASSUME NEW u \in Worker, At(u, "setCache")' \/ Refreshed(u)', u # w
        PROVE  /\ job'[u].row.version \in DOMAIN db'[job'[u].cluster].members
               /\ db'[job'[u].cluster].members[job'[u].row.version] = job'[u].article
               /\ Refreshed(u)' /\ Present(cache'[job'[u].cluster]) =>
                        cache'[job'[u].cluster].version >= job'[u].row.version
    <3>1. job'[u] = job[u] /\ (At(u, "setCache") \/ Refreshed(u)) /\ (Refreshed(u)' => Refreshed(u))
      BY <2>3, <2>4 DEF Refreshed
    <3> QED
      BY <1>a, <1>b, <3>1 DEF SameJob
  <2>5. ~ Refreshed(w)'
    BY <2>3 DEF Refreshed
  <2>6. /\ job'[w].row.version \in DOMAIN db'[job'[w].cluster].members
        /\ db'[job'[w].cluster].members[job'[w].row.version] = job'[w].article
    BY <2>1, <2>2, <2>3
  <2> QED
    BY <2>4, <2>5, <2>6 DEF PlaceTaken
<1>2. ASSUME NEW w \in Worker, Cached(w)
      PROVE  PlaceTaken'
  <2>1. /\ pc[w] = "setCache" /\ pc'[w] = "markCluster" /\ job'[w] = job[w]
        /\ \A v \in Worker : v # w => pc'[v] = pc[v] /\ job'[v] = job[v]
    BY <1>2 DEF Cached, Others, SameJob
  <2>2. cache'[job[w].cluster] = job[w].row
    BY <1>2 DEF Cached, Core, CoreType, JobShape, Busy
  <2>3. job[w].row.version >= job[w].row.version
    BY DEF Core, CoreType, Job, Row
  <2> QED
    BY <1>a, <1>b, <2>1, <2>2, <2>3 DEF PlaceTaken, Refreshed, SameJob
<1>3. CASE \A u \in Worker :
                At(u, "setCache")' \/ Refreshed(u)' =>
                    /\ SameJob(u)
                    /\ At(u, "setCache") \/ Refreshed(u)
                    /\ Refreshed(u)' => Refreshed(u)
    BY <1>a, <1>b, <1>3 DEF PlaceTaken, SameJob
<1>4. ASSUME NEW w \in Worker,
             \/ Ended(w) \/ Founded(w) \/ Joined(w) \/ Moved(w) \/ Published(w)
             \/ \E a \in Article : Started(w, a)
             \/ \E c \in Cluster : Matched(w, c)
      PROVE  PlaceTaken'
    BY <1>3, <1>4
    DEF Ended, Founded, Joined, Moved, Published, Started, Matched, Others, SameJob, Refreshed
<1>5. CASE EnvStep
    BY <1>3, <1>5 DEF EnvStep, SameJob, Refreshed
<1> QED
    BY <1>1, <1>2, <1>4, <1>5 DEF WorkerStep

\* Announcements stay true of the database and no newer than the cache.
LEMMA NextEvents ==
    ASSUME Core, RefreshDue, PlaceTaken, EventsMatchDb, EventsNotAheadOfCache,
           EnvStep \/ \E w \in Worker : WorkerStep(w)
    PROVE  EventsMatchDb' /\ EventsNotAheadOfCache'
<1>a. ASSUME NEW e \in events
      PROVE  /\ e.version \in DOMAIN db'[e.cluster].members
             /\ db'[e.cluster].members[e.version] = e.article
             /\ Present(cache'[e.cluster]) => cache'[e.cluster].version >= e.version
  <2>1. e.cluster \in Cluster
    BY DEF Core, CoreType, Event
  <2>2. /\ e.version \in DOMAIN db[e.cluster].members
        /\ db[e.cluster].members[e.version] = e.article
    BY DEF EventsMatchDb
  <2>3. db[e.cluster].version >= e.version
    <3>1. /\ db[e.cluster].version = Len(db[e.cluster].members)
          /\ db[e.cluster].members \in Seq(Article)
      BY <2>1 DEF Core, DbShape, CoreType, Row
    <3> QED
      BY <2>2, <3>1
  <2>4. /\ e.version \in DOMAIN db'[e.cluster].members
        /\ db'[e.cluster].members[e.version] = e.article
    BY <2>1, <2>2, DbGrows
  <2>5. Present(cache'[e.cluster]) =>
            cache'[e.cluster] = cache[e.cluster] \/ cache'[e.cluster] = db[e.cluster]
    BY <2>1, CacheGrows
  <2> QED
    BY <2>3, <2>4, <2>5 DEF EventsNotAheadOfCache
<1>1. CASE events' = events
    BY <1>a, <1>1 DEF EventsMatchDb, EventsNotAheadOfCache
<1>2. ASSUME NEW w \in Worker, Published(w)
      PROVE  EventsMatchDb' /\ EventsNotAheadOfCache'
  <2> DEFINE new == [cluster |-> job[w].cluster, version |-> job[w].row.version,
                     article |-> job[w].article]
  <2>1. /\ events' = events \cup {new}
        /\ db' = db /\ cache' = cache /\ Refreshed(w)
    BY <1>2 DEF Published, Refreshed
  <2>2. /\ new.version \in DOMAIN db[new.cluster].members
        /\ db[new.cluster].members[new.version] = new.article
        /\ Present(cache[new.cluster]) => cache[new.cluster].version >= new.version
    BY <2>1 DEF PlaceTaken
  <2> HIDE DEF new
  <2> QED
    BY <1>a, <2>1, <2>2 DEF EventsMatchDb, EventsNotAheadOfCache
<1> QED
    BY <1>1, <1>2
    DEF EnvStep, WorkerStep, Ended, Started, Matched, Founded, Joined, Moved, Committed, Cached

-----------------------------------------------------------------------------
(* The invariant, and what follows from it. *)

\* Init establishes the inductive invariant.
LEMMA InitInvariant == Init => IInv
<1> SUFFICES ASSUME Init PROVE IInv
    OBVIOUS
<1>1. TypeOK
    BY InitType
<1>2. BudgetLeft
    BY BoundsAssumption DEF Init, Bus!Init, BudgetLeft
<1>3. \A c \in Cluster : db[c] = NoRow /\ cache[c] = NoRow
    BY DEF Init
<1>4. \A w \in Worker : pc[w] = "idle"
    BY DEF Init
<1>5. DbShape /\ CacheTracksDb
    BY <1>3 DEF DbShape, CacheTracksDb, NoRow, Present, Init
<1>6. JobShape /\ UniqueAttempts /\ JoinBase /\ UniqueStamps /\ RefreshDue /\ PlaceTaken
    BY <1>4
    DEF JobShape, UniqueAttempts, JoinBase, UniqueStamps, RefreshDue, PlaceTaken,
        Busy, Pending, Refreshed
<1>7. FreshNames
    BY <1>3, <1>4 DEF FreshNames, Undecided, Pending, Present, NoRow
<1>8. EventsMatchDb /\ EventsNotAheadOfCache
    BY DEF Init, EventsMatchDb, EventsNotAheadOfCache
<1> QED
    BY <1>1, <1>2, <1>5, <1>6, <1>7, <1>8 DEF IInv

\* The lemmas about the transaction apply wherever the invariant holds.
LEMMA IInvCore == ~ ClockTies /\ IInv => Core
BY CoreTypes DEF IInv, Core

\* The invariant is inductive.
LEMMA NextInvariant ==
    ASSUME ~ ClockTies, IInv, [Next]_vars
    PROVE  IInv'
<1>1. CASE UNCHANGED vars
    BY <1>1
    DEF vars, busVars, dbVars, cacheVars, IInv, TypeOK, Bus!TypeOK, BudgetLeft, JobShape,
        UniqueAttempts, FreshNames, DbShape, CacheTracksDb, JoinBase, UniqueStamps, RefreshDue,
        PlaceTaken, EventsMatchDb, EventsNotAheadOfCache, Busy, Undecided, Pending, Refreshed, Own
<1>2. CASE Next
  <2>1. Core
    BY IInvCore
  <2>2. TypeOK' /\ BudgetLeft'
    BY <1>2, NextType DEF IInv
  <2>3. CoreType'
    BY <2>2, CoreTypes, BoundsAssumption DEF TypeOK, Bus!TypeOK, CoreType
  <2>4. EnvStep \/ \E w \in Worker : WorkerStep(w)
    BY <1>2, StepKinds DEF IInv
  <2>5. JobShape' /\ UniqueAttempts'
    BY <2>1, <2>4, NextJobShape, NextUniqueAttempts DEF Core
  <2>6. FreshNames'
    BY <2>1, <2>3, <2>4, NextFreshNames DEF Core
  <2>7. DbShape' /\ UniqueStamps'
    BY <2>1, <2>4, NextDbShape, NextUniqueStamps
  <2>8. CacheTracksDb' /\ JoinBase' /\ RefreshDue'
    BY <2>1, <2>4, NextCacheTracksDb, NextJoinBase, NextRefreshDue DEF IInv
  <2>9. PlaceTaken' /\ EventsMatchDb' /\ EventsNotAheadOfCache'
    BY <2>1, <2>4, NextPlaceTaken, NextEvents DEF IInv
  <2> QED
    BY <2>2, <2>5, <2>6, <2>7, <2>8, <2>9 DEF IInv
<1> QED
    BY <1>1, <1>2

\* The inductive invariant holds in every reachable state.
THEOREM Invariance == ~ ClockTies => (Spec => []IInv)
<1> SUFFICES ASSUME ~ ClockTies PROVE Spec => []IInv
    OBVIOUS
<1>1. Init => IInv
    BY InitInvariant
<1>2. IInv /\ [Next]_vars => IInv'
    BY NextInvariant
<1> QED
    BY <1>1, <1>2, PTL DEF Spec

\* The part of the invariant that needs nothing of the clock.
TypeInv == TypeOK /\ BudgetLeft /\ JobShape

\* Types, delivery budgets and the shape of the locals hold whatever the clock
\* does.
LEMMA TypeInvariance == Spec => []TypeInv
<1>1. Init => TypeInv
    BY InitInvariant DEF IInv, TypeInv
<1>2. TypeInv /\ [Next]_vars => TypeInv'
  <2>1. ASSUME TypeInv, Next PROVE TypeInv'
    <3>1. EnvStep \/ \E w \in Worker : WorkerStep(w)
      BY <2>1, StepKinds DEF TypeInv
    <3> QED
      BY <2>1, <3>1, NextType, NextJobShape, CoreTypes DEF TypeInv
  <2>2. ASSUME TypeInv, UNCHANGED vars PROVE TypeInv'
    BY <2>2
    DEF vars, TypeInv, TypeOK, Bus!TypeOK, BudgetLeft, JobShape, Busy, Pending, Own
  <2> QED
    BY <2>1, <2>2
<1> QED
    BY <1>1, <1>2, PTL DEF Spec

\* Every variable has its type in every reachable state.
THEOREM TypeCorrectness == Spec => []TypeOK
<1>1. TypeInv => TypeOK
    BY DEF TypeInv
<1> QED
    BY <1>1, TypeInvariance, PTL

\* However the replicas interleave, fail and are restarted, and whatever Redis
\* forgets: the cached copy of a cluster is the stored row or the one before it.
THEOREM CacheCoherence == ~ ClockTies => (Spec => []CacheTracksDb)
<1> SUFFICES ASSUME ~ ClockTies PROVE Spec => []CacheTracksDb
    OBVIOUS
<1>1. IInv => CacheTracksDb
    BY DEF IInv
<1> QED
    BY <1>1, Invariance, PTL

\* What ARTICLE_CLUSTERED announces of an article stays true of the database.
THEOREM EventsAreTrue == ~ ClockTies => (Spec => []EventsMatchDb)
<1> SUFFICES ASSUME ~ ClockTies PROVE Spec => []EventsMatchDb
    OBVIOUS
<1>1. IInv => EventsMatchDb
    BY DEF IInv
<1> QED
    BY <1>1, Invariance, PTL

\* A client that reads the cached cluster after an event about it finds the
\* announced version, a newer one or nothing.
THEOREM CacheFollowsEvents == ~ ClockTies => (Spec => []EventsNotAheadOfCache)
<1> SUFFICES ASSUME ~ ClockTies PROVE Spec => []EventsNotAheadOfCache
    OBVIOUS
<1>1. IInv => EventsNotAheadOfCache
    BY DEF IInv
<1> QED
    BY <1>1, Invariance, PTL

-----------------------------------------------------------------------------
(* Acknowledgements. *)

Announced(a) == \E e \in events : e.article = a

\* Stored articles keep their rows, and a handler of one that is about to
\* acknowledge has announced it.
AckInv ==
    /\ \A a \in Stored : Present(articleRow[a])
    /\ \A w \in Worker : At(w, "ack") /\ job[w].article \in Stored => Announced(job[w].article)
    /\ AckedWasAnnounced

\* Acknowledging only what was announced is preserved by every step.
LEMMA NextAckInv ==
    ASSUME TypeOK, JobShape, AckInv, Next
    PROVE  AckInv'
<1> USE ArticleAssumption
    DEF TypeOK, AckInv, AckedWasAnnounced, Announced, dbVars, cacheVars, busVars, vars
<1>1. ASSUME NEW w \in Worker, Ack(w)
      PROVE  AckInv'
    BY <1>1 DEF Ack, Bus!Ack, Bus!TypeOK
<1>2. ASSUME NEW w \in Worker, Reject(w) \/ SaveRefused(w) \/ Fail(w) \/ Crash(w)
      PROVE  AckInv'
  <2>1. \A a \in Article : mstate'[a] = "acked" => mstate[a] = "acked"
    BY <1>2 DEF Reject, SaveRefused, Fail, Crash, Bus!Term, Bus!Nak, Bus!Requeued, Bus!TypeOK
  <2> QED
    BY <1>2, <2>1 DEF Reject, SaveRefused, Fail, Crash
<1>3. ASSUME NEW w \in Worker, NEW a \in Article, Deliver(w, a)
      PROVE  AckInv'
    BY <1>3 DEF Deliver, Bus!Deliver, Bus!TypeOK
<1>4. ASSUME NEW w \in Worker,
             \/ Match(w) \/ NoMatch(w) \/ GetMiss(w) \/ GetHit(w) \/ FindArticle(w)
             \/ SetCache(w) \/ MarkCluster(w) \/ MarkArticle(w)
      PROVE  AckInv'
  <2> USE DEF Match, NoMatch, GetMiss, GetHit, Found, FindArticle, SetCache, MarkCluster, MarkArticle
  <2>1. UNCHANGED <<events, articleRow, mstate>> /\ pc'[w] # "ack"
    BY <1>4
  <2>2. Others(w)
    BY <1>4 DEF Others
  <2> QED
    BY <2>1, <2>2 DEF Others
<1>5. ASSUME NEW w \in Worker, ArticleMissing(w)
      PROVE  AckInv'
    BY <1>5 DEF ArticleMissing
<1>6. ASSUME NEW w \in Worker, Save(w)
      PROVE  AckInv'
  <2>1. \A a \in Article : articleRow'[a].version = articleRow[a].version
    BY <1>6 DEF Save, Upsert, ArticleRow
  <2> QED
    BY <1>6, <2>1 DEF Save, Present
<1>7. ASSUME NEW w \in Worker, Publish(w)
      PROVE  AckInv'
    BY <1>7 DEF Publish
<1>8. ASSUME NEW a \in Article, Arrive(a) \/ AckWait(a) \/ SlowHandler(a)
      PROVE  AckInv'
    BY <1>8
    DEF Arrive, AckWait, SlowHandler, Bus!Publish, Bus!AckWait, Bus!Requeued, Bus!TypeOK
<1>9. ASSUME (\E c \in Cluster : Expire(c)) \/ RedisRestart \/ Done
      PROVE  AckInv'
    BY <1>9 DEF Expire, RedisRestart, Done
<1> QED
    BY <1>1, <1>2, <1>3, <1>4, <1>5, <1>6, <1>7, <1>8, <1>9 DEF Next, Handle

\* No message of a stored article is acknowledged before the article's place in
\* a cluster is announced.
THEOREM AcksAreEarned == Spec => []AckedWasAnnounced
<1>1. Init => AckInv
    BY ArticleAssumption
    DEF Init, Bus!Init, AckInv, AckedWasAnnounced, Present
<1>2. TypeInv /\ AckInv /\ [Next]_vars => AckInv'
  <2>1. ASSUME TypeInv, AckInv, Next PROVE AckInv'
    BY <2>1, NextAckInv DEF TypeInv
  <2>2. ASSUME AckInv, UNCHANGED vars PROVE AckInv'
    BY <2>2 DEF vars, AckInv, AckedWasAnnounced, Announced
  <2> QED
    BY <2>1, <2>2
<1>3. AckInv => AckedWasAnnounced
    BY DEF AckInv
<1> QED
    BY <1>1, <1>2, <1>3, TypeInvariance, PTL DEF Spec

-----------------------------------------------------------------------------
(* Refinement. *)

\* Every step of the engine is a step of the ledger or leaves it alone.
LEMMA LedgerStep ==
    ASSUME ~ ClockTies, IInv, [Next]_vars
    PROVE  [Ledger!Next]_(Ledger!ledgerVars)
<1> USE DEF Ledger!ledgerVars
<1>1. CASE UNCHANGED vars
    BY <1>1 DEF vars
<1>2. CASE Next
  <2>1. Core
    BY IInvCore
  <2>2. EnvStep \/ \E w \in Worker : WorkerStep(w)
    BY <1>2, StepKinds DEF IInv
  <2>3. CASE UNCHANGED <<db, events>>
    BY <2>3
  <2>4. ASSUME NEW w \in Worker, Committed(w)
        PROVE  Ledger!Next
    <3> DEFINE c == job[w].cluster
    <3>1. /\ c \in Cluster /\ db \in [Cluster -> Row]
          /\ job[w].row.members = Append(db[c].members, job[w].article)
          /\ db' = [db EXCEPT ![c] = job[w].row]
      BY <2>1, <2>4, CommitAppends DEF Core, CoreType
    <3>2. job[w].article \in Article /\ events' = events
      BY <2>1, <2>4 DEF Committed, Core, JobShape, Busy
    <3>3. [s \in Cluster |-> db'[s].members] =
            [[s \in Cluster |-> db[s].members] EXCEPT ![c] = Append(@, job[w].article)]
      BY <3>1
    <3> QED
      BY <3>1, <3>2, <3>3 DEF Ledger!Next, Ledger!Grow
  <2>5. ASSUME NEW w \in Worker, Published(w)
        PROVE  Ledger!Next
    <3> DEFINE c == job[w].cluster
               n == job[w].row.version
    <3>1. c \in Cluster
      BY <2>1, <2>5 DEF Published, Core, JobShape, Busy
    <3>2. n \in DOMAIN db[c].members /\ db[c].members[n] = job[w].article
      BY <2>5 DEF Published, IInv, PlaceTaken, Refreshed
    <3>3. /\ events' = events \cup {[cluster |-> c, version |-> n, article |-> db[c].members[n]]}
          /\ db' = db
      BY <2>5, <3>2 DEF Published
    <3> HIDE DEF c, n
    <3> QED
      BY <3>1, <3>2, <3>3 DEF Ledger!Next, Ledger!Announce
  <2> QED
    BY <2>2, <2>3, <2>4, <2>5
    DEF EnvStep, WorkerStep, Ended, Started, Matched, Founded, Joined, Moved, Cached
<1> QED
    BY <1>1, <1>2

\* The engine implements the ledger: no update of a cluster is ever lost, and no
\* announcement is ever false.
THEOREM Refinement == ~ ClockTies => (Spec => ImplementsLedger)
<1> SUFFICES ASSUME ~ ClockTies PROVE Spec => ImplementsLedger
    OBVIOUS
<1>1. Init => Ledger!Init
    BY DEF Init, Ledger!Init, NoRow
<1>2. IInv /\ [Next]_vars => [Ledger!Next]_(Ledger!ledgerVars)
    BY LedgerStep
<1> QED
    BY <1>1, <1>2, Invariance, PTL DEF Spec, ImplementsLedger, Ledger!Spec

-----------------------------------------------------------------------------
(* What holds when nothing goes wrong. *)

\* The handler has not committed yet.
Early(w) == pc[w] \in {"lookup", "get", "article", "save"}

\* The article is in no cluster.
NoPlace(a) == \A c \in Cluster : \A n \in DOMAIN db[c].members : db[c].members[n] # a

\* The next await of a handler that is under way.
Continued(w) ==
    \/ \E c \in Cluster : Matched(w, c)
    \/ Founded(w) \/ Joined(w) \/ Moved(w) \/ Committed(w) \/ Cached(w) \/ Published(w)

\* The answer of a handler is final, unless a conflict kept it from committing.
Answered(w, to) ==
    /\ Ended(w) /\ pc[w] # "setCache"
    /\ mstate' = [mstate EXCEPT ![job[w].article] = to]
    /\ \/ to \in {"acked", "termed"}
       \/ to \in {"queued", "dropped"} /\ pc[w] = "save" /\ Conflict(w)

\* A message is held by one replica, and only while it is in flight; only a message
\* that was committed has a place, and it has one.
OnceInv ==
    /\ \A w \in Worker : Busy(w) => /\ mstate[job[w].article] = "inflight"
                                    /\ job[w].attempt = delivered[job[w].article]
    /\ \A v, w \in Worker : Busy(v) /\ Busy(w) /\ job[v].article = job[w].article => v = w
    /\ \A a \in Article : mstate[a] = "inflight" => \E w \in Worker : Busy(w) /\ job[w].article = a
    /\ \A a \in Article : mstate[a] \in {"unsent", "queued"} => NoPlace(a)
    /\ \A w \in Worker : Early(w) => NoPlace(job[w].article)
    /\ \A c, d \in Cluster : \A i \in DOMAIN db[c].members : \A j \in DOMAIN db[d].members :
            db[c].members[i] = db[d].members[j] => c = d /\ i = j

\* A step without a fault, with what it does to the bus: ack_wait never runs out,
\* since whatever is in flight is held.
LEMMA QuietKinds ==
    ASSUME TypeOK, JobShape, OnceInv, Next, faults' = faults
    PROVE  \/ EnvStep /\ \/ mstate' = mstate
                         \/ \E a \in Article : /\ mstate[a] = "unsent"
                                               /\ mstate' = [mstate EXCEPT ![a] = "queued"]
           \/ \E w \in Worker, a \in Article : /\ Started(w, a) /\ mstate[a] = "queued"
                                               /\ mstate' = [mstate EXCEPT ![a] = "inflight"]
           \/ \E w \in Worker : \E to \in Bus!MsgState : Answered(w, to)
           \/ \E w \in Worker : Continued(w) /\ mstate' = mstate
<1>. USE DEF Early
<1>1. faults \in Nat
    BY BoundsAssumption DEF TypeOK
<1>2. ASSUME NEW w \in Worker, Reject(w) \/ SaveRefused(w) \/ Ack(w)
      PROVE  \E to \in Bus!MsgState : Answered(w, to)
  <2>1. Ended(w)
    BY <1>2
    DEF Reject, SaveRefused, Ack, Ended, Busy, Others, TypeOK, dbVars, cacheVars, Bus!Term, Bus!Nak,
        Bus!Ack
  <2>2. job[w].article \in Article /\ mstate[job[w].article] = "inflight"
    BY <2>1 DEF Ended, JobShape, OnceInv
  <2>3. CASE Reject(w)
    <3>1. mstate' = [mstate EXCEPT ![job[w].article] = "termed"] /\ pc[w] = "lookup"
      BY <2>2, <2>3 DEF Reject, Bus!Term
    <3>. QED
      BY <2>1, <3>1 DEF Answered
  <2>4. CASE SaveRefused(w)
    <3>1. PICK to \in {"queued", "dropped"} : mstate' = [mstate EXCEPT ![job[w].article] = to]
      BY <2>2, <2>4 DEF SaveRefused, Bus!Nak, Bus!Requeued
    <3>2. pc[w] = "save" /\ Conflict(w)
      BY <2>4 DEF SaveRefused
    <3>. QED
      BY <2>1, <3>1, <3>2 DEF Answered
  <2>5. CASE Ack(w)
    <3>1. mstate' = [mstate EXCEPT ![job[w].article] = "acked"] /\ pc[w] = "ack"
      BY <2>2, <2>5 DEF Ack, Bus!Ack
    <3>. QED
      BY <2>1, <3>1 DEF Answered
  <2>. QED
    BY <1>2, <2>3, <2>4, <2>5
<1>3. ASSUME NEW w \in Worker, NEW a \in Article, Deliver(w, a)
      PROVE  /\ Started(w, a) /\ mstate[a] = "queued"
             /\ mstate' = [mstate EXCEPT ![a] = "inflight"]
    BY <1>3
    DEF Deliver, Started, Busy, Others, TypeOK, dbVars, cacheVars, Bus!Deliver, Bus!TypeOK, NoJob, Job
<1>4. ASSUME NEW w \in Worker,
             \/ Match(w) \/ NoMatch(w) \/ GetMiss(w) \/ GetHit(w) \/ FindArticle(w)
             \/ ArticleMissing(w) \/ Save(w) \/ SetCache(w) \/ MarkCluster(w) \/ MarkArticle(w)
             \/ Publish(w)
      PROVE  Continued(w) /\ mstate' = mstate
  <2>1. mstate' = mstate /\ Busy(w) /\ pc'[w] # "idle"
    BY <1>4
    DEF Match, NoMatch, GetMiss, GetHit, Found, FindArticle, ArticleMissing, Save, SetCache,
        MarkCluster, MarkArticle, Publish, busVars, Busy, TypeOK
  <2>2. Others(w)
    BY <1>4
    DEF Match, NoMatch, GetMiss, GetHit, Found, FindArticle, ArticleMissing, Save, SetCache,
        MarkCluster, MarkArticle, Publish, Others, TypeOK
  <2>3. EnvStep \/ \E v \in Worker : WorkerStep(v)
    BY StepKinds
  <2>4. pc'[w] # pc[w]
    BY <1>4
    DEF Match, NoMatch, GetMiss, GetHit, Found, FindArticle, ArticleMissing, Save, SetCache,
        MarkCluster, MarkArticle, Publish, TypeOK
  <2>5. ASSUME NEW v \in Worker, WorkerStep(v)
        PROVE  pc'[v] # pc[v]
    BY <2>5
    DEF WorkerStep, Ended, Started, Matched, Founded, Joined, Moved, Committed, Cached, Published,
        Busy, Undecided
  <2>6. WorkerStep(w)
    BY <2>2, <2>3, <2>4, <2>5 DEF Others, EnvStep
  <2>. QED
    BY <2>1, <2>6 DEF WorkerStep, Continued, Ended, Started
<1>5. ASSUME NEW a \in Article, Arrive(a)
      PROVE  EnvStep /\ mstate[a] = "unsent" /\ mstate' = [mstate EXCEPT ![a] = "queued"]
    BY <1>5 DEF Arrive, EnvStep, Bus!Publish, dbVars, cacheVars
<1>6. ASSUME NEW a \in Article, AckWait(a)
      PROVE  FALSE
  <2>1. mstate[a] = "inflight" /\ ~ Held(a)
    BY <1>6 DEF AckWait, Bus!AckWait
  <2>. QED
    BY <2>1 DEF OnceInv, Held, Busy
<1>7. ASSUME (\E c \in Cluster : Expire(c)) \/ RedisRestart \/ Done
      PROVE  EnvStep /\ mstate' = mstate
    BY <1>7 DEF Expire, RedisRestart, Done, EnvStep, vars, busVars, dbVars, TypeOK
<1>8. ASSUME \/ \E w \in Worker : Fail(w) \/ Crash(w)
             \/ \E a \in Article : SlowHandler(a)
      PROVE  FALSE
    BY <1>1, <1>8 DEF Fail, Crash, SlowHandler, Fault
<1>. QED
    BY <1>2, <1>3, <1>4, <1>5, <1>6, <1>7, <1>8 DEF Next, Handle

\* A step never takes a fault back.
LEMMA FaultsCount ==
    ASSUME TypeOK, Next, faults' = 0
    PROVE  faults = 0 /\ faults' = faults
<1>1. faults \in Nat
    BY BoundsAssumption DEF TypeOK
<1>2. faults' = faults \/ faults' = faults + 1
    BY
    DEF Next, Handle, Reject, Match, NoMatch, GetMiss, GetHit, Found, FindArticle, ArticleMissing,
        Save, SaveRefused, SetCache, MarkCluster, MarkArticle, Publish, Ack, Fail, Crash, Deliver,
        Arrive, AckWait, SlowHandler, Expire, RedisRestart, Done, Fault, vars
<1>. QED
    BY <1>1, <1>2

\* Without a fault no article gets a second place.
LEMMA OnceStep ==
    ASSUME IInv, ~ ClockTies, OnceInv, Next, faults' = faults
    PROVE  OnceInv'
<1>0. Core /\ TypeOK /\ JobShape
    BY IInvCore DEF IInv
<1>. USE DEF Busy, Early, Others
<1>1. mstate \in [Article -> Bus!MsgState]
    BY <1>0 DEF TypeOK, Bus!TypeOK
<1>2. \A w \in Worker : Busy(w) => job[w].article \in Article
    BY <1>0 DEF JobShape
<1>3. CASE EnvStep /\ \/ mstate' = mstate
                      \/ \E a \in Article : /\ mstate[a] = "unsent"
                                            /\ mstate' = [mstate EXCEPT ![a] = "queued"]
    BY <1>1, <1>2, <1>3 DEF EnvStep, OnceInv, NoPlace
<1>4. ASSUME NEW w \in Worker, NEW a \in Article, Started(w, a), mstate[a] = "queued",
             mstate' = [mstate EXCEPT ![a] = "inflight"]
      PROVE  OnceInv'
  <2>1. db' = db /\ \A v \in Worker : Busy(v) => v # w /\ job[v].article # a
    BY <1>4 DEF OnceInv, Started
  <2>2. /\ job'[w].article = a /\ pc'[w] = "lookup"
        /\ delivered'[a] = delivered[a] + 1 /\ job'[w].attempt = delivered'[a]
        /\ \A b \in Article : b # a => delivered'[b] = delivered[b] /\ mstate'[b] = mstate[b]
        /\ mstate'[a] = "inflight"
    BY <1>0, <1>1, <1>4 DEF Started, TypeOK, Bus!TypeOK
  <2>3. \A v \in Worker : v # w => pc'[v] = pc[v] /\ job'[v] = job[v]
    BY <1>4 DEF Started
  <2>4. \A b \in Article : NoPlace(b) => NoPlace(b)'
    BY <2>1 DEF NoPlace
  <2>5. NoPlace(a)
    BY <1>4 DEF OnceInv
  <2>. QED
    BY <1>2, <2>1, <2>2, <2>3, <2>4, <2>5 DEF OnceInv, NoPlace
<1>5. ASSUME NEW w \in Worker, NEW to, Answered(w, to)
      PROVE  OnceInv'
  <2>1. /\ pc[w] # "idle" /\ pc'[w] = "idle" /\ db' = db /\ delivered' = delivered
        /\ \A v \in Worker : v # w => pc'[v] = pc[v] /\ job'[v] = job[v]
        /\ mstate' = [mstate EXCEPT ![job[w].article] = to]
        /\ to # "inflight" /\ to # "unsent" /\ (to = "queued" => Early(w))
    BY <1>5 DEF Answered, Ended
  <2>2. \A v \in Worker : v # w /\ Busy(v) => job[v].article # job[w].article
    BY <2>1 DEF OnceInv
  <2>3. \A b : NoPlace(b) => NoPlace(b)'
    BY <2>1 DEF NoPlace
  <2>4. to = "queued" => NoPlace(job[w].article)
    BY <2>1 DEF OnceInv
  <2>. QED
    BY <1>1, <1>2, <2>1, <2>2, <2>3, <2>4 DEF OnceInv, NoPlace
<1>6. ASSUME NEW w \in Worker, Continued(w), mstate' = mstate
      PROVE  OnceInv'
  <2>1. /\ pc[w] # "idle" /\ pc'[w] # "idle" /\ delivered' = delivered
        /\ job'[w].article = job[w].article /\ job'[w].attempt = job[w].attempt
        /\ \A v \in Worker : v # w => pc'[v] = pc[v] /\ job'[v] = job[v]
    BY <1>6
    DEF Continued, Matched, Founded, Joined, Moved, Committed, Cached, Published, SameJob, Undecided
  <2>2. CASE db' = db /\ (Early(w)' => Early(w))
    <3>1. \A b : NoPlace(b) => NoPlace(b)'
      BY <2>2 DEF NoPlace
    <3>. QED
      BY <1>6, <2>1, <2>2, <3>1 DEF OnceInv, NoPlace
  <2>3. CASE Committed(w)
    <3>. DEFINE c == job[w].cluster
                a == job[w].article
    <3>1. /\ c \in Cluster /\ a \in Article
          /\ db'[c].members = Append(db[c].members, a)
          /\ \A d \in Cluster : d # c => db'[d] = db[d]
          /\ \A d \in Cluster : db[d].members \in Seq(Article)
      <4>1. /\ c \in Cluster
            /\ job[w].row.members = Append(db[c].members, a)
            /\ db' = [db EXCEPT ![c] = job[w].row]
        BY <1>0, <2>3, CommitAppends DEF Core
      <4>. QED
        BY <1>0, <1>2, <2>1, <4>1 DEF Core, CoreType, Row
    <3>2. pc[w] = "save" /\ pc'[w] = "setCache" /\ Early(w) /\ ~ Early(w)'
      BY <2>3 DEF Committed
    <3>3. NoPlace(a)
      BY <3>2 DEF OnceInv
    <3>. HIDE DEF c, a
    <3>4. /\ DOMAIN db'[c].members = DOMAIN db[c].members \cup {Len(db[c].members) + 1}
          /\ Len(db[c].members) + 1 \notin DOMAIN db[c].members
          /\ \A n \in DOMAIN db[c].members : db'[c].members[n] = db[c].members[n]
          /\ db'[c].members[Len(db[c].members) + 1] = a
      BY <3>1
    <3>5. ASSUME NEW d \in Cluster, NEW n \in DOMAIN db'[d].members
          PROVE  \/ d = c /\ n = Len(db[c].members) + 1 /\ db'[d].members[n] = a
                 \/ /\ n \in DOMAIN db[d].members
                    /\ db'[d].members[n] = db[d].members[n] /\ db'[d].members[n] # a
      BY <3>1, <3>3, <3>4 DEF NoPlace
    <3>6. \A b : NoPlace(b) /\ b # a => NoPlace(b)'
      BY <3>5 DEF NoPlace
    <3>7. \A d, e \in Cluster : \A i \in DOMAIN db'[d].members : \A j \in DOMAIN db'[e].members :
            db'[d].members[i] = db'[e].members[j] => d = e /\ i = j
      BY <3>5 DEF OnceInv
    <3>8. ASSUME NEW v \in Worker, Early(v)'
          PROVE  NoPlace(job[v].article)'
      <4>1. v # w /\ Early(v) /\ job'[v] = job[v]
        BY <2>1, <3>2, <3>8
      <4>2. job[v].article # a
        BY <2>1, <4>1 DEF OnceInv, a
      <4>3. \A b : b = job[v].article => NoPlace(b)'
        BY <3>6, <4>1, <4>2 DEF OnceInv
      <4>. QED
        BY <4>1, <4>3 DEF NoPlace
    <3>9. ASSUME NEW b \in Article, mstate'[b] \in {"unsent", "queued"}
          PROVE  NoPlace(b)'
      <4>1. mstate[a] = "inflight"
        BY <2>1 DEF OnceInv, a
      <4>. QED
        BY <1>6, <3>6, <3>9, <4>1 DEF OnceInv
    <3>. QED
      BY <1>6, <2>1, <3>7, <3>8, <3>9 DEF OnceInv
  <2>4. ~ Committed(w) => db' = db /\ (Early(w)' => Early(w))
    BY <1>6
    DEF Continued, Matched, Founded, Joined, Moved, Cached, Published, Undecided
  <2>. QED
    BY <2>2, <2>3, <2>4
<1>. QED
    BY <1>0, <1>3, <1>4, <1>5, <1>6, QuietKinds

\* Until the first fault, one replica holds a message, and an article has one place.
LEMMA OnceInvariance == ~ ClockTies => (Spec => [](faults = 0 => OnceInv))
<1>. SUFFICES ASSUME ~ ClockTies PROVE Spec => [](faults = 0 => OnceInv)
    OBVIOUS
<1>1. Init => (faults = 0 => OnceInv)
  <2>1. ASSUME Init
        PROVE  OnceInv
    <3>1. \A c \in Cluster : DOMAIN db[c].members = {}
      BY <2>1 DEF Init, NoRow
    <3>. QED
      BY <2>1, <3>1 DEF Init, Bus!Init, OnceInv, NoPlace, Busy, Early
  <2>. QED
    BY <2>1
<1>2. IInv /\ (faults = 0 => OnceInv) /\ [Next]_vars => (faults = 0 => OnceInv)'
  <2>. SUFFICES ASSUME IInv, faults = 0 => OnceInv, [Next]_vars, faults' = 0
                PROVE  OnceInv'
    OBVIOUS
  <2>1. CASE UNCHANGED vars
    BY <2>1 DEF vars, OnceInv, NoPlace, Busy, Early
  <2>2. CASE Next
    BY <2>2, FaultsCount, OnceStep DEF IInv
  <2>. QED
    BY <2>1, <2>2
<1>. QED
    BY <1>1, <1>2, Invariance, PTL DEF Spec

\* Without a fault no article is counted twice, however often conflicts made the
\* server deliver its message again.
THEOREM CountedOnce == ~ ClockTies => (Spec => []CountedOnceUnlessFault)
<1>. SUFFICES ASSUME ~ ClockTies PROVE Spec => []CountedOnceUnlessFault
    OBVIOUS
<1>1. (faults = 0 => OnceInv) => CountedOnceUnlessFault
  <2>. SUFFICES ASSUME OnceInv, NEW a \in Article
                PROVE  Cardinality(Places(a)) <= 1
    BY DEF CountedOnceUnlessFault
  <2>1. \A p, q \in Places(a) : p = q
    BY DEF OnceInv, Places
  <2>2. CASE Places(a) = {}
    BY <2>2, FS_EmptySet
  <2>3. ASSUME NEW p \in Places(a)
        PROVE  Cardinality(Places(a)) = 1
    <3>1. Places(a) = {p}
      BY <2>1
    <3>. QED
      BY <3>1, FS_Singleton
  <2>. QED
    BY <2>2, <2>3
<1>. QED
    BY <1>1, OnceInvariance, PTL

\* Without a fault a message is given up only after its handler lost to a rival.
GivenUp ==
    \A a \in Article : mstate[a] = "dropped" =>
        /\ \E c \in Cluster : db[c].version > 1
        /\ NoPlace(a)

\* A conflict is over a row that someone joined.
LEMMA RivalJoined ==
    ASSUME IInv, NEW w \in Worker, pc[w] = "save", Conflict(w)
    PROVE  \E c \in Cluster : db[c].version > 1
<1>. DEFINE c == job[w].cluster
            r == job[w].row
<1>1. TypeOK /\ JobShape /\ JoinBase
    BY DEF IInv
<1>2. c \in Cluster /\ ~ job[w].isNew /\ Pending(w)
    BY <1>1 DEF JobShape, Busy, Pending, Conflict
<1>3. db[c].version \in Nat /\ r.version \in Nat
    BY <1>1, <1>2 DEF TypeOK, Row, Job
<1>4. r.version >= 2
    BY <1>1, <1>2, <1>3 DEF JoinBase, Extends
<1>5. ~ (db[c].version < r.version)
    BY <1>2 DEF Conflict, Saved, Upsert
<1>. QED
    BY <1>2, <1>3, <1>4, <1>5

\* What a step without a fault does to messages that are given up.
LEMMA GivenUpStep ==
    ASSUME IInv, ~ ClockTies, OnceInv, GivenUp, Next, faults' = faults
    PROVE  GivenUp'
<1>0. Core /\ TypeOK /\ JobShape
    BY IInvCore DEF IInv
<1>1. mstate \in [Article -> Bus!MsgState]
    BY <1>0 DEF TypeOK, Bus!TypeOK
<1>2. ASSUME db' = db, NEW a \in Article, mstate[a] = "dropped"
      PROVE  (\E c \in Cluster : db'[c].version > 1) /\ NoPlace(a)'
    BY <1>2 DEF GivenUp, NoPlace
<1>3. CASE EnvStep /\ \/ mstate' = mstate
                      \/ \E a \in Article : /\ mstate[a] = "unsent"
                                            /\ mstate' = [mstate EXCEPT ![a] = "queued"]
    BY <1>1, <1>2, <1>3 DEF EnvStep, GivenUp
<1>4. ASSUME NEW w \in Worker, NEW a \in Article, Started(w, a),
             mstate' = [mstate EXCEPT ![a] = "inflight"]
      PROVE  GivenUp'
    BY <1>1, <1>2, <1>4 DEF Started, GivenUp
<1>5. ASSUME NEW w \in Worker, NEW to, Answered(w, to)
      PROVE  GivenUp'
  <2>0. PICK b \in Article : b = job[w].article
    BY <1>0, <1>5 DEF Answered, Ended, JobShape
  <2>1. db' = db /\ mstate' = [mstate EXCEPT ![b] = to]
    BY <1>5, <2>0 DEF Answered, Ended
  <2>2. to = "dropped" => (\E c \in Cluster : db'[c].version > 1) /\ NoPlace(b)'
    <3>. SUFFICES ASSUME to = "dropped"
                  PROVE  (\E c \in Cluster : db'[c].version > 1) /\ NoPlace(b)'
      OBVIOUS
    <3>1. pc[w] = "save" /\ Conflict(w)
      BY <1>5 DEF Answered
    <3>2. \E c \in Cluster : db[c].version > 1
      BY <3>1, RivalJoined
    <3>3. NoPlace(b)
      BY <2>0, <3>1 DEF OnceInv, Early
    <3>. QED
      BY <2>1, <3>2, <3>3 DEF NoPlace
  <2>3. ASSUME NEW a \in Article, mstate'[a] = "dropped", a # b
        PROVE  mstate[a] = "dropped"
    BY <1>1, <2>1, <2>3
  <2>4. mstate'[b] = to
    BY <1>1, <2>1
  <2>. QED
    BY <1>2, <2>1, <2>2, <2>3, <2>4 DEF GivenUp
<1>6. ASSUME NEW w \in Worker, Continued(w), mstate' = mstate
      PROVE  GivenUp'
  <2>1. CASE db' = db
    BY <1>2, <1>6, <2>1 DEF GivenUp
  <2>2. CASE Committed(w)
    <3>. DEFINE c == job[w].cluster
                b == job[w].article
    <3>1. /\ pc[w] = "save" /\ c \in Cluster /\ b \in Article /\ mstate[b] = "inflight"
      BY <1>0, <2>2 DEF Committed, JobShape, OnceInv, Busy
    <3>2. /\ job[w].row.members = Append(db[c].members, b)
          /\ job[w].row.version = db[c].version + 1
          /\ db' = [db EXCEPT ![c] = job[w].row]
      BY <1>0, <2>2, CommitAppends DEF Core
    <3>3. db[c].version \in Nat /\ \A d \in Cluster : db[d].members \in Seq(Article)
      BY <1>0, <3>1 DEF TypeOK, Row
    <3>. HIDE DEF c, b
    <3>4. db'[c] = job[w].row /\ \A d \in Cluster : d # c => db'[d] = db[d]
      BY <1>0, <3>1, <3>2 DEF TypeOK
    <3>5. (\E d \in Cluster : db[d].version > 1) => \E d \in Cluster : db'[d].version > 1
      BY <3>1, <3>2, <3>3, <3>4
    <3>6. ASSUME NEW a \in Article, NoPlace(a), a # b
          PROVE  NoPlace(a)'
      <4>1. \A n \in DOMAIN db'[c].members : db'[c].members[n] # a
        BY <3>1, <3>2, <3>3, <3>4, <3>6 DEF NoPlace
      <4>. QED
        BY <3>4, <3>6, <4>1 DEF NoPlace
    <3>. QED
      BY <1>6, <3>1, <3>5, <3>6 DEF GivenUp
  <2>. QED
    BY <1>6, <2>1, <2>2
    DEF Continued, Matched, Founded, Joined, Moved, Cached, Published
<1>. QED
    BY <1>0, <1>3, <1>4, <1>5, <1>6, QuietKinds

\* Without a fault a message is given up only because rivals joined a story in its
\* stead, and nothing of the refused transactions was kept.
THEOREM RivalsDrop == ~ ClockTies => (Spec => []DroppedByRivals)
<1>. SUFFICES ASSUME ~ ClockTies PROVE Spec => []DroppedByRivals
    OBVIOUS
<1>1. Init => GivenUp
    BY DEF Init, Bus!Init, GivenUp
<1>2. /\ IInv /\ (faults = 0 => OnceInv) /\ (faults = 0 => GivenUp) /\ [Next]_vars
      => (faults = 0 => GivenUp)'
  <2>. SUFFICES ASSUME IInv, faults = 0 => OnceInv, faults = 0 => GivenUp, [Next]_vars, faults' = 0
                PROVE  GivenUp'
    OBVIOUS
  <2>1. CASE UNCHANGED vars
    BY <2>1 DEF vars, GivenUp, NoPlace
  <2>2. CASE Next
    BY <2>2, FaultsCount, GivenUpStep DEF IInv
  <2>. QED
    BY <2>1, <2>2
<1>3. TypeInv /\ (faults = 0 => GivenUp) => DroppedByRivals
    BY ArticleAssumption DEF DroppedByRivals, GivenUp, NoPlace, Places
<1>. QED
    BY <1>1, <1>2, <1>3, Invariance, OnceInvariance, TypeInvariance, PTL DEF Spec

\* Without a fault only the handler that committed makes the cache lag, and it is
\* not over before set_cluster.
LEMMA LagStep ==
    ASSUME IInv, ~ ClockTies, OnceInv, LagIsTransient, Next, faults = 0, faults' = faults,
           NEW c \in Cluster, Present(cache'[c]), cache'[c] # db'[c]
    PROVE  \E w \in Worker : pc'[w] = "setCache" /\ job'[w].cluster = c
<1>0. Core /\ TypeOK /\ JobShape /\ RefreshDue
    BY IInvCore DEF IInv
<1>. USE DEF Others, SameJob
<1>1. ASSUME NEW w \in Worker, pc[w] # "setCache" \/ job[w].cluster # c,
             \A v \in Worker : v # w => pc'[v] = pc[v] /\ job'[v] = job[v],
             db'[c] = db[c], cache'[c] = cache[c]
      PROVE  \E v \in Worker : pc'[v] = "setCache" /\ job'[v].cluster = c
  <2>1. PICK v \in Worker : pc[v] = "setCache" /\ job[v].cluster = c
    BY <1>1 DEF LagIsTransient
  <2>. QED
    BY <1>1, <2>1
<1>2. CASE EnvStep
    BY <1>2 DEF EnvStep, LagIsTransient, Present, NoRow
<1>3. ASSUME NEW w \in Worker,
             \/ \E a \in Article : Started(w, a)
             \/ \E to : Answered(w, to)
             \/ \E d \in Cluster : Matched(w, d)
             \/ Founded(w) \/ Joined(w) \/ Moved(w) \/ Published(w)
      PROVE  \E v \in Worker : pc'[v] = "setCache" /\ job'[v].cluster = c
  <2>1. /\ pc[w] # "setCache" /\ db' = db /\ cache' = cache
        /\ \A v \in Worker : v # w => pc'[v] = pc[v] /\ job'[v] = job[v]
    BY <1>3
    DEF Started, Answered, Ended, Matched, Founded, Joined, Moved, Published, Busy, Undecided
  <2>. QED
    BY <1>1, <2>1
<1>4. ASSUME NEW w \in Worker, Committed(w)
      PROVE  \E v \in Worker : pc'[v] = "setCache" /\ job'[v].cluster = c
  <2>1. /\ pc[w] = "save" /\ pc'[w] = "setCache" /\ job'[w] = job[w] /\ cache' = cache
        /\ \A v \in Worker : v # w => pc'[v] = pc[v] /\ job'[v] = job[v]
        /\ job[w].cluster # c => db'[c] = db[c]
    BY <1>0, <1>4 DEF Committed, TypeOK
  <2>2. CASE job[w].cluster = c
    BY <2>1, <2>2
  <2>3. CASE job[w].cluster # c
    BY <1>1, <2>1, <2>3
  <2>. QED
    BY <2>2, <2>3
<1>5. ASSUME NEW w \in Worker, Cached(w)
      PROVE  \E v \in Worker : pc'[v] = "setCache" /\ job'[v].cluster = c
  <2>1. /\ pc[w] = "setCache" /\ db' = db
        /\ \A v \in Worker : v # w => pc'[v] = pc[v] /\ job'[v] = job[v]
        /\ cache' = [cache EXCEPT ![job[w].cluster] = job[w].row]
    BY <1>5 DEF Cached
  <2>2. CASE job[w].cluster = c
    <3>1. cache'[c] = job[w].row /\ db[c] = job[w].row
      BY <1>0, <2>1, <2>2 DEF TypeOK, RefreshDue
    <3>. QED
      BY <2>1, <3>1
  <2>3. CASE job[w].cluster # c
    BY <1>0, <1>1, <2>1, <2>3 DEF TypeOK
  <2>. QED
    BY <2>2, <2>3
<1>. QED
    BY <1>0, <1>2, <1>3, <1>4, <1>5, QuietKinds DEF Continued

\* Without a fault the cache lags behind the database only while the handler that
\* committed is on its way to set_cluster.
THEOREM LagEnds == ~ ClockTies => (Spec => []LagIsTransient)
<1>. SUFFICES ASSUME ~ ClockTies PROVE Spec => []LagIsTransient
    OBVIOUS
<1>1. Init => LagIsTransient
    BY DEF Init, LagIsTransient, Present, NoRow
<1>2. IInv /\ (faults = 0 => OnceInv) /\ LagIsTransient /\ [Next]_vars => LagIsTransient'
  <2>. SUFFICES ASSUME IInv, faults = 0 => OnceInv, LagIsTransient, [Next]_vars, faults' = 0,
                       NEW c \in Cluster, Present(cache'[c]), cache'[c] # db'[c]
                PROVE  \E w \in Worker : pc'[w] = "setCache" /\ job'[w].cluster = c
    BY DEF LagIsTransient, Present
  <2>1. CASE UNCHANGED vars
    BY <2>1 DEF vars, LagIsTransient, Present
  <2>2. CASE Next
    BY <2>2, FaultsCount, LagStep DEF IInv
  <2>. QED
    BY <2>1, <2>2
<1>. QED
    BY <1>1, <1>2, Invariance, OnceInvariance, PTL DEF Spec

-----------------------------------------------------------------------------
(* Where the articles come from. *)

Sent(a) == mstate[a] # "unsent"

\* Only what was published on ARTICLE_UNIQUE is in anybody's hands, in a row or in
\* the cache, and only what is unusable is rejected.
SentInv ==
    /\ \A w \in Worker : Busy(w) => Sent(job[w].article)
    /\ \A w \in Worker : Pending(w) \/ At(w, "setCache") =>
        \A n \in DOMAIN job[w].row.members : Sent(job[w].row.members[n])
    /\ \A c \in Cluster : \A n \in DOMAIN db[c].members : Sent(db[c].members[n])
    /\ \A c \in Cluster : \A n \in DOMAIN cache[c].members : Sent(cache[c].members[n])
    /\ \A a \in Article : mstate[a] = "termed" => a \in Unusable

\* The steps the engine and its server take once a message is in the stream.
Inner ==
    \/ \E w \in Worker : Handle(w) \/ Fail(w) \/ Crash(w)
    \/ \E w \in Worker, a \in Article : Deliver(w, a)
    \/ \E a \in Article : AckWait(a) \/ SlowHandler(a)
    \/ \E c \in Cluster : Expire(c)
    \/ RedisRestart

\* None of them puts a message into the stream or takes one out of it, and only a
\* rejection terminates one.
LEMMA InnerSends ==
    ASSUME TypeInv, SentInv, Inner
    PROVE  \A a \in Article : /\ Sent(a)' <=> Sent(a)
                              /\ mstate'[a] = "termed" => mstate[a] = "termed" \/ a \in Unusable
<1>. USE DEF TypeInv, TypeOK, Bus!TypeOK, Sent
<1>1. ASSUME NEW w \in Worker, Reject(w) \/ SaveRefused(w) \/ Ack(w) \/ Fail(w)
      PROVE  \A a \in Article : /\ Sent(a)' <=> Sent(a)
                                /\ mstate'[a] = "termed" => mstate[a] = "termed" \/ a \in Unusable
  <2>1. job[w].article \in Article /\ Sent(job[w].article)
    BY <1>1 DEF Reject, SaveRefused, Ack, Fail, SentInv, JobShape, Busy
  <2>. QED
    BY <1>1, <2>1
    DEF Reject, SaveRefused, Ack, Fail, Bus!Term, Bus!Nak, Bus!Ack, Bus!Requeued
<1>2. ASSUME NEW w \in Worker, Handle(w) \/ Crash(w),
             ~ (Reject(w) \/ SaveRefused(w) \/ Ack(w))
      PROVE  mstate' = mstate
  <2>1. CASE Match(w) \/ GetHit(w) \/ Crash(w)
    BY <2>1 DEF Match, GetHit, Crash, busVars
  <2>2. CASE NoMatch(w) \/ GetMiss(w)
    BY <2>2 DEF NoMatch, GetMiss, Found, busVars
  <2>3. CASE \/ FindArticle(w) \/ ArticleMissing(w) \/ Save(w) \/ SetCache(w)
             \/ MarkCluster(w) \/ MarkArticle(w) \/ Publish(w)
    BY <2>3
    DEF FindArticle, ArticleMissing, Save, SetCache, MarkCluster, MarkArticle, Publish, busVars
  <2>. QED
    BY <1>2, <2>1, <2>2, <2>3 DEF Handle
<1>3. ASSUME NEW w \in Worker, NEW a \in Article, Deliver(w, a)
      PROVE  \A b \in Article : /\ Sent(b)' <=> Sent(b)
                                /\ mstate'[b] = "termed" => mstate[b] = "termed"
    BY <1>3 DEF Deliver, Bus!Deliver
<1>4. ASSUME NEW a \in Article, AckWait(a) \/ SlowHandler(a)
      PROVE  \A b \in Article : /\ Sent(b)' <=> Sent(b)
                                /\ mstate'[b] = "termed" => mstate[b] = "termed"
    BY <1>4 DEF AckWait, SlowHandler, Bus!AckWait, Bus!Requeued
<1>5. ASSUME (\E c \in Cluster : Expire(c)) \/ RedisRestart
      PROVE  mstate' = mstate
    BY <1>5 DEF Expire, RedisRestart, busVars
<1>. QED
    BY <1>1, <1>2, <1>3, <1>4, <1>5 DEF Inner, Handle

\* One more element of a set, and a sequence of its elements is still one.
LEMMA AppendStays ==
    ASSUME NEW S, NEW s \in Seq(S), NEW e, NEW P, e \in P, e \in S,
           \A n \in DOMAIN s : s[n] \in P
    PROVE  \A n \in DOMAIN Append(s, e) : Append(s, e)[n] \in P
<1>1. /\ DOMAIN Append(s, e) = 1 .. Len(s) + 1 /\ DOMAIN s = 1 .. Len(s)
      /\ Append(s, e)[Len(s) + 1] = e
      /\ \A n \in 1 .. Len(s) : Append(s, e)[n] = s[n]
      /\ Len(s) \in Nat
    OBVIOUS
<1>2. \A n \in 1 .. Len(s) + 1 : n \in 1 .. Len(s) \/ n = Len(s) + 1
    BY <1>1
<1>. QED
    BY <1>1, <1>2

\* Articles get into a handler's row, a stored row and the cache by way of the
\* messages only.
LEMMA NextSentInv ==
    ASSUME TypeInv, SentInv, Next
    PROVE  SentInv'
<1>1. \A a \in Article : /\ Sent(a) => Sent(a)'
                         /\ mstate'[a] = "termed" => mstate[a] = "termed" \/ a \in Unusable
  <2>1. ASSUME NEW a \in Article, Arrive(a)
        PROVE  \A b \in Article : /\ Sent(b) => Sent(b)'
                                  /\ mstate'[b] = "termed" => mstate[b] = "termed"
    BY <2>1 DEF Arrive, Bus!Publish, Sent, TypeInv, TypeOK, Bus!TypeOK
  <2>2. CASE Inner
    BY <2>2, InnerSends
  <2>3. CASE Done
    BY <2>3 DEF Done, vars, Sent
  <2>. QED
    BY <2>1, <2>2, <2>3 DEF Next, Inner
<1>2. \A a \in Article : mstate'[a] = "termed" => a \in Unusable
    BY <1>1 DEF SentInv
<1>. DEFINE AllSent(row) == \A n \in DOMAIN row.members : row.members[n] \in Article /\ Sent(row.members[n])
<1>3. /\ CoreType /\ JobShape
      /\ \A w \in Worker : Busy(w) => job[w].article \in Article /\ Sent(job[w].article)
      /\ \A w \in Worker : Pending(w) \/ At(w, "setCache") => AllSent(job[w].row)
      /\ \A c \in Cluster : AllSent(db[c]) /\ AllSent(cache[c])
  <2>1. CoreType /\ JobShape
    BY CoreTypes DEF TypeInv
  <2>2. \A row \in Row : \A n \in DOMAIN row.members : row.members[n] \in Article
    BY DEF Row
  <2>. QED
    BY <2>1, <2>2 DEF SentInv, CoreType, Job, JobShape
<1>. USE DEF CoreType, Busy, Pending
<1>4. CASE EnvStep
    BY <1>1, <1>2, <1>3, <1>4 DEF EnvStep, SentInv, NoRow
<1>5. ASSUME NEW w \in Worker, Ended(w) \/ Moved(w) \/ Published(w)
      PROVE  SentInv'
    BY <1>1, <1>2, <1>3, <1>5 DEF Ended, Moved, Published, Others, SameJob, SentInv
<1>6. ASSUME NEW w \in Worker, NEW a \in Article, Started(w, a)
      PROVE  SentInv'
    BY <1>1, <1>2, <1>3, <1>6 DEF Started, Others, SentInv, Sent
<1>7. ASSUME NEW w \in Worker, NEW c \in Cluster, Matched(w, c)
      PROVE  SentInv'
    BY <1>1, <1>2, <1>3, <1>7 DEF Matched, Others, SentInv
<1>8. ASSUME NEW w \in Worker, Founded(w)
      PROVE  SentInv'
  <2>1. job[w].article \in Article /\ Sent(job[w].article)'
    BY <1>1, <1>3, <1>8 DEF Founded, Undecided
  <2>2. /\ job'[w].article = job[w].article /\ Others(w)
        /\ job'[w].row.members = <<job[w].article>>
        /\ db' = db /\ cache' = cache
    BY <1>8 DEF Founded
  <2>3. pc[w] # "idle" /\ pc'[w] # "idle" /\ pc'[w] # "setCache"
    BY <1>8 DEF Founded, Undecided
  <2>. QED
    BY <1>1, <1>2, <1>3, <2>1, <2>2, <2>3 DEF Others, SentInv
<1>9. ASSUME NEW w \in Worker, Joined(w)
      PROVE  SentInv'
  <2>. DEFINE c == job[w].cluster
  <2>1. /\ job[w].article \in Article /\ mstate'[job[w].article] # "unsent"
        /\ c \in Cluster /\ cache[c].members \in Seq(Article)
    BY <1>1, <1>3, <1>9 DEF Joined, JobShape, Row, Sent
  <2>2. /\ job'[w].article = job[w].article /\ Others(w)
        /\ job'[w].row.members = Append(cache[c].members, job[w].article)
        /\ db' = db /\ cache' = cache
    BY <1>9 DEF Joined
  <2>3. /\ pc[w] # "idle" /\ pc'[w] = "article"
        /\ \A n \in DOMAIN cache[c].members : mstate'[cache[c].members[n]] # "unsent"
    BY <1>1, <1>3, <1>9, <2>1 DEF Joined, Sent
  <2>4. \A n \in DOMAIN job'[w].row.members : mstate'[job'[w].row.members[n]] # "unsent"
    <3>. DEFINE P == {a \in Article : mstate'[a] # "unsent"}
    <3>1. /\ job[w].article \in P
          /\ \A n \in DOMAIN cache[c].members : cache[c].members[n] \in P
      BY <1>3, <2>1, <2>3
    <3>. HIDE DEF P
    <3>2. \A n \in DOMAIN job'[w].row.members : job'[w].row.members[n] \in P
      BY <2>1, <2>2, <3>1, AppendStays
    <3>. QED
      BY <3>2 DEF P
  <2>5. job'[w].article = job[w].article /\ mstate'[job[w].article] # "unsent" /\ Others(w)
    BY <2>1, <2>2
  <2>6. db' = db /\ cache' = cache
    BY <2>2
  <2>. HIDE DEF c
  <2>. QED
    BY <1>1, <1>2, <1>3, <2>3, <2>4, <2>5, <2>6 DEF Others, SentInv, Sent
<1>10. ASSUME NEW w \in Worker, Committed(w)
       PROVE  SentInv'
  <2>1. \A c \in Cluster : db'[c] = db[c] \/ db'[c] = job[w].row
    BY <1>3, <1>10 DEF Committed, Saved, Upsert
  <2>. QED
    BY <1>1, <1>2, <1>3, <1>10, <2>1 DEF Committed, Others, SameJob, SentInv
<1>11. ASSUME NEW w \in Worker, Cached(w)
       PROVE  SentInv'
  <2>1. \A c \in Cluster : cache'[c] = cache[c] \/ cache'[c] = job[w].row
    BY <1>3, <1>11 DEF Cached
  <2>. QED
    BY <1>1, <1>2, <1>3, <1>11, <2>1 DEF Cached, Others, SameJob, SentInv
<1>. QED
    BY <1>4, <1>5, <1>6, <1>7, <1>8, <1>9, <1>10, <1>11, StepKinds DEF TypeInv, WorkerStep

\* Nothing is clustered that was not announced to the engine.
LEMMA SentInvariance == Spec => []SentInv
<1>1. Init => SentInv
    BY DEF Init, Bus!Init, SentInv, Sent, Busy, Pending, NoRow
<1>2. TypeInv /\ SentInv /\ [Next]_vars => SentInv'
  <2>1. ASSUME TypeInv, SentInv, UNCHANGED vars PROVE SentInv'
    BY <2>1 DEF vars, SentInv, Sent, Busy, Pending
  <2>. QED
    BY <2>1, NextSentInv
<1>. QED
    BY <1>1, <1>2, TypeInvariance, PTL DEF Spec
=============================================================================
