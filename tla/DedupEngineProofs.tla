-------------------------- MODULE DedupEngineProofs --------------------------
(***************************************************************************)
(* Proofs about the dedup engine for every number of messages, articles,   *)
(* replicas, deliveries and faults.                                        *)
(***************************************************************************)
EXTENDS DedupEngine, SimHashBands, CommonLemmas

-----------------------------------------------------------------------------
(* Type correctness. *)

Busy(w) == ~ At(w, "idle")

\* A message that may be delivered has budget left.
BudgetLeft ==
    \A m \in Message : mstate[m] \in {"unsent", "queued"} => delivered[m] < MaxDeliver

\* The locals of a handler at each of its awaits.
JobShape ==
    \A w \in Worker :
        /\ Busy(w) => job[w].msg \in Message /\ Hash(w) \in Article
        /\ At(w, "duplicate") => job[w].original \in Article

TypeInv == TypeOK /\ BudgetLeft /\ JobShape

\* The part of the type invariant about the cache, the table and the events.
DataType ==
    /\ stored \subseteq Article /\ bands \subseteq Article
    /\ embeddings \subseteq Article /\ timeline \subseteq Article
    /\ dirty \subseteq Article /\ uniques \in [Message -> Nat]
    /\ duplicates \subseteq Duplicate /\ overlooked \subseteq Article

USE DEF Bus!Settled, Bus!MsgState, At, Goto, Finish

\* The initial locals have their type.
LEMMA JobType == NoJob \in Job
BY BoundsAssumption DEF NoJob, Job, Name

\* What the bus does to a message keeps the bus well-typed.
LEMMA BusType ==
    ASSUME Bus!TypeOK, BudgetLeft, NEW m \in Message,
           \/ Bus!Publish(m) \/ Bus!Deliver(m) \/ Bus!Ack(m) \/ Bus!Nak(m) \/ Bus!AckWait(m)
    PROVE  Bus!TypeOK' /\ BudgetLeft'
BY BoundsAssumption
DEF Bus!TypeOK, BudgetLeft, Bus!Publish, Bus!Deliver, Bus!Ack, Bus!Nak, Bus!AckWait,
    Bus!Requeued

\* Init establishes the type invariant.
LEMMA InitType == Init => TypeInv
<1> SUFFICES ASSUME Init PROVE TypeInv
    OBVIOUS
<1>1. Bus!TypeOK /\ BudgetLeft
    BY BoundsAssumption DEF Init, Bus!Init, Bus!TypeOK, BudgetLeft
<1>2. job \in [Worker -> Job]
    BY JobType DEF Init
<1>3. JobShape
    BY DEF Init, JobShape, Busy
<1> QED
    BY <1>1, <1>2, <1>3, BoundsAssumption DEF Init, TypeInv, TypeOK, Label, Duplicate

-----------------------------------------------------------------------------
(* The kinds of steps of a handler. *)

Others(w) == \A v \in Worker : v # w => pc'[v] = pc[v] /\ job'[v] = job[v]

\* From one await of a handler to the next.
Route ==
    {<<"guard", "ack">>, <<"guard", "bands">>, <<"bands", "embed">>, <<"embed", "ack">>,
     <<"embed", "cacheEmbedding">>, <<"cacheEmbedding", "timeline">>,
     <<"timeline", "vectors">>, <<"vectors", "search">>, <<"search", "addBands">>,
     <<"bands", "duplicate">>, <<"vectors", "duplicate">>, <<"search", "duplicate">>,
     <<"duplicate", "ack">>, <<"addBands", "addTimeline">>, <<"addTimeline", "save">>,
     <<"save", "markDirty">>, <<"markDirty", "unique">>, <<"unique", "ack">>}

\* The search overlooks what the handler's article resembles.
Overlooks(w) ==
    /\ At(w, "search")
    /\ \E b \in Article : Matched(w, b)
    /\ overlooked' = overlooked \cup {Hash(w)}

\* The handler goes on: what each step does to the row and the announcements,
\* and what the step to registration requires.
Moved(w) ==
    /\ <<pc[w], pc'[w]>> \in Route
    /\ Others(w)
    /\ job'[w].msg = job[w].msg /\ job'[w].attempt = job[w].attempt
    /\ UNCHANGED delivered
    /\ stored' = IF At(w, "save") THEN stored \cup {Hash(w)} ELSE stored
    /\ uniques' = IF At(w, "unique")
                  THEN [uniques EXCEPT ![job[w].msg] = @ + 1] ELSE uniques
    /\ pc'[w] = "duplicate" => job'[w].original \in Article
    /\ overlooked' = overlooked \/ Overlooks(w)
    /\ pc'[w] = "addBands" =>
            Hash(w) \in overlooked' \/ \A b \in Article : ~ Matched(w, b)

Started(w, m) ==
    /\ ~ Busy(w) /\ pc'[w] = "guard" /\ Others(w)
    /\ job'[w].msg = m /\ job'[w].attempt = delivered[m] + 1
    /\ delivered' = [delivered EXCEPT ![m] = @ + 1]
    /\ UNCHANGED <<stored, uniques, overlooked>>

Ended(w) ==
    /\ Busy(w) /\ pc'[w] = "idle" /\ Others(w)
    /\ UNCHANGED <<delivered, stored, uniques, overlooked>>

EnvStep == UNCHANGED <<delivered, stored, uniques, overlooked, pc, job>>

WorkerStep(w) == Moved(w) \/ Ended(w) \/ \E m \in Message : Started(w, m)

\* A handler's step is one of these kinds.
LEMMA HandleKinds ==
    ASSUME TypeOK, NEW w \in Worker, (Handle(w) /\ ~ Ack(w)) \/ EmbedFails(w)
    PROVE  Moved(w)
<1> USE DEF TypeOK, Others, cacheVars, busVars, eventVars, Route
<1>1. CASE GuardHit(w) \/ GuardMiss(w) \/ BandsMiss(w) \/ Embed(w) \/ EmbedFails(w)
    BY <1>1 DEF GuardHit, GuardMiss, BandsMiss, Embed, EmbedFails, Step, Moved
<1>2. CASE BandsHit(w) \/ VectorsHit(w) \/ SearchHit(w)
  <2>1. PICK b \in Article, name \in Name, from \in {"bands", "vectors", "search"} :
            Hit(w, from, b, name)
    BY <1>2 DEF BandsHit, VectorsHit, SearchHit, Name
  <2>2. /\ job'[w].msg = job[w].msg /\ job'[w].attempt = job[w].attempt
        /\ job'[w].original = b
    BY <2>1 DEF Hit, Job
  <2> QED
    BY <2>1, <2>2 DEF Hit, Moved
<1>3. CASE GetTimeline(w) \/ VectorsMiss(w)
  <2>1. job'[w].msg = job[w].msg /\ job'[w].attempt = job[w].attempt
    BY <1>3 DEF GetTimeline, VectorsMiss, Job
  <2> QED
    BY <1>3, <2>1 DEF GetTimeline, VectorsMiss, Moved
<1>4. CASE SearchMiss(w)
  <2>1. CASE \E b \in Article : Matched(w, b)
    BY <1>4, <2>1 DEF SearchMiss, Moved, Overlooks
  <2>2. CASE \A b \in Article : ~ Matched(w, b)
    BY <1>4, <2>2 DEF SearchMiss, Moved
  <2> QED
    BY <2>1, <2>2
<1>5. CASE CacheEmbedding(w) \/ PublishDuplicate(w) \/ AddBands(w) \/ AddTimeline(w) \/ MarkDirty(w)
    BY <1>5 DEF CacheEmbedding, PublishDuplicate, AddBands, AddTimeline, MarkDirty, Moved
<1>6. CASE Save(w) \/ PublishUnique(w)
    BY <1>6 DEF Save, PublishUnique, Moved
<1> QED
    BY <1>1, <1>2, <1>3, <1>4, <1>5, <1>6 DEF Handle

\* Every step of the engine is of one of these kinds.
LEMMA StepKinds ==
    ASSUME TypeOK, Next
    PROVE  EnvStep \/ \E w \in Worker : WorkerStep(w)
<1> USE DEF TypeOK, Others, cacheVars, busVars, eventVars, vars
<1>1. ASSUME NEW w \in Worker, Ack(w) \/ Fail(w) \/ Crash(w)
      PROVE  Ended(w)
    BY <1>1 DEF Ack, Fail, Crash, Ended, Busy, Bus!Ack, Bus!Nak
<1>2. ASSUME NEW w \in Worker, NEW m \in Message, Deliver(w, m)
      PROVE  Started(w, m)
    BY <1>2 DEF Deliver, Started, Busy, NoJob, Job, Bus!Deliver
<1>3. ASSUME NEW m \in Message, Arrive(m) \/ AckWait(m) \/ SlowHandler(m)
      PROVE  EnvStep
    BY <1>3 DEF Arrive, AckWait, SlowHandler, EnvStep, Bus!Publish, Bus!AckWait
<1>4. ASSUME (\E a \in Article : ExpireBands(a) \/ ExpireEmbedding(a)) \/ RedisRestart \/ Done
      PROVE  EnvStep
    BY <1>4 DEF ExpireBands, ExpireEmbedding, RedisRestart, Done, EnvStep
<1> QED
    BY <1>1, <1>2, <1>3, <1>4, HandleKinds DEF Next, WorkerStep

\* Types, delivery budgets and the shape of the locals are preserved.
LEMMA NextType ==
    ASSUME TypeInv, Next
    PROVE  TypeInv'
<1> USE JobType DEF TypeInv, TypeOK, cacheVars, busVars, eventVars, vars, Label, DataType
<1>1. Bus!TypeOK' /\ BudgetLeft'
  <2>1. ASSUME NEW w \in Worker, Ack(w) \/ Fail(w)
        PROVE  Bus!TypeOK' /\ BudgetLeft'
    BY <2>1, BusType DEF Ack, Fail, JobShape, Busy
  <2>2. ASSUME NEW w \in Worker, NEW m \in Message, Deliver(w, m)
        PROVE  Bus!TypeOK' /\ BudgetLeft'
    BY <2>2, BusType DEF Deliver
  <2>3. ASSUME NEW m \in Message, Arrive(m) \/ AckWait(m) \/ SlowHandler(m)
        PROVE  Bus!TypeOK' /\ BudgetLeft'
    BY <2>3, BusType DEF Arrive, AckWait, SlowHandler
  <2>4. CASE UNCHANGED busVars
    BY <2>4 DEF Bus!TypeOK, BudgetLeft
  <2>5. ASSUME NEW w \in Worker, Handle(w) /\ ~ Ack(w)
        PROVE  UNCHANGED busVars
    BY <2>5
    DEF Handle, GuardHit, GuardMiss, BandsHit, BandsMiss, Embed, Step, Hit, CacheEmbedding,
        GetTimeline, VectorsHit, VectorsMiss, SearchHit, SearchMiss, PublishDuplicate, AddBands,
        AddTimeline, Save, MarkDirty, PublishUnique
  <2>6. ASSUME \/ \E w \in Worker : EmbedFails(w) \/ Crash(w)
               \/ \E a \in Article : ExpireBands(a) \/ ExpireEmbedding(a)
               \/ RedisRestart \/ Done
        PROVE  UNCHANGED busVars
    BY <2>6 DEF EmbedFails, Crash, ExpireBands, ExpireEmbedding, RedisRestart, Done
  <2> QED
    BY <2>1, <2>2, <2>3, <2>4, <2>5, <2>6 DEF Next
<1>2. JobShape'
  <2>1. CASE EnvStep
    BY <2>1 DEF EnvStep, JobShape, Busy, Hash
  <2>2. ASSUME NEW w \in Worker, Moved(w)
        PROVE  JobShape'
    <3>1. Busy(w) /\ (pc'[w] = "duplicate" => job'[w].original \in Article)
      BY <2>2 DEF Moved, Route, Busy
    <3>2. job'[w].msg = job[w].msg /\ Others(w)
      BY <2>2 DEF Moved
    <3> QED
      BY <3>1, <3>2 DEF JobShape, Busy, Hash, Others
  <2>3. ASSUME NEW w \in Worker, NEW m \in Message, Started(w, m)
        PROVE  JobShape'
    BY <2>3, ArticleAssumption DEF Started, JobShape, Busy, Hash, Others
  <2>4. ASSUME NEW w \in Worker, Ended(w)
        PROVE  JobShape'
    BY <2>4 DEF Ended, JobShape, Busy, Hash, Others
  <2> QED
    BY <2>1, <2>2, <2>3, <2>4, StepKinds DEF WorkerStep
<1>3. /\ pc' \in [Worker -> Label]
      /\ job' \in [Worker -> Job]
  <2>1. ASSUME NEW w \in Worker, NEW m \in Message, Deliver(w, m)
        PROVE  job' \in [Worker -> Job] /\ pc' \in [Worker -> Label]
    <3>1. delivered[m] + 1 \in 0 .. MaxDeliver
      BY <2>1, BoundsAssumption DEF Deliver, Bus!Deliver, BudgetLeft, Bus!TypeOK
    <3> QED
      BY <2>1, <3>1 DEF Deliver, Job, NoJob
  <2>2. ASSUME NEW w \in Worker, BandsHit(w) \/ VectorsHit(w) \/ SearchHit(w)
        PROVE  job' \in [Worker -> Job] /\ pc' \in [Worker -> Label]
    <3>1. PICK b \in Article, name \in Name, from \in {"bands", "vectors", "search"} :
            Hit(w, from, b, name)
      BY <2>2 DEF BandsHit, VectorsHit, SearchHit, Name
    <3> QED
      BY <3>1 DEF Hit, Job
  <2>3. ASSUME NEW w \in Worker, GetTimeline(w) \/ VectorsMiss(w)
        PROVE  job' \in [Worker -> Job] /\ pc' \in [Worker -> Label]
    <3>1. PICK recent \in SUBSET Article :
              job' = [job EXCEPT ![w].recent = recent] /\ (\E l \in Label : pc' = [pc EXCEPT ![w] = l])
      BY <2>3 DEF GetTimeline, VectorsMiss
    <3> QED
      BY <3>1 DEF Job
  <2>4. ASSUME NEW w \in Worker, Ack(w) \/ Fail(w) \/ Crash(w)
        PROVE  job' \in [Worker -> Job] /\ pc' \in [Worker -> Label]
    BY <2>4 DEF Ack, Fail, Crash
  <2>5. ASSUME NEW w \in Worker,
               \/ GuardHit(w) \/ GuardMiss(w) \/ BandsMiss(w) \/ Embed(w) \/ SearchMiss(w)
               \/ CacheEmbedding(w) \/ PublishDuplicate(w) \/ AddBands(w) \/ AddTimeline(w)
               \/ Save(w) \/ MarkDirty(w) \/ PublishUnique(w) \/ EmbedFails(w)
        PROVE  job' \in [Worker -> Job] /\ pc' \in [Worker -> Label]
    BY <2>5
    DEF GuardHit, GuardMiss, BandsMiss, Embed, SearchMiss, Step, CacheEmbedding,
        PublishDuplicate, AddBands, AddTimeline, Save, MarkDirty, PublishUnique, EmbedFails
  <2>6. ASSUME \/ \E m \in Message : Arrive(m) \/ AckWait(m) \/ SlowHandler(m)
               \/ \E a \in Article : ExpireBands(a) \/ ExpireEmbedding(a)
               \/ RedisRestart \/ Done
        PROVE  job' \in [Worker -> Job] /\ pc' \in [Worker -> Label]
    BY <2>6 DEF Arrive, AckWait, SlowHandler, ExpireBands, ExpireEmbedding, RedisRestart, Done
  <2> QED
    BY <2>1, <2>2, <2>3, <2>4, <2>5, <2>6 DEF Next, Handle
<1>4. DataType'
  <2>1. ASSUME NEW w \in Worker,
               \/ CacheEmbedding(w) \/ AddBands(w) \/ AddTimeline(w) \/ Save(w) \/ MarkDirty(w)
        PROVE  DataType'
    BY <2>1 DEF CacheEmbedding, AddBands, AddTimeline, Save, MarkDirty, JobShape, Busy
  <2>2. ASSUME NEW w \in Worker, PublishDuplicate(w)
        PROVE  DataType'
    <3>1. [article |-> Hash(w), original |-> job[w].original, name |-> job[w].name] \in Duplicate
      BY <2>2 DEF PublishDuplicate, JobShape, Busy, Duplicate, Job
    <3> QED
      BY <2>2, <3>1 DEF PublishDuplicate
  <2>3. ASSUME NEW w \in Worker, PublishUnique(w)
        PROVE  DataType'
    BY <2>3 DEF PublishUnique, JobShape, Busy
  <2>4. ASSUME NEW w \in Worker,
               \/ GuardHit(w) \/ GuardMiss(w) \/ BandsMiss(w) \/ Embed(w)
               \/ BandsHit(w) \/ VectorsHit(w) \/ SearchHit(w) \/ GetTimeline(w)
               \/ VectorsMiss(w) \/ Ack(w) \/ EmbedFails(w) \/ Fail(w) \/ Crash(w)
        PROVE  UNCHANGED <<stored, cacheVars, eventVars>>
    BY <2>4
    DEF GuardHit, GuardMiss, BandsMiss, Embed, Step, BandsHit, VectorsHit,
        SearchHit, Hit, GetTimeline, VectorsMiss, Ack, EmbedFails, Fail, Crash
  <2>5. ASSUME \/ \E w \in Worker, m \in Message : Deliver(w, m)
               \/ \E m \in Message : Arrive(m) \/ AckWait(m) \/ SlowHandler(m)
               \/ Done
        PROVE  UNCHANGED <<stored, cacheVars, eventVars>>
    BY <2>5 DEF Deliver, Arrive, AckWait, SlowHandler, Done
  <2>6. ASSUME (\E a \in Article : ExpireBands(a) \/ ExpireEmbedding(a)) \/ RedisRestart
        PROVE  DataType'
    BY <2>6 DEF ExpireBands, ExpireEmbedding, RedisRestart
  <2>7. CASE UNCHANGED <<stored, cacheVars, eventVars>>
    BY <2>7
  <2>8. ASSUME NEW w \in Worker, SearchMiss(w)
        PROVE  DataType'
    BY <2>8 DEF SearchMiss, JobShape, Busy
  <2> QED
    BY <2>1, <2>2, <2>3, <2>4, <2>5, <2>6, <2>7, <2>8 DEF Next, Handle
<1>5. faults' \in 0 .. MaxFaults
  <2>1. faults' = faults \/ (faults < MaxFaults /\ faults' = faults + 1)
    <3>1. ASSUME NEW w \in Worker, Handle(w)
          PROVE  faults' = faults
      BY <3>1
      DEF Handle, GuardHit, GuardMiss, BandsHit, BandsMiss, Embed, Step, Hit, CacheEmbedding,
          GetTimeline, VectorsHit, VectorsMiss, SearchHit, SearchMiss, PublishDuplicate, AddBands,
          AddTimeline, Save, MarkDirty, PublishUnique, Ack
    <3>2. ASSUME NEW w \in Worker, EmbedFails(w) \/ Fail(w) \/ Crash(w)
          PROVE  faults < MaxFaults /\ faults' = faults + 1
      BY <3>2 DEF EmbedFails, Fail, Crash, Fault
    <3> QED
      BY <3>1, <3>2
      DEF Next, Deliver, Arrive, AckWait, SlowHandler, ExpireBands, ExpireEmbedding, RedisRestart,
          Done, Fault
  <2> QED
    BY <2>1, BoundsAssumption
<1> QED
  <2> HIDE DEF Label, cacheVars, busVars, eventVars, vars
  <2> QED
    BY <1>1, <1>2, <1>3, <1>4, <1>5 DEF DataType

\* Types, delivery budgets and the shape of the locals hold in every reachable
\* state.
LEMMA TypeInvariance == Spec => []TypeInv
<1>1. Init => TypeInv
    BY InitType
<1>2. TypeInv /\ [Next]_vars => TypeInv'
  <2>1. CASE Next
    BY <2>1, NextType
  <2>2. CASE UNCHANGED vars
    BY <2>2
    DEF vars, TypeInv, TypeOK, Bus!TypeOK, BudgetLeft, JobShape, Busy, Hash
  <2> QED
    BY <2>1, <2>2
<1> QED
    BY <1>1, <1>2, PTL DEF Spec

\* Every variable has its type in every reachable state.
THEOREM TypeCorrectness == Spec => []TypeOK
<1>1. TypeInv => TypeOK
    BY DEF TypeInv
<1> QED
    BY <1>1, TypeInvariance, PTL

-----------------------------------------------------------------------------
(* What is announced is stored. *)

\* A handler past its save has its article's row in the table, and so has every
\* article that was announced.
StoredInv ==
    /\ \A w \in Worker : pc[w] \in {"markDirty", "unique"} => Hash(w) \in stored
    /\ UniqueIsStored

\* Storing before announcing is preserved by every step.
LEMMA NextStoredInv ==
    ASSUME TypeInv, StoredInv, EnvStep \/ \E w \in Worker : WorkerStep(w)
    PROVE  StoredInv'
<1> USE DEF StoredInv, UniqueIsStored, Others, Hash
<1>1. CASE EnvStep
    BY <1>1 DEF EnvStep
<1>2. ASSUME NEW w \in Worker, Ended(w) \/ \E m \in Message : Started(w, m)
      PROVE  StoredInv'
    BY <1>2 DEF Ended, Started
<1>3. ASSUME NEW w \in Worker, Moved(w)
      PROVE  StoredInv'
  <2>1. /\ Others(w) /\ job'[w].msg = job[w].msg
        /\ stored \subseteq stored'
        /\ At(w, "save") => Hash(w) \in stored'
        /\ pc'[w] = "markDirty" => pc[w] = "save"
        /\ pc'[w] = "unique" => pc[w] = "markDirty"
    BY <1>3 DEF Moved, Route, Overlooks
  <2>2. \A v \in Worker : pc'[v] \in {"markDirty", "unique"} => Hash(v)' \in stored'
    BY <2>1
  <2>3. CASE At(w, "unique")
    <3>1. uniques' = [uniques EXCEPT ![job[w].msg] = @ + 1] /\ stored' = stored
      BY <1>3, <2>3 DEF Moved
    <3>2. job[w].msg \in Message /\ UrlHash[job[w].msg] \in stored
      BY <2>3 DEF TypeInv, JobShape, Busy
    <3>3. uniques \in [Message -> Nat]
      BY DEF TypeInv, TypeOK
    <3>4. \A m \in Message : m # job[w].msg => uniques'[m] = uniques[m]
      BY <3>1, <3>3
    <3> QED
      BY <2>2, <3>1, <3>2, <3>4
  <2>4. CASE ~ At(w, "unique")
    BY <1>3, <2>1, <2>2, <2>4 DEF Moved
  <2> QED
    BY <2>3, <2>4
<1> QED
    BY <1>1, <1>2, <1>3 DEF WorkerStep

\* Whatever fails and whoever crashes, ARTICLE_UNIQUE speaks of stored articles
\* only: the clustering engine finds the row of every article it is told of.
THEOREM AnnouncedIsStored == Spec => []UniqueIsStored
<1>1. Init => StoredInv
    BY DEF Init, StoredInv, UniqueIsStored
<1>2. TypeInv /\ StoredInv /\ [Next]_vars => StoredInv'
  <2>1. CASE Next
    BY <2>1, StepKinds, NextStoredInv DEF TypeInv
  <2>2. CASE UNCHANGED vars
    BY <2>2 DEF vars, StoredInv, UniqueIsStored, Hash
  <2> QED
    BY <2>1, <2>2
<1>3. StoredInv => UniqueIsStored
    BY DEF StoredInv
<1> QED
    BY <1>1, <1>2, <1>3, TypeInvariance, PTL DEF Spec

-----------------------------------------------------------------------------
(* Alike articles. *)

\* Handlers between the search of the database and the save.
Passed(w) == pc[w] \in {"addBands", "addTimeline", "save"}

\* Articles that are stored or about to be, and were not overlooked.
Kept == (stored \cup {Hash(w) : w \in {v \in Worker : Passed(v)}}) \ overlooked

Clones(S) == \A a, b \in S : <<a, b>> \in Alike

\* A group of alike articles that are stored or about to be is no larger than
\* the number of replicas.
KeptBound ==
    \A S \in SUBSET Kept : Clones(S) => /\ IsFiniteSet(S)
                                        /\ Cardinality(S) <= Cardinality(Worker)

\* Articles in the hands of different handlers are no more than the handlers.
LEMMA HandsBound ==
    ASSUME NEW S, NEW h, \A a \in S : \E w \in Worker : a = h[w]
    PROVE  IsFiniteSet(S) /\ Cardinality(S) <= Cardinality(Worker)
<1> DEFINE f == [a \in S |-> CHOOSE w \in Worker : a = h[w]]
<1>1. \A a \in S : f[a] \in Worker /\ a = h[f[a]]
    OBVIOUS
<1>2. f \in Injection(S, Worker)
    BY <1>1 DEF Injection, IsInjective
<1> QED
    BY <1>2, FS_Injection, BoundsAssumption

\* A step adds to the articles that are stored or about to be, those overlooked
\* apart, only one that resembles none of the stored ones.
LEMMA NextKept ==
    ASSUME TypeInv, EnvStep \/ \E w \in Worker : WorkerStep(w)
    PROVE  \/ Kept' \subseteq Kept
           \/ /\ stored' = stored
              /\ \E w \in Worker :
                  /\ \/ Hash(w)' \in overlooked'
                     \/ \A a \in stored : <<Hash(w)', a>> \notin Alike
                  /\ Kept' \subseteq Kept \cup {Hash(w)'}
<1> USE DEF Kept, Passed, Hash, Others
<1>1. CASE EnvStep
    BY <1>1 DEF EnvStep
<1>2. ASSUME NEW w \in Worker, Ended(w) \/ \E m \in Message : Started(w, m)
      PROVE  Kept' \subseteq Kept
    BY <1>2 DEF Ended, Started
<1>3. ASSUME NEW w \in Worker, Moved(w), ~ At(w, "search") \/ pc'[w] # "addBands"
      PROVE  Kept' \subseteq Kept
  <2>1. /\ Others(w) /\ job'[w].msg = job[w].msg /\ overlooked \subseteq overlooked'
        /\ pc'[w] \in {"addBands", "addTimeline", "save"} =>
                pc[w] \in {"addBands", "addTimeline", "save"}
        /\ stored' = stored \/ (pc[w] = "save" /\ stored' = stored \cup {UrlHash[job[w].msg]})
    BY <1>3 DEF Moved, Route, Overlooks
  <2> QED
    BY <2>1
<1>4. ASSUME NEW w \in Worker, Moved(w), At(w, "search"), pc'[w] = "addBands"
      PROVE  /\ stored' = stored
             /\ \/ Hash(w)' \in overlooked'
                \/ \A a \in stored : <<Hash(w)', a>> \notin Alike
             /\ Kept' \subseteq Kept \cup {Hash(w)'}
  <2>1. /\ Others(w) /\ job'[w].msg = job[w].msg /\ stored' = stored
        /\ overlooked \subseteq overlooked'
        /\ Hash(w) \in overlooked' \/ \A b \in Article : ~ Matched(w, b)
    BY <1>4 DEF Moved, Overlooks
  <2>2. stored \subseteq Article
    BY DEF TypeInv, TypeOK
  <2> QED
    BY <1>4, <2>1, <2>2 DEF Matched
<1> QED
    BY <1>1, <1>2, <1>3, <1>4 DEF WorkerStep

\* The bound is preserved by every step.
LEMMA NextKeptBound ==
    ASSUME TypeInv, TypeInv', KeptBound,
           EnvStep \/ \E w \in Worker : WorkerStep(w)
    PROVE  KeptBound'
<1> SUFFICES ASSUME NEW S \in SUBSET Kept', Clones(S)
             PROVE  IsFiniteSet(S) /\ Cardinality(S) <= Cardinality(Worker)
    BY DEF KeptBound, Clones
<1>1. CASE S \subseteq Kept
    BY <1>1 DEF KeptBound
<1>2. CASE ~ (S \subseteq Kept)
  <2>1. PICK w \in Worker :
            /\ stored' = stored
            /\ Hash(w)' \in S
            /\ \A a \in stored : <<Hash(w)', a>> \notin Alike
    <3>1. PICK v \in Worker :
            /\ stored' = stored
            /\ \/ Hash(v)' \in overlooked'
               \/ \A a \in stored : <<Hash(v)', a>> \notin Alike
            /\ Kept' \subseteq Kept \cup {Hash(v)'}
      BY <1>2, NextKept
    <3>2. Hash(v)' \in S
      BY <1>2, <3>1
    <3>3. Hash(v)' \notin overlooked'
      BY <3>2 DEF Kept
    <3>. QED
      BY <3>1, <3>2, <3>3
  <2>2. S \cap stored' = {}
    BY <2>1 DEF Clones
  <2> DEFINE h == [v \in Worker |-> UrlHash[job'[v].msg]]
  <2>3. \A a \in S : \E v \in Worker : a = h[v]
    BY <2>2 DEF Kept, Hash
  <2> HIDE DEF h
  <2> QED
    BY <2>3, HandsBound
<1> QED
    BY <1>1, <1>2

\* Those that the vector index overlooked apart, alike articles are stored at most once
\* per replica: the window between search and save is all they can slip through.
THEOREM ClonesAreBounded == Spec => []ClonesBoundedByReplicas
<1>1. Init => KeptBound
  <2> SUFFICES ASSUME Init PROVE KeptBound
      OBVIOUS
  <2>1. Kept = {}
    BY DEF Init, Kept, Passed
  <2>2. Cardinality(Worker) \in Nat
    BY FS_CardinalityType, BoundsAssumption
  <2> QED
    BY <2>1, <2>2, FS_EmptySet DEF KeptBound
<1>2. TypeInv /\ TypeInv' /\ KeptBound /\ [Next]_vars => KeptBound'
  <2>1. CASE Next
    BY <2>1, StepKinds, NextKeptBound DEF TypeInv
  <2>2. CASE UNCHANGED vars
    BY <2>2 DEF vars, KeptBound, Kept, Passed, Hash
  <2> QED
    BY <2>1, <2>2
<1>3. KeptBound => ClonesBoundedByReplicas
    BY DEF KeptBound, ClonesBoundedByReplicas, Kept, Clones
<1> QED
    BY <1>1, <1>2, <1>3, TypeInvariance, PTL DEF Spec

-----------------------------------------------------------------------------
(* What survives when nothing goes wrong. *)

\* The article is stored, or a replica is about to store it.
Going(a) == a \in stored \/ Within(a, {"addTimeline", "save"})

\* Whatever a replica can meet in Redis, has met or has declared to be an original
\* is stored or about to be.
OriginalsInv ==
    /\ \A b \in bands \cup timeline : Going(b)
    /\ \A w \in Worker : pc[w] = "vectors" => \A b \in job[w].recent : Going(b)
    /\ \A w \in Worker : pc[w] = "duplicate" => Going(job[w].original)
    /\ \A d \in duplicates : Going(d.original)

\* The article was announced, or a replica with one of its messages is about to
\* announce it.
Told(a) ==
    \/ Announced(a) \/ Declared(a)
    \/ a \in stored /\ Within(a, {"markDirty", "unique"})

\* A stored article is not passed over in silence, nor is one whose handler is
\* through.
ToldInv ==
    /\ \A a \in stored : Told(a)
    /\ \A w \in Worker : pc[w] = "ack" => Told(Hash(w))
    /\ \A m \in Message : mstate[m] = "acked" => Told(UrlHash[m])

\* What can happen as long as there is no fault.
QuietStep ==
    \/ \E w \in Worker : Handle(w)
    \/ \E w \in Worker, m \in Message : Deliver(w, m)
    \/ \E m \in Message : Arrive(m) \/ AckWait(m)
    \/ \E a \in Article : ExpireBands(a) \/ ExpireEmbedding(a)
    \/ RedisRestart

\* A state without faults is reached by quiet steps only.
LEMMA QuietSteps ==
    ASSUME TypeInv, [Next]_vars, faults' = 0
    PROVE  faults = 0 /\ (QuietStep \/ UNCHANGED vars)
<1>1. faults \in Nat
    BY BoundsAssumption DEF TypeInv, TypeOK
<1>2. CASE UNCHANGED vars
    BY <1>2 DEF vars
<1>3. ASSUME \/ \E w \in Worker : EmbedFails(w) \/ Fail(w) \/ Crash(w)
             \/ \E m \in Message : SlowHandler(m)
      PROVE  FALSE
    BY <1>1, <1>3 DEF EmbedFails, Fail, Crash, SlowHandler, Fault
<1>4. ASSUME NEW w \in Worker, Handle(w)
      PROVE  faults' = faults
    BY <1>4
    DEF Handle, GuardHit, GuardMiss, BandsHit, BandsMiss, Embed, Step, Hit, CacheEmbedding,
        GetTimeline, VectorsHit, VectorsMiss, SearchHit, SearchMiss, PublishDuplicate, AddBands,
        AddTimeline, Save, MarkDirty, PublishUnique, Ack
<1>5. CASE Done
    BY <1>5 DEF Done, vars
<1>6. ASSUME \/ \E w \in Worker, m \in Message : Deliver(w, m)
             \/ \E m \in Message : Arrive(m) \/ AckWait(m)
             \/ \E a \in Article : ExpireBands(a) \/ ExpireEmbedding(a)
             \/ RedisRestart
      PROVE  faults' = faults
    BY <1>6 DEF Deliver, Arrive, AckWait, ExpireBands, ExpireEmbedding, RedisRestart
<1>. QED
    BY <1>2, <1>3, <1>4, <1>5, <1>6 DEF Next, QuietStep

\* Of the handlers, only one that is through ends without a fault.
LEMMA QuietKinds ==
    ASSUME TypeInv, QuietStep
    PROVE  \/ EnvStep
           \/ \E w \in Worker : Moved(w) \/ (At(w, "ack") /\ Ended(w))
           \/ \E w \in Worker, m \in Message : Started(w, m)
<1>. USE DEF TypeInv, TypeOK, Others, cacheVars, busVars, eventVars
<1>1. ASSUME NEW w \in Worker, Ack(w)
      PROVE  At(w, "ack") /\ Ended(w)
    BY <1>1 DEF Ack, Ended, Busy, Bus!Ack
<1>2. ASSUME NEW w \in Worker, NEW m \in Message, Deliver(w, m)
      PROVE  Started(w, m)
    BY <1>2 DEF Deliver, Started, Busy, NoJob, Job, Bus!Deliver
<1>3. ASSUME \/ \E m \in Message : Arrive(m) \/ AckWait(m)
             \/ \E a \in Article : ExpireBands(a) \/ ExpireEmbedding(a)
             \/ RedisRestart
      PROVE  EnvStep
    BY <1>3
    DEF Arrive, AckWait, ExpireBands, ExpireEmbedding, RedisRestart, EnvStep, Bus!Publish,
        Bus!AckWait
<1>. QED
    BY <1>1, <1>2, <1>3, HandleKinds DEF QuietStep

\* An article on its way to the table gets there.
LEMMA GoingStays ==
    ASSUME TypeInv, QuietStep, NEW a, Going(a)
    PROVE  Going(a)'
<1>. USE DEF Going, Within, Hash, Others
<1>1. CASE EnvStep
    BY <1>1 DEF EnvStep
<1>2. ASSUME NEW w \in Worker, (At(w, "ack") /\ Ended(w)) \/ \E m \in Message : Started(w, m)
      PROVE  Going(a)'
    BY <1>2 DEF Ended, Started, Busy
<1>3. ASSUME NEW w \in Worker, Moved(w)
      PROVE  Going(a)'
  <2>1. /\ Others(w) /\ job'[w].msg = job[w].msg
        /\ pc[w] = "addTimeline" => pc'[w] = "save"
        /\ pc[w] = "save" => UrlHash[job[w].msg] \in stored'
        /\ stored \subseteq stored'
    BY <1>3 DEF Moved, Route, Overlooks
  <2>. QED
    BY <2>1
<1>. QED
    BY <1>1, <1>2, <1>3, QuietKinds

\* Originals are not lost by a step without a fault.
LEMMA OriginalsStep ==
    ASSUME TypeInv, OriginalsInv, QuietStep
    PROVE  OriginalsInv'
<1>0. \A a : Going(a) => Going(a)'
    BY GoingStays
<1>. DEFINE Rest(w) == \A v \in Worker \ {w} : pc'[v] = pc[v] /\ job'[v] = job[v]
<1>1. ASSUME \A b \in bands' \cup timeline' : b \in bands \cup timeline \/ Going(b)',
             \A d \in duplicates' : d \in duplicates \/ Going(d.original)',
             NEW w \in Worker, Rest(w),
             pc'[w] = "vectors" => \A b \in job'[w].recent : Going(b),
             pc'[w] = "duplicate" => Going(job'[w].original)
      PROVE  OriginalsInv'
  <2>1. ASSUME NEW b \in bands' \cup timeline'
        PROVE  Going(b)'
    <3>1. CASE b \in bands \cup timeline
      <4>1. Going(b)
        BY <3>1 DEF OriginalsInv
      <4>. QED
        BY <1>0, <4>1
    <3>. QED
      BY <1>1, <3>1
  <2>2. \A v \in Worker : pc'[v] = "vectors" => \A b \in job'[v].recent : Going(b)'
    BY <1>0, <1>1 DEF OriginalsInv
  <2>3. ASSUME NEW v \in Worker, pc'[v] = "duplicate", NEW a, a = job'[v].original
        PROVE  Going(a)'
    <3>1. Going(a)
      BY <1>1, <2>3 DEF OriginalsInv
    <3>. QED
      BY <1>0, <3>1
  <2>4. \A d \in duplicates' : Going(d.original)'
    BY <1>0, <1>1 DEF OriginalsInv
  <2>. QED
    BY <2>1, <2>2, <2>3, <2>4 DEF OriginalsInv, Going
<1>2. ASSUME NEW w \in Worker,
             \/ GuardHit(w) \/ GuardMiss(w) \/ BandsMiss(w) \/ Embed(w) \/ SearchMiss(w)
             \/ CacheEmbedding(w) \/ VectorsMiss(w) \/ Save(w) \/ MarkDirty(w)
             \/ PublishUnique(w) \/ Ack(w)
      PROVE  OriginalsInv'
  <2>1. /\ UNCHANGED <<bands, timeline, duplicates>> /\ Rest(w)
        /\ pc'[w] \notin {"vectors", "duplicate"}
    BY <1>2
    DEF GuardHit, GuardMiss, BandsMiss, Embed, SearchMiss, Step, CacheEmbedding, VectorsMiss, Save,
        MarkDirty, PublishUnique, Ack, TypeInv, TypeOK, cacheVars, eventVars
  <2>. QED
    BY <1>1, <2>1
<1>3. ASSUME NEW w \in Worker, BandsHit(w) \/ VectorsHit(w) \/ SearchHit(w)
      PROVE  OriginalsInv'
  <2>1. PICK b, from, name : /\ Hit(w, from, b, name)
                             /\ \/ b \in bands
                                \/ pc[w] = "vectors" /\ b \in job[w].recent
                                \/ b \in stored
    <3>1. CASE BandsHit(w)
      BY <3>1 DEF BandsHit
    <3>2. CASE VectorsHit(w)
      BY <3>2 DEF VectorsHit, Candidate, Hit
    <3>3. CASE SearchHit(w)
      BY <3>3 DEF SearchHit, Matched
    <3>. QED
      BY <1>3, <3>1, <3>2, <3>3
  <2>2. Going(b)
    BY <2>1 DEF OriginalsInv, Going
  <2>3. /\ UNCHANGED <<bands, timeline, duplicates>> /\ Rest(w)
        /\ pc'[w] = "duplicate" /\ job'[w].original = b
    BY <2>1 DEF Hit, TypeInv, TypeOK, Job, cacheVars, eventVars
  <2>. QED
    BY <1>1, <2>2, <2>3
<1>4. ASSUME NEW w \in Worker, GetTimeline(w)
      PROVE  OriginalsInv'
  <2>1. /\ UNCHANGED <<bands, timeline, duplicates>> /\ Rest(w)
        /\ pc'[w] = "vectors" /\ job'[w].recent \subseteq timeline
    BY <1>4 DEF GetTimeline, TypeInv, TypeOK, Job, cacheVars, eventVars
  <2>. QED
    BY <1>1, <2>1 DEF OriginalsInv
<1>5. ASSUME NEW w \in Worker, PublishDuplicate(w)
      PROVE  OriginalsInv'
  <2>1. /\ UNCHANGED <<bands, timeline>> /\ Rest(w) /\ pc'[w] = "ack"
        /\ \A d \in duplicates' : d \in duplicates \/ d.original = job[w].original
    BY <1>5 DEF PublishDuplicate, TypeInv, TypeOK, cacheVars
  <2>2. \A a : a = job[w].original => Going(a)'
    BY <1>0, <1>5 DEF PublishDuplicate, OriginalsInv
  <2>3. \A d \in duplicates' : d \in duplicates \/ Going(d.original)'
    BY <2>1, <2>2
  <2>. QED
    BY <1>1, <2>1, <2>3
<1>6. ASSUME NEW w \in Worker, AddBands(w) \/ AddTimeline(w)
      PROVE  OriginalsInv'
  <2>1. /\ duplicates' = duplicates /\ job' = job /\ Rest(w)
        /\ bands' \cup timeline' \subseteq bands \cup timeline \cup {Hash(w)}
        /\ pc'[w] \in {"addTimeline", "save"}
    BY <1>6 DEF AddBands, AddTimeline, TypeInv, TypeOK, eventVars
  <2>2. Going(Hash(w))'
    BY <2>1 DEF Going, Within, Hash
  <2>3. \A b \in bands' \cup timeline' : b \in bands \cup timeline \/ Going(b)'
    BY <2>1, <2>2 DEF Hash
  <2>. QED
    BY <1>1, <2>1, <2>3
<1>7. ASSUME NEW w \in Worker, NEW m \in Message, Deliver(w, m)
      PROVE  OriginalsInv'
  <2>1. UNCHANGED <<bands, timeline, duplicates>> /\ Rest(w) /\ pc'[w] = "guard"
    BY <1>7 DEF Deliver, TypeInv, TypeOK, cacheVars, eventVars
  <2>. QED
    BY <1>1, <2>1
<1>8. ASSUME \/ \E m \in Message : Arrive(m) \/ AckWait(m)
             \/ \E a \in Article : ExpireBands(a) \/ ExpireEmbedding(a)
             \/ RedisRestart
      PROVE  OriginalsInv'
  <2>1. UNCHANGED <<pc, job, duplicates>> /\ bands' \subseteq bands /\ timeline' \subseteq timeline
    BY <1>8 DEF Arrive, AckWait, ExpireBands, ExpireEmbedding, RedisRestart, cacheVars, eventVars
  <2>. QED
    BY <1>0, <2>1 DEF OriginalsInv
<1>. QED
    BY <1>2, <1>3, <1>4, <1>5, <1>6, <1>7, <1>8 DEF QuietStep, Handle

\* Without a fault two alike articles never drop each other: what one is declared a
\* duplicate of is stored, or about to be.
THEOREM OriginalsAreKept == Spec => []OriginalsSurvive
<1>1. Init => (faults = 0 => OriginalsInv)
    BY DEF Init, OriginalsInv
<1>2. TypeInv /\ (faults = 0 => OriginalsInv) /\ [Next]_vars => (faults = 0 => OriginalsInv)'
  <2>. SUFFICES ASSUME TypeInv, faults = 0 => OriginalsInv, [Next]_vars, faults' = 0
                PROVE  OriginalsInv'
      OBVIOUS
  <2>1. CASE UNCHANGED vars
    BY <2>1 DEF vars, OriginalsInv, Going, Within, Hash
  <2>. QED
    BY <2>1, QuietSteps, OriginalsStep
<1>3. (faults = 0 => OriginalsInv) => OriginalsSurvive
    BY DEF OriginalsInv, OriginalsSurvive, Going
<1>. QED
    BY <1>1, <1>2, <1>3, TypeInvariance, PTL DEF Spec

\* Who is told of an article stays told.
LEMMA ToldStays ==
    ASSUME TypeInv, QuietStep, NEW a, Told(a)
    PROVE  Told(a)'
<1>1. CASE Announced(a)
  <2>1. \A m \in Message : uniques[m] > 0 => uniques'[m] > 0
    <3>. USE DEF TypeInv, TypeOK
    <3>1. ASSUME NEW w \in Worker, Moved(w)
          PROVE  \A m \in Message : uniques[m] > 0 => uniques'[m] > 0
      BY <3>1 DEF Moved
    <3>2. uniques' = uniques => \A m \in Message : uniques[m] > 0 => uniques'[m] > 0
      OBVIOUS
    <3>. QED
      BY <3>1, <3>2, QuietKinds DEF EnvStep, Ended, Started
  <2>. QED
    BY <1>1, <2>1 DEF Told, Announced
<1>2. CASE Declared(a)
  <2>1. duplicates \subseteq duplicates'
    BY
    DEF QuietStep, Handle, GuardHit, GuardMiss, BandsHit, BandsMiss, Embed, Step, Hit,
        CacheEmbedding, GetTimeline, VectorsHit, VectorsMiss, SearchHit, SearchMiss,
        PublishDuplicate, AddBands, AddTimeline, Save, MarkDirty, PublishUnique, Ack, Deliver,
        Arrive, AckWait, ExpireBands, ExpireEmbedding, RedisRestart, eventVars
  <2>. QED
    BY <1>2, <2>1 DEF Told, Declared
<1>3. CASE a \in stored /\ Within(a, {"markDirty", "unique"})
  <2>. USE DEF Told, Within, Hash, Others
  <2>1. CASE EnvStep
    BY <1>3, <2>1 DEF EnvStep
  <2>2. ASSUME NEW w \in Worker, (At(w, "ack") /\ Ended(w)) \/ \E m \in Message : Started(w, m)
        PROVE  Told(a)'
    BY <1>3, <2>2 DEF Ended, Started, Busy
  <2>3. ASSUME NEW w \in Worker, Moved(w)
        PROVE  Told(a)'
    <3>1. /\ Others(w) /\ job'[w].msg = job[w].msg
          /\ pc[w] = "markDirty" => pc'[w] = "unique"
          /\ stored \subseteq stored'
      BY <2>3 DEF Moved, Route
    <3>2. CASE pc[w] = "unique"
      <4>1. job[w].msg \in Message /\ uniques' = [uniques EXCEPT ![job[w].msg] = @ + 1]
        BY <2>3, <3>2 DEF Moved, TypeInv, JobShape, Busy
      <4>2. uniques'[job[w].msg] > 0
        BY <4>1 DEF TypeInv, TypeOK
      <4>3. CASE UrlHash[job[w].msg] = a
        BY <4>1, <4>2, <4>3 DEF Announced
      <4>4. CASE UrlHash[job[w].msg] # a
        BY <1>3, <3>1, <4>4
      <4>. QED
        BY <4>3, <4>4
    <3>3. CASE pc[w] # "unique"
      BY <1>3, <3>1, <3>3
    <3>. QED
      BY <3>2, <3>3
  <2>. QED
    BY <2>1, <2>2, <2>3, QuietKinds
<1>. QED
    BY <1>1, <1>2, <1>3 DEF Told

\* No article is passed over in silence by a step without a fault.
LEMMA ToldStep ==
    ASSUME TypeInv, ToldInv, QuietStep
    PROVE  ToldInv'
<1>0. \A a : Told(a) => Told(a)'
    BY ToldStays
<1>1. \A a \in stored' : Told(a)'
  <2>1. ASSUME NEW w \in Worker, Save(w)
        PROVE  \A a \in stored' : Told(a)'
    <3>1. /\ pc'[w] = "markDirty" /\ job' = job
          /\ stored' = stored \cup {UrlHash[job[w].msg]}
      BY <2>1 DEF Save, TypeInv, TypeOK, Hash
    <3>3. ASSUME NEW a, a = UrlHash[job'[w].msg], a \in stored'
          PROVE  Told(a)'
      BY <3>1, <3>3 DEF Told, Within, Hash
    <3>. QED
      BY <1>0, <3>1, <3>3 DEF ToldInv
  <2>3. ASSUME NEW w \in Worker, Handle(w), ~ Save(w)
        PROVE  stored' = stored
    BY <2>3
    DEF Handle, GuardHit, GuardMiss, BandsHit, BandsMiss, Embed, Step, Hit, CacheEmbedding,
        GetTimeline, VectorsHit, VectorsMiss, SearchHit, SearchMiss, PublishDuplicate, AddBands,
        AddTimeline, MarkDirty, PublishUnique, Ack
  <2>4. CASE stored' = stored
    BY <1>0, <2>4 DEF ToldInv
  <2>6. CASE \/ \E w \in Worker, m \in Message : Deliver(w, m)
             \/ \E m \in Message : Arrive(m) \/ AckWait(m)
             \/ \E a \in Article : ExpireBands(a) \/ ExpireEmbedding(a)
             \/ RedisRestart
    BY <2>4, <2>6 DEF Deliver, Arrive, AckWait, ExpireBands, ExpireEmbedding, RedisRestart
  <2>. QED
    BY <2>1, <2>3, <2>4, <2>6 DEF QuietStep
<1>. DEFINE Safe(w) == pc'[w] = "ack" => \A a : a = UrlHash[job'[w].msg] => Told(a)'
<1>2. \A w \in Worker : Safe(w)
  <2>1. CASE EnvStep
    BY <1>0, <2>1 DEF EnvStep, ToldInv, Hash
  <2>2. ASSUME NEW w \in Worker, (At(w, "ack") /\ Ended(w)) \/ \E m \in Message : Started(w, m)
        PROVE  \A v \in Worker : Safe(v)
    BY <1>0, <2>2 DEF Ended, Started, Others, ToldInv, Hash
  <2>3. ASSUME NEW w \in Worker, GuardHit(w) \/ PublishDuplicate(w) \/ PublishUnique(w)
        PROVE  Safe(w)
    <3>1. job' = job /\ job[w].msg \in Message
      BY <2>3
      DEF GuardHit, Step, PublishDuplicate, PublishUnique, TypeInv, JobShape, Busy
    <3>2. CASE GuardHit(w)
      BY <1>0, <3>1, <3>2 DEF GuardHit, ToldInv, Hash
    <3>3. CASE PublishDuplicate(w)
      <4>1. [article |-> UrlHash[job[w].msg], original |-> job[w].original,
             name |-> job[w].name] \in duplicates'
        BY <3>3 DEF PublishDuplicate, Hash
      <4>. QED
        BY <3>1, <4>1 DEF Told, Declared
    <3>4. CASE PublishUnique(w)
      <4>1. uniques'[job[w].msg] > 0
        BY <3>1, <3>4 DEF PublishUnique, TypeInv, TypeOK
      <4>. QED
        BY <3>1, <4>1 DEF Told, Announced
    <3>. QED
      BY <2>3, <3>2, <3>3, <3>4
  <2>4. ASSUME NEW w \in Worker, Handle(w), ~ Ack(w),
               ~ (GuardHit(w) \/ PublishDuplicate(w) \/ PublishUnique(w))
        PROVE  pc'[w] # "ack"
    BY <2>4
    DEF Handle, GuardMiss, BandsHit, BandsMiss, Embed, Step, Hit, CacheEmbedding, GetTimeline,
        VectorsHit, VectorsMiss, SearchHit, SearchMiss, AddBands, AddTimeline, Save, MarkDirty,
        TypeInv, TypeOK
  <2>5. ASSUME NEW w \in Worker, Handle(w), ~ Ack(w)
        PROVE  \A v \in Worker : Safe(v)
    <3>1. Others(w)
      BY <2>5, HandleKinds DEF Moved, TypeInv
    <3>2. \A v \in Worker : v # w => Safe(v)
      BY <1>0, <3>1 DEF Others, ToldInv, Hash
    <3>. QED
      BY <2>3, <2>4, <2>5, <3>2
  <2>6. ASSUME NEW w \in Worker, Ack(w)
        PROVE  At(w, "ack") /\ Ended(w)
    BY <2>6 DEF Ack, Ended, Busy, Others, TypeInv, TypeOK, eventVars, Bus!Ack
  <2>7. ASSUME NEW w \in Worker, NEW m \in Message, Deliver(w, m)
        PROVE  Started(w, m)
    BY <2>7
    DEF Deliver, Started, Busy, Others, NoJob, Job, TypeInv, TypeOK, eventVars, Bus!Deliver
  <2>8. ASSUME \/ \E m \in Message : Arrive(m) \/ AckWait(m)
               \/ \E a \in Article : ExpireBands(a) \/ ExpireEmbedding(a)
               \/ RedisRestart
        PROVE  EnvStep
    BY <2>8
    DEF Arrive, AckWait, ExpireBands, ExpireEmbedding, RedisRestart, EnvStep, eventVars,
        Bus!Publish, Bus!AckWait, busVars
  <2>. QED
    BY <2>1, <2>2, <2>5, <2>6, <2>7, <2>8 DEF QuietStep
<1>3. \A m \in Message : mstate'[m] = "acked" => Told(UrlHash[m])'
  <2>1. ASSUME NEW w \in Worker, Ack(w), NEW m \in Message, mstate'[m] = "acked"
        PROVE  Told(UrlHash[m])
    <3>1. mstate[m] = "acked" \/ m = job[w].msg
      BY <2>1 DEF Ack, Bus!Ack, TypeInv, TypeOK, Bus!TypeOK
    <3>. QED
      BY <2>1, <3>1 DEF Ack, ToldInv, Hash
  <2>2. ASSUME \/ \E w \in Worker : Handle(w) /\ ~ Ack(w)
               \/ \E w \in Worker, m \in Message : Deliver(w, m)
               \/ \E m \in Message : Arrive(m) \/ AckWait(m)
               \/ \E a \in Article : ExpireBands(a) \/ ExpireEmbedding(a)
               \/ RedisRestart
        PROVE  \A m \in Message : mstate'[m] = "acked" => mstate[m] = "acked"
    <3>1. ASSUME \/ \E w \in Worker : Handle(w) /\ ~ Ack(w)
                 \/ \E a \in Article : ExpireBands(a) \/ ExpireEmbedding(a)
                 \/ RedisRestart
          PROVE  mstate' = mstate
      BY <3>1
      DEF Handle, GuardHit, GuardMiss, BandsHit, BandsMiss, Embed, Step, Hit, CacheEmbedding,
          GetTimeline, VectorsHit, VectorsMiss, SearchHit, SearchMiss, PublishDuplicate, AddBands,
          AddTimeline, Save, MarkDirty, PublishUnique, ExpireBands, ExpireEmbedding, RedisRestart,
          busVars
    <3>2. ASSUME NEW m \in Message, Bus!Publish(m) \/ Bus!Deliver(m) \/ Bus!AckWait(m)
          PROVE  \A n \in Message : mstate'[n] = "acked" => mstate[n] = "acked"
      BY <3>2 DEF Bus!Publish, Bus!Deliver, Bus!AckWait, Bus!Requeued, TypeInv, TypeOK, Bus!TypeOK
    <3>. QED
      BY <2>2, <3>1, <3>2 DEF Deliver, Arrive, AckWait
  <2>. QED
    BY <1>0, <2>1, <2>2 DEF QuietStep, ToldInv
<1>. QED
    BY <1>1, <1>2, <1>3 DEF ToldInv, Hash

\* Without a fault every acknowledged article was announced, declared a duplicate, or
\* is about to be announced by another replica: none disappears without a word.
THEOREM AcknowledgedIsTold == Spec => []Accounted
<1>1. Init => (faults = 0 => ToldInv)
    BY DEF Init, Bus!Init, ToldInv
<1>2. TypeInv /\ (faults = 0 => ToldInv) /\ [Next]_vars => (faults = 0 => ToldInv)'
  <2>. SUFFICES ASSUME TypeInv, faults = 0 => ToldInv, [Next]_vars, faults' = 0
                PROVE  ToldInv'
      OBVIOUS
  <2>1. CASE UNCHANGED vars
    BY <2>1 DEF vars, ToldInv, Told, Announced, Declared, Within, Hash
  <2>. QED
    BY <2>1, QuietSteps, ToldStep
<1>3. (faults = 0 => ToldInv) => Accounted
    BY DEF ToldInv, Accounted, Told
<1>. QED
    BY <1>1, <1>2, <1>3, TypeInvariance, PTL DEF Spec

-----------------------------------------------------------------------------
(* How often an article is announced. *)

\* The replicas that may yet announce the article of the message.
Announcers(m) == {w \in Worker : pc[w] \notin {"idle", "ack"} /\ job[w].msg = m}

\* Each of them has a delivery of its own that nobody announced the article for.
RoomInv == \A m \in Message : Fits(Announcers(m), uniques[m], delivered[m])

\* No message announces its article more often than it was delivered.
AnnouncedPerDelivery == \A m \in Message : uniques[m] <= delivered[m]

\* Who is about to announce an article has not used up the deliveries of its message.
AnnouncingFits == \A w \in Worker : At(w, "unique") => uniques[job[w].msg] < MaxDeliver

\* Each announcer keeps its delivery to itself, whatever the others do.
LEMMA RoomStep ==
    ASSUME TypeInv, RoomInv, Next
    PROVE  RoomInv'
<1>. SUFFICES ASSUME NEW m \in Message
              PROVE  Fits(Announcers(m), uniques[m], delivered[m])'
    BY DEF RoomInv
<1>1. /\ Fits(Announcers(m), uniques[m], delivered[m])
      /\ uniques[m] \in Nat /\ delivered[m] \in Nat
    BY BoundsAssumption DEF RoomInv, TypeInv, TypeOK, Bus!TypeOK
<1>2. ASSUME Announcers(m)' \subseteq Announcers(m), uniques'[m] = uniques[m],
             delivered'[m] = delivered[m]
      PROVE  Fits(Announcers(m), uniques[m], delivered[m])'
    BY <1>1, <1>2, BudgetKept
<1>3. CASE EnvStep
    BY <1>2, <1>3 DEF EnvStep, Announcers
<1>4. ASSUME NEW w \in Worker, Ended(w)
      PROVE  Fits(Announcers(m), uniques[m], delivered[m])'
    BY <1>2, <1>4 DEF Ended, Others, Announcers
<1>5. ASSUME NEW w \in Worker, NEW n \in Message, Started(w, n)
      PROVE  Fits(Announcers(m), uniques[m], delivered[m])'
  <2>1. Announcers(m)' \subseteq Announcers(m) \cup {w}
    BY <1>5 DEF Started, Others, Announcers
  <2>2. uniques'[m] = uniques[m]
    BY <1>5 DEF Started
  <2>3. CASE n = m
    <3>1. delivered'[m] = delivered[m] + 1
      BY <1>5, <2>3 DEF Started, TypeInv, TypeOK, Bus!TypeOK
    <3>2. \A T \in SUBSET (Announcers(m) \cup {w}) : Fits(T, uniques[m], delivered[m] + 1)
      BY <1>1, BudgetMade
    <3>3. Fits(Announcers(m)', uniques[m], delivered[m] + 1)
      BY <2>1, <3>2
    <3>. QED
      BY <2>2, <3>1, <3>3
  <2>4. CASE n # m
    BY <1>2, <1>5, <2>4 DEF Started, Others, Announcers, Busy, TypeInv, TypeOK, Bus!TypeOK
  <2>. QED
    BY <2>3, <2>4
<1>6. ASSUME NEW w \in Worker, Moved(w)
      PROVE  Fits(Announcers(m), uniques[m], delivered[m])'
  <2>1. Announcers(m)' \subseteq Announcers(m) /\ delivered'[m] = delivered[m]
    BY <1>6 DEF Moved, Route, Others, Announcers
  <2>2. CASE At(w, "unique") /\ job[w].msg = m
    <3>1. w \in Announcers(m) /\ Announcers(m)' \subseteq Announcers(m) \ {w}
      BY <1>6, <2>1, <2>2 DEF Moved, Route, Announcers
    <3>2. uniques'[m] = uniques[m] + 1
      BY <1>6, <2>2 DEF Moved, TypeInv, TypeOK
    <3>. QED
      BY <1>1, <2>1, <3>1, <3>2, BudgetUsed
  <2>3. CASE ~ (At(w, "unique") /\ job[w].msg = m)
    <3>1. uniques'[m] = uniques[m]
      BY <1>6, <2>3 DEF Moved, TypeInv, TypeOK
    <3>. QED
      BY <1>2, <2>1, <3>1
  <2>. QED
    BY <2>2, <2>3
<1>. QED
    BY <1>3, <1>4, <1>5, <1>6, StepKinds DEF TypeInv, WorkerStep

\* Every announcer has a delivery of its own in every reachable state.
LEMMA RoomInvariance == Spec => []RoomInv
<1>1. Init => RoomInv
  <2>. SUFFICES ASSUME Init, NEW m \in Message PROVE Fits(Announcers(m), uniques[m], delivered[m])
    BY DEF RoomInv
  <2>1. Announcers(m) = {}
    BY DEF Init, Announcers
  <2>. QED
    BY <2>1, FS_EmptySet DEF Fits, Init, Bus!Init
<1>2. TypeInv /\ RoomInv /\ [Next]_vars => RoomInv'
  <2>1. ASSUME TypeInv, RoomInv, UNCHANGED vars
        PROVE  RoomInv'
    BY <2>1 DEF vars, RoomInv, Announcers
  <2>. QED
    BY <2>1, RoomStep
<1>. QED
    BY <1>1, <1>2, TypeInvariance, PTL DEF Spec

\* However messages are repeated, redelivered and handled side by side, ARTICLE_UNIQUE
\* is published for a message at most as often as the message was delivered.
THEOREM AnnouncementsAreBounded == Spec => [](AnnouncedPerDelivery /\ AnnouncingFits)
<1>1. TypeInv /\ RoomInv => AnnouncedPerDelivery
  <2>. SUFFICES ASSUME TypeInv, RoomInv, NEW m \in Message PROVE uniques[m] <= delivered[m]
    BY DEF AnnouncedPerDelivery
  <2>1. /\ Cardinality(Announcers(m)) \in Nat
        /\ Cardinality(Announcers(m)) + uniques[m] <= delivered[m]
    BY FS_CardinalityType DEF RoomInv, Fits
  <2>2. uniques[m] \in Nat /\ delivered[m] \in Nat
    BY BoundsAssumption DEF TypeInv, TypeOK, Bus!TypeOK
  <2>. QED
    BY <2>1, <2>2
<1>2. TypeInv /\ RoomInv => AnnouncingFits
  <2>. SUFFICES ASSUME TypeInv, RoomInv, NEW w \in Worker, At(w, "unique")
                PROVE  uniques[job[w].msg] < MaxDeliver
    BY DEF AnnouncingFits
  <2>. DEFINE m == job[w].msg
              rest == Announcers(m) \ {w}
  <2>1. m \in Message
    BY DEF TypeInv, JobShape, Busy
  <2>2. uniques[m] \in Nat /\ delivered[m] \in 0 .. MaxDeliver /\ MaxDeliver \in Nat
    BY <2>1, BoundsAssumption DEF TypeInv, TypeOK, Bus!TypeOK
  <2>3. Fits(Announcers(m), uniques[m], delivered[m]) /\ w \in Announcers(m)
    BY <2>1 DEF RoomInv, Announcers
  <2>4. Fits(rest, uniques[m] + 1, delivered[m])
    BY <2>2, <2>3, BudgetUsed
  <2>5. Cardinality(rest) \in Nat /\ Cardinality(rest) + (uniques[m] + 1) <= delivered[m]
    BY <2>4, FS_CardinalityType DEF Fits
  <2>. QED
    BY <2>2, <2>5
<1>. QED
    BY <1>1, <1>2, TypeInvariance, RoomInvariance, PTL

\* Without a fault a message is delivered once, and while it is in flight a replica
\* has it: ack_wait runs out for nobody.
DeliveredOnce == \A m \in Message : delivered[m] <= 1

FirstInv ==
    /\ DeliveredOnce
    /\ \A m \in Message :
        /\ mstate[m] \in {"unsent", "queued"} => delivered[m] = 0
        /\ mstate[m] = "inflight" => Held(m)

\* A step without a fault delivers no message a second time.
LEMMA FirstStep ==
    ASSUME TypeInv, FirstInv, QuietStep
    PROVE  FirstInv'
<1>. USE DEF TypeInv, TypeOK, Bus!TypeOK, FirstInv, DeliveredOnce, Held
<1>1. ASSUME NEW w \in Worker, Handle(w), ~ Ack(w)
      PROVE  FirstInv'
  <2>1. Moved(w)
    BY <1>1, HandleKinds
  <2>2. mstate' = mstate
    BY <1>1
    DEF Handle, GuardHit, GuardMiss, BandsHit, BandsMiss, Embed, Step, Hit, CacheEmbedding,
        GetTimeline, VectorsHit, VectorsMiss, SearchHit, SearchMiss, PublishDuplicate, AddBands,
        AddTimeline, Save, MarkDirty, PublishUnique, busVars
  <2>3. /\ \A v \in Worker : ~ At(v, "idle") => pc'[v] # "idle"
        /\ \A v \in Worker : job'[v].msg = job[v].msg /\ job'[v].attempt = job[v].attempt
        /\ delivered' = delivered
    BY <2>1 DEF Moved, Route, Others
  <2>. QED
    BY <2>2, <2>3
<1>2. ASSUME NEW w \in Worker, Ack(w)
      PROVE  FirstInv'
  <2>1. At(w, "ack") /\ Ended(w)
    BY <1>2 DEF Ack, Ended, Busy, Others, eventVars, Bus!Ack
  <2>2. /\ \A m \in Message : m # job[w].msg => mstate'[m] = mstate[m]
        /\ mstate'[job[w].msg] \notin {"unsent", "queued", "inflight"}
    BY <1>2, <2>1 DEF Ack, Bus!Ack, JobShape, Ended
  <2>. QED
    BY <2>1, <2>2 DEF Ended, Others, Busy
<1>3. ASSUME NEW w \in Worker, NEW m \in Message, Deliver(w, m)
      PROVE  FirstInv'
  <2>1. Started(w, m)
    BY <1>3 DEF Deliver, Started, Busy, Others, NoJob, Job, eventVars, Bus!Deliver
  <2>2. mstate[m] = "queued" /\ mstate' = [mstate EXCEPT ![m] = "inflight"]
    BY <1>3 DEF Deliver, Bus!Deliver
  <2>3. /\ delivered[m] = 0 /\ delivered'[m] = 1
        /\ \A n \in Message : n # m => delivered'[n] = delivered[n]
    <3>1. delivered[m] = 0
      BY <2>2
    <3>2. delivered' = [delivered EXCEPT ![m] = delivered[m] + 1]
      BY <2>1 DEF Started
    <3>. QED
      BY <3>1, <3>2
  <2>4. ASSUME NEW n \in Message, mstate'[n] = "inflight"
        PROVE  Held(n)'
    <3>1. CASE n = m
      BY <2>1, <2>3, <3>1 DEF Started
    <3>2. CASE n # m
      BY <2>1, <2>2, <2>3, <2>4, <3>2 DEF Started, Others, Busy
    <3>. QED
      BY <3>1, <3>2
  <2>. QED
    BY <2>2, <2>3, <2>4
<1>4. ASSUME NEW m \in Message, Arrive(m)
      PROVE  FirstInv'
    BY <1>4 DEF Arrive, Bus!Publish
<1>5. ASSUME NEW m \in Message, AckWait(m)
      PROVE  FALSE
    BY <1>5 DEF AckWait, Bus!AckWait
<1>6. ASSUME \/ \E a \in Article : ExpireBands(a) \/ ExpireEmbedding(a)
             \/ RedisRestart
      PROVE  FirstInv'
    BY <1>6 DEF ExpireBands, ExpireEmbedding, RedisRestart, busVars
<1>. QED
    BY <1>1, <1>2, <1>3, <1>4, <1>5, <1>6 DEF QuietStep

\* As long as nothing has failed, no message was delivered twice.
THEOREM DeliveredOnceUnlessFault == Spec => [](faults = 0 => DeliveredOnce)
<1>1. Init => (faults = 0 => FirstInv)
    BY DEF Init, Bus!Init, FirstInv, DeliveredOnce
<1>2. TypeInv /\ (faults = 0 => FirstInv) /\ [Next]_vars => (faults = 0 => FirstInv)'
  <2>. SUFFICES ASSUME TypeInv, faults = 0 => FirstInv, [Next]_vars, faults' = 0
                PROVE  FirstInv'
      OBVIOUS
  <2>1. ASSUME FirstInv, UNCHANGED vars
        PROVE  FirstInv'
    BY <2>1 DEF vars, FirstInv, DeliveredOnce, Held
  <2>. QED
    BY <2>1, QuietSteps, FirstStep
<1>3. FirstInv => DeliveredOnce
    BY DEF FirstInv
<1>. QED
    BY <1>1, <1>2, <1>3, TypeInvariance, PTL DEF Spec

-----------------------------------------------------------------------------
(* What the bands of stage 1 find. *)

\* Fingerprints with different bands i differ in a bit of that band.
LEMMA BandBit ==
    ASSUME NEW h \in Fingerprint, NEW g \in Fingerprint, NEW i \in 0 .. BandCount - 1,
           Bands(h)[i] # Bands(g)[i]
    PROVE  \E b \in Differ(h, g) : i * 8 <= b /\ b < i * 8 + 16
<1>1. Band(h, i) # Band(g, i)
    BY DEF Bands
<1>2. PICK k \in 0 .. 15 : ~ (i * 8 + k \in h <=> i * 8 + k \in g)
    BY <1>1 DEF Band, BandBits
<1>3. i * 8 + k \in Differ(h, g)
    BY <1>2 DEF Differ
<1>. QED
    BY <1>3 DEF BandCount

\* Stage 1 overlooks no fingerprint within its threshold of 3 bits
\* (dedup_service.py:164): such a fingerprint shares a band with the new one, and
\* is compared with it.
THEOREM NearShareABand ==
    ASSUME NEW h \in Fingerprint, NEW g \in Fingerprint, HammingDistance(h, g) <= 3
    PROVE  Collide(h, g)
<1>. SUFFICES ASSUME ~ Collide(h, g) PROVE FALSE
    OBVIOUS
<1>1. IsFiniteSet(Differ(h, g))
  <2>1. IsFiniteSet(0 .. 127)
    BY 0 \in Int, 127 \in Int, FS_Interval
  <2>2. Differ(h, g) \subseteq 0 .. 127
    BY DEF Differ, Fingerprint
  <2>3. QED
    BY <2>1, <2>2, FS_Subset
<1>2. \A i \in 0 .. BandCount - 1 :
        \E b \in Differ(h, g) : i * 8 <= b /\ b < i * 8 + 16
    BY BandBit DEF Collide
<1>3. PICK a \in Differ(h, g) : 0 <= a /\ a < 16
  <2>1. 0 \in 0 .. BandCount - 1
    BY DEF BandCount
  <2>2. QED
    BY <1>2, <2>1
<1>4. PICK b \in Differ(h, g) : 16 <= b /\ b < 32
  <2>1. 2 \in 0 .. BandCount - 1
    BY DEF BandCount
  <2>2. QED
    BY <1>2, <2>1
<1>5. PICK c \in Differ(h, g) : 32 <= c /\ c < 48
  <2>1. 4 \in 0 .. BandCount - 1
    BY DEF BandCount
  <2>2. QED
    BY <1>2, <2>1
<1>6. PICK d \in Differ(h, g) : 48 <= d /\ d < 64
  <2>1. 6 \in 0 .. BandCount - 1
    BY DEF BandCount
  <2>2. QED
    BY <1>2, <2>1
<1>7. Differ(h, g) \subseteq Int
    BY DEF Differ, Fingerprint
<1>8. a # b /\ a # c /\ a # d /\ b # c /\ b # d /\ c # d
    BY <1>3, <1>4, <1>5, <1>6, <1>7
<1>9. Cardinality(Differ(h, g)) >= 4
    BY <1>1, <1>8, FourElements
<1>10. Cardinality(Differ(h, g)) \in Nat
    BY <1>1, FS_CardinalityType
<1>. QED
    BY <1>9, <1>10 DEF HammingDistance
=============================================================================
