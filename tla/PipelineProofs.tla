--------------------------- MODULE PipelineProofs ---------------------------
(***************************************************************************)
(* Proofs about dedup and clustering together.  The composition is shown   *)
(* to be a behaviour of each engine, so that what was proved of the        *)
(* engines holds of it; one invariant of its own, Glue, says that the      *)
(* stream between them holds what dedup published.                         *)
(***************************************************************************)
EXTENDS Pipeline, FiniteSetTheorems, TLAPS

\* The engines again, with what is proved of them.
DP == INSTANCE DedupEngineProofs WITH
    Worker <- DedupWorker, FaultKind <- DedupFault,
    mstate <- extracts, delivered <- extractDeliveries, dirty <- dedupDirty,
    pc <- dedupPc, job <- dedupJob, faults <- dedupFaults

CP == INSTANCE ClusterEngineProofs WITH
    Article <- Announcement, Stored <- Announcement,
    Unusable <- Unusable \X (1 .. MaxDeliver),
    Worker <- ClusterWorker, FaultKind <- ClusterFault,
    mstate <- announcements, delivered <- announcementDeliveries, dirty <- clusterDirty,
    pc <- clusterPc, job <- clusterJob, faults <- clusterFaults

\* Counting means the same in the engines.
LEMMA Counting ==
    /\ \A S : DP!IsFiniteSet(S) <=> IsFiniteSet(S)
    /\ \A S : DP!Cardinality(S) = Cardinality(S) /\ Dedup!Cardinality(S) = Cardinality(S)
    /\ \A S : CP!Cardinality(S) = Cardinality(S) /\ Clustering!Cardinality(S) = Cardinality(S)
    /\ \A S : News!Cardinality(S) = Cardinality(S)
<1>1. \A S : /\ DP!IsFiniteSet(S) <=> IsFiniteSet(S)
             /\ Dedup!IsFiniteSet(S) <=> IsFiniteSet(S)
             /\ CP!IsFiniteSet(S) <=> IsFiniteSet(S)
             /\ Clustering!IsFiniteSet(S) <=> IsFiniteSet(S)
             /\ News!IsFiniteSet(S) <=> IsFiniteSet(S)
    BY DEF DP!IsFiniteSet, Dedup!IsFiniteSet, CP!IsFiniteSet, Clustering!IsFiniteSet,
           News!IsFiniteSet, IsFiniteSet
<1>2. \A S : DP!Cardinality(S) = Cardinality(S) /\ Dedup!Cardinality(S) = Cardinality(S)
    BY <1>1 DEF DP!Cardinality, Dedup!Cardinality, Cardinality
<1>3. \A S : CP!Cardinality(S) = Cardinality(S) /\ Clustering!Cardinality(S) = Cardinality(S)
    BY <1>1 DEF CP!Cardinality, Clustering!Cardinality, Cardinality
<1>4. \A S : News!Cardinality(S) = Cardinality(S)
    BY <1>1 DEF News!Cardinality, Cardinality
<1>. QED
    BY <1>1, <1>2, <1>3, <1>4

\* A step of a replica of dedup is that step in the proofs about dedup.
LEMMA DedupHandle == ASSUME NEW w \in DedupWorker PROVE Dedup!Handle(w) <=> DP!Handle(w)
    BY Counting
    DEF Dedup!Handle, DP!Handle, Dedup!GuardHit, DP!GuardHit, Dedup!GuardMiss,
        DP!GuardMiss, Dedup!BandsHit, DP!BandsHit, Dedup!BandsMiss, DP!BandsMiss,
        Dedup!Embed, DP!Embed, Dedup!CacheEmbedding, DP!CacheEmbedding,
        Dedup!GetTimeline, DP!GetTimeline, Dedup!VectorsHit, DP!VectorsHit,
        Dedup!VectorsMiss, DP!VectorsMiss, Dedup!SearchHit, DP!SearchHit,
        Dedup!SearchMiss, DP!SearchMiss, Dedup!PublishDuplicate, DP!PublishDuplicate,
        Dedup!AddBands, DP!AddBands, Dedup!AddTimeline, DP!AddTimeline, Dedup!Save,
        DP!Save, Dedup!MarkDirty, DP!MarkDirty, Dedup!PublishUnique, DP!PublishUnique,
        Dedup!Ack, DP!Ack, Dedup!Goto, DP!Goto, Dedup!At, DP!At, Dedup!Hash, DP!Hash,
        Dedup!Finish, DP!Finish, Dedup!Step, DP!Step, Dedup!Hit, DP!Hit,
        Dedup!Candidate, DP!Candidate, Dedup!Matched, DP!Matched, Dedup!busVars,
        DP!busVars, Dedup!cacheVars, DP!cacheVars, Dedup!eventVars, DP!eventVars,
        Dedup!NoJob, DP!NoJob, Dedup!Bus!Ack, DP!Bus!Ack, Dedup!Bus!Settled,
        DP!Bus!Settled

\* So are its other steps, and those of its environment.
LEMMA DedupOther ==
    /\ Dedup!Init <=> DP!Init
    /\ \A w \in DedupWorker : /\ Dedup!EmbedFails(w) <=> DP!EmbedFails(w)
                              /\ Dedup!Fail(w) <=> DP!Fail(w)
                              /\ Dedup!Crash(w) <=> DP!Crash(w)
    /\ \A w \in DedupWorker, m \in Message : Dedup!Deliver(w, m) <=> DP!Deliver(w, m)
    /\ \A m \in Message : /\ Dedup!Arrive(m) <=> DP!Arrive(m)
                          /\ Dedup!AckWait(m) <=> DP!AckWait(m)
                          /\ Dedup!SlowHandler(m) <=> DP!SlowHandler(m)
    /\ \A a \in Article : /\ Dedup!ExpireBands(a) <=> DP!ExpireBands(a)
                          /\ Dedup!ExpireEmbedding(a) <=> DP!ExpireEmbedding(a)
    /\ Dedup!RedisRestart <=> DP!RedisRestart
    BY DEF Dedup!Init, DP!Init, Dedup!EmbedFails, DP!EmbedFails, Dedup!Fail, DP!Fail,
        Dedup!Crash, DP!Crash, Dedup!Deliver, DP!Deliver, Dedup!Arrive, DP!Arrive,
        Dedup!AckWait, DP!AckWait, Dedup!SlowHandler, DP!SlowHandler,
        Dedup!ExpireBands, DP!ExpireBands, Dedup!ExpireEmbedding, DP!ExpireEmbedding,
        Dedup!RedisRestart, DP!RedisRestart, Dedup!Goto, DP!Goto, Dedup!At, DP!At,
        Dedup!Finish, DP!Finish, Dedup!Fault, DP!Fault, Dedup!Held, DP!Held,
        Dedup!busVars, DP!busVars, Dedup!cacheVars, DP!cacheVars, Dedup!eventVars,
        DP!eventVars, Dedup!NoJob, DP!NoJob, Dedup!Bus!Init, DP!Bus!Init,
        Dedup!Bus!Publish, DP!Bus!Publish, Dedup!Bus!Deliver, DP!Bus!Deliver,
        Dedup!Bus!AckWait, DP!Bus!AckWait, Dedup!Bus!Nak, DP!Bus!Nak,
        Dedup!Bus!Requeued, DP!Bus!Requeued

\* A step of a replica of clustering is that step in the proofs about clustering.
LEMMA ClusterHandle ==
    ASSUME NEW w \in ClusterWorker PROVE Clustering!Handle(w) <=> CP!Handle(w)
    BY Counting
    DEF Clustering!Handle, CP!Handle, Clustering!Reject, CP!Reject, Clustering!Match,
        CP!Match, Clustering!NoMatch, CP!NoMatch, Clustering!GetMiss, CP!GetMiss,
        Clustering!GetHit, CP!GetHit, Clustering!FindArticle, CP!FindArticle,
        Clustering!ArticleMissing, CP!ArticleMissing, Clustering!Save, CP!Save,
        Clustering!SaveRefused, CP!SaveRefused, Clustering!SetCache, CP!SetCache,
        Clustering!MarkCluster, CP!MarkCluster, Clustering!MarkArticle,
        CP!MarkArticle, Clustering!Publish, CP!Publish, Clustering!Ack, CP!Ack,
        Clustering!Found, CP!Found, Clustering!Now, CP!Now, Clustering!Window,
        CP!Window, Clustering!Cluster, CP!Cluster, Clustering!Present, CP!Present,
        Clustering!Saved, CP!Saved, Clustering!Upsert, CP!Upsert, Clustering!Conflict,
        CP!Conflict, Clustering!Goto, CP!Goto, Clustering!At, CP!At,
        Clustering!Finish, CP!Finish, Clustering!busVars, CP!busVars,
        Clustering!cacheVars, CP!cacheVars, Clustering!dbVars, CP!dbVars,
        Clustering!NoJob, CP!NoJob, Clustering!NoRow, CP!NoRow, Clustering!Bus!Ack,
        CP!Bus!Ack, Clustering!Bus!Nak, CP!Bus!Nak, Clustering!Bus!Term, CP!Bus!Term,
        Clustering!Bus!Requeued, CP!Bus!Requeued, Clustering!Bus!Settled,
        CP!Bus!Settled

\* So are its other steps, and those of its environment.
LEMMA ClusterOther ==
    /\ Clustering!Init <=> CP!Init
    /\ \A w \in ClusterWorker : /\ Clustering!Fail(w) <=> CP!Fail(w)
                                /\ Clustering!Crash(w) <=> CP!Crash(w)
    /\ \A w \in ClusterWorker, a \in Announcement : Clustering!Deliver(w, a) <=> CP!Deliver(w, a)
    /\ \A a \in Announcement : /\ Clustering!Arrive(a) <=> CP!Arrive(a)
                               /\ Clustering!AckWait(a) <=> CP!AckWait(a)
                               /\ Clustering!SlowHandler(a) <=> CP!SlowHandler(a)
    /\ Clustering!Cluster = CP!Cluster
    /\ \A c \in CP!Cluster : Clustering!Expire(c) <=> CP!Expire(c)
    /\ Clustering!RedisRestart <=> CP!RedisRestart
    BY DEF Clustering!Init, CP!Init, Clustering!Fail, CP!Fail, Clustering!Crash,
        CP!Crash, Clustering!Deliver, CP!Deliver, Clustering!Arrive, CP!Arrive,
        Clustering!AckWait, CP!AckWait, Clustering!SlowHandler, CP!SlowHandler,
        Clustering!Expire, CP!Expire, Clustering!RedisRestart, CP!RedisRestart,
        Clustering!Cluster, CP!Cluster, Clustering!Present, CP!Present,
        Clustering!Goto, CP!Goto, Clustering!At, CP!At, Clustering!Finish, CP!Finish,
        Clustering!Fault, CP!Fault, Clustering!Held, CP!Held, Clustering!busVars,
        CP!busVars, Clustering!cacheVars, CP!cacheVars, Clustering!dbVars, CP!dbVars,
        Clustering!NoJob, CP!NoJob, Clustering!NoRow, CP!NoRow, Clustering!Bus!Init,
        CP!Bus!Init, Clustering!Bus!Publish, CP!Bus!Publish, Clustering!Bus!Deliver,
        CP!Bus!Deliver, Clustering!Bus!AckWait, CP!Bus!AckWait, Clustering!Bus!Nak,
        CP!Bus!Nak, Clustering!Bus!Requeued, CP!Bus!Requeued
-----------------------------------------------------------------------------
(* Each engine behaves as it does on its own. *)

\* A step of the pipeline is a step of dedup or leaves dedup alone.
LEMMA DedupStep == ASSUME [Next]_vars PROVE [DP!Next]_(DP!vars)
<1>. USE DEF vars, dedupVars, clusterVars, DP!vars
<1>1. CASE Deduplicate
    BY <1>1, DedupHandle, DedupOther DEF Deduplicate, DP!Next
<1>2. ASSUME NEW w \in DedupWorker, Announce(w)
      PROVE  DP!Next
  <2>1. Dedup!Handle(w)
    BY <1>2 DEF Announce, Dedup!Handle
  <2>. QED
    BY <2>1, DedupHandle DEF DP!Next
<1>3. CASE RedisRestart
    BY <1>3, DedupOther DEF RedisRestart, DP!Next
<1>4. CASE Cluster \/ Done \/ UNCHANGED vars
    BY <1>4 DEF Cluster, Done
<1>. QED
    BY <1>1, <1>2, <1>3, <1>4 DEF Next

\* Dedup is not disturbed by what becomes of its publications.
THEOREM DedupRuns == Spec => DP!Spec
<1>1. Init => DP!Init
    BY DedupOther DEF Init
<1>2. [Next]_vars => [DP!Next]_(DP!vars)
    BY DedupStep
<1>. QED
    BY <1>1, <1>2, PTL DEF Spec, DP!Spec

\* What was proved of dedup.
DedupFacts ==
    /\ DP!TypeInv
    /\ DP!AnnouncedPerDelivery
    /\ DP!AnnouncingFits
    /\ DP!UniqueIsStored
    /\ DP!Accounted
    /\ dedupFaults = 0 => DP!DeliveredOnce

\* It holds of the pipeline.
LEMMA DedupHolds == Spec => []DedupFacts
<1>. USE Counting, BoundsAssumption, ArticleAssumption, NoneAssumption
<1>1. DP!Spec => []DP!TypeInv
    BY DP!TypeInvariance
<1>2. DP!Spec => [](DP!AnnouncedPerDelivery /\ DP!AnnouncingFits)
    BY DP!AnnouncementsAreBounded
<1>3. DP!Spec => []DP!UniqueIsStored
    BY DP!AnnouncedIsStored
<1>4. DP!Spec => []DP!Accounted
    BY DP!AcknowledgedIsTold
<1>5. DP!Spec => [](dedupFaults = 0 => DP!DeliveredOnce)
    BY DP!DeliveredOnceUnlessFault
<1>. QED
    BY <1>1, <1>2, <1>3, <1>4, <1>5, DedupRuns, PTL DEF DedupFacts

\* A step of the pipeline is a step of clustering or leaves clustering alone: the
\* publication has a number that clustering knows.
LEMMA ClusterStep == ASSUME DedupFacts, [Next]_vars PROVE [CP!Next]_(CP!vars)
<1>. USE DEF vars, dedupVars, clusterVars, CP!vars
<1>1. CASE Cluster
    BY <1>1, ClusterHandle, ClusterOther DEF Cluster, CP!Next
<1>2. ASSUME NEW w \in DedupWorker, Announce(w)
      PROVE  CP!Next
  <2>. DEFINE m == dedupJob[w].msg
  <2>1. /\ m \in Message /\ uniques[m] \in Nat /\ uniques[m] < MaxDeliver
        /\ uniques' = [uniques EXCEPT ![m] = @ + 1] /\ uniques \in [Message -> Nat]
    BY <1>2
    DEF Announce, Dedup!PublishUnique, Dedup!At, DedupFacts, DP!TypeInv, DP!TypeOK, DP!JobShape,
        DP!Busy, DP!At, DP!AnnouncingFits
  <2>2. <<m, uniques'[m]>> \in Announcement
    BY <2>1, BoundsAssumption DEF Announcement
  <2>3. Clustering!Arrive(<<m, uniques'[m]>>)
    BY <1>2 DEF Announce
  <2>. QED
    BY <2>2, <2>3, ClusterOther DEF CP!Next
<1>3. CASE RedisRestart
    BY <1>3, ClusterOther DEF RedisRestart, CP!Next
<1>4. CASE Deduplicate \/ Done \/ UNCHANGED vars
    BY <1>4 DEF Deduplicate, Done
<1>. QED
    BY <1>1, <1>2, <1>3, <1>4 DEF Next

\* Clustering is told nothing it would not be told on its own.
THEOREM ClusteringRuns == Spec => CP!Spec
<1>1. Init => CP!Init
    BY ClusterOther DEF Init
<1>2. DedupFacts /\ [Next]_vars => [CP!Next]_(CP!vars)
    BY ClusterStep
<1>. QED
    BY <1>1, <1>2, DedupHolds, PTL DEF Spec, CP!Spec

\* What was proved of clustering.
ClusterFacts ==
    /\ CP!TypeInv
    /\ CP!SentInv
    /\ CP!AckedWasAnnounced
    /\ ~ ClockTies => CP!IInv
    /\ ~ ClockTies => (clusterFaults = 0 => CP!OnceInv)

\* It holds of the pipeline.
LEMMA ClusterHolds == Spec => []ClusterFacts
<1>. USE BoundsAssumption, ArticleAssumption, NoneAssumption DEF Announcement, CP!Cluster
<1>1. CP!Spec => []CP!TypeInv
    BY CP!TypeInvariance
<1>2. CP!Spec => []CP!SentInv
    BY CP!SentInvariance
<1>3. CP!Spec => []CP!AckedWasAnnounced
    BY CP!AcksAreEarned
<1>4. ~ ClockTies => (CP!Spec => []CP!IInv)
    BY CP!Invariance
<1>5. ~ ClockTies => (CP!Spec => [](clusterFaults = 0 => CP!OnceInv))
    BY CP!OnceInvariance
<1>6. CASE ClockTies
  <2>1. ~ ClockTies => CP!IInv /\ (clusterFaults = 0 => CP!OnceInv)
    BY <1>6
  <2>. QED
    BY <1>1, <1>2, <1>3, <2>1, ClusteringRuns, PTL DEF ClusterFacts
<1>7. CASE ~ ClockTies
    BY <1>1, <1>2, <1>3, <1>4, <1>5, <1>7, ClusteringRuns, PTL DEF ClusterFacts
<1>. QED
    BY <1>6, <1>7

-----------------------------------------------------------------------------
(* What holds between them. *)

\* The stream holds the first, the second, ... announcement of an extract, as many
\* as dedup has published.
Glue ==
    \A m \in Message : \A k \in 1 .. MaxDeliver :
        CP!Sent(<<m, k>>) <=> k <= uniques[m]

\* A publication puts exactly the next announcement into the stream, and nothing
\* else does.
LEMMA GlueStep ==
    ASSUME DedupFacts, ClusterFacts, Glue, [Next]_vars
    PROVE  Glue'
<1>. USE DEF Glue, CP!Sent
<1>1. CASE Deduplicate \/ Done \/ UNCHANGED vars
    BY <1>1 DEF Deduplicate, Done, vars, dedupVars, clusterVars
<1>2. ASSUME NEW w \in DedupWorker, Announce(w)
      PROVE  Glue'
  <2>. DEFINE n == dedupJob[w].msg
  <2>1. /\ n \in Message /\ uniques[n] \in Nat
        /\ uniques' = [uniques EXCEPT ![n] = @ + 1] /\ uniques \in [Message -> Nat]
    BY <1>2
    DEF Announce, Dedup!PublishUnique, Dedup!At, DedupFacts, DP!TypeInv, DP!TypeOK, DP!JobShape,
        DP!Busy, DP!At
  <2>2. /\ announcements' = [announcements EXCEPT ![<<n, uniques[n] + 1>>] = "queued"]
        /\ announcements \in [Announcement -> CP!Bus!MsgState]
    BY <1>2, <2>1
    DEF Announce, Clustering!Arrive, Clustering!Bus!Publish, ClusterFacts, CP!TypeInv, CP!TypeOK,
        CP!Bus!TypeOK
  <2>. HIDE DEF n
  <2>3. ASSUME NEW m \in Message, NEW k \in 1 .. MaxDeliver
        PROVE  announcements'[<<m, k>>] # "unsent" <=> k <= uniques'[m]
    <3>1. <<m, k>> \in Announcement /\ uniques[m] \in Nat
      BY <2>1 DEF Announcement
    <3>2. CASE <<m, k>> = <<n, uniques[n] + 1>>
      BY <2>1, <2>2, <3>1, <3>2
    <3>3. CASE <<m, k>> # <<n, uniques[n] + 1>>
      <4>1. announcements'[<<m, k>>] = announcements[<<m, k>>]
        BY <2>2, <3>1, <3>3
      <4>2. k <= uniques'[m] <=> k <= uniques[m]
        BY <2>1, <3>1, <3>3
      <4>. QED
        BY <4>1, <4>2
    <3>. QED
      BY <3>2, <3>3
  <2>. QED
    BY <2>3
<1>3. CASE Cluster \/ RedisRestart
  <2>1. CP!Inner \/ UNCHANGED clusterVars
    BY <1>3, ClusterHandle, ClusterOther DEF Cluster, RedisRestart, CP!Inner
  <2>2. uniques' = uniques
    BY <1>3
    DEF Cluster, RedisRestart, dedupVars, Dedup!RedisRestart, Dedup!eventVars
  <2>3. \A a \in Announcement : announcements'[a] # "unsent" <=> announcements[a] # "unsent"
    <3>1. CASE CP!Inner
      BY <3>1, CP!InnerSends, BoundsAssumption, ArticleAssumption, NoneAssumption
      DEF ClusterFacts, Announcement, CP!Cluster
    <3>2. CASE UNCHANGED clusterVars
      BY <3>2 DEF clusterVars
    <3>. QED
      BY <2>1, <3>1, <3>2
  <2>. QED
    BY <2>2, <2>3 DEF Announcement
<1>. QED
    BY <1>1, <1>2, <1>3 DEF Next

\* The stream between the engines holds what dedup published, no more and no less.
THEOREM StreamIsGlued == Spec => []Glue
<1>1. Init => Glue
    BY BoundsAssumption
    DEF Init, Glue, CP!Sent, Dedup!Init, Clustering!Init, Clustering!Bus!Init, Announcement
<1>2. DedupFacts /\ ClusterFacts /\ Glue /\ [Next]_vars => Glue'
    BY GlueStep
<1>. QED
    BY <1>1, <1>2, DedupHolds, ClusterHolds, PTL DEF Spec

\* Whatever an article's announcements, retries and conflicts: in a story of
\* clustering stand articles only that dedup has saved.
StoriesAreArchived ==
    \A c \in Clustering!Cluster : \A n \in DOMAIN db[c].members :
        UrlHash[db[c].members[n][1]] \in stored

\* What a cluster holds was announced, and what was announced is stored.
LEMMA StoredMembers == DedupFacts /\ ClusterFacts /\ Glue => StoriesAreArchived
<1>. SUFFICES ASSUME DedupFacts, ClusterFacts, Glue,
                     NEW c \in Clustering!Cluster, NEW n \in DOMAIN db[c].members
              PROVE  UrlHash[db[c].members[n][1]] \in stored
    BY DEF StoriesAreArchived
<1>. DEFINE a == db[c].members[n]
<1>1. a \in Announcement /\ CP!Sent(a)
  <2>1. c \in CP!Cluster
    BY ClusterOther
  <2>2. db[c].members \in Seq(Announcement)
    BY <2>1 DEF ClusterFacts, CP!TypeInv, CP!TypeOK, CP!Row
  <2>. QED
    BY <2>1, <2>2 DEF ClusterFacts, CP!SentInv
<1>. HIDE DEF a
<1>2. PICK m \in Message, k \in 1 .. MaxDeliver : a = <<m, k>>
    BY <1>1 DEF Announcement
<1>3. uniques[m] > 0
  <2>1. k <= uniques[m] /\ uniques[m] \in Nat /\ k > 0
    BY <1>1, <1>2 DEF Glue, DedupFacts, DP!TypeInv, DP!TypeOK
  <2>. QED
    BY <2>1
<1>4. UrlHash[m] \in stored
    BY <1>3 DEF DedupFacts, DP!UniqueIsStored
<1>. QED
    BY <1>2, <1>4 DEF a

\* Every story is made of saved articles.
THEOREM StoriesAreSaved == Spec => []StoriesAreArchived
    BY StoredMembers, DedupHolds, ClusterHolds, StreamIsGlued, PTL
-----------------------------------------------------------------------------
(* From an extract to a story. *)

\* Without a fault no extract vanishes between dedup and clustering.
THEOREM NothingIsLost == Spec => []NothingVanishes
<1>1. DedupFacts /\ ClusterFacts /\ Glue => NothingVanishes
  <2>. SUFFICES ASSUME DedupFacts, ClusterFacts, Glue, NoFault,
                       NEW m \in Message, extracts[m] = "acked",
                       ~ Dedup!Declared(UrlHash[m]),
                       ~ Dedup!Within(UrlHash[m], {"markDirty", "unique"})
                PROVE  UnderWay(UrlHash[m]) \/ Clustered(UrlHash[m])
    BY DEF NothingVanishes
  <2>1. PICK n \in Message : UrlHash[n] = UrlHash[m] /\ uniques[n] > 0
    BY DEF DedupFacts, DP!Accounted, DP!Announced, DP!Declared, DP!Within, DP!Hash, NoFault,
           Dedup!Declared, Dedup!Within, Dedup!Hash
  <2>. DEFINE a == <<n, 1>>
  <2>2. a \in Announcement /\ announcements[a] # "unsent"
    <3>1. uniques[n] \in Nat /\ 1 \in 1 .. MaxDeliver
      BY BoundsAssumption DEF DedupFacts, DP!TypeInv, DP!TypeOK
    <3>2. 1 <= uniques[n]
      BY <2>1, <3>1
    <3>. QED
      BY <3>1, <3>2 DEF Glue, CP!Sent, Announcement
  <2>3. announcements[a] \in {"queued", "inflight", "acked", "termed", "dropped"}
    BY <2>2 DEF ClusterFacts, CP!TypeInv, CP!TypeOK, CP!Bus!TypeOK, CP!Bus!MsgState
  <2>4. a[1] = n /\ UrlHash[a[1]] = UrlHash[m]
    BY <2>1
  <2>5. CASE announcements[a] = "acked"
    <3>1. \E e \in events : e.article = a
      BY <2>2, <2>5 DEF ClusterFacts, CP!AckedWasAnnounced
    <3>. QED
      BY <2>4, <3>1 DEF Clustered
  <2>6. CASE announcements[a] = "termed"
    <3>1. a \in Unusable \X (1 .. MaxDeliver)
      BY <2>2, <2>6 DEF ClusterFacts, CP!SentInv
    <3>. QED
      BY <2>2, <2>4, <2>6, <3>1 DEF UnderWay
  <2>7. CASE announcements[a] \in {"queued", "inflight", "dropped"}
    BY <2>2, <2>4, <2>7 DEF UnderWay
  <2>. QED
    BY <2>3, <2>5, <2>6, <2>7
<1>. QED
    BY <1>1, DedupHolds, ClusterHolds, StreamIsGlued, PTL

\* Without a fault an extract is announced once, and its announcement has one place.
THEOREM CountedOnceInAll == ~ ClockTies => (Spec => []CountedOnceEndToEnd)
<1>. SUFFICES ASSUME ~ ClockTies PROVE Spec => []CountedOnceEndToEnd
    OBVIOUS
<1>1. DedupFacts /\ ClusterFacts /\ Glue => CountedOnceEndToEnd
  <2>. SUFFICES ASSUME DedupFacts, ClusterFacts, Glue, NoFault, NEW m \in Message
                PROVE  Cardinality(PlacesOf(m)) <= 1
    BY DEF CountedOnceEndToEnd
  <2>1. CP!OnceInv
    BY DEF ClusterFacts, NoFault
  <2>2. \A k \in 1 .. MaxDeliver : CP!Sent(<<m, k>>) => k = 1
    <3>1. uniques[m] \in Nat /\ extractDeliveries[m] \in Nat
      BY BoundsAssumption DEF DedupFacts, DP!TypeInv, DP!TypeOK, DP!Bus!TypeOK
    <3>2. uniques[m] <= extractDeliveries[m] /\ extractDeliveries[m] <= 1
      BY DEF DedupFacts, DP!AnnouncedPerDelivery, DP!DeliveredOnce, NoFault
    <3>. QED
      BY <3>1, <3>2 DEF Glue
  <2>3. \A p \in PlacesOf(m) : /\ p[1] \in CP!Cluster /\ p[2] \in DOMAIN db[p[1]].members
                              /\ db[p[1]].members[p[2]] = <<m, 1>>
    <3>. SUFFICES ASSUME NEW c \in CP!Cluster, NEW n \in DOMAIN db[c].members,
                         db[c].members[n][1] = m
                  PROVE  db[c].members[n] = <<m, 1>>
      BY ClusterOther DEF PlacesOf
    <3>. DEFINE a == db[c].members[n]
    <3>1. db[c].members \in Seq(Announcement)
      BY DEF ClusterFacts, CP!TypeInv, CP!TypeOK, CP!Row
    <3>2. a \in Announcement /\ CP!Sent(a)
      BY <3>1 DEF ClusterFacts, CP!SentInv
    <3>. HIDE DEF a
    <3>3. PICK k \in 1 .. MaxDeliver : a = <<a[1], k>>
      BY <3>2 DEF Announcement
    <3>. QED
      BY <2>2, <3>2, <3>3 DEF a
  <2>4. \A p, q \in PlacesOf(m) : p = q
    <3>. SUFFICES ASSUME NEW p \in PlacesOf(m), NEW q \in PlacesOf(m) PROVE p = q
      OBVIOUS
    <3>1. p[1] = q[1] /\ p[2] = q[2]
      BY <2>1, <2>3 DEF CP!OnceInv
    <3>2. p = <<p[1], p[2]>> /\ q = <<q[1], q[2]>>
      BY DEF PlacesOf
    <3>. QED
      BY <3>1, <3>2
  <2>5. CASE PlacesOf(m) = {}
    BY <2>5, FS_EmptySet
  <2>6. ASSUME NEW p \in PlacesOf(m)
        PROVE  Cardinality(PlacesOf(m)) = 1
    <3>1. PlacesOf(m) = {p}
      BY <2>4
    <3>. QED
      BY <3>1, FS_Singleton
  <2>. QED
    BY <2>5, <2>6
<1>. QED
    BY <1>1, DedupHolds, ClusterHolds, StreamIsGlued, PTL
-----------------------------------------------------------------------------
(* Refinement. *)

\* What a reader sees of a cluster that grows.
LEMMA TextOfAppend ==
    ASSUME NEW s \in Seq(Announcement), NEW a \in Announcement
    PROVE  Text(Append(s, a)) = Append(Text(s), UrlHash[a[1]])
<1>1. /\ DOMAIN Append(s, a) = 1 .. Len(s) + 1 /\ DOMAIN s = 1 .. Len(s)
      /\ Append(s, a)[Len(s) + 1] = a
      /\ \A n \in 1 .. Len(s) : Append(s, a)[n] = s[n]
      /\ Len(s) \in Nat
    OBVIOUS
<1>. DEFINE t == Text(s)
            u == Append(t, UrlHash[a[1]])
<1>2. t = [n \in 1 .. Len(s) |-> UrlHash[s[n][1]]]
    BY <1>1 DEF Text
<1>3. /\ t \in Seq({UrlHash[b[1]] : b \in Announcement}) /\ Len(t) = Len(s)
      /\ \A n \in 1 .. Len(s) : t[n] = UrlHash[s[n][1]]
  <2>1. \A n \in 1 .. Len(s) : s[n] \in Announcement
    OBVIOUS
  <2>. QED
    BY <1>1, <1>2, <2>1
<1>. HIDE DEF t
<1>4. u = [n \in 1 .. Len(s) + 1 |-> IF n \in 1 .. Len(s) THEN t[n] ELSE UrlHash[a[1]]]
    BY <1>1, <1>3
<1>5. Text(Append(s, a)) =
        [n \in 1 .. Len(s) + 1 |-> UrlHash[Append(s, a)[n][1]]]
    BY <1>1 DEF Text
<1>6. \A n \in 1 .. Len(s) + 1 :
        UrlHash[Append(s, a)[n][1]] = IF n \in 1 .. Len(s) THEN t[n] ELSE UrlHash[a[1]]
    BY <1>1, <1>3
<1>. QED
    BY <1>4, <1>5, <1>6 DEF t

\* The initial tables are those of an empty newsroom.
LEMMA NewsroomOpens == Init => News!Init
<1>. SUFFICES ASSUME Init PROVE News!Init
    OBVIOUS
<1>1. stored = {} /\ overlooked = {} /\ events = {}
    BY DEF Init, Dedup!Init, Clustering!Init
<1>2. \A c \in Clustering!Cluster : Text(db[c].members) = <<>>
    BY DEF Init, Clustering!Init, Clustering!NoRow, Text
<1>. QED
    BY <1>1, <1>2 DEF News!Init, News!Ledger!Init

\* A step of dedup keeps an article that resembles few others, overlooks a
\* resemblance, or does neither.
LEMMA NewsFromDedup ==
    ASSUME DedupFacts, DP!ClonesBoundedByReplicas',
           [DP!Next]_(DP!vars), db' = db, events' = events
    PROVE  [News!Next]_(News!newsVars)
<1>. USE DEF News!newsVars
<1>1. \/ UNCHANGED <<stored, overlooked>>
      \/ \E a \in Article : stored' = stored \cup {a} /\ overlooked' = overlooked
      \/ /\ stored' = stored
         /\ \E a \in Article : /\ \E b \in stored : <<a, b>> \in Alike
                             /\ overlooked' = overlooked \cup {a}
  <2>1. CASE UNCHANGED DP!vars
    BY <2>1 DEF DP!vars
  <2>2. CASE DP!Next
    <3>1. DP!EnvStep \/ \E w \in DedupWorker : DP!WorkerStep(w)
      <4>1. DP!TypeOK /\ DP!Next
        BY <2>2 DEF DedupFacts, DP!TypeInv
      <4>. QED
        BY <4>1, DP!StepKinds, Counting, BoundsAssumption, ArticleAssumption, NoneAssumption
    <3>2. ASSUME NEW w \in DedupWorker, DP!Moved(w)
          PROVE  DP!Hash(w) \in Article
      BY <3>2, ArticleAssumption
      DEF DP!Moved, DP!Route, DP!Hash, DedupFacts, DP!TypeInv, DP!JobShape, DP!Busy, DP!At
    <3>3. ASSUME NEW w \in DedupWorker, DP!Moved(w), DP!At(w, "save")
          PROVE  stored' = stored \cup {DP!Hash(w)} /\ overlooked' = overlooked
      BY <3>3 DEF DP!Moved, DP!Overlooks, DP!At
    <3>4. ASSUME NEW w \in DedupWorker, DP!Moved(w), ~ DP!At(w, "save")
          PROVE  /\ stored' = stored
                 /\ \/ overlooked' = overlooked
                    \/ /\ \E b \in stored : <<DP!Hash(w), b>> \in Alike
                       /\ overlooked' = overlooked \cup {DP!Hash(w)}
      BY <3>4 DEF DP!Moved, DP!Overlooks, DP!Matched
    <3>5. ASSUME NEW w \in DedupWorker, DP!Ended(w)
                 \/ (\E m \in Message : DP!Started(w, m)) \/ DP!EnvStep
          PROVE  UNCHANGED <<stored, overlooked>>
      BY <3>5 DEF DP!EnvStep, DP!Started, DP!Ended
    <3>. QED
      BY <3>1, <3>2, <3>3, <3>4, <3>5 DEF DP!WorkerStep, DP!EnvStep
  <2>. QED
    BY <2>1, <2>2
<1>2. CASE UNCHANGED <<stored, overlooked>>
    BY <1>2
<1>3. ASSUME NEW a \in Article, stored' = stored \cup {a}, overlooked' = overlooked
      PROVE  News!Keep(a)
  <2>1. News!FewCopies(stored' \ overlooked')
    BY Counting DEF DP!ClonesBoundedByReplicas, News!FewCopies
  <2>. QED
    BY <1>3, <2>1 DEF News!Keep
<1>4. ASSUME NEW a \in Article, NEW b \in stored, <<a, b>> \in Alike, stored' = stored,
             overlooked' = overlooked \cup {a}
      PROVE  News!Overlook(a)
    BY <1>4 DEF News!Overlook
<1>. QED
    BY <1>1, <1>2, <1>3, <1>4 DEF News!Next

\* A step of clustering grows a story by a saved article, makes one of its places
\* public, or does neither.
LEMMA NewsFromClustering ==
    ASSUME ~ ClockTies, ClusterFacts, StoriesAreArchived', [CP!Next]_(CP!vars),
           UNCHANGED <<stored, overlooked>>
    PROVE  [News!Next]_(News!newsVars)
<1>. USE DEF News!newsVars
<1>1. [CP!Ledger!Next]_(CP!Ledger!ledgerVars)
    BY CP!LedgerStep, BoundsAssumption, ArticleAssumption, NoneAssumption
    DEF ClusterFacts, Announcement, CP!Cluster
<1>2. /\ Clustering!Cluster = CP!Cluster /\ db \in [CP!Cluster -> CP!Row]
      /\ \A c \in CP!Cluster : db[c].members \in Seq(Announcement)
    BY ClusterOther DEF ClusterFacts, CP!TypeInv, CP!TypeOK, CP!Row
<1>3. CASE UNCHANGED CP!Ledger!ledgerVars
    BY <1>2, <1>3 DEF CP!Ledger!ledgerVars
<1>4. ASSUME NEW s \in CP!Cluster, NEW a \in Announcement, CP!Ledger!Grow(s, a)
      PROVE  News!Next
  <2>1. /\ db'[s].members = Append(db[s].members, a)
        /\ \A c \in CP!Cluster : c # s => db'[c].members = db[c].members
        /\ events' = events
    BY <1>2, <1>4 DEF CP!Ledger!Grow
  <2>2. /\ Text(db'[s].members) = Append(Text(db[s].members), UrlHash[a[1]])
        /\ \A c \in CP!Cluster : c # s => Text(db'[c].members) = Text(db[c].members)
    BY <1>2, <2>1, TextOfAppend
  <2>3. UrlHash[a[1]] \in stored
    <3>1. Len(db[s].members) + 1 \in DOMAIN db'[s].members
          /\ db'[s].members[Len(db[s].members) + 1] = a
      BY <1>2, <2>1
    <3>. QED
      BY <1>2, <3>1 DEF StoriesAreArchived
  <2>4. UrlHash[a[1]] \in Article
    BY ArticleAssumption DEF Announcement
  <2>5. News!Grow(s, UrlHash[a[1]])
    BY <1>2, <2>1, <2>2, <2>3 DEF News!Grow, News!Ledger!Grow
  <2>. QED
    BY <1>2, <2>4, <2>5 DEF News!Next
<1>5. ASSUME NEW s \in CP!Cluster, NEW n \in DOMAIN db[s].members, CP!Ledger!Announce(s, n)
      PROVE  News!Next
  <2>. DEFINE a == db[s].members[n]
  <2>1. /\ events' = events \cup {[cluster |-> s, version |-> n, article |-> a]}
        /\ \A c \in CP!Cluster : db'[c].members = db[c].members
    BY <1>2, <1>5 DEF CP!Ledger!Announce
  <2>2. n \in DOMAIN Text(db[s].members) /\ Text(db[s].members)[n] = UrlHash[a[1]]
    BY DEF Text
  <2>3. {[e EXCEPT !.article = UrlHash[@[1]]] : e \in events'} =
          {[e EXCEPT !.article = UrlHash[@[1]]] : e \in events}
            \cup {[cluster |-> s, version |-> n, article |-> UrlHash[a[1]]]}
    <3>. DEFINE seen(e) == [e EXCEPT !.article = UrlHash[@[1]]]
                event == [cluster |-> s, version |-> n, article |-> a]
    <3>1. seen(event) = [cluster |-> s, version |-> n, article |-> UrlHash[a[1]]]
      OBVIOUS
    <3>2. events' = events \cup {event}
      BY <2>1
    <3>. HIDE DEF seen, event
    <3>3. {seen(e) : e \in events'} = {seen(e) : e \in events} \cup {seen(event)}
      BY <3>2
    <3>. QED
      BY <3>1, <3>3 DEF seen
  <2>4. News!Announce(s, n)
    BY <1>2, <2>1, <2>2, <2>3 DEF News!Announce, News!Ledger!Announce
  <2>. QED
    BY <1>2, <2>2, <2>4 DEF News!Next
<1>. QED
    BY <1>1, <1>2, <1>3, <1>4, <1>5 DEF CP!Ledger!Next

\* Dedup and clustering together keep a newsroom: an archive without many copies,
\* and stories that only ever grow, by articles of the archive.
THEOREM NewsroomIsKept == ~ ClockTies => (Spec => ImplementsNewsroom)
<1>. SUFFICES ASSUME ~ ClockTies PROVE Spec => ImplementsNewsroom
    OBVIOUS
<1>1. Spec => []DP!ClonesBoundedByReplicas
  <2>1. DP!Spec => []DP!ClonesBoundedByReplicas
    BY DP!ClonesAreBounded, Counting, BoundsAssumption, ArticleAssumption, NoneAssumption
  <2>. QED
    BY <2>1, DedupRuns, PTL
<1>2. DedupFacts /\ ClusterFacts /\ StoriesAreArchived' /\ DP!ClonesBoundedByReplicas'
        /\ [Next]_vars => [News!Next]_(News!newsVars)
  <2>. SUFFICES ASSUME DedupFacts, ClusterFacts, StoriesAreArchived',
                       DP!ClonesBoundedByReplicas', [Next]_vars
                PROVE  [News!Next]_(News!newsVars)
    OBVIOUS
  <2>1. [DP!Next]_(DP!vars) /\ [CP!Next]_(CP!vars)
    BY DedupStep, ClusterStep
  <2>2. CASE Cluster
    BY <2>1, <2>2, NewsFromClustering DEF Cluster, dedupVars
  <2>3. CASE ~ Cluster
    <3>1. db' = db /\ events' = events
      BY <2>3
      DEF Next, Deduplicate, Announce, RedisRestart, Done, vars, clusterVars,
          Clustering!Arrive, Clustering!dbVars, Clustering!RedisRestart
    <3>. QED
      BY <2>1, <3>1, NewsFromDedup
  <2>. QED
    BY <2>2, <2>3
<1>. QED
    BY <1>1, <1>2, NewsroomOpens, DedupHolds, ClusterHolds, StoriesAreSaved, PTL
    DEF Spec, ImplementsNewsroom, News!Spec
=============================================================================
