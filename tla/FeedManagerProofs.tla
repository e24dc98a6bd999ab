--------------------------- MODULE FeedManagerProofs ---------------------------
(***************************************************************************)
(* What holds of the feed manager for every number of feeds, items and     *)
(* faults.                                                                 *)
(***************************************************************************)
EXTENDS FeedManager, CommonLemmas

-----------------------------------------------------------------------------
(* The memory of seen keys *)

\* move_to_end keeps what the cache holds, and has the key at its end.
LEMMA MoveToEndProperties ==
    ASSUME NEW s \in Seq(Key), IsInjective(s), NEW k \in Key
    PROVE  /\ MoveToEnd(s, k) \in Seq(Key)
           /\ IsInjective(MoveToEnd(s, k))
           /\ ToSet(MoveToEnd(s, k)) = ToSet(s) \cup {k}
           /\ Len(MoveToEnd(s, k)) <= Len(s) + 1
           /\ k \in ToSet(s) => Len(MoveToEnd(s, k)) = Len(s)
<1>. DEFINE t == RemoveFirst(s, k)
<1>1. /\ t \in Seq(Key) /\ IsInjective(t)
      /\ ToSet(t) = ToSet(s) \ {k}
      /\ Len(t) <= Len(s)
      /\ k \in ToSet(s) => Len(t) = Len(s) - 1
    BY RemoveFirstProperties
<1>. HIDE DEF t
<1>2. /\ Append(t, k) \in Seq(Key) /\ IsInjective(Append(t, k))
      /\ ToSet(Append(t, k)) = ToSet(t) \cup {k}
      /\ Len(Append(t, k)) = Len(t) + 1
    BY <1>1, AppendNew
<1>3. MoveToEnd(s, k) = Append(t, k)
    BY DEF MoveToEnd, t
<1>4. Len(s) \in Nat /\ Len(t) \in Nat
    BY <1>1
<1>. QED
    BY <1>1, <1>2, <1>3, <1>4

\* contains() neither adds nor forgets a key.
LEMMA TouchProperties ==
    ASSUME NEW s \in Seq(Key), IsInjective(s), NEW k \in ToSet(s), k \in Key
    PROVE  /\ Touch(s, k) \in Seq(Key)
           /\ IsInjective(Touch(s, k))
           /\ ToSet(Touch(s, k)) = ToSet(s)
           /\ Len(Touch(s, k)) = Len(s)
<1>1. Touch(s, k) = MoveToEnd(s, k)
    BY DEF Touch
<1>2. /\ MoveToEnd(s, k) \in Seq(Key)
      /\ IsInjective(MoveToEnd(s, k))
      /\ ToSet(MoveToEnd(s, k)) = ToSet(s) \cup {k}
      /\ k \in ToSet(s) => Len(MoveToEnd(s, k)) = Len(s)
    BY MoveToEndProperties
<1>. QED
    BY <1>1, <1>2, Zenon

\* add() keeps the cache within its size, and forgets only if it is full.
LEMMA AddProperties ==
    ASSUME NEW s \in Seq(Key), IsInjective(s), Len(s) <= SeenMax,
           NEW k \in Key, k \notin ToSet(s)
    PROVE  /\ Add(s, k, SeenMax) \in Seq(Key)
           /\ IsInjective(Add(s, k, SeenMax))
           /\ Len(Add(s, k, SeenMax)) <= SeenMax
           /\ ToSet(Add(s, k, SeenMax)) \subseteq ToSet(s) \cup {k}
           /\ SeenMax >= Cardinality(Key) =>
                ToSet(Add(s, k, SeenMax)) = ToSet(s) \cup {k}
<1>. DEFINE t == MoveToEnd(s, k)
<1>1. /\ t \in Seq(Key) /\ IsInjective(t)
      /\ ToSet(t) = ToSet(s) \cup {k}
      /\ Len(t) <= Len(s) + 1
    BY MoveToEndProperties
<1>. HIDE DEF t
<1>2. Len(t) <= Cardinality(Key)
    BY <1>1, FeedAssumption, InjectiveLen DEF FeedAssumption
<1>3. Add(s, k, SeenMax) = IF Len(t) > SeenMax THEN Tail(t) ELSE t
    BY DEF Add, t
<1>4. SeenMax \in Nat \ {0} /\ Len(s) \in Nat /\ Len(t) \in Nat
    BY <1>1, BoundsAssumption DEF BoundsAssumption
<1>5. Cardinality(Key) \in Nat
    BY FeedAssumption, FS_CardinalityType DEF FeedAssumption
<1>6. CASE Len(t) > SeenMax
  <2>1. t # <<>>
    BY <1>4, <1>6
  <2>2. /\ Tail(t) \in Seq(Key)
        /\ Len(Tail(t)) = Len(t) - 1
        /\ ToSet(t) = {Head(t)} \cup ToSet(Tail(t))
        /\ IsInjective(Tail(t))
    BY <1>1, <2>1, TailProperties
  <2>. QED
    BY <1>1, <1>2, <1>3, <1>4, <1>5, <1>6, <2>2
<1>7. CASE Len(t) <= SeenMax
    BY <1>1, <1>3, <1>4, <1>7
<1>. QED
    BY <1>4, <1>6, <1>7

-----------------------------------------------------------------------------
(* What a version shows *)

\* A version shows some of the listed items.
LEMMA ShownProperties ==
    ASSUME NEW s \in Seq(Item), NEW v \in 0 .. Len(s)
    PROVE  /\ Shown(s, v) \in Seq(Item)
           /\ ToSet(Shown(s, v)) \subseteq ToSet(s)
           /\ v = 0 => ToSet(Shown(s, v)) = {}
<1>. DEFINE listed == SubSeq(s, Len(s) - v + 1, Len(s))
            n == IF Len(listed) < MaxItems THEN Len(listed) ELSE MaxItems
<1>1. /\ listed \in Seq(Item) /\ Len(listed) = v
      /\ \A i \in 1 .. v : listed[i] = s[Len(s) - v + i]
  <2>1. Len(s) - v + 1 \in 1 .. Len(s) + 1 /\ Len(s) \in 0 .. Len(s)
    OBVIOUS
  <2>. QED
    BY <2>1, PartOf
<1>. HIDE DEF listed
<1>2. n \in 0 .. Len(listed) /\ 1 \in 1 .. Len(listed) + 1
    BY <1>1, BoundsAssumption DEF BoundsAssumption
<1>. HIDE DEF n
<1>3. /\ SubSeq(listed, 1, n) \in Seq(Item)
      /\ Len(SubSeq(listed, 1, n)) = n
      /\ \A i \in 1 .. n : SubSeq(listed, 1, n)[i] = listed[i]
    BY <1>1, <1>2, PartOf
<1>4. Shown(s, v) = SubSeq(listed, 1, n)
    BY DEF Shown, listed, n
<1>5. \A i \in 1 .. n : Shown(s, v)[i] = s[Len(s) - v + i] /\ Len(s) - v + i \in 1 .. Len(s)
    BY <1>1, <1>2, <1>3, <1>4
<1>6. DOMAIN Shown(s, v) = 1 .. n
    BY <1>2, <1>3, <1>4
<1>7. ToSet(Shown(s, v)) \subseteq ToSet(s)
    BY <1>5, <1>6 DEF ToSet
<1>8. ASSUME v = 0 PROVE ToSet(Shown(s, v)) = {}
    BY <1>1, <1>2, <1>6, <1>8 DEF ToSet
<1>. QED
    BY <1>3, <1>4, <1>7, <1>8

\* What a version shows stays the same when the site lists another item.
LEMMA ShownIsStable ==
    ASSUME NEW s \in Seq(Item), NEW v \in 0 .. Len(s), NEW i \in Item
    PROVE  Shown(<<i>> \o s, v) = Shown(s, v)
<1>. DEFINE t == <<i>> \o s
            old == SubSeq(s, Len(s) - v + 1, Len(s))
            new == SubSeq(t, Len(t) - v + 1, Len(t))
<1>1. t \in Seq(Item) /\ Len(t) = Len(s) + 1
    OBVIOUS
<1>2. \A j \in 1 .. Len(s) : t[j + 1] = s[j]
    OBVIOUS
<1>3. /\ old \in Seq(Item) /\ Len(old) = v
      /\ \A j \in 1 .. v : old[j] = s[Len(s) - v + j]
  <2>1. Len(s) - v + 1 \in 1 .. Len(s) + 1 /\ Len(s) \in 0 .. Len(s)
    OBVIOUS
  <2>. QED
    BY <2>1, PartOf
<1>. HIDE DEF t
<1>4. /\ new \in Seq(Item) /\ Len(new) = v
      /\ \A j \in 1 .. v : new[j] = t[Len(t) - v + j]
  <2>1. Len(t) - v + 1 \in 1 .. Len(t) + 1 /\ Len(t) \in 0 .. Len(t)
    BY <1>1
  <2>. QED
    BY <1>1, <2>1, PartOf
<1>. HIDE DEF old, new
<1>5. \A j \in 1 .. v : new[j] = old[j]
  <2>. SUFFICES ASSUME NEW j \in 1 .. v PROVE new[j] = old[j]
    OBVIOUS
  <2>1. Len(s) - v + j \in 1 .. Len(s) /\ Len(t) - v + j = Len(s) - v + j + 1
    BY <1>1
  <2>. QED
    BY <1>2, <1>3, <1>4, <2>1
<1>6. new = old
    BY <1>3, <1>4, <1>5
<1>. QED
    BY <1>6 DEF Shown, old, new, t

-----------------------------------------------------------------------------
(* Types, and what a task's locals are *)

\* The rows and the locals: a feed that is polled has errors left, no version is
\* ahead of its site, and a task never holds a version older than its row's.
RowInv ==
    /\ \A f \in Feed : row[f].status = "active" => row[f].errors < ErrorLimit
    /\ \A f \in Feed : row[f].etag <= Len(site[f]) /\ (f \notin Tagged => row[f].etag = 0)

JobInv ==
    \A f \in Feed :
        /\ pc[f] # "idle" => job[f].errors < ErrorLimit /\ row[f].etag <= job[f].etag
        /\ job[f].etag <= Len(site[f]) /\ (f \notin Tagged => job[f].etag = 0)
        /\ ToSet(job[f].entries) \subseteq ToSet(site[f])
        /\ pc[f] = "publish" => job[f].entries # <<>> /\ Usable(Head(job[f].entries))

TInv == TypeOK /\ RowInv /\ JobInv

\* Constants and bounds in the form in which the steps below use them.
LEMMA Constants ==
    /\ \A i \in Item : Usable(i) => KeyOf[i] \in Key
    /\ MaxItems \in Nat \ {0} /\ SeenMax \in Nat \ {0} /\ ErrorLimit \in Nat \ {0}
    /\ MaxFaults \in Nat
    /\ Cardinality(Item) \in Nat
<1>1. Cardinality(Item) \in Nat
    BY FeedAssumption, FS_CardinalityType DEF FeedAssumption
<1>. QED
    BY <1>1, FeedAssumption, BoundsAssumption
    DEF FeedAssumption, BoundsAssumption, Usable

\* The scheduler starts with idle tasks, unknown feeds and an empty memory.
LEMMA TInvInit ==
    Init => TInv
<1>. SUFFICES ASSUME Init PROVE TInv
    OBVIOUS
<1>1. <<>> \in Seq(Item) /\ <<>> \in Seq(Feed) /\ <<>> \in Seq(Key) /\ Len(<<>>) = 0
    OBVIOUS
<1>2. IsInjective(<<>>) /\ ToSet(<<>>) = {}
    BY DEF IsInjective, ToSet
<1>3. FreshRow \in Row /\ NoJob \in Job
    BY <1>1, Constants DEF FreshRow, NoJob, Row, Job, Version
<1>4. TypeOK
  <2>1. site \in [Feed -> Seq(Item)] /\ \A f \in Feed : IsInjective(site[f])
    BY <1>1, <1>2 DEF Init
  <2>2. /\ due \in Seq(Feed) /\ IsInjective(due)
        /\ seen \in Seq(Key) /\ IsInjective(seen) /\ Len(seen) <= SeenMax
    BY <1>1, <1>2, Constants DEF Init
  <2>3. row \in [Feed -> Row] /\ job \in [Feed -> Job] /\ pc \in [Feed -> Label]
    BY <1>3 DEF Init, Label
  <2>4. /\ published \subseteq Key /\ repeated \subseteq emitted /\ emitted \subseteq published
        /\ faults \in 0 .. MaxFaults
    BY Constants DEF Init
  <2>5. polling \in BOOLEAN
    BY Zenon DEF Init
  <2>. QED
    BY <2>1, <2>2, <2>3, <2>4, <2>5 DEF TypeOK
<1>5. RowInv
    BY <1>1, Constants DEF Init, RowInv, FreshRow
<1>6. JobInv
    BY <1>1, <1>2 DEF Init, JobInv, NoJob
<1>. QED
    BY <1>4, <1>5, <1>6 DEF TInv

\* A task ends.
LEMMA ReturnKeepsJobs ==
    ASSUME NEW f \in Feed, TInv, Return(f), UNCHANGED site,
           \A g \in Feed \ {f} : row'[g] = row[g]
    PROVE  pc' \in [Feed -> Label] /\ job' \in [Feed -> Job] /\ JobInv'
<1>1. NoJob \in Job /\ NoJob.etag = 0 /\ ToSet(NoJob.entries) = {}
    BY Constants DEF NoJob, Job, Version, ToSet
<1>2. pc' \in [Feed -> Label] /\ job' \in [Feed -> Job]
    BY <1>1 DEF TInv, TypeOK, Return, Goto, Label
<1>3. \A g \in Feed \ {f} : pc'[g] = pc[g] /\ job'[g] = job[g]
    BY DEF TInv, TypeOK, Return, Goto
<1>4. pc'[f] = "idle" /\ job'[f] = NoJob
    BY DEF TInv, TypeOK, Return, Goto
<1>5. site \in [Feed -> Seq(Item)] /\ Len(site[f]) \in Nat
    BY DEF TInv, TypeOK
<1>6. JobInv'
    BY <1>1, <1>3, <1>4, <1>5 DEF TInv, JobInv, Usable
<1>. QED
    BY <1>2, <1>6

\* Feeds leave the list of those that are due, or come to its end.
LEMMA DueTypes ==
    ASSUME NEW f \in Feed, TypeOK
    PROVE  /\ RemoveFirst(due, f) \in Seq(Feed) /\ IsInjective(RemoveFirst(due, f))
           /\ f \notin ToSet(due) =>
                Append(due, f) \in Seq(Feed) /\ IsInjective(Append(due, f))
    BY RemoveFirstProperties, AppendNew DEF TypeOK

\* A task goes on, with the locals it has.
LEMMA GotoKeepsJobs ==
    ASSUME NEW f \in Feed, NEW label \in Label, TInv, Goto(f, label), UNCHANGED <<site, job>>,
           pc[f] # "idle" \/ label = "idle",
           label # "publish",
           \A g \in Feed : row'[g].etag = row[g].etag
    PROVE  pc' \in [Feed -> Label] /\ JobInv'
    BY DEF TInv, TypeOK, JobInv, Goto, Usable

\* A task is done with an entry.
LEMMA TailKeepsJobs ==
    ASSUME NEW f \in Feed, TInv, pc[f] \in {"entries", "publish"}, job[f].entries # <<>>,
           pc' = [pc EXCEPT ![f] = "entries"],
           job' = [job EXCEPT ![f].entries = Tail(@)],
           UNCHANGED <<site, row>>
    PROVE  pc' \in [Feed -> Label] /\ job' \in [Feed -> Job] /\ JobInv'
<1>1. job[f].entries \in Seq(Item) /\ job[f] \in Job
    BY DEF TInv, TypeOK, Job
<1>2. /\ Tail(job[f].entries) \in Seq(Item)
      /\ ToSet(Tail(job[f].entries)) \subseteq ToSet(job[f].entries)
    BY <1>1, TailProperties
<1>3. /\ job'[f] \in Job
      /\ job'[f].entries = Tail(job[f].entries)
      /\ job'[f].errors = job[f].errors /\ job'[f].etag = job[f].etag
      /\ \A g \in Feed \ {f} : job'[g] = job[g]
    BY <1>1, <1>2 DEF TInv, TypeOK, Job
<1>4. pc' \in [Feed -> Label] /\ pc'[f] = "entries" /\ \A g \in Feed \ {f} : pc'[g] = pc[g]
    BY DEF TInv, TypeOK, Label
<1>5. job' \in [Feed -> Job]
    BY <1>3 DEF TInv, TypeOK
<1>6. JobInv'
  <2>. SUFFICES ASSUME NEW g \in Feed
                PROVE  /\ pc'[g] # "idle" => job'[g].errors < ErrorLimit /\ row[g].etag <= job'[g].etag
                       /\ job'[g].etag <= Len(site[g]) /\ (g \notin Tagged => job'[g].etag = 0)
                       /\ ToSet(job'[g].entries) \subseteq ToSet(site[g])
                       /\ pc'[g] = "publish" => job'[g].entries # <<>> /\ Usable(Head(job'[g].entries))
    BY DEF JobInv, Usable
  <2>1. CASE g = f
    BY <1>2, <1>3, <1>4, <2>1 DEF TInv, JobInv
  <2>2. CASE g # f
    BY <1>3, <1>4, <2>2 DEF TInv, JobInv
  <2>. QED
    BY <2>1, <2>2
<1>. QED
    BY <1>4, <1>5, <1>6

\* Every step of every task, site, cycle and fault keeps TInv.
LEMMA TInvStep ==
    TInv /\ [Next]_vars => TInv'
<1>. SUFFICES ASSUME TInv, [Next]_vars PROVE TInv'
    OBVIOUS
<1>. USE Constants
<1>1. ASSUME NEW f \in Feed, NEW i \in Item, List(f, i) PROVE TInv'
  <2>1. site[f] \in Seq(Item) /\ IsInjective(site[f]) /\ i \notin ToSet(site[f])
    BY <1>1 DEF List, TInv, TypeOK
  <2>2. /\ <<i>> \o site[f] \in Seq(Item)
        /\ IsInjective(<<i>> \o site[f])
        /\ ToSet(<<i>> \o site[f]) = ToSet(site[f]) \cup {i}
        /\ Len(<<i>> \o site[f]) = Len(site[f]) + 1
    BY <2>1, PrependNew
  <2>3. /\ site' = [site EXCEPT ![f] = <<i>> \o site[f]]
        /\ UNCHANGED <<tableVars, seen, eventVars, polling, pc, job, faults>>
    BY <1>1 DEF List
  <2>4. TypeOK'
    BY <2>2, <2>3 DEF TInv, TypeOK, tableVars, eventVars
  <2>5. \A g \in Feed : /\ Len(site[g]) <= Len(site'[g])
                        /\ ToSet(site[g]) \subseteq ToSet(site'[g])
    BY <2>1, <2>2, <2>3 DEF TInv, TypeOK
  <2>6. \A g \in Feed : Len(site[g]) \in Nat /\ Len(site'[g]) \in Nat
    BY <2>4 DEF TInv, TypeOK
  <2>7. \A g \in Feed : row[g].etag \in Nat /\ job[g].etag \in Nat
    BY DEF TInv, TypeOK, Row, Job, Version
  <2>8. RowInv'
    BY <2>3, <2>5, <2>6, <2>7 DEF TInv, RowInv, tableVars
  <2>9. JobInv'
    <3>. SUFFICES ASSUME NEW g \in Feed
                  PROVE  /\ job[g].etag <= Len(site'[g])
                         /\ ToSet(job[g].entries) \subseteq ToSet(site'[g])
      BY <2>3 DEF TInv, JobInv, tableVars
    <3>1. job[g].etag <= Len(site[g]) /\ ToSet(job[g].entries) \subseteq ToSet(site[g])
      BY DEF TInv, JobInv
    <3>. QED
      BY <2>5, <2>6, <2>7, <3>1
  <2>. QED
    BY <2>4, <2>8, <2>9 DEF TInv
<1>2. ASSUME NEW f \in Feed, FallDue(f) PROVE TInv'
  <2>1. due' \in Seq(Feed) /\ IsInjective(due')
    BY <1>2, DueTypes DEF FallDue, TInv
  <2>2. TypeOK'
    BY <1>2, <2>1 DEF FallDue, TInv, TypeOK, eventVars
  <2>3. RowInv' /\ JobInv'
    BY <1>2 DEF FallDue, TInv, RowInv, JobInv, Usable
  <2>. QED
    BY <2>2, <2>3 DEF TInv
<1>3. ASSUME StartCycle PROVE TInv'
  <2>1. \A f \in Picked : row[f].status = "active"
    BY DEF Picked
  <2>2. \A f \in Feed : row[f].errors \in 0 .. ErrorLimit /\ row[f].etag \in Version
    BY DEF TInv, TypeOK, Row
  <2>3. <<>> \in Seq(Item) /\ ToSet(<<>>) = {}
    BY DEF ToSet
  <2>4. /\ polling' = TRUE
        /\ pc' = [f \in Feed |-> IF f \in Picked THEN "queued" ELSE "idle"]
        /\ job' = [f \in Feed |-> IF f \in Picked
                                  THEN [NoJob EXCEPT !.errors = row[f].errors, !.etag = row[f].etag]
                                  ELSE NoJob]
        /\ UNCHANGED <<site, row, due, seen, published, repeated, emitted, faults>>
    BY <1>3 DEF StartCycle, tableVars, eventVars
  <2>5. ASSUME NEW f \in Feed
        PROVE  /\ job'[f] \in Job
               /\ ToSet(job'[f].entries) = {}
               /\ f \in Picked => job'[f].errors = row[f].errors /\ job'[f].etag = row[f].etag
               /\ f \notin Picked => job'[f].etag = 0
    <3>1. NoJob \in Job
      BY <2>3 DEF NoJob, Job, Version
    <3>2. CASE f \in Picked
      <4>1. job'[f] = [NoJob EXCEPT !.errors = row[f].errors, !.etag = row[f].etag]
        BY <2>4, <3>2
      <4>2. job'[f] \in Job
        BY <2>2, <3>1, <4>1 DEF Job
      <4>3. /\ job'[f].errors = row[f].errors /\ job'[f].etag = row[f].etag
            /\ job'[f].entries = <<>>
        BY <4>1 DEF NoJob
      <4>. QED
        BY <2>3, <3>2, <4>2, <4>3
    <3>3. CASE f \notin Picked
      BY <2>3, <2>4, <3>1, <3>3 DEF NoJob
    <3>. QED
      BY <3>2, <3>3
  <2>7. job' \in [Feed -> Job] /\ pc' \in [Feed -> Label]
    BY <2>4, <2>5 DEF Label
  <2>8. TypeOK'
    <3>1. polling' \in BOOLEAN
      BY <2>4, Zenon
    <3>. QED
      BY <2>4, <2>7, <3>1 DEF TInv, TypeOK
  <2>9. RowInv'
    BY <2>4 DEF TInv, RowInv
  <2>10. JobInv'
    <3>. SUFFICES ASSUME NEW f \in Feed
                  PROVE  /\ pc'[f] # "idle" => job'[f].errors < ErrorLimit /\ row[f].etag <= job'[f].etag
                         /\ job'[f].etag <= Len(site[f]) /\ (f \notin Tagged => job'[f].etag = 0)
                         /\ ToSet(job'[f].entries) \subseteq ToSet(site[f])
                         /\ pc'[f] # "publish"
      BY <2>4 DEF JobInv
    <3>1. Len(site[f]) \in Nat /\ row[f].etag \in Nat
      BY <2>2 DEF TInv, TypeOK, Version
    <3>2. /\ row[f].etag <= Len(site[f]) /\ (f \notin Tagged => row[f].etag = 0)
          /\ f \in Picked => row[f].errors < ErrorLimit
      BY <2>1 DEF TInv, RowInv
    <3>3. pc'[f] = IF f \in Picked THEN "queued" ELSE "idle"
      BY <2>4
    <3>4. CASE f \in Picked
      <4>1. job'[f].errors = row[f].errors /\ job'[f].etag = row[f].etag
        BY <2>5, <3>4
      <4>2. job'[f].etag <= Len(site[f]) /\ (f \notin Tagged => job'[f].etag = 0)
        BY <3>2, <4>1
      <4>3. job'[f].errors < ErrorLimit /\ row[f].etag <= job'[f].etag
        BY <3>1, <3>2, <3>4, <4>1
      <4>4. ToSet(job'[f].entries) \subseteq ToSet(site[f])
        BY <2>5
      <4>5. pc'[f] # "publish"
        BY <3>3
      <4>. QED
        BY <4>2, <4>3, <4>4, <4>5
    <3>5. CASE f \notin Picked
      <4>1. job'[f].etag = 0 /\ ToSet(job'[f].entries) = {}
        BY <2>5, <3>5
      <4>. QED
        BY <3>1, <3>3, <3>5, <4>1
    <3>. QED
      BY <3>4, <3>5
  <2>. QED
    BY <2>8, <2>9, <2>10 DEF TInv
<1>4. ASSUME NEW f \in Feed, Acquire(f) PROVE TInv'
  <2>1. pc' \in [Feed -> Label] /\ JobInv'
    BY <1>4, GotoKeepsJobs DEF Acquire, At, Label, tableVars
  <2>2. TypeOK'
    BY <1>4, <2>1 DEF Acquire, TInv, TypeOK, tableVars, eventVars
  <2>3. RowInv'
    BY <1>4 DEF Acquire, TInv, RowInv, tableVars
  <2>. QED
    BY <2>1, <2>2, <2>3 DEF TInv
<1>5. ASSUME NEW f \in Feed, NotModified(f) PROVE TInv'
  <2>1. pc' \in [Feed -> Label] /\ JobInv'
    BY <1>5, GotoKeepsJobs DEF NotModified, At, Label, tableVars
  <2>2. TypeOK'
    BY <1>5, <2>1 DEF NotModified, TInv, TypeOK, tableVars, eventVars
  <2>3. RowInv'
    BY <1>5 DEF NotModified, TInv, RowInv, tableVars
  <2>. QED
    BY <2>1, <2>2, <2>3 DEF TInv
<1>6. ASSUME NEW f \in Feed, Modified(f) PROVE TInv'
  <2>. DEFINE version == IF f \in Tagged THEN Len(site[f]) ELSE 0
              shown == Shown(site[f], Len(site[f]))
  <2>1. /\ pc[f] = "fetch"
        /\ pc' = [pc EXCEPT ![f] = "entries"]
        /\ job' = [job EXCEPT ![f].entries = shown, ![f].etag = version]
        /\ UNCHANGED <<site, row, due, seen, published, repeated, emitted, polling, faults>>
    BY <1>6 DEF Modified, At, Goto, tableVars, eventVars
  <2>2. site[f] \in Seq(Item) /\ IsInjective(site[f]) /\ Len(site[f]) \in Nat
    BY DEF TInv, TypeOK
  <2>3. shown \in Seq(Item) /\ ToSet(shown) \subseteq ToSet(site[f])
    BY <2>2, ShownProperties
  <2>4. version \in Version /\ version <= Len(site[f])
    BY <2>2, InjectiveLen, FeedAssumption DEF Version, FeedAssumption
  <2>5. row[f].etag <= version
    BY <2>2 DEF TInv, RowInv
  <2>. HIDE DEF shown, version
  <2>6. /\ job'[f] = [errors |-> job[f].errors, etag |-> version, entries |-> shown]
        /\ \A g \in Feed \ {f} : job'[g] = job[g]
        /\ job' \in [Feed -> Job]
    BY <2>1, <2>3, <2>4 DEF TInv, TypeOK, Job
  <2>7. TypeOK'
    BY <2>1, <2>6 DEF TInv, TypeOK, Label
  <2>8. RowInv'
    BY <2>1 DEF TInv, RowInv
  <2>9. JobInv'
    <3>. SUFFICES ASSUME NEW g \in Feed
                  PROVE  /\ pc'[g] # "idle" => job'[g].errors < ErrorLimit /\ row[g].etag <= job'[g].etag
                         /\ job'[g].etag <= Len(site[g]) /\ (g \notin Tagged => job'[g].etag = 0)
                         /\ ToSet(job'[g].entries) \subseteq ToSet(site[g])
                         /\ pc'[g] = "publish" => job'[g].entries # <<>> /\ Usable(Head(job'[g].entries))
      BY <2>1 DEF JobInv, Usable
    <3>1. CASE g = f
      <4>1. pc'[f] = "entries"
        BY <2>1 DEF TInv, TypeOK
      <4>2. f \notin Tagged => version = 0
        BY DEF version
      <4>. QED
        BY <2>1, <2>3, <2>4, <2>5, <2>6, <3>1, <4>1, <4>2 DEF TInv, JobInv
    <3>2. CASE g # f
      BY <2>1, <2>6, <3>2 DEF TInv, TypeOK, JobInv
    <3>. QED
      BY <3>1, <3>2
  <2>. QED
    BY <2>7, <2>8, <2>9 DEF TInv
<1>7. ASSUME NEW f \in Feed, SkipEntry(f) PROVE TInv'
  <2>1. /\ pc[f] = "entries" /\ job[f].entries # <<>>
        /\ job' = [job EXCEPT ![f].entries = Tail(@)]
        /\ UNCHANGED <<site, row, due, published, repeated, emitted, polling, pc, faults>>
    BY <1>7 DEF SkipEntry, At, tableVars, eventVars
  <2>2. pc' = [pc EXCEPT ![f] = "entries"]
    BY <2>1 DEF TInv, TypeOK
  <2>3. pc' \in [Feed -> Label] /\ job' \in [Feed -> Job] /\ JobInv'
    BY <2>1, <2>2, TailKeepsJobs
  <2>4. seen' \in Seq(Key) /\ IsInjective(seen') /\ Len(seen') <= SeenMax
    <3>. DEFINE k == KeyOf[Head(job[f].entries)]
    <3>1. seen' = seen \/ (Contains(seen, k) /\ seen' = Touch(seen, k))
      BY <1>7 DEF SkipEntry
    <3>2. seen \in Seq(Key) /\ IsInjective(seen) /\ Len(seen) <= SeenMax
      BY DEF TInv, TypeOK
    <3>. HIDE DEF k
    <3>3. CASE Contains(seen, k) /\ seen' = Touch(seen, k)
      <4>1. k \in ToSet(seen) /\ k \in Key
        BY <3>2, <3>3 DEF Contains, ToSet
      <4>. QED
        BY <3>2, <3>3, <4>1, TouchProperties
    <3>. QED
      BY <3>1, <3>2, <3>3
  <2>5. TypeOK' /\ RowInv'
    BY <2>1, <2>3, <2>4 DEF TInv, TypeOK, RowInv
  <2>. QED
    BY <2>3, <2>5 DEF TInv
<1>8. ASSUME NEW f \in Feed, TakeEntry(f) PROVE TInv'
  <2>. DEFINE i == Head(job[f].entries)
  <2>1. /\ pc[f] = "entries" /\ job[f].entries # <<>>
        /\ Usable(i) /\ ~ Contains(seen, KeyOf[i])
        /\ seen' = Add(seen, KeyOf[i], SeenMax)
        /\ pc' = [pc EXCEPT ![f] = "publish"]
        /\ UNCHANGED <<site, row, due, published, repeated, emitted, polling, job, faults>>
    BY <1>8 DEF TakeEntry, At, Goto, tableVars, eventVars
  <2>2. i \in Item
    BY <2>1 DEF TInv, TypeOK, Job
  <2>. HIDE DEF i
  <2>3. seen' \in Seq(Key) /\ IsInjective(seen') /\ Len(seen') <= SeenMax
    <3>1. seen \in Seq(Key) /\ IsInjective(seen) /\ Len(seen) <= SeenMax
      BY DEF TInv, TypeOK
    <3>2. KeyOf[i] \in Key /\ KeyOf[i] \notin ToSet(seen)
      BY <2>1, <2>2, <3>1 DEF Contains, ToSet
    <3>. QED
      BY <2>1, <3>1, <3>2, AddProperties
  <2>4. pc' \in [Feed -> Label] /\ pc'[f] = "publish" /\ \A g \in Feed \ {f} : pc'[g] = pc[g]
    BY <2>1 DEF TInv, TypeOK, Label
  <2>5. TypeOK' /\ RowInv'
    BY <2>1, <2>3, <2>4 DEF TInv, TypeOK, RowInv
  <2>6. JobInv'
    <3>. SUFFICES ASSUME NEW g \in Feed
                  PROVE  /\ pc'[g] # "idle" => job[g].errors < ErrorLimit /\ row[g].etag <= job[g].etag
                         /\ job[g].etag <= Len(site[g]) /\ (g \notin Tagged => job[g].etag = 0)
                         /\ ToSet(job[g].entries) \subseteq ToSet(site[g])
                         /\ pc'[g] = "publish" => job[g].entries # <<>> /\ Usable(Head(job[g].entries))
      BY <2>1 DEF JobInv, Usable
    <3>1. CASE g = f
      BY <2>1, <2>4, <3>1 DEF TInv, JobInv, i
    <3>2. CASE g # f
      BY <2>4, <3>2 DEF TInv, JobInv
    <3>. QED
      BY <3>1, <3>2
  <2>. QED
    BY <2>5, <2>6 DEF TInv
<1>9. ASSUME NEW f \in Feed, Publish(f) PROVE TInv'
  <2>. DEFINE k == KeyOf[Head(job[f].entries)]
  <2>1. /\ pc[f] = "publish" /\ published' = published \cup {k}
        /\ emitted' = emitted \cup {k} /\ repeated' = repeated \cup (emitted \cap {k})
        /\ pc' = [pc EXCEPT ![f] = "entries"]
        /\ job' = [job EXCEPT ![f].entries = Tail(@)]
        /\ UNCHANGED <<site, row, due, seen, polling, faults>>
    BY <1>9 DEF Publish, At, Goto, tableVars
  <2>2. job[f].entries # <<>> /\ Usable(Head(job[f].entries))
    BY <2>1 DEF TInv, JobInv
  <2>3. k \in Key
    <3>1. Head(job[f].entries) \in Item
      BY <2>2 DEF TInv, TypeOK, Job
    <3>. QED
      BY <2>2, <3>1
  <2>. HIDE DEF k
  <2>4. pc' \in [Feed -> Label] /\ job' \in [Feed -> Job] /\ JobInv'
    BY <2>1, <2>2, TailKeepsJobs
  <2>5. TypeOK' /\ RowInv'
    BY <2>1, <2>3, <2>4 DEF TInv, TypeOK, RowInv
  <2>. QED
    BY <2>4, <2>5 DEF TInv
<1>10. ASSUME NEW f \in Feed, LastEntry(f) PROVE TInv'
  <2>1. pc' \in [Feed -> Label] /\ JobInv'
    BY <1>10, GotoKeepsJobs DEF LastEntry, At, Label, tableVars
  <2>2. TypeOK'
    BY <1>10, <2>1 DEF LastEntry, TInv, TypeOK, tableVars, eventVars
  <2>3. RowInv'
    BY <1>10 DEF LastEntry, TInv, RowInv, tableVars
  <2>. QED
    BY <2>1, <2>2, <2>3 DEF TInv
<1>11. ASSUME NEW f \in Feed, UpdatePollState(f) PROVE TInv'
  <2>1. /\ pc[f] = "update" /\ pc' = [pc EXCEPT ![f] = "updated"]
        /\ row' = [row EXCEPT ![f].errors = 0, ![f].etag = job[f].etag]
        /\ due' = RemoveFirst(due, f)
        /\ UNCHANGED <<site, seen, published, repeated, emitted, polling, job, faults>>
    BY <1>11 DEF UpdatePollState, At, Goto, NotDue, eventVars
  <2>2. row[f] \in Row /\ job[f].etag \in Version /\ job[f].etag <= Len(site[f])
        /\ (f \notin Tagged => job[f].etag = 0)
    BY DEF TInv, TypeOK, Job, JobInv
  <2>3. /\ row'[f] \in Row
        /\ row'[f].errors = 0 /\ row'[f].etag = job[f].etag
        /\ \A g \in Feed \ {f} : row'[g] = row[g]
    <3>1. row'[f] = [status |-> row[f].status, errors |-> 0, etag |-> job[f].etag]
      BY <2>1, <2>2 DEF TInv, TypeOK, Row
    <3>2. row'[f] \in Row
      BY <2>2, <3>1 DEF Row
    <3>3. \A g \in Feed \ {f} : row'[g] = row[g]
      BY <2>1 DEF TInv, TypeOK
    <3>. QED
      BY <3>1, <3>2, <3>3
  <2>4. pc' \in [Feed -> Label] /\ pc'[f] = "updated" /\ \A g \in Feed \ {f} : pc'[g] = pc[g]
    BY <2>1 DEF TInv, TypeOK, Label
  <2>5. row' \in [Feed -> Row]
    BY <2>1, <2>3 DEF TInv, TypeOK
  <2>6. due' \in Seq(Feed) /\ IsInjective(due')
    BY <2>1, DueTypes DEF TInv
  <2>7. TypeOK'
    BY <2>1, <2>4, <2>5, <2>6 DEF TInv, TypeOK
  <2>8. RowInv'
    BY <2>1, <2>2, <2>3, <2>5 DEF TInv, TypeOK, RowInv
  <2>9. JobInv'
    BY <2>1, <2>2, <2>3, <2>4 DEF TInv, JobInv, Job, TypeOK, Version, Usable
  <2>. QED
    BY <2>7, <2>8, <2>9 DEF TInv
<1>12. ASSUME NEW f \in Feed, EndTask(f) PROVE TInv'
  <2>1. pc' \in [Feed -> Label] /\ job' \in [Feed -> Job] /\ JobInv'
    BY <1>12, ReturnKeepsJobs DEF EndTask, tableVars
  <2>2. TypeOK' /\ RowInv'
    BY <1>12, <2>1 DEF EndTask, TInv, TypeOK, RowInv, tableVars, eventVars
  <2>. QED
    BY <2>1, <2>2 DEF TInv
<1>13. ASSUME NEW f \in Feed, RecordError(f) PROVE TInv'
  <2>. DEFINE errors == job[f].errors + 1
              status == IF errors >= ErrorLimit THEN "error" ELSE "active"
  <2>1. /\ pc[f] = "failed"
        /\ row' = [row EXCEPT ![f].errors = errors, ![f].status = status]
        /\ due' = RemoveFirst(due, f)
        /\ Return(f)
        /\ UNCHANGED <<site, seen, published, repeated, emitted, polling, faults>>
    BY <1>13 DEF RecordError, At, NotDue, eventVars
  <2>2. errors \in 0 .. ErrorLimit
    <3>1. job[f].errors \in 0 .. ErrorLimit
      BY DEF TInv, TypeOK, Job
    <3>2. job[f].errors < ErrorLimit
      BY <2>1 DEF TInv, JobInv
    <3>. QED
      BY <3>1, <3>2
  <2>3. status \in {"active", "error"} /\ (status = "active" => errors < ErrorLimit)
    BY <2>2
  <2>. HIDE DEF errors, status
  <2>4. /\ row'[f] \in Row
        /\ row'[f].errors = errors /\ row'[f].etag = row[f].etag /\ row'[f].status = status
        /\ \A g \in Feed \ {f} : row'[g] = row[g]
    BY <2>1, <2>2, <2>3 DEF TInv, TypeOK, Row
  <2>5. row' \in [Feed -> Row]
    BY <2>1, <2>4 DEF TInv, TypeOK
  <2>6. pc' \in [Feed -> Label] /\ job' \in [Feed -> Job] /\ JobInv'
    BY <2>1, <2>4, ReturnKeepsJobs
  <2>7. due' \in Seq(Feed) /\ IsInjective(due')
    BY <2>1, DueTypes DEF TInv
  <2>8. TypeOK'
    BY <2>1, <2>5, <2>6, <2>7 DEF TInv, TypeOK
  <2>9. RowInv'
    BY <2>1, <2>3, <2>4 DEF TInv, RowInv
  <2>. QED
    BY <2>6, <2>8, <2>9 DEF TInv
<1>14. ASSUME EndCycle PROVE TInv'
  <2>1. polling' \in BOOLEAN
    BY <1>14, Zenon DEF EndCycle
  <2>2. TypeOK'
    BY <1>14, <2>1 DEF EndCycle, TInv, TypeOK, tableVars, eventVars
  <2>3. RowInv' /\ JobInv'
    BY <1>14 DEF EndCycle, TInv, RowInv, JobInv, Usable, tableVars
  <2>. QED
    BY <2>2, <2>3 DEF TInv
<1>15. ASSUME NEW f \in Feed, Fail(f) PROVE TInv'
  <2>1. /\ pc[f] # "idle" /\ Goto(f, "failed")
        /\ UNCHANGED <<site, row, due, seen, published, repeated, emitted, polling, job>>
        /\ faults < MaxFaults /\ faults' = faults + 1
    BY <1>15 DEF Fail, Raise, Fault, tableVars, eventVars
  <2>2. pc' \in [Feed -> Label] /\ JobInv'
    BY <2>1, GotoKeepsJobs DEF Label
  <2>3. faults' \in 0 .. MaxFaults
    BY <2>1 DEF TInv, TypeOK
  <2>4. TypeOK' /\ RowInv'
    BY <2>1, <2>2, <2>3 DEF TInv, TypeOK, RowInv
  <2>. QED
    BY <2>2, <2>4 DEF TInv
<1>16. ASSUME NEW f \in Feed, RecordErrorFails(f) PROVE TInv'
  <2>1. pc' \in [Feed -> Label] /\ job' \in [Feed -> Job] /\ JobInv'
    BY <1>16, ReturnKeepsJobs DEF RecordErrorFails, tableVars
  <2>2. faults' \in 0 .. MaxFaults
    BY <1>16 DEF RecordErrorFails, Fault, TInv, TypeOK
  <2>3. TypeOK' /\ RowInv'
    BY <1>16, <2>1, <2>2 DEF RecordErrorFails, TInv, TypeOK, RowInv, tableVars, eventVars
  <2>. QED
    BY <2>1, <2>3 DEF TInv
<1>17. ASSUME Crash PROVE TInv'
  <2>1. /\ seen' = <<>> /\ emitted' = {} /\ repeated' = {} /\ polling' = FALSE
        /\ pc' = [f \in Feed |-> "idle"] /\ job' = [f \in Feed |-> NoJob]
        /\ faults < MaxFaults /\ faults' = faults + 1
        /\ UNCHANGED <<site, row, due, published>>
    BY <1>17 DEF Crash, Fault, tableVars
  <2>2. <<>> \in Seq(Item) /\ <<>> \in Seq(Key) /\ Len(<<>>) = 0
    OBVIOUS
  <2>3. IsInjective(<<>>) /\ ToSet(<<>>) = {}
    BY DEF IsInjective, ToSet
  <2>4. job' \in [Feed -> Job] /\ pc' \in [Feed -> Label]
    <3>1. NoJob \in Job
      BY <2>2 DEF NoJob, Job, Version
    <3>. QED
      BY <2>1, <3>1 DEF Label
  <2>5. faults' \in 0 .. MaxFaults
    BY <2>1 DEF TInv, TypeOK
  <2>6. polling' \in BOOLEAN
    BY <2>1, Zenon
  <2>7. /\ seen' \in Seq(Key) /\ IsInjective(seen') /\ Len(seen') <= SeenMax
        /\ repeated' \subseteq emitted' /\ emitted' \subseteq published'
    BY <2>1, <2>2, <2>3
  <2>8. TypeOK' /\ RowInv'
    BY <2>1, <2>4, <2>5, <2>6, <2>7 DEF TInv, TypeOK, RowInv
  <2>9. JobInv'
    <3>1. \A f \in Feed : pc'[f] = "idle" /\ job'[f].etag = 0 /\ ToSet(job'[f].entries) = {}
      BY <2>1, <2>3 DEF NoJob
    <3>2. \A f \in Feed : Len(site[f]) \in Nat
      BY DEF TInv, TypeOK
    <3>. QED
      BY <2>1, <3>1, <3>2 DEF JobInv, Usable
  <2>. QED
    BY <2>8, <2>9 DEF TInv
<1>18. ASSUME NEW f \in Feed, Reseed(f) PROVE TInv'
  <2>1. /\ row' = [row EXCEPT ![f] = FreshRow]
        /\ due' = Append(RemoveFirst(due, f), f)
        /\ faults < MaxFaults /\ faults' = faults + 1
        /\ UNCHANGED <<site, seen, published, repeated, emitted, polling, pc, job>>
    BY <1>18 DEF Reseed, Fault, eventVars
  <2>2. FreshRow \in Row /\ FreshRow.errors = 0 /\ FreshRow.etag = 0
    BY DEF FreshRow, Row, Version
  <2>3. row' \in [Feed -> Row] /\ row'[f] = FreshRow /\ \A g \in Feed \ {f} : row'[g] = row[g]
    BY <2>1, <2>2 DEF TInv, TypeOK
  <2>4. due' \in Seq(Feed) /\ IsInjective(due')
    <3>1. due \in Seq(Feed) /\ IsInjective(due)
      BY DEF TInv, TypeOK
    <3>2. /\ RemoveFirst(due, f) \in Seq(Feed) /\ IsInjective(RemoveFirst(due, f))
          /\ f \notin ToSet(RemoveFirst(due, f))
      BY <3>1, RemoveFirstProperties
    <3>. QED
      BY <2>1, <3>2, AppendNew
  <2>5. faults' \in 0 .. MaxFaults
    BY <2>1 DEF TInv, TypeOK
  <2>6. TypeOK'
    BY <2>1, <2>3, <2>4, <2>5 DEF TInv, TypeOK
  <2>7. RowInv' /\ JobInv'
    <3>1. \A g \in Feed : Len(site[g]) \in Nat /\ job[g].etag \in Nat
      BY DEF TInv, TypeOK, Job, Version
    <3>2. RowInv'
      BY <2>1, <2>2, <2>3, <3>1 DEF TInv, RowInv
    <3>3. UNCHANGED <<site, pc, job>>
      BY <2>1
    <3>4. \A g \in Feed : row'[g] = row[g] \/ row'[g].etag = 0
      BY <2>2, <2>3
    <3>5. JobInv'
      BY <3>1, <3>3, <3>4 DEF TInv, JobInv, Usable
    <3>. QED
      BY <3>2, <3>5
  <2>. QED
    BY <2>6, <2>7 DEF TInv
<1>19. ASSUME UNCHANGED vars PROVE TInv'
    BY <1>19 DEF vars, TInv, TypeOK, RowInv, JobInv, Usable
<1>. QED
    BY <1>1, <1>2, <1>3, <1>4, <1>5, <1>6, <1>7, <1>8, <1>9, <1>10, <1>11, <1>12, <1>13,
       <1>14, <1>15, <1>16, <1>17, <1>18, <1>19
    DEF Next, Task

\* Every variable has its type, however many feeds, items and faults there are.
THEOREM TypeCorrectness ==
    Spec => []TypeOK
<1>1. TInv => TypeOK
    BY DEF TInv
<1>. QED
    BY <1>1, TInvInit, TInvStep, PTL DEF Spec

-----------------------------------------------------------------------------
(* Stored versions do not go back *)

\* A row's etag is written only by the task that polled it, and by seed_feeds.
LEMMA VersionStep ==
    TInv /\ [Next]_vars => [\A f \in Feed : row'[f].etag >= row[f].etag \/ Reseed(f)]_vars
<1>. SUFFICES ASSUME TInv, Next, NEW g \in Feed
              PROVE  row'[g].etag >= row[g].etag \/ Reseed(g)
    BY DEF vars
<1>1. row[g].etag \in Nat /\ row \in [Feed -> Row]
    BY DEF TInv, TypeOK, Row, Version
<1>2. CASE row' = row
    BY <1>1, <1>2
<1>3. ASSUME NEW f \in Feed, UpdatePollState(f) PROVE row'[g].etag >= row[g].etag
  <2>1. row[f].etag <= job[f].etag
    BY <1>3 DEF UpdatePollState, At, TInv, JobInv
  <2>2. row' = [row EXCEPT ![f].errors = 0, ![f].etag = job[f].etag]
    BY <1>3 DEF UpdatePollState
  <2>3. row'[f].etag = job[f].etag /\ \A h \in Feed \ {f} : row'[h] = row[h]
    BY <1>1, <2>2 DEF Row
  <2>4. job[f].etag \in Nat
    BY DEF TInv, TypeOK, Job, Version
  <2>. QED
    BY <1>1, <2>1, <2>3, <2>4
<1>4. ASSUME NEW f \in Feed, RecordError(f) PROVE row'[g].etag >= row[g].etag
  <2>1. \A h \in Feed : row'[h].etag = row[h].etag
    BY <1>1, <1>4 DEF RecordError, Row
  <2>. QED
    BY <1>1, <2>1
<1>5. ASSUME NEW f \in Feed, Reseed(f) PROVE row'[g].etag >= row[g].etag \/ Reseed(g)
  <2>1. CASE g = f
    BY <1>5, <2>1
  <2>2. CASE g # f
    <3>1. row'[g] = row[g]
      BY <1>1, <1>5, <2>2 DEF Reseed
    <3>. QED
      BY <1>1, <3>1
  <2>. QED
    BY <2>1, <2>2
<1>6. \/ row' = row
      \/ \E f \in Feed : UpdatePollState(f) \/ RecordError(f) \/ Reseed(f)
    BY DEF Next, Task, Fail, Raise, List, FallDue, StartCycle, Acquire, NotModified, Modified,
           SkipEntry, TakeEntry, Publish, LastEntry, EndTask, EndCycle, RecordErrorFails, Crash,
           tableVars
<1>. QED
    BY <1>2, <1>3, <1>4, <1>5, <1>6

\* No task takes a newer version out of a row, so nothing is fetched again that was
\* done with, unless someone seeds the feed.
THEOREM VersionsGrow ==
    Spec => VersionNeverGoesBack
    BY TInvInit, TInvStep, VersionStep, PTL DEF Spec, VersionNeverGoesBack

-----------------------------------------------------------------------------
(* One process publishes an item once *)

\* The key of the item that a feed's task is about to publish.
Carried(f) == KeyOf[Head(job[f].entries)]
InTransit == {f \in Feed : pc[f] = "publish"}

\* A memory with room for all keys has every key that is published or about to be;
\* no two tasks carry the same one, and none carries one that is published.
MemoryInv ==
    /\ emitted \subseteq ToSet(seen)
    /\ \A f \in InTransit : Carried(f) \in ToSet(seen) \ emitted
    /\ \A f, g \in InTransit : f # g => Carried(f) # Carried(g)
    /\ repeated = {}

\* A step that moves no task to or from its publish keeps MemoryInv.
LEMMA MemoryKept ==
    ASSUME MemoryInv, ToSet(seen') = ToSet(seen), UNCHANGED <<emitted, repeated>>,
           \A f \in InTransit' : f \in InTransit /\ job'[f] = job[f]
    PROVE  MemoryInv'
    BY DEF MemoryInv, Carried

\* The guids of everything this process has published stay in the memory, as long as the
\* memory is large enough for all of them.
LEMMA MemoryStep ==
    ASSUME SeenMax >= Cardinality(Key), TInv, MemoryInv, [Next]_vars
    PROVE  MemoryInv'
<1>1. /\ seen \in Seq(Key) /\ IsInjective(seen) /\ Len(seen) <= SeenMax
      /\ pc \in [Feed -> Label] /\ job \in [Feed -> Job]
    BY DEF TInv, TypeOK
<1>2. ASSUME NEW f \in Feed, SkipEntry(f) PROVE MemoryInv'
  <2>. DEFINE k == KeyOf[Head(job[f].entries)]
  <2>1. seen' = seen \/ (Contains(seen, k) /\ seen' = Touch(seen, k))
    BY <1>2 DEF SkipEntry
  <2>. HIDE DEF k
  <2>2. ToSet(seen') = ToSet(seen)
    <3>1. CASE Contains(seen, k) /\ seen' = Touch(seen, k)
      <4>1. k \in ToSet(seen) /\ k \in Key
        BY <1>1, <3>1 DEF Contains, ToSet
      <4>. QED
        BY <1>1, <3>1, <4>1, TouchProperties
    <3>. QED
      BY <2>1, <3>1
  <2>3. pc[f] = "entries" /\ pc' = pc /\ UNCHANGED <<emitted, repeated>>
        /\ job' = [job EXCEPT ![f].entries = Tail(@)]
    BY <1>2 DEF SkipEntry, At, eventVars
  <2>4. \A g \in InTransit' : g \in InTransit /\ job'[g] = job[g]
    BY <1>1, <2>3 DEF InTransit
  <2>. QED
    BY <2>2, <2>3, <2>4, MemoryKept
<1>3. ASSUME NEW f \in Feed, TakeEntry(f) PROVE MemoryInv'
  <2>. DEFINE k == Carried(f)
  <2>1. /\ pc' = [pc EXCEPT ![f] = "publish"] /\ pc[f] = "entries"
        /\ job[f].entries # <<>> /\ Usable(Head(job[f].entries))
        /\ ~ Contains(seen, k) /\ seen' = Add(seen, k, SeenMax)
        /\ UNCHANGED <<emitted, repeated, job>>
    BY <1>3 DEF TakeEntry, At, Goto, Carried, eventVars
  <2>2. k \in Key
    <3>1. Head(job[f].entries) \in Item
      BY <1>1, <2>1 DEF Job
    <3>. QED
      BY <2>1, <3>1, Constants DEF Carried
  <2>. HIDE DEF k
  <2>3. k \notin ToSet(seen)
    BY <1>1, <2>1 DEF Contains, ToSet
  <2>4. ToSet(seen') = ToSet(seen) \cup {k}
    BY <1>1, <2>1, <2>2, <2>3, AddProperties
  <2>5. InTransit' = InTransit \cup {f}
    BY <1>1, <2>1 DEF InTransit
  <2>6. Carried(f)' = k /\ \A g \in Feed : Carried(g)' = Carried(g)
    BY <2>1 DEF Carried, k
  <2>7. \A g \in InTransit : g \in Feed /\ Carried(g) # k /\ Carried(g) \in ToSet(seen) \ emitted
    BY <2>3 DEF MemoryInv, InTransit
  <2>8. \A g \in InTransit' : Carried(g)' \in ToSet(seen)' \ emitted'
    BY <2>1, <2>3, <2>4, <2>5, <2>6, <2>7 DEF MemoryInv
  <2>9. \A g, h \in InTransit' : g # h => Carried(g)' # Carried(h)'
    BY <2>5, <2>6, <2>7 DEF MemoryInv
  <2>. QED
    BY <2>1, <2>4, <2>8, <2>9 DEF MemoryInv
<1>4. ASSUME NEW f \in Feed, Publish(f) PROVE MemoryInv'
  <2>. DEFINE k == Carried(f)
  <2>1. /\ pc' = [pc EXCEPT ![f] = "entries"] /\ pc[f] = "publish"
        /\ emitted' = emitted \cup {k} /\ repeated' = repeated \cup (emitted \cap {k})
        /\ job' = [job EXCEPT ![f].entries = Tail(@)]
        /\ seen' = seen
    BY <1>4 DEF Publish, At, Goto, Carried
  <2>. HIDE DEF k
  <2>2. f \in InTransit /\ k \in ToSet(seen) \ emitted
    BY <2>1 DEF InTransit, MemoryInv, k
  <2>3. InTransit' = InTransit \ {f}
    BY <1>1, <2>1 DEF InTransit
  <2>4. \A g \in Feed \ {f} : Carried(g)' = Carried(g)
    BY <1>1, <2>1 DEF Carried
  <2>5. \A g \in InTransit' : Carried(g) # k
    BY <2>2, <2>3 DEF MemoryInv, k, InTransit
  <2>. QED
    BY <2>1, <2>2, <2>3, <2>4, <2>5 DEF MemoryInv, InTransit
<1>5. ASSUME Crash PROVE MemoryInv'
  <2>1. ToSet(<<>>) = {}
    BY DEF ToSet
  <2>2. InTransit' = {}
    BY <1>5 DEF Crash, InTransit
  <2>. QED
    BY <1>5, <2>1, <2>2 DEF Crash, MemoryInv
<1>6. CASE /\ UNCHANGED <<seen, emitted, repeated>>
           /\ \A f \in InTransit' : f \in InTransit /\ job'[f] = job[f]
    BY <1>6, MemoryKept
<1>7. ASSUME NEW f \in Feed,
             \/ Acquire(f) \/ NotModified(f) \/ Modified(f) \/ LastEntry(f) \/ UpdatePollState(f)
             \/ EndTask(f) \/ RecordError(f) \/ Fail(f) \/ RecordErrorFails(f)
      PROVE  /\ UNCHANGED <<seen, emitted, repeated>>
             /\ \A g \in InTransit' : g \in InTransit /\ job'[g] = job[g]
  <2>1. /\ UNCHANGED <<seen, emitted, repeated>>
        /\ \E label \in Label \ {"publish"} : pc' = [pc EXCEPT ![f] = label]
    BY <1>7 DEF Acquire, NotModified, Modified, LastEntry, UpdatePollState, EndTask, RecordError,
                Fail, Raise, RecordErrorFails, Return, Goto, eventVars, Label
  <2>2. \A g \in Feed \ {f} : job'[g] = job[g]
    BY <1>1, <1>7 DEF Acquire, NotModified, Modified, LastEntry, UpdatePollState, EndTask,
                      RecordError, Fail, Raise, RecordErrorFails, Return
  <2>. QED
    BY <1>1, <2>1, <2>2 DEF InTransit
<1>8. ASSUME \/ StartCycle \/ EndCycle \/ UNCHANGED vars
             \/ \E f \in Feed : FallDue(f) \/ Reseed(f) \/ \E i \in Item : List(f, i)
      PROVE  /\ UNCHANGED <<seen, emitted, repeated>>
             /\ \A g \in InTransit' : g \in InTransit /\ job'[g] = job[g]
    BY <1>8 DEF StartCycle, EndCycle, vars, FallDue, Reseed, List, InTransit, eventVars
<1>. QED
    BY <1>2, <1>3, <1>4, <1>5, <1>6, <1>7, <1>8 DEF Next, Task

\* Tasks of several feeds interleave and may list the same items: the process still
\* publishes each of them once, as long as its memory has room for all keys.
THEOREM PublishedOnce ==
    Spec => []PublishedOncePerProcess
<1>1. CASE SeenMax >= Cardinality(Key)
  <2>1. Init => MemoryInv
    BY DEF Init, MemoryInv, InTransit, ToSet
  <2>2. TInv /\ MemoryInv /\ [Next]_vars => MemoryInv'
    BY <1>1, MemoryStep
  <2>3. MemoryInv => PublishedOncePerProcess
    BY DEF MemoryInv, PublishedOncePerProcess
  <2>. QED
    BY <2>1, <2>2, <2>3, TInvInit, TInvStep, PTL DEF Spec
<1>2. CASE ~ (SeenMax >= Cardinality(Key))
  <2>1. PublishedOncePerProcess
    BY <1>2 DEF PublishedOncePerProcess
  <2>. QED
    BY <2>1, PTL
<1>. QED
    BY <1>1, <1>2

-----------------------------------------------------------------------------
(* A stored version is published *)

OwnIn(sites, f, i) == \A g \in Feed \ {f} : \A j \in ToSet(sites[g]) : KeyOf[j] # KeyOf[i]

\* The items of a version that concern this feed alone are published, or still to
\* be done.
Covered(sites, keys, f, v, left) ==
    \A i \in ToSet(Shown(sites[f], v)) :
        Usable(i) /\ OwnIn(sites, f, i) => KeyOf[i] \in keys \/ i \in left

Left(f) == IF pc[f] \in {"entries", "publish"} THEN ToSet(job[f].entries) ELSE {}

\* Tasks run within a cycle; a key in the memory is published or about to be; every
\* version that is stored, or that a task may come to store, is covered.
PublishInv ==
    /\ \A f \in Feed : pc[f] # "idle" => polling
    /\ ToSet(seen) \subseteq published \cup {Carried(f) : f \in InTransit}
    /\ \A f \in Feed : Covered(site, published, f, row[f].etag, {})
    /\ \A f \in Feed :
        pc[f] \notin {"idle", "failed"} => Covered(site, published, f, job[f].etag, Left(f))

\* No version shows nothing.
LEMMA NothingShown ==
    ASSUME TypeOK, NEW f \in Feed, NEW keys, NEW left
    PROVE  Covered(site, keys, f, 0, left)
<1>1. site[f] \in Seq(Item) /\ 0 \in 0 .. Len(site[f])
    BY DEF TypeOK
<1>2. ToSet(Shown(site[f], 0)) = {}
    BY <1>1, ShownProperties
<1>. QED
    BY <1>2 DEF Covered

\* A cycle's tasks are gone when it ends, and none starts without one.
LEMMA BusyStep ==
    ASSUME TypeOK, \A f \in Feed : pc[f] # "idle" => polling, [Next]_vars
    PROVE  \A f \in Feed : pc'[f] # "idle" => polling'
<1>. SUFFICES ASSUME NEW f \in Feed PROVE pc'[f] # "idle" => polling'
    OBVIOUS
<1>1. pc \in [Feed -> Label]
    BY DEF TypeOK
<1>2. CASE StartCycle
    BY <1>2, Zenon DEF StartCycle
<1>3. CASE EndCycle
  <2>1. pc[f] = "idle" /\ pc' = pc
    BY <1>3 DEF EndCycle, At
  <2>. QED
    BY <2>1
<1>4. CASE Crash
  <2>1. pc'[f] = "idle"
    BY <1>4 DEF Crash
  <2>. QED
    BY <2>1
<1>5. CASE polling' = polling /\ (pc'[f] # "idle" => pc[f] # "idle")
    BY <1>5, Zenon
<1>6. ASSUME NEW g \in Feed, Task(g) \/ Fail(g) \/ RecordErrorFails(g)
      PROVE  polling' = polling /\ (pc'[f] # "idle" => pc[f] # "idle")
  <2>1. /\ polling' = polling
        /\ pc[g] # "idle"
        /\ pc' = pc \/ \E label \in Label : pc' = [pc EXCEPT ![g] = label]
    BY <1>6 DEF Task, Acquire, NotModified, Modified, SkipEntry, TakeEntry, Publish, LastEntry,
                UpdatePollState, EndTask, RecordError, Fail, Raise, RecordErrorFails, Return,
                Goto, At, Label
  <2>. QED
    BY <1>1, <2>1
<1>7. ASSUME \/ UNCHANGED vars
             \/ \E g \in Feed : FallDue(g) \/ Reseed(g) \/ \E i \in Item : List(g, i)
      PROVE  polling' = polling /\ pc' = pc
    BY <1>7 DEF vars, FallDue, Reseed, List
<1>. QED
    BY <1>2, <1>3, <1>4, <1>5, <1>6, <1>7 DEF Next

\* A step that publishes and lists nothing keeps PublishInv if the tasks that it moves,
\* and the rows that it writes, end up with covered versions.
LEMMA PublishKept ==
    ASSUME PublishInv, \A f \in Feed : pc'[f] # "idle" => polling',
           UNCHANGED <<site, published, seen>>,
           \A f \in Feed : \/ row'[f].etag = row[f].etag
                           \/ Covered(site, published, f, row'[f].etag, {}),
           \A f \in Feed :
               \/ pc'[f] = pc[f] /\ job'[f] = job[f]
               \/ /\ pc[f] # "publish" /\ pc'[f] # "publish"
                  /\ \/ pc'[f] \in {"idle", "failed"}
                     \/ Covered(site, published, f, job'[f].etag, Left(f)')
    PROVE  PublishInv'
<1>1. \A f \in InTransit : f \in InTransit' /\ Carried(f)' = Carried(f)
    BY DEF InTransit, Carried
<1>2. ToSet(seen') \subseteq published' \cup {Carried(f)' : f \in InTransit'}
    BY <1>1 DEF PublishInv
<1>3. ASSUME NEW f \in Feed
      PROVE  Covered(site', published', f, row'[f].etag, {})
    BY <1>3 DEF PublishInv
<1>4. ASSUME NEW f \in Feed, pc'[f] \notin {"idle", "failed"}
      PROVE  Covered(site', published', f, job'[f].etag, Left(f)')
  <2>1. CASE pc'[f] = pc[f] /\ job'[f] = job[f]
    <3>1. Left(f)' = Left(f)
      BY <2>1 DEF Left
    <3>. QED
      BY <1>4, <2>1, <3>1 DEF PublishInv
  <2>. QED
    BY <1>4, <2>1
<1>. QED
    BY <1>2, <1>3, <1>4, Zenon DEF PublishInv

\* A key that some task carries is not that of an item of another feed's own.
LEMMA CarriedIsForeign ==
    ASSUME TInv, NEW f \in Feed, NEW g \in InTransit, g # f, NEW i, OwnIn(site, f, i)
    PROVE  Carried(g) # KeyOf[i]
<1>1. pc[g] = "publish" /\ g \in Feed
    BY DEF InTransit
<1>2. job[g].entries # <<>> /\ job[g].entries \in Seq(Item)
      /\ ToSet(job[g].entries) \subseteq ToSet(site[g])
    BY <1>1 DEF TInv, TypeOK, JobInv, Job
<1>3. Head(job[g].entries) \in ToSet(job[g].entries)
    BY <1>2, TailProperties
<1>. QED
    BY <1>1, <1>2, <1>3 DEF OwnIn, Carried

\* An item of a stored or fetched version is never forgotten before it is published.
LEMMA PublishStep ==
    ASSUME "publish" \notin FaultKind, TInv, PublishInv, [Next]_vars
    PROVE  PublishInv'
<1>1. /\ pc \in [Feed -> Label] /\ job \in [Feed -> Job] /\ row \in [Feed -> Row]
      /\ seen \in Seq(Key) /\ IsInjective(seen) /\ Len(seen) <= SeenMax
      /\ site \in [Feed -> Seq(Item)]
    BY DEF TInv, TypeOK
<1>2. \A f \in Feed : pc'[f] # "idle" => polling'
    BY BusyStep DEF PublishInv, TInv
<1>3. \A f \in Feed : \A left : Covered(site, published, f, 0, left)
    BY NothingShown DEF TInv
<1>4. ASSUME NEW f \in Feed, NEW i \in Item, List(f, i) PROVE PublishInv'
  <2>1. site' = [site EXCEPT ![f] = <<i>> \o site[f]]
        /\ UNCHANGED <<row, seen, published, pc, job, polling>>
    BY <1>4 DEF List, tableVars, eventVars
  <2>2. ToSet(<<i>> \o site[f]) = ToSet(site[f]) \cup {i}
    BY <1>1, <1>4, PrependNew DEF List, TInv, TypeOK
  <2>3. \A g \in Feed : ToSet(site[g]) \subseteq ToSet(site'[g])
    BY <1>1, <2>1, <2>2
  <2>4. \A g \in Feed : \A v \in 0 .. Len(site[g]) : Shown(site'[g], v) = Shown(site[g], v)
    BY <1>1, <2>1, ShownIsStable
  <2>5. ASSUME NEW g \in Feed, NEW v \in 0 .. Len(site[g]), NEW left,
               Covered(site, published, g, v, left)
        PROVE  Covered(site', published, g, v, left)
    BY <2>3, <2>4, <2>5 DEF Covered, OwnIn
  <2>6. \A g \in Feed : row[g].etag \in 0 .. Len(site[g]) /\ job[g].etag \in 0 .. Len(site[g])
    BY <1>1 DEF TInv, RowInv, JobInv, Row, Job, Version
  <2>7. ToSet(seen') \subseteq published' \cup {Carried(g)' : g \in InTransit'}
    <3>1. InTransit' = InTransit /\ \A g \in Feed : Carried(g)' = Carried(g)
      BY <2>1 DEF InTransit, Carried
    <3>2. ToSet(seen) \subseteq published \cup {Carried(g) : g \in InTransit}
      BY DEF PublishInv
    <3>3. InTransit \subseteq Feed
      BY DEF InTransit
    <3>. QED
      BY <2>1, <3>1, <3>2, <3>3
  <2>8. \A g \in Feed : Covered(site', published', g, row'[g].etag, {})
    BY <2>1, <2>5, <2>6 DEF PublishInv
  <2>9. \A g \in Feed : pc'[g] \notin {"idle", "failed"} =>
            Covered(site', published', g, job'[g].etag, Left(g)')
    <3>1. \A g \in Feed : Left(g)' = Left(g)
      BY <2>1 DEF Left
    <3>. QED
      BY <2>1, <2>5, <2>6, <3>1 DEF PublishInv
  <2>. QED
    BY <1>2, <2>7, <2>8, <2>9, Zenon DEF PublishInv
<1>5. ASSUME NEW f \in Feed, SkipEntry(f) PROVE PublishInv'
  <2>. DEFINE i == Head(job[f].entries)
  <2>1. /\ pc[f] = "entries" /\ job[f].entries # <<>>
        /\ ~ Usable(i) \/ Contains(seen, KeyOf[i])
        /\ seen' = seen \/ (Contains(seen, KeyOf[i]) /\ seen' = Touch(seen, KeyOf[i]))
        /\ job' = [job EXCEPT ![f].entries = Tail(@)]
        /\ UNCHANGED <<site, row, published, pc>>
    BY <1>5 DEF SkipEntry, At, tableVars, eventVars
  <2>2. job[f].entries \in Seq(Item) /\ ToSet(job[f].entries) = {i} \cup ToSet(Tail(job[f].entries))
    BY <1>1, <2>1, TailProperties DEF Job
  <2>. HIDE DEF i
  <2>3. ToSet(seen') = ToSet(seen)
    <3>1. CASE Contains(seen, KeyOf[i]) /\ seen' = Touch(seen, KeyOf[i])
      <4>1. KeyOf[i] \in ToSet(seen) /\ KeyOf[i] \in Key
        BY <1>1, <3>1 DEF Contains, ToSet
      <4>. QED
        BY <1>1, <3>1, <4>1, TouchProperties
    <3>. QED
      BY <2>1, <3>1
  <2>4. Usable(i) /\ OwnIn(site, f, i) => KeyOf[i] \in published
    <3>. SUFFICES ASSUME Usable(i), OwnIn(site, f, i), KeyOf[i] \notin published PROVE FALSE
      OBVIOUS
    <3>1. KeyOf[i] \in ToSet(seen)
      BY <1>1, <2>1 DEF Contains, ToSet
    <3>2. PICK g \in InTransit : KeyOf[i] = Carried(g)
      BY <3>1 DEF PublishInv
    <3>3. g # f
      BY <2>1 DEF InTransit
    <3>. QED
      BY <3>2, <3>3, CarriedIsForeign
  <2>5. InTransit' = InTransit /\ \A g \in InTransit : Carried(g)' = Carried(g)
    BY <1>1, <2>1 DEF InTransit, Carried
  <2>6. ToSet(seen') \subseteq published' \cup {Carried(g)' : g \in InTransit'}
    BY <2>1, <2>3, <2>5 DEF PublishInv
  <2>7. /\ job'[f].etag = job[f].etag /\ job'[f].entries = Tail(job[f].entries)
        /\ \A g \in Feed \ {f} : job'[g] = job[g]
    BY <1>1, <2>1 DEF Job
  <2>8. ASSUME NEW g \in Feed, pc'[g] \notin {"idle", "failed"}
        PROVE  Covered(site', published', g, job'[g].etag, Left(g)')
    <3>1. Covered(site, published, g, job[g].etag, Left(g))
      BY <2>1, <2>8 DEF PublishInv
    <3>2. CASE g = f
      BY <2>1, <2>2, <2>4, <2>7, <3>1, <3>2 DEF Covered, Left
    <3>3. CASE g # f
      <4>1. Left(g)' = Left(g)
        BY <2>1, <2>7, <3>3 DEF Left
      <4>. QED
        BY <2>1, <2>7, <3>1, <3>3, <4>1
    <3>. QED
      BY <3>2, <3>3
  <2>9. \A g \in Feed : Covered(site', published', g, row'[g].etag, {})
    BY <2>1 DEF PublishInv
  <2>. QED
    BY <1>2, <2>6, <2>8, <2>9, Zenon DEF PublishInv
<1>6. ASSUME NEW f \in Feed, TakeEntry(f) PROVE PublishInv'
  <2>. DEFINE k == Carried(f)
  <2>1. /\ pc' = [pc EXCEPT ![f] = "publish"] /\ pc[f] = "entries"
        /\ job[f].entries # <<>> /\ Usable(Head(job[f].entries))
        /\ ~ Contains(seen, k) /\ seen' = Add(seen, k, SeenMax)
        /\ UNCHANGED <<site, row, published, job>>
    BY <1>6 DEF TakeEntry, At, Goto, Carried, tableVars, eventVars
  <2>2. k \in Key
    <3>1. Head(job[f].entries) \in Item
      BY <1>1, <2>1 DEF Job
    <3>. QED
      BY <2>1, <3>1, Constants DEF Carried
  <2>. HIDE DEF k
  <2>3. k \notin ToSet(seen)
    BY <1>1, <2>1 DEF Contains, ToSet
  <2>4. ToSet(seen') \subseteq ToSet(seen) \cup {k}
    BY <1>1, <2>1, <2>2, <2>3, AddProperties
  <2>5. InTransit' = InTransit \cup {f} /\ \A g \in Feed : Carried(g)' = Carried(g)
    BY <1>1, <2>1 DEF InTransit, Carried
  <2>6. ToSet(seen') \subseteq published' \cup {Carried(g)' : g \in InTransit'}
    <3>1. InTransit \subseteq Feed
      BY DEF InTransit
    <3>2. Carried(f)' = k
      BY <2>5 DEF k
    <3>. QED
      BY <2>1, <2>4, <2>5, <3>1, <3>2 DEF PublishInv
  <2>7. \A g \in Feed : Left(g)' = Left(g) /\ (pc'[g] \notin {"idle", "failed"} => pc[g] \notin {"idle", "failed"})
    BY <1>1, <2>1 DEF Left
  <2>8. /\ \A g \in Feed : Covered(site', published', g, row'[g].etag, {})
        /\ \A g \in Feed : pc'[g] \notin {"idle", "failed"} =>
                Covered(site', published', g, job'[g].etag, Left(g)')
    BY <2>1, <2>7 DEF PublishInv
  <2>. QED
    BY <1>2, <2>6, <2>8, Zenon DEF PublishInv
<1>7. ASSUME NEW f \in Feed, Publish(f) PROVE PublishInv'
  <2>. DEFINE k == Carried(f)
              i == Head(job[f].entries)
  <2>1. /\ pc' = [pc EXCEPT ![f] = "entries"] /\ pc[f] = "publish"
        /\ published' = published \cup {k}
        /\ job' = [job EXCEPT ![f].entries = Tail(@)]
        /\ UNCHANGED <<site, row, seen>>
    BY <1>7 DEF Publish, At, Goto, Carried, tableVars
  <2>2. job[f].entries # <<>>
    BY <2>1 DEF TInv, JobInv
  <2>3. ToSet(job[f].entries) = {i} \cup ToSet(Tail(job[f].entries)) /\ k = KeyOf[i]
    BY <1>1, <2>1, <2>2, TailProperties DEF Job, Carried
  <2>. HIDE DEF k, i
  <2>4. InTransit' = InTransit \ {f} /\ f \in InTransit
    BY <1>1, <2>1 DEF InTransit
  <2>5. \A g \in InTransit' : Carried(g)' = Carried(g)
    BY <1>1, <2>1 DEF InTransit, Carried
  <2>6. ToSet(seen') \subseteq published' \cup {Carried(g)' : g \in InTransit'}
    BY <2>1, <2>4, <2>5 DEF PublishInv, k
  <2>7. /\ job'[f].etag = job[f].etag /\ job'[f].entries = Tail(job[f].entries)
        /\ \A g \in Feed \ {f} : job'[g] = job[g] /\ pc'[g] = pc[g]
        /\ pc'[f] = "entries"
    BY <1>1, <2>1 DEF Job
  <2>8. ASSUME NEW g \in Feed, pc'[g] \notin {"idle", "failed"}
        PROVE  Covered(site', published', g, job'[g].etag, Left(g)')
    <3>1. Covered(site, published, g, job[g].etag, Left(g))
      BY <2>1, <2>7, <2>8 DEF PublishInv
    <3>2. CASE g = f
      <4>1. Left(f) = ToSet(job[f].entries) /\ Left(f)' = ToSet(Tail(job[f].entries))
        BY <2>1, <2>7 DEF Left
      <4>. QED
        BY <2>1, <2>3, <2>7, <3>1, <3>2, <4>1 DEF Covered
    <3>3. CASE g # f
      <4>1. Left(g)' = Left(g)
        BY <2>1, <2>7, <3>3 DEF Left
      <4>. QED
        BY <2>1, <2>7, <3>1, <3>3, <4>1 DEF Covered
    <3>. QED
      BY <3>2, <3>3
  <2>9. \A g \in Feed : Covered(site', published', g, row'[g].etag, {})
    BY <2>1 DEF PublishInv, Covered
  <2>. QED
    BY <1>2, <2>6, <2>8, <2>9, Zenon DEF PublishInv
<1>8. ASSUME Crash PROVE PublishInv'
  <2>1. ToSet(<<>>) = {}
    BY DEF ToSet
  <2>2. /\ \A f \in Feed : pc'[f] = "idle"
        /\ UNCHANGED <<site, row, published>>
        /\ seen' = <<>>
    BY <1>8 DEF Crash, tableVars
  <2>. QED
    BY <1>2, <2>1, <2>2, Zenon DEF PublishInv
<1>9. ASSUME UNCHANGED <<site, published, seen>>,
             \A f \in Feed : \/ row'[f].etag = row[f].etag
                             \/ Covered(site, published, f, row'[f].etag, {}),
             \A f \in Feed :
                 \/ pc'[f] = pc[f] /\ job'[f] = job[f]
                 \/ /\ pc[f] # "publish" /\ pc'[f] # "publish"
                    /\ \/ pc'[f] \in {"idle", "failed"}
                       \/ Covered(site, published, f, job'[f].etag, Left(f)')
      PROVE  PublishInv'
    BY <1>2, <1>9, PublishKept
<1>10. ASSUME NEW f \in Feed, Acquire(f) \/ NotModified(f) \/ LastEntry(f) \/ EndTask(f)
       PROVE  PublishInv'
  <2>1. /\ UNCHANGED <<site, published, seen, row>>
        /\ pc[f] \in {"queued", "fetch", "entries", "updated"}
        /\ \A g \in Feed \ {f} : pc'[g] = pc[g] /\ job'[g] = job[g]
        /\ pc'[f] \in {"fetch", "update", "idle"}
        /\ pc'[f] = "idle" \/ (job' = job /\ (pc[f] = "entries" => job[f].entries = <<>>))
    BY <1>1, <1>10 DEF Acquire, NotModified, LastEntry, EndTask, Return, Goto, At, tableVars,
                       eventVars
  <2>2. ToSet(<<>>) = {}
    BY DEF ToSet
  <2>3. pc'[f] # "idle" => Left(f) = {} /\ Left(f)' = {}
    BY <2>1, <2>2 DEF Left
  <2>4. pc'[f] # "idle" => Covered(site, published, f, job'[f].etag, Left(f)')
    BY <2>1, <2>3 DEF PublishInv
  <2>. QED
    BY <1>9, <2>1, <2>4
<1>11. ASSUME NEW f \in Feed, Modified(f) PROVE PublishInv'
  <2>1. /\ UNCHANGED <<site, published, seen, row>>
        /\ pc[f] = "fetch"
        /\ \A g \in Feed \ {f} : pc'[g] = pc[g] /\ job'[g] = job[g]
        /\ pc'[f] = "entries"
        /\ job'[f].entries = Shown(site[f], Len(site[f]))
        /\ job'[f].etag = IF f \in Tagged THEN Len(site[f]) ELSE 0
    BY <1>1, <1>11 DEF Modified, Goto, At, Job, tableVars, eventVars
  <2>2. Left(f)' = ToSet(Shown(site[f], Len(site[f])))
    BY <2>1 DEF Left
  <2>3. Covered(site, published, f, job'[f].etag, Left(f)')
    BY <1>3, <2>1, <2>2 DEF Covered
  <2>. QED
    BY <1>9, <2>1, <2>3
<1>12. ASSUME NEW f \in Feed, UpdatePollState(f) PROVE PublishInv'
  <2>1. /\ UNCHANGED <<site, published, seen, job>>
        /\ pc[f] = "update" /\ pc'[f] = "updated"
        /\ \A g \in Feed \ {f} : pc'[g] = pc[g] /\ row'[g] = row[g]
        /\ row'[f].etag = job[f].etag
    BY <1>1, <1>12 DEF UpdatePollState, Goto, At, Row, eventVars
  <2>2. Left(f) = {} /\ Left(f)' = {}
    BY <2>1 DEF Left
  <2>3. Covered(site, published, f, job[f].etag, {})
    BY <2>1, <2>2 DEF PublishInv
  <2>. QED
    BY <1>9, <2>1, <2>2, <2>3
<1>13. ASSUME NEW f \in Feed, RecordError(f) \/ Fail(f) \/ RecordErrorFails(f) PROVE PublishInv'
  <2>1. ~ Fault("publish")
    BY DEF Fault
  <2>2. /\ UNCHANGED <<site, published, seen>>
        /\ \A g \in Feed : row'[g].etag = row[g].etag
        /\ \A g \in Feed \ {f} : pc'[g] = pc[g] /\ job'[g] = job[g]
        /\ pc[f] # "publish" /\ pc'[f] \in {"idle", "failed"}
    <3>1. CASE RecordError(f)
      BY <1>1, <3>1 DEF RecordError, Return, Goto, At, Row, eventVars
    <3>2. CASE Fail(f)
      BY <1>1, <2>1, <3>2 DEF Fail, Raise, Goto, tableVars, eventVars
    <3>3. CASE RecordErrorFails(f)
      BY <1>1, <3>3 DEF RecordErrorFails, Return, Goto, At, tableVars, eventVars
    <3>. QED
      BY <1>13, <3>1, <3>2, <3>3
  <2>. QED
    BY <1>9, <2>2
<1>14. CASE StartCycle
  <2>1. \A f \in Feed : pc[f] = "idle"
    BY <1>14, Zenon DEF StartCycle, PublishInv
  <2>2. /\ UNCHANGED <<site, published, seen, row>>
        /\ \A f \in Feed : \/ pc'[f] = "idle"
                           \/ pc'[f] = "queued" /\ job'[f].etag = row[f].etag
    BY <1>1, <1>14 DEF StartCycle, tableVars, eventVars, NoJob
  <2>3. \A f \in Feed : Covered(site, published, f, row[f].etag, Left(f)')
    BY DEF PublishInv, Covered
  <2>4. \A f \in Feed : \/ pc'[f] = "idle"
                        \/ Covered(site, published, f, job'[f].etag, Left(f)')
    BY <2>2, <2>3
  <2>5. \A f \in Feed : pc[f] # "publish" /\ pc'[f] # "publish"
    BY <2>1, <2>2
  <2>. QED
    BY <1>9, <2>2, <2>4, <2>5
<1>15. ASSUME NEW f \in Feed, Reseed(f) PROVE PublishInv'
  <2>1. /\ UNCHANGED <<site, published, seen, pc, job>>
        /\ \A g \in Feed : row'[g].etag = row[g].etag \/ row'[g].etag = 0
    BY <1>1, <1>15 DEF Reseed, FreshRow, eventVars
  <2>. QED
    BY <1>3, <1>9, <2>1
<1>16. ASSUME EndCycle \/ UNCHANGED vars \/ \E f \in Feed : FallDue(f) PROVE PublishInv'
  <2>1. UNCHANGED <<site, published, seen, row, pc, job>>
    BY <1>16 DEF EndCycle, vars, FallDue, tableVars, eventVars
  <2>. QED
    BY <1>9, <2>1
<1>. QED
    BY <1>4, <1>5, <1>6, <1>7, <1>8, <1>10, <1>11, <1>12, <1>13, <1>14, <1>15, <1>16
    DEF Next, Task

\* Where every publish that starts reaches the stream, a version is stored only when
\* what it shows is published: no failure, crash or restart loses an item to a 304.
THEOREM StoredIsPublished ==
    ASSUME "publish" \notin FaultKind
    PROVE  Spec => []StoredVersionIsPublished
<1>1. Init => PublishInv
  <2>. SUFFICES ASSUME Init PROVE PublishInv
    OBVIOUS
  <2>1. TypeOK
    BY TInvInit DEF TInv
  <2>2. \A f \in Feed : Covered(site, published, f, 0, {})
    BY <2>1, NothingShown
  <2>3. ToSet(<<>>) = {} /\ \A f \in Feed : row[f].etag = 0 /\ pc[f] = "idle"
    BY DEF Init, FreshRow, ToSet
  <2>4. seen = <<>>
    BY DEF Init
  <2>. QED
    BY <2>2, <2>3, <2>4 DEF PublishInv
<1>2. TInv /\ PublishInv /\ [Next]_vars => PublishInv'
    BY PublishStep
<1>3. PublishInv => StoredVersionIsPublished
  <2>. SUFFICES ASSUME PublishInv, NEW f \in Feed, NEW i \in ToSet(Shown(site[f], row[f].etag)),
                       Usable(i), Own(f, i)
                PROVE  KeyOf[i] \in published
    BY DEF StoredVersionIsPublished
  <2>1. OwnIn(site, f, i)
    BY DEF Own, OwnIn
  <2>. QED
    BY <2>1 DEF PublishInv, Covered
<1>. QED
    BY <1>1, <1>2, <1>3, TInvInit, TInvStep, PTL DEF Spec
=============================================================================
