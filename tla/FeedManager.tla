----------------------------- MODULE FeedManager -----------------------------
(***************************************************************************)
(* The feed manager: a cycle that polls the feeds that are due, a task per *)
(* feed behind a semaphore, conditional GETs, a memory of the items seen   *)
(* and the bookkeeping in the table "feeds".                               *)
(*                                                                         *)
(* A site's feed is the sequence of the items it ever listed, newest       *)
(* first, and its version (ETag, Last-Modified) is their number; 0 is no   *)
(* version.  next_poll_at is abstracted to the order in which feeds fall   *)
(* due.  An action is the code between two awaits, but the loop over the   *)
(* entries also stops at every entry that it skips.                        *)
(***************************************************************************)
EXTENDS Naturals, Sequences, FiniteSets, SequencesExt, SeenGuidCache

CONSTANTS
    Feed,           \* rows of the table
    Item,           \* entries that sites list
    Key,            \* keys made of GUIDs and normalized links
    KeyOf,          \* the key of each item, or None
    Linked,         \* the items with a link
    Tagged,         \* feeds whose site sends an ETag or Last-Modified
    MaxItems,       \* entries of a feed that are looked at (20 in the code)
    SeenMax,        \* size of the memory (50000 in the code)
    PollLimit,      \* feeds of one cycle (50 in the code)
    Concurrency,    \* tasks that run at a time (10 in the code)
    ErrorLimit,     \* failures that put a feed aside (5 in the code)
    FaultKind,      \* which of "fetch", "publish", "late", "db", "crash", "seed"
    MaxFaults,      \* may happen, and how often in all
    None

ASSUME FeedAssumption ==
    /\ KeyOf \in [Item -> Key \cup {None}]
    /\ None \notin Key
    /\ Linked \subseteq Item
    /\ Tagged \subseteq Feed
    /\ IsFiniteSet(Feed) /\ IsFiniteSet(Item) /\ IsFiniteSet(Key)

ASSUME BoundsAssumption ==
    /\ {MaxItems, SeenMax, PollLimit, Concurrency, ErrorLimit} \subseteq Nat \ {0}
    /\ MaxFaults \in Nat
    /\ FaultKind \subseteq {"fetch", "publish", "late", "db", "crash", "seed"}

VARIABLES
    site,           \* what each feed's site lists
    row,            \* the rows of "feeds"
    due,            \* feeds by next_poll_at, as far as it has passed
    seen,           \* _seen_guids
    published,      \* keys of the items published on FEED_ITEMS_NEW
    repeated,       \* those published twice by one process
    emitted,        \* those published by the running process
    polling,        \* is a poll cycle under way?
    pc, job,        \* where each feed's task stands, and its locals
    faults          \* faults that happened so far

tableVars == <<row, due>>
eventVars == <<published, repeated, emitted>>
vars == <<site, row, due, seen, published, repeated, emitted, polling, pc, job, faults>>



-----------------------------------------------------------------------------
Label == {"idle", "queued", "fetch", "entries", "publish", "update", "updated", "failed"}

Version == 0 .. Cardinality(Item)
Row == [status : {"active", "error"}, errors : 0 .. ErrorLimit, etag : Version]
Job == [errors : 0 .. ErrorLimit, etag : Version, entries : Seq(Item)]
FreshRow == [status |-> "active", errors |-> 0, etag |-> 0]
NoJob == [errors |-> 0, etag |-> 0, entries |-> <<>>]

TypeOK ==
    /\ site \in [Feed -> Seq(Item)]
    /\ \A f \in Feed : IsInjective(site[f])
    /\ row \in [Feed -> Row]
    /\ due \in Seq(Feed) /\ IsInjective(due)
    /\ seen \in Seq(Key) /\ IsInjective(seen) /\ Len(seen) <= SeenMax
    /\ published \subseteq Key
    /\ repeated \subseteq emitted
    /\ emitted \subseteq published
    /\ polling \in BOOLEAN
    /\ pc \in [Feed -> Label]
    /\ job \in [Feed -> Job]
    /\ faults \in 0 .. MaxFaults

Init ==
    /\ site = [f \in Feed |-> <<>>]
    /\ row = [f \in Feed |-> FreshRow]
    /\ due = <<>>
    /\ seen = <<>>
    /\ published = {}
    /\ repeated = {}
    /\ emitted = {}
    /\ polling = FALSE
    /\ pc = [f \in Feed |-> "idle"]
    /\ job = [f \in Feed |-> NoJob]
    /\ faults = 0

-----------------------------------------------------------------------------
At(f, label) == pc[f] = label
Goto(f, label) == pc' = [pc EXCEPT ![f] = label]

\* The task ends and gives its place in the semaphore back.
Return(f) ==
    /\ Goto(f, "idle")
    /\ job' = [job EXCEPT ![f] = NoJob]

Running == {f \in Feed : pc[f] \notin {"idle", "queued"}}

\* A new next_poll_at lies in the future.
NotDue(f) == due' = RemoveFirst(due, f)

\* The first n entries that version v of a site's feed shows.
Shown(entries, v) ==
    LET listed == SubSeq(entries, Len(entries) - v + 1, Len(entries))
    IN  SubSeq(listed, 1, IF Len(listed) < MaxItems THEN Len(listed) ELSE MaxItems)

Usable(i) == i \in Linked /\ KeyOf[i] # None

-----------------------------------------------------------------------------
\* A site lists a new item.
List(f, i) ==
    /\ i \notin ToSet(site[f])
    /\ site' = [site EXCEPT ![f] = <<i>> \o @]
    /\ UNCHANGED <<tableVars, seen, eventVars, polling, pc, job, faults>>

\* next_poll_at passes.
FallDue(f) ==
    /\ f \notin ToSet(due)
    /\ due' = Append(due, f)
    /\ UNCHANGED <<site, row, seen, eventVars, polling, pc, job, faults>>

\* get_due_for_poll: the active feeds that are due longest.  Each gets a task.
Picked ==
    LET active == {i \in DOMAIN due : row[due[i]].status = "active"}
    IN  {due[i] : i \in {j \in active : Cardinality({k \in active : k < j}) < PollLimit}}

StartCycle ==
    /\ ~ polling
    /\ Picked # {}
    /\ polling' = TRUE
    /\ pc' = [f \in Feed |-> IF f \in Picked THEN "queued" ELSE "idle"]
    /\ job' = [f \in Feed |-> IF f \in Picked
                              THEN [NoJob EXCEPT !.errors = row[f].errors, !.etag = row[f].etag]
                              ELSE NoJob]
    /\ UNCHANGED <<site, tableVars, seen, eventVars, faults>>

\* The semaphore lets the task in.
Acquire(f) ==
    /\ At(f, "queued")
    /\ Cardinality(Running) < Concurrency
    /\ Goto(f, "fetch")
    /\ UNCHANGED <<site, tableVars, seen, eventVars, polling, job, faults>>

\* HTTP 304: the site knows the version and has no newer one.
NotModified(f) ==
    /\ At(f, "fetch")
    /\ f \in Tagged /\ job[f].etag # 0 /\ job[f].etag = Len(site[f])
    /\ Goto(f, "update")
    /\ UNCHANGED <<site, tableVars, seen, eventVars, polling, job, faults>>

\* Variant: the new version is stored before its items are published.
ModifiedStored(f) ==
    LET version == IF f \in Tagged THEN Len(site[f]) ELSE 0 IN
    /\ At(f, "fetch")
    /\ f \notin Tagged \/ job[f].etag = 0 \/ job[f].etag # Len(site[f])
    /\ Goto(f, "entries")
    /\ job' = [job EXCEPT ![f].entries = Shown(site[f], Len(site[f])), ![f].etag = version]
    /\ row' = [row EXCEPT ![f].etag = version]
    /\ UNCHANGED <<site, due, seen, eventVars, polling, faults>>

\* A body: its first entries are looked at, and its version will be stored.
Modified(f) ==
    /\ At(f, "fetch")
    /\ f \notin Tagged \/ job[f].etag = 0 \/ job[f].etag # Len(site[f])
    /\ Goto(f, "entries")
    /\ job' = [job EXCEPT ![f].entries = Shown(site[f], Len(site[f])),
                          ![f].etag = IF f \in Tagged THEN Len(site[f]) ELSE 0]
    /\ UNCHANGED <<site, tableVars, seen, eventVars, polling, faults>>

\* An entry without key or link, or one that was seen before.
SkipEntry(f) ==
    /\ At(f, "entries")
    /\ job[f].entries # <<>>
    /\ LET i == Head(job[f].entries) IN
        /\ ~ Usable(i) \/ Contains(seen, KeyOf[i])
        /\ seen' = IF Contains(seen, KeyOf[i]) THEN Touch(seen, KeyOf[i]) ELSE seen
    /\ job' = [job EXCEPT ![f].entries = Tail(@)]
    /\ UNCHANGED <<site, tableVars, eventVars, polling, pc, faults>>

\* Variant: the entry is not marked.
TakeEntryUnmarked(f) ==
    /\ At(f, "entries")
    /\ job[f].entries # <<>>
    /\ Usable(Head(job[f].entries))
    /\ ~ Contains(seen, KeyOf[Head(job[f].entries)])
    /\ Goto(f, "publish")
    /\ UNCHANGED <<site, tableVars, seen, eventVars, polling, job, faults>>

\* A new entry is marked as seen, then published.
TakeEntry(f) ==
    /\ At(f, "entries")
    /\ job[f].entries # <<>>
    /\ LET i == Head(job[f].entries) IN
        /\ Usable(i)
        /\ ~ Contains(seen, KeyOf[i])
        /\ seen' = Add(seen, KeyOf[i], SeenMax)
    /\ Goto(f, "publish")
    /\ UNCHANGED <<site, tableVars, eventVars, polling, job, faults>>

Publish(f) ==
    LET k == KeyOf[Head(job[f].entries)] IN
    /\ At(f, "publish")
    /\ published' = published \cup {k}
    /\ emitted' = emitted \cup {k}
    /\ repeated' = repeated \cup (emitted \cap {k})
    /\ Goto(f, "entries")
    /\ job' = [job EXCEPT ![f].entries = Tail(@)]
    /\ UNCHANGED <<site, tableVars, seen, polling, faults>>

\* All entries are done.
LastEntry(f) ==
    /\ At(f, "entries")
    /\ job[f].entries = <<>>
    /\ Goto(f, "update")
    /\ UNCHANGED <<site, tableVars, seen, eventVars, polling, job, faults>>

\* Variant: the version is forgotten when the feed did not change.
UpdatePollStateUntagged(f) ==
    /\ At(f, "update")
    /\ row' = [row EXCEPT ![f].errors = 0,
                          ![f].etag = IF @ = job[f].etag THEN 0 ELSE job[f].etag]
    /\ NotDue(f)
    /\ Goto(f, "updated")
    /\ UNCHANGED <<site, seen, eventVars, polling, job, faults>>

\* update_poll_state, after a body as after a 304.
UpdatePollState(f) ==
    /\ At(f, "update")
    /\ row' = [row EXCEPT ![f].errors = 0, ![f].etag = job[f].etag]
    /\ NotDue(f)
    /\ Goto(f, "updated")
    /\ UNCHANGED <<site, seen, eventVars, polling, job, faults>>

EndTask(f) ==
    /\ At(f, "updated")
    /\ Return(f)
    /\ UNCHANGED <<site, tableVars, seen, eventVars, polling, faults>>

\* The except branch: one more error, and at the limit the feed is put aside.
RecordError(f) ==
    LET errors == job[f].errors + 1 IN
    /\ At(f, "failed")
    /\ row' = [row EXCEPT ![f].errors = errors,
                          ![f].status = IF errors >= ErrorLimit THEN "error" ELSE "active"]
    /\ NotDue(f)
    /\ Return(f)
    /\ UNCHANGED <<site, seen, eventVars, polling, faults>>

\* gather() has all results; the cycle sleeps.
EndCycle ==
    /\ polling
    /\ \A f \in Feed : At(f, "idle")
    /\ polling' = FALSE
    /\ UNCHANGED <<site, tableVars, seen, eventVars, pc, job, faults>>

-----------------------------------------------------------------------------
\* What may go wrong.
Fault(kind) ==
    /\ kind \in FaultKind
    /\ faults < MaxFaults
    /\ faults' = faults + 1

\* An await of the try block raises: the GET, the publish before it reached the
\* stream, or a call that took effect all the same.
Raise(f, kind, labels) ==
    /\ pc[f] \in labels
    /\ Fault(kind)
    /\ Goto(f, "failed")
    /\ UNCHANGED <<site, tableVars, seen, eventVars, polling, job>>

Fail(f) ==
    \/ Raise(f, "fetch", {"fetch"})
    \/ Raise(f, "publish", {"publish"})
    \/ Raise(f, "late", {"entries", "updated"})
    \/ Raise(f, "db", {"update"})

\* update_error_state raises as well: gather() keeps the exception, and the
\* feed stays due.
RecordErrorFails(f) ==
    /\ At(f, "failed")
    /\ Fault("db")
    /\ Return(f)
    /\ UNCHANGED <<site, tableVars, seen, eventVars, polling>>

\* The process dies and is started again, with an empty memory.
Crash ==
    /\ Fault("crash")
    /\ seen' = <<>>
    /\ emitted' = {}
    /\ repeated' = {}
    /\ polling' = FALSE
    /\ pc' = [f \in Feed |-> "idle"]
    /\ job' = [f \in Feed |-> NoJob]
    /\ UNCHANGED <<site, tableVars, published>>

\* Someone runs seed_feeds again: the upsert on the url makes the row as good as
\* new and due now, behind the feeds that are due already, whatever its task is doing.
Reseed(f) ==
    /\ Fault("seed")
    /\ row' = [row EXCEPT ![f] = FreshRow]
    /\ due' = Append(RemoveFirst(due, f), f)
    /\ UNCHANGED <<site, seen, eventVars, polling, pc, job>>

-----------------------------------------------------------------------------
\* A feed's task, at work.
Task(f) ==
    \/ Acquire(f) \/ NotModified(f) \/ Modified(f) \/ SkipEntry(f) \/ TakeEntry(f)
    \/ Publish(f) \/ LastEntry(f) \/ UpdatePollState(f) \/ EndTask(f) \/ RecordError(f)

Next ==
    \/ \E f \in Feed : Task(f) \/ Fail(f) \/ RecordErrorFails(f) \/ FallDue(f) \/ Reseed(f)
    \/ \E f \in Feed, i \in Item : List(f, i)
    \/ StartCycle
    \/ EndCycle
    \/ Crash

Spec == Init /\ [][Next]_vars

\* Tasks keep running, cycles follow each other, and time passes.
Fairness ==
    /\ \A f \in Feed : WF_vars(Task(f)) /\ WF_vars(FallDue(f))
    /\ WF_vars(StartCycle)
    /\ WF_vars(EndCycle)

FairSpec == Spec /\ Fairness

-----------------------------------------------------------------------------
(* Properties *)

\* An item that no other feed lists.
Own(f, i) == \A g \in Feed \ {f} : \A j \in ToSet(site[g]) : KeyOf[j] # KeyOf[i]

\* A stored version makes the site answer 304 from then on, so everything it
\* showed has been published by then, whatever fails before or after.  An item
\* that two feeds list may still be in the hands of the other one's task.
StoredVersionIsPublished ==
    \A f \in Feed : \A i \in ToSet(Shown(site[f], row[f].etag)) :
        Usable(i) /\ Own(f, i) => KeyOf[i] \in published

\* One process publishes an item once, even if several feeds list it and their
\* tasks interleave, as long as the memory holds all keys.
PublishedOncePerProcess == SeenMax >= Cardinality(Key) => repeated = {}

\* The stored version of a feed never goes back, unless the feed is seeded
\* again.
VersionNeverGoesBack ==
    [][\A f \in Feed : row'[f].etag >= row[f].etag \/ Reseed(f)]_vars

\* Every item is published in the end, through failures and restarts, unless
\* newer items push it off the list or too many failures put its feed aside.
EveryItemPublished ==
    \A f \in Feed, i \in Linked :
        i \in ToSet(site[f]) /\ KeyOf[i] # None ~>
            \/ KeyOf[i] \in published
            \/ row[f].status = "error"
            \/ i \notin ToSet(Shown(site[f], Len(site[f])))
=============================================================================
