------------------------------- MODULE Fetcher -------------------------------
(***************************************************************************)
(* The fetcher workers: FEED_ITEMS_NEW asks for one page, and              *)
(* FEED_PROCESS_COMMAND for the first pages of a feed.  A process awaits   *)
(* one handler of each subject at a time, since a subscription awaits its  *)
(* callbacks one by one, but a command's pages are fetched side by side.   *)
(* Requests pass a semaphore of their page's domain, extractions one of    *)
(* the process.                                                            *)
(*                                                                         *)
(* An action is the code between two awaits.  What a page holds is         *)
(* abstracted to what becomes of it: see Thin, Unparsable and Invalid.     *)
(***************************************************************************)
EXTENDS Naturals, Sequences, FiniteSets, SequencesExt

CONSTANTS
    Worker,         \* processes of the queue groups
    Page,           \* links
    Domain,
    DomainOf,       \* the domain of each page
    Thin,           \* pages whose extraction has less than 50 characters
    Unparsable,     \* links that urlparse refuses
    Invalid,        \* pages of whose text no valid payload can be made
    Item,           \* messages of FEED_ITEMS_NEW ...
    PageOf,         \* ... and the page each of them asks for
    Command,        \* messages of FEED_PROCESS_COMMAND ...
    FeedDomain,     \* ... the domain of each feed
    Entries,        \* ... and the links of its entries, None where there is none
    Malformed,      \* messages whose payload does not validate
    MaxEntries,     \* entries of a feed that are looked at (20 in the code)
    DomainLimit,    \* requests of a process to one domain (2 in the code)
    ExtractLimit,   \* extractions of a process (2 in the code)
    MaxDeliver,     \* max_deliver of both consumers (5 in the code)
    FaultKind,      \* which of "fetch", "parse", "extract", "publish", "late", "crash", "slow"
    MaxFaults,      \* may happen, and how often in all
    None

Message == Item \cup Command

ASSUME FetcherAssumption ==
    /\ DomainOf \in [Page -> Domain] /\ PageOf \in [Item -> Page]
    /\ FeedDomain \in [Command -> Domain] /\ Entries \in [Command -> Seq(Page \cup {None})]
    /\ Thin \cup Unparsable \cup Invalid \subseteq Page /\ Malformed \subseteq Message
    /\ Item \cap Command = {} /\ None \notin Message \cup Page
    /\ IsFiniteSet(Page)

ASSUME BoundsAssumption ==
    /\ {MaxEntries, ExtractLimit, MaxDeliver} \subseteq Nat \ {0}
    /\ DomainLimit \in Nat \ {0, 1}
    /\ MaxFaults \in Nat
    /\ FaultKind \subseteq {"fetch", "parse", "extract", "publish", "late", "crash", "slow"}

VARIABLES
    mstate, delivered,  \* the messages of both consumers, see JetStreamConsumer
    buffer,         \* the deliveries that wait in a process for their lane
    handling,       \* the message that each lane of a process handles, or None
    feed,           \* how far the handling of a command is
    task,           \* how far each _process_article of a lane is
    published,      \* how often a request had EXTRACT_COMPLETED published for a page
    lost,           \* requests and pages whose failure was logged and let pass
    lostFeeds,      \* commands whose RSS could not be fetched
    faults          \* faults that happened so far

busVars == <<mstate, delivered>>
laneVars == <<buffer, handling, feed, task>>
outVars == <<published, lost, lostFeeds>>
vars == <<busVars, laneVars, outVars, faults>>

Bus == INSTANCE JetStreamConsumer WITH Msg <- Message

-----------------------------------------------------------------------------
\* One lane per subscription.
Lane == {"item", "feed"}
LaneOf(m) == IF m \in Item THEN "item" ELSE "feed"

FeedStage == {"none", "request", "parse", "started"}
TaskStage == {"none", "start", "waiting", "request", "fetched", "extract", "publish", "raised"}

NoTask == [p \in Page |-> "none"]

TypeOK ==
    /\ Bus!TypeOK
    /\ buffer \subseteq Worker \X Message \X (1 .. MaxDeliver)
    /\ handling \in [Worker -> [Lane -> Message \cup {None}]]
    /\ feed \in [Worker -> FeedStage]
    /\ task \in [Worker -> [Lane -> [Page -> TaskStage]]]
    /\ published \in [Message -> [Page -> Nat]]
    /\ lost \subseteq Message \X Page
    /\ lostFeeds \subseteq Command
    /\ faults \in 0 .. MaxFaults

Init ==
    /\ Bus!Init
    /\ buffer = {}
    /\ handling = [w \in Worker |-> [l \in Lane |-> None]]
    /\ feed = [w \in Worker |-> "none"]
    /\ task = [w \in Worker |-> [l \in Lane |-> NoTask]]
    /\ published = [m \in Message |-> [p \in Page |-> 0]]
    /\ lost = {}
    /\ lostFeeds = {}
    /\ faults = 0

-----------------------------------------------------------------------------
Goto(w, l, p, stage) == task' = [task EXCEPT ![w][l][p] = stage]

\* The tasks of a process at a stage, the semaphore's holders among them.
At(w, stages) == {t \in Lane \X Page : task[w][t[1]][t[2]] \in stages}
Requesting(w, d) == {t \in At(w, {"request"}) : DomainOf[t[2]] = d}

\* All requests of a process that a domain sees: pages, and the feed itself.
Requests(w, d) ==
    Cardinality(Requesting(w, d)) +
        IF feed[w] = "request" /\ FeedDomain[handling[w]["feed"]] = d THEN 1 ELSE 0

Idle(w, l) == \A p \in Page : task[w][l][p] \in {"none", "raised"}
Raised(w, l) == l = "item" /\ \E p \in Page : task[w][l][p] = "raised"

\* The lane is free for its next message.
Free(w, l) ==
    /\ buffer' = buffer
    /\ handling' = [handling EXCEPT ![w][l] = None]
    /\ feed' = [feed EXCEPT ![w] = IF l = "feed" THEN "none" ELSE @]
    /\ task' = [task EXCEPT ![w][l] = NoTask]

Fault(kind) ==
    /\ kind \in FaultKind
    /\ faults < MaxFaults
    /\ faults' = faults + 1

-----------------------------------------------------------------------------
\* The feed manager, or an operator, publishes a request.
Arrive(m) ==
    /\ Bus!Publish(m)
    /\ UNCHANGED <<laneVars, outVars, faults>>

\* The deliveries that wait for a lane of a process.
Waiting(w, l) == {d \in buffer : d[1] = w /\ LaneOf(d[2]) = l}

\* The callback of the subscription is called with the message.
Start(w, m) ==
    /\ handling' = [handling EXCEPT ![w][LaneOf(m)] = m]
    /\ feed' = [feed EXCEPT ![w] = IF m \in Command \ Malformed THEN "request" ELSE @]
    /\ task' = [task EXCEPT ![w]["item"] =
                    IF m \in Item \ Malformed THEN [@ EXCEPT ![PageOf[m]] = "start"] ELSE @]

\* The server pushes a request to a process whose lane for it is free ...
Deliver(w, m) ==
    /\ handling[w][LaneOf(m)] = None
    /\ Waiting(w, LaneOf(m)) = {}
    /\ Bus!Deliver(m)
    /\ Start(w, m)
    /\ UNCHANGED <<buffer, outVars, faults>>

\* ... or busy: the client buffers the delivery, on which ack_wait runs already.
Buffer(w, m) ==
    /\ handling[w][LaneOf(m)] # None \/ Waiting(w, LaneOf(m)) # {}
    /\ Bus!Deliver(m)
    /\ buffer' = buffer \cup {<<w, m, delivered'[m]>>}
    /\ UNCHANGED <<handling, feed, task, outVars, faults>>

\* Variant: the delivery is called for again.
TakeAgain(d) ==
    /\ handling[d[1]][LaneOf(d[2])] = None
    /\ Start(d[1], d[2])
    /\ UNCHANGED <<buffer, busVars, outVars, faults>>

\* The lane is free for a delivery that waits, which may be answered since.
Take(d) ==
    /\ handling[d[1]][LaneOf(d[2])] = None
    /\ buffer' = buffer \ {d}
    /\ Start(d[1], d[2])
    /\ UNCHANGED <<busVars, outVars, faults>>

\* The payload is invalid: PermanentError.
Reject(w, l) ==
    /\ handling[w][l] \in Malformed
    /\ Bus!Term(handling[w][l])
    /\ Free(w, l)
    /\ UNCHANGED <<outVars, faults>>

\* The RSS arrives, without any semaphore ...
FetchFeed(w) ==
    /\ feed[w] = "request"
    /\ feed' = [feed EXCEPT ![w] = "parse"]
    /\ UNCHANGED <<busVars, buffer, handling, task, outVars, faults>>

\* ... or does not, and the handler returns.
FetchFeedFails(w) ==
    /\ feed[w] = "request"
    /\ Fault("fetch")
    /\ feed' = [feed EXCEPT ![w] = "started"]
    /\ lostFeeds' = lostFeeds \cup {handling[w]["feed"]}
    /\ UNCHANGED <<busVars, buffer, handling, task, published, lost>>

\* The links of the first entries; a link that occurs twice is taken once.
Batch(c) == ToSet(SubSeq(Entries[c], 1, IF Len(Entries[c]) < MaxEntries
                                        THEN Len(Entries[c]) ELSE MaxEntries)) \ {None}

\* Variant: an entry without a link ends the loop.
StartTasksBreak(w) ==
    LET entries == Entries[handling[w]["feed"]]
        first == {k \in 1 .. Len(entries) : \A j \in 1 .. k : entries[j] # None} IN
    /\ feed[w] = "parse"
    /\ feed' = [feed EXCEPT ![w] = "started"]
    /\ task' = [task EXCEPT ![w]["feed"] =
                    [p \in Page |-> IF \E k \in first : entries[k] = p THEN "start" ELSE "none"]]
    /\ UNCHANGED <<busVars, buffer, handling, outVars, faults>>

\* feedparser is done: one task for each link.
StartTasks(w) ==
    /\ feed[w] = "parse"
    /\ feed' = [feed EXCEPT ![w] = "started"]
    /\ task' = [task EXCEPT ![w]["feed"] =
                    [p \in Page |-> IF p \in Batch(handling[w]["feed"]) THEN "start" ELSE "none"]]
    /\ UNCHANGED <<busVars, buffer, handling, outVars, faults>>

\* _get_domain_sem: a link that urlparse refuses ends its task in an exception.
StartPage(w, l, p) ==
    /\ task[w][l][p] = "start"
    /\ Goto(w, l, p, IF p \in Unparsable THEN "raised" ELSE "waiting")
    /\ UNCHANGED <<busVars, buffer, handling, feed, outVars, faults>>

\* Variant: the semaphore is one too large.
RequestOneMore(w, l, p) ==
    /\ task[w][l][p] = "waiting"
    /\ Cardinality(Requesting(w, DomainOf[p])) <= DomainLimit
    /\ Goto(w, l, p, "request")
    /\ UNCHANGED <<busVars, buffer, handling, feed, outVars, faults>>

\* The domain's semaphore lets the request out.
Request(w, l, p) ==
    /\ task[w][l][p] = "waiting"
    /\ Cardinality(Requesting(w, DomainOf[p])) < DomainLimit
    /\ Goto(w, l, p, "request")
    /\ UNCHANGED <<busVars, buffer, handling, feed, outVars, faults>>

FetchPage(w, l, p) ==
    /\ task[w][l][p] = "request"
    /\ Goto(w, l, p, "fetched")
    /\ UNCHANGED <<busVars, buffer, handling, feed, outVars, faults>>

\* The semaphore of the process lets the extraction start.
StartExtraction(w, l, p) ==
    /\ task[w][l][p] = "fetched"
    /\ Cardinality(At(w, {"extract"})) < ExtractLimit
    /\ Goto(w, l, p, "extract")
    /\ UNCHANGED <<busVars, buffer, handling, feed, outVars, faults>>

\* A text that is too short is dropped; a payload that does not validate ends the
\* task in an exception.
Extracted(w, l, p) ==
    /\ task[w][l][p] = "extract"
    /\ Goto(w, l, p, CASE p \in Thin -> "none" [] p \in Invalid \ Thin -> "raised"
                       [] OTHER -> "publish")
    /\ UNCHANGED <<busVars, buffer, handling, feed, outVars, faults>>

Publish(w, l, p) ==
    /\ task[w][l][p] = "publish"
    /\ published' = [published EXCEPT ![handling[w][l]][p] = @ + 1]
    /\ Goto(w, l, p, "none")
    /\ UNCHANGED <<busVars, buffer, handling, feed, lost, lostFeeds, faults>>

\* A GET, an extraction or a publish raises: it is logged, and the task is over.
GiveUp(w, l, p, kind, stage) ==
    /\ task[w][l][p] = stage
    /\ Fault(kind)
    /\ lost' = lost \cup {<<handling[w][l], p>>}
    /\ Goto(w, l, p, "none")
    /\ UNCHANGED <<busVars, buffer, handling, feed, published, lostFeeds>>

\* The publish reached the stream, but its acknowledgement did not return.
PublishLate(w, l, p) ==
    /\ task[w][l][p] = "publish"
    /\ Fault("late")
    /\ published' = [published EXCEPT ![handling[w][l]][p] = @ + 1]
    /\ lost' = lost \cup {<<handling[w][l], p>>}
    /\ Goto(w, l, p, "none")
    /\ UNCHANGED <<busVars, buffer, handling, feed, lostFeeds>>

\* The handler is through: process_article returned, or gather() has all
\* results, exceptions included.
Finished(w, l) ==
    /\ handling[w][l] \notin Malformed \cup {None}
    /\ l = "feed" => feed[w] = "started"
    /\ Idle(w, l)

\* Variant: the handler does not wait for its tasks.
AckEarly(w, l) ==
    /\ handling[w][l] \notin Malformed \cup {None}
    /\ l = "feed" => feed[w] = "started"
    /\ Bus!Ack(handling[w][l])
    /\ Free(w, l)
    /\ UNCHANGED <<outVars, faults>>

Ack(w, l) ==
    /\ Finished(w, l)
    /\ ~ Raised(w, l)
    /\ Bus!Ack(handling[w][l])
    /\ Free(w, l)
    /\ UNCHANGED <<outVars, faults>>

\* Variant: the exception ends the subscription, too.
NakLaneDies(w, l) ==
    /\ Finished(w, l)
    /\ Raised(w, l)
    /\ Bus!Nak(handling[w][l])
    /\ UNCHANGED <<laneVars, outVars, faults>>

\* An exception left process_article.
Nak(w, l) ==
    /\ Finished(w, l)
    /\ Raised(w, l)
    /\ Bus!Nak(handling[w][l])
    /\ Free(w, l)
    /\ UNCHANGED <<outVars, faults>>

\* feedparser raises, and so does process_feed.
ParseFails(w) ==
    /\ feed[w] = "parse"
    /\ Fault("parse")
    /\ Bus!Nak(handling[w]["feed"])
    /\ Free(w, "feed")
    /\ UNCHANGED outVars

-----------------------------------------------------------------------------
\* The process dies and is started again; its buffer is empty, its semaphores are new.
Crash(w) ==
    /\ \E l \in Lane : handling[w][l] # None
    /\ Fault("crash")
    /\ buffer' = {d \in buffer : d[1] # w}
    /\ handling' = [handling EXCEPT ![w] = [l \in Lane |-> None]]
    /\ feed' = [feed EXCEPT ![w] = "none"]
    /\ task' = [task EXCEPT ![w] = [l \in Lane |-> NoTask]]
    /\ UNCHANGED <<busVars, outVars>>

Held(m) ==
    \/ \E w \in Worker : handling[w][LaneOf(m)] = m
    \/ \E d \in buffer : d[2] = m

\* ack_wait passes for a message that no process has any more, ...
AckWait(m) ==
    /\ ~ Held(m)
    /\ Bus!AckWait(m)
    /\ UNCHANGED <<laneVars, outVars, faults>>

\* ... or for one whose handler is slower than that, or waits for one that is.
SlowHandler(m) ==
    /\ Held(m)
    /\ Fault("slow")
    /\ Bus!AckWait(m)
    /\ UNCHANGED <<laneVars, outVars>>

-----------------------------------------------------------------------------
\* A task of _process_article, at work.
Work(w, l, p) ==
    \/ StartPage(w, l, p) \/ Request(w, l, p) \/ FetchPage(w, l, p)
    \/ StartExtraction(w, l, p) \/ Extracted(w, l, p) \/ Publish(w, l, p)

\* A handler, at work.
Handle(w, l) ==
    \/ Reject(w, l) \/ Ack(w, l) \/ Nak(w, l)
    \/ l = "feed" /\ (FetchFeed(w) \/ StartTasks(w))

Fail(w, l, p) ==
    \/ GiveUp(w, l, p, "fetch", "request")
    \/ GiveUp(w, l, p, "extract", "extract")
    \/ GiveUp(w, l, p, "publish", "publish")
    \/ PublishLate(w, l, p)

\* Every message has been answered.
Done == (\A m \in Message : Bus!Settled(m)) /\ UNCHANGED vars

Next ==
    \/ \E m \in Message : Arrive(m) \/ AckWait(m) \/ SlowHandler(m)
    \/ \E w \in Worker, m \in Message : Deliver(w, m) \/ Buffer(w, m)
    \/ \E d \in buffer : Take(d)
    \/ \E w \in Worker, l \in Lane : Handle(w, l)
    \/ \E w \in Worker, l \in Lane, p \in Page : Work(w, l, p) \/ Fail(w, l, p)
    \/ \E w \in Worker : FetchFeedFails(w) \/ ParseFails(w) \/ Crash(w)
    \/ Done

Spec == Init /\ [][Next]_vars

\* The event loop of a process keeps running what is ready, the server keeps
\* delivering and its timers fire.  Which task, handler or message is next is
\* left open: there are finitely many.
Process(w) ==
    \/ \E d \in buffer : d[1] = w /\ Take(d)
    \/ \E l \in Lane : Handle(w, l) \/ \E p \in Page : Work(w, l, p)

Fairness ==
    /\ \A w \in Worker : WF_vars(Process(w))
    /\ WF_vars(\E w \in Worker, m \in Message : Deliver(w, m) \/ Buffer(w, m))
    /\ WF_vars(\E m \in Message : AckWait(m))

FairSpec == Spec /\ Fairness

-----------------------------------------------------------------------------
(* Properties *)

\* A domain never sees more than two requests of one process, although the
\* request for the feed takes no place in the domain's semaphore: while it runs,
\* the process can have no other request than that of its one item.
PolitePerDomain == \A w \in Worker, d \in Domain : Requests(w, d) <= DomainLimit

Asks(m) == IF m \in Item THEN {PageOf[m]} ELSE Batch(m)

\* A page whose text is published when all goes well.
Keeps(p) == p \notin Thin \cup Unparsable \cup Invalid

\* An acknowledged request is worked off: one of its own handlers published each of
\* its pages, found no text to publish, or met a failure, which the service
\* swallows.  The tasks of a command are over before it is acknowledged.
AckedIsWorkedOff ==
    \A m \in Message : mstate[m] = "acked" =>
        m \in lostFeeds \/ \A p \in Asks(m) : Keeps(p) => published[m][p] > 0 \/ <<m, p>> \in lost

\* A request has no page published more often than it was delivered, although its
\* handlers may run side by side: a link that a feed lists twice is fetched once.
OncePerDelivery == \A m \in Message, p \in Page : published[m][p] <= delivered[m]

\* Every request is answered for good, through crashes, handlers slower than
\* ack_wait and links that no handler can process.
EveryRequestSettles == \A m \in Message : mstate[m] = "queued" ~> Bus!Settled(m)

\* Without a fault every page with a text is published: the semaphores let
\* every task through.
EveryPageArrives ==
    \A m \in Message \ Malformed : \A p \in Asks(m) :
        mstate[m] = "queued" /\ Keeps(p) ~> published[m][p] > 0 \/ faults > 0
=============================================================================
