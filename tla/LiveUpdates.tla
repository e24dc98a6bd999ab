----------------------------- MODULE LiveUpdates -----------------------------
(***************************************************************************)
(* From ARTICLE_CLUSTERED to the screen: the notifier and the WebSocket    *)
(* hub of the API process, the endpoint of each connection, GET            *)
(* /api/v1/clusters, and one browser that connects, fetches and            *)
(* reconnects.                                                             *)
(*                                                                         *)
(* An action is the code between two awaits, or a callback of the browser. *)
(* Sections under the hub's lock do not await, so the lock is not seen.    *)
(* The browser uses one socket after the other, each with a FIFO wire.     *)
(* Answers of fetches may be late, and overtake each other.                *)
(***************************************************************************)
EXTENDS Naturals, Sequences, FiniteSets

CONSTANTS
    Article,        \* the articles, and their events
    Cluster,
    ClusterOf,      \* the cluster that each article ends up in
    Old,            \* articles whose events were settled before the page was loaded
    MaxSockets,     \* connections the browser makes, one after the other
    MaxFetches,     \* fetches of the clusters it makes
    MaxClusters,    \* CONFIG.MAX_CLUSTERS, and the limit of a fetch (300)
    MaxDeliver,     \* max_deliver of the notifier's consumer (5 in the code)
    FaultKind,      \* which of "drop", "slow", "http", "refused", "crash"
    MaxFaults,      \* may happen, and how often in all
    None

ASSUME LiveAssumption ==
    /\ IsFiniteSet(Cluster)
    /\ ClusterOf \in [Article -> Cluster]
    /\ Old \subseteq Article
    /\ None \notin Article
    /\ {MaxSockets, MaxFetches, MaxClusters, MaxDeliver} \subseteq Nat \ {0}
    /\ MaxFaults \in Nat
    /\ MaxSockets > MaxFaults /\ MaxFetches > MaxFaults
    /\ FaultKind \subseteq {"drop", "slow", "http", "refused", "crash"}

VARIABLES
    mstate, delivered,  \* the messages of the notifier, see JetStreamConsumer
    db, founder,    \* the articles of each cluster, and the first of them
    active,         \* active_connections of the hub
    endpoint,       \* how far the endpoint of each socket is
    message,        \* the event that the notifier broadcasts, or None
    sending,        \* what the broadcast still has to do for each socket
    wire,           \* events on their way to the browser
    link,           \* readyState of each socket
    resync,         \* reconnectAttempts > 0
    fetch,          \* the fetches of the browser
    screen,         \* see Dashboard
    faults          \* faults that happened so far

busVars == <<mstate, delivered>>
dbVars == <<db, founder>>
hubVars == <<active, endpoint, message, sending>>
browserVars == <<link, resync, fetch, screen>>
vars == <<busVars, dbVars, hubVars, wire, browserVars, faults>>

Bus == INSTANCE JetStreamConsumer WITH Msg <- Article
Page == INSTANCE Dashboard

-----------------------------------------------------------------------------
Socket == 1 .. MaxSockets
Fetch == 1 .. MaxFetches

Endpoint == {"none", "handshake", "accepted", "serving", "ending", "closed"}
Link == {"none", "connecting", "open", "closed"}
Todo == {"nothing", "send", "remove"}
Asking == {"unused", "asked", "answered", "over"}

\* What a fetch answers: the articles counted for each of some clusters.
Snapshot == UNION {[C -> SUBSET Article] : C \in SUBSET Cluster}

TypeOK ==
    /\ Bus!TypeOK
    /\ db \in [Cluster -> SUBSET Article]
    /\ founder \in [Cluster -> Article \cup {None}]
    /\ active \subseteq Socket
    /\ endpoint \in [Socket -> Endpoint]
    /\ message \in Article \cup {None}
    /\ sending \in [Socket -> Todo]
    /\ wire \in [Socket -> Seq(Article)]
    /\ link \in [Socket -> Link]
    /\ resync \in BOOLEAN
    /\ fetch \in [Fetch -> [stage : Asking, answer : Snapshot]]
    /\ DOMAIN screen.store \subseteq Cluster
    /\ screen.processed \subseteq Article
    /\ faults \in 0 .. MaxFaults

NoAnswer == <<>>

\* The page is loaded: it fetches the clusters and connects.
Init ==
    /\ mstate = [a \in Article |-> IF a \in Old THEN "acked" ELSE "unsent"]
    /\ delivered = [a \in Article |-> IF a \in Old THEN 1 ELSE 0]
    /\ db = [c \in Cluster |-> {a \in Old : ClusterOf[a] = c}]
    /\ founder \in {f \in [Cluster -> Old \cup {None}] :
                      \A c \in Cluster : IF db[c] = {} THEN f[c] = None ELSE f[c] \in db[c]}
    /\ active = {}
    /\ endpoint = [s \in Socket |-> IF s = 1 THEN "handshake" ELSE "none"]
    /\ message = None
    /\ sending = [s \in Socket |-> "nothing"]
    /\ wire = [s \in Socket |-> <<>>]
    /\ link = [s \in Socket |-> IF s = 1 THEN "connecting" ELSE "none"]
    /\ resync = FALSE
    /\ fetch = [i \in Fetch |-> [stage |-> IF i = 1 THEN "asked" ELSE "unused",
                                 answer |-> NoAnswer]]
    /\ screen = Page!Blank
    /\ faults = 0

Fault(kind) ==
    /\ kind \in FaultKind
    /\ faults < MaxFaults
    /\ faults' = faults + 1

-----------------------------------------------------------------------------
(* The clustering engine and the notifier *)

\* An article is committed, and its event published.
Commit(a) ==
    LET c == ClusterOf[a] IN
    /\ Bus!Publish(a)
    /\ db' = [db EXCEPT ![c] = @ \cup {a}]
    /\ founder' = [founder EXCEPT ![c] = IF @ = None THEN a ELSE @]
    /\ UNCHANGED <<hubVars, wire, browserVars, faults>>

\* The notifier gets an event, and the broadcast its snapshot of the connections.
Broadcast(a) ==
    /\ message = None
    /\ Bus!Deliver(a)
    /\ message' = a
    /\ sending' = [s \in Socket |-> IF s \in active THEN "send" ELSE "nothing"]
    /\ UNCHANGED <<dbVars, active, endpoint, wire, browserVars, faults>>

Reached(s, todo) == sending' = [sending EXCEPT ![s] = todo]

\* The frame waits at a browser whose onopen is still to come.
Send(s) ==
    /\ sending[s] = "send"
    /\ link[s] # "closed"
    /\ wire' = [wire EXCEPT ![s] = Append(@, message)]
    /\ Reached(s, "nothing")
    /\ UNCHANGED <<busVars, dbVars, active, endpoint, message, browserVars, faults>>

\* Variant: there is no time-out, and the send to a dead peer never returns.
SendToGoneForever(s) ==
    /\ sending[s] = "send"
    /\ link[s] = "closed"
    /\ UNCHANGED vars

\* The browser is gone: send_json raises, or the frame goes nowhere.
SendToGone(s) ==
    /\ sending[s] = "send"
    /\ link[s] = "closed"
    /\ \E todo \in {"nothing", "remove"} : Reached(s, todo)
    /\ UNCHANGED <<busVars, dbVars, active, endpoint, message, wire, browserVars, faults>>

\* The client does not take the frame within a second; it may get it later.
SendTimesOut(s) ==
    /\ sending[s] = "send"
    /\ link[s] = "open"
    /\ Fault("slow")
    /\ \E late \in {<<>>, <<message>>} : wire' = [wire EXCEPT ![s] = @ \o late]
    /\ Reached(s, "remove")
    /\ UNCHANGED <<busVars, dbVars, active, endpoint, message, browserVars>>

\* disconnect of a client that could not be sent to.  Its socket stays open.
Disconnect(s) ==
    /\ sending[s] = "remove"
    /\ active' = active \ {s}
    /\ Reached(s, "nothing")
    /\ UNCHANGED <<busVars, dbVars, endpoint, message, wire, browserVars, faults>>

\* Variant: the event is answered when the sends are started.
AckBroadcastEarly ==
    /\ message # None
    /\ Bus!Ack(message)
    /\ message' = None
    /\ UNCHANGED <<dbVars, active, endpoint, sending, wire, browserVars, faults>>

\* gather() has all results.
AckBroadcast ==
    /\ message # None
    /\ \A s \in Socket : sending[s] = "nothing"
    /\ Bus!Ack(message)
    /\ message' = None
    /\ UNCHANGED <<dbVars, active, endpoint, sending, wire, browserVars, faults>>

AckWait(a) ==
    /\ message # a
    /\ Bus!AckWait(a)
    /\ UNCHANGED <<dbVars, hubVars, wire, browserVars, faults>>

-----------------------------------------------------------------------------
(* The endpoint of a socket *)

Serve(s, from, to) ==
    /\ endpoint[s] = from
    /\ endpoint' = [endpoint EXCEPT ![s] = to]
    /\ UNCHANGED <<busVars, dbVars, message, sending, wire, browserVars>>

Accept(s) == Serve(s, "handshake", "accepted") /\ UNCHANGED <<active, faults>>

Register(s) == Serve(s, "accepted", "serving") /\ active' = active \cup {s} /\ UNCHANGED faults

\* Variant: the first ping is the last one.
PingOnce(s) == Serve(s, "serving", "ending") /\ UNCHANGED <<active, faults>>

\* Variant: a ping that fails is logged, and the loop goes on.
PingFailsGoesOn(s) == Serve(s, "serving", "serving") /\ UNCHANGED <<active, faults>>

\* The ping every 20 seconds fails since the browser is gone, ...
PingFails(s) ==
    /\ Serve(s, "serving", "ending")
    /\ link[s] = "closed"
    /\ UNCHANGED <<active, faults>>

\* ... or it takes longer than 5 seconds.
PingTimesOut(s) ==
    /\ Serve(s, "serving", "ending")
    /\ link[s] = "open"
    /\ Fault("slow")
    /\ UNCHANGED active

\* Variant: the broadcast is trusted to notice.
EndServeLeaves(s) == Serve(s, "ending", "closed") /\ UNCHANGED <<active, faults>>

\* finally: the hub forgets the socket, which is closed.
EndServe(s) == Serve(s, "ending", "closed") /\ active' = active \ {s} /\ UNCHANGED faults

\* The API process dies and is started again.
Crash ==
    /\ Fault("crash")
    /\ active' = {}
    /\ endpoint' = [s \in Socket |-> IF endpoint[s] = "none" THEN "none" ELSE "closed"]
    /\ message' = None
    /\ sending' = [s \in Socket |-> "nothing"]
    /\ UNCHANGED <<busVars, dbVars, wire, browserVars>>

-----------------------------------------------------------------------------
(* The browser *)

\* The next fetch is made.
Ask(fetches) ==
    LET used == {j \in Fetch : fetches[j].stage # "unused"} IN
    [i \in Fetch |-> IF i = Cardinality(used) + 1
                      THEN [fetches[i] EXCEPT !.stage = "asked"] ELSE fetches[i]]

\* onopen: after a reconnect the clusters are fetched again.
Open(s) ==
    /\ link[s] = "connecting"
    /\ endpoint[s] \in {"accepted", "serving"}
    /\ link' = [link EXCEPT ![s] = "open"]
    /\ fetch' = IF resync THEN Ask(fetch) ELSE fetch
    /\ resync' = FALSE
    /\ UNCHANGED <<busVars, dbVars, hubVars, wire, screen, faults>>

\* onclose: the frames that are still on the wire are lost.
Close(s) ==
    /\ link' = [link EXCEPT ![s] = "closed"]
    /\ resync' = TRUE
    /\ wire' = [wire EXCEPT ![s] = <<>>]
    /\ UNCHANGED <<busVars, dbVars, active, message, sending, fetch, screen>>

\* The server closed the socket, ...
Closed(s) ==
    /\ link[s] \in {"connecting", "open"}
    /\ endpoint[s] = "closed"
    /\ Close(s)
    /\ UNCHANGED <<endpoint, faults>>

\* ... or the network did, ...
Drop(s) ==
    /\ link[s] = "open"
    /\ Fault("drop")
    /\ Close(s)
    /\ UNCHANGED endpoint

\* ... or the handshake failed.
Refused(s) ==
    /\ link[s] = "connecting"
    /\ endpoint[s] = "handshake"
    /\ Fault("refused")
    /\ Close(s)
    /\ endpoint' = [endpoint EXCEPT ![s] = "closed"]

\* Variant: any earlier socket, in whatever state, counts as a connection.
ReconnectBlocked(s) ==
    /\ s > 1
    /\ link[s] = "none"
    /\ link[s - 1] = "none"
    /\ link' = [link EXCEPT ![s] = "connecting"]
    /\ endpoint' = [endpoint EXCEPT ![s] = "handshake"]
    /\ UNCHANGED <<busVars, dbVars, active, message, sending, wire, resync, fetch, screen, faults>>

\* The timer of scheduleReconnect: the next socket.
Reconnect(s) ==
    /\ s > 1
    /\ link[s] = "none"
    /\ link[s - 1] = "closed"
    /\ link' = [link EXCEPT ![s] = "connecting"]
    /\ endpoint' = [endpoint EXCEPT ![s] = "handshake"]
    /\ UNCHANGED <<busVars, dbVars, active, message, sending, wire, resync, fetch, screen, faults>>

\* onmessage: handleClusterUpdate.
Receive(s) ==
    /\ link[s] = "open"
    /\ wire[s] # <<>>
    /\ LET a == Head(wire[s])
           c == ClusterOf[a]
       IN  screen' \in Page!Updates(screen, c, a, founder[c] = a)
    /\ wire' = [wire EXCEPT ![s] = Tail(@)]
    /\ UNCHANGED <<busVars, dbVars, hubVars, link, resync, fetch, faults>>

\* list_clusters: the most recent clusters; which ones those are is left open.
Read(i) ==
    LET known == {c \in Cluster : db[c] # {}} IN
    /\ fetch[i].stage = "asked"
    /\ \E C \in SUBSET known :
        /\ C = known \/ Cardinality(C) = MaxClusters
        /\ Cardinality(C) <= MaxClusters
        /\ fetch' = [fetch EXCEPT ![i] = [stage |-> "answered", answer |-> [c \in C |-> db[c]]]]
    /\ UNCHANGED <<busVars, dbVars, hubVars, wire, link, resync, screen, faults>>

Over == [stage |-> "over", answer |-> NoAnswer]

Answer(i) ==
    /\ fetch[i].stage = "answered"
    /\ screen' = Page!Answered(screen, fetch[i].answer)
    /\ fetch' = [fetch EXCEPT ![i] = Over]
    /\ UNCHANGED <<busVars, dbVars, hubVars, wire, link, resync, faults>>

FetchFails(i) ==
    /\ fetch[i].stage \in {"asked", "answered"}
    /\ Fault("http")
    /\ screen' = Page!Unanswered(screen)
    /\ fetch' = [fetch EXCEPT ![i] = Over]
    /\ UNCHANGED <<busVars, dbVars, hubVars, wire, link, resync>>

\* The user clicks Retry.
Retry ==
    /\ screen.failed
    /\ fetch' = Ask(fetch)
    /\ screen' = [screen EXCEPT !.grid = <<>>, !.failed = FALSE]
    /\ UNCHANGED <<busVars, dbVars, hubVars, wire, link, resync, faults>>

-----------------------------------------------------------------------------
\* The sends of a broadcast, at work.
Deliver(s) == Send(s) \/ SendToGone(s) \/ Disconnect(s)

\* An endpoint, at work.
ServeSocket(s) == Accept(s) \/ Register(s) \/ PingFails(s) \/ EndServe(s)

\* The browser, at work.
Browse(s) == Open(s) \/ Closed(s) \/ Reconnect(s) \/ Receive(s)

Fail(s) == SendTimesOut(s) \/ PingTimesOut(s) \/ Drop(s) \/ Refused(s)

Next ==
    \/ \E a \in Article : Commit(a) \/ Broadcast(a) \/ AckWait(a)
    \/ AckBroadcast
    \/ \E s \in Socket : Deliver(s) \/ ServeSocket(s) \/ Browse(s) \/ Fail(s)
    \/ \E i \in Fetch : Read(i) \/ Answer(i) \/ FetchFails(i)
    \/ Retry
    \/ Crash

Spec == Init /\ [][Next]_vars

\* The event loops of the API process and of the page run what is ready,
\* time-outs fire and the server delivers.  Which socket or event is next is left
\* open: there are finitely many.  Nothing forces a fetch to be answered or the
\* user to click.
Api == AckBroadcast \/ \E s \in Socket : Deliver(s) \/ ServeSocket(s)

Fairness ==
    /\ WF_vars(Api)
    /\ WF_vars(\E s \in Socket : Browse(s))
    /\ WF_vars(\E a \in Article : Broadcast(a))
    /\ WF_vars(\E a \in Article : AckWait(a))

FairSpec == Spec /\ Fairness

-----------------------------------------------------------------------------
(* Properties *)

\* A count on the screen is made of articles that are stored in that cluster,
\* and of none of them more than twice: once from an answer and once from an
\* event, however often events are redelivered and answers are late.
CountsAreGrounded ==
    \A c \in DOMAIN screen.store : \A a \in Article :
        screen.store[c][a] <= IF a \in db[c] THEN 2 ELSE 0

\* A cluster may have several cards, but the topmost shows the number that the
\* store holds, through events, resyncs and evictions.
FirstCardIsCurrent ==
    \A c \in DOMAIN screen.store :
        Page!CardsOf(screen.grid, c) # {} =>
            screen.grid[Page!First(screen.grid, c)].bag = screen.store[c]

\* The hub holds no socket whose endpoint is gone, whichever of broadcast, ping
\* and restart noticed first.
HubForgets == \A s \in active : endpoint[s] \in {"serving", "ending"}

\* A browser that is gone leaves the hub for good, with or without a broadcast.
GoneIsForgotten == \A s \in Socket : link[s] = "closed" ~> [](s \notin active)

\* A browser whose socket was closed comes back.
BrowserComesBack ==
    \A s \in Socket : link[s] = "closed" ~> \E t \in Socket : t > s /\ link[t] = "open"

\* Every event is answered for good: neither dead nor slow clients hold it up.
EveryEventSettles == \A a \in Article : mstate[a] = "queued" ~> Bus!Settled(a)

\* An event that is queued when the browser is connected and known to the hub
\* reaches the page, unless there is a fault.
EventReachesBrowser ==
    \A a \in Article :
        mstate[a] = "queued" /\ (\E s \in active : link[s] = "open")
            ~> a \in screen.processed \/ faults > 0
=============================================================================
