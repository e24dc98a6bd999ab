---------------------------- MODULE FetcherProofs ----------------------------
(***************************************************************************)
(* What holds of the fetcher for every number of processes, pages and      *)
(* domains, and every budget of deliveries and faults.                     *)
(***************************************************************************)
EXTENDS Fetcher, CommonLemmas

USE DEF Bus!Settled, Bus!MsgState

-----------------------------------------------------------------------------
(* Types, and what a lane does *)

\* A message in the queue has a delivery left.
BudgetLeft ==
    \A m \in Message : mstate[m] \in {"unsent", "queued"} => delivered[m] < MaxDeliver

\* A lane handles messages of its subject.  Its tasks are those of its message, and a
\* command has none before its feed is parsed.
LaneInv ==
    /\ \A w \in Worker :
        /\ handling[w]["item"] \in Item \cup {None}
        /\ handling[w]["feed"] \in Command \cup {None}
        /\ feed[w] # "none" <=> handling[w]["feed"] \notin Malformed \cup {None}
    /\ \A w \in Worker, p \in Page :
        /\ task[w]["item"][p] # "none" =>
            /\ handling[w]["item"] \notin Malformed \cup {None}
            /\ p = PageOf[handling[w]["item"]]
        /\ task[w]["feed"][p] # "none" => feed[w] = "started"

TInv == TypeOK /\ BudgetLeft /\ LaneInv

\* Deliveries stay within max_deliver, whatever a handler answers.
LEMMA BusStep ==
    ASSUME Bus!TypeOK, BudgetLeft, NEW m \in Message,
           \/ Bus!Publish(m) \/ Bus!Deliver(m) \/ Bus!Ack(m) \/ Bus!Term(m) \/ Bus!Nak(m)
           \/ Bus!AckWait(m)
    PROVE  Bus!TypeOK' /\ BudgetLeft'
    BY BoundsAssumption
    DEF Bus!TypeOK, BudgetLeft, Bus!Publish, Bus!Deliver, Bus!Ack, Bus!Term, Bus!Nak,
        Bus!AckWait, Bus!Requeued

\* Before the first message every lane is free.
LEMMA TInvInit ==
    Init => TInv
<1>. SUFFICES ASSUME Init PROVE TInv
    OBVIOUS
<1>1. Bus!TypeOK /\ BudgetLeft
    BY BoundsAssumption DEF Init, Bus!Init, Bus!TypeOK, BudgetLeft, BoundsAssumption
<1>2. TypeOK
    BY <1>1, BoundsAssumption
    DEF Init, TypeOK, BoundsAssumption, FeedStage, TaskStage, NoTask, Lane
<1>3. LaneInv
    BY DEF Init, LaneInv, NoTask, Lane
<1>. QED
    BY <1>1, <1>2, <1>3 DEF TInv

\* Faults are bounded.
LEMMA FaultStep ==
    ASSUME faults \in 0 .. MaxFaults, NEW kind, Fault(kind)
    PROVE  faults' \in 0 .. MaxFaults
    BY BoundsAssumption DEF BoundsAssumption, Fault

\* Nothing is left to do for a page that a request asks for: it is out, its failure
\* was met, or it has no text.
Settles(m, p) == Keeps(p) => published[m][p] > 0 \/ <<m, p>> \in lost

\* What a task does: it goes on to its next stage, or is over.  Only the semaphore of
\* its domain lets it request the page, and it is over when its text is published,
\* its failure was met or there is nothing to publish.
TaskGoes(w, l, p, stage) ==
    /\ task[w][l][p] \notin {"none", "raised"}
    /\ Goto(w, l, p, stage)
    /\ stage = "request" => Cardinality(Requesting(w, DomainOf[p])) < DomainLimit
    /\ stage \in {"none", "raised"} => Settles(handling[w][l], p)'
    /\ UNCHANGED <<busVars, buffer, handling, feed, lostFeeds>>
    /\ \/ published' = published
       \/ /\ stage = "none"
          /\ published' = [published EXCEPT ![handling[w][l]][p] = @ + 1]
    /\ lost \subseteq lost' /\ lost' \subseteq Message \X Page
    /\ faults' \in 0 .. MaxFaults

\* Every step of a task is one of those.
LEMMA TaskStep ==
    ASSUME TInv, NEW w \in Worker, NEW l \in Lane, NEW p \in Page,
           Work(w, l, p) \/ Fail(w, l, p)
    PROVE  \E stage \in TaskStage \ {"start"} : TaskGoes(w, l, p, stage)
<1>. USE DEF TaskGoes, TaskStage, Settles
<1>1. /\ published \in [Message -> [Page -> Nat]]
      /\ lost \subseteq Message \X Page
      /\ faults \in 0 .. MaxFaults
    BY DEF TInv, TypeOK
<1>2. ASSUME task[w][l][p] # "none"
      PROVE  handling[w][l] \in Message
    BY <1>2 DEF TInv, LaneInv, Lane, Message
<1>3. CASE StartPage(w, l, p)
  <2>1. CASE p \in Unparsable
    BY <1>1, <1>3, <2>1 DEF StartPage, outVars, Keeps
  <2>2. CASE p \notin Unparsable
    BY <1>1, <1>3, <2>2 DEF StartPage, outVars, Keeps
  <2>. QED
    BY <2>1, <2>2
<1>4. CASE Request(w, l, p)
    BY <1>1, <1>4 DEF Request, outVars
<1>5. CASE FetchPage(w, l, p)
    BY <1>1, <1>5 DEF FetchPage, outVars
<1>6. CASE StartExtraction(w, l, p)
    BY <1>1, <1>6 DEF StartExtraction, outVars
<1>7. CASE Extracted(w, l, p)
  <2>1. CASE p \in Thin
    BY <1>1, <1>7, <2>1 DEF Extracted, outVars, Keeps
  <2>2. CASE p \in Invalid \ Thin
    BY <1>1, <1>7, <2>2 DEF Extracted, outVars, Keeps
  <2>3. CASE p \notin Thin \cup Invalid
    BY <1>1, <1>7, <2>3 DEF Extracted, outVars
  <2>. QED
    BY <2>1, <2>2, <2>3
<1>8. CASE Publish(w, l, p)
    BY <1>1, <1>2, <1>8 DEF Publish
<1>9. ASSUME NEW kind, NEW stage \in {"request", "extract", "publish"},
             GiveUp(w, l, p, kind, stage)
      PROVE  TaskGoes(w, l, p, "none")
    BY <1>1, <1>2, <1>9, FaultStep DEF GiveUp
<1>10. CASE PublishLate(w, l, p)
    BY <1>1, <1>2, <1>10, FaultStep DEF PublishLate
<1>. QED
    BY <1>3, <1>4, <1>5, <1>6, <1>7, <1>8, <1>9, <1>10 DEF Work, Fail

\* How a handler ends.  It acknowledges its message only when its tasks are over.
HandlerEnds(w, l) ==
    LET m == handling[w][l] IN
    /\ m # None
    /\ Free(w, l)
    /\ \/ Bus!Ack(m) /\ Finished(w, l) /\ ~ Raised(w, l)
       \/ Bus!Nak(m)
       \/ Bus!Term(m)
    /\ UNCHANGED outVars
    /\ faults' \in 0 .. MaxFaults

\* Every answer to a message is one of those.
LEMMA HandlerStep ==
    ASSUME TInv, NEW w \in Worker, NEW l \in Lane,
           \/ Reject(w, l) \/ Ack(w, l) \/ Nak(w, l)
           \/ l = "feed" /\ ParseFails(w)
    PROVE  HandlerEnds(w, l)
<1>. USE DEF HandlerEnds
<1>1. faults \in 0 .. MaxFaults
    BY DEF TInv, TypeOK
<1>2. CASE Reject(w, l)
    BY <1>1, <1>2, FetcherAssumption DEF Reject, FetcherAssumption
<1>3. CASE Ack(w, l)
    BY <1>1, <1>3 DEF Ack, Finished
<1>4. CASE Nak(w, l)
    BY <1>1, <1>4 DEF Nak, Finished
<1>5. CASE l = "feed" /\ ParseFails(w)
  <2>1. handling[w]["feed"] # None
    BY <1>5 DEF ParseFails, TInv, LaneInv
  <2>. QED
    BY <1>1, <1>5, <2>1, FaultStep DEF ParseFails
<1>. QED
    BY <1>2, <1>3, <1>4, <1>5

\* The types of the lanes' variables, and of what goes out.
LaneType ==
    /\ buffer \subseteq Worker \X Message \X (1 .. MaxDeliver)
    /\ handling \in [Worker -> [Lane -> Message \cup {None}]]
    /\ feed \in [Worker -> FeedStage]
    /\ task \in [Worker -> [Lane -> [Page -> TaskStage]]]

OutType ==
    /\ published \in [Message -> [Page -> Nat]]
    /\ lost \subseteq Message \X Page
    /\ lostFeeds \subseteq Command
    /\ faults \in 0 .. MaxFaults

\* TypeOK consists of the bus, the lanes and what goes out.
LEMMA TypeParts ==
    /\ TypeOK => Bus!TypeOK /\ LaneType /\ OutType
    /\ Bus!TypeOK' /\ LaneType' /\ OutType' => TypeOK'
    BY DEF TypeOK, LaneType, OutType

\* A task that goes on stays within its lane.
LEMMA TaskKeepsLanes ==
    ASSUME TInv, NEW w \in Worker, NEW l \in Lane, NEW p \in Page,
           NEW stage \in TaskStage \ {"start"}, TaskGoes(w, l, p, stage)
    PROVE  TInv' /\ task'[w][l][p] = stage
           /\ \A v \in Worker, k \in Lane, q \in Page :
                <<v, k, q>> # <<w, l, p>> => task'[v][k][q] = task[v][k][q]
<1>1. /\ task' = [task EXCEPT ![w][l][p] = stage]
      /\ UNCHANGED <<busVars, buffer, handling, feed, lostFeeds>>
      /\ task[w][l][p] # "none"
    BY DEF TaskGoes, Goto
<1>2. task \in [Worker -> [Lane -> [Page -> TaskStage]]]
    BY DEF TInv, TypeOK
<1>3. /\ task' \in [Worker -> [Lane -> [Page -> TaskStage]]]
      /\ task'[w][l][p] = stage
      /\ \A v \in Worker, k \in Lane, q \in Page :
            <<v, k, q>> # <<w, l, p>> => task'[v][k][q] = task[v][k][q]
    BY <1>1, <1>2
<1>4. OutType'
  <2>1. handling[w][l] \in Message
    BY <1>1 DEF TInv, LaneInv, Lane, Message
  <2>2. published \in [Message -> [Page -> Nat]]
    BY DEF TInv, TypeOK
  <2>3. published' \in [Message -> [Page -> Nat]]
    BY <2>1, <2>2 DEF TaskGoes
  <2>. QED
    BY <1>1, <2>3 DEF TaskGoes, OutType, TInv, TypeOK
<1>5. LaneType' /\ Bus!TypeOK' /\ BudgetLeft'
    BY <1>1, <1>3 DEF LaneType, TInv, TypeOK, Bus!TypeOK, BudgetLeft, busVars
<1>6. LaneInv'
  <2>1. \A v \in Worker, q \in Page : \A k \in Lane :
            task'[v][k][q] # "none" => task[v][k][q] # "none"
    BY <1>1, <1>3
  <2>. QED
    BY <1>1, <2>1 DEF TInv, LaneInv, Lane
<1>7. TypeOK'
    BY <1>4, <1>5, TypeParts
<1>. QED
    BY <1>3, <1>5, <1>6, <1>7 DEF TInv

\* A free lane begins to handle a message.
Begins(w, m) ==
    /\ handling[w][LaneOf(m)] = None
    /\ Start(w, m)
    /\ buffer' \subseteq buffer
    /\ UNCHANGED <<outVars, faults>>

\* It does when the message is delivered to it, ...
LEMMA DeliverBegins ==
    ASSUME NEW w \in Worker, NEW m \in Message, Deliver(w, m)
    PROVE  Begins(w, m) /\ Bus!Deliver(m) /\ buffer' = buffer
    BY DEF Deliver, Begins

\* ... and when it turns to a delivery in its buffer.
LEMMA TakeBegins ==
    ASSUME TypeOK, NEW d \in buffer, Take(d)
    PROVE  \E w \in Worker, m \in Message, n \in 1 .. MaxDeliver :
                /\ d = <<w, m, n>>
                /\ Begins(w, m)
                /\ buffer' = buffer \ {d}
                /\ UNCHANGED busVars
<1>1. PICK w \in Worker, m \in Message, n \in 1 .. MaxDeliver : d = <<w, m, n>>
    BY DEF TypeOK
<1>2. Begins(w, m) /\ buffer' = buffer \ {d} /\ UNCHANGED busVars
    BY <1>1 DEF Take, Begins
<1>. QED
    BY <1>1, <1>2

\* Every step of every handler, task, message and fault keeps TInv.
LEMMA TInvStep ==
    TInv /\ [Next]_vars => TInv'
<1>. SUFFICES ASSUME TInv, [Next]_vars PROVE TInv'
    OBVIOUS
<1>0. Bus!TypeOK /\ BudgetLeft /\ LaneType /\ OutType
    BY TypeParts DEF TInv
<1>1. ASSUME NEW m \in Message, Arrive(m) \/ AckWait(m) \/ SlowHandler(m) PROVE TInv'
  <2>1. Bus!Publish(m) \/ Bus!AckWait(m)
    BY <1>1 DEF Arrive, AckWait, SlowHandler
  <2>2. Bus!TypeOK' /\ BudgetLeft'
    BY <1>0, <2>1, BusStep
  <2>3. UNCHANGED <<laneVars, outVars>> /\ faults' \in 0 .. MaxFaults
    BY <1>0, <1>1, FaultStep DEF Arrive, AckWait, SlowHandler, OutType
  <2>4. LaneType' /\ OutType' /\ LaneInv'
    BY <1>0, <2>3 DEF laneVars, outVars, LaneType, OutType, LaneInv, TInv
  <2>. QED
    BY <2>2, <2>4, TypeParts DEF TInv
<1>2. ASSUME NEW w \in Worker, NEW m \in Message, Begins(w, m), Bus!TypeOK' /\ BudgetLeft'
      PROVE  TInv'
  <2>1. buffer' \subseteq Worker \X Message \X (1 .. MaxDeliver)
    BY <1>0, <1>2 DEF Begins, LaneType
  <2>2. OutType'
    BY <1>0, <1>2 DEF Begins, outVars, OutType
  <2>3. CASE m \in Item
    <3>1. /\ handling[w]["item"] = None
          /\ handling' = [handling EXCEPT ![w]["item"] = m]
          /\ feed' = feed
          /\ task' = [task EXCEPT ![w]["item"] =
                        IF m \notin Malformed THEN [@ EXCEPT ![PageOf[m]] = "start"] ELSE @]
      BY <1>0, <1>2, <2>3, FetcherAssumption
      DEF Begins, Start, LaneOf, FetcherAssumption, LaneType
    <3>2. PageOf[m] \in Page /\ m # None
      BY <2>3, FetcherAssumption DEF FetcherAssumption
    <3>3. LaneType'
      BY <1>0, <2>1, <3>1, <3>2 DEF LaneType, Lane, TaskStage
    <3>4. /\ handling'[w]["item"] = m /\ handling'[w]["feed"] = handling[w]["feed"]
          /\ \A v \in Worker \ {w} : handling'[v] = handling[v] /\ task'[v] = task[v]
          /\ task'[w]["feed"] = task[w]["feed"]
          /\ \A p \in Page \ {PageOf[m]} : task'[w]["item"][p] = task[w]["item"][p]
          /\ m \in Malformed => task'[w]["item"] = task[w]["item"]
      BY <1>0, <3>1, <3>2 DEF LaneType, Lane
    <3>5. \A p \in Page : task[w]["item"][p] = "none"
      BY <3>1 DEF TInv, LaneInv
    <3>6. LaneInv'
      BY <2>3, <3>1, <3>2, <3>4, <3>5 DEF TInv, LaneInv
    <3>. QED
      BY <1>2, <2>2, <3>3, <3>6, TypeParts DEF TInv
  <2>4. CASE m \in Command
    <3>1. /\ handling[w]["feed"] = None
          /\ handling' = [handling EXCEPT ![w]["feed"] = m]
          /\ feed' = [feed EXCEPT ![w] = IF m \notin Malformed THEN "request" ELSE @]
          /\ task' = task
      BY <1>0, <1>2, <2>4, FetcherAssumption
      DEF Begins, Start, LaneOf, FetcherAssumption, LaneType
    <3>2. m # None
      BY FetcherAssumption DEF FetcherAssumption
    <3>3. LaneType'
      BY <1>0, <2>1, <3>1 DEF LaneType, Lane, FeedStage
    <3>4. /\ handling'[w]["feed"] = m /\ handling'[w]["item"] = handling[w]["item"]
          /\ \A v \in Worker \ {w} : handling'[v] = handling[v] /\ feed'[v] = feed[v]
          /\ feed'[w] = IF m \notin Malformed THEN "request" ELSE feed[w]
      BY <1>0, <3>1 DEF LaneType, Lane
    <3>5. feed[w] = "none"
      BY <3>1 DEF TInv, LaneInv
    <3>6. LaneInv'
      BY <2>4, <3>1, <3>2, <3>4, <3>5 DEF TInv, LaneInv
    <3>. QED
      BY <1>2, <2>2, <3>3, <3>6, TypeParts DEF TInv
  <2>. QED
    BY <2>3, <2>4 DEF Message
<1>3. ASSUME NEW w \in Worker, NEW l \in Lane, HandlerEnds(w, l) PROVE TInv'
  <2>1. Bus!TypeOK' /\ BudgetLeft'
    <3>1. handling[w][l] \in Message
      BY <1>0, <1>3 DEF HandlerEnds, LaneType
    <3>. QED
      BY <1>0, <1>3, <3>1, BusStep DEF HandlerEnds
  <2>2. OutType'
    BY <1>0, <1>3 DEF HandlerEnds, outVars, OutType
  <2>3. /\ buffer' = buffer
        /\ handling' = [handling EXCEPT ![w][l] = None]
        /\ feed' = [feed EXCEPT ![w] = IF l = "feed" THEN "none" ELSE @]
        /\ task' = [task EXCEPT ![w][l] = NoTask]
    BY <1>3 DEF HandlerEnds, Free
  <2>4. NoTask \in [Page -> TaskStage] /\ \A p \in Page : NoTask[p] = "none"
    BY DEF NoTask, TaskStage
  <2>5. LaneType'
    BY <1>0, <2>3, <2>4 DEF LaneType, FeedStage
  <2>6. /\ handling'[w][l] = None /\ task'[w][l] = NoTask
        /\ feed'[w] = IF l = "feed" THEN "none" ELSE feed[w]
        /\ \A k \in Lane \ {l} : handling'[w][k] = handling[w][k] /\ task'[w][k] = task[w][k]
        /\ \A v \in Worker \ {w} :
            handling'[v] = handling[v] /\ feed'[v] = feed[v] /\ task'[v] = task[v]
    BY <1>0, <2>3 DEF LaneType
  <2>7. LaneInv'
    <3>1. CASE l = "item"
      BY <2>4, <2>6, <3>1 DEF TInv, LaneInv, Lane
    <3>2. CASE l = "feed"
      BY <2>4, <2>6, <3>2 DEF TInv, LaneInv, Lane
    <3>. QED
      BY <3>1, <3>2 DEF Lane
  <2>. QED
    BY <2>1, <2>2, <2>5, <2>7, TypeParts DEF TInv
<1>4. ASSUME NEW w \in Worker, FetchFeed(w) \/ FetchFeedFails(w) PROVE TInv'
  <2>1. /\ UNCHANGED <<busVars, buffer, handling, task, published, lost>>
        /\ feed[w] = "request"
        /\ \E stage \in {"parse", "started"} : feed' = [feed EXCEPT ![w] = stage]
    BY <1>4 DEF FetchFeed, FetchFeedFails, outVars
  <2>2. handling[w]["feed"] \in Command
    BY <2>1 DEF TInv, LaneInv
  <2>3. OutType'
    BY <1>0, <1>4, <2>2, FaultStep DEF FetchFeed, FetchFeedFails, outVars, OutType
  <2>4. LaneType' /\ LaneInv'
    BY <1>0, <2>1 DEF LaneType, FeedStage, TInv, LaneInv
  <2>5. Bus!TypeOK' /\ BudgetLeft'
    BY <1>0, <2>1 DEF busVars, Bus!TypeOK, BudgetLeft
  <2>. QED
    BY <2>3, <2>4, <2>5, TypeParts DEF TInv
<1>5. ASSUME NEW w \in Worker, StartTasks(w) PROVE TInv'
  <2>. DEFINE started == [p \in Page |-> IF p \in Batch(handling[w]["feed"]) THEN "start" ELSE "none"]
  <2>1. /\ UNCHANGED <<busVars, buffer, handling, outVars, faults>>
        /\ feed[w] = "parse"
        /\ feed' = [feed EXCEPT ![w] = "started"]
        /\ task' = [task EXCEPT ![w]["feed"] = started]
    BY <1>5 DEF StartTasks
  <2>2. started \in [Page -> TaskStage]
    BY DEF TaskStage
  <2>. HIDE DEF started
  <2>3. LaneType' /\ OutType'
    BY <1>0, <2>1, <2>2 DEF LaneType, OutType, outVars, FeedStage, Lane
  <2>4. /\ task'[w]["item"] = task[w]["item"]
        /\ \A v \in Worker \ {w} : task'[v] = task[v] /\ feed'[v] = feed[v]
        /\ feed'[w] = "started"
    BY <1>0, <2>1 DEF LaneType, Lane
  <2>5. LaneInv'
    BY <2>1, <2>4 DEF TInv, LaneInv
  <2>6. Bus!TypeOK' /\ BudgetLeft'
    BY <1>0, <2>1 DEF busVars, Bus!TypeOK, BudgetLeft
  <2>. QED
    BY <2>3, <2>5, <2>6, TypeParts DEF TInv
<1>6. ASSUME NEW w \in Worker, NEW l \in Lane, NEW p \in Page, Work(w, l, p) \/ Fail(w, l, p)
      PROVE  TInv'
    BY <1>6, TaskStep, TaskKeepsLanes DEF TInv
<1>7. ASSUME NEW w \in Worker, Crash(w) PROVE TInv'
  <2>1. /\ buffer' \subseteq buffer
        /\ handling' = [handling EXCEPT ![w] = [l \in Lane |-> None]]
        /\ feed' = [feed EXCEPT ![w] = "none"]
        /\ task' = [task EXCEPT ![w] = [l \in Lane |-> NoTask]]
        /\ UNCHANGED <<busVars, outVars>>
    BY <1>7 DEF Crash
  <2>2. NoTask \in [Page -> TaskStage] /\ \A p \in Page : NoTask[p] = "none"
    BY DEF NoTask, TaskStage
  <2>3. LaneType' /\ OutType'
    BY <1>0, <1>7, <2>1, <2>2, FaultStep
    DEF Crash, LaneType, OutType, outVars, FeedStage
  <2>4. /\ handling'[w] = [l \in Lane |-> None] /\ feed'[w] = "none"
        /\ task'[w] = [l \in Lane |-> NoTask]
        /\ \A v \in Worker \ {w} :
            handling'[v] = handling[v] /\ feed'[v] = feed[v] /\ task'[v] = task[v]
    BY <1>0, <2>1 DEF LaneType
  <2>5. LaneInv'
    BY <2>2, <2>4 DEF TInv, LaneInv, Lane
  <2>6. Bus!TypeOK' /\ BudgetLeft'
    BY <1>0, <2>1 DEF busVars, Bus!TypeOK, BudgetLeft
  <2>. QED
    BY <2>3, <2>5, <2>6, TypeParts DEF TInv
<1>8. CASE UNCHANGED vars
    BY <1>8
    DEF vars, busVars, laneVars, outVars, TInv, TypeOK, Bus!TypeOK, BudgetLeft, LaneInv
<1>9. ASSUME NEW w \in Worker, NEW m \in Message, Buffer(w, m) PROVE TInv'
  <2>1. /\ Bus!Deliver(m)
        /\ buffer' = buffer \cup {<<w, m, delivered'[m]>>}
        /\ UNCHANGED <<handling, feed, task, outVars, faults>>
    BY <1>9 DEF Buffer
  <2>2. Bus!TypeOK' /\ BudgetLeft'
    BY <1>0, <2>1, BusStep
  <2>3. delivered'[m] \in 1 .. MaxDeliver
    BY <1>0, <2>1, BoundsAssumption
    DEF Bus!TypeOK, Bus!Deliver, BudgetLeft, BoundsAssumption
  <2>4. LaneType' /\ OutType'
    BY <1>0, <2>1, <2>3 DEF LaneType, OutType, outVars
  <2>5. LaneInv'
    BY <2>1 DEF LaneInv, TInv
  <2>. QED
    BY <2>2, <2>4, <2>5, TypeParts DEF TInv
<1>. QED
  <2>1. ASSUME NEW w \in Worker, NEW l \in Lane, Handle(w, l) PROVE TInv'
    BY <1>3, <1>4, <1>5, <2>1, HandlerStep DEF Handle
  <2>2. ASSUME NEW w \in Worker, ParseFails(w) PROVE TInv'
    BY <1>3, <2>2, HandlerStep DEF Lane
  <2>3. ASSUME NEW w \in Worker, NEW m \in Message, Deliver(w, m) PROVE TInv'
    BY <1>0, <1>2, <2>3, DeliverBegins, BusStep
  <2>4. ASSUME NEW d \in buffer, Take(d) PROVE TInv'
    <3>1. Bus!TypeOK' /\ BudgetLeft'
      BY <1>0, <2>4 DEF Take, busVars, Bus!TypeOK, BudgetLeft
    <3>. QED
      BY <1>2, <2>4, <3>1, TakeBegins DEF TInv
  <2>. QED
    BY <1>1, <1>4, <1>6, <1>7, <1>8, <1>9, <2>1, <2>2, <2>3, <2>4 DEF Next, Done

\* Lanes, tasks and messages keep their types.
THEOREM TypeCorrectness ==
    Spec => []TypeOK
<1>1. TInv => TypeOK
    BY DEF TInv
<1>. QED
    BY <1>1, TInvInit, TInvStep, PTL DEF Spec

-----------------------------------------------------------------------------
(* Requests per domain *)

\* Each semaphore has no more holders than it has places.
PoliteInv == \A w \in Worker, d \in Domain : Cardinality(Requesting(w, d)) <= DomainLimit

\* A process has finitely many tasks.
LEMMA RequestingFinite ==
    ASSUME NEW w \in Worker, NEW d \in Domain
    PROVE  IsFiniteSet(Requesting(w, d)) /\ Cardinality(Requesting(w, d)) \in Nat
<1>1. IsFiniteSet(Lane)
  <2>1. IsFiniteSet({"item"})
    BY FS_Singleton
  <2>2. IsFiniteSet({"item"} \cup {"feed"})
    BY <2>1, FS_AddElement
  <2>3. Lane = {"item"} \cup {"feed"}
    BY DEF Lane
  <2>. QED
    BY <2>2, <2>3
<1>2. IsFiniteSet(Lane \X Page)
    BY <1>1, FetcherAssumption, FS_Product DEF FetcherAssumption
<1>3. Requesting(w, d) \subseteq Lane \X Page
    BY DEF Requesting, At
<1>4. IsFiniteSet(Requesting(w, d))
    BY <1>2, <1>3, FS_Subset
<1>. QED
    BY <1>4, FS_CardinalityType

\* A step in which no task enters its request keeps PoliteInv.
LEMMA PoliteKept ==
    ASSUME PoliteInv,
           \A w \in Worker, l \in Lane, p \in Page :
                task'[w][l][p] = "request" => task[w][l][p] = "request"
    PROVE  PoliteInv'
<1>. SUFFICES ASSUME NEW w \in Worker, NEW d \in Domain
              PROVE  Cardinality(Requesting(w, d)') <= DomainLimit
    BY DEF PoliteInv
<1>1. Requesting(w, d)' \subseteq Requesting(w, d)
    BY DEF Requesting, At
<1>2. IsFiniteSet(Requesting(w, d)) /\ Cardinality(Requesting(w, d)) \in Nat
    BY RequestingFinite
<1>3. IsFiniteSet(Requesting(w, d)') /\ Cardinality(Requesting(w, d)') <= Cardinality(Requesting(w, d))
    BY <1>1, <1>2, FS_Subset
<1>4. Cardinality(Requesting(w, d)') \in Nat
    BY <1>3, FS_CardinalityType
<1>. QED
    BY <1>2, <1>3, <1>4, BoundsAssumption DEF BoundsAssumption, PoliteInv

\* Only the semaphore of its domain lets a task request its page.
LEMMA PoliteStep ==
    TInv /\ PoliteInv /\ [Next]_vars => PoliteInv'
<1>. SUFFICES ASSUME TInv, PoliteInv, [Next]_vars PROVE PoliteInv'
    OBVIOUS
<1>0. task \in [Worker -> [Lane -> [Page -> TaskStage]]]
    BY DEF TInv, TypeOK
<1>1. ASSUME NEW w \in Worker, NEW l \in Lane, NEW p \in Page, NEW stage \in TaskStage \ {"start"},
             TaskGoes(w, l, p, stage)
      PROVE  PoliteInv'
  <2>1. /\ task'[w][l][p] = stage
        /\ \A v \in Worker, k \in Lane, q \in Page :
            <<v, k, q>> # <<w, l, p>> => task'[v][k][q] = task[v][k][q]
    BY <1>1, TaskKeepsLanes
  <2>2. CASE stage # "request"
    BY <2>1, <2>2, PoliteKept
  <2>3. CASE stage = "request"
    <3>. SUFFICES ASSUME NEW v \in Worker, NEW d \in Domain
                  PROVE  Cardinality(Requesting(v, d)') <= DomainLimit
      BY DEF PoliteInv
    <3>1. /\ IsFiniteSet(Requesting(v, d)) /\ Cardinality(Requesting(v, d)) \in Nat
          /\ Cardinality(Requesting(v, d)) <= DomainLimit
      BY RequestingFinite DEF PoliteInv
    <3>2. CASE v = w /\ d = DomainOf[p]
      <4>. DEFINE r == Requesting(v, d)
      <4>1. Requesting(v, d)' \subseteq r \cup {<<l, p>>}
        BY <2>1, <3>2 DEF Requesting, At
      <4>2. Cardinality(r) < DomainLimit
        BY <1>1, <2>3, <3>2 DEF TaskGoes
      <4>. HIDE DEF r
      <4>3. /\ IsFiniteSet(r \cup {<<l, p>>})
            /\ Cardinality(r \cup {<<l, p>>}) =
                IF <<l, p>> \in r THEN Cardinality(r) ELSE Cardinality(r) + 1
        BY <3>1, FS_AddElement DEF r
      <4>4. Cardinality(r) \in Nat
        BY <3>1 DEF r
      <4>5. Cardinality(r \cup {<<l, p>>}) <= DomainLimit /\ Cardinality(r \cup {<<l, p>>}) \in Nat
        BY <4>2, <4>3, <4>4, BoundsAssumption DEF BoundsAssumption
      <4>6. /\ IsFiniteSet(Requesting(v, d)')
            /\ Cardinality(Requesting(v, d)') <= Cardinality(r \cup {<<l, p>>})
        BY <4>1, <4>3, FS_Subset
      <4>7. Cardinality(Requesting(v, d)') \in Nat
        BY <4>6, FS_CardinalityType
      <4>. QED
        BY <4>5, <4>6, <4>7, BoundsAssumption DEF BoundsAssumption
    <3>3. CASE ~ (v = w /\ d = DomainOf[p])
      <4>1. Requesting(v, d)' = Requesting(v, d)
        <5>1. CASE v # w
          BY <2>1, <3>3, <5>1 DEF Requesting, At
        <5>2. CASE v = w /\ d # DomainOf[p]
          BY <2>1, <5>2 DEF Requesting, At
        <5>. QED
          BY <3>3, <5>1, <5>2
      <4>. QED
        BY <3>1, <4>1
    <3>. QED
      BY <3>2, <3>3
  <2>. QED
    BY <2>2, <2>3
<1>2. CASE \A w \in Worker, l \in Lane, p \in Page :
                task'[w][l][p] = "request" => task[w][l][p] = "request"
    BY <1>2, PoliteKept
<1>3. ASSUME NEW w \in Worker, NEW m \in Message, Begins(w, m)
      PROVE  \A v \in Worker, k \in Lane, q \in Page :
                task'[v][k][q] = "request" => task[v][k][q] = "request"
  <2>1. \/ task' = [task EXCEPT ![w]["item"] = [@ EXCEPT ![PageOf[m]] = "start"]]
        \/ task' = [task EXCEPT ![w]["item"] = @]
    BY <1>3 DEF Begins, Start
  <2>. DEFINE begun == [task[w]["item"] EXCEPT ![PageOf[m]] = "start"]
  <2>2. "item" \in Lane
    BY DEF Lane
  <2>3. \A q \in Page : begun[q] = "request" => task[w]["item"][q] = "request"
    BY <1>0, <2>2
  <2>4. \/ task' = [task EXCEPT ![w]["item"] = begun]
        \/ task' = task
    BY <1>0, <2>1, <2>2
  <2>. HIDE DEF begun
  <2>5. CASE task' = [task EXCEPT ![w]["item"] = begun]
    <3>1. /\ task'[w]["item"] = begun
          /\ \A v \in Worker, k \in Lane :
                ~ (v = w /\ k = "item") => task'[v][k] = task[v][k]
      BY <1>0, <2>2, <2>5
    <3>. QED
      BY <2>3, <3>1
  <2>. QED
    BY <2>4, <2>5
<1>4. ASSUME NEW w \in Worker, NEW l \in Lane, HandlerEnds(w, l)
      PROVE  \A v \in Worker, k \in Lane, q \in Page :
                task'[v][k][q] = "request" => task[v][k][q] = "request"
    BY <1>0, <1>4 DEF HandlerEnds, Free, NoTask
<1>5. ASSUME NEW w \in Worker, StartTasks(w) \/ Crash(w)
      PROVE  \A v \in Worker, k \in Lane, q \in Page :
                task'[v][k][q] = "request" => task[v][k][q] = "request"
  <2>. DEFINE started == [p \in Page |-> IF p \in Batch(handling[w]["feed"]) THEN "start" ELSE "none"]
  <2>1. \/ task' = [task EXCEPT ![w]["feed"] = started]
        \/ task' = [task EXCEPT ![w] = [l \in Lane |-> NoTask]]
    BY <1>5 DEF StartTasks, Crash
  <2>2. \A q \in Page : started[q] # "request" /\ NoTask[q] # "request"
    BY DEF NoTask
  <2>. HIDE DEF started
  <2>3. CASE task' = [task EXCEPT ![w]["feed"] = started]
    <3>1. \A v \in Worker, k \in Lane : task'[v][k] = task[v][k] \/ task'[v][k] = started
      BY <1>0, <2>3 DEF Lane
    <3>. QED
      BY <2>2, <3>1
  <2>4. CASE task' = [task EXCEPT ![w] = [l \in Lane |-> NoTask]]
    <3>1. \A v \in Worker, k \in Lane : task'[v][k] = task[v][k] \/ task'[v][k] = NoTask
      BY <1>0, <2>4
    <3>. QED
      BY <2>2, <3>1
  <2>. QED
    BY <2>1, <2>3, <2>4
<1>6. ASSUME \/ \E m \in Message : Arrive(m) \/ AckWait(m) \/ SlowHandler(m)
             \/ \E w \in Worker, m \in Message : Buffer(w, m)
             \/ \E w \in Worker : FetchFeed(w) \/ FetchFeedFails(w)
             \/ UNCHANGED vars
      PROVE  task' = task
    BY <1>6
    DEF Arrive, AckWait, SlowHandler, Buffer, FetchFeed, FetchFeedFails, laneVars, vars
<1>. QED
  <2>1. ASSUME NEW w \in Worker, NEW l \in Lane, Handle(w, l) PROVE PoliteInv'
    BY <1>2, <1>4, <1>5, <1>6, <2>1, HandlerStep DEF Handle
  <2>2. ASSUME NEW w \in Worker, ParseFails(w) PROVE PoliteInv'
    BY <1>2, <1>4, <2>2, HandlerStep DEF Lane
  <2>3. ASSUME NEW w \in Worker, NEW l \in Lane, NEW p \in Page, Work(w, l, p) \/ Fail(w, l, p)
        PROVE  PoliteInv'
    BY <1>1, <2>3, TaskStep DEF TInv
  <2>4. ASSUME NEW w \in Worker, NEW m \in Message, Deliver(w, m) PROVE PoliteInv'
    BY <1>2, <1>3, <2>4, DeliverBegins
  <2>5. ASSUME NEW d \in buffer, Take(d) PROVE PoliteInv'
    BY <1>2, <1>3, <2>5, TakeBegins DEF TInv
  <2>. QED
    BY <1>2, <1>5, <1>6, <2>1, <2>2, <2>3, <2>4, <2>5 DEF Next, Done

\* The request for a feed is outside the semaphores, but its process has at most one
\* more request then, for the page of its item: no domain ever sees more of them than
\* its semaphore has places.
THEOREM Polite ==
    Spec => []PolitePerDomain
<1>1. Init => PoliteInv
  <2>. SUFFICES ASSUME Init, NEW w \in Worker, NEW d \in Domain
                PROVE  Cardinality(Requesting(w, d)) <= DomainLimit
    BY DEF PoliteInv
  <2>1. Requesting(w, d) = {}
    BY DEF Init, Requesting, At, NoTask
  <2>. QED
    BY <2>1, FS_EmptySet, BoundsAssumption DEF BoundsAssumption
<1>2. TInv /\ PoliteInv => PolitePerDomain
  <2>. SUFFICES ASSUME TInv, PoliteInv, NEW w \in Worker, NEW d \in Domain
                PROVE  Requests(w, d) <= DomainLimit
    BY DEF PolitePerDomain
  <2>1. /\ IsFiniteSet(Requesting(w, d)) /\ Cardinality(Requesting(w, d)) \in Nat
        /\ Cardinality(Requesting(w, d)) <= DomainLimit
    BY RequestingFinite DEF PoliteInv
  <2>2. CASE feed[w] # "request"
    BY <2>1, <2>2 DEF Requests
  <2>3. CASE feed[w] = "request"
    <3>. DEFINE own == {<<"item", PageOf[handling[w]["item"]]>>}
    <3>1. Requesting(w, d) \subseteq own
      BY <2>3 DEF Requesting, At, Lane, TInv, LaneInv
    <3>2. IsFiniteSet(own) /\ Cardinality(own) = 1
      BY FS_Singleton
    <3>. HIDE DEF own
    <3>3. Cardinality(Requesting(w, d)) <= 1
      BY <3>1, <3>2, FS_Subset
    <3>. QED
      BY <2>1, <3>3, BoundsAssumption DEF BoundsAssumption, Requests
  <2>. QED
    BY <2>2, <2>3
<1>. QED
    BY <1>1, <1>2, PoliteStep, TInvInit, TInvStep, PTL DEF Spec

-----------------------------------------------------------------------------
(* What an acknowledged request leaves behind *)

\* A page that a lane has no task for any more is settled.
Over(w, l, p) == task[w][l][p] \in {"none", "raised"} => Settles(handling[w][l], p)

ItemWorked(w) ==
    handling[w]["item"] \notin Malformed \cup {None} =>
        Over(w, "item", PageOf[handling[w]["item"]])

FeedWorked(w) ==
    feed[w] = "started" =>
        \/ handling[w]["feed"] \in lostFeeds
        \/ \A p \in Batch(handling[w]["feed"]) : Over(w, "feed", p)

WorkedInv == (\A w \in Worker : ItemWorked(w) /\ FeedWorked(w)) /\ AckedIsWorkedOff

\* A command asks for pages only.
LEMMA BatchPages ==
    ASSUME NEW c \in Command
    PROVE  Batch(c) \subseteq Page
<1>. DEFINE s == Entries[c]
            n == IF Len(s) < MaxEntries THEN Len(s) ELSE MaxEntries
<1>1. s \in Seq(Page \cup {None})
    BY FetcherAssumption DEF FetcherAssumption
<1>2. n \in 0 .. Len(s)
    BY <1>1, BoundsAssumption DEF BoundsAssumption
<1>3. Batch(c) = ToSet(SubSeq(s, 1, n)) \ {None}
    BY DEF Batch
<1>. HIDE DEF s, n
<1>4. SubSeq(s, 1, n) \in Seq(Page \cup {None})
    BY <1>1, <1>2
<1>5. ToSet(SubSeq(s, 1, n)) \subseteq Page \cup {None}
    BY <1>4 DEF ToSet
<1>. QED
    BY <1>3, <1>5

\* Every request asks for pages.
LEMMA AskedPages ==
    ASSUME NEW m \in Message
    PROVE  Asks(m) \subseteq Page
    BY BatchPages, FetcherAssumption DEF Asks, Message, FetcherAssumption

\* A step keeps what is settled, and AckedIsWorkedOff with it, if it acknowledges nothing.
LEMMA SettledKept ==
    ASSUME TypeOK, lost \subseteq lost', lostFeeds \subseteq lostFeeds',
           \/ published' = published
           \/ \E m \in Message, p \in Page :
                published' = [published EXCEPT ![m][p] = @ + 1]
    PROVE  /\ \A m \in Message, p \in Page : Settles(m, p) => Settles(m, p)'
           /\ AckedIsWorkedOff /\ (\A m \in Message : mstate'[m] = "acked" => mstate[m] = "acked")
                => AckedIsWorkedOff'
<1>1. \A m \in Message, p \in Page :
        /\ published[m][p] \in Nat /\ published'[m][p] \in Nat
        /\ published'[m][p] >= published[m][p]
    BY DEF TypeOK
<1>2. ASSUME NEW m \in Message, NEW p \in Page, Settles(m, p)
      PROVE  Settles(m, p)'
  <2>1. published[m][p] > 0 => published'[m][p] > 0
    BY <1>1
  <2>2. <<m, p>> \in lost => <<m, p>> \in lost'
    OBVIOUS
  <2>. QED
    BY <1>2, <2>1, <2>2 DEF Settles, Keeps
<1>3. ASSUME AckedIsWorkedOff, NEW m \in Message, mstate[m] = "acked"
      PROVE  m \in lostFeeds' \/ \A p \in Asks(m) : Settles(m, p)'
    BY <1>2, <1>3, AskedPages DEF AckedIsWorkedOff, Settles, Keeps
<1>4. ASSUME AckedIsWorkedOff, \A m \in Message : mstate'[m] = "acked" => mstate[m] = "acked"
      PROVE  AckedIsWorkedOff'
    BY <1>3, <1>4 DEF AckedIsWorkedOff, Settles, Keeps, Asks, Batch
<1>. QED
    BY <1>2, <1>4

\* A task is over only when its page is settled, and a request is acknowledged only when
\* its tasks are over.
LEMMA WorkedStep ==
    TInv /\ WorkedInv /\ [Next]_vars => WorkedInv'
<1>. SUFFICES ASSUME TInv, WorkedInv, [Next]_vars PROVE WorkedInv'
    OBVIOUS
<1>0. Bus!TypeOK /\ LaneType /\ OutType
    BY TypeParts DEF TInv
<1>1. ASSUME NEW w \in Worker, NEW l \in Lane, NEW p \in Page, NEW stage \in TaskStage \ {"start"},
             TaskGoes(w, l, p, stage)
      PROVE  WorkedInv'
  <2>1. /\ task'[w][l][p] = stage
        /\ \A v \in Worker, k \in Lane, q \in Page :
            <<v, k, q>> # <<w, l, p>> => task'[v][k][q] = task[v][k][q]
    BY <1>1, TaskKeepsLanes
  <2>2. /\ \A n \in Message, q \in Page : Settles(n, q) => Settles(n, q)'
        /\ AckedIsWorkedOff'
    <3>1. handling[w][l] \in Message
      BY <1>1 DEF TaskGoes, TInv, LaneInv, Lane, Message
    <3>. QED
      BY <1>1, <3>1, SettledKept DEF TaskGoes, busVars, WorkedInv, TInv
  <2>3. stage \in {"none", "raised"} => Settles(handling[w][l], p)'
    BY <1>1 DEF TaskGoes
  <2>4. \A v \in Worker, k \in Lane, q \in Page :
            handling[v][k] \in Message /\ Over(v, k, q) => Over(v, k, q)'
    <3>. SUFFICES ASSUME NEW v \in Worker, NEW k \in Lane, NEW q \in Page,
                         handling[v][k] \in Message, Over(v, k, q)
                  PROVE  Over(v, k, q)'
      OBVIOUS
    <3>1. handling'[v][k] = handling[v][k]
      BY <1>1 DEF TaskGoes
    <3>2. CASE <<v, k, q>> = <<w, l, p>>
      BY <2>1, <2>3, <3>1, <3>2 DEF Over
    <3>3. CASE <<v, k, q>> # <<w, l, p>>
      <4>1. task'[v][k][q] = task[v][k][q]
        BY <2>1, <3>3
      <4>2. Settles(handling[v][k], q) => Settles(handling[v][k], q)'
        BY <2>2, <3>1 DEF Settles
      <4>. QED
        BY <4>1, <4>2 DEF Over
    <3>. QED
      BY <3>2, <3>3
  <2>5. UNCHANGED <<handling, feed, lostFeeds>>
    BY <1>1 DEF TaskGoes
  <2>6. \A v \in Worker : handling[v]["item"] \notin Malformed \cup {None} =>
            PageOf[handling[v]["item"]] \in Page /\ handling[v]["item"] \in Message
    BY FetcherAssumption DEF FetcherAssumption, TInv, LaneInv, Message
  <2>7. \A v \in Worker : feed[v] = "started" =>
            Batch(handling[v]["feed"]) \subseteq Page /\ handling[v]["feed"] \in Message
    BY BatchPages DEF TInv, LaneInv, Message
  <2>8. "item" \in Lane /\ "feed" \in Lane
    BY DEF Lane
  <2>9. ASSUME NEW v \in Worker, handling'[v]["item"] \notin Malformed \cup {None}
        PROVE  Over(v, "item", PageOf[handling[v]["item"]])'
    BY <2>4, <2>5, <2>6, <2>8, <2>9 DEF WorkedInv, ItemWorked
  <2>10. ASSUME NEW v \in Worker, feed'[v] = "started"
         PROVE  \/ handling'[v]["feed"] \in lostFeeds'
                \/ \A q \in Batch(handling[v]["feed"]) : Over(v, "feed", q)'
    BY <2>4, <2>5, <2>7, <2>8, <2>10 DEF WorkedInv, FeedWorked
  <2>. QED
    BY <2>2, <2>5, <2>9, <2>10 DEF WorkedInv, ItemWorked, FeedWorked, Over, Batch
<1>2. ASSUME UNCHANGED <<published, lost>>
      PROVE  /\ \A w \in Worker : UNCHANGED <<handling[w]["item"], task[w]["item"]>> =>
                    ItemWorked(w)'
             /\ \A w \in Worker :
                    /\ UNCHANGED <<handling[w]["feed"], task[w]["feed"], feed[w]>>
                    /\ lostFeeds \subseteq lostFeeds'
                    => FeedWorked(w)'
  <2>1. \A n, q : Settles(n, q) => Settles(n, q)'
    BY <1>2 DEF Settles, Keeps
  <2>2. ASSUME NEW w \in Worker, handling'[w]["item"] = handling[w]["item"],
               task'[w]["item"] = task[w]["item"]
        PROVE  ItemWorked(w)'
    BY <2>1, <2>2 DEF WorkedInv, ItemWorked, Over
  <2>3. ASSUME NEW w \in Worker, handling'[w]["feed"] = handling[w]["feed"],
               task'[w]["feed"] = task[w]["feed"], feed'[w] = feed[w],
               lostFeeds \subseteq lostFeeds'
        PROVE  FeedWorked(w)'
    BY <2>1, <2>3 DEF WorkedInv, FeedWorked, Over, Batch
  <2>. QED
    BY <2>2, <2>3
<1>3. ASSUME UNCHANGED <<published, lost>>, lostFeeds \subseteq lostFeeds',
             \A m \in Message : mstate'[m] = "acked" => mstate[m] = "acked"
      PROVE  AckedIsWorkedOff'
    BY <1>3, SettledKept DEF WorkedInv, TInv
<1>4. ASSUME NEW w \in Worker, NEW m \in Message, Begins(w, m),
             \A n \in Message : mstate'[n] = "acked" => mstate[n] = "acked"
      PROVE  WorkedInv'
  <2>1. UNCHANGED <<published, lost, lostFeeds>>
    BY <1>4 DEF Begins, outVars
  <2>3. AckedIsWorkedOff'
    BY <1>3, <1>4, <2>1
  <2>4. /\ handling' = [handling EXCEPT ![w][LaneOf(m)] = m]
        /\ feed' = [feed EXCEPT ![w] = IF m \in Command \ Malformed THEN "request" ELSE @]
        /\ task' = [task EXCEPT ![w]["item"] =
                        IF m \in Item \ Malformed THEN [@ EXCEPT ![PageOf[m]] = "start"] ELSE @]
    BY <1>4 DEF Begins, Start
  <2>5. \A v \in Worker \ {w} : UNCHANGED <<handling[v], task[v], feed[v]>>
    BY <1>0, <2>4 DEF LaneType
  <2>6. CASE m \in Item
    <3>1. /\ handling'[w]["item"] = m /\ handling'[w]["feed"] = handling[w]["feed"]
          /\ feed'[w] = feed[w]
          /\ task'[w]["feed"] = task[w]["feed"]
      BY <1>0, <2>4, <2>6, FetcherAssumption DEF LaneType, Lane, LaneOf, FetcherAssumption
    <3>2. m \notin Malformed => task'[w]["item"][PageOf[m]] = "start"
      <4>1. PageOf[m] \in Page
        BY <2>6, FetcherAssumption DEF FetcherAssumption
      <4>. QED
        BY <1>0, <2>4, <2>6, <4>1 DEF LaneType, Lane
    <3>3. ItemWorked(w)'
      BY <3>1, <3>2 DEF ItemWorked, Over
    <3>4. \A v \in Worker : ItemWorked(v)' /\ FeedWorked(v)'
      BY <1>2, <2>1, <2>5, <3>1, <3>3
    <3>. QED
      BY <2>3, <3>4 DEF WorkedInv
  <2>7. CASE m \in Command
    <3>1. m \notin Item
      BY <2>7, FetcherAssumption DEF FetcherAssumption
    <3>2. handling[w]["feed"] = None /\ feed[w] = "none"
      BY <1>4, <3>1 DEF Begins, LaneOf, TInv, LaneInv
    <3>3. /\ handling'[w]["item"] = handling[w]["item"]
          /\ feed'[w] # "started"
          /\ task' = task
      BY <1>0, <2>4, <3>1, <3>2 DEF LaneType, Lane, LaneOf
    <3>4. FeedWorked(w)'
      BY <3>3 DEF FeedWorked
    <3>5. \A v \in Worker : ItemWorked(v)' /\ FeedWorked(v)'
      BY <1>2, <2>1, <2>5, <3>3, <3>4
    <3>. QED
      BY <2>3, <3>5 DEF WorkedInv
  <2>. QED
    BY <2>6, <2>7 DEF Message
<1>5. ASSUME NEW w \in Worker, NEW l \in Lane, HandlerEnds(w, l) PROVE WorkedInv'
  <2>. DEFINE m == handling[w][l]
  <2>1. UNCHANGED <<published, lost, lostFeeds>>
    BY <1>5 DEF HandlerEnds, outVars
  <2>2. /\ handling' = [handling EXCEPT ![w][l] = None]
        /\ feed' = [feed EXCEPT ![w] = IF l = "feed" THEN "none" ELSE @]
        /\ task' = [task EXCEPT ![w][l] = NoTask]
    BY <1>5 DEF HandlerEnds, Free
  <2>3. /\ handling'[w][l] = None
        /\ feed'[w] = IF l = "feed" THEN "none" ELSE feed[w]
        /\ \A k \in Lane \ {l} : handling'[w][k] = handling[w][k] /\ task'[w][k] = task[w][k]
        /\ \A v \in Worker \ {w} : UNCHANGED <<handling[v], feed[v], task[v]>>
    BY <1>0, <2>2 DEF LaneType
  <2>4. ItemWorked(w)' /\ FeedWorked(w)'
    <3>1. CASE l = "item"
      <4>1. ItemWorked(w)'
        BY <2>3, <3>1 DEF ItemWorked
      <4>. QED
        BY <1>2, <2>1, <2>3, <3>1, <4>1 DEF Lane
    <3>2. CASE l = "feed"
      <4>1. FeedWorked(w)'
        BY <2>3, <3>2 DEF FeedWorked
      <4>. QED
        BY <1>2, <2>1, <2>3, <3>2, <4>1 DEF Lane
    <3>. QED
      BY <3>1, <3>2 DEF Lane
  <2>5. \A v \in Worker : ItemWorked(v)' /\ FeedWorked(v)'
    BY <1>2, <2>1, <2>3, <2>4
  <2>6. m \in Message
    BY <1>0, <1>5 DEF HandlerEnds, LaneType
  <2>7. CASE Bus!Ack(m) /\ Finished(w, l) /\ ~ Raised(w, l)
    <3>1. \A n \in Message \ {m} : mstate'[n] = "acked" => mstate[n] = "acked"
      BY <1>0, <2>6, <2>7 DEF Bus!Ack, Bus!TypeOK
    <3>2. /\ m \notin Malformed \cup {None}
          /\ l = "feed" => feed[w] = "started"
          /\ \A p \in Page : task[w][l][p] \in {"none", "raised"}
      BY <2>7 DEF Finished, Idle
    <3>3. m \in lostFeeds \/ \A p \in Asks(m) : Settles(m, p)
      <4>1. CASE l = "item"
        <5>1. m \in Item /\ PageOf[m] \in Page
          BY <3>2, <4>1, FetcherAssumption DEF FetcherAssumption, TInv, LaneInv
        <5>2. Over(w, "item", PageOf[m])
          BY <3>2, <4>1 DEF WorkedInv, ItemWorked
        <5>. QED
          BY <3>2, <4>1, <5>1, <5>2 DEF Over, Asks
      <4>2. CASE l = "feed"
        <5>1. m \in Command /\ m \notin Item
          BY <3>2, <4>2, FetcherAssumption DEF FetcherAssumption, TInv, LaneInv
        <5>2. m \in lostFeeds \/ \A p \in Batch(m) : Over(w, "feed", p)
          BY <3>2, <4>2 DEF WorkedInv, FeedWorked
        <5>3. Batch(m) \subseteq Page
          BY <5>1, BatchPages
        <5>. QED
          BY <3>2, <4>2, <5>1, <5>2, <5>3 DEF Over, Asks
      <4>. QED
        BY <4>1, <4>2 DEF Lane
    <3>4. AckedIsWorkedOff'
      <4>. SUFFICES ASSUME NEW n \in Message, mstate'[n] = "acked"
                    PROVE  n \in lostFeeds \/ \A p \in Asks(n) : Settles(n, p)
        BY <2>1 DEF AckedIsWorkedOff, Settles, Asks, Batch
      <4>1. CASE n = m
        BY <3>3, <4>1
      <4>2. CASE n # m
        BY <3>1, <4>2 DEF WorkedInv, AckedIsWorkedOff, Settles
      <4>. QED
        BY <4>1, <4>2
    <3>. QED
      BY <2>5, <3>4 DEF WorkedInv
  <2>8. CASE Bus!Nak(m) \/ Bus!Term(m)
    <3>1. \A n \in Message : mstate'[n] = "acked" => mstate[n] = "acked"
      BY <1>0, <2>6, <2>8 DEF Bus!Nak, Bus!Term, Bus!Requeued, Bus!TypeOK
    <3>. QED
      BY <1>3, <2>1, <2>5, <3>1 DEF WorkedInv
  <2>. QED
    BY <1>5, <2>7, <2>8 DEF HandlerEnds
<1>6. ASSUME NEW w \in Worker, FetchFeed(w) \/ FetchFeedFails(w) PROVE WorkedInv'
  <2>1. /\ UNCHANGED <<busVars, handling, task, published, lost>>
        /\ feed[w] = "request"
        /\ \/ feed' = [feed EXCEPT ![w] = "parse"] /\ lostFeeds' = lostFeeds
           \/ /\ feed' = [feed EXCEPT ![w] = "started"]
              /\ lostFeeds' = lostFeeds \cup {handling[w]["feed"]}
    BY <1>6 DEF FetchFeed, FetchFeedFails, outVars
  <2>2. \A v \in Worker \ {w} : UNCHANGED feed[v]
    BY <1>0, <2>1 DEF LaneType
  <2>3. FeedWorked(w)'
    BY <1>0, <2>1 DEF FeedWorked, LaneType
  <2>4. AckedIsWorkedOff'
    BY <1>3, <2>1 DEF busVars
  <2>5. \A v \in Worker : ItemWorked(v)' /\ FeedWorked(v)'
    BY <1>2, <2>1, <2>2, <2>3
  <2>. QED
    BY <2>4, <2>5 DEF WorkedInv
<1>7. ASSUME NEW w \in Worker, StartTasks(w) PROVE WorkedInv'
  <2>. DEFINE c == handling[w]["feed"]
              started == [p \in Page |-> IF p \in Batch(c) THEN "start" ELSE "none"]
  <2>1. /\ UNCHANGED <<busVars, handling, outVars>>
        /\ feed[w] = "parse"
        /\ feed' = [feed EXCEPT ![w] = "started"]
        /\ task' = [task EXCEPT ![w]["feed"] = started]
    BY <1>7 DEF StartTasks
  <2>2. c \in Command
    BY <2>1 DEF TInv, LaneInv
  <2>3. \A p \in Batch(c) : started[p] = "start"
    BY <2>2, BatchPages
  <2>. HIDE DEF started, c
  <2>4. /\ task'[w]["feed"] = started /\ task'[w]["item"] = task[w]["item"]
        /\ \A v \in Worker \ {w} : UNCHANGED <<task[v], feed[v]>>
    BY <1>0, <2>1 DEF LaneType, Lane
  <2>5. FeedWorked(w)'
    BY <2>1, <2>3, <2>4 DEF FeedWorked, Over, Batch, c
  <2>6. AckedIsWorkedOff'
    BY <1>3, <2>1 DEF busVars, outVars
  <2>7. \A v \in Worker : ItemWorked(v)' /\ FeedWorked(v)'
    BY <1>2, <2>1, <2>4, <2>5 DEF outVars
  <2>. QED
    BY <2>6, <2>7 DEF WorkedInv
<1>8. ASSUME NEW w \in Worker, Crash(w) PROVE WorkedInv'
  <2>1. /\ handling' = [handling EXCEPT ![w] = [l \in Lane |-> None]]
        /\ feed' = [feed EXCEPT ![w] = "none"]
        /\ task' = [task EXCEPT ![w] = [l \in Lane |-> NoTask]]
        /\ UNCHANGED <<busVars, outVars>>
    BY <1>8 DEF Crash
  <2>2. /\ handling'[w]["item"] = None /\ feed'[w] = "none"
        /\ \A v \in Worker \ {w} : UNCHANGED <<handling[v], feed[v], task[v]>>
    BY <1>0, <2>1 DEF LaneType, Lane
  <2>3. ItemWorked(w)' /\ FeedWorked(w)'
    BY <2>2 DEF ItemWorked, FeedWorked
  <2>4. AckedIsWorkedOff'
    BY <1>3, <2>1 DEF busVars, outVars
  <2>5. \A v \in Worker : ItemWorked(v)' /\ FeedWorked(v)'
    BY <1>2, <2>1, <2>2, <2>3 DEF outVars
  <2>. QED
    BY <2>4, <2>5 DEF WorkedInv
<1>9. ASSUME \/ \E m \in Message : Arrive(m) \/ AckWait(m) \/ SlowHandler(m)
             \/ \E w \in Worker, m \in Message : Buffer(w, m)
             \/ UNCHANGED vars
      PROVE  WorkedInv'
  <2>1. UNCHANGED <<handling, feed, task, published, lost, lostFeeds>>
    BY <1>9 DEF Arrive, AckWait, SlowHandler, Buffer, laneVars, outVars, vars
  <2>2. \A n \in Message : mstate'[n] = "acked" => mstate[n] = "acked"
    BY <1>0, <1>9
    DEF Arrive, AckWait, SlowHandler, Buffer, Bus!Publish, Bus!AckWait, Bus!Deliver,
        Bus!Requeued, Bus!TypeOK, vars, busVars
  <2>3. \A v \in Worker : ItemWorked(v)' /\ FeedWorked(v)'
    BY <1>2, <2>1
  <2>. QED
    BY <1>3, <2>1, <2>2, <2>3 DEF WorkedInv
<1>. QED
  <2>1. ASSUME NEW w \in Worker, NEW l \in Lane, Handle(w, l) PROVE WorkedInv'
    BY <1>5, <1>6, <1>7, <2>1, HandlerStep DEF Handle
  <2>2. ASSUME NEW w \in Worker, ParseFails(w) PROVE WorkedInv'
    BY <1>5, <2>2, HandlerStep DEF Lane
  <2>3. ASSUME NEW w \in Worker, NEW l \in Lane, NEW p \in Page, Work(w, l, p) \/ Fail(w, l, p)
        PROVE  WorkedInv'
    BY <1>1, <2>3, TaskStep DEF TInv
  <2>4. ASSUME NEW w \in Worker, NEW m \in Message, Deliver(w, m) PROVE WorkedInv'
    <3>1. \A n \in Message : mstate'[n] = "acked" => mstate[n] = "acked"
      BY <1>0, <2>4 DEF Deliver, Bus!Deliver, Bus!TypeOK
    <3>. QED
      BY <1>4, <2>4, <3>1, DeliverBegins
  <2>5. ASSUME NEW d \in buffer, Take(d) PROVE WorkedInv'
    <3>1. mstate' = mstate
      BY <2>5 DEF Take, busVars
    <3>. QED
      BY <1>4, <2>5, <3>1, TakeBegins DEF TInv
  <2>. QED
    BY <1>6, <1>8, <1>9, <2>1, <2>2, <2>3, <2>4, <2>5 DEF Next, Done

\* An acknowledged request is worked off, whatever is delivered twice, fails or crashes.
THEOREM WorkedOff ==
    Spec => []AckedIsWorkedOff
<1>1. Init => WorkedInv
  <2>. SUFFICES ASSUME Init PROVE WorkedInv
    OBVIOUS
  <2>1. \A w \in Worker : handling[w]["item"] = None /\ feed[w] = "none"
    BY DEF Init, Lane
  <2>2. AckedIsWorkedOff
    BY DEF Init, Bus!Init, AckedIsWorkedOff
  <2>. QED
    BY <2>1, <2>2 DEF WorkedInv, ItemWorked, FeedWorked
<1>2. WorkedInv => AckedIsWorkedOff
    BY DEF WorkedInv
<1>. QED
    BY <1>1, <1>2, WorkedStep, TInvInit, TInvStep, PTL DEF Spec

-----------------------------------------------------------------------------
(* How often a page is published *)

\* The lane of a process may yet publish the page for the message that it handles.
MayPublish(w, l, p) ==
    \/ task[w][l][p] \notin {"none", "raised"}
    \/ l = "feed" /\ feed[w] \in {"request", "parse"}

Publishers(m, p) ==
    {w \in Worker : handling[w][LaneOf(m)] = m /\ MayPublish(w, LaneOf(m), p)}

\* The deliveries that the page may yet be published for: those of its handlers, and
\* those that wait for one.
Handled(m, p) == {<<w, m, 0>> : w \in Publishers(m, p)}
Open(m, p) == Handled(m, p) \cup {d \in buffer : d[2] = m}

\* Nobody has published the page for one of them.
Room(m, p) == Fits(Open(m, p), published[m][p], delivered[m])

OnceInv == \A m \in Message, p \in Page : Room(m, p)

\* Handlers that end, and deliveries that leave the buffer, open nothing.
LEMMA OpenKept ==
    ASSUME NEW m, NEW p, Publishers(m, p)' \subseteq Publishers(m, p), buffer' \subseteq buffer
    PROVE  Open(m, p)' \subseteq Open(m, p)
    BY DEF Open, Handled

\* There is room as long as nothing is opened and nothing is published, ...
LEMMA RoomKept ==
    ASSUME TypeOK, NEW m \in Message, NEW p \in Page, Room(m, p),
           Open(m, p)' \subseteq Open(m, p),
           published'[m][p] = published[m][p], delivered'[m] = delivered[m]
    PROVE  Room(m, p)'
<1>1. published[m][p] \in Nat /\ delivered[m] \in Nat
    BY BoundsAssumption DEF TypeOK, Bus!TypeOK, BoundsAssumption
<1>. QED
    BY <1>1, BudgetKept DEF Room

\* ... when a handler publishes the page and is done with it, ...
LEMMA RoomUsed ==
    ASSUME TypeOK, NEW m \in Message, NEW p \in Page, Room(m, p),
           NEW d \in Open(m, p),
           Open(m, p)' \subseteq Open(m, p) \ {d},
           published'[m][p] = published[m][p] + 1, delivered'[m] = delivered[m]
    PROVE  Room(m, p)'
<1>1. published[m][p] \in Nat /\ delivered[m] \in Nat
    BY BoundsAssumption DEF TypeOK, Bus!TypeOK, BoundsAssumption
<1>. QED
    BY <1>1, BudgetUsed DEF Room

\* ... when a delivery is opened as it is made, ...
LEMMA RoomMade ==
    ASSUME TypeOK, NEW m \in Message, NEW p \in Page, Room(m, p),
           NEW d, Open(m, p)' \subseteq Open(m, p) \cup {d},
           published'[m][p] = published[m][p], delivered'[m] = delivered[m] + 1
    PROVE  Room(m, p)'
<1>1. published[m][p] \in Nat /\ delivered[m] \in Nat
    BY BoundsAssumption DEF TypeOK, Bus!TypeOK, BoundsAssumption
<1>. QED
    BY <1>1, BudgetMade DEF Room

\* ... and when a delivery leaves the buffer for a handler.
LEMMA RoomMoved ==
    ASSUME TypeOK, NEW m \in Message, NEW p \in Page, Room(m, p),
           NEW d \in Open(m, p), NEW e, Open(m, p)' \subseteq (Open(m, p) \ {d}) \cup {e},
           published'[m][p] = published[m][p], delivered'[m] = delivered[m]
    PROVE  Room(m, p)'
<1>. DEFINE S == Open(m, p)
            T == Open(m, p)'
<1>1. /\ IsFiniteSet(S) /\ Cardinality(S) + published[m][p] <= delivered[m]
      /\ published[m][p] \in Nat /\ delivered[m] \in Nat
    BY BoundsAssumption DEF Room, Fits, TypeOK, Bus!TypeOK, BoundsAssumption
<1>2. d \in S /\ T \subseteq (S \ {d}) \cup {e}
    OBVIOUS
<1>3. /\ published'[m][p] = published[m][p] /\ delivered'[m] = delivered[m]
      /\ Room(m, p)' <=> Fits(T, published'[m][p], delivered'[m])
    BY DEF Room, Fits
<1>. HIDE DEF S, T
<1>4. /\ IsFiniteSet(S \ {d}) /\ Cardinality(S \ {d}) = Cardinality(S) - 1
      /\ Cardinality(S) \in Nat
    BY <1>1, <1>2, FS_RemoveElement, FS_CardinalityType
<1>5. /\ IsFiniteSet((S \ {d}) \cup {e})
      /\ Cardinality((S \ {d}) \cup {e}) =
            IF e \in S \ {d} THEN Cardinality(S \ {d}) ELSE Cardinality(S \ {d}) + 1
    BY <1>4, FS_AddElement
<1>6. /\ IsFiniteSet(T) /\ Cardinality(T) <= Cardinality((S \ {d}) \cup {e})
      /\ Cardinality(T) \in Nat
    BY <1>2, <1>5, FS_Subset, FS_CardinalityType
<1>7. Cardinality(T) <= Cardinality(S)
    BY <1>4, <1>5, <1>6
<1>. QED
    BY <1>1, <1>3, <1>4, <1>6, <1>7 DEF Fits

\* A message is handled in the lane of its subject.
LEMMA LaneOfHandled ==
    ASSUME TInv, NEW w \in Worker, NEW l \in Lane, handling[w][l] # None
    PROVE  handling[w][l] \in Message /\ LaneOf(handling[w][l]) = l
    BY FetcherAssumption DEF FetcherAssumption, TInv, LaneInv, Lane, LaneOf, Message

\* A handler publishes a page once, and every delivery makes one handler at most.
LEMMA OnceStep ==
    TInv /\ TInv' /\ OnceInv /\ [Next]_vars => OnceInv'
<1>. SUFFICES ASSUME TInv, TInv', OnceInv, [Next]_vars,
                     NEW m \in Message, NEW p \in Page
              PROVE  Room(m, p)'
    BY DEF OnceInv
<1>0. /\ Bus!TypeOK /\ LaneType /\ OutType
      /\ TypeOK /\ TypeOK'
      /\ Room(m, p)
      /\ LaneOf(m) \in Lane
      /\ m # None
    BY TypeParts, FetcherAssumption DEF TInv, OnceInv, LaneOf, Lane, FetcherAssumption
<1>1. ASSUME UNCHANGED <<published, delivered>>, buffer' \subseteq buffer,
             \A w \in Worker, l \in Lane :
                handling'[w][l] = m /\ MayPublish(w, l, p)' =>
                    handling[w][l] = m /\ MayPublish(w, l, p)
      PROVE  Room(m, p)'
  <2>1. Publishers(m, p)' \subseteq Publishers(m, p)
    BY <1>0, <1>1 DEF Publishers, LaneOf
  <2>. QED
    BY <1>0, <1>1, <2>1, OpenKept, RoomKept
<1>2. ASSUME NEW w \in Worker, NEW l \in Lane, NEW q \in Page, NEW stage \in TaskStage \ {"start"},
             TaskGoes(w, l, q, stage)
      PROVE  Room(m, p)'
  <2>. DEFINE n == handling[w][l]
  <2>1. /\ task'[w][l][q] = stage
        /\ \A v \in Worker, k \in Lane, r \in Page :
            <<v, k, r>> # <<w, l, q>> => task'[v][k][r] = task[v][k][r]
    BY <1>2, TaskKeepsLanes
  <2>2. UNCHANGED <<buffer, handling, feed, delivered>> /\ task[w][l][q] \notin {"none", "raised"}
    BY <1>2 DEF TaskGoes, busVars
  <2>3. \A v \in Worker, k \in Lane : MayPublish(v, k, p)' => MayPublish(v, k, p)
    BY <2>1, <2>2 DEF MayPublish
  <2>4. CASE published' = published
    BY <1>1, <2>2, <2>3, <2>4
  <2>5. CASE stage = "none" /\ published' = [published EXCEPT ![n][q] = @ + 1]
    <3>1. n \in Message /\ LaneOf(n) = l
      BY <2>2, LaneOfHandled DEF TInv, LaneInv, Lane
    <3>2. CASE n = m /\ q = p
      <4>1. published'[m][p] = published[m][p] + 1
        BY <1>0, <2>5, <3>2 DEF OutType
      <4>2. w \in Publishers(m, p)
        BY <2>2, <3>1, <3>2 DEF Publishers, MayPublish
      <4>3. l = "feed" => feed[w] = "started"
        BY <2>2 DEF TInv, LaneInv
      <4>4. ~ MayPublish(w, l, p)'
        BY <2>1, <2>2, <2>5, <3>2, <4>3 DEF MayPublish
      <4>5. Publishers(m, p)' \subseteq Publishers(m, p) \ {w}
        BY <1>0, <2>2, <2>3, <3>1, <3>2, <4>4 DEF Publishers, LaneOf
      <4>6. <<w, m, 0>> \in Open(m, p)
        BY <4>2 DEF Open, Handled
      <4>7. Open(m, p)' \subseteq Open(m, p) \ {<<w, m, 0>>}
        <5>1. <<w, m, 0>> \notin buffer
          BY <1>0, BoundsAssumption DEF TypeOK, BoundsAssumption
        <5>. QED
          BY <2>2, <4>5, <5>1 DEF Open, Handled
      <4>. QED
        BY <1>0, <2>2, <4>1, <4>6, <4>7, RoomUsed
    <3>3. CASE ~ (n = m /\ q = p)
      <4>1. published'[m][p] = published[m][p]
        BY <1>0, <2>5, <3>1, <3>3 DEF OutType
      <4>2. Publishers(m, p)' \subseteq Publishers(m, p)
        BY <1>0, <2>2, <2>3 DEF Publishers, LaneOf
      <4>. QED
        BY <1>0, <2>2, <4>1, <4>2, OpenKept, RoomKept
    <3>. QED
      BY <3>2, <3>3
  <2>. QED
    BY <1>2, <2>4, <2>5 DEF TaskGoes
<1>3. ASSUME NEW w \in Worker, NEW n \in Message, Begins(w, n)
      PROVE  /\ published' = published
             /\ Publishers(m, p)' \subseteq Publishers(m, p) \cup (IF n = m THEN {w} ELSE {})
  <2>. DEFINE l == LaneOf(n)
  <2>1. /\ published' = published
        /\ handling' = [handling EXCEPT ![w][l] = n]
        /\ l \in Lane
    BY <1>3 DEF Begins, Start, outVars, LaneOf, Lane
  <2>2. /\ handling'[w][l] = n
        /\ \A v \in Worker, k \in Lane : <<v, k>> # <<w, l>> => handling'[v][k] = handling[v][k]
    BY <1>0, <2>1 DEF LaneType
  <2>3. \A v \in Worker, k \in Lane : <<v, k>> # <<w, l>> => (MayPublish(v, k, p)' <=> MayPublish(v, k, p))
    <3>1. CASE n \in Item
      <4>1. /\ l = "item"
            /\ feed' = feed
            /\ \A v \in Worker, k \in Lane : <<v, k>> # <<w, l>> => task'[v][k] = task[v][k]
        BY <1>0, <1>3, <3>1, FetcherAssumption
        DEF Begins, Start, LaneOf, LaneType, Lane, FetcherAssumption
      <4>. QED
        BY <4>1 DEF MayPublish
    <3>2. CASE n \in Command
      <4>1. /\ l = "feed"
            /\ task' = task
            /\ \A v \in Worker : v # w => feed'[v] = feed[v]
        BY <1>0, <1>3, <3>2, FetcherAssumption
        DEF Begins, Start, LaneOf, LaneType, Lane, FetcherAssumption
      <4>. QED
        BY <4>1 DEF MayPublish, Lane
    <3>. QED
      BY <3>1, <3>2 DEF Message
  <2>. HIDE DEF l
  <2>4. CASE n = m
    BY <1>0, <2>1, <2>2, <2>3, <2>4 DEF Publishers, LaneOf
  <2>5. CASE n # m
    BY <1>0, <2>1, <2>2, <2>3, <2>5 DEF Publishers, LaneOf
  <2>. QED
    BY <2>4, <2>5
<1>4. ASSUME NEW w \in Worker, NEW n \in Message, Deliver(w, n)
      PROVE  Room(m, p)'
  <2>1. Begins(w, n) /\ buffer' = buffer /\ delivered' = [delivered EXCEPT ![n] = @ + 1]
    BY <1>4, DeliverBegins DEF Bus!Deliver
  <2>2. CASE n = m
    <3>1. delivered'[m] = delivered[m] + 1
      BY <1>0, <2>1, <2>2 DEF Bus!TypeOK
    <3>2. Open(m, p)' \subseteq Open(m, p) \cup {<<w, m, 0>>}
      BY <1>3, <2>1, <2>2 DEF Open, Handled
    <3>. QED
      BY <1>0, <1>3, <2>1, <3>1, <3>2, RoomMade
  <2>3. CASE n # m
    <3>1. delivered'[m] = delivered[m]
      BY <1>0, <2>1, <2>3 DEF Bus!TypeOK
    <3>2. Open(m, p)' \subseteq Open(m, p)
      BY <1>3, <2>1, <2>3, OpenKept
    <3>. QED
      BY <1>0, <1>3, <2>1, <3>1, <3>2, RoomKept
  <2>. QED
    BY <2>2, <2>3
<1>5. ASSUME NEW w \in Worker, NEW n \in Message, Buffer(w, n)
       PROVE  Room(m, p)'
  <2>1. /\ delivered' = [delivered EXCEPT ![n] = @ + 1]
        /\ buffer' = buffer \cup {<<w, n, delivered'[n]>>}
        /\ UNCHANGED <<handling, feed, task, published>>
    BY <1>5 DEF Buffer, Bus!Deliver, outVars
  <2>2. Publishers(m, p)' = Publishers(m, p)
    BY <2>1 DEF Publishers, MayPublish
  <2>3. CASE n = m
    <3>1. delivered'[m] = delivered[m] + 1
      BY <1>0, <2>1, <2>3 DEF Bus!TypeOK
    <3>2. Open(m, p)' \subseteq Open(m, p) \cup {<<w, m, delivered'[m]>>}
      BY <2>1, <2>2, <2>3 DEF Open, Handled
    <3>. QED
      BY <1>0, <2>1, <3>1, <3>2, RoomMade
  <2>4. CASE n # m
    <3>1. delivered'[m] = delivered[m]
      BY <1>0, <2>1, <2>4 DEF Bus!TypeOK
    <3>2. Open(m, p)' \subseteq Open(m, p)
      BY <2>1, <2>2, <2>4 DEF Open, Handled
    <3>. QED
      BY <1>0, <2>1, <3>1, <3>2, RoomKept
  <2>. QED
    BY <2>3, <2>4
<1>6. ASSUME NEW d \in buffer, Take(d)
       PROVE  Room(m, p)'
  <2>1. PICK w \in Worker, n \in Message, k \in 1 .. MaxDeliver :
            d = <<w, n, k>> /\ Begins(w, n) /\ buffer' = buffer \ {d} /\ UNCHANGED busVars
    BY <1>0, <1>6, TakeBegins
  <2>2. published' = published /\ delivered' = delivered
    BY <1>3, <2>1 DEF busVars
  <2>3. CASE n = m
    <3>1. d \in Open(m, p) /\ d \notin Handled(m, p)
      BY <2>1, <2>3, BoundsAssumption DEF Open, Handled, BoundsAssumption
    <3>2. Publishers(m, p)' \subseteq Publishers(m, p) \cup {w}
      BY <1>3, <2>1, <2>3
    <3>3. Open(m, p)' \subseteq (Open(m, p) \ {d}) \cup {<<w, m, 0>>}
      BY <2>1, <3>1, <3>2 DEF Open, Handled
    <3>. QED
      BY <1>0, <2>2, <3>1, <3>3, RoomMoved
  <2>4. CASE n # m
    <3>1. Open(m, p)' \subseteq Open(m, p)
      BY <1>3, <2>1, <2>4, OpenKept
    <3>. QED
      BY <1>0, <2>2, <3>1, RoomKept
  <2>. QED
    BY <2>3, <2>4
<1>7. ASSUME NEW w \in Worker, NEW l \in Lane, HandlerEnds(w, l)
      PROVE  Room(m, p)'
  <2>1. /\ handling' = [handling EXCEPT ![w][l] = None]
        /\ feed' = [feed EXCEPT ![w] = IF l = "feed" THEN "none" ELSE @]
        /\ task' = [task EXCEPT ![w][l] = NoTask]
        /\ UNCHANGED <<buffer, published, delivered>>
    BY <1>7 DEF HandlerEnds, Free, outVars, Bus!Ack, Bus!Nak, Bus!Term
  <2>2. /\ handling'[w][l] = None
        /\ \A v \in Worker, k \in Lane : <<v, k>> # <<w, l>> =>
            UNCHANGED <<handling[v][k], task[v][k]>> /\ (k = "feed" => feed'[v] = feed[v])
    BY <1>0, <2>1 DEF LaneType, Lane
  <2>3. ASSUME NEW v \in Worker, NEW k \in Lane, handling'[v][k] = m, MayPublish(v, k, p)'
        PROVE  handling[v][k] = m /\ MayPublish(v, k, p)
    BY <1>0, <2>2, <2>3 DEF MayPublish
  <2>. QED
    BY <1>1, <2>1, <2>3
<1>8. ASSUME NEW w \in Worker, FetchFeed(w) \/ FetchFeedFails(w)
      PROVE  Room(m, p)'
  <2>1. /\ UNCHANGED <<busVars, buffer, handling, task, published>>
        /\ feed[w] = "request"
        /\ \A v \in Worker : v # w => feed'[v] = feed[v]
    BY <1>0, <1>8 DEF FetchFeed, FetchFeedFails, outVars, LaneType
  <2>2. ASSUME NEW v \in Worker, NEW k \in Lane, handling'[v][k] = m, MayPublish(v, k, p)'
        PROVE  handling[v][k] = m /\ MayPublish(v, k, p)
    BY <2>1, <2>2 DEF MayPublish
  <2>. QED
    BY <1>1, <2>1, <2>2 DEF busVars
<1>9. ASSUME NEW w \in Worker, StartTasks(w)
      PROVE  Room(m, p)'
  <2>1. /\ UNCHANGED <<busVars, buffer, handling, published>>
        /\ feed[w] = "parse"
        /\ \A v \in Worker : v # w => feed'[v] = feed[v]
        /\ \A v \in Worker, k \in Lane : <<v, k>> # <<w, "feed">> => task'[v][k] = task[v][k]
        /\ feed'[w] = "started"
    BY <1>0, <1>9 DEF StartTasks, outVars, LaneType, Lane
  <2>2. ASSUME NEW v \in Worker, NEW k \in Lane, handling'[v][k] = m, MayPublish(v, k, p)'
        PROVE  handling[v][k] = m /\ MayPublish(v, k, p)
    BY <2>1, <2>2 DEF MayPublish
  <2>. QED
    BY <1>1, <2>1, <2>2 DEF busVars
<1>10. ASSUME NEW w \in Worker, Crash(w)
      PROVE  Room(m, p)'
  <2>1. /\ UNCHANGED <<busVars, published>> /\ buffer' \subseteq buffer
        /\ \A k \in Lane : handling'[w][k] = None
        /\ \A v \in Worker : v # w => UNCHANGED <<handling[v], task[v], feed[v]>>
    BY <1>0, <1>10 DEF Crash, outVars, LaneType
  <2>2. ASSUME NEW v \in Worker, NEW k \in Lane, handling'[v][k] = m, MayPublish(v, k, p)'
        PROVE  handling[v][k] = m /\ MayPublish(v, k, p)
    BY <1>0, <2>1, <2>2 DEF MayPublish
  <2>. QED
    BY <1>1, <2>1, <2>2 DEF busVars
<1>11. ASSUME \/ \E n \in Message : Arrive(n) \/ AckWait(n) \/ SlowHandler(n)
             \/ UNCHANGED vars
      PROVE  Room(m, p)'
  <2>1. UNCHANGED <<buffer, handling, feed, task, published, delivered>>
    BY <1>11 DEF Arrive, AckWait, SlowHandler, Bus!Publish, Bus!AckWait, laneVars, outVars, vars,
                busVars
  <2>. QED
    BY <1>1, <2>1 DEF MayPublish
<1>. QED
  <2>1. ASSUME NEW w \in Worker, NEW l \in Lane, Handle(w, l) PROVE Room(m, p)'
    BY <1>7, <1>8, <1>9, <2>1, HandlerStep DEF Handle
  <2>2. ASSUME NEW w \in Worker, ParseFails(w) PROVE Room(m, p)'
    BY <1>7, <2>2, HandlerStep DEF Lane
  <2>3. ASSUME NEW w \in Worker, NEW l \in Lane, NEW q \in Page, Work(w, l, q) \/ Fail(w, l, q)
        PROVE  Room(m, p)'
    BY <1>2, <2>3, TaskStep
  <2>. QED
    BY <1>4, <1>5, <1>6, <1>8, <1>10, <1>11, <2>1, <2>2, <2>3 DEF Next, Done

\* A request has no page published more often than it was delivered, however many of
\* its handlers run side by side or one after the other, crash or are late.
THEOREM PublishedPerDelivery ==
    Spec => []OncePerDelivery
<1>1. Init => OnceInv
  <2>. SUFFICES ASSUME Init, NEW m \in Message, NEW p \in Page PROVE Room(m, p)
    BY DEF OnceInv
  <2>1. LaneOf(m) \in Lane /\ m # None
    BY FetcherAssumption DEF LaneOf, Lane, FetcherAssumption
  <2>2. Open(m, p) = {}
    BY <2>1 DEF Init, Publishers, Open, Handled
  <2>. QED
    BY <2>2, FS_EmptySet DEF Room, Fits, Init, Bus!Init
<1>2. TInv /\ OnceInv => OncePerDelivery
  <2>. SUFFICES ASSUME TInv, OnceInv, NEW m \in Message, NEW p \in Page
                PROVE  published[m][p] <= delivered[m]
    BY DEF OncePerDelivery
  <2>1. /\ Cardinality(Open(m, p)) \in Nat
        /\ Cardinality(Open(m, p)) + published[m][p] <= delivered[m]
    BY FS_CardinalityType DEF OnceInv, Room, Fits
  <2>2. published[m][p] \in Nat /\ delivered[m] \in Nat
    BY BoundsAssumption DEF TInv, TypeOK, Bus!TypeOK, BoundsAssumption
  <2>. QED
    BY <2>1, <2>2
<1>. QED
    BY <1>1, <1>2, OnceStep, TInvInit, TInvStep, PTL DEF Spec
=============================================================================
