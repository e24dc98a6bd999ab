-------------------------- MODULE JetStreamConsumer --------------------------
(***************************************************************************)
(* The life of the messages of one durable JetStream consumer, as          *)
(* NatsEventBus.subscribe configures it (explicit acks, ack_wait,          *)
(* max_deliver) and as NatsEventBus._message_handler answers it: a handler *)
(* that returns is ACKed, a RetryableError or an unforeseen exception is   *)
(* NAKed, a PermanentError is TERMed.  The server is not part of the       *)
(* repository; it is modelled from those calls.                            *)
(*                                                                         *)
(* A worker engine instantiates this module for the subject it subscribes  *)
(* to and takes these actions as conjuncts of its own.                     *)
(***************************************************************************)
EXTENDS Naturals

CONSTANTS
    Msg,         \* the messages of the subject
    MaxDeliver   \* max_deliver: deliveries the server attempts for a message

VARIABLES
    mstate,      \* where each message is in its life
    delivered    \* how often the server has handed it out

busVars == <<mstate, delivered>>

MsgState == {"unsent", "queued", "inflight", "acked", "termed", "dropped"}

\* No delivery of a settled message will ever be attempted again.
Settled(m) == mstate[m] \in {"acked", "termed", "dropped"}

TypeOK ==
    /\ mstate \in [Msg -> MsgState]
    /\ delivered \in [Msg -> 0 .. MaxDeliver]

Init ==
    /\ mstate = [m \in Msg |-> "unsent"]
    /\ delivered = [m \in Msg |-> 0]

\* js.publish stores the message in the stream.
Publish(m) ==
    /\ mstate[m] = "unsent"
    /\ mstate' = [mstate EXCEPT ![m] = "queued"]
    /\ UNCHANGED delivered

\* The server hands the message to one subscriber of the queue group.
Deliver(m) ==
    /\ mstate[m] = "queued"
    /\ mstate' = [mstate EXCEPT ![m] = "inflight"]
    /\ delivered' = [delivered EXCEPT ![m] = @ + 1]

\* The handler returned.  The ack of an earlier delivery counts as well.
Ack(m) ==
    /\ mstate' = [mstate EXCEPT ![m] = IF Settled(m) THEN @ ELSE "acked"]
    /\ UNCHANGED delivered

\* The handler raised PermanentError.
Term(m) ==
    /\ mstate' = [mstate EXCEPT ![m] = IF Settled(m) THEN @ ELSE "termed"]
    /\ UNCHANGED delivered

\* Variant: the budget is off by one.
RequeuedOnceMore(m) == IF delivered[m] <= MaxDeliver THEN "queued" ELSE "dropped"

\* What becomes of a delivery that failed: back into the queue at once while
\* the budget lasts, then nothing.
Requeued(m) == IF delivered[m] < MaxDeliver THEN "queued" ELSE "dropped"

\* The handler raised: msg.nak() with no delay.
Nak(m) ==
    /\ mstate' = [mstate EXCEPT ![m] = IF @ = "inflight" THEN Requeued(m) ELSE @]
    /\ UNCHANGED delivered

\* ack_wait went by without an answer to the last delivery.
AckWait(m) ==
    /\ mstate[m] = "inflight"
    /\ mstate' = [mstate EXCEPT ![m] = Requeued(m)]
    /\ UNCHANGED delivered
=============================================================================
