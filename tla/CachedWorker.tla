---------------------------- MODULE CachedWorker ----------------------------
(***************************************************************************)
(* A worker whose handler calls Redis through the process's one            *)
(* RedisCircuitBreaker.  A call is refused, without asking Redis, while    *)
(* the last failure is younger than backoff_seconds; the handler then      *)
(* raises, and the message is back in the queue at once.  The worker       *)
(* handles one message after the other.                                    *)
(***************************************************************************)
EXTENDS Naturals

CONSTANTS
    Message,
    Calls,          \* calls of a handler to Redis
    MaxFailures,    \* max_failures of the breaker (3 in the code)
    MaxDeliver,     \* max_deliver (5 in the code)
    MaxOutages,     \* how often Redis goes away
    None

ASSUME WorkerAssumption ==
    /\ {Calls, MaxFailures, MaxDeliver} \subseteq Nat \ {0}
    /\ MaxOutages \in Nat
    /\ None \notin Message

VARIABLES
    mstate, delivered,  \* the messages, see JetStreamConsumer
    current,    \* the message that is handled, or None
    calls,      \* calls its handler has made
    failures,   \* failures in a row; more than MaxFailures make no difference
    recent,     \* the last failure is younger than backoff_seconds
    redis,      \* "up" or "down"
    outages     \* outages so far

breaker == <<failures, recent>>
vars == <<mstate, delivered, current, calls, breaker, redis, outages>>

Bus == INSTANCE JetStreamConsumer WITH Msg <- Message

Init ==
    /\ Bus!Init
    /\ current = None /\ calls = 0
    /\ failures = 0 /\ recent = FALSE
    /\ redis = "up" /\ outages = 0

-----------------------------------------------------------------------------
\* Variant: once open, the breaker never lets a call pass.
OpenForGood == failures >= MaxFailures

\* The breaker refuses calls.  When the back-off is over it lets every call
\* pass, with the count of failures as it was.
Open == failures >= MaxFailures /\ recent

Publish(m) ==
    /\ Bus!Publish(m)
    /\ UNCHANGED <<current, calls, breaker, redis, outages>>

Deliver(m) ==
    /\ current = None
    /\ Bus!Deliver(m)
    /\ current' = m /\ calls' = 0
    /\ UNCHANGED <<breaker, redis, outages>>

\* The handler raises RetryableError.
Raise ==
    /\ Bus!Nak(current)
    /\ current' = None
    /\ UNCHANGED <<calls, redis, outages>>

Calling == current # None /\ calls < Calls

Refused ==
    /\ Calling /\ Open
    /\ Raise
    /\ UNCHANGED breaker

CallSucceeds ==
    /\ Calling /\ ~ Open
    /\ redis = "up"
    /\ calls' = calls + 1
    /\ failures' = 0
    /\ UNCHANGED <<mstate, delivered, current, recent, redis, outages>>

CallFails ==
    /\ Calling /\ ~ Open
    /\ redis = "down"
    /\ failures' = IF failures > MaxFailures THEN failures ELSE failures + 1
    /\ recent' = TRUE
    /\ Raise

Return ==
    /\ current # None /\ calls = Calls
    /\ Bus!Ack(current)
    /\ current' = None
    /\ UNCHANGED <<calls, breaker, redis, outages>>

\* backoff_seconds have passed since the last failure.
BackoffEnds ==
    /\ recent
    /\ recent' = FALSE
    /\ UNCHANGED <<mstate, delivered, current, calls, failures, redis, outages>>

GoDown ==
    /\ redis = "up" /\ outages < MaxOutages
    /\ redis' = "down" /\ outages' = outages + 1
    /\ UNCHANGED <<mstate, delivered, current, calls, breaker>>

ComeUp ==
    /\ redis = "down"
    /\ redis' = "up"
    /\ UNCHANGED <<mstate, delivered, current, calls, breaker, outages>>

Handle == Refused \/ CallSucceeds \/ CallFails \/ Return

Next ==
    \/ \E m \in Message : Publish(m) \/ Deliver(m)
    \/ Handle
    \/ BackoffEnds
    \/ GoDown
    \/ ComeUp

Spec == Init /\ [][Next]_vars

\* The server delivers what is queued, the handler goes on, time passes.  Redis
\* need not come back.
FairSpec ==
    /\ Spec
    /\ \A m \in Message : SF_vars(Deliver(m))
    /\ WF_vars(Handle)
    /\ WF_vars(BackoffEnds)

-----------------------------------------------------------------------------
(* Properties *)

\* Redis is up for good and the last failure is further back than the back-off.
Calm == redis = "up" /\ outages = MaxOutages /\ ~ recent

\* An open breaker does not stay open: what comes in after the back-off is
\* handled, however many failures there were, and nothing is given up any more.
CalmAfterOutage ==
    \A m \in Message :
        Calm /\ mstate[m] = "queued" /\ delivered[m] = 0 ~> mstate[m] = "acked"
=============================================================================
