-------------------------- MODULE RetryDeadLetter --------------------------
(***************************************************************************)
(* WithRetry and DeadLetterHandler of pkg/consumer/consumer.go, put        *)
(* together the way docs/USER_GUIDE.md ("Combining Retry + Dead Letter")   *)
(* and challenges/runner/main.go do: a subscription whose handler is       *)
(*     err := WithRetry(handler, policy)(ctx, msg)                         *)
(*     if err != nil { return dlh.Handle(ctx, msg, err) }                  *)
(* fed by a SyncProducer through the InMemoryBroker.  The broker runs one  *)
(* goroutine per message with the context of the Send that published it,   *)
(* and drops the error its handler returns.  A backoff of any length ends  *)
(* at some time, or earlier if the context is done.                        *)
(*                                                                         *)
(* An error is the sequence of its links, the outermost first: codes of    *)
(* BrokerErrors, and PlainError for a link of any other type.              *)
(***************************************************************************)
EXTENDS SyncProducer, Integers

CONSTANTS
    Policy,      \* the policies WithRetry may be called with, beside nil
    Error,       \* the errors the handler may return
    MayExpire,   \* whether the context of a Send may end before Send returns
    PlainError,  \* a link of an error that is no BrokerError
    CtxError,    \* ctx.Err()
    NoError      \* nil

ASSUME RetryAssumption ==
    /\ \A p \in Policy : /\ p.maxRetries \in Int
                          /\ {p.base, p.max, p.mult} \subseteq Nat
    /\ None \notin Policy
    /\ MayExpire \in BOOLEAN
    /\ {CtxError, NoError} \cap Error = {}
    /\ CtxError # NoError

VARIABLES
    policy,     \* policy
    phase,      \* where the goroutine that handles a message is
    attempt,    \* the loop variable of WithRetry
    lastErr,    \* the error WithRetry is about to retry or to return
    onFailure,  \* dlh.onFailure is set
    count,      \* dlh.count
    calls,      \* history: calls of the handler
    waits,      \* history: the durations of the backoffs begun
    dead,       \* history: messages published to the DLQ topic
    lost,       \* history: messages whose Handle failed
    notified    \* history: messages onFailure was called with

loop == <<phase, attempt, lastErr>>
dlh  == <<onFailure, count>>
past == <<calls, waits>>
ends == <<dead, lost, notified>>
vars == <<syncVars, policy, loop, dlh, past, ends>>

Phase == {"none", "handler", "backoff", "dlqPublish", "dlqCount", "dlqNotify",
          "done"}

DefaultRetryPolicy == [maxRetries |-> 3, base |-> 100, max |-> 30000, mult |-> 2]

Init ==
    /\ SyncInit
    /\ \E p \in Policy \cup {None} : policy = IF p = None THEN DefaultRetryPolicy ELSE p
    /\ phase = [m \in Msg |-> "none"]
    /\ attempt = [m \in Msg |-> 0]
    /\ lastErr = [m \in Msg |-> NoError]
    /\ onFailure = FALSE
    /\ count = 0
    /\ calls = [m \in Msg |-> 0]
    /\ waits = [m \in Msg |-> <<>>]
    /\ dead = {}
    /\ lost = {}
    /\ notified = {}

-----------------------------------------------------------------------------
(* pkg/broker/errors.go: NewBrokerError sets Retryable from the code.      *)

isRetryable(code) ==
    code \in {"CONNECTION_FAILED", "CONNECTION_TIMEOUT", "PUBLISH_TIMEOUT",
              "BROKER_UNAVAILABLE"}

ASSUME ErrorAssumption ==
    /\ \A err \in Error : Len(err) \in Nat /\ DOMAIN err = 1..Len(err)
    /\ ~isRetryable(PlainError)

\* errors.As finds the outermost BrokerError of the chain.
IsRetryableError(err) ==
    LET codes == {i \in DOMAIN err : err[i] # PlainError}
        outer == CHOOSE i \in codes : \A j \in codes : i <= j
    IN  codes # {} /\ isRetryable(err[outer])

-----------------------------------------------------------------------------
(* RetryPolicy.                                                            *)

ShouldRetry(n) == n < policy.maxRetries

\* math.Pow.
Pow(x, n) ==
    LET p[k \in Nat] == IF k = 0 THEN 1 ELSE x * p[k - 1] IN p[n]

\* The cap is for n > 0 only.
Delay(n) ==
    LET delay == policy.base * Pow(policy.mult, n)
    IN  IF n <= 0 THEN policy.base
        ELSE IF delay > policy.max THEN policy.max ELSE delay

-----------------------------------------------------------------------------
(* WithRetry.                                                              *)

\* Publish starts the goroutine while the subscription is there: Close drops
\* it, and a later Connect does not bring it back.  A negative MaxRetries ends
\* the loop before the first call of the handler, without an error.
Deliver(m) ==
    /\ SendPublish(m)
    /\ phase' = IF stopped THEN phase
                ELSE [phase EXCEPT ![m] =
                          IF policy.maxRetries < 0 THEN "done" ELSE "handler"]
    /\ UNCHANGED <<policy, attempt, lastErr, dlh, past, ends>>

HandlerSucceeds(m) ==
    /\ phase[m] = "handler"
    /\ calls' = [calls EXCEPT ![m] = @ + 1]
    /\ phase' = [phase EXCEPT ![m] = "done"]
    /\ lastErr' = [lastErr EXCEPT ![m] = NoError]
    /\ UNCHANGED <<syncVars, policy, attempt, dlh, waits, ends>>

\* Mutant: an error that is not retryable is never retried.
GivesUpAtOnce(m, err) == ~IsRetryableError(err) \/ attempt[m] = policy.maxRetries

\* Mutant: an attempt too many.
GivesUpLate(m, err) == attempt[m] > policy.maxRetries

\* Is the error of the current attempt returned?  The early return, or the end
\* of the loop.
GivesUp(m, err) ==
    \/ ~IsRetryableError(err) /\ ~ShouldRetry(attempt[m] + 1)
    \/ attempt[m] = policy.maxRetries

\* Mutant: the backoff starts one step too long.
BackoffNext(m) == Delay(attempt[m] + 1)

\* The backoff before the attempt that follows: Delay(attempt - 1).
Backoff(m) == Delay(attempt[m])

HandlerFails(m, err) ==
    /\ phase[m] = "handler"
    /\ calls' = [calls EXCEPT ![m] = @ + 1]
    /\ lastErr' = [lastErr EXCEPT ![m] = err]
    /\ IF GivesUp(m, err)
         THEN /\ phase' = [phase EXCEPT ![m] = "dlqPublish"]
              /\ UNCHANGED <<attempt, waits>>
         ELSE /\ phase' = [phase EXCEPT ![m] = "backoff"]
              /\ attempt' = [attempt EXCEPT ![m] = @ + 1]
              /\ waits' = [waits EXCEPT ![m] = Append(@, Backoff(m))]
    /\ UNCHANGED <<syncVars, policy, dlh, ends>>

\* The select of the backoff: with both channels ready either case is taken.
BackoffElapsed(m) ==
    /\ phase[m] = "backoff"
    /\ phase' = [phase EXCEPT ![m] = "handler"]
    /\ UNCHANGED <<syncVars, policy, attempt, lastErr, dlh, past, ends>>

\* Mutant: a cancelled backoff returns nil.
BackoffCancelledNil(m) ==
    /\ phase[m] = "backoff"
    /\ m \in ctxDone
    /\ phase' = [phase EXCEPT ![m] = "done"]
    /\ lastErr' = [lastErr EXCEPT ![m] = CtxError]
    /\ UNCHANGED <<syncVars, policy, attempt, dlh, past, ends>>

BackoffCancelled(m) ==
    /\ phase[m] = "backoff"
    /\ m \in ctxDone
    /\ phase' = [phase EXCEPT ![m] = "dlqPublish"]
    /\ lastErr' = [lastErr EXCEPT ![m] = CtxError]
    /\ UNCHANGED <<syncVars, policy, attempt, dlh, past, ends>>

-----------------------------------------------------------------------------
(* DeadLetterHandler.                                                      *)

\* A callback, or nil.
SetOnFailure ==
    /\ onFailure' \in BOOLEAN
    /\ UNCHANGED <<syncVars, policy, loop, count, past, ends>>

HandlePublish(m) ==
    /\ phase[m] = "dlqPublish"
    /\ up
    /\ dead' = dead \cup {m}
    /\ phase' = [phase EXCEPT ![m] = "dlqCount"]
    /\ UNCHANGED <<syncVars, policy, attempt, lastErr, dlh, past, lost, notified>>

\* Mutant: Handle tries again until the broker takes the message.
HandlePublishFailsAgain(m) ==
    /\ phase[m] = "dlqPublish"
    /\ ~up
    /\ UNCHANGED vars

\* The broker is not connected: Handle returns an error that nobody looks at.
HandlePublishFails(m) ==
    /\ phase[m] = "dlqPublish"
    /\ ~up
    /\ lost' = lost \cup {m}
    /\ phase' = [phase EXCEPT ![m] = "done"]
    /\ UNCHANGED <<syncVars, policy, attempt, lastErr, dlh, past, dead, notified>>

\* Mutant: a plain read and write of the counter loses an update.
HandleCountRacy(m) ==
    /\ phase[m] = "dlqCount"
    /\ count' = IF \E d \in Msg \ {m} : phase[d] = "dlqCount" THEN count ELSE count + 1
    /\ phase' = [phase EXCEPT ![m] = "dlqNotify"]
    /\ UNCHANGED <<syncVars, policy, attempt, lastErr, onFailure, past, ends>>

HandleCount(m) ==
    /\ phase[m] = "dlqCount"
    /\ count' = count + 1
    /\ phase' = [phase EXCEPT ![m] = "dlqNotify"]
    /\ UNCHANGED <<syncVars, policy, attempt, lastErr, onFailure, past, ends>>

\* The callback is read under dlh.mu and called after the unlock.
HandleNotify(m) ==
    /\ phase[m] = "dlqNotify"
    /\ notified' = IF onFailure THEN notified \cup {m} ELSE notified
    /\ phase' = [phase EXCEPT ![m] = "done"]
    /\ UNCHANGED <<syncVars, policy, attempt, lastErr, dlh, past, dead, lost>>

-----------------------------------------------------------------------------
ProducerStep ==
    /\ \/ SyncStep
       \/ MayExpire /\ \E m \in Msg : SendContextDone(m)
    /\ UNCHANGED <<policy, loop, dlh, past, ends>>

Delivery(m) ==
    \/ HandlerSucceeds(m)
    \/ \E err \in Error : HandlerFails(m, err)
    \/ BackoffElapsed(m)
    \/ BackoffCancelled(m)
    \/ HandlePublish(m)
    \/ HandlePublishFails(m)
    \/ HandleCount(m)
    \/ HandleNotify(m)

Next ==
    \/ ProducerStep
    \/ \E m \in Msg : Deliver(m)
    \/ \E m \in Msg : Delivery(m)
    \/ SetOnFailure

Spec == Init /\ [][Next]_vars

\* A handler returns, a timer fires, the goroutine of a message is scheduled.
FairSpec == Spec /\ \A m \in Msg : WF_vars(Delivery(m))

-----------------------------------------------------------------------------
(* Properties.                                                             *)

\* The type invariant.
TypeOK ==
    /\ SyncTypeOK
    /\ phase \in [Msg -> Phase]
    /\ policy \in Policy \cup {DefaultRetryPolicy}
    /\ attempt \in [Msg -> {0} \cup 0..policy.maxRetries]
    /\ lastErr \in [Msg -> Error \cup {CtxError, NoError}]
    /\ onFailure \in BOOLEAN
    /\ count \in Nat
    /\ calls \in [Msg -> Nat]
    /\ waits \in [Msg -> Seq(Nat)]
    /\ dead \subseteq Msg
    /\ lost \subseteq Msg
    /\ notified \subseteq Msg

GaveUp(m) == phase[m] \in {"dlqPublish", "dlqCount", "dlqNotify"} \/ m \in dead \cup lost

\* The link that decides is the first of the chain that is a BrokerError.
Transient(err) ==
    \E i \in DOMAIN err : isRetryable(err[i]) /\ \A j \in 1..(i - 1) : err[j] = PlainError

\* WithRetry gives up after MaxRetries + 1 calls of the handler if the last
\* error is retryable, a call earlier if it is not, at once when a backoff is
\* cancelled, and never in any other way; an error that wraps another one
\* counts for what its outermost BrokerError says.
RetryBudget ==
    \A m \in Msg :
        /\ calls[m] > 0 => calls[m] <= policy.maxRetries + 1
        /\ GaveUp(m) =>
             \/ lastErr[m] = CtxError /\ m \in ctxDone /\ calls[m] \in 1..policy.maxRetries
             \/ /\ lastErr[m] \in Error
                /\ calls[m] >= 1
                /\ IF Transient(lastErr[m]) THEN calls[m] = policy.maxRetries + 1
                                            ELSE calls[m] >= policy.maxRetries

\* There is one backoff before each call of the handler but the first.  The first
\* is BackoffBase, where that is within BackoffMax, and every later one is longer
\* than the one before by the multiplier, up to BackoffMax.
BackoffGrows ==
    \A m \in Msg :
        /\ Len(waits[m]) \in {calls[m], calls[m] - 1}
        /\ \A i \in DOMAIN waits[m] :
               LET next == IF i = 1 THEN policy.base ELSE policy.mult * waits[m][i - 1]
               IN  IF next <= policy.max THEN waits[m][i] = next
                                         ELSE i > 1 => waits[m][i] = policy.max

\* A message whose handling has ended was handled without error, is on the DLQ,
\* or was refused by a broker that had been closed: no other way to lose one,
\* but for a policy with a negative MaxRetries, which reports success without a
\* call of the handler.
EndsSomewhere ==
    \A m \in Msg :
        phase[m] = "done" =>
            \/ lastErr[m] = NoError /\ (calls[m] > 0 <=> policy.maxRetries >= 0)
            \/ m \in dead
            \/ m \in lost /\ stopped

\* Count is the number of messages sent to the DLQ, once no Handle stands
\* between its Publish and its count, and onFailure sees only such messages,
\* after they were counted.
CountIsDead ==
    /\ count = Cardinality(dead) - Cardinality({m \in Msg : phase[m] = "dlqCount"})
    /\ notified \subseteq {m \in dead : phase[m] = "done"}

\* The handling of a delivered message comes to an end.
DeliveryEnds ==
    \A m \in Msg : phase[m] = "handler" ~> phase[m] = "done"

-----------------------------------------------------------------------------
(* What the repository says of the retries and the dead letter queue and   *)
(* the code does not do.                                                   *)

\* "DeadLetterHandler handles messages that have exhausted all retries."
\* (consumer.go)
DeadMeansExhausted ==
    \A m \in dead : calls[m] >= policy.maxRetries

\* "Formula: `BackoffBase * BackoffMultiplier^attempt`, capped at `BackoffMax`."
\* (docs/API_REFERENCE.md): no backoff that WithRetry begins is above BackoffMax.
BackoffCapped ==
    \A m \in Msg : \A i \in DOMAIN waits[m] : waits[m][i] <= policy.max
=============================================================================
