------------------------ MODULE RetryDeadLetterProofs ------------------------
(***************************************************************************)
(* Proofs about RetryDeadLetter, for any number of messages, any policies  *)
(* and any errors: the budget of WithRetry, that no message disappears,    *)
(* and that the counters of the producer and of the dead letter handler    *)
(* account for every call.                                                 *)
(***************************************************************************)
EXTENDS RetryDeadLetter, FiniteSetTheorems, WellFoundedInduction, TLAPS

\* TypeOK but for the durations of the backoffs (WaitsInv below).
TypeInv ==
    /\ SyncTypeOK
    /\ phase \in [Msg -> Phase]
    /\ policy \in Policy \cup {DefaultRetryPolicy}
    /\ attempt \in [Msg -> {0} \cup 0..policy.maxRetries]
    /\ lastErr \in [Msg -> Error \cup {CtxError, NoError}]
    /\ onFailure \in BOOLEAN
    /\ count \in Nat
    /\ calls \in [Msg -> Nat]
    /\ dead \subseteq Msg
    /\ lost \subseteq Msg
    /\ notified \subseteq Msg

\* A message that was not published is in no handler.
NotYet(m) ==
    /\ spc[m] \in {"new", "publish", "failed"} => phase[m] = "none" /\ wire[m] = None
    /\ spc[m] \in {"count", "sent"} => wire[m] # None
    /\ phase[m] = "none" => calls[m] = 0 /\ attempt[m] = 0 /\ lastErr[m] = NoError

\* In the loop of WithRetry the attempt is the number of calls made.
InLoop(m) ==
    /\ phase[m] \in {"handler", "backoff"} =>
           0 <= policy.maxRetries /\ attempt[m] <= policy.maxRetries /\ calls[m] = attempt[m]
    /\ phase[m] = "backoff" => 1 <= attempt[m]

\* Where a message stands that Handle has published, or could not publish.
InHandle(m) ==
    /\ phase[m] \in {"dlqCount", "dlqNotify"} => m \in dead
    /\ m \in dead => phase[m] \in {"dlqCount", "dlqNotify", "done"}
    /\ m \in lost => phase[m] = "done"
    /\ m \in notified => m \in dead /\ phase[m] = "done"

StageInv ==
    /\ ~up => stopped
    /\ \A m \in Msg : NotYet(m) /\ InLoop(m) /\ InHandle(m)

\* The calls whose message the broker took, those not yet counted, and those
\* that have returned.
Taken == {m \in Msg : wire[m] # None}
Uncounted == {m \in Msg : spc[m] = "count"}
Returned == {m \in Msg : spc[m] \in {"sent", "failed"}}

\* The Handle calls between their Publish and their count.
Counting == {m \in Msg : phase[m] = "dlqCount"}

FiniteInv ==
    /\ IsFiniteSet(Taken) /\ IsFiniteSet(Uncounted) /\ IsFiniteSet(Returned)
    /\ IsFiniteSet(dead) /\ IsFiniteSet(Counting)

-----------------------------------------------------------------------------
(* What decides about a retry.                                             *)

\* Every non-empty set of natural numbers has a least element.
LEMMA LeastNatural ==
    ASSUME NEW S \in SUBSET Nat, S # {}
    PROVE  \E x \in S : \A y \in S : x <= y
<1> DEFINE R == OpToRel(<, Nat)
<1>1. IsWellFoundedOn(R, Nat)
  BY NatLessThanWellFounded
<1>2. \A x, y \in Nat : <<y, x>> \in R <=> y < x
  BY DEF OpToRel
<1> HIDE DEF R
<1>3. PICK x \in S : \A y \in S : ~(<<y, x>> \in R)
  BY <1>1, WFMin
<1>4. \A y \in S : ~(y < x)
  BY <1>2, <1>3, Zenon
<1>5. \A y \in S : x <= y
  BY <1>4
<1> QED
  BY <1>5

\* The walk of errors.As along the chain and the link that decides agree: an
\* error is retryable if a retryable code comes before every other code.
LEMMA RetryableIsTransient ==
    ASSUME NEW err \in Error
    PROVE  IsRetryableError(err) <=> Transient(err)
<1>1. Len(err) \in Nat /\ DOMAIN err = 1..Len(err)
  BY ErrorAssumption
<1> DEFINE codes == {i \in DOMAIN err : err[i] # PlainError}
           outer == CHOOSE i \in codes : \A j \in codes : i <= j
<1>2. codes \subseteq Nat \ {0} /\ codes \in SUBSET Nat
  BY <1>1
<1>3. codes # {} => outer \in codes /\ \A j \in codes : outer <= j
  BY <1>2, LeastNatural
<1>4. IsRetryableError(err) <=> codes # {} /\ isRetryable(err[outer])
  BY DEF IsRetryableError
<1> HIDE DEF outer
<1>5. ASSUME IsRetryableError(err) PROVE Transient(err)
  <2>1. outer \in codes /\ isRetryable(err[outer]) /\ \A j \in codes : outer <= j
    BY <1>3, <1>4, <1>5
  <2>2. ASSUME NEW j \in 1..(outer - 1) PROVE err[j] = PlainError
    <3>1. j \in DOMAIN err /\ ~(outer <= j)
      BY <1>1, <1>2, <2>1
    <3> QED
      BY <2>1, <3>1
  <2> QED
    BY <2>1, <2>2 DEF Transient
<1>6. ASSUME Transient(err) PROVE IsRetryableError(err)
  <2>1. PICK i \in DOMAIN err : /\ isRetryable(err[i])
                                /\ \A j \in 1..(i - 1) : err[j] = PlainError
    BY <1>6 DEF Transient
  <2>2. i \in codes
    BY <2>1, ErrorAssumption
  <2>3. outer \in codes /\ outer <= i
    BY <1>3, <2>2
  <2>4. outer = i
    <3>1. outer \notin 1..(i - 1)
      BY <2>1, <2>3
    <3> QED
      BY <1>1, <1>2, <2>3, <3>1
  <2> QED
    BY <1>4, <2>1, <2>2, <2>4
<1> QED
  BY <1>5, <1>6

-----------------------------------------------------------------------------
(* Types.                                                                  *)

\* What the producer and the broker do in a step.
LEMMA ProducerSteps ==
    ASSUME [Next]_vars
    PROVE  \/ SyncStep
           \/ \E m \in Msg : SendContextDone(m)
           \/ \E m \in Msg : SendPublish(m)
           \/ UNCHANGED syncVars
<1>1. ASSUME NEW m \in Msg, Delivery(m) PROVE UNCHANGED syncVars
  BY <1>1 DEF Delivery, HandlerSucceeds, HandlerFails, BackoffElapsed, BackoffCancelled,
              HandlePublish, HandlePublishFails, HandleCount, HandleNotify
<1>2. CASE SetOnFailure \/ UNCHANGED vars
  BY <1>2 DEF SetOnFailure, vars
<1> QED
  BY <1>1, <1>2 DEF Next, ProducerStep, Deliver

LEMMA SyncInitTyped == SyncInit => SyncTypeOK
<1> SUFFICES ASSUME SyncInit PROVE SyncTypeOK
  OBVIOUS
<1>1. [layers |-> <<>>, encoding |-> None, setBy |-> None] \in Message
  BY DEF Message
<1>2. object \in [Object -> Message]
  BY <1>1 DEF SyncInit
<1>3. spc \in [Msg -> {"new", "publish", "count", "sent", "failed"}]
  BY DEF SyncInit
<1>4. wire \in [Msg -> Message \cup {None}]
  BY DEF SyncInit
<1>5. compressor \in Compressor \cup {None} /\ ctxDone \subseteq Msg
  BY DEF SyncInit
<1>6. up \in BOOLEAN /\ stopped \in BOOLEAN
  BY DEF SyncInit
<1>7. sent \in Nat /\ failed \in Nat
  BY DEF SyncInit
<1> QED
  BY <1>2, <1>3, <1>4, <1>5, <1>6, <1>7, Zenon DEF SyncTypeOK

\* What Send makes of a message is a message.
LEMMA EncodedTyped ==
    ASSUME NEW m \in Msg, NEW msg \in Message, compressor \in Compressor
    PROVE  Encoded(m, msg) \in Message
<1>1. msg.layers \in Seq(Layer) /\ compressor.alg \in Alg
  BY DEF Message, Alg
<1>2. [alg |-> compressor.alg, by |-> m] \in Layer
  BY <1>1 DEF Layer
<1>3. Compress(compressor, msg.layers, m) \in Seq(Layer)
  BY <1>1, <1>2 DEF Compress
<1> QED
  BY <1>1, <1>3 DEF Encoded, Message

LEMMA SyncTyped ==
    ASSUME SyncTypeOK, [Next]_vars
    PROVE  SyncTypeOK'
<1> USE DEF broker, message, counters
<1>1. ASSUME NEW m \in Msg, SendPrepare(m) PROVE SyncTypeOK'
  <2>1. object' \in [Object -> Message]
    <3>1. CASE compressor = None
      BY <1>1, <3>1 DEF SendPrepare, SyncTypeOK
    <3>2. CASE compressor # None
      <4>1. Passed[m] \in Object /\ object[Passed[m]] \in Message
        BY DEF SyncTypeOK, Object
      <4>2. Encoded(m, object[Passed[m]]) \in Message
        BY <3>2, <4>1, EncodedTyped DEF SyncTypeOK
      <4>3. object' = [object EXCEPT ![Passed[m]] = Encoded(m, object[Passed[m]])]
        BY <1>1, <3>2 DEF SendPrepare
      <4> QED
        BY <4>1, <4>2, <4>3 DEF SyncTypeOK
    <3> QED
      BY <3>1, <3>2
  <2> QED
    BY <1>1, <2>1 DEF SendPrepare, SyncTypeOK
<1>2. ASSUME NEW m \in Msg, SendCompressFails(m) \/ SendValueFails(m) PROVE SyncTypeOK'
  BY <1>2 DEF SendCompressFails, SendValueFails, SyncTypeOK
<1>3. ASSUME NEW m \in Msg, SendPublishFails(m) \/ SendReturn(m) PROVE SyncTypeOK'
  BY <1>3 DEF SendPublishFails, SendReturn, SyncTypeOK
<1>4. ASSUME NEW m \in Msg, SendContextDone(m) PROVE SyncTypeOK'
  BY <1>4 DEF SendContextDone, SyncTypeOK
<1>5. ASSUME NEW m \in Msg, SendPublish(m) PROVE SyncTypeOK'
  <2>1. object[Passed[m]] \in Message
    BY DEF SyncTypeOK, Object
  <2>2. wire' \in [Msg -> Message \cup {None}]
    BY <1>5, <2>1 DEF SendPublish, SyncTypeOK
  <2> QED
    BY <1>5, <2>2 DEF SendPublish, SyncTypeOK
<1>6. ASSUME NEW c \in Compressor \cup {None}, SetCompressor(c) PROVE SyncTypeOK'
  BY <1>6 DEF SetCompressor, SyncTypeOK
<1>7. CASE BrokerClose \/ BrokerConnect
  BY <1>7 DEF BrokerClose, BrokerConnect, SyncTypeOK
<1>8. CASE UNCHANGED syncVars
  BY <1>8 DEF syncVars, SyncTypeOK
<1> QED
  BY <1>1, <1>2, <1>3, <1>4, <1>5, <1>6, <1>7, <1>8, ProducerSteps DEF SyncStep

\* MaxRetries is a number, and no step changes the policy.
LEMMA PolicyKept ==
    ASSUME policy \in Policy \cup {DefaultRetryPolicy}
    PROVE  policy.maxRetries \in Int /\ ([Next]_vars => policy' = policy)
<1>1. policy.maxRetries \in Int
  BY RetryAssumption DEF DefaultRetryPolicy
<1>2. ASSUME NEW m \in Msg, Delivery(m) PROVE policy' = policy
  BY <1>2 DEF Delivery, HandlerSucceeds, HandlerFails, BackoffElapsed, BackoffCancelled,
              HandlePublish, HandlePublishFails, HandleCount, HandleNotify
<1>3. [Next]_vars => policy' = policy
  BY <1>2 DEF Next, ProducerStep, Deliver, SetOnFailure, vars
<1> QED
  BY <1>1, <1>3

LEMMA RetryInit == Init => TypeInv /\ StageInv /\ FiniteInv
<1> SUFFICES ASSUME Init PROVE TypeInv /\ StageInv /\ FiniteInv
  OBVIOUS
<1>1. SyncTypeOK
  BY SyncInitTyped DEF Init
<1>2. policy \in Policy \cup {DefaultRetryPolicy}
  BY DEF Init
<1>3. phase \in [Msg -> Phase]
  BY DEF Init, Phase
<1>4. attempt \in [Msg -> {0} \cup 0..policy.maxRetries] /\ calls \in [Msg -> Nat]
  BY DEF Init
<1>5. lastErr \in [Msg -> Error \cup {CtxError, NoError}]
  BY DEF Init
<1>6. onFailure \in BOOLEAN /\ dead \subseteq Msg /\ lost \subseteq Msg /\ notified \subseteq Msg
  BY DEF Init
<1>7. count \in Nat
  BY DEF Init
<1>8. TypeInv
  BY <1>1, <1>2, <1>3, <1>4, <1>5, <1>6, <1>7, Zenon DEF TypeInv
<1>9. StageInv
  BY DEF Init, SyncInit, StageInv, NotYet, InLoop, InHandle
<1>10. Taken = {} /\ Uncounted = {} /\ Returned = {} /\ dead = {} /\ Counting = {}
  BY DEF Init, SyncInit, Taken, Uncounted, Returned, Counting
<1>11. FiniteInv
  BY <1>10, FS_EmptySet DEF FiniteInv
<1> QED
  BY <1>8, <1>9, <1>11

\* An attempt that is not given up stays below MaxRetries.
LEMMA AttemptBound ==
    ASSUME TypeInv, StageInv, NEW m \in Msg, NEW err \in Error, HandlerFails(m, err),
           ~GivesUp(m, err)
    PROVE  attempt[m] + 1 \in 0..policy.maxRetries
<1>1. policy.maxRetries \in Int
  BY PolicyKept DEF TypeInv
<1>2. attempt[m] \in {0} \cup 0..policy.maxRetries
  BY DEF TypeInv
<1>3. 0 <= policy.maxRetries /\ attempt[m] <= policy.maxRetries
  BY DEF StageInv, InLoop, HandlerFails
<1>4. attempt[m] # policy.maxRetries
  BY DEF GivesUp
<1> QED
  BY <1>1, <1>2, <1>3, <1>4

LEMMA RetryTyped ==
    ASSUME TypeInv, StageInv, [Next]_vars
    PROVE  TypeInv'
<1> USE DEF loop, dlh, past, ends
<1>0. SyncTypeOK' /\ policy' = policy
  BY SyncTyped, PolicyKept DEF TypeInv
<1>1. CASE ProducerStep \/ UNCHANGED vars
  BY <1>0, <1>1 DEF ProducerStep, vars, TypeInv
<1>2. ASSUME NEW m \in Msg, Deliver(m) PROVE TypeInv'
  <2>1. phase' \in [Msg -> Phase]
    BY <1>2 DEF Deliver, TypeInv, Phase
  <2> QED
    BY <1>0, <1>2, <2>1 DEF Deliver, TypeInv
<1>3. ASSUME NEW m \in Msg, HandlerSucceeds(m) PROVE TypeInv'
  <2>1. phase' \in [Msg -> Phase] /\ calls' \in [Msg -> Nat]
    BY <1>3 DEF HandlerSucceeds, TypeInv, Phase
  <2>2. lastErr' \in [Msg -> Error \cup {CtxError, NoError}]
    BY <1>3 DEF HandlerSucceeds, TypeInv
  <2> QED
    BY <1>0, <1>3, <2>1, <2>2 DEF HandlerSucceeds, TypeInv
<1>4. ASSUME NEW m \in Msg, NEW err \in Error, HandlerFails(m, err) PROVE TypeInv'
  <2>1. phase' \in [Msg -> Phase] /\ calls' \in [Msg -> Nat]
    <3>1. /\ calls' = [calls EXCEPT ![m] = calls[m] + 1]
          /\ \/ phase' = [phase EXCEPT ![m] = "dlqPublish"]
             \/ phase' = [phase EXCEPT ![m] = "backoff"]
      BY <1>4, Zenon DEF HandlerFails
    <3> QED
      BY <3>1 DEF TypeInv, Phase
  <2>2. lastErr' \in [Msg -> Error \cup {CtxError, NoError}]
    BY <1>4 DEF HandlerFails, TypeInv
  <2>3. attempt' \in [Msg -> {0} \cup 0..policy.maxRetries]
    BY <1>4, AttemptBound DEF HandlerFails, TypeInv
  <2> QED
    BY <1>0, <1>4, <2>1, <2>2, <2>3 DEF HandlerFails, TypeInv
<1>5. ASSUME NEW m \in Msg, BackoffElapsed(m) \/ BackoffCancelled(m) PROVE TypeInv'
  <2>1. phase' \in [Msg -> Phase]
    BY <1>5 DEF BackoffElapsed, BackoffCancelled, TypeInv, Phase
  <2>2. lastErr' \in [Msg -> Error \cup {CtxError, NoError}]
    BY <1>5 DEF BackoffElapsed, BackoffCancelled, TypeInv
  <2> QED
    BY <1>0, <1>5, <2>1, <2>2 DEF BackoffElapsed, BackoffCancelled, TypeInv
<1>6. ASSUME NEW m \in Msg, \/ HandlePublish(m) \/ HandlePublishFails(m)
                            \/ HandleCount(m) \/ HandleNotify(m)
      PROVE  TypeInv'
  <2>1. phase' \in [Msg -> Phase]
    BY <1>6 DEF HandlePublish, HandlePublishFails, HandleCount, HandleNotify, TypeInv, Phase
  <2>2. /\ dead' \subseteq Msg /\ lost' \subseteq Msg /\ notified' \subseteq Msg
        /\ count' \in Nat
    BY <1>6 DEF HandlePublish, HandlePublishFails, HandleCount, HandleNotify, TypeInv
  <2> QED
    BY <1>0, <1>6, <2>1, <2>2
       DEF HandlePublish, HandlePublishFails, HandleCount, HandleNotify, TypeInv
<1>7. CASE SetOnFailure
  BY <1>0, <1>7 DEF SetOnFailure, TypeInv
<1> QED
  BY <1>1, <1>2, <1>3, <1>4, <1>5, <1>6, <1>7 DEF Next, Delivery

-----------------------------------------------------------------------------
(* The stages of a message.                                                *)

\* The broker was closed if it is not connected.
LEMMA DownMeansStopped ==
    ASSUME StageInv, [Next]_vars
    PROVE  ~up' => stopped'
<1> USE DEF broker, StageInv
<1>1. CASE SyncStep
  BY <1>1 DEF SyncStep, SendPrepare, SendCompressFails, SendValueFails, SendPublishFails,
              SendReturn, SetCompressor, BrokerClose, BrokerConnect
<1>2. CASE UNCHANGED syncVars
  BY <1>2 DEF syncVars
<1> QED
  BY <1>1, <1>2, ProducerSteps DEF SendContextDone, SendPublish

\* The steps of the producer other than a Publish keep a published message
\* published and an unpublished one so.
LEMMA ProducerStage ==
    ASSUME TypeInv, StageInv, ProducerStep, NEW m \in Msg
    PROVE  NotYet(m)'
<1> USE DEF loop, past, message
<1>1. UNCHANGED <<phase, calls, attempt, lastErr>>
  BY DEF ProducerStep
<1>2. \/ spc'[m] = spc[m]
      \/ spc[m] = "new" /\ spc'[m] \in {"publish", "failed"}
      \/ spc[m] = "publish" /\ spc'[m] = "failed"
      \/ spc[m] = "count" /\ spc'[m] = "sent"
  BY DEF ProducerStep, SyncStep, SendPrepare, SendCompressFails, SendValueFails,
         SendPublishFails, SendReturn, SetCompressor, BrokerClose, BrokerConnect,
         SendContextDone, TypeInv, SyncTypeOK
<1>3. wire' = wire
  BY DEF ProducerStep, SyncStep, SendPrepare, SendCompressFails, SendValueFails,
         SendPublishFails, SendReturn, SetCompressor, BrokerClose, BrokerConnect,
         SendContextDone
<1> QED
  BY <1>1, <1>2, <1>3 DEF StageInv, NotYet

LEMMA StageStep ==
    ASSUME TypeInv, TypeInv', StageInv, [Next]_vars
    PROVE  StageInv'
<1> USE DEF loop, dlh, past, ends
<1>0. (~up' => stopped') /\ policy' = policy /\ policy.maxRetries \in Int
  BY DownMeansStopped, PolicyKept DEF TypeInv
<1> SUFFICES ASSUME NEW n \in Msg PROVE NotYet(n)' /\ InLoop(n)' /\ InHandle(n)'
  BY <1>0 DEF StageInv
<1>00. NotYet(n) /\ InLoop(n) /\ InHandle(n)
  BY DEF StageInv
<1>1. CASE ProducerStep
  <2>1. UNCHANGED <<loop, past, ends>>
    BY <1>1 DEF ProducerStep
  <2> QED
    BY <1>0, <1>00, <1>1, <2>1, ProducerStage DEF InLoop, InHandle
<1>2. ASSUME NEW m \in Msg, Deliver(m) PROVE NotYet(n)' /\ InLoop(n)' /\ InHandle(n)'
  <2>1. CASE n # m
    <3>1. phase'[n] = phase[n] /\ spc'[n] = spc[n] /\ wire'[n] = wire[n]
      BY <1>2, <2>1 DEF Deliver, SendPublish, TypeInv, SyncTypeOK
    <3>2. UNCHANGED <<attempt, lastErr, past, ends>>
      BY <1>2 DEF Deliver
    <3> QED
      BY <1>0, <1>00, <3>1, <3>2 DEF NotYet, InLoop, InHandle
  <2>2. CASE n = m
    <3>1. spc[n] = "publish" /\ spc'[n] = "count" /\ wire'[n] = object[Passed[n]]
      BY <1>2, <2>2 DEF Deliver, SendPublish, TypeInv, SyncTypeOK
    <3>2. wire'[n] # None
      BY <3>1, NilAssumption DEF TypeInv, SyncTypeOK, Object
    <3>3. phase[n] = "none" /\ calls[n] = 0 /\ attempt[n] = 0 /\ lastErr[n] = NoError
      BY <1>00, <3>1 DEF NotYet
    <3>4. UNCHANGED <<attempt, lastErr, past, ends>>
      BY <1>2 DEF Deliver
    <3>5. \/ phase'[n] = "none"
          \/ phase'[n] = "done"
          \/ phase'[n] = "handler" /\ ~(policy.maxRetries < 0)
      BY <1>2, <2>2, <3>3 DEF Deliver, TypeInv
    <3>6. NotYet(n)'
      BY <3>1, <3>2, <3>3, <3>4 DEF NotYet
    <3>7. InLoop(n)'
      BY <1>0, <3>3, <3>4, <3>5 DEF InLoop
    <3>8. InHandle(n)'
      BY <1>00, <3>3, <3>4, <3>5 DEF InHandle
    <3> QED
      BY <3>6, <3>7, <3>8
  <2> QED
    BY <2>1, <2>2
<1>3. ASSUME NEW m \in Msg, Delivery(m) PROVE NotYet(n)' /\ InLoop(n)' /\ InHandle(n)'
  <2>0. UNCHANGED <<spc, wire>>
    BY <1>3 DEF Delivery, HandlerSucceeds, HandlerFails, BackoffElapsed, BackoffCancelled,
                HandlePublish, HandlePublishFails, HandleCount, HandleNotify, syncVars, message
  <2>1. CASE n # m
    <3>1. /\ phase'[n] = phase[n] /\ attempt'[n] = attempt[n]
          /\ lastErr'[n] = lastErr[n] /\ calls'[n] = calls[n]
      BY <1>3, <2>1
         DEF Delivery, HandlerSucceeds, HandlerFails, BackoffElapsed, BackoffCancelled,
             HandlePublish, HandlePublishFails, HandleCount, HandleNotify, TypeInv
    <3>2. /\ n \in dead' <=> n \in dead
          /\ n \in lost' <=> n \in lost
          /\ n \in notified' <=> n \in notified
      BY <1>3, <2>1
         DEF Delivery, HandlerSucceeds, HandlerFails, BackoffElapsed, BackoffCancelled,
             HandlePublish, HandlePublishFails, HandleCount, HandleNotify
    <3> QED
      BY <1>0, <1>00, <2>0, <3>1, <3>2 DEF NotYet, InLoop, InHandle
  <2>2. CASE n = m /\ phase[m] = "none"
    BY <1>3, <2>2 DEF Delivery, HandlerSucceeds, HandlerFails, BackoffElapsed,
         BackoffCancelled, HandlePublish, HandlePublishFails, HandleCount, HandleNotify
  <2>3. CASE n = m /\ phase[m] # "none"
    <3>1. phase'[m] # "none"
      BY <1>3, <2>3
         DEF Delivery, HandlerSucceeds, HandlerFails, BackoffElapsed, BackoffCancelled,
             HandlePublish, HandlePublishFails, HandleCount, HandleNotify, TypeInv
    <3>2. NotYet(n)'
      BY <1>00, <2>0, <2>3, <3>1 DEF NotYet
    <3>3. InLoop(n)'
      <4>1. ASSUME NEW err \in Error, HandlerFails(m, err) PROVE InLoop(n)'
        <5>1. CASE GivesUp(m, err)
          <6>1. phase'[m] = "dlqPublish"
            BY <4>1, <5>1 DEF HandlerFails, TypeInv
          <6> QED
            BY <2>3, <6>1 DEF InLoop
        <5>2. CASE ~GivesUp(m, err)
          <6>1. /\ attempt'[m] = attempt[m] + 1 /\ calls'[m] = calls[m] + 1
                /\ phase[m] = "handler"
            BY <4>1, <5>2 DEF HandlerFails, TypeInv
          <6>2. attempt[m] + 1 \in 0..policy.maxRetries
            BY <4>1, <5>2, AttemptBound
          <6>3. attempt[m] \in Nat /\ calls[m] = attempt[m]
            BY <1>0, <1>00, <2>3, <6>1 DEF InLoop, TypeInv
          <6> QED
            BY <1>0, <2>3, <6>1, <6>2, <6>3 DEF InLoop
        <5> QED
          BY <5>1, <5>2
      <4>2. CASE BackoffElapsed(m)
        BY <1>0, <1>00, <2>3, <4>2 DEF BackoffElapsed, InLoop, TypeInv
      <4>3. ASSUME phase'[m] \notin {"handler", "backoff"} PROVE InLoop(n)'
        BY <2>3, <4>3 DEF InLoop
      <4>4. CASE HandlerSucceeds(m) \/ BackoffCancelled(m) \/ HandlePublish(m)
                 \/ HandlePublishFails(m) \/ HandleCount(m) \/ HandleNotify(m)
        BY <4>3, <4>4 DEF HandlerSucceeds, BackoffCancelled, HandlePublish,
                          HandlePublishFails, HandleCount, HandleNotify, TypeInv
      <4> QED
        BY <1>3, <4>1, <4>2, <4>4 DEF Delivery
    <3>4. InHandle(n)'
      BY <1>00, <1>3, <2>3
         DEF Delivery, HandlerSucceeds, HandlerFails, BackoffElapsed, BackoffCancelled,
             HandlePublish, HandlePublishFails, HandleCount, HandleNotify, TypeInv, InHandle
    <3> QED
      BY <3>2, <3>3, <3>4
  <2> QED
    BY <2>1, <2>2, <2>3
<1>4. CASE SetOnFailure \/ UNCHANGED vars
  <2>1. UNCHANGED <<spc, wire, loop, past, ends>>
    BY <1>4 DEF SetOnFailure, vars, syncVars, message
  <2> QED
    BY <1>0, <1>00, <2>1 DEF NotYet, InLoop, InHandle
<1> QED
  BY <1>1, <1>2, <1>3, <1>4 DEF Next

-----------------------------------------------------------------------------
(* The budget, and where a message ends.                                   *)

\* Once WithRetry has returned an error nothing it returned changes.
Budget(m) ==
    /\ calls[m] > 0 => calls[m] <= policy.maxRetries + 1
    /\ GaveUp(m) =>
         \/ lastErr[m] = CtxError /\ m \in ctxDone /\ calls[m] \in 1..policy.maxRetries
         \/ /\ lastErr[m] \in Error
            /\ calls[m] >= 1
            /\ IF Transient(lastErr[m]) THEN calls[m] = policy.maxRetries + 1
                                        ELSE calls[m] >= policy.maxRetries

\* A context that is done stays done.
LEMMA ContextStaysDone ==
    ASSUME [Next]_vars
    PROVE  ctxDone \subseteq ctxDone'
<1>1. CASE SyncStep
  BY <1>1 DEF SyncStep, SendPrepare, SendCompressFails, SendValueFails, SendPublishFails,
              SendReturn, SetCompressor, BrokerClose, BrokerConnect
<1>2. CASE UNCHANGED syncVars
  BY <1>2 DEF syncVars
<1> QED
  BY <1>1, <1>2, ProducerSteps DEF SendContextDone, SendPublish

\* A step that leaves the calls and the error of a message alone, and does not
\* make WithRetry give it up, keeps its budget.
LEMMA BudgetKept ==
    ASSUME [Next]_vars, NEW m \in Msg, Budget(m), policy' = policy,
           calls'[m] = calls[m], GaveUp(m)' => GaveUp(m) /\ lastErr'[m] = lastErr[m]
    PROVE  Budget(m)'
<1>1. m \in ctxDone => m \in ctxDone'
  BY ContextStaysDone
<1>2. ASSUME GaveUp(m)' PROVE Transient(lastErr'[m]) <=> Transient(lastErr[m])
  BY <1>2
<1>3. ASSUME GaveUp(m)' PROVE Transient(lastErr[m])' <=> Transient(lastErr'[m])
  BY DEF Transient
<1> QED
  BY <1>1, <1>2, <1>3 DEF Budget

LEMMA BudgetStep ==
    ASSUME TypeInv, StageInv, [Next]_vars, NEW n \in Msg, Budget(n)
    PROVE  Budget(n)'
<1> USE DEF loop, dlh, past, ends
<1>0. policy' = policy /\ policy.maxRetries \in Int
  BY PolicyKept DEF TypeInv
<1>00. NotYet(n) /\ InLoop(n) /\ InHandle(n)
  BY DEF StageInv
<1>1. CASE ProducerStep \/ SetOnFailure \/ UNCHANGED vars
  <2>1. UNCHANGED <<phase, calls, lastErr, dead, lost>>
    BY <1>1 DEF ProducerStep, SetOnFailure, vars
  <2> QED
    BY <1>0, <2>1, BudgetKept DEF GaveUp
<1>2. ASSUME NEW m \in Msg, Deliver(m) PROVE Budget(n)'
  <2>1. UNCHANGED <<calls, lastErr, dead, lost>>
    BY <1>2 DEF Deliver
  <2>2. phase'[n] = phase[n] \/ phase'[n] \in {"handler", "done"}
    BY <1>2 DEF Deliver, TypeInv
  <2> QED
    BY <1>0, <2>1, <2>2, BudgetKept DEF GaveUp
<1>3. ASSUME NEW m \in Msg, Delivery(m), n # m PROVE Budget(n)'
  <2>1. phase'[n] = phase[n] /\ lastErr'[n] = lastErr[n] /\ calls'[n] = calls[n]
    BY <1>3 DEF Delivery, HandlerSucceeds, HandlerFails, BackoffElapsed, BackoffCancelled,
                HandlePublish, HandlePublishFails, HandleCount, HandleNotify, TypeInv
  <2>2. n \in dead' \cup lost' <=> n \in dead \cup lost
    BY <1>3 DEF Delivery, HandlerSucceeds, HandlerFails, BackoffElapsed, BackoffCancelled,
                HandlePublish, HandlePublishFails, HandleCount, HandleNotify
  <2> QED
    BY <1>0, <2>1, <2>2, BudgetKept DEF GaveUp
<1>4. CASE HandlerSucceeds(n)
  <2>1. calls'[n] = calls[n] + 1 /\ phase'[n] = "done" /\ dead' = dead /\ lost' = lost
    BY <1>4 DEF HandlerSucceeds, TypeInv
  <2>2. /\ calls[n] = attempt[n] /\ attempt[n] <= policy.maxRetries /\ calls[n] \in Nat
        /\ n \notin dead \cup lost
    BY <1>00, <1>4 DEF HandlerSucceeds, InLoop, InHandle, TypeInv
  <2>3. ~GaveUp(n)'
    BY <2>1, <2>2 DEF GaveUp
  <2> QED
    BY <1>0, <2>1, <2>2, <2>3 DEF Budget
<1>5. ASSUME NEW err \in Error, HandlerFails(n, err) PROVE Budget(n)'
  <2>1. /\ calls'[n] = calls[n] + 1 /\ lastErr'[n] = err /\ dead' = dead /\ lost' = lost
    BY <1>5 DEF HandlerFails, TypeInv
  <2>2. /\ calls[n] = attempt[n] /\ attempt[n] <= policy.maxRetries /\ calls[n] \in Nat
        /\ n \notin dead \cup lost
    BY <1>00, <1>5 DEF HandlerFails, InLoop, InHandle, TypeInv
  <2>3. CASE GivesUp(n, err)
    <3>1. Transient(err) => calls'[n] = policy.maxRetries + 1
      BY <1>0, <2>1, <2>2, <2>3, RetryableIsTransient DEF GivesUp
    <3>2. calls'[n] >= policy.maxRetries
      BY <1>0, <2>1, <2>2, <2>3 DEF GivesUp, ShouldRetry
    <3>3. calls'[n] >= 1 /\ calls'[n] <= policy.maxRetries + 1
      BY <1>0, <2>1, <2>2
    <3>4. Transient(lastErr[n])' <=> Transient(err)
      BY <2>1 DEF Transient
    <3> QED
      BY <1>0, <2>1, <3>1, <3>2, <3>3, <3>4 DEF Budget
  <2>4. CASE ~GivesUp(n, err)
    <3>1. phase'[n] = "backoff"
      BY <1>5, <2>4 DEF HandlerFails, TypeInv
    <3>2. ~GaveUp(n)'
      BY <2>1, <2>2, <3>1 DEF GaveUp
    <3> QED
      BY <1>0, <2>1, <2>2, <3>2 DEF Budget
  <2> QED
    BY <2>3, <2>4
<1>6. CASE BackoffElapsed(n)
  <2>1. phase'[n] = "handler" /\ UNCHANGED <<calls, lastErr, dead, lost>>
    BY <1>6 DEF BackoffElapsed, TypeInv
  <2> QED
    BY <1>0, <2>1, BudgetKept DEF GaveUp
<1>7. CASE BackoffCancelled(n)
  <2>1. /\ lastErr'[n] = CtxError /\ n \in ctxDone' /\ calls' = calls
    BY <1>7 DEF BackoffCancelled, TypeInv, syncVars
  <2>2. calls[n] \in 1..policy.maxRetries
    BY <1>0, <1>00, <1>7 DEF BackoffCancelled, InLoop, TypeInv
  <2>3. calls[n] <= policy.maxRetries + 1
    BY <1>0, <2>2
  <2> QED
    BY <1>0, <2>1, <2>2, <2>3 DEF Budget
<1>8. CASE HandlePublish(n) \/ HandlePublishFails(n) \/ HandleCount(n) \/ HandleNotify(n)
  <2>1. GaveUp(n)
    BY <1>8 DEF HandlePublish, HandlePublishFails, HandleCount, HandleNotify, GaveUp
  <2>2. UNCHANGED <<calls, lastErr>>
    BY <1>8 DEF HandlePublish, HandlePublishFails, HandleCount, HandleNotify
  <2> QED
    BY <1>0, <2>1, <2>2, BudgetKept
<1> QED
  BY <1>1, <1>2, <1>3, <1>4, <1>5, <1>6, <1>7, <1>8 DEF Next, Delivery

LEMMA EndsStep ==
    ASSUME TypeInv, StageInv, EndsSomewhere, [Next]_vars
    PROVE  EndsSomewhere'
<1> USE DEF loop, dlh, past, ends
<1>0. policy' = policy /\ policy.maxRetries \in Int
  BY PolicyKept DEF TypeInv
<1> SUFFICES ASSUME NEW n \in Msg, phase'[n] = "done"
             PROVE  \/ lastErr'[n] = NoError /\ (calls'[n] > 0 <=> policy.maxRetries >= 0)
                    \/ n \in dead'
                    \/ n \in lost' /\ stopped'
  BY <1>0 DEF EndsSomewhere
<1>1. stopped => stopped'
  <2>1. CASE SyncStep
    BY <2>1 DEF SyncStep, SendPrepare, SendCompressFails, SendValueFails, broker,
                SendPublishFails, SendReturn, SetCompressor, BrokerClose, BrokerConnect
  <2>2. CASE UNCHANGED syncVars
    BY <2>2 DEF syncVars, broker
  <2> QED
    BY <2>1, <2>2, ProducerSteps DEF SendContextDone, SendPublish, broker
<1>2. NotYet(n) /\ InLoop(n) /\ InHandle(n) /\ (~up => stopped)
  BY DEF StageInv
<1>3. dead \subseteq dead' /\ lost \subseteq lost'
  BY DEF Next, vars, ProducerStep, Deliver, SetOnFailure, Delivery, HandlerSucceeds,
         HandlerFails, BackoffElapsed, BackoffCancelled, HandlePublish,
         HandlePublishFails, HandleCount, HandleNotify
<1>4. ASSUME phase[n] = "done", lastErr'[n] = lastErr[n], calls'[n] = calls[n]
      PROVE  \/ lastErr'[n] = NoError /\ (calls'[n] > 0 <=> policy.maxRetries >= 0)
             \/ n \in dead'
             \/ n \in lost' /\ stopped'
  BY <1>1, <1>3, <1>4 DEF EndsSomewhere
<1>5. CASE ProducerStep \/ SetOnFailure \/ UNCHANGED vars
  <2>1. UNCHANGED <<phase, calls, lastErr>>
    BY <1>5 DEF ProducerStep, SetOnFailure, vars
  <2> QED
    BY <1>4, <2>1
<1>6. ASSUME NEW m \in Msg, Deliver(m)
      PROVE  \/ lastErr'[n] = NoError /\ (calls'[n] > 0 <=> policy.maxRetries >= 0)
             \/ n \in dead'
             \/ n \in lost' /\ stopped'
  <2>1. UNCHANGED <<calls, lastErr>>
    BY <1>6 DEF Deliver
  <2>2. CASE phase[n] = "done"
    BY <1>4, <2>1, <2>2
  <2>3. CASE phase[n] # "done"
    <3>1. n = m /\ policy.maxRetries < 0 /\ spc[n] = "publish"
      BY <1>6, <2>3 DEF Deliver, TypeInv, SendPublish
    <3>2. calls[n] = 0 /\ lastErr[n] = NoError
      BY <1>2, <3>1 DEF NotYet
    <3> QED
      BY <1>0, <2>1, <3>1, <3>2
  <2> QED
    BY <2>2, <2>3
<1>7. ASSUME NEW m \in Msg, Delivery(m), n # m
      PROVE  \/ lastErr'[n] = NoError /\ (calls'[n] > 0 <=> policy.maxRetries >= 0)
             \/ n \in dead'
             \/ n \in lost' /\ stopped'
  <2>1. phase'[n] = phase[n] /\ lastErr'[n] = lastErr[n] /\ calls'[n] = calls[n]
    BY <1>7 DEF Delivery, HandlerSucceeds, HandlerFails, BackoffElapsed, BackoffCancelled,
                HandlePublish, HandlePublishFails, HandleCount, HandleNotify, TypeInv
  <2> QED
    BY <1>4, <2>1
<1>8. CASE HandlerSucceeds(n)
  <2>1. /\ calls'[n] = calls[n] + 1 /\ lastErr'[n] = NoError /\ calls[n] \in Nat
        /\ 0 <= policy.maxRetries
    BY <1>2, <1>8 DEF HandlerSucceeds, TypeInv, InLoop
  <2> QED
    BY <1>0, <2>1
<1>9. ASSUME NEW err \in Error, HandlerFails(n, err) PROVE FALSE
  <2>1. \/ phase' = [phase EXCEPT ![n] = "dlqPublish"]
        \/ phase' = [phase EXCEPT ![n] = "backoff"]
    BY <1>9, Zenon DEF HandlerFails
  <2> QED
    BY <2>1 DEF TypeInv
<1>10. ~BackoffElapsed(n) /\ ~BackoffCancelled(n) /\ ~HandlePublish(n) /\ ~HandleCount(n)
  BY DEF BackoffElapsed, BackoffCancelled, HandlePublish, HandleCount, TypeInv
<1>11. CASE HandlePublishFails(n)
  BY <1>1, <1>2, <1>11 DEF HandlePublishFails
<1>12. CASE HandleNotify(n)
  BY <1>2, <1>3, <1>12 DEF HandleNotify, InHandle
<1> QED
  BY <1>5, <1>6, <1>7, <1>8, <1>9, <1>10, <1>11, <1>12 DEF Next, Delivery

RetryInv == TypeInv /\ StageInv /\ RetryBudget /\ EndsSomewhere

LEMMA RetryInvariant == Spec => []RetryInv
<1>1. Init => RetryInv
  <2> SUFFICES ASSUME Init PROVE RetryInv
    OBVIOUS
  <2>1. \A m \in Msg : calls[m] = 0 /\ ~GaveUp(m) /\ phase[m] # "done"
    BY DEF Init, GaveUp
  <2>2. RetryBudget /\ EndsSomewhere
    BY <2>1 DEF RetryBudget, EndsSomewhere
  <2> QED
    BY <2>2, RetryInit DEF RetryInv
<1>2. RetryInv /\ [Next]_vars => RetryInv'
  <2> SUFFICES ASSUME RetryInv, [Next]_vars PROVE RetryInv'
    OBVIOUS
  <2>1. TypeInv' /\ StageInv'
    BY RetryTyped, StageStep DEF RetryInv
  <2>2. \A m \in Msg : Budget(m)'
    BY BudgetStep DEF RetryInv, RetryBudget, Budget
  <2>3. RetryBudget'
    BY <2>2 DEF RetryBudget, Budget
  <2>4. EndsSomewhere'
    BY EndsStep DEF RetryInv
  <2> QED
    BY <2>1, <2>3, <2>4 DEF RetryInv
<1> QED
  BY <1>1, <1>2, PTL DEF Spec

\* WithRetry calls the handler MaxRetries + 1 times at most and gives up early
\* only for the reasons the code has: for every policy, also one with no or a
\* negative number of retries, and every chain of errors.
THEOREM RetryBudgetKept == Spec => []RetryBudget
<1>1. RetryInv => RetryBudget
  BY DEF RetryInv
<1> QED
  BY <1>1, RetryInvariant, PTL

\* A message whose handling has ended was handled, is on the DLQ or was refused
\* by a closed broker.
THEOREM EndsKnown == Spec => []EndsSomewhere
<1>1. RetryInv => EndsSomewhere
  BY DEF RetryInv
<1> QED
  BY <1>1, RetryInvariant, PTL

-----------------------------------------------------------------------------
(* The counters.                                                           *)

\* Adding an element to a finite set, or removing one, moves its size by one.
LEMMA OneMore ==
    ASSUME NEW S, IsFiniteSet(S), NEW x, x \notin S
    PROVE  /\ IsFiniteSet(S \cup {x}) /\ Cardinality(S) \in Nat
           /\ Cardinality(S \cup {x}) = Cardinality(S) + 1
BY FS_AddElement, FS_CardinalityType

LEMMA OneLess ==
    ASSUME NEW S, IsFiniteSet(S), NEW x \in S
    PROVE  /\ IsFiniteSet(S \ {x}) /\ Cardinality(S) \in Nat
           /\ Cardinality(S \ {x}) = Cardinality(S) - 1
BY FS_RemoveElement, FS_CardinalityType

AccountInv ==
    /\ sent = Cardinality(Taken) - Cardinality(Uncounted)
    /\ sent + failed = Cardinality(Returned)

DeadInv == count = Cardinality(dead) - Cardinality(Counting)

\* A call is counted when it returns: as sent if the broker took its message,
\* as failed otherwise.
LEMMA AccountStep ==
    ASSUME TypeInv, StageInv, FiniteInv, AccountInv, [Next]_vars
    PROVE  /\ IsFiniteSet(Taken)' /\ IsFiniteSet(Uncounted)' /\ IsFiniteSet(Returned)'
           /\ AccountInv'
<1> DEFINE Goal == /\ IsFiniteSet(Taken') /\ IsFiniteSet(Uncounted')
                   /\ IsFiniteSet(Returned') /\ AccountInv'
<1> USE DEF message, counters
<1>0. /\ Cardinality(Taken) \in Nat /\ Cardinality(Uncounted) \in Nat
      /\ Cardinality(Returned) \in Nat /\ sent \in Nat /\ failed \in Nat
  BY FS_CardinalityType DEF FiniteInv, TypeInv, SyncTypeOK
<1>1. ASSUME Taken' = Taken, Uncounted' = Uncounted, Returned' = Returned,
             UNCHANGED <<sent, failed>>
      PROVE  Goal
  BY <1>1 DEF FiniteInv, AccountInv
<1>2. ASSUME NEW m \in Msg, SendPublish(m) PROVE Goal
  <2>1. m \notin Taken /\ m \notin Uncounted /\ m \notin Returned
    BY <1>2 DEF SendPublish, StageInv, NotYet, Taken, Uncounted, Returned
  <2>2. wire'[m] # None
    BY <1>2, NilAssumption DEF SendPublish, TypeInv, SyncTypeOK, Object
  <2>3. /\ Taken' = Taken \cup {m} /\ Uncounted' = Uncounted \cup {m}
        /\ Returned' = Returned
    BY <1>2, <2>2 DEF SendPublish, TypeInv, SyncTypeOK, Taken, Uncounted, Returned
  <2>4. UNCHANGED <<sent, failed>>
    BY <1>2 DEF SendPublish
  <2>5. /\ IsFiniteSet(Taken') /\ Cardinality(Taken') = Cardinality(Taken) + 1
        /\ IsFiniteSet(Uncounted') /\ Cardinality(Uncounted') = Cardinality(Uncounted) + 1
    BY <2>1, <2>3, OneMore DEF FiniteInv
  <2> QED
    BY <1>0, <2>3, <2>4, <2>5 DEF FiniteInv, AccountInv
<1>3. ASSUME NEW m \in Msg, SendReturn(m) PROVE Goal
  <2>1. m \in Uncounted /\ m \notin Returned
    BY <1>3 DEF SendReturn, Uncounted, Returned
  <2>2. /\ Taken' = Taken /\ Uncounted' = Uncounted \ {m}
        /\ Returned' = Returned \cup {m}
    BY <1>3 DEF SendReturn, TypeInv, SyncTypeOK, Taken, Uncounted, Returned
  <2>3. sent' = sent + 1 /\ failed' = failed
    BY <1>3 DEF SendReturn
  <2>4. /\ IsFiniteSet(Uncounted') /\ Cardinality(Uncounted') = Cardinality(Uncounted) - 1
        /\ IsFiniteSet(Returned') /\ Cardinality(Returned') = Cardinality(Returned) + 1
    BY <2>1, <2>2, OneMore, OneLess DEF FiniteInv
  <2> QED
    BY <1>0, <2>2, <2>3, <2>4 DEF FiniteInv, AccountInv
<1>4. ASSUME NEW m \in Msg,
             SendCompressFails(m) \/ SendValueFails(m) \/ SendPublishFails(m)
      PROVE  Goal
  <2>1. m \notin Returned /\ m \notin Uncounted
    BY <1>4 DEF SendCompressFails, SendValueFails, SendPublishFails, Returned, Uncounted
  <2>2. spc' = [spc EXCEPT ![m] = "failed"] /\ wire' = wire
    BY <1>4 DEF SendCompressFails, SendValueFails, SendPublishFails
  <2>3. Taken' = Taken /\ Uncounted' = Uncounted /\ Returned' = Returned \cup {m}
    BY <2>1, <2>2 DEF TypeInv, SyncTypeOK, Taken, Uncounted, Returned
  <2>4. sent' = sent /\ failed' = failed + 1
    BY <1>4 DEF SendCompressFails, SendValueFails, SendPublishFails
  <2>5. IsFiniteSet(Returned') /\ Cardinality(Returned') = Cardinality(Returned) + 1
    BY <2>1, <2>3, OneMore DEF FiniteInv
  <2> QED
    BY <1>0, <2>3, <2>4, <2>5 DEF FiniteInv, AccountInv
<1>5. ASSUME NEW m \in Msg, SendPrepare(m) PROVE Goal
  <2>1. Taken' = Taken /\ Uncounted' = Uncounted /\ Returned' = Returned
    BY <1>5 DEF SendPrepare, TypeInv, SyncTypeOK, Taken, Uncounted, Returned
  <2> QED
    BY <1>1, <1>5, <2>1 DEF SendPrepare
<1>6. ASSUME UNCHANGED <<wire, spc, sent, failed>> PROVE Goal
  BY <1>1, <1>6 DEF Taken, Uncounted, Returned
<1>7. ASSUME NEW m \in Msg, SendContextDone(m) PROVE Goal
  BY <1>6, <1>7 DEF SendContextDone
<1>8. ASSUME NEW c, SetCompressor(c) PROVE Goal
  BY <1>6, <1>8 DEF SetCompressor
<1>9. CASE BrokerClose \/ BrokerConnect
  BY <1>6, <1>9 DEF BrokerClose, BrokerConnect
<1>10. CASE UNCHANGED syncVars
  BY <1>6, <1>10 DEF syncVars
<1>11. Goal
  BY <1>2, <1>3, <1>4, <1>5, <1>7, <1>8, <1>9, <1>10, ProducerSteps DEF SyncStep
<1> QED
  BY <1>11

\* Handle publishes first and counts later, whatever other Handle calls do in
\* between.
LEMMA DeadStep ==
    ASSUME TypeInv, StageInv, FiniteInv, DeadInv, [Next]_vars
    PROVE  IsFiniteSet(dead)' /\ IsFiniteSet(Counting)' /\ DeadInv'
<1> USE DEF loop, dlh, past, ends
<1> DEFINE Goal == IsFiniteSet(dead') /\ IsFiniteSet(Counting') /\ DeadInv'
<1>0. /\ Cardinality(dead) \in Nat /\ Cardinality(Counting) \in Nat /\ count \in Nat
  BY FS_CardinalityType DEF FiniteInv, TypeInv
<1>1. ASSUME Counting' = Counting, UNCHANGED <<dead, count>> PROVE Goal
  BY <1>1 DEF FiniteInv, DeadInv
<1>2. ASSUME NEW m \in Msg, HandlePublish(m) PROVE Goal
  <2>1. m \notin dead /\ m \notin Counting
    BY <1>2 DEF HandlePublish, StageInv, InHandle, Counting
  <2>2. dead' = dead \cup {m} /\ Counting' = Counting \cup {m} /\ count' = count
    BY <1>2 DEF HandlePublish, TypeInv, Counting
  <2>3. /\ IsFiniteSet(dead') /\ Cardinality(dead') = Cardinality(dead) + 1
        /\ IsFiniteSet(Counting') /\ Cardinality(Counting') = Cardinality(Counting) + 1
    BY <2>1, <2>2, OneMore DEF FiniteInv
  <2> QED
    BY <1>0, <2>2, <2>3 DEF DeadInv
<1>3. ASSUME NEW m \in Msg, HandleCount(m) PROVE Goal
  <2>1. m \in Counting /\ dead' = dead /\ count' = count + 1
    BY <1>3 DEF HandleCount, Counting
  <2>2. Counting' = Counting \ {m}
    BY <1>3 DEF HandleCount, TypeInv, Counting
  <2>3. IsFiniteSet(Counting') /\ Cardinality(Counting') = Cardinality(Counting) - 1
    BY <2>1, <2>2, OneLess DEF FiniteInv
  <2> QED
    BY <1>0, <2>1, <2>3 DEF DeadInv, FiniteInv
<1>4. ASSUME NEW m \in Msg, Deliver(m) PROVE Goal
  <2>1. phase[m] # "dlqCount"
    BY <1>4 DEF Deliver, SendPublish, StageInv, NotYet
  <2>2. Counting' = Counting
    BY <1>4, <2>1 DEF Deliver, TypeInv, Counting
  <2> QED
    BY <1>1, <1>4, <2>2 DEF Deliver
<1>5. ASSUME NEW m \in Msg, NEW err \in Error, HandlerFails(m, err) PROVE Goal
  <2>1. \/ phase' = [phase EXCEPT ![m] = "dlqPublish"]
        \/ phase' = [phase EXCEPT ![m] = "backoff"]
    BY <1>5, Zenon DEF HandlerFails
  <2>2. Counting' = Counting
    BY <1>5, <2>1 DEF HandlerFails, TypeInv, Counting
  <2> QED
    BY <1>1, <1>5, <2>2 DEF HandlerFails
<1>6. ASSUME NEW m \in Msg, \/ HandlerSucceeds(m) \/ BackoffElapsed(m) \/ BackoffCancelled(m)
                            \/ HandlePublishFails(m) \/ HandleNotify(m)
      PROVE  Goal
  <2>1. Counting' = Counting
    BY <1>6 DEF HandlerSucceeds, BackoffElapsed, BackoffCancelled, HandlePublishFails,
                HandleNotify, TypeInv, Counting
  <2> QED
    BY <1>1, <1>6, <2>1 DEF HandlerSucceeds, BackoffElapsed, BackoffCancelled,
                            HandlePublishFails, HandleNotify
<1>7. CASE ProducerStep \/ SetOnFailure \/ UNCHANGED vars
  <2>1. UNCHANGED <<phase, dead, count>>
    BY <1>7 DEF ProducerStep, SetOnFailure, vars
  <2> QED
    BY <1>1, <2>1 DEF Counting
<1>8. Goal
  BY <1>2, <1>3, <1>4, <1>5, <1>6, <1>7 DEF Next, Delivery
<1> QED
  BY <1>8

CountersInv == RetryInv /\ FiniteInv /\ AccountInv /\ DeadInv

LEMMA CountersInvariant == Spec => []CountersInv
<1>1. Init => FiniteInv /\ AccountInv /\ DeadInv
  <2> SUFFICES ASSUME Init PROVE FiniteInv /\ AccountInv /\ DeadInv
    OBVIOUS
  <2>1. Taken = {} /\ Uncounted = {} /\ Returned = {} /\ dead = {} /\ Counting = {}
    BY DEF Init, SyncInit, Taken, Uncounted, Returned, Counting
  <2>2. sent = 0 /\ failed = 0 /\ count = 0
    BY DEF Init, SyncInit
  <2> QED
    BY <2>1, <2>2, FS_EmptySet, RetryInit DEF AccountInv, DeadInv
<1>2. RetryInv /\ FiniteInv /\ AccountInv /\ DeadInv /\ [Next]_vars
      => FiniteInv' /\ AccountInv' /\ DeadInv'
  BY AccountStep, DeadStep DEF RetryInv, FiniteInv
<1> QED
  BY <1>1, <1>2, RetryInvariant, PTL DEF CountersInv, Spec

\* SentCount and FailedCount account for every call of Send that has returned,
\* whenever the broker is closed.
THEOREM EveryCallCounted == Spec => []CountersAccount
<1>1. CountersInv => CountersAccount
  BY DEF CountersInv, AccountInv, CountersAccount, Taken, Uncounted, Returned
<1> QED
  BY <1>1, CountersInvariant, PTL

\* Count is the number of messages on the DLQ but for the Handle calls that are
\* about to count, and onFailure only sees messages that are on the DLQ.
THEOREM DeadCounted == Spec => []CountIsDead
<1>1. CountersInv => CountIsDead
  <2> SUFFICES ASSUME CountersInv PROVE CountIsDead
    OBVIOUS
  <2>1. count = Cardinality(dead) - Cardinality({m \in Msg : phase[m] = "dlqCount"})
    BY DEF CountersInv, DeadInv, Counting
  <2>2. notified \subseteq {m \in dead : phase[m] = "done"}
    BY DEF CountersInv, RetryInv, TypeInv, StageInv, InHandle
  <2> QED
    BY <2>1, <2>2 DEF CountIsDead
<1> QED
  BY <1>1, CountersInvariant, PTL

-----------------------------------------------------------------------------
(* What a consumer can read.                                               *)

\* If the call that set the header compressed, the last layer is what the header
\* names, and no call has put two layers around the value.
Sound(msg) ==
    /\ Packed(msg) =>
           msg.layers # <<>> /\ msg.layers[Len(msg.layers)].alg = msg.encoding
    /\ \A i, j \in 1..Len(msg.layers) : msg.layers[i].by = msg.layers[j].by => i = j

\* The call has put no layer around the value.
Untouched(m, msg) == \A i \in 1..Len(msg.layers) : msg.layers[i].by # m

\* A consumer that decodes the value by its header is rid of the call's layer.
Rid(m, msg, c) ==
    Decoded(c, msg) # None /\ \A i \in DOMAIN Decoded(c, msg) : Decoded(c, msg)[i].by # m

Readable(m, msg) ==
    /\ \A c \in Reader(msg) : Rid(m, msg, c)
    /\ \A i, j \in DOMAIN msg.layers : msg.layers[i].by = msg.layers[j].by => i = j

\* The message of a caller is sound at all times, knows no layer of a call that
\* has not begun, and from the compression to the Publish of a call it is
\* readable: no other call may use it then.
HeaderInv ==
    /\ \A o \in Object : Sound(object[o])
    /\ \A m \in Msg : spc[m] = "new" => \A o \in Object : Untouched(m, object[o])
    /\ \A m \in Msg : spc[m] = "publish" => Readable(m, object[Passed[m]])

\* A reader decodes a sound message to its layers, with or without the last.
LEMMA DecodedFacts ==
    ASSUME NEW msg \in Message, Sound(msg), NEW c \in Reader(msg)
    PROVE  /\ msg.layers \in Seq(Layer) /\ Decoded(c, msg) # None
           /\ DOMAIN Decoded(c, msg) \subseteq 1..Len(msg.layers)
           /\ \A i \in DOMAIN Decoded(c, msg) : Decoded(c, msg)[i] = msg.layers[i]
           /\ msg.encoding # None /\ Packed(msg) =>
                  DOMAIN Decoded(c, msg) = 1..(Len(msg.layers) - 1)
<1>1. msg.layers \in Seq(Layer)
  BY DEF Message
<1>2. PICK q \in Seq(Layer) : q = msg.layers
  BY <1>1
<1>3. Len(q) \in Nat /\ DOMAIN q = 1..Len(q) /\ q # None
  BY NilAssumption
<1>4. c.alg = msg.encoding /\ c.decompress = Packed(msg)
  BY DEF Reader
<1>5. CASE msg.encoding = None
  <2>1. Decoded(c, msg) = q
    BY <1>2, <1>5 DEF Decoded
  <2> QED
    BY <1>2, <1>3, <1>5, <2>1
<1>6. CASE msg.encoding # None /\ ~Packed(msg)
  <2>1. Decoded(c, msg) = q
    BY <1>2, <1>4, <1>6 DEF Decoded, Decompress
  <2> QED
    BY <1>2, <1>3, <1>6, <2>1
<1>7. CASE msg.encoding # None /\ Packed(msg)
  <2>1. q # <<>> /\ q[Len(q)].alg = c.alg
    BY <1>2, <1>4, <1>7 DEF Sound
  <2>2. Decoded(c, msg) = SubSeq(q, 1, Len(q) - 1)
    BY <1>2, <1>4, <1>7, <2>1 DEF Decoded, Decompress
  <2>3. Len(q) - 1 \in Nat
    BY <1>3, <2>1
  <2>4. /\ SubSeq(q, 1, Len(q) - 1) \in Seq(Layer)
        /\ DOMAIN SubSeq(q, 1, Len(q) - 1) = 1..(Len(q) - 1)
        /\ \A i \in 1..(Len(q) - 1) : SubSeq(q, 1, Len(q) - 1)[i] = q[i]
    BY <1>3, <2>3
  <2>5. Decoded(c, msg) # None
    BY <2>2, <2>4, NilAssumption
  <2>6. 1..(Len(q) - 1) \subseteq 1..Len(q)
    BY <1>3
  <2> QED
    BY <1>2, <2>2, <2>4, <2>5, <2>6
<1> QED
  BY <1>5, <1>6, <1>7

\* A call without a compressor passes on a message that is readable for it.
LEMMA UntouchedReadable ==
    ASSUME NEW m \in Msg, NEW msg \in Message, Sound(msg), Untouched(m, msg)
    PROVE  Readable(m, msg)
<1>1. ASSUME NEW c \in Reader(msg) PROVE Rid(m, msg, c)
  <2>1. /\ Decoded(c, msg) # None /\ DOMAIN Decoded(c, msg) \subseteq 1..Len(msg.layers)
        /\ \A i \in DOMAIN Decoded(c, msg) : Decoded(c, msg)[i] = msg.layers[i]
    BY DecodedFacts
  <2> QED
    BY <2>1 DEF Rid, Untouched
<1>2. msg.layers \in Seq(Layer)
  BY DEF Message
<1>3. DOMAIN msg.layers = 1..Len(msg.layers)
  BY <1>2
<1> QED
  BY <1>1, <1>3 DEF Readable, Sound

\* The compression adds a layer that the header names, or none at all.
LEMMA EncodedReadable ==
    ASSUME NEW m \in Msg, NEW msg \in Message, Sound(msg), Untouched(m, msg),
           compressor \in Compressor
    PROVE  /\ Sound(Encoded(m, msg)) /\ Readable(m, Encoded(m, msg))
           /\ \A n \in Msg \ {m} : Untouched(n, msg) => Untouched(n, Encoded(m, msg))
<1>1. PICK e \in Message : e = Encoded(m, msg)
  BY EncodedTyped
<1>2. /\ e.layers = Compress(compressor, msg.layers, m)
      /\ e.encoding = compressor.alg /\ e.setBy = m
  BY <1>1 DEF Encoded
<1>3. PICK q \in Seq(Layer) : q = msg.layers
  BY DEF Message
<1>4. Len(q) \in Nat /\ DOMAIN q = 1..Len(q)
  OBVIOUS
<1>5. \A k, l \in 1..Len(q) : q[k].by = q[l].by => k = l
  BY <1>3 DEF Sound
<1>6. CASE ~compressor.compress
  <2>1. e.layers = q
    BY <1>2, <1>3, <1>6 DEF Compress
  <2>2. Untouched(m, e) /\ \A n \in Msg \ {m} : Untouched(n, msg) => Untouched(n, e)
    BY <1>3, <2>1 DEF Untouched
  <2>3. ~Packed(e)
    BY <1>2, <1>4, <2>1, <2>2 DEF Packed, Untouched
  <2>4. Sound(e)
    BY <1>5, <2>1, <2>3 DEF Sound
  <2> QED
    BY <1>1, <2>2, <2>4, UntouchedReadable
<1>7. CASE compressor.compress
  <2>1. PICK layer \in Layer : layer = [alg |-> compressor.alg, by |-> m]
    BY DEF Layer, Alg
  <2>2. e.layers = Append(q, layer) /\ layer.alg = compressor.alg /\ layer.by = m
    BY <1>2, <1>3, <1>7, <2>1 DEF Compress
  <2>3. /\ Len(e.layers) = Len(q) + 1 /\ e.layers[Len(q) + 1] = layer /\ e.layers # <<>>
        /\ \A i \in 1..Len(q) : e.layers[i] = q[i]
        /\ DOMAIN e.layers = 1..(Len(q) + 1)
    <3>1. /\ Len(Append(q, layer)) = Len(q) + 1 /\ Append(q, layer)[Len(q) + 1] = layer
          /\ Append(q, layer) # <<>>
          /\ \A i \in 1..Len(q) : Append(q, layer)[i] = q[i]
          /\ DOMAIN Append(q, layer) = 1..(Len(q) + 1)
      BY <1>4
    <3> QED
      BY <2>2, <3>1, Zenon
  <2>4. \A i \in 1..(Len(q) + 1) : i \in 1..Len(q) \/ i = Len(q) + 1
    BY <1>4
  <2>5. \A i \in 1..Len(q) : q[i].by # m
    BY <1>3 DEF Untouched
  <2>6. ASSUME NEW i \in 1..(Len(q) + 1), NEW j \in 1..(Len(q) + 1),
               e.layers[i].by = e.layers[j].by
        PROVE  i = j
    BY <1>5, <2>2, <2>3, <2>4, <2>5, <2>6
  <2>7. Sound(e)
    BY <1>2, <2>2, <2>3, <2>6 DEF Sound
  <2>8. Packed(e) /\ e.encoding # None
    <3>1. Len(q) + 1 \in 1..(Len(q) + 1)
      BY <1>4
    <3>2. Packed(e)
      BY <1>2, <2>2, <2>3, <3>1 DEF Packed
    <3> QED
      BY <1>2, <3>2, NilAssumption DEF Alg
  <2>9. ASSUME NEW c \in Reader(e) PROVE Rid(m, e, c)
    <3>1. /\ Decoded(c, e) # None
          /\ \A i \in DOMAIN Decoded(c, e) : Decoded(c, e)[i] = e.layers[i]
          /\ DOMAIN Decoded(c, e) = 1..(Len(e.layers) - 1)
      BY <2>7, <2>8, DecodedFacts
    <3>2. DOMAIN Decoded(c, e) = 1..Len(q)
      BY <1>4, <2>3, <3>1
    <3> QED
      BY <2>3, <2>5, <3>1, <3>2 DEF Rid
  <2>10. Readable(m, e)
    BY <2>3, <2>6, <2>9 DEF Readable
  <2>11. ASSUME NEW n \in Msg \ {m}, Untouched(n, msg) PROVE Untouched(n, e)
    BY <1>3, <2>2, <2>3, <2>4, <2>11 DEF Untouched
  <2> QED
    BY <1>1, <2>7, <2>10, <2>11
<1> QED
  BY <1>6, <1>7

LEMMA HeaderInit == Init => HeaderInv /\ ReadableByHeader
<1> SUFFICES ASSUME Init PROVE HeaderInv /\ ReadableByHeader
  OBVIOUS
<1>1. \A o \in Object : /\ object[o].layers = <<>> /\ Len(object[o].layers) = 0
                        /\ object[o].encoding = None
  BY DEF Init, SyncInit
<1>2. DOMAIN <<>> = {} /\ 1..0 = {}
  OBVIOUS
<1>3. \A o \in Object : Sound(object[o])
  BY <1>1, <1>2 DEF Sound, Packed
<1>4. \A m \in Msg, o \in Object : Untouched(m, object[o])
  BY <1>1 DEF Untouched
<1>5. \A m \in Msg : spc[m] = "new" /\ wire[m] = None
  BY DEF Init, SyncInit
<1> QED
  BY <1>3, <1>4, <1>5 DEF HeaderInv, ReadableByHeader

LEMMA HeaderStep ==
    ASSUME TypeInv, HeaderInv, ReadableByHeader, [Next]_vars
    PROVE  HeaderInv' /\ ReadableByHeader'
<1> USE DEF message
<1>0. \A m \in Msg : wire[m] # None => Readable(m, wire[m])
  BY DEF ReadableByHeader, Readable, Rid
<1>00. /\ object \in [Object -> Message] /\ \A m \in Msg : Passed[m] \in Object
       /\ spc \in [Msg -> {"new", "publish", "count", "sent", "failed"}]
  BY DEF TypeInv, SyncTypeOK, Object
<1>1. ASSUME \A m \in Msg : wire'[m] # None => Readable(m, wire'[m])
      PROVE  ReadableByHeader'
  BY <1>1 DEF ReadableByHeader, Readable, Rid
<1>01. ASSUME \A o \in Object : Sound(object'[o]),
              \A n \in Msg : spc'[n] = "new" => \A o \in Object : Untouched(n, object'[o]),
              \A n \in Msg : spc'[n] = "publish" => Readable(n, object'[Passed[n]])
       PROVE  HeaderInv'
  <2>1. \A o \in Object : Sound(object[o])'
    BY <1>01 DEF Sound, Packed
  <2>2. \A n \in Msg : spc'[n] = "new" => \A o \in Object : Untouched(n, object[o])'
    BY <1>01 DEF Untouched
  <2>3. \A n \in Msg : spc'[n] = "publish" => Readable(n, object[Passed[n]])'
    BY <1>01 DEF Readable, Rid, Reader, Packed, Decoded
  <2> QED
    BY <2>1, <2>2, <2>3 DEF HeaderInv
<1>2. ASSUME UNCHANGED <<object, wire>>,
             \A m \in Msg : spc'[m] \in {"new", "publish"} => spc'[m] = spc[m]
      PROVE  HeaderInv' /\ ReadableByHeader'
  <2>1. ReadableByHeader'
    BY <1>0, <1>1, <1>2
  <2>2. HeaderInv'
    BY <1>01, <1>2 DEF HeaderInv
  <2> QED
    BY <2>1, <2>2
<1>3. ASSUME NEW m \in Msg, SendPrepare(m) PROVE HeaderInv' /\ ReadableByHeader'
  <2>1. wire' = wire /\ spc[m] = "new" /\ spc' = [spc EXCEPT ![m] = "publish"] /\ Alone(m)
    BY <1>3 DEF SendPrepare
  <2>2. PICK msg \in Message :
             /\ msg = object'[Passed[m]]
             /\ Sound(msg) /\ Readable(m, msg)
             /\ \A n \in Msg \ {m} : Untouched(n, object[Passed[m]]) => Untouched(n, msg)
             /\ \A o \in Object : o # Passed[m] => object'[o] = object[o]
    <3>1. /\ object[Passed[m]] \in Message /\ Sound(object[Passed[m]])
          /\ Untouched(m, object[Passed[m]])
      BY <1>00, <2>1 DEF HeaderInv
    <3>2. CASE compressor = None
      <4>1. object' = object
        BY <1>3, <3>2 DEF SendPrepare
      <4> QED
        BY <3>1, <4>1, UntouchedReadable
    <3>3. CASE compressor # None
      <4>1. compressor \in Compressor
        BY <3>3 DEF TypeInv, SyncTypeOK
      <4>2. object' = [object EXCEPT ![Passed[m]] = Encoded(m, object[Passed[m]])]
        BY <1>3, <3>3 DEF SendPrepare
      <4>3. /\ object'[Passed[m]] = Encoded(m, object[Passed[m]])
            /\ \A o \in Object : o # Passed[m] => object'[o] = object[o]
        BY <1>00, <4>2
      <4> QED
        BY <3>1, <4>1, <4>3, EncodedTyped, EncodedReadable
    <3> QED
      BY <3>2, <3>3
  <2>3. \A o \in Object : Sound(object'[o])
    BY <2>2 DEF HeaderInv
  <2>4. ASSUME NEW n \in Msg, spc'[n] = "new", NEW o \in Object
        PROVE  Untouched(n, object'[o])
    <3>1. n # m /\ spc[n] = "new"
      BY <1>00, <2>1, <2>4
    <3> QED
      BY <2>2, <3>1 DEF HeaderInv
  <2>5. ASSUME NEW n \in Msg, spc'[n] = "publish" PROVE Readable(n, object'[Passed[n]])
    <3>1. CASE n = m
      BY <2>2, <3>1
    <3>2. CASE n # m
      <4>1. spc[n] = "publish"
        BY <1>00, <2>1, <2>5, <3>2
      <4>2. Passed[n] # Passed[m]
        BY <2>1, <3>2, <4>1 DEF Alone, Waiting
      <4> QED
        BY <1>00, <2>2, <4>1, <4>2 DEF HeaderInv
    <3> QED
      BY <3>1, <3>2
  <2>6. HeaderInv'
    BY <1>01, <2>3, <2>4, <2>5
  <2> QED
    BY <1>0, <1>1, <2>1, <2>6
<1>4. ASSUME NEW m \in Msg, SendPublish(m) PROVE HeaderInv' /\ ReadableByHeader'
  <2>1. /\ object' = object /\ spc[m] = "publish" /\ spc' = [spc EXCEPT ![m] = "count"]
        /\ wire' = [wire EXCEPT ![m] = object[Passed[m]]]
    BY <1>4 DEF SendPublish
  <2>2. Readable(m, object[Passed[m]])
    BY <2>1 DEF HeaderInv
  <2>3. \A n \in Msg : wire'[n] # None => Readable(n, wire'[n])
    BY <1>0, <2>1, <2>2 DEF TypeInv, SyncTypeOK
  <2>4. \A n \in Msg : spc'[n] \in {"new", "publish"} => spc'[n] = spc[n]
    BY <1>00, <2>1
  <2>5. HeaderInv'
    BY <1>01, <2>1, <2>4 DEF HeaderInv
  <2> QED
    BY <1>1, <2>3, <2>5
<1>5. ASSUME NEW m \in Msg,
             \/ SendCompressFails(m) \/ SendValueFails(m) \/ SendPublishFails(m)
             \/ SendReturn(m) \/ SendContextDone(m)
      PROVE  HeaderInv' /\ ReadableByHeader'
  <2>1. UNCHANGED <<object, wire>>
    BY <1>5 DEF SendCompressFails, SendValueFails, SendPublishFails, SendReturn,
                SendContextDone
  <2>2. \A n \in Msg : spc'[n] \in {"new", "publish"} => spc'[n] = spc[n]
    BY <1>00, <1>5 DEF SendCompressFails, SendValueFails, SendPublishFails, SendReturn,
                SendContextDone
  <2> QED
    BY <1>2, <2>1, <2>2
<1>6. ASSUME NEW c, SetCompressor(c) PROVE HeaderInv' /\ ReadableByHeader'
  BY <1>2, <1>6 DEF SetCompressor
<1>7. CASE BrokerClose \/ BrokerConnect \/ UNCHANGED syncVars
  BY <1>2, <1>7 DEF BrokerClose, BrokerConnect, syncVars
<1> QED
  BY <1>3, <1>4, <1>5, <1>6, <1>7, ProducerSteps DEF SyncStep

\* Whatever compressors are set between the calls, with one function, both or none,
\* and however often a message is sent again: what the broker took is decoded by a
\* compressor of the algorithm its header names that undoes what the call which set
\* the header did, and is then free of the layer its own call put around it.
THEOREM HeaderTruthful == Spec => []ReadableByHeader
<1>1. Init => HeaderInv /\ ReadableByHeader
  BY HeaderInit
<1>2. RetryInv /\ HeaderInv /\ ReadableByHeader /\ [Next]_vars => HeaderInv' /\ ReadableByHeader'
  BY HeaderStep DEF RetryInv
<1> QED
  BY <1>1, <1>2, RetryInvariant, PTL DEF Spec
-----------------------------------------------------------------------------
(* The backoffs.  The powers of the multiplier are defined by recursion:   *)
(* that there is a function with the defining equation is shown from the   *)
(* powers up to each exponent, by way of the least exponent that fails.    *)

\* f holds the powers of x up to n.
Powers(x, n, f) == f[0] = 1 /\ \A k \in 1..n : f[k] = x * f[k - 1]

\* There are such powers for every n: the least n without any would have some.
LEMMA PowersExist ==
    ASSUME NEW x \in Nat
    PROVE  \A n \in Nat : \E f \in [0..n -> Nat] : Powers(x, n, f)
<1> DEFINE S == {n \in Nat : ~\E f \in [0..n -> Nat] : Powers(x, n, f)}
<1> SUFFICES ASSUME S # {} PROVE FALSE
  OBVIOUS
<1>1. PICK n \in S : \A y \in S : n <= y
  BY LeastNatural
<1>2. CASE n = 0
  <2>1. /\ [k \in 0..0 |-> 1] \in [0..0 -> Nat]
        /\ [k \in 0..0 |-> 1][0] = 1
        /\ 1..0 = {}
    OBVIOUS
  <2>2. Powers(x, 0, [k \in 0..0 |-> 1])
    BY <2>1 DEF Powers
  <2> QED
    BY <1>1, <1>2, <2>1, <2>2
<1>3. CASE n # 0
  <2>1. n - 1 \in Nat /\ n - 1 \notin S
    BY <1>1, <1>3
  <2>2. PICK f \in [0..(n - 1) -> Nat] : Powers(x, n - 1, f)
    BY <2>1
  <2>3. PICK g : g = [k \in 0..n |-> IF k = n THEN x * f[n - 1] ELSE f[k]]
    OBVIOUS
  <2>4. f[n - 1] \in Nat /\ x * f[n - 1] \in Nat
    BY <2>1
  <2>5. \A k \in 0..(n - 1) : k \in 0..n /\ g[k] = f[k] /\ f[k] \in Nat
    BY <2>3
  <2>6. g \in [0..n -> Nat] /\ g[n] = x * f[n - 1]
    BY <2>3, <2>4, <2>5
  <2>7. ASSUME NEW k \in 1..n PROVE g[k] = x * g[k - 1]
    <3>1. k - 1 \in 0..(n - 1) /\ g[k - 1] = f[k - 1]
      BY <2>5
    <3>2. CASE k = n
      BY <2>6, <3>1, <3>2
    <3>3. CASE k # n
      <4>1. k \in 1..(n - 1) /\ k \in 0..(n - 1)
        BY <3>3
      <4> QED
        BY <2>2, <2>5, <3>1, <4>1 DEF Powers
    <3> QED
      BY <3>2, <3>3
  <2>8. g[0] = 1
    BY <2>1, <2>2, <2>5 DEF Powers
  <2> QED
    BY <2>6, <2>7, <2>8 DEF Powers
<1> QED
  BY <1>2, <1>3

\* There is only one way to compute a power.
LEMMA PowersUnique ==
    ASSUME NEW x \in Nat, NEW m \in Nat, NEW n \in Nat, m <= n, NEW f, NEW g,
           Powers(x, m, f), Powers(x, n, g)
    PROVE  \A k \in 0..m : f[k] = g[k]
<1> DEFINE S == {k \in 0..m : f[k] # g[k]}
<1> SUFFICES ASSUME S # {} PROVE FALSE
  OBVIOUS
<1>1. PICK k \in S : \A y \in S : k <= y
  <2>1. S \in SUBSET Nat
    OBVIOUS
  <2> QED
    BY <2>1, LeastNatural
<1>2. k # 0
  BY DEF Powers
<1>3. k \in 1..m /\ k \in 1..n /\ k - 1 \in 0..m /\ k - 1 \notin S
  BY <1>1, <1>2
<1> QED
  BY <1>1, <1>3 DEF Powers

\* Pow satisfies its defining equation, and is a natural number.
LEMMA PowFacts ==
    ASSUME NEW x \in Nat
    PROVE  /\ Pow(x, 0) = 1
           /\ \A n \in Nat : Pow(x, n) \in Nat /\ Pow(x, n + 1) = x * Pow(x, n)
<1> DEFINE F(q) == [k \in Nat |-> IF k = 0 THEN 1 ELSE x * q[k - 1]]
           upTo(n) == CHOOSE f \in [0..n -> Nat] : Powers(x, n, f)
           h == [n \in Nat |-> upTo(n)[n]]
           p == CHOOSE q : q = F(q)
<1>1. \A n \in Nat : upTo(n) \in [0..n -> Nat] /\ Powers(x, n, upTo(n))
  BY PowersExist
<1> HIDE DEF upTo
<1>2. h[0] = 1 /\ \A n \in Nat : h[n] \in Nat
  BY <1>1 DEF Powers
<1>3. ASSUME NEW n \in Nat PROVE h[n + 1] = x * h[n]
  <2>1. Powers(x, n, upTo(n)) /\ Powers(x, n + 1, upTo(n + 1)) /\ n + 1 \in Nat
    BY <1>1
  <2>2. upTo(n)[n] = upTo(n + 1)[n]
    BY <2>1, PowersUnique
  <2>3. upTo(n + 1)[n + 1] = x * upTo(n + 1)[(n + 1) - 1]
    BY <2>1 DEF Powers
  <2> QED
    BY <2>2, <2>3
<1> HIDE DEF h
<1>4. h = F(h)
  <2>1. \A k \in Nat : h[k] = F(h)[k]
    BY <1>2, <1>3
  <2>2. h = [n \in Nat |-> h[n]]
    BY DEF h
  <2> QED
    BY <2>1, <2>2
<1>5. p = F(p)
  BY <1>4
<1>6. \A n : Pow(x, n) = p[n]
  BY Zenon DEF Pow
<1> HIDE DEF p
<1>7. p[0] = 1 /\ \A n \in Nat : p[n + 1] = x * p[n]
  BY <1>5
<1>8. \A n \in Nat : p[n] \in Nat
  <2> DEFINE S == {n \in Nat : p[n] \notin Nat}
  <2> SUFFICES ASSUME S # {} PROVE FALSE
    OBVIOUS
  <2>1. PICK n \in S : \A y \in S : n <= y
    BY LeastNatural
  <2>2. n # 0
    BY <1>7
  <2>3. n - 1 \in Nat /\ n - 1 \notin S
    BY <2>1, <2>2
  <2>4. p[n] = x * p[n - 1]
    BY <1>7, <2>3
  <2> QED
    BY <2>3, <2>4
<1> QED
  BY <1>6, <1>7, <1>8

\* The durations of a policy are natural numbers.
LEMMA PolicyNumbers ==
    ASSUME policy \in Policy \cup {DefaultRetryPolicy}
    PROVE  policy.base \in Nat /\ policy.max \in Nat /\ policy.mult \in Nat
<1>1. CASE policy \in Policy
  <2>1. {policy.base, policy.max, policy.mult} \subseteq Nat
    BY <1>1, RetryAssumption
  <2> QED
    BY <2>1
<1>2. CASE policy = DefaultRetryPolicy
  BY <1>2 DEF DefaultRetryPolicy
<1> QED
  BY <1>1, <1>2

\* The cap of BackoffMax.
Capped(d) == IF d > policy.max THEN policy.max ELSE d

\* A multiple of a duration over the cap stays over it, so it makes no
\* difference whether the duration is capped before.
LEMMA CappedTwice ==
    ASSUME NEW k \in Nat, NEW d \in Nat, policy.max \in Nat
    PROVE  Capped(k * d) = Capped(k * Capped(d))
<1>1. CASE d <= policy.max
  BY <1>1 DEF Capped
<1>2. CASE d > policy.max
  <2>1. Capped(d) = policy.max
    BY <1>2 DEF Capped
  <2>2. CASE k = 0
    BY <2>1, <2>2
  <2>3. CASE k # 0
    <3>1. PICK j \in Nat : k = j + 1
      BY <2>3
    <3>2. k * d = j * d + d /\ j * d \in Nat
      BY <3>1
    <3>3. k * policy.max = j * policy.max + policy.max /\ j * policy.max \in Nat
      BY <3>1
    <3>4. Capped(k * d) = policy.max
      <4>1. k * d > policy.max
        BY <1>2, <3>2
      <4> QED
        BY <4>1 DEF Capped
    <3>5. Capped(k * policy.max) = policy.max
      BY <3>3 DEF Capped
    <3> QED
      BY <2>1, <3>4, <3>5
  <2> QED
    BY <2>2, <2>3
<1> QED
  BY <1>1, <1>2

\* What Delay computes: the base, and then the multiple of the delay before, as
\* far as the cap allows.
LEMMA DelayFacts ==
    ASSUME policy \in Policy \cup {DefaultRetryPolicy}
    PROVE  /\ Delay(0) = policy.base
           /\ \A n \in Nat : /\ Delay(n) \in Nat
                             /\ Delay(n + 1) = Capped(policy.mult * Delay(n))
<1>1. policy.base \in Nat /\ policy.max \in Nat /\ policy.mult \in Nat
  BY PolicyNumbers
<1>2. PICK pow \in [Nat -> Nat] :
          /\ \A n \in Nat : pow[n] = Pow(policy.mult, n)
          /\ pow[0] = 1
          /\ \A n \in Nat : pow[n + 1] = policy.mult * pow[n]
  <2>1. PICK f : f = [n \in Nat |-> Pow(policy.mult, n)]
    OBVIOUS
  <2>2. \A n \in Nat : f[n] \in Nat /\ f[n] = Pow(policy.mult, n)
    BY <1>1, <2>1, PowFacts
  <2>3. f \in [Nat -> Nat]
    BY <2>1, <2>2
  <2>4. f[0] = 1
    <3>1. Pow(policy.mult, 0) = 1
      BY <1>1, PowFacts, Zenon
    <3> QED
      BY <2>2, <3>1
  <2>5. ASSUME NEW n \in Nat PROVE f[n + 1] = policy.mult * f[n]
    <3>1. Pow(policy.mult, n + 1) = policy.mult * Pow(policy.mult, n)
      BY <1>1, PowFacts
    <3>2. n + 1 \in Nat
      OBVIOUS
    <3> QED
      BY <2>2, <3>1, <3>2
  <2> QED
    BY <2>2, <2>3, <2>4, <2>5
<1>3. Delay(0) = policy.base
  BY DEF Delay
<1>4. \A n \in Nat : policy.base * pow[n] \in Nat
  BY <1>1, <1>2
<1>5. \A n \in Nat : n # 0 => Delay(n) = Capped(policy.base * pow[n])
  BY <1>2 DEF Delay, Capped
<1>6. ASSUME NEW n \in Nat PROVE Delay(n) \in Nat
  BY <1>1, <1>3, <1>4, <1>5 DEF Capped
<1>7. ASSUME NEW n \in Nat PROVE Delay(n + 1) = Capped(policy.mult * Delay(n))
  <2>1. policy.base * pow[n + 1] = policy.mult * (policy.base * pow[n])
    <3>1. pow[n + 1] = policy.mult * pow[n] /\ pow[n] \in Nat
      BY <1>2
    <3> QED
      BY <1>1, <3>1
  <2>2. Delay(n + 1) = Capped(policy.mult * (policy.base * pow[n]))
    BY <1>5, <2>1
  <2>3. CASE n = 0
    BY <1>1, <1>2, <1>3, <2>2, <2>3
  <2>4. CASE n # 0
    <3>1. PICK d \in Nat : d = policy.base * pow[n]
      BY <1>4
    <3>2. Capped(policy.mult * d) = Capped(policy.mult * Capped(d))
      BY <1>1, CappedTwice
    <3>3. Delay(n) = Capped(d)
      BY <1>5, <2>4, <3>1
    <3> QED
      BY <2>2, <3>1, <3>2, <3>3
  <2> QED
    BY <2>3, <2>4
<1> QED
  BY <1>3, <1>6, <1>7

\* The attempt is the number of the backoffs begun, each of them the delay of
\* its attempt; a call that has returned may have no backoff yet.
WaitsInv ==
    /\ waits \in [Msg -> Seq(Nat)]
    /\ \A m \in Msg :
          /\ Len(waits[m]) = attempt[m]
          /\ attempt[m] \in {calls[m], calls[m] - 1}
          /\ \A i \in 1..Len(waits[m]) : waits[m][i] = Delay(i - 1)

LEMMA WaitsInit == Init => WaitsInv
<1> SUFFICES ASSUME Init PROVE WaitsInv
  OBVIOUS
<1>1. <<>> \in Seq(Nat) /\ Len(<<>>) = 0
  OBVIOUS
<1>2. waits \in [Msg -> Seq(Nat)] /\ \A m \in Msg : waits[m] = <<>>
  BY <1>1 DEF Init
<1>3. \A m \in Msg : attempt[m] = 0 /\ calls[m] = 0
  BY DEF Init
<1> QED
  BY <1>1, <1>2, <1>3 DEF WaitsInv

LEMMA WaitsStep ==
    ASSUME TypeInv, StageInv, WaitsInv, [Next]_vars
    PROVE  WaitsInv'
<1> USE DEF loop, past
<1>0. policy' = policy /\ \A i \in Int : Delay(i)' = Delay(i)
  BY PolicyKept DEF TypeInv, Delay
<1>1. ASSUME UNCHANGED <<attempt, waits>>,
             \A m \in Msg : attempt[m] \in {calls'[m], calls'[m] - 1}
      PROVE  WaitsInv'
  BY <1>0, <1>1 DEF WaitsInv
<1>2. CASE ProducerStep \/ SetOnFailure \/ UNCHANGED vars
  BY <1>1, <1>2 DEF ProducerStep, SetOnFailure, vars, WaitsInv
<1>3. ASSUME NEW m \in Msg, Deliver(m) PROVE WaitsInv'
  BY <1>1, <1>3 DEF Deliver, WaitsInv
<1>4. ASSUME NEW m \in Msg, \/ BackoffElapsed(m) \/ BackoffCancelled(m) \/ HandlePublish(m)
                            \/ HandlePublishFails(m) \/ HandleCount(m) \/ HandleNotify(m)
      PROVE  WaitsInv'
  <2>1. UNCHANGED <<attempt, waits, calls>>
    BY <1>4 DEF BackoffElapsed, BackoffCancelled, HandlePublish, HandlePublishFails,
                HandleCount, HandleNotify
  <2> QED
    BY <1>1, <2>1 DEF WaitsInv
<1>5. ASSUME NEW m \in Msg, phase[m] = "handler", calls' = [calls EXCEPT ![m] = calls[m] + 1],
             UNCHANGED <<attempt, waits>>
      PROVE  WaitsInv'
  <2>1. calls[m] = attempt[m] /\ calls[m] \in Nat
    BY <1>5 DEF StageInv, InLoop, TypeInv
  <2>2. \A n \in Msg : attempt[n] \in {calls'[n], calls'[n] - 1}
    BY <1>5, <2>1 DEF WaitsInv, TypeInv
  <2> QED
    BY <1>1, <1>5, <2>2
<1>6. ASSUME NEW m \in Msg, HandlerSucceeds(m) PROVE WaitsInv'
  BY <1>5, <1>6 DEF HandlerSucceeds
<1>7. ASSUME NEW m \in Msg, NEW err \in Error, HandlerFails(m, err) PROVE WaitsInv'
  <2>0. phase[m] = "handler" /\ calls' = [calls EXCEPT ![m] = calls[m] + 1]
    BY <1>7, Zenon DEF HandlerFails
  <2>1. CASE GivesUp(m, err)
    BY <1>5, <1>7, <2>0, <2>1 DEF HandlerFails
  <2>2. CASE ~GivesUp(m, err)
    <3>1. PICK d : d = Delay(attempt[m])
      OBVIOUS
    <3>2. /\ attempt' = [attempt EXCEPT ![m] = attempt[m] + 1]
          /\ waits' = [waits EXCEPT ![m] = Append(waits[m], d)]
      BY <1>7, <2>2, <3>1 DEF HandlerFails, Backoff
    <3>3. attempt[m] \in Nat /\ calls[m] = attempt[m]
      <4>1. policy.maxRetries \in Int
        BY PolicyKept DEF TypeInv
      <4> QED
        BY <2>0, <4>1 DEF TypeInv, StageInv, InLoop
    <3>4. d \in Nat
      BY <3>1, <3>3, DelayFacts DEF TypeInv
    <3>5. PICK q \in Seq(Nat) : q = waits[m]
      BY DEF WaitsInv
    <3>6. /\ Append(q, d) \in Seq(Nat) /\ Len(Append(q, d)) = Len(q) + 1
          /\ Append(q, d)[Len(q) + 1] = d
          /\ \A i \in 1..Len(q) : Append(q, d)[i] = q[i]
          /\ Len(q) \in Nat
      BY <3>4
    <3>7. waits' \in [Msg -> Seq(Nat)] /\ waits'[m] = Append(q, d)
      BY <3>2, <3>5, <3>6 DEF WaitsInv
    <3>8. attempt'[m] = attempt[m] + 1 /\ calls'[m] = calls[m] + 1
      BY <2>0, <3>2 DEF TypeInv
    <3>9. ASSUME NEW n \in Msg, n # m
          PROVE  waits'[n] = waits[n] /\ attempt'[n] = attempt[n] /\ calls'[n] = calls[n]
      BY <2>0, <3>2, <3>9 DEF TypeInv, WaitsInv
    <3>10. Len(q) = attempt[m] /\ \A i \in 1..Len(q) : q[i] = Delay(i - 1)
      BY <3>5 DEF WaitsInv
    <3>11. /\ Len(waits'[m]) = attempt'[m]
           /\ attempt'[m] \in {calls'[m], calls'[m] - 1}
      BY <3>3, <3>6, <3>7, <3>8, <3>10
    <3>12. ASSUME NEW i \in 1..Len(waits'[m]) PROVE waits'[m][i] = Delay(i - 1)'
      <4>1. i \in 1..Len(q) \/ i = Len(q) + 1
        BY <3>6, <3>7
      <4>2. waits'[m][i] = Delay(i - 1)
        <5>1. CASE i \in 1..Len(q)
          BY <3>6, <3>7, <3>10, <5>1
        <5>2. CASE i = Len(q) + 1
          <6>1. i - 1 = attempt[m]
            BY <3>3, <3>10, <5>2
          <6> QED
            BY <3>1, <3>6, <3>7, <5>2, <6>1
        <5> QED
          BY <4>1, <5>1, <5>2
      <4> QED
        BY <1>0, <3>6, <3>7, <4>2
    <3> QED
      <4>1. ASSUME NEW n \in Msg, n # m
            PROVE  /\ Len(waits'[n]) = attempt'[n]
                   /\ attempt'[n] \in {calls'[n], calls'[n] - 1}
                   /\ \A i \in 1..Len(waits'[n]) : waits'[n][i] = Delay(i - 1)'
        BY <1>0, <3>9, <4>1 DEF WaitsInv
      <4> QED
        BY <3>7, <3>11, <3>12, <4>1 DEF WaitsInv
  <2> QED
    BY <2>1, <2>2
<1> QED
  BY <1>2, <1>3, <1>4, <1>6, <1>7 DEF Next, Delivery

LEMMA WaitsInvariant == Spec => [](RetryInv /\ WaitsInv)
<1>1. RetryInv /\ WaitsInv /\ [Next]_vars => WaitsInv'
  BY WaitsStep DEF RetryInv
<1> QED
  BY <1>1, WaitsInit, RetryInvariant, PTL DEF Spec

\* Every variable has its type: among them the attempt, which never exceeds
\* MaxRetries, and the durations of the backoffs, whatever the multiplier.
THEOREM RetryTypes == Spec => []TypeOK
<1>1. RetryInv /\ WaitsInv => TypeOK
  BY DEF RetryInv, WaitsInv, TypeInv, TypeOK
<1> QED
  BY <1>1, WaitsInvariant, PTL

\* The backoffs of WithRetry: the base first, where it is within the cap, then each
\* the multiple of the one before, capped, although Delay computes each from the
\* base by a power and does not cap the first; and one between any two calls of
\* the handler.
THEOREM BackoffsGrow == Spec => []BackoffGrows
<1>1. ASSUME RetryInv, WaitsInv, NEW m \in Msg
      PROVE  /\ Len(waits[m]) \in {calls[m], calls[m] - 1}
             /\ \A i \in DOMAIN waits[m] :
                    LET next == IF i = 1 THEN policy.base ELSE policy.mult * waits[m][i - 1]
                    IN  IF next <= policy.max THEN waits[m][i] = next
                                              ELSE i > 1 => waits[m][i] = policy.max
  <2>1. Len(waits[m]) \in {calls[m], calls[m] - 1}
    BY <1>1 DEF WaitsInv
  <2>2. PICK q \in Seq(Nat) : q = waits[m] /\ \A i \in 1..Len(q) : q[i] = Delay(i - 1)
    BY <1>1 DEF WaitsInv
  <2>3. DOMAIN q = 1..Len(q) /\ Len(q) \in Nat
    OBVIOUS
  <2>4. ASSUME NEW i \in 1..Len(q), i # 1
        PROVE  IF policy.mult * q[i - 1] <= policy.max
               THEN q[i] = policy.mult * q[i - 1]
               ELSE q[i] = policy.max
    <3>1. i - 1 \in 1..Len(q) /\ (i - 1) - 1 \in Nat /\ ((i - 1) - 1) + 1 = i - 1
      BY <2>3, <2>4
    <3>2. q[i] = Delay(((i - 1) - 1) + 1) /\ q[i - 1] = Delay((i - 1) - 1)
      BY <2>2, <3>1
    <3>3. q[i] = Capped(policy.mult * q[i - 1])
      BY <1>1, <3>1, <3>2, DelayFacts DEF RetryInv, TypeInv
    <3>4. policy.max \in Nat /\ policy.mult * q[i - 1] \in Nat
      <4>1. policy.max \in Nat /\ policy.mult \in Nat
        BY <1>1, PolicyNumbers DEF RetryInv, TypeInv
      <4>2. q[i - 1] \in Nat
        BY <3>1
      <4> QED
        BY <4>1, <4>2
    <3> QED
      BY <3>3, <3>4 DEF Capped
  <2>5. ASSUME 1 \in 1..Len(q) PROVE q[1] = policy.base
    <3>1. q[1] = Delay(0)
      BY <2>2, <2>5
    <3> QED
      BY <1>1, <3>1, DelayFacts DEF RetryInv, TypeInv
  <2> QED
    BY <2>1, <2>2, <2>3, <2>4, <2>5
<1>2. RetryInv /\ WaitsInv => BackoffGrows
  BY <1>1, Zenon DEF BackoffGrows
<1> QED
  BY <1>2, WaitsInvariant, PTL
=============================================================================
