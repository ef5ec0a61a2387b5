--------------------------- MODULE RabbitConsumer ---------------------------
(***************************************************************************)
(* Consumer of pkg/rabbitmq/rabbitmq.go: the control of AdapterConsumer,   *)
(* with a channel per subscription that cancelling it closes.  Calling a   *)
(* cancel function twice is harmless, closing a channel twice panics.      *)
(***************************************************************************)
EXTENDS AdapterConsumer

VARIABLES
    cancelCh,    \* the cancelCh of a subscription: "nil", "open" or "closed"
    panicked     \* a goroutine panicked, which ends the process

rabbitVars == <<vars, cancelCh, panicked>>

RabbitInit ==
    /\ Init
    /\ cancelCh = [s \in Sub |-> "nil"]
    /\ panicked = FALSE

RabbitConnect(a) ==
    /\ ~panicked
    /\ ConnectCheck(a) \/ ConnectStore(a)
    /\ UNCHANGED <<cancelCh, panicked>>

RabbitSubscribe(a) ==
    /\ ~panicked
    /\ \/ /\ \E t \in Topic : SubscribeCheck(a, t)
          /\ UNCHANGED cancelCh
       \/ \E s \in Sub :
             /\ SubscribeLocked(a, s)
             /\ cancelCh' = [cancelCh EXCEPT ![s] = "open"]
    /\ UNCHANGED panicked

\* Mutant: the channel is not closed.
CloseCancelChNot(s) == UNCHANGED <<cancelCh, panicked>>

\* close(s.cancelCh), by whoever cleared the active flag.
CloseCancelCh(s) ==
    IF cancelCh[s] = "open"
    THEN cancelCh' = [cancelCh EXCEPT ![s] = "closed"] /\ UNCHANGED panicked
    ELSE panicked' = TRUE /\ UNCHANGED cancelCh

\* rabbitSubscription.Unsubscribe, called by the holder.
RabbitSubUnsubscribe(a) ==
    /\ ~panicked
    /\ \/ (\E s \in Sub : UserUnsubscribe(a, s)) /\ UNCHANGED <<cancelCh, panicked>>
       \/ UserCancel(a) /\ CloseCancelCh(arg[a])

RabbitUnsubscribe(a) ==
    /\ ~panicked
    /\ \/ /\ \E t \in Topic : UnsubscribeActive(a, t) \/ UnsubscribeInactive(a, t)
          /\ UNCHANGED <<cancelCh, panicked>>
       \/ UnsubscribeCancel(a) /\ CloseCancelCh(arg[a])

RabbitClose(a) ==
    /\ ~panicked
    /\ \/ /\ \/ CloseSwap(a)
             \/ CloseLock(a)
             \/ \E t \in Topic : CloseActive(a, t) \/ CloseInactive(a, t)
             \/ CloseDone(a)
          /\ UNCHANGED <<cancelCh, panicked>>
       \/ CloseCancel(a) /\ CloseCancelCh(arg[a])

RabbitStep(a) ==
    \/ RabbitConnect(a)
    \/ RabbitSubscribe(a)
    \/ RabbitSubUnsubscribe(a)
    \/ RabbitUnsubscribe(a)
    \/ RabbitClose(a)

RabbitNext == \E a \in Agent : RabbitStep(a)

RabbitSpec == RabbitInit /\ [][RabbitNext]_rabbitVars

\* A call in progress goes on; a sync.RWMutex hands over to a waiter that
\* starves.  Nobody has to make a call.
RabbitFairSpec ==
    /\ RabbitSpec
    /\ \A a \in Agent :
           /\ WF_rabbitVars(pc[a] # "idle" /\ RabbitStep(a))
           /\ SF_rabbitVars(pc[a] = "closeLock" /\ RabbitClose(a))

-----------------------------------------------------------------------------
\* The channel tells the truth about the flag: a reader of cancelCh is released
\* when, and only when, the subscription has been cancelled.  Its holder,
\* Unsubscribe(topic) and Close may cancel it at the same time, and none of them
\* closes a closed channel.
ChannelFollowsFlag ==
    /\ ~panicked
    /\ \A s \in Sub :
           /\ cancelCh[s] = "open" <=> topic[s] # NoTopic /\ (active[s] \/ Cancelling(s))
           /\ cancelCh[s] = "closed" => ~active[s]
=============================================================================
