-------------------------- MODULE AdapterConsumer --------------------------
(***************************************************************************)
(* The subscribe side of the broker adapters: Consumer of                  *)
(* pkg/kafka/kafka.go.  pkg/rabbitmq/rabbitmq.go has the same control with *)
(* a channel in the place of a cancel function; RabbitConsumer adds it.    *)
(*                                                                         *)
(* connected, closed and a subscription's active flag are atomics that are *)
(* read and written outside c.mu; the map of subscriptions is guarded by   *)
(* it.  Any number of goroutines call any of the methods, and the holder   *)
(* of a subscription may call its Unsubscribe at any time.  IsConnected    *)
(* reads connected, then closed; closed is never cleared and connected is  *)
(* cleared only after it is set, so the answer is that of the second read. *)
(* A call that is refused (not connected, no topic, no handler, invalid    *)
(* configuration) changes nothing.                                         *)
(***************************************************************************)
EXTENDS Naturals, FiniteSets

CONSTANTS
    Topic,      \* topic or queue names
    Sub,        \* subscriptions, one per successful Subscribe call
    Agent,      \* goroutines that use the consumer
    NoTopic,    \* the topic of a subscription that does not exist yet
    NoSub,      \* the topic is not a key of c.subscriptions
    Nobody      \* c.mu is free

ASSUME AdapterAssumption ==
    /\ NoTopic \notin Topic
    /\ NoSub \notin Sub
    /\ Nobody \notin Agent

VARIABLES
    connected,        \* c.connected
    closed,           \* c.closed
    mu,               \* the holder of c.mu
    subscriptions,    \* c.subscriptions
    topic,            \* the topic of a subscription
    active,           \* the active flag of a subscription
    pc,               \* where a goroutine is
    arg,              \* the topic or the subscription its call is about
    todo,             \* the topics the loop of its Close has still to visit
    cancels,          \* history: how often a subscription was cancelled
    inTime,           \* history: the subscriptions made before Close took c.mu
    closeReturned     \* history: the Close that did the work has returned

adapter == <<connected, closed, mu, subscriptions>>
subs    == <<topic, active>>
calls   == <<pc, arg, todo>>
history == <<cancels, inTime, closeReturned>>
vars    == <<adapter, subs, calls, history>>

Pc == {"idle", "connectStore", "subscribeLock", "unsubscribeCancel", "userCancel",
       "closeLock", "closeLoop", "closeCancel"}

Init ==
    /\ connected = FALSE
    /\ closed = FALSE
    /\ mu = Nobody
    /\ subscriptions = [t \in Topic |-> NoSub]
    /\ topic = [s \in Sub |-> NoTopic]
    /\ active = [s \in Sub |-> FALSE]
    /\ pc = [a \in Agent |-> "idle"]
    /\ arg = [a \in Agent |-> NoTopic]
    /\ todo = [a \in Agent |-> {}]
    /\ cancels = [s \in Sub |-> 0]
    /\ inTime = {}
    /\ closeReturned = FALSE

Goto(a, p) == pc' = [pc EXCEPT ![a] = p]

\* Mutant: closed is not looked at.
IsConnectedFlag == connected

IsConnected == connected /\ ~closed

-----------------------------------------------------------------------------
(* Connect: connected is loaded, and stored once the configuration is      *)
(* found valid.                                                            *)

ConnectCheck(a) ==
    /\ pc[a] = "idle"
    /\ ~connected
    /\ Goto(a, "connectStore")
    /\ UNCHANGED <<adapter, subs, arg, todo, history>>

ConnectStore(a) ==
    /\ pc[a] = "connectStore"
    /\ connected' = TRUE
    /\ Goto(a, "idle")
    /\ UNCHANGED <<closed, mu, subscriptions, subs, arg, todo, history>>

-----------------------------------------------------------------------------
(* Subscribe: the check is made before c.mu is taken and not repeated.     *)

SubscribeCheck(a, t) ==
    /\ pc[a] = "idle"
    /\ IsConnected
    /\ Goto(a, "subscribeLock")
    /\ arg' = [arg EXCEPT ![a] = t]
    /\ UNCHANGED <<adapter, subs, todo, history>>

\* An earlier subscription to the topic is overwritten in the map.
SubscribeLocked(a, s) ==
    /\ pc[a] = "subscribeLock"
    /\ mu = Nobody
    /\ topic[s] = NoTopic
    /\ topic' = [topic EXCEPT ![s] = arg[a]]
    /\ active' = [active EXCEPT ![s] = TRUE]
    /\ subscriptions' = [subscriptions EXCEPT ![arg[a]] = s]
    /\ Goto(a, "idle")
    /\ inTime' = IF closeReturned THEN inTime ELSE inTime \cup {s}
    /\ UNCHANGED <<connected, closed, mu, arg, todo, cancels, closeReturned>>

-----------------------------------------------------------------------------
(* The Unsubscribe of a subscription: active.Swap(false), and whoever got  *)
(* true calls cancelFn.                                                    *)

Deactivate(s) == active' = [active EXCEPT ![s] = FALSE]

CancelFn(s) == cancels' = [cancels EXCEPT ![s] = @ + 1]

\* Mutant: active.Load() instead of active.Swap(false).
UserUnsubscribeLoad(a, s) ==
    /\ pc[a] = "idle"
    /\ active[s]
    /\ Goto(a, "userCancel")
    /\ arg' = [arg EXCEPT ![a] = s]
    /\ UNCHANGED <<adapter, subs, todo, history>>

UserUnsubscribe(a, s) ==
    /\ pc[a] = "idle"
    /\ active[s]
    /\ Deactivate(s)
    /\ Goto(a, "userCancel")
    /\ arg' = [arg EXCEPT ![a] = s]
    /\ UNCHANGED <<adapter, topic, todo, history>>

UserCancel(a) ==
    /\ pc[a] = "userCancel"
    /\ CancelFn(arg[a])
    /\ Goto(a, "idle")
    /\ UNCHANGED <<adapter, subs, arg, todo, inTime, closeReturned>>

-----------------------------------------------------------------------------
(* Unsubscribe(topic), under c.mu from beginning to end.                   *)

\* The subscription is still active: cancelFn will be called.
UnsubscribeActive(a, t) ==
    /\ pc[a] = "idle"
    /\ mu = Nobody
    /\ subscriptions[t] # NoSub
    /\ active[subscriptions[t]]
    /\ mu' = a
    /\ Deactivate(subscriptions[t])
    /\ Goto(a, "unsubscribeCancel")
    /\ arg' = [arg EXCEPT ![a] = subscriptions[t]]
    /\ UNCHANGED <<connected, closed, subscriptions, topic, todo, history>>

\* Mutant: no deferred Unlock.
UnsubscribeCancelLocked(a) ==
    /\ pc[a] = "unsubscribeCancel"
    /\ CancelFn(arg[a])
    /\ subscriptions' = [subscriptions EXCEPT ![topic[arg[a]]] = NoSub]
    /\ Goto(a, "idle")
    /\ UNCHANGED <<connected, closed, mu, subs, arg, todo, inTime, closeReturned>>

UnsubscribeCancel(a) ==
    /\ pc[a] = "unsubscribeCancel"
    /\ CancelFn(arg[a])
    /\ subscriptions' = [subscriptions EXCEPT ![topic[arg[a]]] = NoSub]
    /\ mu' = Nobody
    /\ Goto(a, "idle")
    /\ UNCHANGED <<connected, closed, subs, arg, todo, inTime, closeReturned>>

\* Its holder was faster: it is only deleted from the map.
UnsubscribeInactive(a, t) ==
    /\ pc[a] = "idle"
    /\ mu = Nobody
    /\ subscriptions[t] # NoSub
    /\ ~active[subscriptions[t]]
    /\ subscriptions' = [subscriptions EXCEPT ![t] = NoSub]
    /\ UNCHANGED <<connected, closed, mu, subs, calls, history>>

-----------------------------------------------------------------------------
(* Close: closed.Swap(true) lets one call through, which then takes c.mu.  *)

CloseSwap(a) ==
    /\ pc[a] = "idle"
    /\ ~closed
    /\ closed' = TRUE
    /\ Goto(a, "closeLock")
    /\ UNCHANGED <<connected, mu, subscriptions, subs, arg, todo, history>>

\* Mutant: the loop takes the values of the map for its keys.
CloseLockValues(a) ==
    /\ pc[a] = "closeLock"
    /\ mu = Nobody
    /\ mu' = a
    /\ todo' = [todo EXCEPT ![a] =
           {subscriptions[t] : t \in {u \in Topic : subscriptions[u] # NoSub}}]
    /\ Goto(a, "closeLoop")
    /\ UNCHANGED <<connected, closed, subscriptions, subs, arg, history>>

CloseLock(a) ==
    /\ pc[a] = "closeLock"
    /\ mu = Nobody
    /\ mu' = a
    /\ todo' = [todo EXCEPT ![a] = {t \in Topic : subscriptions[t] # NoSub}]
    /\ Goto(a, "closeLoop")
    /\ UNCHANGED <<connected, closed, subscriptions, subs, arg, history>>

CloseActive(a, t) ==
    /\ pc[a] = "closeLoop"
    /\ t \in todo[a]
    /\ active[subscriptions[t]]
    /\ Deactivate(subscriptions[t])
    /\ Goto(a, "closeCancel")
    /\ arg' = [arg EXCEPT ![a] = subscriptions[t]]
    /\ todo' = [todo EXCEPT ![a] = @ \ {t}]
    /\ UNCHANGED <<adapter, topic, history>>

CloseInactive(a, t) ==
    /\ pc[a] = "closeLoop"
    /\ t \in todo[a]
    /\ ~active[subscriptions[t]]
    /\ todo' = [todo EXCEPT ![a] = @ \ {t}]
    /\ UNCHANGED <<adapter, subs, pc, arg, history>>

\* Mutant: the loop ends after the first subscription it cancels.
CloseCancelBreak(a) ==
    /\ pc[a] = "closeCancel"
    /\ CancelFn(arg[a])
    /\ Goto(a, "closeLoop")
    /\ todo' = [todo EXCEPT ![a] = {}]
    /\ UNCHANGED <<adapter, subs, arg, inTime, closeReturned>>

CloseCancel(a) ==
    /\ pc[a] = "closeCancel"
    /\ CancelFn(arg[a])
    /\ Goto(a, "closeLoop")
    /\ UNCHANGED <<adapter, subs, arg, todo, inTime, closeReturned>>

CloseDone(a) ==
    /\ pc[a] = "closeLoop"
    /\ todo[a] = {}
    /\ connected' = FALSE
    /\ mu' = Nobody
    /\ Goto(a, "idle")
    /\ closeReturned' = TRUE
    /\ UNCHANGED <<closed, subscriptions, subs, arg, todo, cancels, inTime>>

-----------------------------------------------------------------------------
\* A goroutine makes a call, ...
Call(a) ==
    \/ ConnectCheck(a)
    \/ \E t \in Topic : SubscribeCheck(a, t)
    \/ \E s \in Sub : UserUnsubscribe(a, s)
    \/ \E t \in Topic : UnsubscribeActive(a, t)
    \/ \E t \in Topic : UnsubscribeInactive(a, t)
    \/ CloseSwap(a)

\* ... and goes on with it.
CallStep(a) ==
    \/ ConnectStore(a)
    \/ \E s \in Sub : SubscribeLocked(a, s)
    \/ UserCancel(a)
    \/ UnsubscribeCancel(a)
    \/ CloseLock(a)
    \/ \E t \in Topic : CloseActive(a, t)
    \/ \E t \in Topic : CloseInactive(a, t)
    \/ CloseCancel(a)
    \/ CloseDone(a)

Next == \E a \in Agent : Call(a) \/ CallStep(a)

Spec == Init /\ [][Next]_vars

-----------------------------------------------------------------------------
(* Properties.                                                             *)

\* The type invariant.
TypeOK ==
    /\ connected \in BOOLEAN
    /\ closed \in BOOLEAN
    /\ mu \in Agent \cup {Nobody}
    /\ subscriptions \in [Topic -> Sub \cup {NoSub}]
    /\ topic \in [Sub -> Topic \cup {NoTopic}]
    /\ active \in [Sub -> BOOLEAN]
    /\ pc \in [Agent -> Pc]
    /\ arg \in [Agent -> Topic \cup Sub \cup {NoTopic}]
    /\ todo \in [Agent -> SUBSET Topic]
    /\ cancels \in [Sub -> Nat]
    /\ inTime \subseteq Sub
    /\ closeReturned \in BOOLEAN

Cancelling(s) ==
    \E a \in Agent :
        pc[a] \in {"userCancel", "unsubscribeCancel", "closeCancel"} /\ arg[a] = s

\* The three ways to cancel a subscription race on one flag: it is cancelled at
\* most once, and as soon as it is inactive it has been cancelled or is about
\* to be, by exactly one of them.
CancelledOnce ==
    \A s \in Sub :
        topic[s] # NoTopic =>
            cancels[s] = IF active[s] \/ Cancelling(s) THEN 0 ELSE 1

\* What Close can promise: a subscription that is in the map and was made
\* before Close took c.mu is inactive when Close returns.
CloseCancelsMapped ==
    closeReturned =>
        \A t \in Topic : subscriptions[t] \in inTime => ~active[subscriptions[t]]

\* The subscriptions that were made and those that are being made.
Subscribed ==
    Cardinality({s \in Sub : topic[s] # NoTopic})
        + Cardinality({a \in Agent : pc[a] = "subscribeLock"})

\* Close is final for Subscribe: once closed is set, the only subscriptions still
\* to come are those of calls that were waiting for c.mu by then, although a
\* Connect that was under way, or that is called after Close and returns nil,
\* sets connected again.
CloseIsFinal == [][closed => Subscribed' <= Subscribed]_vars

\* Every Close returns.
CloseReturns ==
    \A a \in Agent : pc[a] = "closeLock" ~> pc[a] = "idle"
=============================================================================
