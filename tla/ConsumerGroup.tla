--------------------------- MODULE ConsumerGroup ---------------------------
(***************************************************************************)
(* The consumer group of pkg/consumer/consumer.go on an InMemoryBroker.    *)
(*                                                                         *)
(* Start looks at running before it takes cg.mu, Stop swaps it before it   *)
(* takes cg.mu; under the lock both walk a map, in any order, with one     *)
(* call to the broker per topic.  The broker goes on in between: it is     *)
(* closed, reconnected and unsubscribed from by others.  A subscription    *)
(* handle is known to the group alone, so only the group calls its         *)
(* Unsubscribe, whose two steps are those of InMemoryBroker.               *)
(***************************************************************************)
EXTENDS InMemoryBroker

CONSTANTS
    Caller,      \* goroutines that call Start and Stop, one call at a time
    MaxCalls,    \* bound: the calls they make together
    NoSub,       \* the topic is not a key of cg.subscriptions
    Nobody       \* cg.mu is free

ASSUME GroupAssumption ==
    /\ MaxCalls \in Nat
    /\ NoSub \notin Sub
    /\ Nobody \notin Caller

VARIABLES
    handlers,         \* the keys of cg.handlers
    subscriptions,    \* cg.subscriptions
    running,          \* cg.running
    mu,               \* the holder of cg.mu
    pc,               \* where a caller is in Start or Stop
    todo,             \* the topics its loop has still to visit
    calls,            \* the number of calls made
    wanted,           \* history: the topics the last successful Start found
    overlapped        \* history: a call was made while another was in progress

group   == <<handlers, subscriptions, running, mu, pc, todo, calls, wanted, overlapped>>
allVars == <<vars, group>>

Pc == {"idle", "startLock", "subscribing", "cleanup", "cleanupSub",
       "stopLock", "stopping", "stoppingSub"}

GroupInit ==
    /\ Init
    /\ handlers = {}
    /\ subscriptions = [t \in Topic |-> NoSub]
    /\ running = FALSE
    /\ mu = Nobody
    /\ pc = [c \in Caller |-> "idle"]
    /\ todo = [c \in Caller |-> {}]
    /\ calls = 0
    /\ wanted = {}
    /\ overlapped = FALSE

Add(t) ==
    /\ ~panicked
    /\ mu = Nobody
    /\ handlers' = handlers \cup {t}
    /\ UNCHANGED <<vars, subscriptions, running, mu, pc, todo, calls, wanted, overlapped>>

\* A caller makes its next call.
Called(c) ==
    /\ pc[c] = "idle"
    /\ calls < MaxCalls
    /\ calls' = calls + 1
    /\ overlapped' = (overlapped \/ \E d \in Caller : pc[d] # "idle")

-----------------------------------------------------------------------------
(* Start.                                                                  *)

\* Mutant: Start does not look at running.
StartCheckNothing(c) ==
    /\ ~panicked
    /\ Called(c)
    /\ pc' = [pc EXCEPT ![c] = "startLock"]
    /\ UNCHANGED <<vars, handlers, subscriptions, running, mu, todo, wanted>>

StartCheck(c) ==
    /\ ~panicked
    /\ Called(c)
    /\ pc' = [pc EXCEPT ![c] = IF running THEN "idle" ELSE "startLock"]
    /\ UNCHANGED <<vars, handlers, subscriptions, running, mu, todo, wanted>>

StartLock(c) ==
    /\ ~panicked
    /\ pc[c] = "startLock"
    /\ mu = Nobody
    /\ mu' = c
    /\ pc' = [pc EXCEPT ![c] = "subscribing"]
    /\ todo' = [todo EXCEPT ![c] = handlers]
    /\ UNCHANGED <<vars, handlers, subscriptions, running, calls, wanted, overlapped>>

NewSubs == {s \in Sub : subTopic[s] = NoTopic}

\* broker.Subscribe succeeds with a new handle: which element of Sub stands for
\* it makes no difference.
StartSubscribe(c, t) ==
    LET s == CHOOSE s \in NewSubs : TRUE
    IN  /\ pc[c] = "subscribing"
        /\ t \in todo[c]
        /\ NewSubs # {}
        /\ Subscribe(s, t)
        /\ subscriptions' = [subscriptions EXCEPT ![t] = s]
        /\ todo' = [todo EXCEPT ![c] = @ \ {t}]
        /\ UNCHANGED <<handlers, running, mu, pc, calls, wanted, overlapped>>

Subscribed == {t \in Topic : subscriptions[t] # NoSub}

\* Mutant: Start returns the error without cleaning up.
StartSubscribeFailsNoCleanup(c) ==
    /\ ~panicked
    /\ pc[c] = "subscribing"
    /\ todo[c] # {}
    /\ ~connected
    /\ pc' = [pc EXCEPT ![c] = "idle"]
    /\ todo' = [todo EXCEPT ![c] = {}]
    /\ mu' = Nobody
    /\ UNCHANGED <<vars, handlers, subscriptions, running, calls, wanted, overlapped>>

\* broker.Subscribe fails: the broker was closed.
StartSubscribeFails(c) ==
    /\ ~panicked
    /\ pc[c] = "subscribing"
    /\ todo[c] # {}
    /\ ~connected
    /\ pc' = [pc EXCEPT ![c] = "cleanup"]
    /\ todo' = [todo EXCEPT ![c] = Subscribed]
    /\ UNCHANGED <<vars, handlers, subscriptions, running, mu, calls, wanted, overlapped>>

\* running.Store(true), and the deferred Unlock.
StartDone(c) ==
    /\ ~panicked
    /\ pc[c] = "subscribing"
    /\ todo[c] = {}
    /\ running' = TRUE
    /\ wanted' = handlers
    /\ mu' = Nobody
    /\ pc' = [pc EXCEPT ![c] = "idle"]
    /\ UNCHANGED <<vars, handlers, subscriptions, todo, calls, overlapped>>

-----------------------------------------------------------------------------
(* Stop.                                                                   *)

StopSwap(c) ==
    /\ ~panicked
    /\ Called(c)
    /\ running' = FALSE
    /\ pc' = [pc EXCEPT ![c] = IF running THEN "stopLock" ELSE "idle"]
    /\ UNCHANGED <<vars, handlers, subscriptions, mu, todo, wanted>>

\* Mutant: the loop takes the values of the map for its keys.
StopLockValues(c) ==
    /\ ~panicked
    /\ pc[c] = "stopLock"
    /\ mu = Nobody
    /\ mu' = c
    /\ pc' = [pc EXCEPT ![c] = "stopping"]
    /\ todo' = [todo EXCEPT ![c] = {subscriptions[t] : t \in Subscribed}]
    /\ UNCHANGED <<vars, handlers, subscriptions, running, calls, wanted, overlapped>>

StopLock(c) ==
    /\ ~panicked
    /\ pc[c] = "stopLock"
    /\ mu = Nobody
    /\ mu' = c
    /\ pc' = [pc EXCEPT ![c] = "stopping"]
    /\ todo' = [todo EXCEPT ![c] = Subscribed]
    /\ UNCHANGED <<vars, handlers, subscriptions, running, calls, wanted, overlapped>>

-----------------------------------------------------------------------------
(* The loop of Stop and of the cleanup: sub.Unsubscribe() for every topic. *)

Inside(p) == CASE p = "cleanup" -> "cleanupSub" [] p = "stopping" -> "stoppingSub"
Outside(p) == CASE p = "cleanupSub" -> "cleanup" [] p = "stoppingSub" -> "stopping"

\* A handle in the map is active: the map is emptied before cg.mu is released
\* whenever its handles have been cancelled.
UnsubscribeBegin(c, t) ==
    /\ pc[c] \in {"cleanup", "stopping"}
    /\ t \in todo[c]
    /\ SubUnsubscribe(subscriptions[t])
    /\ pc' = [pc EXCEPT ![c] = Inside(pc[c])]
    /\ UNCHANGED <<handlers, subscriptions, running, mu, todo, calls, wanted, overlapped>>

UnsubscribeEnd(c, t) ==
    /\ pc[c] \in {"cleanupSub", "stoppingSub"}
    /\ t \in todo[c]
    /\ SubUnsubscribeFinish(subscriptions[t])
    /\ pc' = [pc EXCEPT ![c] = Outside(pc[c])]
    /\ todo' = [todo EXCEPT ![c] = @ \ {t}]
    /\ UNCHANGED <<handlers, subscriptions, running, mu, calls, wanted, overlapped>>

\* Mutant: cg.mu is not released.
UnsubscribeAllDoneLocked(c) ==
    /\ ~panicked
    /\ pc[c] \in {"cleanup", "stopping"}
    /\ todo[c] = {}
    /\ subscriptions' = [t \in Topic |-> NoSub]
    /\ pc' = [pc EXCEPT ![c] = "idle"]
    /\ UNCHANGED <<vars, handlers, running, mu, todo, calls, wanted, overlapped>>

\* The map is replaced by an empty one, and cg.mu is released.
UnsubscribeAllDone(c) ==
    /\ ~panicked
    /\ pc[c] \in {"cleanup", "stopping"}
    /\ todo[c] = {}
    /\ subscriptions' = [t \in Topic |-> NoSub]
    /\ mu' = Nobody
    /\ pc' = [pc EXCEPT ![c] = "idle"]
    /\ UNCHANGED <<vars, handlers, running, todo, calls, wanted, overlapped>>

-----------------------------------------------------------------------------
CallStep(c) ==
    \/ StartLock(c)
    \/ \E t \in Topic : StartSubscribe(c, t)
    \/ StartSubscribeFails(c)
    \/ StartDone(c)
    \/ StopLock(c)
    \/ \E t \in Topic : UnsubscribeBegin(c, t)
    \/ \E t \in Topic : UnsubscribeEnd(c, t)
    \/ UnsubscribeAllDone(c)

\* What others do to the broker.
BrokerStep ==
    /\ \/ Connect
       \/ Close
       \/ \E t \in Topic, m \in Msg : Publish(t, m)
       \/ \E t \in Topic : Unsubscribe(t)
       \/ \E g \in inflight : RunHandler(g)
    /\ UNCHANGED group

GroupNext ==
    \/ \E t \in Topic : Add(t)
    \/ \E c \in Caller : StartCheck(c) \/ StopSwap(c) \/ CallStep(c)
    \/ BrokerStep

GroupSpec == GroupInit /\ [][GroupNext]_allVars

\* A call in progress goes on; a mutex that is freed again and again is not
\* denied to one waiter for ever (a sync.RWMutex hands over to a waiter that
\* starves).  Nobody has to make a call or touch the broker.
GroupFairness ==
    \A c \in Caller :
        /\ WF_allVars(CallStep(c))
        /\ SF_allVars(StartLock(c))
        /\ SF_allVars(StopLock(c))

GroupFairSpec == GroupSpec /\ GroupFairness

-----------------------------------------------------------------------------
(* Properties.                                                             *)

\* The type invariant.
GroupTypeOK ==
    /\ TypeOK
    /\ handlers \subseteq Topic
    /\ subscriptions \in [Topic -> Sub \cup {NoSub}]
    /\ running \in BOOLEAN
    /\ mu \in Caller \cup {Nobody}
    /\ pc \in [Caller -> Pc]
    /\ todo \in [Caller -> SUBSET Topic]
    /\ calls \in 0..MaxCalls
    /\ wanted \subseteq Topic
    /\ overlapped \in BOOLEAN

Quiet == \A c \in Caller : pc[c] = "idle"

LiveSubs == UNION {Live[t] : t \in Topic}

\* A group that is not running owns nothing: after a Stop, and after a Start
\* that failed halfway because the broker was closed under it, no handler of
\* the group is subscribed and no handle is active.
StoppedOwnsNothing ==
    Quiet /\ ~running =>
        /\ LiveSubs = {}
        /\ \A s \in Sub : ~subActive[s]

\* So it is as long as Start and Stop are not called while another such call is
\* in progress, whichever goroutines call them, and however the broker is
\* closed and reconnected between two Subscribe calls of a Start.
SerialStopOwnsNothing == ~overlapped => StoppedOwnsNothing

\* Without overlapping calls a group never has two subscriptions to a topic,
\* which would have its handler called twice for a message, whatever series of
\* failed Starts, Stops and Starts came before; and a running group holds an
\* active handle for every topic that was registered when it was started,
\* although topics are added and the broker drops entries meanwhile.
OnePerTopic ==
    ~overlapped =>
        /\ \A t \in Topic : Cardinality(Live[t]) <= 1
        /\ Quiet /\ running =>
               \A t \in wanted : t \in Subscribed /\ subActive[subscriptions[t]]

\* Every Start and every Stop returns, also when calls overlap and wait for
\* cg.mu while its holder takes the locks of a handle and of the broker: the lock
\* is released on every path.
CallsReturn ==
    \A c \in Caller : pc[c] # "idle" ~> pc[c] = "idle" \/ panicked
=============================================================================
