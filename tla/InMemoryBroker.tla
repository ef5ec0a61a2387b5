--------------------------- MODULE InMemoryBroker ---------------------------
(***************************************************************************)
(* The in-memory message broker of pkg/broker/inmemory.go.                 *)
(*                                                                         *)
(* Every method of InMemoryBroker that changes state runs from beginning   *)
(* to end under b.mu, so it is one action.  Three things take more than    *)
(* one critical section and are split where the code releases a lock:      *)
(* PublishBatch (one b.mu section per message), inMemorySub.Unsubscribe    *)
(* (s.mu is taken and s.active cleared before b.mu is acquired), and the   *)
(* goroutine a Publish starts per subscriber, which runs the handler at    *)
(* any later time.                                                         *)
(*                                                                         *)
(* A message is an element of Msg, one per Publish call: Publish clones    *)
(* its argument, so what callers do to the original afterwards does not    *)
(* reach the broker.  HealthCheck, IsConnected, Type and GetMetrics only   *)
(* read (no operation updates the metrics), and an operation that returns  *)
(* an error without any effect is a stuttering step.  Every action has the *)
(* guard ~panicked: a panic that nothing recovers ends the process.        *)
(***************************************************************************)
EXTENDS Naturals, Sequences, FiniteSets

CONSTANTS
    Topic,      \* topic names
    Msg,        \* messages, one per Publish call
    Sub,        \* subscription ids (uuid.New in Subscribe: never reused)
    Batcher,    \* goroutines that make one PublishBatch call each
    MaxBatch,   \* bound: the longest batch
    NoTopic     \* the topic of a subscription that does not exist yet

ASSUME BrokerAssumption ==
    /\ NoTopic \notin Topic
    /\ MaxBatch \in Nat

VARIABLES
    connected,      \* b.connected
    stopClosed,     \* b.stopCh has been closed
    panicked,       \* a goroutine panicked, which ends the process
    queues,         \* b.queues
    subscribers,    \* b.subscribers: topic -> slice of subscriberInfo
    subTopic,       \* inMemorySub.topic; NoTopic before Subscribe returns it
    subActive,      \* inMemorySub.active
    subMu,          \* inMemorySub.mu is held by an Unsubscribe in progress
    inflight,       \* delivery goroutines that have not called the handler
    handled,        \* history: the delivery goroutines that have
    used,           \* history: messages some Publish call was made with
    accepted,       \* history: messages some Publish call succeeded with
    batch           \* the PublishBatch calls

conn      == <<connected, stopClosed, panicked>>
handles   == <<subTopic, subActive, subMu>>
delivery  == <<inflight, handled>>
history   == <<used, accepted>>
vars      == <<conn, queues, subscribers, handles, delivery, history, batch>>

\* subscriberInfo; the handler of an entry is the one of its subscription.
SubscriberInfo == [id : Sub, active : BOOLEAN]

\* A goroutine started by Publish: one per message and slice index.
Goroutine == [msg : Msg, slot : Nat \ {0}, sub : Sub]

BatchStatus == {"idle", "running", "nil", "error"}

NoBatch(t) == [status |-> "idle", topic |-> t, msgs |-> <<>>, next |-> 1]

-----------------------------------------------------------------------------
(* NewInMemoryBroker, before the first Connect.                            *)
Init ==
    /\ connected = FALSE
    /\ stopClosed = FALSE
    /\ panicked = FALSE
    /\ queues = [t \in Topic |-> <<>>]
    /\ subscribers = [t \in Topic |-> <<>>]
    /\ subTopic = [s \in Sub |-> NoTopic]
    /\ subActive = [s \in Sub |-> FALSE]
    /\ subMu = [s \in Sub |-> FALSE]
    /\ inflight = {}
    /\ handled = {}
    /\ used = {}
    /\ accepted = {}
    /\ batch = [b \in Batcher |-> NoBatch(NoTopic)]

Connect ==
    /\ ~panicked
    /\ connected' = TRUE
    /\ UNCHANGED <<stopClosed, panicked, queues, subscribers, handles,
                   delivery, history, batch>>

\* close(b.stopCh) comes first, and stopCh is made once, by
\* NewInMemoryBroker: a Close after a second Connect closes a closed channel.
Close ==
    /\ ~panicked
    /\ connected
    /\ IF stopClosed
       THEN /\ panicked' = TRUE
            /\ UNCHANGED <<connected, stopClosed, queues, subscribers>>
       ELSE /\ stopClosed' = TRUE
            /\ connected' = FALSE
            /\ queues' = [t \in Topic |-> <<>>]
            /\ subscribers' = [t \in Topic |-> <<>>]
            /\ UNCHANGED panicked
    /\ UNCHANGED <<handles, delivery, history, batch>>

\* Mutant: the loop ends at the first active subscriber.
SpawnedFirstOnly(t, m) ==
    {[msg |-> m, slot |-> i, sub |-> subscribers[t][i].id] :
        i \in {j \in DOMAIN subscribers[t] :
                  /\ subscribers[t][j].active
                  /\ \A k \in 1..(j - 1) : ~subscribers[t][k].active}}

\* The goroutines the loop over b.subscribers[topic] starts.
Spawned(t, m) ==
    {[msg |-> m, slot |-> i, sub |-> subscribers[t][i].id] :
        i \in {j \in DOMAIN subscribers[t] : subscribers[t][j].active}}

\* Mutant: the message is put in front of the queue.
PublishLockedFront(t, m) ==
    /\ queues' = [queues EXCEPT ![t] = <<m>> \o @]
    /\ inflight' = inflight \cup Spawned(t, m)
    /\ accepted' = accepted \cup {m}
    /\ UNCHANGED <<conn, subscribers, handles, handled>>

\* Publish after its connected check.
PublishLocked(t, m) ==
    /\ queues' = [queues EXCEPT ![t] = Append(@, m)]
    /\ inflight' = inflight \cup Spawned(t, m)
    /\ accepted' = accepted \cup {m}
    /\ UNCHANGED <<conn, subscribers, handles, handled>>

Publish(t, m) ==
    /\ ~panicked
    /\ connected
    /\ m \notin used
    /\ used' = used \cup {m}
    /\ PublishLocked(t, m)
    /\ UNCHANGED batch

\* The sequences of distinct new messages a caller may pass to PublishBatch.
NewBatches ==
    UNION {{q \in [1..n -> Msg \ used] :
               \A i, j \in 1..n : q[i] = q[j] => i = j} : n \in 0..MaxBatch}

\* Mutant: the loop counts from 0.
PublishBatchFromZero(b, t, q) ==
    /\ ~panicked
    /\ batch[b].status = "idle"
    /\ batch' = [batch EXCEPT ![b] =
           [status |-> "running", topic |-> t, msgs |-> q, next |-> 0]]
    /\ used' = used \cup {q[i] : i \in DOMAIN q}
    /\ UNCHANGED <<conn, queues, subscribers, handles, delivery, accepted>>

PublishBatch(b, t, q) ==
    /\ ~panicked
    /\ batch[b].status = "idle"
    /\ batch' = [batch EXCEPT ![b] =
           [status |-> "running", topic |-> t, msgs |-> q, next |-> 1]]
    /\ used' = used \cup {q[i] : i \in DOMAIN q}
    /\ UNCHANGED <<conn, queues, subscribers, handles, delivery, accepted>>

\* A batch call at another position or with another result.
Moved(call, st, n) ==
    [status |-> st, topic |-> call.topic, msgs |-> call.msgs, next |-> n]

\* One iteration of the loop: a Publish call, or the return.
PublishBatchStep(b) ==
    /\ ~panicked
    /\ batch[b].status = "running"
    /\ IF batch[b].next > Len(batch[b].msgs)
       THEN /\ batch' = [batch EXCEPT ![b] = Moved(@, "nil", @.next)]
            /\ UNCHANGED <<conn, queues, subscribers, handles, delivery, accepted>>
       ELSE IF ~connected
       THEN /\ batch' = [batch EXCEPT ![b] = Moved(@, "error", @.next)]
            /\ UNCHANGED <<conn, queues, subscribers, handles, delivery, accepted>>
       ELSE /\ PublishLocked(batch[b].topic, batch[b].msgs[batch[b].next])
            /\ batch' = [batch EXCEPT ![b] = Moved(@, "running", @.next + 1)]
    /\ UNCHANGED used

Subscribe(s, t) ==
    /\ ~panicked
    /\ connected
    /\ subTopic[s] = NoTopic
    /\ subscribers' = [subscribers EXCEPT ![t] = Append(@, [id |-> s, active |-> TRUE])]
    /\ subTopic' = [subTopic EXCEPT ![s] = t]
    /\ subActive' = [subActive EXCEPT ![s] = TRUE]
    /\ UNCHANGED <<conn, queues, subMu, delivery, history, batch>>

\* Broker.Unsubscribe: the entries are deactivated and the slice is dropped.
\* The inMemorySub handles are not touched.
Unsubscribe(t) ==
    /\ ~panicked
    /\ subscribers' = [subscribers EXCEPT ![t] = <<>>]
    /\ UNCHANGED <<conn, queues, handles, delivery, history, batch>>

\* inMemorySub.Unsubscribe up to s.broker.mu.Lock().  A call that finds the
\* subscription inactive returns without effect.
SubUnsubscribe(s) ==
    /\ ~panicked
    /\ ~subMu[s]
    /\ subActive[s]
    /\ subMu' = [subMu EXCEPT ![s] = TRUE]
    /\ subActive' = [subActive EXCEPT ![s] = FALSE]
    /\ UNCHANGED <<conn, queues, subscribers, subTopic, delivery, history, batch>>

\* The first entry of a slice with the given id, as the loop with break finds it.
IsFirst(subs, s, i) ==
    /\ subs[i].id = s
    /\ \A j \in 1..(i - 1) : subs[j].id # s

Deactivated(subs, s) ==
    [i \in DOMAIN subs |-> IF IsFirst(subs, s, i)
                           THEN [id |-> s, active |-> FALSE]
                           ELSE subs[i]]

\* Mutant: "sub.active = false" on the copy the range loop makes.
SubUnsubscribeFinishCopy(s) ==
    /\ ~panicked
    /\ subMu[s]
    /\ subMu' = [subMu EXCEPT ![s] = FALSE]
    /\ UNCHANGED <<conn, queues, subscribers, subTopic, subActive, delivery, history, batch>>

\* The rest of it: the entry is deactivated under b.mu, and both locks are
\* released by the deferred calls.
SubUnsubscribeFinish(s) ==
    /\ ~panicked
    /\ subMu[s]
    /\ subscribers' = [subscribers EXCEPT ![subTopic[s]] = Deactivated(@, s)]
    /\ subMu' = [subMu EXCEPT ![s] = FALSE]
    /\ UNCHANGED <<conn, queues, subTopic, subActive, delivery, history, batch>>

\* Mutant: a handler that returns an error is called again later.
RunHandlerAgain(g) ==
    /\ ~panicked
    /\ g \in inflight
    /\ handled' = handled \cup {g}
    /\ UNCHANGED <<conn, queues, subscribers, handles, inflight, history, batch>>

\* A delivery goroutine calls the handler.  Its result is discarded, and the
\* subscription is not looked at again.
RunHandler(g) ==
    /\ ~panicked
    /\ g \in inflight
    /\ inflight' = inflight \ {g}
    /\ handled' = handled \cup {g}
    /\ UNCHANGED <<conn, queues, subscribers, handles, history, batch>>

Next ==
    \/ Connect
    \/ Close
    \/ \E t \in Topic, m \in Msg : Publish(t, m)
    \/ \E b \in Batcher, t \in Topic : \E q \in NewBatches : PublishBatch(b, t, q)
    \/ \E b \in Batcher : PublishBatchStep(b)
    \/ \E s \in Sub, t \in Topic : Subscribe(s, t)
    \/ \E t \in Topic : Unsubscribe(t)
    \/ \E s \in Sub : SubUnsubscribe(s)
    \/ \E s \in Sub : SubUnsubscribeFinish(s)
    \/ \E g \in inflight : RunHandler(g)

Spec == Init /\ [][Next]_vars

\* The Go scheduler runs every goroutine that is ready to run.
DeliveryFairness ==
    \A s \in Sub, m \in Msg :
        WF_vars(\E g \in inflight : g.sub = s /\ g.msg = m /\ RunHandler(g))

FairSpec == Spec /\ DeliveryFairness
-----------------------------------------------------------------------------
(* Properties.                                                             *)

BatchCall == [status : BatchStatus, topic : Topic \cup {NoTopic},
              msgs : Seq(Msg), next : Nat \ {0}]

\* The type invariant.
TypeOK ==
    /\ connected \in BOOLEAN
    /\ stopClosed \in BOOLEAN
    /\ panicked \in BOOLEAN
    /\ queues \in [Topic -> Seq(Msg)]
    /\ subscribers \in [Topic -> Seq(SubscriberInfo)]
    /\ subTopic \in [Sub -> Topic \cup {NoTopic}]
    /\ subActive \in [Sub -> BOOLEAN]
    /\ subMu \in [Sub -> BOOLEAN]
    /\ inflight \subseteq Goroutine
    /\ handled \subseteq Goroutine
    /\ used \subseteq Msg
    /\ accepted \subseteq Msg
    /\ batch \in [Batcher -> BatchCall]
    /\ \A b \in Batcher : batch[b].status # "idle" => batch[b].topic \in Topic

\* The two steps of inMemorySub.Unsubscribe leave no gap: a Publish, from
\* whichever goroutine and also after Broker.Unsubscribe, Close and a new
\* Connect, starts the handler only of a subscription that is active or whose
\* Unsubscribe has not returned.  Once IsActive answers false no later Publish
\* reaches the handler.
UnsubscribedIsSilent ==
    [][\A g \in inflight' \ inflight : subActive[g.sub] \/ subMu[g.sub]]_vars

\* A message is given to a handler at most once: however publishers, batches,
\* subscribers and reconnects interleave, no two goroutines carry the same
\* message for the same subscription, and none runs its handler twice.
AtMostOnce ==
    /\ inflight \cap handled = {}
    /\ \A g, h \in inflight \cup handled :
           g.msg = h.msg /\ g.sub = h.sub => g = h

\* PublishBatch stops at its first failure: what it published of a batch is a
\* prefix of it, all of it if the call returned nil and a proper prefix if it
\* returned an error, although other goroutines may close and reopen the
\* connection between two of its messages; and what is still in the queue of its
\* topic is there in the order of the batch, whatever was published in between.
BatchIsPrefix ==
    \A b \in Batcher :
        LET call == batch[b]
            Prefix(k) == \A i \in 1..Len(call.msgs) :
                             call.msgs[i] \in accepted <=> i <= k
        IN  /\ call.status = "nil" => Prefix(Len(call.msgs))
            /\ call.status = "error" =>
                   \E k \in 0..Len(call.msgs) : k # Len(call.msgs) /\ Prefix(k)
            /\ call.topic # NoTopic =>
                   \A i, j \in 1..Len(call.msgs) :
                   \A p, q \in 1..Len(queues[call.topic]) :
                       /\ i < j
                       /\ queues[call.topic][p] = call.msgs[i]
                       /\ queues[call.topic][q] = call.msgs[j]
                       => p < q

\* The broker keeps the promise of PubSub: a subscription is live while its
\* entry in b.subscribers is active.
Live == [t \in Topic |-> {subscribers[t][i].id :
            i \in {j \in DOMAIN subscribers[t] : subscribers[t][j].active}}]

Pairs(gs) == {<<g.sub, g.msg>> : g \in gs}

PS == INSTANCE PubSub WITH
          live   <- Live,
          known  <- {s \in Sub : subTopic[s] # NoTopic},
          sent   <- accepted,
          owed   <- Pairs(inflight),
          done   <- Pairs(handled),
          halted <- panicked

\* What is published goes to exactly the subscriptions that are live at that
\* moment, once each, and eventually unless the process dies (Publish with
\* its goroutines, Subscribe and both ways to unsubscribe, Close).
PubSubSpec == PS!Spec
=============================================================================
