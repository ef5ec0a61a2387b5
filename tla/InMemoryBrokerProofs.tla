------------------------ MODULE InMemoryBrokerProofs ------------------------
(***************************************************************************)
(* Proofs about InMemoryBroker, for every set of topics, messages,         *)
(* subscriptions and batch callers: type correctness, the silence of       *)
(* unsubscribed handlers, at-most-once delivery, the prefix property of    *)
(* PublishBatch, and that every step of the broker is a step the contract  *)
(* PubSub allows.                                                          *)
(***************************************************************************)
EXTENDS InMemoryBroker, SequenceTheorems, TLAPS

\* The slice with one entry deactivated is the same slice but for that flag
\* (the loop of inMemorySub.Unsubscribe).
LEMMA DeactivatedFacts ==
    ASSUME NEW subs \in Seq(SubscriberInfo), NEW s \in Sub
    PROVE  /\ Deactivated(subs, s) \in Seq(SubscriberInfo)
           /\ Len(Deactivated(subs, s)) = Len(subs)
           /\ \A i \in 1..Len(subs) :
                 /\ Deactivated(subs, s)[i].id = subs[i].id
                 /\ Deactivated(subs, s)[i].active => subs[i].active
                 /\ Deactivated(subs, s)[i].active =>
                        ~IsFirst(subs, s, i)
                 /\ subs[i].id # s => Deactivated(subs, s)[i] = subs[i]
<1>1. DOMAIN subs = 1..Len(subs) /\ Len(subs) \in Nat
  OBVIOUS
<1>2. ASSUME NEW i \in 1..Len(subs) PROVE Deactivated(subs, s)[i] \in SubscriberInfo
  <2>1. [id |-> s, active |-> FALSE] \in SubscriberInfo
    BY DEF SubscriberInfo
  <2> QED
    BY <1>1, <2>1 DEF Deactivated
<1>3. Deactivated(subs, s) = [i \in 1..Len(subs) |-> Deactivated(subs, s)[i]]
  BY <1>1 DEF Deactivated
<1>4. /\ Deactivated(subs, s) \in Seq(SubscriberInfo)
      /\ Len(Deactivated(subs, s)) = Len(subs)
  BY <1>1, <1>2, <1>3
<1>5. \A i \in 1..Len(subs) :
         /\ Deactivated(subs, s)[i].id = subs[i].id
         /\ Deactivated(subs, s)[i].active => subs[i].active
         /\ Deactivated(subs, s)[i].active => ~IsFirst(subs, s, i)
         /\ subs[i].id # s => Deactivated(subs, s)[i] = subs[i]
  BY <1>1 DEF Deactivated, SubscriberInfo, IsFirst
<1> QED
  BY <1>4, <1>5

\* What PublishLocked starts are goroutines.
LEMMA SpawnedType ==
    ASSUME TypeOK, NEW t \in Topic, NEW m \in Msg
    PROVE  Spawned(t, m) \subseteq Goroutine
<1>1. ASSUME NEW i \in DOMAIN subscribers[t]
      PROVE  [msg |-> m, slot |-> i, sub |-> subscribers[t][i].id] \in Goroutine
  <2>1. subscribers[t] \in Seq(SubscriberInfo) /\ i \in 1..Len(subscribers[t])
    BY DEF TypeOK
  <2>2. subscribers[t][i] \in SubscriberInfo /\ i \in Nat \ {0}
    BY <2>1
  <2>3. subscribers[t][i].id \in Sub
    BY <2>2 DEF SubscriberInfo
  <2> QED
    BY <2>2, <2>3 DEF Goroutine
<1> QED
  BY <1>1 DEF Spawned

\* Every batch a caller may pass is a sequence of distinct unused messages.
LEMMA NewBatchFacts ==
    ASSUME BrokerAssumption, NEW q \in NewBatches
    PROVE  /\ q \in Seq(Msg)
           /\ \A i \in 1..Len(q) : q[i] \notin used
           /\ \A i, j \in 1..Len(q) : q[i] = q[j] => i = j
           /\ DOMAIN q = 1..Len(q)
<1>1. PICK n \in 0..MaxBatch :
         /\ q \in [1..n -> Msg \ used]
         /\ \A i, j \in 1..n : q[i] = q[j] => i = j
  BY DEF NewBatches
<1>2. n \in Nat
  BY BrokerAssumption DEF BrokerAssumption
<1>3. q \in Seq(Msg) /\ Len(q) = n /\ DOMAIN q = 1..n
  BY <1>1, <1>2
<1> QED
  BY <1>1, <1>3

\* The position and the length of a batch are numbers.
LEMMA BatchNumbers ==
    ASSUME TypeOK, NEW b \in Batcher
    PROVE  batch[b].next \in Nat \ {0} /\ Len(batch[b].msgs) \in Nat
BY DEF TypeOK, BatchCall

\* A step of a batch call keeps its topic and its messages.
LEMMA MovedFacts ==
    ASSUME TypeOK, NEW b \in Batcher, NEW st \in BatchStatus, NEW n \in Nat \ {0},
           st # "idle", batch[b].status = "running",
           batch' = [batch EXCEPT ![b] = Moved(@, st, n)]
    PROVE  /\ batch' \in [Batcher -> BatchCall]
           /\ batch'[b].status = st /\ batch'[b].next = n
           /\ \A c \in Batcher : /\ batch'[c].topic = batch[c].topic
                                 /\ batch'[c].msgs = batch[c].msgs
                                 /\ c # b => batch'[c] = batch[c]
           /\ \A c \in Batcher : batch'[c].status # "idle" => batch'[c].topic \in Topic
<1>1. batch[b] \in BatchCall /\ batch[b].topic \in Topic
  BY DEF TypeOK
<1>2. Moved(batch[b], st, n) \in BatchCall
  BY <1>1 DEF BatchCall, Moved
<1>3. batch' \in [Batcher -> BatchCall]
  BY <1>2 DEF TypeOK
<1>4. batch'[b] = Moved(batch[b], st, n) /\ \A c \in Batcher : c # b => batch'[c] = batch[c]
  BY DEF TypeOK
<1>5. /\ batch'[b].status = st /\ batch'[b].next = n
      /\ batch'[b].topic = batch[b].topic /\ batch'[b].msgs = batch[b].msgs
  BY <1>4 DEF Moved
<1> QED
  BY <1>1, <1>3, <1>4, <1>5 DEF TypeOK

\* The three ways a step of PublishBatch can go.
LEMMA BatchStepCases ==
    ASSUME TypeOK, NEW b \in Batcher, PublishBatchStep(b)
    PROVE  /\ batch[b].status = "running" /\ UNCHANGED used
           /\ \/ /\ batch[b].next > Len(batch[b].msgs)
                 /\ batch' = [batch EXCEPT ![b] = Moved(@, "nil", @.next)]
                 /\ UNCHANGED <<conn, queues, subscribers, handles, delivery, accepted>>
              \/ /\ batch[b].next <= Len(batch[b].msgs)
                 /\ batch' = [batch EXCEPT ![b] = Moved(@, "error", @.next)]
                 /\ UNCHANGED <<conn, queues, subscribers, handles, delivery, accepted>>
              \/ /\ batch[b].next \in 1..Len(batch[b].msgs)
                 /\ batch[b].topic \in Topic
                 /\ batch[b].msgs[batch[b].next] \in Msg
                 /\ batch' = [batch EXCEPT ![b] = Moved(@, "running", @.next + 1)]
                 /\ PublishLocked(batch[b].topic, batch[b].msgs[batch[b].next])
<1>1. batch[b].next \in Nat \ {0} /\ Len(batch[b].msgs) \in Nat
  BY DEF TypeOK, BatchCall
<1>2. batch[b].status = "running" /\ UNCHANGED used
  BY DEF PublishBatchStep
<1>3. CASE batch[b].next > Len(batch[b].msgs)
  BY <1>1, <1>2, <1>3, Zenon DEF PublishBatchStep
<1>4. CASE ~(batch[b].next > Len(batch[b].msgs)) /\ ~connected
  <2>1. batch[b].next <= Len(batch[b].msgs)
    BY <1>1, <1>4
  <2> QED
    BY <1>2, <1>4, <2>1, Zenon DEF PublishBatchStep
<1>5. CASE ~(batch[b].next > Len(batch[b].msgs)) /\ connected
  <2>1. batch[b].next \in 1..Len(batch[b].msgs)
    BY <1>1, <1>5
  <2>2. batch[b].topic \in Topic /\ batch[b].msgs[batch[b].next] \in Msg
    BY <1>2, <2>1 DEF TypeOK, BatchCall
  <2> QED
    BY <1>2, <1>5, <2>1, <2>2, Zenon DEF PublishBatchStep
<1> QED
  BY <1>3, <1>4, <1>5, Zenon

\* A new broker is well typed.
LEMMA TypeInit == Init => TypeOK
<1> SUFFICES ASSUME Init PROVE TypeOK
  OBVIOUS
<1>1. NoBatch(NoTopic) \in BatchCall /\ NoBatch(NoTopic).status = "idle"
  BY DEF NoBatch, BatchCall, BatchStatus
<1>2. batch \in [Batcher -> BatchCall] /\ \A b \in Batcher : batch[b].status = "idle"
  BY <1>1 DEF Init
<1>3. <<>> \in Seq(Msg) /\ <<>> \in Seq(SubscriberInfo)
  OBVIOUS
<1> QED
  BY <1>2, <1>3 DEF Init, TypeOK

\* Every operation keeps the types.
LEMMA TypeStep == TypeOK /\ [Next]_vars => TypeOK'
<1> SUFFICES ASSUME TypeOK, [Next]_vars PROVE TypeOK'
  OBVIOUS
<1> USE DEF conn, handles, delivery, history
<1>1. CASE Connect
  BY <1>1 DEF Connect, TypeOK
<1>2. CASE Close
  <2>1. CASE stopClosed
    BY <1>2, <2>1 DEF Close, TypeOK
  <2>2. CASE ~stopClosed
    <3>1. <<>> \in Seq(Msg) /\ <<>> \in Seq(SubscriberInfo)
      OBVIOUS
    <3> QED
      BY <1>2, <2>2, <3>1 DEF Close, TypeOK
  <2> QED
    BY <2>1, <2>2
<1>3. ASSUME NEW t \in Topic, NEW m \in Msg, Publish(t, m) PROVE TypeOK'
  <2>1. inflight' \subseteq Goroutine
    BY <1>3, SpawnedType DEF Publish, PublishLocked, TypeOK
  <2> QED
    BY <1>3, <2>1 DEF Publish, PublishLocked, TypeOK
<1>4. ASSUME NEW b \in Batcher, NEW t \in Topic, NEW q \in NewBatches,
             PublishBatch(b, t, q)
      PROVE TypeOK'
  <2>1. q \in Seq(Msg) /\ DOMAIN q = 1..Len(q)
    BY NewBatchFacts, BrokerAssumption
  <2>2. batch' \in [Batcher -> BatchCall]
    BY <1>4, <2>1 DEF PublishBatch, TypeOK, BatchCall, BatchStatus
  <2>3. used' \subseteq Msg
    BY <1>4, <2>1 DEF PublishBatch, TypeOK
  <2>4. \A c \in Batcher : batch'[c].status # "idle" => batch'[c].topic \in Topic
    BY <1>4 DEF PublishBatch, TypeOK
  <2> QED
    BY <1>4, <2>2, <2>3, <2>4 DEF PublishBatch, TypeOK
<1>5. ASSUME NEW b \in Batcher, PublishBatchStep(b) PROVE TypeOK'
  <2>1. batch[b].status = "running" /\ UNCHANGED used /\ batch[b].next \in Nat \ {0}
    BY <1>5, BatchStepCases, BatchNumbers, Zenon
  <2>2. CASE /\ batch' = [batch EXCEPT ![b] = Moved(@, "nil", @.next)]
             /\ UNCHANGED <<conn, queues, subscribers, handles, delivery, accepted>>
    <3>1. /\ batch' \in [Batcher -> BatchCall]
          /\ \A c \in Batcher : batch'[c].status # "idle" => batch'[c].topic \in Topic
      BY <2>1, <2>2, MovedFacts DEF BatchStatus
    <3> QED
      BY <2>1, <2>2, <3>1 DEF TypeOK
  <2>3. CASE /\ batch' = [batch EXCEPT ![b] = Moved(@, "error", @.next)]
             /\ UNCHANGED <<conn, queues, subscribers, handles, delivery, accepted>>
    <3>1. /\ batch' \in [Batcher -> BatchCall]
          /\ \A c \in Batcher : batch'[c].status # "idle" => batch'[c].topic \in Topic
      BY <2>1, <2>3, MovedFacts DEF BatchStatus
    <3> QED
      BY <2>1, <2>3, <3>1 DEF TypeOK
  <2>4. CASE /\ batch[b].topic \in Topic
             /\ batch[b].msgs[batch[b].next] \in Msg
             /\ batch' = [batch EXCEPT ![b] = Moved(@, "running", @.next + 1)]
             /\ PublishLocked(batch[b].topic, batch[b].msgs[batch[b].next])
    <3>0. batch[b].next + 1 \in Nat \ {0} /\ "running" \in BatchStatus
      BY <2>1 DEF BatchStatus
    <3>1. /\ batch' \in [Batcher -> BatchCall]
          /\ \A c \in Batcher : batch'[c].status # "idle" => batch'[c].topic \in Topic
      BY <2>1, <2>4, <3>0, MovedFacts
    <3>2. inflight' \subseteq Goroutine
      BY <2>4, SpawnedType DEF PublishLocked, TypeOK
    <3> QED
      BY <2>1, <2>4, <3>1, <3>2 DEF PublishLocked, TypeOK
  <2> QED
    BY <1>5, <2>2, <2>3, <2>4, BatchStepCases
<1>6. ASSUME NEW s \in Sub, NEW t \in Topic, Subscribe(s, t) PROVE TypeOK'
  BY <1>6 DEF Subscribe, TypeOK, SubscriberInfo
<1>7. ASSUME NEW t \in Topic, Unsubscribe(t) PROVE TypeOK'
  BY <1>7 DEF Unsubscribe, TypeOK
<1>8. ASSUME NEW s \in Sub, SubUnsubscribe(s) PROVE TypeOK'
  BY <1>8 DEF SubUnsubscribe, TypeOK
<1>9. ASSUME NEW s \in Sub, SubUnsubscribeFinish(s) PROVE TypeOK'
  BY <1>9, DeactivatedFacts DEF SubUnsubscribeFinish, TypeOK
<1>10. ASSUME NEW g \in inflight, RunHandler(g) PROVE TypeOK'
  BY <1>10 DEF RunHandler, TypeOK
<1>11. CASE UNCHANGED vars
  BY <1>11 DEF vars, TypeOK
<1> QED
  BY <1>1, <1>2, <1>3, <1>4, <1>5, <1>6, <1>7, <1>8, <1>9, <1>10, <1>11 DEF Next

\* The state keeps its types: no index of b.subscribers, no batch position and
\* no goroutine is ever malformed.
THEOREM TypeCorrect == Spec => []TypeOK
BY TypeInit, TypeStep, PTL DEF Spec
-----------------------------------------------------------------------------
(* Handles and entries.  UnsubscribedIsSilent is about the handle of the   *)
(* subscription, Publish looks at its entry in b.subscribers: the          *)
(* invariant ties the two.  Uniqueness of the entries is what makes the    *)
(* loop's break after the first match enough.                              *)

\* An entry is in the slice of its handle's topic, ...
EntryTopic == \A t \in Topic : \A i \in 1..Len(subscribers[t]) :
                  subTopic[subscribers[t][i].id] = t

\* ... there is one entry per subscription, ...
EntryUnique == \A t \in Topic : \A i, j \in 1..Len(subscribers[t]) :
                   subscribers[t][i].id = subscribers[t][j].id => i = j

\* ... and an active entry has a handle that is active or being cancelled.
EntryActive == \A t \in Topic : \A i \in 1..Len(subscribers[t]) :
                   subscribers[t][i].active =>
                       \/ subActive[subscribers[t][i].id]
                       \/ subMu[subscribers[t][i].id]

\* A handle that is active or being cancelled was returned by Subscribe.
HandleKnown == \A s \in Sub : subActive[s] \/ subMu[s] => subTopic[s] # NoTopic

SubsInv == EntryTopic /\ EntryUnique /\ EntryActive /\ HandleKnown

\* An entry is a record of an existing id.
LEMMA EntryType ==
    ASSUME TypeOK, NEW t \in Topic
    PROVE  /\ subscribers[t] \in Seq(SubscriberInfo)
           /\ Len(subscribers[t]) \in Nat
           /\ \A i \in 1..Len(subscribers[t]) :
                 /\ subscribers[t][i].id \in Sub
                 /\ subscribers[t][i].active \in BOOLEAN
<1>1. subscribers[t] \in Seq(SubscriberInfo) /\ Len(subscribers[t]) \in Nat
  BY DEF TypeOK
<1>2. \A i \in 1..Len(subscribers[t]) : subscribers[t][i] \in SubscriberInfo
  BY <1>1
<1> QED
  BY <1>1, <1>2 DEF SubscriberInfo

\* Every operation keeps entries and handles in agreement (Subscribe,
\* Broker.Unsubscribe, both steps of inMemorySub.Unsubscribe, Close).
LEMMA SubsInvStep == TypeOK /\ SubsInv /\ [Next]_vars => SubsInv'
<1> SUFFICES ASSUME TypeOK, SubsInv, [Next]_vars PROVE SubsInv'
  OBVIOUS
<1> USE DEF conn, handles, delivery, history
<1>0. ASSUME UNCHANGED <<subscribers, handles>> PROVE SubsInv'
  BY <1>0 DEF SubsInv, EntryTopic, EntryUnique, EntryActive, HandleKnown
<1>1. CASE Connect
  BY <1>0, <1>1 DEF Connect
<1>2. CASE Close
  <2>1. CASE stopClosed
    BY <1>0, <1>2, <2>1 DEF Close
  <2>2. CASE ~stopClosed
    <3>1. UNCHANGED handles /\ \A t \in Topic : subscribers'[t] = <<>>
      BY <1>2, <2>2 DEF Close
    <3> QED
      BY <3>1 DEF SubsInv, EntryTopic, EntryUnique, EntryActive, HandleKnown
  <2> QED
    BY <2>1, <2>2
<1>3. ASSUME NEW t \in Topic, NEW m \in Msg, Publish(t, m) PROVE SubsInv'
  BY <1>0, <1>3 DEF Publish, PublishLocked
<1>4. ASSUME NEW b \in Batcher, NEW t \in Topic, NEW q \in NewBatches,
             PublishBatch(b, t, q)
      PROVE SubsInv'
  BY <1>0, <1>4 DEF PublishBatch
<1>5. ASSUME NEW b \in Batcher, PublishBatchStep(b) PROVE SubsInv'
  BY <1>0, <1>5, BatchStepCases DEF PublishLocked
<1>6. ASSUME NEW s \in Sub, NEW t \in Topic, Subscribe(s, t) PROVE SubsInv'
  <2>1. /\ subscribers' = [subscribers EXCEPT ![t] = Append(@, [id |-> s, active |-> TRUE])]
        /\ subTopic' = [subTopic EXCEPT ![s] = t]
        /\ subActive' = [subActive EXCEPT ![s] = TRUE]
        /\ subTopic[s] = NoTopic /\ UNCHANGED subMu
    BY <1>6 DEF Subscribe
  <2>2. t # NoTopic /\ \A u \in Topic : u # NoTopic
    BY BrokerAssumption DEF BrokerAssumption
  <2>3. \A u \in Topic : \A i \in 1..Len(subscribers[u]) : subscribers[u][i].id # s
    BY <2>1, <2>2 DEF SubsInv, EntryTopic
  <2>4. \A u \in Topic : u # t => subscribers'[u] = subscribers[u]
    BY <2>1 DEF TypeOK
  <2>5. /\ Len(subscribers'[t]) = Len(subscribers[t]) + 1
        /\ \A i \in 1..Len(subscribers[t]) : subscribers'[t][i] = subscribers[t][i]
        /\ subscribers'[t][Len(subscribers[t]) + 1].id = s
    BY <2>1, EntryType DEF TypeOK
  <2>6. /\ subTopic'[s] = t /\ subActive'[s]
        /\ \A r \in Sub : r # s => subTopic'[r] = subTopic[r] /\ subActive'[r] = subActive[r]
    BY <2>1 DEF TypeOK
  <2>7. ASSUME NEW i \in 1..Len(subscribers'[t])
        PROVE  \/ i \in 1..Len(subscribers[t])
               \/ i = Len(subscribers[t]) + 1
    BY <2>5, EntryType
  <2>8. EntryTopic'
    <3> SUFFICES ASSUME NEW u \in Topic, NEW i \in 1..Len(subscribers'[u])
                 PROVE  subTopic'[subscribers'[u][i].id] = u
      BY DEF EntryTopic
    <3>1. CASE u # t
      BY <2>3, <2>4, <2>6, <3>1, EntryType DEF SubsInv, EntryTopic
    <3>2. CASE u = t
      BY <2>3, <2>5, <2>6, <2>7, <3>2, EntryType DEF SubsInv, EntryTopic
    <3> QED
      BY <3>1, <3>2
  <2>9. EntryUnique'
    <3> SUFFICES ASSUME NEW u \in Topic, NEW i \in 1..Len(subscribers'[u]),
                        NEW j \in 1..Len(subscribers'[u]),
                        subscribers'[u][i].id = subscribers'[u][j].id
                 PROVE  i = j
      BY DEF EntryUnique
    <3>1. CASE u # t
      BY <2>4, <3>1 DEF SubsInv, EntryUnique
    <3>2. CASE u = t
      <4> DEFINE n == Len(subscribers[t])
      <4>1. CASE i \in 1..n /\ j \in 1..n
        BY <2>5, <3>2, <4>1 DEF SubsInv, EntryUnique
      <4>2. CASE i \in 1..n /\ j = n + 1
        BY <2>3, <2>5, <3>2, <4>2
      <4>3. CASE i = n + 1 /\ j \in 1..n
        BY <2>3, <2>5, <3>2, <4>3
      <4>4. CASE i = n + 1 /\ j = n + 1
        BY <4>4
      <4> QED
        BY <2>7, <3>2, <4>1, <4>2, <4>3, <4>4
    <3> QED
      BY <3>1, <3>2
  <2>10. EntryActive'
    <3> SUFFICES ASSUME NEW u \in Topic, NEW i \in 1..Len(subscribers'[u]),
                        subscribers'[u][i].active
                 PROVE  subActive'[subscribers'[u][i].id] \/ subMu'[subscribers'[u][i].id]
      BY DEF EntryActive
    <3>1. CASE u # t
      BY <2>1, <2>3, <2>4, <2>6, <3>1, EntryType DEF SubsInv, EntryActive
    <3>2. CASE u = t
      <4>1. CASE i \in 1..Len(subscribers[t])
        <5>1. /\ subscribers[t][i].id \in Sub /\ subscribers[t][i].id # s
              /\ subscribers'[t][i] = subscribers[t][i]
          BY <2>3, <2>5, <4>1, EntryType
        <5> QED
          BY <2>1, <2>6, <3>2, <4>1, <5>1 DEF SubsInv, EntryActive
      <4>2. CASE i = Len(subscribers[t]) + 1
        BY <2>5, <2>6, <3>2, <4>2
      <4> QED
        BY <2>7, <3>2, <4>1, <4>2
    <3> QED
      BY <3>1, <3>2
  <2>11. HandleKnown'
    BY <2>1, <2>2, <2>6 DEF SubsInv, HandleKnown
  <2> QED
    BY <2>8, <2>9, <2>10, <2>11 DEF SubsInv
<1>7. ASSUME NEW t \in Topic, Unsubscribe(t) PROVE SubsInv'
  <2>1. /\ subscribers'[t] = <<>> /\ UNCHANGED handles
        /\ \A u \in Topic : u # t => subscribers'[u] = subscribers[u]
    BY <1>7 DEF Unsubscribe, TypeOK
  <2>2. Len(subscribers'[t]) = 0
    BY <2>1
  <2> QED
    BY <2>1, <2>2 DEF SubsInv, EntryTopic, EntryUnique, EntryActive, HandleKnown
<1>8. ASSUME NEW s \in Sub, SubUnsubscribe(s) PROVE SubsInv'
  <2>1. /\ UNCHANGED <<subscribers, subTopic>> /\ subActive[s]
        /\ subMu'[s] /\ ~subActive'[s]
        /\ \A r \in Sub : r # s => subMu'[r] = subMu[r] /\ subActive'[r] = subActive[r]
    BY <1>8 DEF SubUnsubscribe, TypeOK
  <2>2. EntryTopic' /\ EntryUnique'
    BY <2>1 DEF SubsInv, EntryTopic, EntryUnique
  <2>3. EntryActive'
    BY <2>1, EntryType DEF SubsInv, EntryActive
  <2>4. HandleKnown'
    BY <2>1 DEF SubsInv, HandleKnown
  <2> QED
    BY <2>2, <2>3, <2>4 DEF SubsInv
<1>9. ASSUME NEW s \in Sub, SubUnsubscribeFinish(s) PROVE SubsInv'
  <2> DEFINE t == subTopic[s]
  <2>1. t \in Topic
    BY <1>9 DEF SubUnsubscribeFinish, SubsInv, HandleKnown, TypeOK
  <2>2. /\ subscribers'[t] = Deactivated(subscribers[t], s)
        /\ \A u \in Topic : u # t => subscribers'[u] = subscribers[u]
        /\ UNCHANGED <<subTopic, subActive>> /\ ~subMu'[s]
        /\ \A r \in Sub : r # s => subMu'[r] = subMu[r]
    BY <1>9, <2>1 DEF SubUnsubscribeFinish, TypeOK
  <2> HIDE DEF t
  <2>3. /\ Len(subscribers'[t]) = Len(subscribers[t])
        /\ \A i \in 1..Len(subscribers[t]) :
              /\ subscribers'[t][i].id = subscribers[t][i].id
              /\ subscribers'[t][i].active => subscribers[t][i].active
              /\ subscribers'[t][i].active => ~IsFirst(subscribers[t], s, i)
    BY <2>1, <2>2, DeactivatedFacts, EntryType
  <2>4. ASSUME NEW i \in 1..Len(subscribers[t]), subscribers[t][i].id = s
        PROVE  IsFirst(subscribers[t], s, i)
    <3>1. \A j \in 1..(i - 1) : j \in 1..Len(subscribers[t]) /\ j # i
      BY <2>1, EntryType
    <3> QED
      BY <2>1, <2>4, <3>1 DEF IsFirst, SubsInv, EntryUnique
  <2>5. EntryTopic' /\ EntryUnique'
    <3>1. ASSUME NEW u \in Topic
          PROVE  /\ Len(subscribers'[u]) = Len(subscribers[u])
                 /\ \A i \in 1..Len(subscribers[u]) :
                       subscribers'[u][i].id = subscribers[u][i].id
      BY <2>2, <2>3
    <3>2. EntryTopic'
      BY <2>2, <3>1 DEF SubsInv, EntryTopic
    <3>3. EntryUnique'
      BY <3>1 DEF SubsInv, EntryUnique
    <3> QED
      BY <3>2, <3>3
  <2>6. EntryActive'
    <3> SUFFICES ASSUME NEW u \in Topic, NEW i \in 1..Len(subscribers'[u]),
                        subscribers'[u][i].active
                 PROVE  subActive'[subscribers'[u][i].id] \/ subMu'[subscribers'[u][i].id]
      BY DEF EntryActive
    <3>1. CASE u = t
      <4>1. i \in 1..Len(subscribers[t]) /\ subscribers[t][i].id # s
        BY <2>3, <2>4, <3>1
      <4> QED
        BY <2>1, <2>2, <2>3, <3>1, <4>1, EntryType DEF SubsInv, EntryActive
    <3>2. CASE u # t
      <4>1. subscribers'[u] = subscribers[u] /\ subscribers[u][i].id # s
        BY <2>1, <2>2, <3>2 DEF SubsInv, EntryTopic, t
      <4> QED
        BY <2>2, <3>2, <4>1, EntryType DEF SubsInv, EntryActive
    <3> QED
      BY <3>1, <3>2
  <2>7. HandleKnown'
    BY <2>2 DEF SubsInv, HandleKnown
  <2> QED
    BY <2>5, <2>6, <2>7 DEF SubsInv
<1>10. ASSUME NEW g \in inflight, RunHandler(g) PROVE SubsInv'
  BY <1>0, <1>10 DEF RunHandler
<1>11. CASE UNCHANGED vars
  BY <1>0, <1>11 DEF vars
<1> QED
  BY <1>1, <1>2, <1>3, <1>4, <1>5, <1>6, <1>7, <1>8, <1>9, <1>10, <1>11 DEF Next

LEMMA SubsInvInit == Init => SubsInv
BY DEF Init, SubsInv, EntryTopic, EntryUnique, EntryActive, HandleKnown

\* The goroutines a Publish starts are those of active or just-cancelled handles.
LEMMA SpawnedActive ==
    ASSUME TypeOK, SubsInv, NEW t \in Topic, NEW m \in Msg, NEW g \in Spawned(t, m)
    PROVE  /\ subActive[g.sub] \/ subMu[g.sub]
           /\ g.msg = m /\ g.sub \in Sub
           /\ g.slot \in 1..Len(subscribers[t])
           /\ subscribers[t][g.slot].active
           /\ g.sub = subscribers[t][g.slot].id
<1>1. PICK i \in 1..Len(subscribers[t]) :
         /\ subscribers[t][i].active
         /\ g = [msg |-> m, slot |-> i, sub |-> subscribers[t][i].id]
  BY EntryType DEF Spawned
<1> QED
  BY <1>1, EntryType DEF SubsInv, EntryActive

\* Once inMemorySub.Unsubscribe has returned, or IsActive has answered false,
\* no later Publish or PublishBatch starts the handler of the subscription:
\* the action property the model checker verifies on the small instance, for
\* any number of topics, subscriptions and publishers.
THEOREM Silence == Spec => UnsubscribedIsSilent
<1> DEFINE Quiet == \A g \in inflight' \ inflight : subActive[g.sub] \/ subMu[g.sub]
<1>1. TypeOK /\ SubsInv /\ [Next]_vars => [Quiet]_vars
  <2> SUFFICES ASSUME TypeOK, SubsInv, Next PROVE Quiet
    OBVIOUS
  <2> USE DEF conn, handles, delivery, history
  <2>1. ASSUME inflight' \subseteq inflight PROVE Quiet
    BY <2>1
  <2>2. ASSUME NEW t \in Topic, NEW m \in Msg, PublishLocked(t, m) PROVE Quiet
    BY <2>2, SpawnedActive DEF PublishLocked
  <2> HIDE DEF Quiet
  <2>3. ASSUME NEW t \in Topic, NEW m \in Msg, Publish(t, m) PROVE Quiet
    BY <2>2, <2>3 DEF Publish
  <2>4. ASSUME NEW b \in Batcher, NEW t \in Topic, NEW q \in NewBatches,
               PublishBatch(b, t, q)
        PROVE Quiet
    BY <2>1, <2>4 DEF PublishBatch
  <2>5. ASSUME NEW b \in Batcher, PublishBatchStep(b) PROVE Quiet
    BY <2>1, <2>2, <2>5, BatchStepCases
  <2>6. CASE Connect \/ Close
    BY <2>1, <2>6 DEF Connect, Close
  <2>7. ASSUME NEW s \in Sub, NEW t \in Topic, Subscribe(s, t) PROVE Quiet
    BY <2>1, <2>7 DEF Subscribe
  <2>8. ASSUME NEW t \in Topic, Unsubscribe(t) PROVE Quiet
    BY <2>1, <2>8 DEF Unsubscribe
  <2>9. ASSUME NEW s \in Sub, SubUnsubscribe(s) \/ SubUnsubscribeFinish(s) PROVE Quiet
    BY <2>1, <2>9 DEF SubUnsubscribe, SubUnsubscribeFinish
  <2>10. ASSUME NEW g \in inflight, RunHandler(g) PROVE Quiet
    BY <2>1, <2>10 DEF RunHandler
  <2> QED
    BY <2>3, <2>4, <2>5, <2>6, <2>7, <2>8, <2>9, <2>10 DEF Next
<1>2. UnsubscribedIsSilent <=> [][Quiet]_vars
  BY PTL DEF UnsubscribedIsSilent
<1> HIDE DEF Quiet
<1> QED
  BY <1>1, <1>2, TypeCorrect, SubsInvInit, SubsInvStep, PTL DEF Spec

-----------------------------------------------------------------------------
(* What happens to messages, and the contract.                             *)

\* A goroutine carries a message that some Publish accepted, ...
DeliveredAccepted == \A g \in inflight \cup handled : g.msg \in accepted

\* ... and so does every place of a queue.
QueueAccepted ==
    \A t \in Topic : \A p \in 1..Len(queues[t]) : queues[t][p] \in accepted

AcceptedUsed == accepted \subseteq used

BatchUsed ==
    \A b \in Batcher : \A i \in 1..Len(batch[b].msgs) : batch[b].msgs[i] \in used

\* No message is at two places of one batch, or in two batches.
BatchDistinct ==
    \A b, c \in Batcher :
    \A i \in 1..Len(batch[b].msgs), j \in 1..Len(batch[c].msgs) :
        batch[b].msgs[i] = batch[c].msgs[j] => b = c /\ i = j

\* What a batch call has published are the messages before its position, and
\* it returns nil past the last one and an error before it.
BatchProgress ==
    \A b \in Batcher :
        /\ \A i \in 1..Len(batch[b].msgs) :
               batch[b].msgs[i] \in accepted <=> i < batch[b].next
        /\ batch[b].status = "idle" => batch[b].msgs = <<>>
        /\ batch[b].status = "nil" => batch[b].next > Len(batch[b].msgs)
        /\ batch[b].status = "error" => batch[b].next <= Len(batch[b].msgs)

MsgInv ==
    /\ DeliveredAccepted
    /\ QueueAccepted
    /\ AcceptedUsed
    /\ BatchUsed
    /\ BatchDistinct
    /\ BatchProgress

\* The message that a batch call publishes next was not published before.
LEMMA BatchMessageFresh ==
    ASSUME MsgInv, NEW b \in Batcher, batch[b].next \in 1..Len(batch[b].msgs)
    PROVE  /\ batch[b].msgs[batch[b].next] \notin accepted
           /\ batch[b].msgs[batch[b].next] \in used
<1>1. ~(batch[b].next < batch[b].next)
  OBVIOUS
<1> QED
  BY <1>1 DEF MsgInv, BatchProgress, BatchUsed

\* What PublishLocked adds is one place at the end of one queue.
LEMMA AppendedQueue ==
    ASSUME TypeOK, NEW t \in Topic, NEW m \in Msg,
           queues' = [queues EXCEPT ![t] = Append(@, m)]
    PROVE  /\ Len(queues[t]) \in Nat
           /\ Len(queues'[t]) = Len(queues[t]) + 1
           /\ queues'[t][Len(queues[t]) + 1] = m
           /\ \A p \in 1..Len(queues[t]) : queues'[t][p] = queues[t][p]
           /\ \A u \in Topic : u # t => queues'[u] = queues[u]
<1>1. queues[t] \in Seq(Msg)
  BY DEF TypeOK
<1>2. /\ queues'[t] = Append(queues[t], m)
      /\ \A u \in Topic : u # t => queues'[u] = queues[u]
  BY DEF TypeOK
<1> QED
  BY <1>1, <1>2

\* Publish keeps goroutines and queues within the accepted messages.
LEMMA PublishLockedKeeps ==
    ASSUME TypeOK, SubsInv, MsgInv, NEW t \in Topic, NEW m \in Msg,
           PublishLocked(t, m), m \in used', used \subseteq used'
    PROVE  DeliveredAccepted' /\ QueueAccepted' /\ AcceptedUsed'
<1>1. DeliveredAccepted'
  <2> SUFFICES ASSUME NEW g \in inflight' \cup handled' PROVE g.msg \in accepted'
    BY DEF DeliveredAccepted
  <2>1. CASE g \in inflight \cup handled
    BY <2>1 DEF MsgInv, DeliveredAccepted, PublishLocked
  <2>2. CASE g \in Spawned(t, m)
    BY <2>2, SpawnedActive DEF PublishLocked
  <2> QED
    BY <2>1, <2>2 DEF PublishLocked
<1>2. QueueAccepted'
  <2> SUFFICES ASSUME NEW u \in Topic, NEW p \in 1..Len(queues'[u])
               PROVE  queues'[u][p] \in accepted'
    BY DEF QueueAccepted
  <2>1. CASE u # t
    BY <2>1, AppendedQueue DEF MsgInv, QueueAccepted, PublishLocked
  <2>2. CASE u = t
    <3>1. p \in 1..Len(queues[t]) \/ p = Len(queues[t]) + 1
      BY <2>2, AppendedQueue DEF PublishLocked
    <3> QED
      BY <2>2, <3>1, AppendedQueue DEF MsgInv, QueueAccepted, PublishLocked
  <2> QED
    BY <2>1, <2>2
<1>3. AcceptedUsed'
  BY DEF MsgInv, AcceptedUsed, PublishLocked
<1> QED
  BY <1>1, <1>2, <1>3

\* Every operation keeps track of which messages were published: Publish and
\* each iteration of PublishBatch publish a new one, in the order of the batch.
LEMMA MsgInvStep == TypeOK /\ SubsInv /\ MsgInv /\ [Next]_vars => MsgInv'
<1> SUFFICES ASSUME TypeOK, SubsInv, MsgInv, [Next]_vars PROVE MsgInv'
  OBVIOUS
<1> USE DEF conn, handles, delivery, history
<1>0. ASSUME UNCHANGED <<queues, delivery, history, batch>> PROVE MsgInv'
  BY <1>0 DEF MsgInv, DeliveredAccepted, QueueAccepted, AcceptedUsed, BatchUsed,
              BatchDistinct, BatchProgress
<1>1. CASE Connect
  BY <1>0, <1>1 DEF Connect
<1>2. CASE Close
  <2>1. CASE stopClosed
    BY <1>0, <1>2, <2>1 DEF Close
  <2>2. CASE ~stopClosed
    <3>1. UNCHANGED <<delivery, history, batch>> /\ \A t \in Topic : queues'[t] = <<>>
      BY <1>2, <2>2 DEF Close
    <3>2. QueueAccepted'
      BY <3>1 DEF QueueAccepted
    <3> QED
      BY <3>1, <3>2 DEF MsgInv, DeliveredAccepted, AcceptedUsed, BatchUsed,
                        BatchDistinct, BatchProgress
  <2> QED
    BY <2>1, <2>2
<1>3. ASSUME NEW t \in Topic, NEW m \in Msg, Publish(t, m) PROVE MsgInv'
  <2>1. /\ PublishLocked(t, m) /\ m \notin used /\ used' = used \cup {m}
        /\ accepted' = accepted \cup {m} /\ UNCHANGED batch
    BY <1>3 DEF Publish, PublishLocked
  <2>2. DeliveredAccepted' /\ QueueAccepted' /\ AcceptedUsed'
    BY <2>1, PublishLockedKeeps
  <2>3. BatchUsed' /\ BatchDistinct' /\ BatchProgress'
    BY <2>1 DEF MsgInv, BatchUsed, BatchDistinct, BatchProgress
  <2> QED
    BY <2>2, <2>3 DEF MsgInv
<1>4. ASSUME NEW b \in Batcher, NEW t \in Topic, NEW q \in NewBatches,
             PublishBatch(b, t, q)
      PROVE MsgInv'
  <2>1. /\ q \in Seq(Msg) /\ DOMAIN q = 1..Len(q) /\ Len(q) \in Nat
        /\ \A i \in 1..Len(q) : q[i] \notin used
        /\ \A i, j \in 1..Len(q) : q[i] = q[j] => i = j
    BY NewBatchFacts, BrokerAssumption
  <2>2. /\ batch'[b].msgs = q /\ batch'[b].next = 1 /\ batch'[b].status = "running"
        /\ \A c \in Batcher : c # b => batch'[c] = batch[c]
        /\ used' = used \cup {q[i] : i \in 1..Len(q)}
        /\ UNCHANGED <<queues, delivery, accepted>>
    BY <1>4, <2>1 DEF PublishBatch, TypeOK
  <2>3. DeliveredAccepted' /\ QueueAccepted' /\ AcceptedUsed'
    BY <2>2 DEF MsgInv, DeliveredAccepted, QueueAccepted, AcceptedUsed
  <2>4. BatchUsed'
    <3> SUFFICES ASSUME NEW c \in Batcher, NEW i \in 1..Len(batch'[c].msgs)
                 PROVE  batch'[c].msgs[i] \in used'
      BY DEF BatchUsed
    <3>1. CASE c = b
      BY <2>2, <3>1
    <3>2. CASE c # b
      BY <2>2, <3>2 DEF MsgInv, BatchUsed
    <3> QED
      BY <3>1, <3>2
  <2>5. BatchDistinct'
    <3> SUFFICES ASSUME NEW c \in Batcher, NEW d \in Batcher,
                        NEW i \in 1..Len(batch'[c].msgs), NEW j \in 1..Len(batch'[d].msgs),
                        batch'[c].msgs[i] = batch'[d].msgs[j]
                 PROVE  c = d /\ i = j
      BY DEF BatchDistinct
    <3>1. CASE c = b /\ d = b
      BY <2>1, <2>2, <3>1
    <3>2. CASE c = b /\ d # b
      BY <2>1, <2>2, <3>2 DEF MsgInv, BatchUsed
    <3>3. CASE c # b /\ d = b
      BY <2>1, <2>2, <3>3 DEF MsgInv, BatchUsed
    <3>4. CASE c # b /\ d # b
      BY <2>2, <3>4 DEF MsgInv, BatchDistinct
    <3> QED
      BY <3>1, <3>2, <3>3, <3>4
  <2>6. BatchProgress'
    <3>1. \A i \in 1..Len(q) : q[i] \notin accepted /\ ~(i < 1)
      BY <2>1 DEF MsgInv, AcceptedUsed
    <3> QED
      BY <2>2, <3>1 DEF MsgInv, BatchProgress
  <2> QED
    BY <2>3, <2>4, <2>5, <2>6 DEF MsgInv
<1>5. ASSUME NEW b \in Batcher, PublishBatchStep(b) PROVE MsgInv'
  <2>1. /\ batch[b].status = "running" /\ UNCHANGED used
        /\ batch[b].next \in Nat \ {0} /\ Len(batch[b].msgs) \in Nat
    BY <1>5, BatchStepCases, BatchNumbers, Zenon
  <2>2. ASSUME NEW st \in BatchStatus, NEW n \in Nat \ {0}, st # "idle",
               batch' = [batch EXCEPT ![b] = Moved(@, st, n)]
        PROVE  /\ BatchUsed' /\ BatchDistinct'
               /\ batch'[b].msgs = batch[b].msgs /\ batch'[b].next = n
               /\ batch'[b].status = st
               /\ \A c \in Batcher : c # b => batch'[c] = batch[c]
    <3>1. /\ \A c \in Batcher : /\ batch'[c].msgs = batch[c].msgs
                                /\ c # b => batch'[c] = batch[c]
          /\ batch'[b].next = n /\ batch'[b].status = st
      BY <2>1, <2>2, MovedFacts
    <3>2. BatchUsed'
      BY <2>1, <3>1 DEF MsgInv, BatchUsed
    <3>3. BatchDistinct'
      BY <3>1 DEF MsgInv, BatchDistinct
    <3> QED
      BY <3>1, <3>2, <3>3
  <2>3. CASE /\ batch[b].next > Len(batch[b].msgs)
             /\ batch' = [batch EXCEPT ![b] = Moved(@, "nil", @.next)]
             /\ UNCHANGED <<conn, queues, subscribers, handles, delivery, accepted>>
    <3>1. /\ BatchUsed' /\ BatchDistinct' /\ batch'[b].msgs = batch[b].msgs
          /\ batch'[b].next = batch[b].next /\ batch'[b].status = "nil"
          /\ \A c \in Batcher : c # b => batch'[c] = batch[c]
      BY <2>1, <2>2, <2>3 DEF BatchStatus
    <3>2. BatchProgress'
      BY <2>3, <3>1 DEF MsgInv, BatchProgress
    <3> QED
      BY <2>1, <2>3, <3>1, <3>2 DEF MsgInv, DeliveredAccepted, QueueAccepted, AcceptedUsed
  <2>4. CASE /\ batch[b].next <= Len(batch[b].msgs)
             /\ batch' = [batch EXCEPT ![b] = Moved(@, "error", @.next)]
             /\ UNCHANGED <<conn, queues, subscribers, handles, delivery, accepted>>
    <3>1. /\ BatchUsed' /\ BatchDistinct' /\ batch'[b].msgs = batch[b].msgs
          /\ batch'[b].next = batch[b].next /\ batch'[b].status = "error"
          /\ \A c \in Batcher : c # b => batch'[c] = batch[c]
      BY <2>1, <2>2, <2>4 DEF BatchStatus
    <3>2. BatchProgress'
      BY <2>4, <3>1 DEF MsgInv, BatchProgress
    <3> QED
      BY <2>1, <2>4, <3>1, <3>2 DEF MsgInv, DeliveredAccepted, QueueAccepted, AcceptedUsed
  <2>5. CASE /\ batch[b].next \in 1..Len(batch[b].msgs)
             /\ batch[b].topic \in Topic
             /\ batch[b].msgs[batch[b].next] \in Msg
             /\ batch' = [batch EXCEPT ![b] = Moved(@, "running", @.next + 1)]
             /\ PublishLocked(batch[b].topic, batch[b].msgs[batch[b].next])
    <3> DEFINE m == batch[b].msgs[batch[b].next]
    <3>1. m \notin accepted /\ m \in used /\ accepted' = accepted \cup {m}
      BY <2>5, BatchMessageFresh DEF PublishLocked
    <3>2. DeliveredAccepted' /\ QueueAccepted' /\ AcceptedUsed'
      BY <2>1, <2>5, <3>1, PublishLockedKeeps
    <3>3. batch[b].next + 1 \in Nat \ {0} /\ "running" \in BatchStatus
      BY <2>1 DEF BatchStatus
    <3>4. /\ BatchUsed' /\ BatchDistinct' /\ batch'[b].msgs = batch[b].msgs
          /\ batch'[b].next = batch[b].next + 1 /\ batch'[b].status = "running"
          /\ \A c \in Batcher : c # b => batch'[c] = batch[c]
      BY <2>2, <2>5, <3>3
    <3>5. \A i \in 1..Len(batch[b].msgs) :
              batch[b].msgs[i] \in accepted' <=> i < batch[b].next + 1
      <4> SUFFICES ASSUME NEW i \in 1..Len(batch[b].msgs)
                   PROVE  batch[b].msgs[i] \in accepted' <=> i < batch[b].next + 1
        OBVIOUS
      <4>1. batch[b].msgs[i] = m <=> i = batch[b].next
        BY <2>5 DEF MsgInv, BatchDistinct
      <4>2. batch[b].msgs[i] \in accepted <=> i < batch[b].next
        BY DEF MsgInv, BatchProgress
      <4>3. i < batch[b].next + 1 <=> (i < batch[b].next \/ i = batch[b].next)
        BY <2>1
      <4> QED
        BY <3>1, <4>1, <4>2, <4>3
    <3>6. ASSUME NEW c \in Batcher, c # b, NEW i \in 1..Len(batch[c].msgs)
          PROVE  batch[c].msgs[i] \in accepted' <=> batch[c].msgs[i] \in accepted
      BY <2>5, <3>1, <3>6 DEF MsgInv, BatchDistinct
    <3>7. BatchProgress'
      <4> SUFFICES ASSUME NEW c \in Batcher
                   PROVE  /\ \A i \in 1..Len(batch'[c].msgs) :
                                batch'[c].msgs[i] \in accepted' <=> i < batch'[c].next
                          /\ batch'[c].status = "idle" => batch'[c].msgs = <<>>
                          /\ batch'[c].status = "nil" => batch'[c].next > Len(batch'[c].msgs)
                          /\ batch'[c].status = "error" => batch'[c].next <= Len(batch'[c].msgs)
        BY DEF BatchProgress
      <4>1. CASE c = b
        BY <3>4, <3>5, <4>1
      <4>2. CASE c # b
        BY <3>4, <3>6, <4>2 DEF MsgInv, BatchProgress
      <4> QED
        BY <4>1, <4>2
    <3> QED
      BY <3>2, <3>4, <3>7 DEF MsgInv
  <2> QED
    BY <1>5, <2>3, <2>4, <2>5, BatchStepCases, Zenon
<1>6. ASSUME NEW s \in Sub, NEW t \in Topic, Subscribe(s, t) PROVE MsgInv'
  BY <1>0, <1>6 DEF Subscribe
<1>7. ASSUME NEW t \in Topic, Unsubscribe(t) PROVE MsgInv'
  BY <1>0, <1>7 DEF Unsubscribe
<1>8. ASSUME NEW s \in Sub, SubUnsubscribe(s) \/ SubUnsubscribeFinish(s) PROVE MsgInv'
  BY <1>0, <1>8 DEF SubUnsubscribe, SubUnsubscribeFinish
<1>9. ASSUME NEW g \in inflight, RunHandler(g) PROVE MsgInv'
  <2>1. DeliveredAccepted'
    BY <1>9 DEF RunHandler, MsgInv, DeliveredAccepted
  <2> QED
    BY <1>9, <2>1 DEF RunHandler, MsgInv, QueueAccepted, AcceptedUsed, BatchUsed,
                      BatchDistinct, BatchProgress
<1>10. CASE UNCHANGED vars
  BY <1>0, <1>10 DEF vars
<1> QED
  BY <1>1, <1>2, <1>3, <1>4, <1>5, <1>6, <1>7, <1>8, <1>9, <1>10 DEF Next

LEMMA MsgInvInit == Init => MsgInv
<1> SUFFICES ASSUME Init PROVE MsgInv
  OBVIOUS
<1>1. \A b \in Batcher : batch[b].msgs = <<>> /\ batch[b].status = "idle"
  BY DEF Init, NoBatch
<1>2. /\ \A t \in Topic : queues[t] = <<>>
      /\ inflight = {} /\ handled = {} /\ accepted = {} /\ used = {}
  BY DEF Init
<1> QED
  BY <1>1, <1>2 DEF MsgInv, DeliveredAccepted, QueueAccepted, AcceptedUsed, BatchUsed,
                    BatchDistinct, BatchProgress

-----------------------------------------------------------------------------
(* At most one delivery.  A Publish starts goroutines for a message that   *)
(* no goroutine carries yet, and the slice it iterates over has one entry  *)
(* per subscription.                                                       *)

\* The goroutines of one Publish are for different subscriptions.
LEMMA SpawnedUnique ==
    ASSUME TypeOK, SubsInv, NEW t \in Topic, NEW m \in Msg,
           NEW g \in Spawned(t, m), NEW h \in Spawned(t, m), g.sub = h.sub
    PROVE  g = h
<1>1. PICK i \in 1..Len(subscribers[t]) :
         g = [msg |-> m, slot |-> i, sub |-> subscribers[t][i].id]
  BY EntryType DEF Spawned
<1>2. PICK j \in 1..Len(subscribers[t]) :
         h = [msg |-> m, slot |-> j, sub |-> subscribers[t][j].id]
  BY EntryType DEF Spawned
<1>3. i = j
  BY <1>1, <1>2 DEF SubsInv, EntryUnique
<1> QED
  BY <1>1, <1>2, <1>3

\* Publishing an unpublished message keeps deliveries unique.
LEMMA PublishLockedOnce ==
    ASSUME TypeOK, SubsInv, MsgInv, AtMostOnce, NEW t \in Topic, NEW m \in Msg,
           m \notin accepted, PublishLocked(t, m)
    PROVE  AtMostOnce'
<1>1. inflight' = inflight \cup Spawned(t, m) /\ handled' = handled
  BY DEF PublishLocked
<1>2. \A g \in Spawned(t, m) : g.msg = m
  BY SpawnedActive
<1>3. \A g \in inflight \cup handled : g.msg # m
  BY DEF MsgInv, DeliveredAccepted
<1>4. inflight' \cap handled' = {}
  BY <1>1, <1>2, <1>3 DEF AtMostOnce
<1>5. ASSUME NEW g \in inflight' \cup handled', NEW h \in inflight' \cup handled',
             g.msg = h.msg, g.sub = h.sub
      PROVE  g = h
  <2>1. CASE g \in Spawned(t, m) /\ h \in Spawned(t, m)
    BY <1>5, <2>1, SpawnedUnique
  <2>2. CASE g \in inflight \cup handled /\ h \in inflight \cup handled
    BY <1>5, <2>2 DEF AtMostOnce
  <2> QED
    BY <1>1, <1>2, <1>3, <1>5, <2>1, <2>2
<1> QED
  BY <1>4, <1>5 DEF AtMostOnce

LEMMA AtMostOnceStep ==
    TypeOK /\ SubsInv /\ MsgInv /\ AtMostOnce /\ [Next]_vars => AtMostOnce'
<1> SUFFICES ASSUME TypeOK, SubsInv, MsgInv, AtMostOnce, [Next]_vars
             PROVE  AtMostOnce'
  OBVIOUS
<1> USE DEF conn, handles, delivery, history
<1>0. ASSUME UNCHANGED delivery PROVE AtMostOnce'
  BY <1>0 DEF AtMostOnce
<1>1. CASE Connect \/ Close
  BY <1>0, <1>1 DEF Connect, Close
<1>2. ASSUME NEW t \in Topic, NEW m \in Msg, Publish(t, m) PROVE AtMostOnce'
  BY <1>2, PublishLockedOnce DEF Publish, MsgInv, AcceptedUsed
<1>3. ASSUME NEW b \in Batcher, NEW t \in Topic, NEW q \in NewBatches,
             PublishBatch(b, t, q)
      PROVE AtMostOnce'
  BY <1>0, <1>3 DEF PublishBatch
<1>4. ASSUME NEW b \in Batcher, PublishBatchStep(b) PROVE AtMostOnce'
  BY <1>0, <1>4, BatchStepCases, BatchMessageFresh, PublishLockedOnce
<1>5. ASSUME NEW s \in Sub, NEW t \in Topic, Subscribe(s, t) PROVE AtMostOnce'
  BY <1>0, <1>5 DEF Subscribe
<1>6. ASSUME NEW t \in Topic, Unsubscribe(t) PROVE AtMostOnce'
  BY <1>0, <1>6 DEF Unsubscribe
<1>7. ASSUME NEW s \in Sub, SubUnsubscribe(s) \/ SubUnsubscribeFinish(s) PROVE AtMostOnce'
  BY <1>0, <1>7 DEF SubUnsubscribe, SubUnsubscribeFinish
<1>8. ASSUME NEW g \in inflight, RunHandler(g) PROVE AtMostOnce'
  BY <1>8 DEF RunHandler, AtMostOnce
<1>9. CASE UNCHANGED vars
  BY <1>0, <1>9 DEF vars
<1> QED
  BY <1>1, <1>2, <1>3, <1>4, <1>5, <1>6, <1>7, <1>8, <1>9 DEF Next

\* The inductive invariant of the broker.
BrokerInv == TypeOK /\ SubsInv /\ MsgInv /\ AtMostOnce

\* The broker's inductive invariant: the types, the agreement of entries and
\* handles, the record of what was published and the uniqueness of deliveries.
THEOREM BrokerInvariant == Spec => []BrokerInv
<1>1. Init => AtMostOnce
  BY DEF Init, AtMostOnce
<1> QED
  BY <1>1, TypeCorrect, SubsInvInit, SubsInvStep, MsgInvInit, MsgInvStep,
     AtMostOnceStep, PTL DEF Spec, BrokerInv

\* No handler gets a message twice: however publishers, batches, both ways to
\* unsubscribe and reconnects interleave, one goroutine at most is ever
\* started for a message and a subscription, and it calls the handler once.
THEOREM DeliveredOnce == Spec => []AtMostOnce
<1>1. BrokerInv => AtMostOnce
  BY DEF BrokerInv
<1> QED
  BY <1>1, BrokerInvariant, PTL
-----------------------------------------------------------------------------
(* Batches.  The order of a batch in the queue follows from what was       *)
(* accepted when a message is appended: the messages before it, and none   *)
(* after it.                                                               *)

\* The places of queue q that hold messages of s are in the order of s.
InOrderOf(q, s) ==
    \A i, j \in 1..Len(s) : \A p, r \in 1..Len(q) :
        i < j /\ q[p] = s[i] /\ q[r] = s[j] => p < r

\* The queue of a batch's topic has its messages in the order of the batch.
QueueOrder ==
    \A b \in Batcher : batch[b].topic # NoTopic =>
        InOrderOf(queues[batch[b].topic], batch[b].msgs)

\* Appending a message keeps the order, if no later one of s is in the queue
\* and the messages of s are different.
LEMMA AppendInOrder ==
    ASSUME NEW q \in Seq(Msg), NEW s \in Seq(Msg), NEW m \in Msg, InOrderOf(q, s),
           \A i, j \in 1..Len(s) : s[i] = s[j] => i = j,
           \A i, j \in 1..Len(s) : \A r \in 1..Len(q) :
               s[i] = m /\ i < j => q[r] # s[j]
    PROVE  InOrderOf(Append(q, m), s)
<1> DEFINE n == Len(q)
           Q == Append(q, m)
<1>1. /\ n \in Nat /\ Len(Q) = n + 1 /\ Q[n + 1] = m
      /\ \A p \in 1..n : Q[p] = q[p]
  OBVIOUS
<1> HIDE DEF n, Q
<1>2. SUFFICES ASSUME NEW i \in 1..Len(s), NEW j \in 1..Len(s),
                      NEW p \in 1..Len(Q), NEW r \in 1..Len(Q),
                      i < j, Q[p] = s[i], Q[r] = s[j]
               PROVE  p < r
  BY DEF InOrderOf, Q
<1>3. (p \in 1..n \/ p = n + 1) /\ (r \in 1..n \/ r = n + 1)
  BY <1>1
<1>4. CASE p \in 1..n /\ r \in 1..n
  <2>1. q[p] = s[i] /\ q[r] = s[j]
    BY <1>1, <1>2, <1>4
  <2> QED
    BY <1>2, <1>4, <2>1 DEF InOrderOf, n
<1>5. CASE p \in 1..n /\ r = n + 1
  BY <1>1, <1>5
<1>6. CASE p = n + 1 /\ r \in 1..n
  <2>1. s[i] = m /\ q[r] = s[j]
    BY <1>1, <1>2, <1>6
  <2> QED
    BY <1>2, <1>6, <2>1 DEF n
<1>7. CASE p = n + 1 /\ r = n + 1
  <2>1. i = j
    BY <1>2, <1>7
  <2> QED
    BY <1>2, <2>1
<1> QED
  BY <1>3, <1>4, <1>5, <1>6, <1>7

\* Publishing an unpublished message keeps every batch in order: the later
\* messages of its batch are not published yet.
LEMMA PublishLockedOrder ==
    ASSUME TypeOK, MsgInv, QueueOrder, NEW t \in Topic, NEW m \in Msg,
           m \notin accepted, PublishLocked(t, m),
           \A b \in Batcher : /\ batch'[b].topic = batch[b].topic
                              /\ batch'[b].msgs = batch[b].msgs
    PROVE  QueueOrder'
<1>1. /\ queues'[t] = Append(queues[t], m)
      /\ \A u \in Topic : u # t => queues'[u] = queues[u]
  BY DEF PublishLocked, TypeOK
<1>2. SUFFICES ASSUME NEW b \in Batcher, batch[b].topic # NoTopic
               PROVE  InOrderOf(queues'[batch[b].topic], batch[b].msgs)
  BY DEF QueueOrder
<1>3. /\ batch[b].topic \in Topic /\ batch[b].next \in Nat
      /\ batch[b].msgs \in Seq(Msg) /\ queues[t] \in Seq(Msg)
      /\ InOrderOf(queues[batch[b].topic], batch[b].msgs)
  BY <1>2 DEF TypeOK, BatchCall, QueueOrder
<1>4. CASE batch[b].topic # t
  BY <1>1, <1>3, <1>4
<1>5. CASE batch[b].topic = t
  <2>1. \A i, j \in 1..Len(batch[b].msgs) :
            batch[b].msgs[i] = batch[b].msgs[j] => i = j
    BY DEF MsgInv, BatchDistinct
  <2>2. ASSUME NEW i \in 1..Len(batch[b].msgs), NEW j \in 1..Len(batch[b].msgs),
               NEW r \in 1..Len(queues[t]), batch[b].msgs[i] = m, i < j
        PROVE  queues[t][r] # batch[b].msgs[j]
    <3>1. ~(i < batch[b].next)
      BY <2>2 DEF MsgInv, BatchProgress
    <3>2. ~(j < batch[b].next)
      BY <1>3, <2>2, <3>1
    <3>3. batch[b].msgs[j] \notin accepted
      BY <3>2 DEF MsgInv, BatchProgress
    <3> QED
      BY <3>3 DEF MsgInv, QueueAccepted
  <2>3. \A i, j \in 1..Len(batch[b].msgs) : \A r \in 1..Len(queues[t]) :
            batch[b].msgs[i] = m /\ i < j => queues[t][r] # batch[b].msgs[j]
    BY <2>2
  <2>4. InOrderOf(Append(queues[t], m), batch[b].msgs)
    BY <1>3, <1>5, <2>1, <2>3, AppendInOrder, Zenon
  <2> QED
    BY <1>1, <1>5, <2>4
<1> QED
  BY <1>4, <1>5

LEMMA QueueOrderStep ==
    TypeOK /\ SubsInv /\ MsgInv /\ QueueOrder /\ [Next]_vars => QueueOrder'
<1> SUFFICES ASSUME TypeOK, SubsInv, MsgInv, QueueOrder, [Next]_vars
             PROVE  QueueOrder'
  OBVIOUS
<1> USE DEF conn, handles, delivery, history
<1>0. ASSUME UNCHANGED queues,
             \A b \in Batcher : /\ batch'[b].topic = batch[b].topic
                                /\ batch'[b].msgs = batch[b].msgs
      PROVE  QueueOrder'
  BY <1>0 DEF QueueOrder
<1>1. CASE Connect
  BY <1>0, <1>1 DEF Connect
<1>2. CASE Close
  <2>1. CASE stopClosed
    BY <1>0, <1>2, <2>1 DEF Close
  <2>2. CASE ~stopClosed
    <3>1. UNCHANGED batch /\ \A t \in Topic : Len(queues'[t]) = 0
      BY <1>2, <2>2 DEF Close
    <3>2. \A b \in Batcher : batch[b].topic # NoTopic => batch[b].topic \in Topic
      BY DEF TypeOK, BatchCall
    <3> QED
      BY <3>1, <3>2 DEF QueueOrder, InOrderOf
  <2> QED
    BY <2>1, <2>2
<1>3. ASSUME NEW t \in Topic, NEW m \in Msg, Publish(t, m) PROVE QueueOrder'
  BY <1>3, PublishLockedOrder DEF Publish, MsgInv, AcceptedUsed
<1>4. ASSUME NEW b \in Batcher, NEW t \in Topic, NEW q \in NewBatches,
             PublishBatch(b, t, q)
      PROVE QueueOrder'
  <2>1. \A i \in 1..Len(q) : q[i] \notin accepted
    BY NewBatchFacts, BrokerAssumption DEF MsgInv, AcceptedUsed
  <2>2. /\ batch'[b].msgs = q /\ batch'[b].topic = t /\ UNCHANGED queues
        /\ \A c \in Batcher : c # b => batch'[c] = batch[c]
    BY <1>4 DEF PublishBatch, TypeOK
  <2>3. \A p \in 1..Len(queues[t]) : queues[t][p] \in accepted
    BY DEF MsgInv, QueueAccepted
  <2>4. InOrderOf(queues[t], q)
    BY <2>1, <2>3 DEF InOrderOf
  <2> QED
    BY <2>2, <2>4 DEF QueueOrder
<1>5. ASSUME NEW b \in Batcher, PublishBatchStep(b) PROVE QueueOrder'
  <2>1. batch[b].status = "running" /\ batch[b].next \in Nat \ {0}
    BY <1>5, BatchStepCases, BatchNumbers, Zenon
  <2>2. ASSUME NEW st \in BatchStatus, NEW n \in Nat \ {0}, st # "idle",
               batch' = [batch EXCEPT ![b] = Moved(@, st, n)]
        PROVE  \A c \in Batcher : /\ batch'[c].topic = batch[c].topic
                                  /\ batch'[c].msgs = batch[c].msgs
    BY <2>1, <2>2, MovedFacts
  <2>3. CASE /\ \/ batch' = [batch EXCEPT ![b] = Moved(@, "nil", @.next)]
                \/ batch' = [batch EXCEPT ![b] = Moved(@, "error", @.next)]
             /\ UNCHANGED <<conn, queues, subscribers, handles, delivery, accepted>>
    BY <1>0, <2>1, <2>2, <2>3 DEF BatchStatus
  <2>4. CASE /\ batch[b].next \in 1..Len(batch[b].msgs)
             /\ batch[b].topic \in Topic
             /\ batch[b].msgs[batch[b].next] \in Msg
             /\ batch' = [batch EXCEPT ![b] = Moved(@, "running", @.next + 1)]
             /\ PublishLocked(batch[b].topic, batch[b].msgs[batch[b].next])
    <3>1. batch[b].next + 1 \in Nat \ {0} /\ "running" \in BatchStatus
      BY <2>1 DEF BatchStatus
    <3>2. \A c \in Batcher : /\ batch'[c].topic = batch[c].topic
                             /\ batch'[c].msgs = batch[c].msgs
      BY <2>2, <2>4, <3>1
    <3> QED
      BY <2>4, <3>2, BatchMessageFresh, PublishLockedOrder
  <2> QED
    BY <1>5, <2>3, <2>4, BatchStepCases, Zenon
<1>6. ASSUME NEW s \in Sub, NEW t \in Topic, Subscribe(s, t) PROVE QueueOrder'
  BY <1>0, <1>6 DEF Subscribe
<1>7. ASSUME NEW t \in Topic, Unsubscribe(t) PROVE QueueOrder'
  BY <1>0, <1>7 DEF Unsubscribe
<1>8. ASSUME NEW s \in Sub, SubUnsubscribe(s) \/ SubUnsubscribeFinish(s) PROVE QueueOrder'
  BY <1>0, <1>8 DEF SubUnsubscribe, SubUnsubscribeFinish
<1>9. ASSUME NEW g \in inflight, RunHandler(g) PROVE QueueOrder'
  BY <1>0, <1>9 DEF RunHandler
<1>10. CASE UNCHANGED vars
  BY <1>0, <1>10 DEF vars
<1> QED
  BY <1>1, <1>2, <1>3, <1>4, <1>5, <1>6, <1>7, <1>8, <1>9, <1>10 DEF Next

\* What PublishBatch publishes is a prefix of its batch (all of it when it
\* returns nil, less when it returns an error), and the queue keeps its order,
\* for batches of any length and any number of concurrent calls, also when
\* other goroutines Close and Connect between two messages.
THEOREM BatchPrefix == Spec => []BatchIsPrefix
<1>1. Init => QueueOrder
  BY DEF Init, QueueOrder, NoBatch
<1>2. TypeOK /\ MsgInv /\ QueueOrder => BatchIsPrefix
  <2> SUFFICES ASSUME TypeOK, MsgInv, QueueOrder, NEW b \in Batcher
               PROVE  LET call == batch[b]
                          Prefix(k) == \A i \in 1..Len(call.msgs) :
                                           call.msgs[i] \in accepted <=> i <= k
                      IN  /\ call.status = "nil" => Prefix(Len(call.msgs))
                          /\ call.status = "error" =>
                                 \E k \in 0..Len(call.msgs) :
                                     k # Len(call.msgs) /\ Prefix(k)
    BY DEF BatchIsPrefix, QueueOrder, InOrderOf
  <2>1. batch[b].next \in Nat \ {0} /\ Len(batch[b].msgs) \in Nat
    BY BatchNumbers
  <2>2. \A i \in 1..Len(batch[b].msgs) :
            batch[b].msgs[i] \in accepted <=> i < batch[b].next
    BY DEF MsgInv, BatchProgress
  <2>3. ASSUME batch[b].status = "nil", NEW i \in 1..Len(batch[b].msgs)
        PROVE  batch[b].msgs[i] \in accepted <=> i <= Len(batch[b].msgs)
    <3>1. i < batch[b].next /\ i <= Len(batch[b].msgs)
      BY <2>1, <2>3 DEF MsgInv, BatchProgress
    <3> QED
      BY <2>2, <3>1
  <2>4. ASSUME batch[b].status = "error"
        PROVE  \E k \in 0..Len(batch[b].msgs) :
                  /\ k # Len(batch[b].msgs)
                  /\ \A i \in 1..Len(batch[b].msgs) :
                         batch[b].msgs[i] \in accepted <=> i <= k
    <3> DEFINE k == batch[b].next - 1
    <3>1. k \in 0..Len(batch[b].msgs) /\ k # Len(batch[b].msgs)
      BY <2>1, <2>4 DEF MsgInv, BatchProgress
    <3>2. \A i \in 1..Len(batch[b].msgs) : i < batch[b].next <=> i <= k
      BY <2>1
    <3> QED
      BY <2>2, <3>1, <3>2
  <2> QED
    BY <2>3, <2>4
<1> QED
  BY <1>1, <1>2, BrokerInvariant, QueueOrderStep, PTL DEF Spec, BrokerInv
-----------------------------------------------------------------------------
(* The contract.  Under the mapping of PS every operation of the broker is *)
(* an operation of PubSub or changes nothing a user can see: a Publish     *)
(* owes the message to the live subscriptions because the goroutines it    *)
(* starts are those of the active entries, and a handler that runs pays    *)
(* exactly one pair because deliveries are unique.                         *)

\* The subscriptions live on a topic are those with an active entry.
LEMMA LiveIs ==
    ASSUME TypeOK, NEW t \in Topic, NEW s
    PROVE  s \in Live[t] <=> \E i \in 1..Len(subscribers[t]) :
                                 subscribers[t][i].active /\ subscribers[t][i].id = s
<1>1. DOMAIN subscribers[t] = 1..Len(subscribers[t])
  BY EntryType
<1> QED
  BY <1>1 DEF Live

\* Live is a set of subscriptions per topic.
LEMMA LiveType == ASSUME TypeOK PROVE Live \in [Topic -> SUBSET Sub]
<1>1. \A t \in Topic : \A s \in Live[t] : s \in Sub
  BY LiveIs, EntryType
<1>2. Live = [t \in Topic |-> Live[t]]
  BY DEF Live
<1> QED
  BY <1>1, <1>2

\* The goroutines a Publish starts carry its message to the live subscriptions.
LEMMA SpawnedPairs ==
    ASSUME TypeOK, NEW t \in Topic, NEW m \in Msg
    PROVE  Pairs(Spawned(t, m)) = Live[t] \X {m}
<1>1. ASSUME NEW x \in Pairs(Spawned(t, m)) PROVE x \in Live[t] \X {m}
  <2>1. PICK g \in Spawned(t, m) : x = <<g.sub, g.msg>>
    BY DEF Pairs
  <2>2. PICK i \in 1..Len(subscribers[t]) :
           /\ subscribers[t][i].active
           /\ g = [msg |-> m, slot |-> i, sub |-> subscribers[t][i].id]
    BY EntryType DEF Spawned
  <2>3. g.sub \in Live[t] /\ g.msg = m
    BY <2>2, LiveIs
  <2> QED
    BY <2>1, <2>3
<1>2. ASSUME NEW x \in Live[t] \X {m} PROVE x \in Pairs(Spawned(t, m))
  <2>1. PICK s \in Live[t] : x = <<s, m>>
    OBVIOUS
  <2>2. PICK i \in 1..Len(subscribers[t]) :
           subscribers[t][i].active /\ subscribers[t][i].id = s
    BY <2>1, LiveIs
  <2> DEFINE g == [msg |-> m, slot |-> i, sub |-> subscribers[t][i].id]
  <2>3. g \in Spawned(t, m)
    BY <2>2, EntryType DEF Spawned
  <2>4. x = <<g.sub, g.msg>>
    BY <2>1, <2>2
  <2> QED
    BY <2>3, <2>4 DEF Pairs
<1> QED
  BY <1>1, <1>2

\* Publishing an unpublished message is the Publish of the contract.
LEMMA PublishLockedMaps ==
    ASSUME TypeOK, NEW t \in Topic, NEW m \in Msg, m \notin accepted,
           PublishLocked(t, m)
    PROVE  PS!Next
<1>1. Pairs(inflight') = Pairs(inflight) \cup (Live[t] \X {m})
  <2>1. Pairs(inflight') = Pairs(inflight) \cup Pairs(Spawned(t, m))
    BY DEF Pairs, PublishLocked
  <2> QED
    BY <2>1, SpawnedPairs
<1>2. Live' = Live
  BY DEF Live, PublishLocked
<1>3. /\ UNCHANGED <<subTopic, handled, panicked>> /\ accepted' = accepted \cup {m}
  BY DEF PublishLocked, conn, handles
<1>4. PS!Publish(t, m)
  BY <1>1, <1>2, <1>3 DEF PS!Publish, Pairs
<1> QED
  BY <1>4 DEF PS!Next

\* Fewer active entries and nothing else is a Cancel of the contract.
LEMMA FewerLiveMaps ==
    ASSUME TypeOK, TypeOK', UNCHANGED <<subTopic, delivery, accepted, panicked>>,
           \A t \in Topic : \A i \in 1..Len(subscribers'[t]) :
               subscribers'[t][i].active =>
                   /\ i \in 1..Len(subscribers[t])
                   /\ subscribers[t][i].active
                   /\ subscribers'[t][i].id = subscribers[t][i].id
    PROVE  PS!Next
<1>1. ASSUME NEW t \in Topic PROVE Live'[t] \subseteq Live[t]
  <2>1. SUFFICES ASSUME NEW s \in Live'[t] PROVE s \in Live[t]
    OBVIOUS
  <2>2. DOMAIN subscribers'[t] = 1..Len(subscribers'[t])
    BY DEF TypeOK
  <2>3. PICK i \in 1..Len(subscribers'[t]) :
           subscribers'[t][i].active /\ subscribers'[t][i].id = s
    BY <2>1, <2>2 DEF Live
  <2> QED
    BY <2>3, LiveIs
<1>2. Live' \in [Topic -> SUBSET Sub]
  <2>1. Live' = [t \in Topic |-> Live'[t]]
    BY DEF Live
  <2> QED
    BY <1>1, <2>1, LiveType
<1>3. PS!Cancel
  BY <1>1, <1>2 DEF PS!Cancel, Pairs, delivery
<1> QED
  BY <1>3 DEF PS!Next

\* Every step of the broker is a step of the contract, or invisible in it.
LEMMA ContractStep ==
    BrokerInv /\ BrokerInv' /\ [Next]_vars => [PS!Next]_(PS!vars)
<1> SUFFICES ASSUME BrokerInv, BrokerInv', [Next]_vars PROVE [PS!Next]_(PS!vars)
  OBVIOUS
<1> USE DEF conn, handles, delivery, history
<1>a. TypeOK /\ SubsInv /\ MsgInv /\ AtMostOnce /\ TypeOK'
  BY DEF BrokerInv
<1>0. ASSUME UNCHANGED <<panicked, subscribers, subTopic, delivery, accepted>>
      PROVE  UNCHANGED PS!vars
  BY <1>0 DEF PS!vars, Live, Pairs
<1>1. CASE Connect
  BY <1>0, <1>1 DEF Connect
<1>2. CASE Close
  <2>1. CASE stopClosed
    <3>1. panicked' = TRUE /\ UNCHANGED <<subscribers, subTopic, delivery, accepted>>
      BY <1>2, <2>1 DEF Close
    <3>2. PS!Halt
      BY <3>1 DEF PS!Halt, Live, Pairs
    <3> QED
      BY <3>2 DEF PS!Next
  <2>2. CASE ~stopClosed
    <3>1. /\ UNCHANGED <<subTopic, delivery, accepted, panicked>>
          /\ \A t \in Topic : Len(subscribers'[t]) = 0
      BY <1>2, <2>2 DEF Close
    <3>2. PS!Next
      BY <1>a, <3>1, FewerLiveMaps
    <3> QED
      BY <3>2
  <2> QED
    BY <2>1, <2>2
<1>3. ASSUME NEW t \in Topic, NEW m \in Msg, Publish(t, m) PROVE PS!Next
  BY <1>a, <1>3, PublishLockedMaps DEF Publish, MsgInv, AcceptedUsed
<1>4. ASSUME NEW b \in Batcher, NEW t \in Topic, NEW q \in NewBatches,
             PublishBatch(b, t, q)
      PROVE UNCHANGED PS!vars
  BY <1>0, <1>4 DEF PublishBatch
<1>5. ASSUME NEW b \in Batcher, PublishBatchStep(b) PROVE [PS!Next]_(PS!vars)
  BY <1>0, <1>a, <1>5, BatchStepCases, BatchMessageFresh, PublishLockedMaps
<1>6. ASSUME NEW s \in Sub, NEW t \in Topic, Subscribe(s, t) PROVE PS!Next
  <2>1. /\ subscribers' = [subscribers EXCEPT ![t] = Append(@, [id |-> s, active |-> TRUE])]
        /\ subTopic' = [subTopic EXCEPT ![s] = t] /\ subTopic[s] = NoTopic
        /\ UNCHANGED <<panicked, delivery, accepted>>
    BY <1>6 DEF Subscribe
  <2>2. t # NoTopic
    BY BrokerAssumption DEF BrokerAssumption
  <2>3. {r \in Sub : subTopic'[r] # NoTopic} = {r \in Sub : subTopic[r] # NoTopic} \cup {s}
    BY <1>a, <2>1, <2>2 DEF TypeOK
  <2>4. \A u \in Topic : u # t => Live'[u] = Live[u]
    BY <1>a, <2>1 DEF TypeOK, Live
  <2>5. Live'[t] = Live[t] \cup {s}
    <3> DEFINE n == Len(subscribers[t])
    <3>1. /\ n \in Nat /\ Len(subscribers'[t]) = n + 1
          /\ \A i \in 1..n : subscribers'[t][i] = subscribers[t][i]
          /\ subscribers'[t][n + 1].id = s /\ subscribers'[t][n + 1].active
          /\ DOMAIN subscribers'[t] = 1..Len(subscribers'[t])
      BY <1>a, <2>1, EntryType DEF TypeOK
    <3> HIDE DEF n
    <3>2. ASSUME NEW r \in Live'[t] PROVE r \in Live[t] \cup {s}
      <4>1. PICK i \in 1..Len(subscribers'[t]) :
               subscribers'[t][i].active /\ subscribers'[t][i].id = r
        BY <3>1, <3>2 DEF Live
      <4>2. CASE i \in 1..n
        BY <1>a, <3>1, <4>1, <4>2, LiveIs DEF n
      <4>3. CASE i = n + 1
        BY <3>1, <4>1, <4>3
      <4> QED
        BY <3>1, <4>2, <4>3
    <3>3. ASSUME NEW r \in Live[t] PROVE r \in Live'[t]
      <4>1. PICK i \in 1..n : subscribers[t][i].active /\ subscribers[t][i].id = r
        BY <1>a, <3>3, LiveIs DEF n
      <4>2. i \in 1..Len(subscribers'[t])
        BY <3>1
      <4> QED
        BY <3>1, <4>1, <4>2 DEF Live
    <3>4. s \in Live'[t]
      <4>1. n + 1 \in 1..Len(subscribers'[t])
        BY <3>1
      <4> QED
        BY <3>1, <4>1 DEF Live
    <3> QED
      BY <3>2, <3>3, <3>4
  <2>6. Live' = [Live EXCEPT ![t] = @ \cup {s}]
    <3>1. Live' = [u \in Topic |-> Live'[u]] /\ Live = [u \in Topic |-> Live[u]]
      BY DEF Live
    <3> QED
      BY <2>4, <2>5, <3>1
  <2>7. PS!Subscribe(s, t)
    BY <2>1, <2>3, <2>6 DEF PS!Subscribe, Pairs
  <2> QED
    BY <2>7 DEF PS!Next
<1>7. ASSUME NEW t \in Topic, Unsubscribe(t) PROVE PS!Next
  <2>1. /\ subscribers'[t] = <<>> /\ UNCHANGED <<subTopic, delivery, accepted, panicked>>
        /\ \A u \in Topic : u # t => subscribers'[u] = subscribers[u]
    BY <1>a, <1>7 DEF Unsubscribe, TypeOK
  <2>2. Len(subscribers'[t]) = 0
    BY <2>1
  <2> QED
    BY <1>a, <2>1, <2>2, FewerLiveMaps
<1>8. ASSUME NEW s \in Sub, SubUnsubscribe(s) PROVE UNCHANGED PS!vars
  BY <1>0, <1>8 DEF SubUnsubscribe
<1>9. ASSUME NEW s \in Sub, SubUnsubscribeFinish(s) PROVE PS!Next
  <2> DEFINE t == subTopic[s]
  <2>1. t \in Topic
    BY <1>a, <1>9 DEF SubUnsubscribeFinish, SubsInv, HandleKnown, TypeOK
  <2>2. /\ subscribers'[t] = Deactivated(subscribers[t], s)
        /\ \A u \in Topic : u # t => subscribers'[u] = subscribers[u]
        /\ UNCHANGED <<subTopic, delivery, accepted, panicked>>
    BY <1>a, <1>9, <2>1 DEF SubUnsubscribeFinish, TypeOK
  <2> HIDE DEF t
  <2>3. /\ Len(subscribers'[t]) = Len(subscribers[t])
        /\ \A i \in 1..Len(subscribers[t]) :
              /\ subscribers'[t][i].id = subscribers[t][i].id
              /\ subscribers'[t][i].active => subscribers[t][i].active
    BY <1>a, <2>1, <2>2, DeactivatedFacts, EntryType
  <2> QED
    BY <1>a, <2>2, <2>3, FewerLiveMaps
<1>10. ASSUME NEW g \in inflight, RunHandler(g) PROVE PS!Next
  <2>1. /\ ~panicked /\ inflight' = inflight \ {g} /\ handled' = handled \cup {g}
        /\ UNCHANGED <<subscribers, subTopic, accepted, panicked>>
    BY <1>10 DEF RunHandler
  <2>2. g.sub \in Sub /\ g.msg \in Msg
    BY <1>a DEF TypeOK, Goroutine
  <2>3. Pairs(inflight') = Pairs(inflight) \ {<<g.sub, g.msg>>}
    <3>1. \A h \in inflight : <<h.sub, h.msg>> = <<g.sub, g.msg>> => h = g
      BY <1>a DEF AtMostOnce
    <3> QED
      BY <2>1, <3>1 DEF Pairs
  <2>4. Pairs(handled') = Pairs(handled) \cup {<<g.sub, g.msg>>}
    BY <2>1 DEF Pairs
  <2>5. <<g.sub, g.msg>> \in Pairs(inflight) /\ Live' = Live
    BY <2>1 DEF Pairs, Live
  <2>6. PS!Handle(g.sub, g.msg)
    BY <2>1, <2>3, <2>4, <2>5 DEF PS!Handle
  <2> QED
    BY <2>2, <2>6 DEF PS!Next
<1>11. CASE UNCHANGED vars
  BY <1>0, <1>11 DEF vars
<1> QED
  BY <1>1, <1>2, <1>3, <1>4, <1>5, <1>6, <1>7, <1>8, <1>9, <1>10, <1>11 DEF Next

\* The broker implements the safety of its contract: a Publish owes its
\* message to exactly the subscriptions live at that moment, a handler runs
\* only for an owed message and pays it once, a cancelled subscription never
\* comes back, and none of Connect, Close, PublishBatch or the two steps of
\* inMemorySub.Unsubscribe does anything else a user of the broker can see.
THEOREM ContractKept == Spec => PS!SafeSpec
<1>1. Init => PS!Init
  <2> SUFFICES ASSUME Init PROVE PS!Init
    OBVIOUS
  <2>1. Live = [t \in Topic |-> {}]
    BY DEF Init, Live
  <2>2. Pairs(inflight) = {} /\ Pairs(handled) = {}
    BY DEF Init, Pairs
  <2>3. {s \in Sub : subTopic[s] # NoTopic} = {}
    BY DEF Init
  <2> QED
    BY <2>1, <2>2, <2>3 DEF Init, PS!Init
<1> QED
  BY <1>1, BrokerInvariant, ContractStep, PTL DEF Spec, PS!SafeSpec
=============================================================================
