------------------------ MODULE ConsumerGroupProofs -------------------------
(***************************************************************************)
(* Proofs about ConsumerGroup, for every set of topics, subscriptions and  *)
(* callers and any number of calls: type correctness, that the group       *)
(* drives the broker through the broker's own operations only (so that     *)
(* what is proved of InMemoryBroker holds under it), and, when Start and   *)
(* Stop do not overlap, that a stopped group owns nothing and a running    *)
(* one has one subscription per topic.                                     *)
(***************************************************************************)
EXTENDS ConsumerGroup, InMemoryBrokerProofs, FiniteSetTheorems

\* The stages at which a call holds cg.mu, ...
Critical == {"subscribing", "cleanup", "cleanupSub", "stopping", "stoppingSub"}

\* ... those of the loop that cancels the handles of the map, ...
Looping == {"cleanup", "cleanupSub", "stopping", "stoppingSub"}

\* ... and those inside of one inMemorySub.Unsubscribe.
InCall == {"cleanupSub", "stoppingSub"}

\* cg.mu is held by the call that is between its Lock and its Unlock, ...
LockHeld == \A c \in Caller : pc[c] \in Critical <=> mu = c

\* ... a key of the map stands for a handle of that topic, ...
MapTopic == \A t \in Topic : subscriptions[t] # NoSub => subTopic[subscriptions[t]] = t

\* ... the loop visits keys of the map, ...
LoopKeys == \A c \in Caller : pc[c] \in Looping => todo[c] \subseteq Subscribed

\* ... a handle is locked only inside of an Unsubscribe of the loop, one at a
\* time, after it was made inactive.
OneCancel ==
    /\ \A s \in Sub : subMu[s] => ~subActive[s] /\ \E c \in Caller : pc[c] \in InCall
    /\ \A r, s \in Sub : subMu[r] /\ subMu[s] => r = s

\* Outside of the loop the handles of the map are active.
MapActive ==
    (\A c \in Caller : pc[c] \notin Looping) =>
        \A t \in Subscribed : subActive[subscriptions[t]]

\* A Start has subscribed the topics that its loop has behind it.
StartCovers ==
    \A c \in Caller : pc[c] = "subscribing" => handlers \subseteq Subscribed \cup todo[c]

LockInv == LockHeld /\ MapTopic /\ LoopKeys /\ OneCancel /\ MapActive /\ StartCovers

\* One call at a time is in progress, and none while the group runs, ...
OneCall ==
    /\ \A c, d \in Caller : pc[c] # "idle" /\ pc[d] # "idle" => c = d
    /\ running => Quiet

\* ... every handle that is active or being cancelled is in the map, ...
Owned == \A s \in Sub : subActive[s] \/ subMu[s] => subscriptions[subTopic[s]] = s

\* ... the map of a stopped group is empty, also when a Start is about to take
\* cg.mu, and has no key that its loop has still to visit, ...
EmptyBefore ==
    /\ Quiet /\ ~running => Subscribed = {}
    /\ \A c \in Caller : pc[c] = "startLock" => Subscribed = {}
    /\ \A c \in Caller : pc[c] = "subscribing" => Subscribed \cap todo[c] = {}

\* ... the loop has all handles before it that are not cancelled, ...
LoopCovers ==
    \A c \in Caller : pc[c] \in Looping =>
        \A s \in Sub : subActive[s] \/ subMu[s] => subTopic[s] \in todo[c]

\* ... and a running group has the topics it was started with.
RunCovers == running => wanted \subseteq Subscribed

SerialInv == OneCall /\ Owned /\ EmptyBefore /\ LoopCovers /\ RunCovers

GroupInv == GroupTypeOK /\ SubsInv /\ LockInv /\ (~overlapped => SerialInv)

-----------------------------------------------------------------------------
(* Steps.                                                                  *)

\* What others do to the broker does not touch the handles of the group.
LEMMA BrokerStepFacts ==
    ASSUME BrokerStep
    PROVE  Next /\ UNCHANGED <<handles, group>>
<1> USE DEF conn, delivery, history
<1>0. UNCHANGED group
  BY DEF BrokerStep
<1>1. CASE Connect
  BY <1>0, <1>1 DEF Connect, Next
<1>2. CASE Close
  BY <1>0, <1>2 DEF Close, Next
<1>3. ASSUME NEW t \in Topic, NEW m \in Msg, Publish(t, m)
      PROVE  Next /\ UNCHANGED <<handles, group>>
  BY <1>0, <1>3 DEF Publish, PublishLocked, Next
<1>4. ASSUME NEW t \in Topic, Unsubscribe(t)
      PROVE  Next /\ UNCHANGED <<handles, group>>
  BY <1>0, <1>4 DEF Unsubscribe, Next
<1>5. ASSUME NEW g \in inflight, RunHandler(g)
      PROVE  Next /\ UNCHANGED <<handles, group>>
  BY <1>0, <1>5 DEF RunHandler, Next
<1> QED
  BY <1>1, <1>2, <1>3, <1>4, <1>5 DEF BrokerStep

\* A Start subscribes with a handle that is new.
LEMMA SubscribeFacts ==
    ASSUME GroupTypeOK, NEW c \in Caller, NEW t \in Topic, StartSubscribe(c, t)
    PROVE  /\ pc[c] = "subscribing" /\ t \in todo[c]
           /\ \E s \in Sub :
                 /\ Subscribe(s, t)
                 /\ subTopic[s] = NoTopic /\ subTopic'[s] = t /\ subActive'[s]
                 /\ \A r \in Sub : r # s => /\ subTopic'[r] = subTopic[r]
                                            /\ subActive'[r] = subActive[r]
                 /\ subscriptions'[t] = s
           /\ \A u \in Topic : u # t => subscriptions'[u] = subscriptions[u]
           /\ todo'[c] = todo[c] \ {t}
           /\ \A d \in Caller : d # c => todo'[d] = todo[d]
           /\ subscriptions' \in [Topic -> Sub \cup {NoSub}]
           /\ todo' \in [Caller -> SUBSET Topic]
           /\ UNCHANGED <<subMu, handlers, running, mu, pc, calls, wanted, overlapped>>
<1>1. PICK s : s = CHOOSE x \in NewSubs : TRUE
  OBVIOUS
<1>2. s \in NewSubs
  BY <1>1 DEF StartSubscribe
<1>3. s \in Sub /\ subTopic[s] = NoTopic
  BY <1>2 DEF NewSubs
<1>4. /\ pc[c] = "subscribing" /\ t \in todo[c] /\ Subscribe(s, t)
      /\ subscriptions' = [subscriptions EXCEPT ![t] = s]
      /\ todo' = [todo EXCEPT ![c] = @ \ {t}]
      /\ UNCHANGED <<handlers, running, mu, pc, calls, wanted, overlapped>>
  BY <1>1 DEF StartSubscribe
<1>5. /\ subTopic' = [subTopic EXCEPT ![s] = t]
      /\ subActive' = [subActive EXCEPT ![s] = TRUE] /\ UNCHANGED subMu
  BY <1>4 DEF Subscribe
<1>6. /\ subTopic \in [Sub -> Topic \cup {NoTopic}] /\ subActive \in [Sub -> BOOLEAN]
      /\ subscriptions \in [Topic -> Sub \cup {NoSub}] /\ todo \in [Caller -> SUBSET Topic]
  BY DEF GroupTypeOK, TypeOK
<1>7. /\ subTopic'[s] = t /\ subActive'[s] /\ subscriptions'[t] = s
      /\ \A r \in Sub : r # s => /\ subTopic'[r] = subTopic[r]
                                 /\ subActive'[r] = subActive[r]
      /\ \A u \in Topic : u # t => subscriptions'[u] = subscriptions[u]
      /\ subscriptions' \in [Topic -> Sub \cup {NoSub}]
  BY <1>3, <1>4, <1>5, <1>6
<1>8. /\ todo'[c] = todo[c] \ {t}
      /\ \A d \in Caller : d # c => todo'[d] = todo[d]
      /\ todo' \in [Caller -> SUBSET Topic]
  BY <1>4, <1>6
<1> QED
  BY <1>3, <1>4, <1>5, <1>7, <1>8

\* The loop cancels a handle of the map, in two steps of the broker.
LEMMA CancelFacts ==
    ASSUME GroupTypeOK, LockInv, NEW c \in Caller, NEW t \in Topic,
           UnsubscribeBegin(c, t)
    PROVE  /\ pc[c] \in {"cleanup", "stopping"} /\ t \in todo[c]
           /\ subscriptions[t] \in Sub
           /\ SubUnsubscribe(subscriptions[t])
           /\ ~subActive'[subscriptions[t]] /\ subMu'[subscriptions[t]]
           /\ \A r \in Sub : r # subscriptions[t] => /\ subActive'[r] = subActive[r]
                                                     /\ subMu'[r] = subMu[r]
           /\ subActive[subscriptions[t]]
           /\ pc'[c] \in InCall
           /\ \A d \in Caller : d # c => pc'[d] = pc[d]
           /\ pc' \in [Caller -> Pc]
           /\ UNCHANGED <<subTopic, handlers, subscriptions, running, mu, todo, calls,
                          wanted, overlapped>>
<1>1. /\ pc[c] \in {"cleanup", "stopping"} /\ t \in todo[c]
      /\ SubUnsubscribe(subscriptions[t])
      /\ pc' = [pc EXCEPT ![c] = Inside(pc[c])]
      /\ UNCHANGED <<handlers, subscriptions, running, mu, todo, calls, wanted, overlapped>>
  BY DEF UnsubscribeBegin
<1>2. subscriptions[t] \in Sub
  BY <1>1 DEF LockInv, LoopKeys, Looping, Subscribed, GroupTypeOK
<1>3. Inside(pc[c]) \in InCall
  BY <1>1 DEF Inside, InCall
<1>4. pc \in [Caller -> Pc] /\ subActive \in [Sub -> BOOLEAN] /\ subMu \in [Sub -> BOOLEAN]
  BY DEF GroupTypeOK, TypeOK
<1>5. /\ pc'[c] \in InCall /\ pc' \in [Caller -> Pc]
      /\ \A d \in Caller : d # c => pc'[d] = pc[d]
  BY <1>1, <1>3, <1>4 DEF Pc, InCall
<1>6. /\ subActive[subscriptions[t]] /\ UNCHANGED subTopic
      /\ subMu' = [subMu EXCEPT ![subscriptions[t]] = TRUE]
      /\ subActive' = [subActive EXCEPT ![subscriptions[t]] = FALSE]
  BY <1>1 DEF SubUnsubscribe
<1>7. /\ ~subActive'[subscriptions[t]] /\ subMu'[subscriptions[t]]
      /\ \A r \in Sub : r # subscriptions[t] => /\ subActive'[r] = subActive[r]
                                                /\ subMu'[r] = subMu[r]
  BY <1>2, <1>4, <1>6
<1> QED
  BY <1>1, <1>2, <1>5, <1>6, <1>7

LEMMA CancelledFacts ==
    ASSUME GroupTypeOK, LockInv, NEW c \in Caller, NEW t \in Topic,
           UnsubscribeEnd(c, t)
    PROVE  /\ pc[c] \in InCall /\ t \in todo[c]
           /\ subscriptions[t] \in Sub
           /\ SubUnsubscribeFinish(subscriptions[t])
           /\ subMu[subscriptions[t]] /\ ~subMu'[subscriptions[t]]
           /\ \A r \in Sub : r # subscriptions[t] => subMu'[r] = subMu[r]
           /\ pc'[c] \in {"cleanup", "stopping"}
           /\ \A d \in Caller : d # c => pc'[d] = pc[d]
           /\ todo'[c] = todo[c] \ {t}
           /\ \A d \in Caller : d # c => todo'[d] = todo[d]
           /\ pc' \in [Caller -> Pc] /\ todo' \in [Caller -> SUBSET Topic]
           /\ UNCHANGED <<subTopic, subActive, handlers, subscriptions, running, mu, calls,
                          wanted, overlapped>>
<1>1. /\ pc[c] \in InCall /\ t \in todo[c]
      /\ SubUnsubscribeFinish(subscriptions[t])
      /\ pc' = [pc EXCEPT ![c] = Outside(pc[c])]
      /\ todo' = [todo EXCEPT ![c] = @ \ {t}]
      /\ UNCHANGED <<handlers, subscriptions, running, mu, calls, wanted, overlapped>>
  BY DEF UnsubscribeEnd, InCall
<1>2. subscriptions[t] \in Sub
  BY <1>1 DEF LockInv, LoopKeys, Looping, InCall, Subscribed, GroupTypeOK
<1>3. Outside(pc[c]) \in {"cleanup", "stopping"}
  BY <1>1 DEF Outside, InCall
<1>4. pc \in [Caller -> Pc] /\ todo \in [Caller -> SUBSET Topic] /\ subMu \in [Sub -> BOOLEAN]
  BY DEF GroupTypeOK, TypeOK
<1>5. /\ pc'[c] \in {"cleanup", "stopping"} /\ pc' \in [Caller -> Pc]
      /\ \A d \in Caller : d # c => pc'[d] = pc[d]
  BY <1>1, <1>3, <1>4 DEF Pc
<1>6. /\ todo'[c] = todo[c] \ {t} /\ todo' \in [Caller -> SUBSET Topic]
      /\ \A d \in Caller : d # c => todo'[d] = todo[d]
  BY <1>1, <1>4
<1>7. /\ subMu[subscriptions[t]] /\ UNCHANGED <<subTopic, subActive>>
      /\ subMu' = [subMu EXCEPT ![subscriptions[t]] = FALSE]
  BY <1>1 DEF SubUnsubscribeFinish
<1>8. /\ ~subMu'[subscriptions[t]]
      /\ \A r \in Sub : r # subscriptions[t] => subMu'[r] = subMu[r]
  BY <1>2, <1>4, <1>7
<1> QED
  BY <1>1, <1>2, <1>5, <1>6, <1>7, <1>8

\* Every step of the group is a step of the broker, or leaves it alone.
LEMMA BrokerMaps == GroupTypeOK /\ LockInv /\ [GroupNext]_allVars => [Next]_vars
<1> SUFFICES ASSUME GroupTypeOK, LockInv, GroupNext PROVE [Next]_vars
  BY DEF allVars
<1>1. ASSUME NEW t \in Topic, Add(t) PROVE [Next]_vars
  BY <1>1 DEF Add
<1>2. ASSUME NEW c \in Caller, StartCheck(c) \/ StopSwap(c) PROVE [Next]_vars
  BY <1>2 DEF StartCheck, StopSwap
<1>3. ASSUME NEW c \in Caller,
             \/ StartLock(c) \/ StartSubscribeFails(c) \/ StartDone(c)
             \/ StopLock(c) \/ UnsubscribeAllDone(c)
      PROVE [Next]_vars
  BY <1>3 DEF StartLock, StartSubscribeFails, StartDone, StopLock, UnsubscribeAllDone
<1>4. ASSUME NEW c \in Caller, NEW t \in Topic, StartSubscribe(c, t) PROVE [Next]_vars
  BY <1>4, SubscribeFacts DEF Next
<1>5. ASSUME NEW c \in Caller, NEW t \in Topic, UnsubscribeBegin(c, t) PROVE [Next]_vars
  BY <1>5, CancelFacts DEF Next
<1>6. ASSUME NEW c \in Caller, NEW t \in Topic, UnsubscribeEnd(c, t) PROVE [Next]_vars
  BY <1>6, CancelledFacts DEF Next
<1>7. CASE BrokerStep
  BY <1>7, BrokerStepFacts
<1> QED
  BY <1>1, <1>2, <1>3, <1>4, <1>5, <1>6, <1>7, Zenon DEF GroupNext, CallStep

\* What a step that only moves one call does: its stage changes from p to q.
Goes(c, p, q) ==
    /\ pc[c] = p /\ pc'[c] = q /\ q \in Pc
    /\ \A d \in Caller : d # c => pc'[d] = pc[d]
    /\ pc' \in [Caller -> Pc]

\* Its loop gets the topics of a set.
Walks(c, T) ==
    /\ todo'[c] = T
    /\ \A d \in Caller : d # c => todo'[d] = todo[d]
    /\ todo' \in [Caller -> SUBSET Topic]

LEMMA Moves ==
    ASSUME GroupTypeOK, NEW c \in Caller
    PROVE  /\ StartCheck(c) =>
                 /\ \/ Goes(c, "idle", "idle") /\ running
                    \/ Goes(c, "idle", "startLock") /\ ~running
                 /\ UNCHANGED running
           /\ StopSwap(c) =>
                 /\ \/ Goes(c, "idle", "idle") /\ ~running
                    \/ Goes(c, "idle", "stopLock") /\ running
                 /\ running' = FALSE
           /\ StartCheck(c) \/ StopSwap(c) =>
                 /\ calls < MaxCalls /\ calls' = calls + 1
                 /\ overlapped' = (overlapped \/ \E d \in Caller : pc[d] # "idle")
                 /\ UNCHANGED <<vars, handlers, subscriptions, mu, todo, wanted>>
           /\ StartLock(c) =>
                 /\ Goes(c, "startLock", "subscribing") /\ Walks(c, handlers)
                 /\ mu = Nobody /\ mu' = c
                 /\ UNCHANGED <<vars, handlers, subscriptions, running, calls, wanted,
                                overlapped>>
           /\ StartSubscribeFails(c) =>
                 /\ Goes(c, "subscribing", "cleanup") /\ Walks(c, Subscribed)
                 /\ UNCHANGED <<vars, handlers, subscriptions, running, mu, calls, wanted,
                                overlapped>>
           /\ StartDone(c) =>
                 /\ Goes(c, "subscribing", "idle") /\ todo[c] = {}
                 /\ running' = TRUE /\ wanted' = handlers /\ mu' = Nobody
                 /\ UNCHANGED <<vars, handlers, subscriptions, todo, calls, overlapped>>
           /\ StopLock(c) =>
                 /\ Goes(c, "stopLock", "stopping") /\ Walks(c, Subscribed)
                 /\ mu = Nobody /\ mu' = c
                 /\ UNCHANGED <<vars, handlers, subscriptions, running, calls, wanted,
                                overlapped>>
           /\ UnsubscribeAllDone(c) =>
                 /\ Goes(c, "cleanup", "idle") \/ Goes(c, "stopping", "idle")
                 /\ todo[c] = {} /\ mu' = Nobody
                 /\ subscriptions' = [t \in Topic |-> NoSub]
                 /\ UNCHANGED <<vars, handlers, running, todo, calls, wanted, overlapped>>
<1>1. /\ pc \in [Caller -> Pc] /\ todo \in [Caller -> SUBSET Topic] /\ running \in BOOLEAN
      /\ handlers \in SUBSET Topic /\ Subscribed \in SUBSET Topic
  BY DEF GroupTypeOK, Subscribed
<1>2. ASSUME NEW q \in Pc, pc' = [pc EXCEPT ![c] = q] PROVE Goes(c, pc[c], q)
  BY <1>1, <1>2 DEF Goes
<1>3. ASSUME NEW T \in SUBSET Topic, todo' = [todo EXCEPT ![c] = T] PROVE Walks(c, T)
  BY <1>1, <1>3 DEF Walks
<1>4. /\ "idle" \in Pc /\ "startLock" \in Pc /\ "subscribing" \in Pc /\ "cleanup" \in Pc
      /\ "stopLock" \in Pc /\ "stopping" \in Pc
  BY DEF Pc
<1>5. ASSUME StartCheck(c)
      PROVE  /\ \/ Goes(c, "idle", "idle") /\ running
                \/ Goes(c, "idle", "startLock") /\ ~running
             /\ UNCHANGED running
  <2>1. CASE running
    <3>1. pc[c] = "idle" /\ pc' = [pc EXCEPT ![c] = "idle"] /\ UNCHANGED running
      BY <1>5, <2>1, Zenon DEF StartCheck, Called
    <3> QED
      BY <1>2, <1>4, <2>1, <3>1, Zenon
  <2>2. CASE ~running
    <3>1. pc[c] = "idle" /\ pc' = [pc EXCEPT ![c] = "startLock"] /\ UNCHANGED running
      BY <1>5, <2>2, Zenon DEF StartCheck, Called
    <3> QED
      BY <1>2, <1>4, <2>2, <3>1, Zenon
  <2> QED
    BY <2>1, <2>2
<1>6. ASSUME StopSwap(c)
      PROVE  /\ \/ Goes(c, "idle", "idle") /\ ~running
                \/ Goes(c, "idle", "stopLock") /\ running
             /\ running' = FALSE
  <2>1. CASE running
    <3>1. pc[c] = "idle" /\ pc' = [pc EXCEPT ![c] = "stopLock"] /\ running' = FALSE
      BY <1>6, <2>1, Zenon DEF StopSwap, Called
    <3> QED
      BY <1>2, <1>4, <2>1, <3>1, Zenon
  <2>2. CASE ~running
    <3>1. pc[c] = "idle" /\ pc' = [pc EXCEPT ![c] = "idle"] /\ running' = FALSE
      BY <1>6, <2>2, Zenon DEF StopSwap, Called
    <3> QED
      BY <1>2, <1>4, <2>2, <3>1, Zenon
  <2> QED
    BY <2>1, <2>2
<1>7. ASSUME StartCheck(c) \/ StopSwap(c)
      PROVE  /\ calls < MaxCalls /\ calls' = calls + 1
             /\ overlapped' = (overlapped \/ \E d \in Caller : pc[d] # "idle")
             /\ UNCHANGED <<vars, handlers, subscriptions, mu, todo, wanted>>
  BY <1>7 DEF StartCheck, StopSwap, Called
<1>8. ASSUME StartLock(c)
      PROVE  /\ Goes(c, "startLock", "subscribing") /\ Walks(c, handlers)
             /\ mu = Nobody /\ mu' = c
             /\ UNCHANGED <<vars, handlers, subscriptions, running, calls, wanted, overlapped>>
  BY <1>1, <1>2, <1>3, <1>4, <1>8 DEF StartLock
<1>9. ASSUME StartSubscribeFails(c)
      PROVE  /\ Goes(c, "subscribing", "cleanup") /\ Walks(c, Subscribed)
             /\ UNCHANGED <<vars, handlers, subscriptions, running, mu, calls, wanted,
                            overlapped>>
  BY <1>1, <1>2, <1>3, <1>4, <1>9 DEF StartSubscribeFails
<1>10. ASSUME StartDone(c)
       PROVE  /\ Goes(c, "subscribing", "idle") /\ todo[c] = {}
              /\ running' = TRUE /\ wanted' = handlers /\ mu' = Nobody
              /\ UNCHANGED <<vars, handlers, subscriptions, todo, calls, overlapped>>
  BY <1>2, <1>4, <1>10 DEF StartDone
<1>11. ASSUME StopLock(c)
       PROVE  /\ Goes(c, "stopLock", "stopping") /\ Walks(c, Subscribed)
              /\ mu = Nobody /\ mu' = c
              /\ UNCHANGED <<vars, handlers, subscriptions, running, calls, wanted,
                             overlapped>>
  BY <1>1, <1>2, <1>3, <1>4, <1>11 DEF StopLock
<1>12. ASSUME UnsubscribeAllDone(c)
       PROVE  /\ Goes(c, "cleanup", "idle") \/ Goes(c, "stopping", "idle")
              /\ todo[c] = {} /\ mu' = Nobody
              /\ subscriptions' = [t \in Topic |-> NoSub]
              /\ UNCHANGED <<vars, handlers, running, todo, calls, wanted, overlapped>>
  BY <1>2, <1>4, <1>12 DEF UnsubscribeAllDone
<1> QED
  BY <1>5, <1>6, <1>7, <1>8, <1>9, <1>10, <1>11, <1>12, Zenon

-----------------------------------------------------------------------------
(* Types, the lock and the map: they hold also when calls overlap.         *)

LEMMA GroupInit0 == GroupInit => GroupTypeOK /\ SubsInv /\ LockInv /\ SerialInv
<1> SUFFICES ASSUME GroupInit PROVE GroupTypeOK /\ SubsInv /\ LockInv /\ SerialInv
  OBVIOUS
<1>1. TypeOK /\ SubsInv
  BY TypeInit, SubsInvInit DEF GroupInit
<1>2. /\ pc \in [Caller -> Pc] /\ todo \in [Caller -> SUBSET Topic]
      /\ \A c \in Caller : pc[c] = "idle"
      /\ subscriptions \in [Topic -> Sub \cup {NoSub}]
      /\ \A t \in Topic : subscriptions[t] = NoSub
  BY DEF GroupInit, Pc
<1>3. Subscribed = {}
  BY <1>2 DEF Subscribed
<1>4. \A s \in Sub : ~subActive[s] /\ ~subMu[s]
  BY DEF GroupInit, Init
<1>5. 0 \in 0..MaxCalls
  BY GroupAssumption DEF GroupAssumption
<1>6. GroupTypeOK
  <2>1. running \in BOOLEAN /\ overlapped \in BOOLEAN /\ handlers \subseteq Topic /\ wanted \subseteq Topic
    BY DEF GroupInit
  <2>2. mu \in Caller \cup {Nobody} /\ calls \in 0..MaxCalls
    BY <1>5 DEF GroupInit
  <2> QED
    BY <1>1, <1>2, <2>1, <2>2, Zenon DEF GroupTypeOK
<1>7. LockInv
  <2>1. mu = Nobody /\ Nobody \notin Caller
    BY GroupAssumption DEF GroupInit, GroupAssumption
  <2>2. LockHeld /\ MapTopic /\ LoopKeys
    BY <1>2, <2>1 DEF LockHeld, MapTopic, LoopKeys, Critical, Looping
  <2>3. OneCancel /\ MapActive /\ StartCovers
    BY <1>2, <1>3, <1>4 DEF OneCancel, MapActive, StartCovers
  <2> QED
    BY <2>2, <2>3 DEF LockInv
<1>8. SerialInv
  <2>1. OneCall /\ Owned /\ EmptyBefore
    BY <1>2, <1>3, <1>4 DEF OneCall, Quiet, Owned, EmptyBefore
  <2>2. LoopCovers /\ RunCovers
    BY <1>2 DEF LoopCovers, RunCovers, Looping, GroupInit
  <2> QED
    BY <2>1, <2>2 DEF SerialInv
<1> QED
  BY <1>1, <1>6, <1>7, <1>8

LEMMA GroupTyped ==
    GroupTypeOK /\ LockInv /\ [GroupNext]_allVars => GroupTypeOK'
<1> SUFFICES ASSUME GroupTypeOK, LockInv, [GroupNext]_allVars PROVE GroupTypeOK'
  OBVIOUS
<1>0. TypeOK'
  BY BrokerMaps, TypeStep DEF GroupTypeOK
<1>1. ASSUME NEW t \in Topic, Add(t) PROVE GroupTypeOK'
  BY <1>0, <1>1 DEF Add, GroupTypeOK
<1>2. ASSUME NEW c \in Caller, StartCheck(c) \/ StopSwap(c) PROVE GroupTypeOK'
  <2>1. pc' \in [Caller -> Pc]
    BY <1>2, Moves, Zenon DEF Goes
  <2>2. running' \in BOOLEAN
    <3>1. running' = running \/ running' = FALSE
      BY <1>2, Moves, Zenon
    <3> QED
      BY <3>1 DEF GroupTypeOK
  <2>3. /\ calls < MaxCalls /\ calls' = calls + 1
        /\ UNCHANGED <<handlers, subscriptions, mu, todo, wanted>>
    BY <1>2, Moves, Zenon
  <2>4. overlapped' \in BOOLEAN
    <3>1. overlapped' = (overlapped \/ \E d \in Caller : pc[d] # "idle")
      BY <1>2, Moves, Zenon
    <3>2. overlapped \in BOOLEAN
      BY DEF GroupTypeOK
    <3> QED
      BY <3>1, <3>2, Zenon
  <2>5. calls' \in 0..MaxCalls
    BY <2>3, GroupAssumption DEF GroupTypeOK, GroupAssumption
  <2> QED
    BY <1>0, <2>1, <2>2, <2>3, <2>4, <2>5 DEF GroupTypeOK
<1>3. ASSUME NEW c \in Caller, StartLock(c) \/ StopLock(c) PROVE GroupTypeOK'
  BY <1>0, <1>3, Moves DEF Goes, Walks, GroupTypeOK
<1>4. ASSUME NEW c \in Caller, StartSubscribeFails(c) PROVE GroupTypeOK'
  BY <1>0, <1>4, Moves DEF Goes, Walks, GroupTypeOK
<1>5. ASSUME NEW c \in Caller, StartDone(c) PROVE GroupTypeOK'
  BY <1>0, <1>5, Moves DEF Goes, GroupTypeOK
<1>6. ASSUME NEW c \in Caller, UnsubscribeAllDone(c) PROVE GroupTypeOK'
  BY <1>0, <1>6, Moves DEF Goes, GroupTypeOK
<1>7. ASSUME NEW c \in Caller, NEW t \in Topic, StartSubscribe(c, t) PROVE GroupTypeOK'
  BY <1>0, <1>7, SubscribeFacts DEF GroupTypeOK
<1>8. ASSUME NEW c \in Caller, NEW t \in Topic, UnsubscribeBegin(c, t) PROVE GroupTypeOK'
  BY <1>0, <1>8, CancelFacts DEF GroupTypeOK
<1>9. ASSUME NEW c \in Caller, NEW t \in Topic, UnsubscribeEnd(c, t) PROVE GroupTypeOK'
  BY <1>0, <1>9, CancelledFacts DEF GroupTypeOK
<1>10. CASE BrokerStep
  BY <1>0, <1>10, BrokerStepFacts DEF group, GroupTypeOK
<1>11. CASE UNCHANGED allVars
  BY <1>0, <1>11 DEF allVars, group, GroupTypeOK
<1> QED
  BY <1>1, <1>2, <1>3, <1>4, <1>5, <1>6, <1>7, <1>8, <1>9, <1>10, <1>11, Zenon
     DEF GroupNext, CallStep

\* The lock, the map and the handles stay in agreement: every section under
\* cg.mu is entered and left by one call at a time, on each path of Start and
\* Stop.
LEMMA LockStep ==
    GroupTypeOK /\ SubsInv /\ LockInv /\ [GroupNext]_allVars => LockInv'
<1> SUFFICES ASSUME GroupTypeOK, SubsInv, LockInv, [GroupNext]_allVars PROVE LockInv'
  OBVIOUS
<1> USE DEF Critical, Looping, InCall, Subscribed
<1>a. LockHeld /\ MapTopic /\ LoopKeys /\ OneCancel /\ MapActive /\ StartCovers
  BY DEF LockInv
<1>b. Nobody \notin Caller /\ NoSub \notin Sub
  BY GroupAssumption DEF GroupAssumption
<1>c. /\ subscriptions \in [Topic -> Sub \cup {NoSub}]
      /\ todo \in [Caller -> SUBSET Topic] /\ handlers \in SUBSET Topic
  BY DEF GroupTypeOK
<1>0. ASSUME UNCHANGED <<handles, subscriptions, mu, pc, todo, handlers>> PROVE LockInv'
  BY <1>0, <1>a DEF handles, LockInv, LockHeld, MapTopic, LoopKeys, OneCancel, MapActive,
                    StartCovers
<1>1. ASSUME NEW t \in Topic, Add(t) PROVE LockInv'
  <2>1. UNCHANGED <<handles, subscriptions, mu, pc, todo>> /\ mu = Nobody
    BY <1>1 DEF Add, vars
  <2>2. StartCovers'
    BY <1>a, <1>b, <2>1 DEF StartCovers, LockHeld
  <2> QED
    BY <1>a, <2>1, <2>2 DEF handles, LockInv, LockHeld, MapTopic, LoopKeys, OneCancel, MapActive
<1>2. ASSUME NEW c \in Caller, StartCheck(c) \/ StopSwap(c) PROVE LockInv'
  <2>1. /\ Goes(c, "idle", "idle") \/ Goes(c, "idle", "startLock") \/ Goes(c, "idle", "stopLock")
        /\ UNCHANGED <<vars, handlers, subscriptions, mu, todo>>
    BY <1>2, Moves, Zenon
  <2>2. /\ pc[c] = "idle" /\ pc'[c] \notin Critical /\ pc'[c] # "subscribing"
        /\ \A d \in Caller : d # c => pc'[d] = pc[d]
    BY <2>1 DEF Goes
  <2>3. UNCHANGED <<handles, handlers, subscriptions, mu, todo>>
    BY <2>1 DEF vars
  <2>4. LockHeld' /\ MapTopic' /\ LoopKeys' /\ StartCovers'
    BY <1>a, <2>2, <2>3 DEF handles, LockHeld, MapTopic, LoopKeys, StartCovers
  <2>5. OneCancel' /\ MapActive'
    BY <1>a, <2>2, <2>3 DEF handles, OneCancel, MapActive
  <2> QED
    BY <2>4, <2>5 DEF LockInv
<1>3. ASSUME NEW c \in Caller, StartLock(c) PROVE LockInv'
  <2>1. /\ pc[c] = "startLock" /\ pc'[c] = "subscribing"
        /\ \A d \in Caller : d # c => pc'[d] = pc[d] /\ todo'[d] = todo[d]
        /\ todo'[c] = handlers /\ mu = Nobody /\ mu' = c
        /\ UNCHANGED <<vars, handlers, subscriptions>>
    BY <1>3, Moves DEF Goes, Walks
  <2>2. UNCHANGED handles
    BY <2>1 DEF vars
  <2>3. LockHeld' /\ MapTopic' /\ LoopKeys' /\ StartCovers'
    BY <1>a, <1>b, <2>1, <2>2 DEF handles, LockHeld, MapTopic, LoopKeys, StartCovers
  <2>4. OneCancel' /\ MapActive'
    BY <1>a, <2>1, <2>2 DEF handles, OneCancel, MapActive
  <2> QED
    BY <2>3, <2>4 DEF LockInv
<1>4. ASSUME NEW c \in Caller, StopLock(c) PROVE LockInv'
  <2>1. /\ pc[c] = "stopLock" /\ pc'[c] = "stopping"
        /\ \A d \in Caller : d # c => pc'[d] = pc[d] /\ todo'[d] = todo[d]
        /\ todo'[c] = Subscribed /\ mu = Nobody /\ mu' = c
        /\ UNCHANGED <<vars, handlers, subscriptions>>
    BY <1>4, Moves DEF Goes, Walks
  <2>2. UNCHANGED handles
    BY <2>1 DEF vars
  <2>3. LockHeld' /\ MapTopic' /\ LoopKeys' /\ StartCovers'
    BY <1>a, <1>b, <2>1, <2>2 DEF handles, LockHeld, MapTopic, LoopKeys, StartCovers
  <2>4. OneCancel' /\ MapActive'
    BY <1>a, <2>1, <2>2 DEF handles, OneCancel, MapActive
  <2> QED
    BY <2>3, <2>4 DEF LockInv
<1>5. ASSUME NEW c \in Caller, StartSubscribeFails(c) PROVE LockInv'
  <2>1. /\ pc[c] = "subscribing" /\ pc'[c] = "cleanup"
        /\ \A d \in Caller : d # c => pc'[d] = pc[d] /\ todo'[d] = todo[d]
        /\ todo'[c] = Subscribed
        /\ UNCHANGED <<vars, handlers, subscriptions, mu>>
    BY <1>5, Moves DEF Goes, Walks
  <2>2. UNCHANGED handles
    BY <2>1 DEF vars
  <2>3. LockHeld' /\ MapTopic' /\ LoopKeys' /\ StartCovers'
    BY <1>a, <2>1, <2>2 DEF handles, LockHeld, MapTopic, LoopKeys, StartCovers
  <2>4. OneCancel' /\ MapActive'
    BY <1>a, <2>1, <2>2 DEF handles, OneCancel, MapActive
  <2> QED
    BY <2>3, <2>4 DEF LockInv
<1>6. ASSUME NEW c \in Caller, StartDone(c) PROVE LockInv'
  <2>1. /\ pc[c] = "subscribing" /\ pc'[c] = "idle"
        /\ \A d \in Caller : d # c => pc'[d] = pc[d]
        /\ mu' = Nobody
        /\ UNCHANGED <<vars, handlers, subscriptions, todo>>
    BY <1>6, Moves DEF Goes
  <2>2. UNCHANGED handles
    BY <2>1 DEF vars
  <2>3. LockHeld' /\ MapTopic' /\ LoopKeys' /\ StartCovers'
    BY <1>a, <1>b, <2>1, <2>2 DEF handles, LockHeld, MapTopic, LoopKeys, StartCovers
  <2>4. OneCancel' /\ MapActive'
    BY <1>a, <2>1, <2>2 DEF handles, OneCancel, MapActive
  <2> QED
    BY <2>3, <2>4 DEF LockInv
<1>7. ASSUME NEW c \in Caller, UnsubscribeAllDone(c) PROVE LockInv'
  <2>1. /\ pc[c] \in {"cleanup", "stopping"} /\ pc'[c] = "idle"
        /\ \A d \in Caller : d # c => pc'[d] = pc[d]
        /\ mu' = Nobody /\ \A t \in Topic : subscriptions'[t] = NoSub
        /\ UNCHANGED <<vars, handlers, todo>>
    BY <1>7, Moves DEF Goes
  <2>2. UNCHANGED handles
    BY <2>1 DEF vars
  <2>3. mu = c /\ \A d \in Caller : d # c => pc[d] \notin Critical
    BY <1>a, <2>1 DEF LockHeld
  <2>4. LockHeld' /\ MapTopic' /\ LoopKeys' /\ StartCovers'
    BY <1>b, <2>1, <2>2, <2>3 DEF handles, LockHeld, MapTopic, LoopKeys, StartCovers
  <2>5. OneCancel' /\ MapActive'
    BY <1>a, <2>1, <2>2, <2>3 DEF handles, OneCancel, MapActive
  <2> QED
    BY <2>4, <2>5 DEF LockInv
<1>8. ASSUME NEW c \in Caller, NEW t \in Topic, StartSubscribe(c, t) PROVE LockInv'
  <2>1. /\ pc[c] = "subscribing" /\ t \in todo[c]
        /\ \A u \in Topic : u # t => subscriptions'[u] = subscriptions[u]
        /\ todo'[c] = todo[c] \ {t}
        /\ \A d \in Caller : d # c => todo'[d] = todo[d]
        /\ UNCHANGED <<subMu, handlers, mu, pc>>
    BY <1>8, SubscribeFacts
  <2>2. PICK s \in Sub :
           /\ subTopic[s] = NoTopic /\ subTopic'[s] = t /\ subActive'[s]
           /\ \A r \in Sub : r # s => /\ subTopic'[r] = subTopic[r]
                                      /\ subActive'[r] = subActive[r]
           /\ subscriptions'[t] = s
    BY <1>8, SubscribeFacts
  <2>3. mu = c /\ \A d \in Caller : d # c => pc[d] \notin Critical
    BY <1>a, <2>1 DEF LockHeld
  <2>4. ~subActive[s] /\ ~subMu[s]
    BY <2>2 DEF SubsInv, HandleKnown
  <2>5. \A u \in Topic : subscriptions[u] # s
    BY <1>a, <1>b, <2>2, BrokerAssumption DEF MapTopic, BrokerAssumption
  <2>6. LockHeld' /\ LoopKeys'
    BY <1>a, <2>1, <2>3 DEF LockHeld, LoopKeys
  <2>7. MapTopic'
    BY <1>a, <1>c, <2>1, <2>2, <2>5 DEF MapTopic
  <2>8. OneCancel'
    BY <1>a, <2>1, <2>2, <2>4 DEF OneCancel
  <2>9. MapActive'
    BY <1>a, <1>c, <2>1, <2>2, <2>3, <2>5 DEF MapActive
  <2>10. StartCovers'
    BY <1>a, <1>b, <1>c, <2>1, <2>2, <2>3 DEF StartCovers
  <2> QED
    BY <2>6, <2>7, <2>8, <2>9, <2>10 DEF LockInv
<1>9. ASSUME NEW c \in Caller, NEW t \in Topic, UnsubscribeBegin(c, t) PROVE LockInv'
  <2>1. /\ pc[c] \in {"cleanup", "stopping"} /\ t \in todo[c]
        /\ subscriptions[t] \in Sub
        /\ ~subActive'[subscriptions[t]] /\ subMu'[subscriptions[t]]
        /\ \A r \in Sub : r # subscriptions[t] => /\ subActive'[r] = subActive[r]
                                                  /\ subMu'[r] = subMu[r]
        /\ pc'[c] \in InCall
        /\ \A d \in Caller : d # c => pc'[d] = pc[d]
        /\ UNCHANGED <<subTopic, handlers, subscriptions, mu, todo>>
    BY <1>9, CancelFacts
  <2>2. mu = c /\ \A d \in Caller : d # c => pc[d] \notin Critical
    BY <1>a, <2>1 DEF LockHeld
  <2>3. \A s \in Sub : ~subMu[s]
    BY <1>a, <2>1, <2>2 DEF OneCancel
  <2>4. LockHeld' /\ MapTopic' /\ LoopKeys' /\ StartCovers'
    BY <1>a, <2>1, <2>2 DEF LockHeld, MapTopic, LoopKeys, StartCovers
  <2>5. OneCancel'
    BY <2>1, <2>3 DEF OneCancel
  <2>6. MapActive'
    BY <2>1 DEF MapActive
  <2> QED
    BY <2>4, <2>5, <2>6 DEF LockInv
<1>10. ASSUME NEW c \in Caller, NEW t \in Topic, UnsubscribeEnd(c, t) PROVE LockInv'
  <2>1. /\ pc[c] \in InCall /\ t \in todo[c]
        /\ subscriptions[t] \in Sub
        /\ subMu[subscriptions[t]] /\ ~subMu'[subscriptions[t]]
        /\ \A r \in Sub : r # subscriptions[t] => subMu'[r] = subMu[r]
        /\ pc'[c] \in {"cleanup", "stopping"}
        /\ \A d \in Caller : d # c => pc'[d] = pc[d]
        /\ todo'[c] = todo[c] \ {t}
        /\ \A d \in Caller : d # c => todo'[d] = todo[d]
        /\ UNCHANGED <<subTopic, subActive, handlers, subscriptions, mu>>
    BY <1>10, CancelledFacts
  <2>2. mu = c /\ \A d \in Caller : d # c => pc[d] \notin Critical
    BY <1>a, <2>1 DEF LockHeld
  <2>3. \A s \in Sub : ~subMu'[s]
    BY <1>a, <2>1 DEF OneCancel
  <2>4. LockHeld' /\ MapTopic' /\ LoopKeys' /\ StartCovers'
    BY <1>a, <2>1, <2>2 DEF LockHeld, MapTopic, LoopKeys, StartCovers
  <2>5. OneCancel' /\ MapActive'
    BY <2>1, <2>3 DEF OneCancel, MapActive
  <2> QED
    BY <2>4, <2>5 DEF LockInv
<1>11. CASE BrokerStep
  BY <1>0, <1>11, BrokerStepFacts DEF group
<1>12. CASE UNCHANGED allVars
  BY <1>0, <1>12 DEF allVars, group, vars
<1> QED
  BY <1>1, <1>2, <1>3, <1>4, <1>5, <1>6, <1>7, <1>8, <1>9, <1>10, <1>11, <1>12, Zenon
     DEF GroupNext, CallStep

\* The group drives the broker with the broker's own operations, and its state
\* keeps its types, however Start, Stop, Add and the users of the broker
\* interleave.
LEMMA LockInvariant == GroupSpec => [](GroupTypeOK /\ SubsInv /\ LockInv)
<1>1. GroupInit => GroupTypeOK /\ SubsInv /\ LockInv
  BY GroupInit0
<1>2. /\ GroupTypeOK /\ SubsInv /\ LockInv /\ [GroupNext]_allVars
      => (GroupTypeOK /\ SubsInv /\ LockInv)'
  BY GroupTyped, LockStep, BrokerMaps, SubsInvStep DEF GroupTypeOK
<1> QED
  BY <1>1, <1>2, PTL DEF GroupSpec

\* The types of the group and of the broker under it.
THEOREM GroupTypes == GroupSpec => []GroupTypeOK
BY LockInvariant, PTL

\* A ConsumerGroup on a broker is a user of the broker: every behaviour is one
\* of InMemoryBroker, with Start, Stop and the cleanup of a failed Start made of
\* Subscribe and inMemorySub.Unsubscribe steps.  What is proved of the broker
\* therefore holds under a group.
THEOREM GroupUsesBroker == GroupSpec => Spec
<1>1. GroupInit => Init
  BY DEF GroupInit
<1> QED
  BY <1>1, BrokerMaps, LockInvariant, PTL DEF GroupSpec, Spec

\* So no handler of the group is started for a message published after its
\* handle was cancelled, and none gets a message twice.
COROLLARY GroupSilence == GroupSpec => UnsubscribedIsSilent /\ []AtMostOnce
BY GroupUsesBroker, Silence, DeliveredOnce, PTL

-----------------------------------------------------------------------------
(* Calls that do not overlap.                                              *)

\* As long as Start and Stop do not overlap, the handles that are active or
\* being cancelled are those of the map, and the map is empty when a Start
\* takes cg.mu: also after a Start that failed, and although topics are added
\* and the broker is closed and reconnected in between.
LEMMA SerialStep ==
    ASSUME GroupTypeOK, SubsInv, LockInv, ~overlapped => SerialInv, [GroupNext]_allVars
    PROVE  ~overlapped' => SerialInv'
<1> SUFFICES ASSUME ~overlapped' PROVE SerialInv'
  OBVIOUS
<1> USE DEF Critical, Looping, InCall, Subscribed
<1>a. LockHeld /\ MapTopic /\ LoopKeys /\ OneCancel /\ MapActive /\ StartCovers
  BY DEF LockInv
<1>b. Nobody \notin Caller /\ NoSub \notin Sub
  BY GroupAssumption DEF GroupAssumption
<1>c. /\ subscriptions \in [Topic -> Sub \cup {NoSub}]
      /\ todo \in [Caller -> SUBSET Topic] /\ handlers \in SUBSET Topic
      /\ subTopic \in [Sub -> Topic \cup {NoTopic}] /\ wanted \in SUBSET Topic
  BY DEF GroupTypeOK, TypeOK
<1>d. \A s \in Sub : subActive[s] \/ subMu[s] => subTopic[s] \in Topic
  BY <1>c DEF SubsInv, HandleKnown
<1>0. ASSUME ~overlapped, UNCHANGED <<handles, subscriptions, running, pc, todo, wanted>>
      PROVE  SerialInv'
  BY <1>0 DEF handles, SerialInv, OneCall, Quiet, Owned, EmptyBefore, LoopCovers, RunCovers
<1>1. ASSUME NEW t \in Topic, Add(t) PROVE SerialInv'
  BY <1>0, <1>1 DEF Add, vars
<1>2. ASSUME NEW c \in Caller, StartCheck(c) \/ StopSwap(c) PROVE SerialInv'
  <2>1. ~overlapped /\ \A d \in Caller : pc[d] = "idle"
    <3>1. overlapped' = (overlapped \/ \E d \in Caller : pc[d] # "idle")
      BY <1>2, Moves, Zenon
    <3> QED
      BY <3>1, Zenon
  <2>2. /\ UNCHANGED <<vars, handlers, subscriptions, mu, todo, wanted>>
        /\ \/ Goes(c, "idle", "idle") /\ running' = running
           \/ Goes(c, "idle", "startLock") /\ ~running /\ ~running'
           \/ Goes(c, "idle", "stopLock") /\ ~running'
    <3>1. UNCHANGED <<vars, handlers, subscriptions, mu, todo, wanted>>
      BY <1>2, Moves, Zenon
    <3>2. CASE StartCheck(c)
      <4>1. /\ running' = running
            /\ \/ Goes(c, "idle", "idle")
               \/ Goes(c, "idle", "startLock") /\ ~running
        BY <3>2, Moves, Zenon
      <4> QED
        BY <3>1, <4>1
    <3>3. CASE StopSwap(c)
      <4>1. /\ running' = FALSE
            /\ \/ Goes(c, "idle", "idle") /\ ~running
               \/ Goes(c, "idle", "stopLock")
        BY <3>3, Moves, Zenon
      <4>2. running \in BOOLEAN
        BY DEF GroupTypeOK
      <4> QED
        BY <3>1, <4>1, <4>2
    <3> QED
      BY <1>2, <3>2, <3>3
  <2>3. UNCHANGED <<handles, handlers, subscriptions, mu, todo, wanted>>
    BY <2>2 DEF vars
  <2>4. CASE Goes(c, "idle", "idle") /\ running' = running
    <3>1. \A d \in Caller : pc'[d] = pc[d]
      BY <2>4 DEF Goes
    <3> QED
      BY <2>1, <2>3, <2>4, <3>1
         DEF handles, SerialInv, OneCall, Quiet, Owned, EmptyBefore, LoopCovers, RunCovers
  <2>5. CASE Goes(c, "idle", "startLock") /\ ~running /\ ~running'
    <3>1. pc'[c] = "startLock" /\ \A d \in Caller : d # c => pc'[d] = "idle"
      BY <2>1, <2>5 DEF Goes
    <3>2. Subscribed = {}
      BY <2>1, <2>5 DEF SerialInv, EmptyBefore, Quiet
    <3> QED
      BY <2>1, <2>3, <2>5, <3>1, <3>2
         DEF handles, SerialInv, OneCall, Quiet, Owned, EmptyBefore, LoopCovers, RunCovers
  <2>6. CASE Goes(c, "idle", "stopLock") /\ ~running'
    <3>1. pc'[c] = "stopLock" /\ \A d \in Caller : d # c => pc'[d] = "idle"
      BY <2>1, <2>6 DEF Goes
    <3> QED
      BY <2>1, <2>3, <2>6, <3>1
         DEF handles, SerialInv, OneCall, Quiet, Owned, EmptyBefore, LoopCovers, RunCovers
  <2> QED
    BY <2>2, <2>4, <2>5, <2>6, Zenon
<1>e. ASSUME ~overlapped, NEW c \in Caller, pc[c] # "idle"
      PROVE  ~running /\ \A d \in Caller : d # c => pc[d] = "idle"
  BY <1>e DEF SerialInv, OneCall, Quiet
<1>3. ASSUME NEW c \in Caller, StartLock(c) PROVE SerialInv'
  <2>1. /\ pc[c] = "startLock" /\ pc'[c] = "subscribing"
        /\ \A d \in Caller : d # c => pc'[d] = pc[d] /\ todo'[d] = todo[d]
        /\ todo'[c] = handlers
        /\ UNCHANGED <<vars, subscriptions, running, wanted, overlapped>>
    BY <1>3, Moves DEF Goes, Walks
  <2>2. UNCHANGED handles
    BY <2>1 DEF vars
  <2>3. ~running /\ \A d \in Caller : d # c => pc[d] = "idle"
    BY <1>e, <2>1
  <2> QED
    BY <2>1, <2>2, <2>3
       DEF handles, SerialInv, OneCall, Quiet, Owned, EmptyBefore, LoopCovers, RunCovers
<1>4. ASSUME NEW c \in Caller, StopLock(c) \/ StartSubscribeFails(c) PROVE SerialInv'
  <2>1. /\ pc[c] \in {"stopLock", "subscribing"} /\ pc'[c] \in {"stopping", "cleanup"}
        /\ \A d \in Caller : d # c => pc'[d] = pc[d] /\ todo'[d] = todo[d]
        /\ todo'[c] = Subscribed
        /\ UNCHANGED <<vars, subscriptions, running, wanted, overlapped>>
    BY <1>4, Moves DEF Goes, Walks
  <2>2. UNCHANGED handles
    BY <2>1 DEF vars
  <2>3. ~running /\ \A d \in Caller : d # c => pc[d] = "idle"
    BY <1>e, <2>1
  <2>4. LoopCovers'
    BY <1>b, <1>d, <2>1, <2>2, <2>3 DEF handles, SerialInv, Owned, LoopCovers
  <2>5. OneCall' /\ Owned' /\ EmptyBefore' /\ RunCovers'
    BY <2>1, <2>2, <2>3
       DEF handles, SerialInv, OneCall, Quiet, Owned, EmptyBefore, RunCovers
  <2> QED
    BY <2>4, <2>5 DEF SerialInv
<1>5. ASSUME NEW c \in Caller, StartDone(c) PROVE SerialInv'
  <2>1. /\ pc[c] = "subscribing" /\ pc'[c] = "idle" /\ todo[c] = {}
        /\ \A d \in Caller : d # c => pc'[d] = pc[d]
        /\ running' = TRUE /\ wanted' = handlers
        /\ UNCHANGED <<vars, handlers, subscriptions, todo, overlapped>>
    BY <1>5, Moves DEF Goes
  <2>2. UNCHANGED handles
    BY <2>1 DEF vars
  <2>3. \A d \in Caller : pc'[d] = "idle"
    BY <1>e, <2>1
  <2>4. RunCovers'
    BY <1>a, <2>1 DEF StartCovers, RunCovers
  <2>5. OneCall' /\ Owned' /\ EmptyBefore' /\ LoopCovers'
    BY <2>1, <2>2, <2>3
       DEF handles, SerialInv, OneCall, Quiet, Owned, EmptyBefore, LoopCovers
  <2> QED
    BY <2>4, <2>5 DEF SerialInv
<1>6. ASSUME NEW c \in Caller, UnsubscribeAllDone(c) PROVE SerialInv'
  <2>1. /\ pc[c] \in {"cleanup", "stopping"} /\ pc'[c] = "idle" /\ todo[c] = {}
        /\ \A d \in Caller : d # c => pc'[d] = pc[d]
        /\ \A t \in Topic : subscriptions'[t] = NoSub
        /\ UNCHANGED <<vars, running, todo, wanted, overlapped>>
    BY <1>6, Moves DEF Goes
  <2>2. UNCHANGED handles
    BY <2>1 DEF vars
  <2>3. ~running /\ \A d \in Caller : pc'[d] = "idle"
    BY <1>e, <2>1
  <2>4. \A s \in Sub : ~subActive[s] /\ ~subMu[s]
    BY <2>1 DEF SerialInv, LoopCovers
  <2> QED
    BY <2>1, <2>2, <2>3, <2>4
       DEF handles, SerialInv, OneCall, Quiet, Owned, EmptyBefore, LoopCovers, RunCovers
<1>7. ASSUME NEW c \in Caller, NEW t \in Topic, StartSubscribe(c, t) PROVE SerialInv'
  <2>1. /\ pc[c] = "subscribing" /\ t \in todo[c]
        /\ \A u \in Topic : u # t => subscriptions'[u] = subscriptions[u]
        /\ todo'[c] = todo[c] \ {t}
        /\ \A d \in Caller : d # c => todo'[d] = todo[d]
        /\ UNCHANGED <<subMu, running, pc, wanted, overlapped>>
    BY <1>7, SubscribeFacts
  <2>2. PICK s \in Sub :
           /\ subTopic[s] = NoTopic /\ subTopic'[s] = t /\ subActive'[s]
           /\ \A r \in Sub : r # s => /\ subTopic'[r] = subTopic[r]
                                      /\ subActive'[r] = subActive[r]
           /\ subscriptions'[t] = s
    BY <1>7, SubscribeFacts
  <2>3. ~running /\ \A d \in Caller : d # c => pc[d] = "idle"
    BY <1>e, <2>1
  <2>4. subscriptions[t] = NoSub
    BY <2>1 DEF SerialInv, EmptyBefore
  <2>5. ~subMu[s]
    BY <2>2 DEF SubsInv, HandleKnown
  <2>6. Owned'
    <3> SUFFICES ASSUME NEW r \in Sub, subActive'[r] \/ subMu'[r]
                 PROVE  subscriptions'[subTopic'[r]] = r
      BY DEF Owned
    <3>1. CASE r = s
      BY <2>2, <3>1
    <3>2. CASE r # s
      <4>1. subscriptions[subTopic[r]] = r /\ subTopic[r] \in Topic /\ subTopic'[r] = subTopic[r]
        BY <1>d, <2>1, <2>2, <3>2 DEF SerialInv, Owned
      <4> QED
        BY <1>b, <2>1, <2>4, <4>1
    <3> QED
      BY <3>1, <3>2
  <2>7. EmptyBefore'
    BY <1>c, <2>1, <2>2, <2>3 DEF SerialInv, EmptyBefore, Quiet
  <2>8. OneCall' /\ LoopCovers' /\ RunCovers'
    BY <2>1, <2>3 DEF SerialInv, OneCall, Quiet, LoopCovers, RunCovers
  <2> QED
    BY <2>6, <2>7, <2>8 DEF SerialInv
<1>8. ASSUME NEW c \in Caller, NEW t \in Topic, UnsubscribeBegin(c, t) PROVE SerialInv'
  <2>1. /\ pc[c] \in {"cleanup", "stopping"} /\ t \in todo[c]
        /\ subscriptions[t] \in Sub
        /\ ~subActive'[subscriptions[t]] /\ subMu'[subscriptions[t]]
        /\ \A r \in Sub : r # subscriptions[t] => /\ subActive'[r] = subActive[r]
                                                  /\ subMu'[r] = subMu[r]
        /\ subActive[subscriptions[t]]
        /\ pc'[c] \in InCall
        /\ \A d \in Caller : d # c => pc'[d] = pc[d]
        /\ UNCHANGED <<subTopic, subscriptions, running, todo, wanted, overlapped>>
    BY <1>8, CancelFacts
  <2>2. ~running /\ \A d \in Caller : d # c => pc[d] = "idle"
    BY <1>e, <2>1
  <2>3. \A r \in Sub : subActive'[r] \/ subMu'[r] => subActive[r] \/ subMu[r]
    BY <2>1
  <2>4. Owned' /\ LoopCovers'
    BY <2>1, <2>2, <2>3 DEF SerialInv, Owned, LoopCovers
  <2>5. OneCall' /\ EmptyBefore' /\ RunCovers'
    BY <2>1, <2>2 DEF SerialInv, OneCall, Quiet, EmptyBefore, RunCovers
  <2> QED
    BY <2>4, <2>5 DEF SerialInv
<1>9. ASSUME NEW c \in Caller, NEW t \in Topic, UnsubscribeEnd(c, t) PROVE SerialInv'
  <2>1. /\ pc[c] \in InCall /\ t \in todo[c]
        /\ subscriptions[t] \in Sub
        /\ subMu[subscriptions[t]] /\ ~subMu'[subscriptions[t]]
        /\ \A r \in Sub : r # subscriptions[t] => subMu'[r] = subMu[r]
        /\ pc'[c] \in {"cleanup", "stopping"}
        /\ \A d \in Caller : d # c => pc'[d] = pc[d]
        /\ todo'[c] = todo[c] \ {t}
        /\ \A d \in Caller : d # c => todo'[d] = todo[d]
        /\ UNCHANGED <<subTopic, subActive, subscriptions, running, wanted, overlapped>>
    BY <1>9, CancelledFacts
  <2>2. ~running /\ \A d \in Caller : d # c => pc[d] = "idle"
    BY <1>e, <2>1
  <2>3. \A r \in Sub : subActive'[r] \/ subMu'[r] =>
                          (subActive[r] \/ subMu[r]) /\ r # subscriptions[t]
    BY <1>a, <2>1 DEF OneCancel
  <2>4. Owned'
    BY <2>1, <2>3 DEF SerialInv, Owned
  <2>5. LoopCovers'
    BY <2>1, <2>2, <2>3 DEF SerialInv, Owned, LoopCovers
  <2>6. OneCall' /\ EmptyBefore' /\ RunCovers'
    BY <2>1, <2>2 DEF SerialInv, OneCall, Quiet, EmptyBefore, RunCovers
  <2> QED
    BY <2>4, <2>5, <2>6 DEF SerialInv
<1>10. CASE BrokerStep
  BY <1>0, <1>10, BrokerStepFacts DEF group
<1>11. CASE UNCHANGED allVars
  BY <1>0, <1>11 DEF allVars, group, vars
<1> QED
  BY <1>1, <1>2, <1>3, <1>4, <1>5, <1>6, <1>7, <1>8, <1>9, <1>10, <1>11, Zenon
     DEF GroupNext, CallStep

LEMMA GroupInvariant == GroupSpec => []GroupInv
<1>1. GroupInit => GroupInv
  BY GroupInit0 DEF GroupInv
<1>2. GroupInv /\ [GroupNext]_allVars => GroupInv'
  <2> SUFFICES ASSUME GroupInv, [GroupNext]_allVars PROVE GroupInv'
    OBVIOUS
  <2>1. GroupTypeOK /\ SubsInv /\ LockInv /\ (~overlapped => SerialInv)
    BY DEF GroupInv
  <2>2. GroupTypeOK' /\ LockInv'
    BY <2>1, GroupTyped, LockStep
  <2>3. SubsInv'
    BY <2>1, BrokerMaps, SubsInvStep DEF GroupTypeOK
  <2>4. ~overlapped' => SerialInv'
    BY <2>1, SerialStep
  <2> QED
    BY <2>2, <2>3, <2>4 DEF GroupInv
<1> QED
  BY <1>1, <1>2, PTL DEF GroupSpec

\* A live subscription is one of a handle that is active or being cancelled.
LEMMA LiveHandle ==
    ASSUME TypeOK, SubsInv, NEW t \in Topic, NEW s \in Live[t]
    PROVE  s \in Sub /\ subTopic[s] = t /\ (subActive[s] \/ subMu[s])
<1>1. PICK i \in 1..Len(subscribers[t]) : subscribers[t][i].active /\ subscribers[t][i].id = s
  BY LiveIs
<1> QED
  BY <1>1, EntryType DEF SubsInv, EntryTopic, EntryActive

\* A group that is stopped, or whose Start failed halfway, has no subscription
\* left: for any number of topics, callers and calls that do not overlap, and
\* whatever happens to the broker meanwhile.
THEOREM StoppedIsEmpty == GroupSpec => []SerialStopOwnsNothing
<1>1. GroupInv => SerialStopOwnsNothing
  <2> SUFFICES ASSUME GroupInv, ~overlapped, Quiet, ~running
               PROVE  LiveSubs = {} /\ \A s \in Sub : ~subActive[s]
    BY DEF SerialStopOwnsNothing, StoppedOwnsNothing
  <2>1. TypeOK /\ SubsInv /\ LockInv /\ SerialInv
    BY DEF GroupInv, GroupTypeOK
  <2>2. \A s \in Sub : ~subMu[s]
    BY <2>1 DEF LockInv, OneCancel, Quiet, InCall
  <2>3. \A t \in Topic : subscriptions[t] = NoSub
    BY <2>1 DEF SerialInv, EmptyBefore, Subscribed
  <2>4. NoSub \notin Sub
    BY GroupAssumption DEF GroupAssumption
  <2>5. \A s \in Sub : ~subActive[s]
    <3> SUFFICES ASSUME NEW s \in Sub, subActive[s] PROVE FALSE
      OBVIOUS
    <3>1. subTopic[s] \in Topic
      BY <2>1 DEF SubsInv, HandleKnown, TypeOK
    <3> QED
      BY <2>1, <2>3, <2>4, <3>1 DEF SerialInv, Owned
  <2>6. \A t \in Topic : Live[t] = {}
    BY <2>1, <2>2, <2>5, LiveHandle
  <2> QED
    BY <2>5, <2>6 DEF LiveSubs
<1> QED
  BY <1>1, GroupInvariant, PTL

\* Calls that do not overlap never leave a topic with two subscriptions, and a
\* group that is running has an active handle for every topic it was started
\* with.
THEOREM OneSubscription == GroupSpec => []OnePerTopic
<1>1. GroupInv => OnePerTopic
  <2> SUFFICES ASSUME GroupInv, ~overlapped
               PROVE  /\ \A t \in Topic : Cardinality(Live[t]) <= 1
                      /\ Quiet /\ running =>
                             \A t \in wanted : t \in Subscribed /\ subActive[subscriptions[t]]
    BY DEF OnePerTopic
  <2>1. TypeOK /\ SubsInv /\ LockInv /\ SerialInv /\ wanted \subseteq Topic
    BY DEF GroupInv, GroupTypeOK
  <2>2. ASSUME NEW t \in Topic PROVE Cardinality(Live[t]) <= 1
    <3>1. Live[t] \subseteq {subscriptions[t]}
      BY <2>1, LiveHandle DEF SerialInv, Owned
    <3>2. IsFiniteSet({subscriptions[t]}) /\ Cardinality({subscriptions[t]}) = 1
      BY FS_Singleton
    <3>3. Cardinality(Live[t]) <= Cardinality({subscriptions[t]})
      BY <3>1, <3>2, FS_Subset
    <3> QED
      BY <3>2, <3>3
  <2>3. ASSUME Quiet, running, NEW t \in wanted
        PROVE  t \in Subscribed /\ subActive[subscriptions[t]]
    <3>1. t \in Subscribed
      BY <2>1, <2>3 DEF SerialInv, RunCovers
    <3>2. \A c \in Caller : pc[c] \notin Looping
      BY <2>3 DEF Quiet, Looping
    <3> QED
      BY <2>1, <3>1, <3>2 DEF LockInv, MapActive
  <2> QED
    BY <2>2, <2>3
<1> QED
  BY <1>1, GroupInvariant, PTL
=============================================================================
