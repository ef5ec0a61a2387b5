------------------------ MODULE AdapterConsumerProofs ------------------------
(***************************************************************************)
(* Proofs about the consumers of the Kafka and RabbitMQ adapters, for any  *)
(* number of goroutines, topics and subscriptions: type correctness, that  *)
(* a subscription is cancelled exactly once, what Close promises, and that *)
(* the RabbitMQ consumer is an instance of the shared control that never   *)
(* closes a channel twice.                                                 *)
(***************************************************************************)
EXTENDS RabbitConsumer, FiniteSetTheorems, TLAPS

\* Whoever cleared an active flag is about to cancel the subscription.
CancelPc == {"userCancel", "unsubscribeCancel", "closeCancel"}

\* Close is in its loop over the map.
LoopPc == {"closeLoop", "closeCancel"}

\* A goroutine that got through closed.Swap(true) and has not returned.
ClosePc == {"closeLock", "closeLoop", "closeCancel"}

ArgTyped ==
    \A a \in Agent : /\ pc[a] = "subscribeLock" => arg[a] \in Topic
                     /\ pc[a] \in CancelPc => arg[a] \in Sub

\* The critical sections of more than one step are guarded by c.mu, ...
LockHeld ==
    \A a \in Agent : pc[a] \in LoopPc \/ pc[a] = "unsubscribeCancel" => mu = a

\* ... so the topics the loop has to visit stay in the map.
TodoMapped ==
    \A a \in Agent : pc[a] \in LoopPc =>
        \A t \in todo[a] : subscriptions[t] # NoSub

TypeInv == TypeOK /\ ArgTyped /\ LockHeld /\ TodoMapped

\* A goroutine that goes on leaves the others where they are.
LEMMA GotoFacts ==
    ASSUME TypeOK, NEW a \in Agent, NEW p, Goto(a, p)
    PROVE  pc'[a] = p /\ \A b \in Agent : b # a => pc'[b] = pc[b]
BY DEF TypeOK, Goto

\* Nobody holds a free lock.
LEMMA FreeLock ==
    ASSUME TypeInv, mu = Nobody, NEW a \in Agent
    PROVE  pc[a] \notin LoopPc /\ pc[a] # "unsubscribeCancel"
BY AdapterAssumption DEF AdapterAssumption, TypeInv, LockHeld

\* The call of cancelFn is counted for the subscription it is about.
LEMMA CancelFnFacts ==
    ASSUME TypeOK, NEW s \in Sub, CancelFn(s)
    PROVE  /\ cancels' \in [Sub -> Nat]
           /\ cancels'[s] = cancels[s] + 1
           /\ \A r \in Sub : r # s => cancels'[r] = cancels[r]
BY DEF TypeOK, CancelFn

LEMMA TypeInvStep == TypeInv /\ [Next]_vars => TypeInv'
<1> SUFFICES ASSUME TypeInv, [Next]_vars PROVE TypeInv'
  OBVIOUS
<1> USE DEF adapter, subs, calls, history
<1>t. TypeOK
  BY DEF TypeInv
<1>0. ASSUME UNCHANGED <<mu, subscriptions, arg, todo>>, TypeOK',
             NEW a \in Agent, NEW p \in Pc, Goto(a, p),
             p \notin LoopPc, p \notin CancelPc, p # "subscribeLock"
      PROVE  TypeInv'
  <2>1. pc'[a] = p /\ \A b \in Agent : b # a => pc'[b] = pc[b]
    BY <1>0, <1>t, GotoFacts
  <2>2. p # "unsubscribeCancel"
    BY <1>0 DEF CancelPc
  <2>3. ArgTyped' /\ LockHeld' /\ TodoMapped'
    BY <1>0, <2>1, <2>2 DEF TypeInv, ArgTyped, LockHeld, TodoMapped
  <2> QED
    BY <1>0, <2>3 DEF TypeInv
<1> USE DEF CancelPc, LoopPc
<1>1. ASSUME NEW a \in Agent, ConnectCheck(a) \/ ConnectStore(a) \/ CloseSwap(a)
      PROVE TypeInv'
  <2>1. CASE ConnectCheck(a)
    <3>1. TypeOK'
      BY <1>t, <2>1 DEF ConnectCheck, TypeOK, Goto, Pc
    <3> QED
      BY <1>0, <2>1, <3>1 DEF ConnectCheck, Pc
  <2>2. CASE ConnectStore(a)
    <3>1. TypeOK'
      BY <1>t, <2>2 DEF ConnectStore, TypeOK, Goto, Pc
    <3> QED
      BY <1>0, <2>2, <3>1 DEF ConnectStore, Pc
  <2>3. CASE CloseSwap(a)
    <3>1. TypeOK'
      BY <1>t, <2>3 DEF CloseSwap, TypeOK, Goto, Pc
    <3> QED
      BY <1>0, <2>3, <3>1 DEF CloseSwap, Pc
  <2> QED
    BY <1>1, <2>1, <2>2, <2>3
<1>2. ASSUME NEW a \in Agent, NEW t \in Topic, SubscribeCheck(a, t) PROVE TypeInv'
  <2>1. TypeOK'
    BY <1>t, <1>2 DEF SubscribeCheck, TypeOK, Goto, Pc
  <2>2. /\ pc'[a] = "subscribeLock" /\ arg'[a] = t
        /\ \A b \in Agent : b # a => pc'[b] = pc[b] /\ arg'[b] = arg[b]
        /\ UNCHANGED <<mu, subscriptions, todo>>
    BY <1>t, <1>2 DEF SubscribeCheck, TypeOK, Goto
  <2> QED
    BY <2>1, <2>2 DEF TypeInv, ArgTyped, LockHeld, TodoMapped
<1>3. ASSUME NEW a \in Agent, NEW s \in Sub, SubscribeLocked(a, s) PROVE TypeInv'
  <2>1. arg[a] \in Topic
    BY <1>3 DEF SubscribeLocked, TypeInv, ArgTyped
  <2>2. TypeOK'
    BY <1>t, <1>3, <2>1 DEF SubscribeLocked, TypeOK, Goto, Pc
  <2>3. /\ pc'[a] = "idle" /\ mu = Nobody /\ UNCHANGED <<arg, mu, todo>>
        /\ \A b \in Agent : b # a => pc'[b] = pc[b]
    BY <1>t, <1>3, GotoFacts DEF SubscribeLocked
  <2>4. \A b \in Agent : pc[b] \notin LoopPc /\ pc[b] # "unsubscribeCancel"
    BY <2>3, FreeLock
  <2> QED
    BY <2>2, <2>3, <2>4 DEF TypeInv, ArgTyped, LockHeld, TodoMapped
<1>4. ASSUME NEW a \in Agent, NEW s \in Sub, UserUnsubscribe(a, s) PROVE TypeInv'
  <2>1. TypeOK'
    BY <1>t, <1>4 DEF UserUnsubscribe, Deactivate, TypeOK, Goto, Pc
  <2>2. /\ pc'[a] = "userCancel" /\ arg'[a] = s
        /\ \A b \in Agent : b # a => pc'[b] = pc[b] /\ arg'[b] = arg[b]
        /\ UNCHANGED <<mu, subscriptions, todo>>
    BY <1>t, <1>4 DEF UserUnsubscribe, TypeOK, Goto
  <2> QED
    BY <2>1, <2>2 DEF TypeInv, ArgTyped, LockHeld, TodoMapped
<1>5. ASSUME NEW a \in Agent, UserCancel(a) PROVE TypeInv'
  <2>1. TypeOK'
    <3>1. arg[a] \in Sub
      BY <1>5 DEF UserCancel, TypeInv, ArgTyped
    <3>2. cancels' \in [Sub -> Nat]
      BY <1>t, <1>5, <3>1, CancelFnFacts DEF UserCancel
    <3> QED
      BY <1>t, <1>5, <3>2 DEF UserCancel, TypeOK, Goto, Pc
  <2> QED
    BY <1>0, <1>5, <2>1 DEF UserCancel, Pc
<1>6. ASSUME NEW a \in Agent, NEW t \in Topic, UnsubscribeActive(a, t) PROVE TypeInv'
  <2>1. subscriptions[t] \in Sub
    BY <1>t, <1>6 DEF UnsubscribeActive, TypeOK
  <2>2. TypeOK'
    BY <1>t, <1>6, <2>1 DEF UnsubscribeActive, Deactivate, TypeOK, Goto, Pc
  <2>3. /\ pc'[a] = "unsubscribeCancel" /\ arg'[a] = subscriptions[t] /\ mu' = a
        /\ \A b \in Agent : b # a => pc'[b] = pc[b] /\ arg'[b] = arg[b]
        /\ mu = Nobody /\ UNCHANGED <<subscriptions, todo>>
    BY <1>t, <1>6 DEF UnsubscribeActive, TypeOK, Goto
  <2>4. \A b \in Agent : pc[b] \notin LoopPc /\ pc[b] # "unsubscribeCancel"
    BY <2>3, FreeLock
  <2> QED
    BY <2>1, <2>2, <2>3, <2>4 DEF TypeInv, ArgTyped, LockHeld, TodoMapped
<1>7. ASSUME NEW a \in Agent, UnsubscribeCancel(a) PROVE TypeInv'
  <2>1. TypeOK'
    <3>1. arg[a] \in Sub
      BY <1>7 DEF UnsubscribeCancel, TypeInv, ArgTyped
    <3>2. cancels' \in [Sub -> Nat]
      BY <1>t, <1>7, <3>1, CancelFnFacts DEF UnsubscribeCancel
    <3> QED
      BY <1>t, <1>7, <3>2 DEF UnsubscribeCancel, TypeOK, Goto, Pc
  <2>2. /\ pc[a] = "unsubscribeCancel" /\ pc'[a] = "idle" /\ UNCHANGED <<arg, todo>>
        /\ \A b \in Agent : b # a => pc'[b] = pc[b]
    BY <1>t, <1>7, GotoFacts DEF UnsubscribeCancel
  <2>3. \A b \in Agent : b # a => pc[b] \notin LoopPc /\ pc[b] # "unsubscribeCancel"
    BY <2>2 DEF TypeInv, LockHeld
  <2> QED
    BY <2>1, <2>2, <2>3 DEF TypeInv, ArgTyped, LockHeld, TodoMapped
<1>8. ASSUME NEW a \in Agent, NEW t \in Topic, UnsubscribeInactive(a, t) PROVE TypeInv'
  <2>1. TypeOK'
    BY <1>t, <1>8 DEF UnsubscribeInactive, TypeOK
  <2>2. mu = Nobody /\ UNCHANGED <<mu, pc, arg, todo>>
    BY <1>8 DEF UnsubscribeInactive
  <2>3. \A b \in Agent : pc[b] \notin LoopPc /\ pc[b] # "unsubscribeCancel"
    BY <2>2, FreeLock
  <2> QED
    BY <2>1, <2>2, <2>3 DEF TypeInv, ArgTyped, LockHeld, TodoMapped
<1>9. ASSUME NEW a \in Agent, CloseLock(a) PROVE TypeInv'
  <2>1. TypeOK'
    BY <1>t, <1>9 DEF CloseLock, TypeOK, Goto, Pc
  <2>2. /\ mu = Nobody /\ mu' = a /\ pc'[a] = "closeLoop"
        /\ todo'[a] = {t \in Topic : subscriptions[t] # NoSub}
        /\ \A b \in Agent : b # a => pc'[b] = pc[b]
        /\ UNCHANGED <<subscriptions, arg>>
    BY <1>t, <1>9 DEF CloseLock, TypeOK, Goto
  <2>3. \A b \in Agent : pc[b] \notin LoopPc /\ pc[b] # "unsubscribeCancel"
    BY <2>2, FreeLock
  <2> QED
    BY <2>1, <2>2, <2>3 DEF TypeInv, ArgTyped, LockHeld, TodoMapped
<1>10. ASSUME NEW a \in Agent, NEW t \in Topic, CloseActive(a, t) PROVE TypeInv'
  <2>1. subscriptions[t] \in Sub
    BY <1>t, <1>10 DEF CloseActive, TypeOK, TypeInv, TodoMapped
  <2>2. TypeOK'
    BY <1>t, <1>10, <2>1 DEF CloseActive, Deactivate, TypeOK, Goto, Pc
  <2>3. /\ pc[a] = "closeLoop" /\ pc'[a] = "closeCancel" /\ arg'[a] = subscriptions[t]
        /\ todo'[a] \subseteq todo[a] /\ UNCHANGED <<mu, subscriptions>>
        /\ \A b \in Agent : b # a => /\ pc'[b] = pc[b] /\ arg'[b] = arg[b]
                                     /\ todo'[b] = todo[b]
    BY <1>t, <1>10 DEF CloseActive, TypeOK, Goto
  <2> QED
    BY <2>1, <2>2, <2>3 DEF TypeInv, ArgTyped, LockHeld, TodoMapped
<1>11. ASSUME NEW a \in Agent, NEW t \in Topic, CloseInactive(a, t) PROVE TypeInv'
  <2>1. TypeOK'
    BY <1>t, <1>11 DEF CloseInactive, TypeOK
  <2>2. /\ UNCHANGED <<mu, subscriptions, pc, arg>>
        /\ \A b \in Agent : todo'[b] \subseteq todo[b]
    BY <1>t, <1>11 DEF CloseInactive, TypeOK
  <2> QED
    BY <2>1, <2>2 DEF TypeInv, ArgTyped, LockHeld, TodoMapped
<1>12. ASSUME NEW a \in Agent, CloseCancel(a) PROVE TypeInv'
  <2>1. TypeOK'
    <3>1. arg[a] \in Sub
      BY <1>12 DEF CloseCancel, TypeInv, ArgTyped
    <3>2. cancels' \in [Sub -> Nat]
      BY <1>t, <1>12, <3>1, CancelFnFacts DEF CloseCancel
    <3> QED
      BY <1>t, <1>12, <3>2 DEF CloseCancel, TypeOK, Goto, Pc
  <2>2. /\ pc[a] = "closeCancel" /\ pc'[a] = "closeLoop"
        /\ \A b \in Agent : b # a => pc'[b] = pc[b]
        /\ UNCHANGED <<mu, subscriptions, arg, todo>>
    BY <1>t, <1>12, GotoFacts DEF CloseCancel
  <2> QED
    BY <2>1, <2>2 DEF TypeInv, ArgTyped, LockHeld, TodoMapped
<1>13. ASSUME NEW a \in Agent, CloseDone(a) PROVE TypeInv'
  <2>1. TypeOK'
    BY <1>t, <1>13 DEF CloseDone, TypeOK, Goto, Pc
  <2>2. /\ pc[a] = "closeLoop" /\ pc'[a] = "idle"
        /\ \A b \in Agent : b # a => pc'[b] = pc[b]
        /\ UNCHANGED <<subscriptions, arg, todo>>
    BY <1>t, <1>13, GotoFacts DEF CloseDone
  <2>3. \A b \in Agent : b # a => pc[b] \notin LoopPc /\ pc[b] # "unsubscribeCancel"
    BY <2>2 DEF TypeInv, LockHeld
  <2> QED
    BY <2>1, <2>2, <2>3 DEF TypeInv, ArgTyped, LockHeld, TodoMapped
<1>14. CASE UNCHANGED vars
  BY <1>14 DEF vars, TypeInv, TypeOK, ArgTyped, LockHeld, TodoMapped
<1> QED
  BY <1>1, <1>2, <1>3, <1>4, <1>5, <1>6, <1>7, <1>8, <1>9, <1>10, <1>11, <1>12,
     <1>13, <1>14 DEF Next, Call, CallStep

LEMMA TypeInvInit == Init => TypeInv
<1> SUFFICES ASSUME Init PROVE TypeInv
  OBVIOUS
<1>1. TypeOK
  BY DEF Init, TypeOK, Pc
<1>2. \A a \in Agent : pc[a] = "idle"
  BY DEF Init
<1> QED
  BY <1>1, <1>2 DEF TypeInv, ArgTyped, LockHeld, TodoMapped, CancelPc, LoopPc

\* The state keeps its types: the loop of Close and Unsubscribe only ever use
\* subscriptions that are in the map, because c.mu is held around them.
THEOREM ConsumerTypes == Spec => []TypeOK
<1>1. TypeInv => TypeOK
  BY DEF TypeInv
<1> QED
  BY <1>1, TypeInvInit, TypeInvStep, PTL DEF Spec
-----------------------------------------------------------------------------
(* Cancelling.  For the flag, the count and the cancellers of the          *)
(* subscriptions a step is one of four kinds, whichever of the methods     *)
(* takes it.                                                               *)

\* Goroutine b goes on, or does not start, to cancel.
SameCancel(b) ==
    /\ pc'[b] \in CancelPc <=> pc[b] \in CancelPc
    /\ pc[b] \in CancelPc => arg'[b] = arg[b]

\* active.Swap(false) gives true to goroutine a, ...
BeginsCancel(a, s) ==
    /\ active[s]
    /\ Deactivate(s)
    /\ pc[a] \notin CancelPc /\ pc'[a] \in CancelPc /\ arg'[a] = s
    /\ \A b \in Agent : b # a => SameCancel(b)
    /\ UNCHANGED <<topic, cancels>>

\* ... which calls cancelFn, ...
EndsCancel(a) ==
    /\ pc[a] \in CancelPc /\ pc'[a] \notin CancelPc
    /\ CancelFn(arg[a])
    /\ \A b \in Agent : b # a => SameCancel(b)
    /\ UNCHANGED subs

\* ... a new subscription is made, ...
Subscribes(s, t) ==
    /\ topic[s] = NoTopic
    /\ topic' = [topic EXCEPT ![s] = t]
    /\ active' = [active EXCEPT ![s] = TRUE]
    /\ \A b \in Agent : SameCancel(b)
    /\ UNCHANGED cancels

\* ... or nothing of this happens.
OtherStep ==
    /\ UNCHANGED <<subs, cancels>>
    /\ \A b \in Agent : SameCancel(b)

\* Goroutine a takes a step that neither cancels nor makes a subscription.
OtherCall(a) ==
    \/ ConnectCheck(a) \/ ConnectStore(a) \/ \E t \in Topic : SubscribeCheck(a, t)
    \/ \E s \in Sub : UserUnsubscribe(a, s)
    \/ \E t \in Topic : UnsubscribeActive(a, t) \/ UnsubscribeInactive(a, t)
    \/ CloseSwap(a) \/ CloseLock(a) \/ CloseDone(a)
    \/ \E t \in Topic : CloseActive(a, t) \/ CloseInactive(a, t)

\* The step of Subscribe under c.mu makes a subscription.
LEMMA SubscribeKind ==
    ASSUME TypeInv, NEW a \in Agent, NEW s \in Sub, SubscribeLocked(a, s)
    PROVE  \E t \in Topic : Subscribes(s, t)
<1>1. arg[a] \in Topic
  BY DEF SubscribeLocked, TypeInv, ArgTyped
<1>2. /\ pc[a] = "subscribeLock" /\ pc'[a] = "idle" /\ UNCHANGED arg
      /\ \A b \in Agent : b # a => pc'[b] = pc[b]
  BY GotoFacts DEF SubscribeLocked, TypeInv
<1>3. \A b \in Agent : SameCancel(b)
  BY <1>2 DEF SameCancel, CancelPc
<1>4. Subscribes(s, arg[a])
  BY <1>3 DEF SubscribeLocked, Subscribes
<1> QED
  BY <1>1, <1>4

\* The three methods that cancel do so in the same way.
LEMMA CancelKind ==
    ASSUME TypeInv, NEW a \in Agent,
           UserCancel(a) \/ UnsubscribeCancel(a) \/ CloseCancel(a)
    PROVE  EndsCancel(a)
<1>1. /\ pc[a] \in CancelPc /\ CancelFn(arg[a]) /\ UNCHANGED <<arg, subs>>
      /\ \E p \in {"idle", "closeLoop"} : Goto(a, p)
  BY DEF UserCancel, UnsubscribeCancel, CloseCancel, CancelPc, subs
<1>2. pc'[a] \notin CancelPc /\ \A b \in Agent : b # a => pc'[b] = pc[b]
  BY <1>1, GotoFacts DEF CancelPc, TypeInv
<1>3. \A b \in Agent : b # a => SameCancel(b)
  BY <1>1, <1>2 DEF SameCancel
<1> QED
  BY <1>1, <1>2, <1>3 DEF EndsCancel

\* Every other step takes an active flag away or touches no subscription.
LEMMA OtherKind ==
    ASSUME TypeInv, NEW a \in Agent, OtherCall(a)
    PROVE  OtherStep \/ \E s \in Sub : BeginsCancel(a, s)
<1> USE DEF adapter, subs, calls, history
<1>t. TypeOK
  BY DEF TypeInv
<1>0. ASSUME NEW p, pc' = [pc EXCEPT ![a] = p],
             pc[a] \notin CancelPc, p \notin CancelPc,
             \A b \in Agent : b # a => arg'[b] = arg[b]
      PROVE  \A b \in Agent : SameCancel(b)
  BY <1>0, <1>t DEF SameCancel, TypeOK
<1> USE DEF CancelPc
<1>1. CASE \/ ConnectCheck(a) \/ ConnectStore(a) \/ CloseSwap(a) \/ CloseLock(a)
           \/ CloseDone(a)
  <2>1. /\ \E p \in {"connectStore", "idle", "closeLock", "closeLoop"} :
              pc' = [pc EXCEPT ![a] = p]
        /\ pc[a] \notin CancelPc /\ UNCHANGED <<arg, subs, cancels>>
    BY <1>1 DEF ConnectCheck, ConnectStore, CloseSwap, CloseLock, CloseDone, Goto
  <2> QED
    BY <1>0, <2>1 DEF OtherStep
<1>2. ASSUME NEW t \in Topic, SubscribeCheck(a, t) PROVE OtherStep
  <2>1. \A b \in Agent : b # a => arg'[b] = arg[b]
    BY <1>t, <1>2 DEF SubscribeCheck, TypeOK
  <2> QED
    BY <1>0, <1>2, <2>1 DEF SubscribeCheck, Goto, OtherStep
<1>3. ASSUME NEW s \in Sub, active[s], Deactivate(s),
             pc[a] \notin CancelPc, NEW p \in CancelPc, Goto(a, p),
             arg' = [arg EXCEPT ![a] = s], UNCHANGED <<topic, cancels>>
      PROVE  BeginsCancel(a, s)
  <2>1. /\ pc'[a] = p /\ arg'[a] = s
        /\ \A b \in Agent : b # a => pc'[b] = pc[b] /\ arg'[b] = arg[b]
    BY <1>3, <1>t DEF Goto, TypeOK
  <2>2. \A b \in Agent : b # a => SameCancel(b)
    BY <2>1 DEF SameCancel
  <2> QED
    BY <1>3, <2>1, <2>2 DEF BeginsCancel
<1>4. ASSUME NEW s \in Sub, UserUnsubscribe(a, s) PROVE BeginsCancel(a, s)
  BY <1>3, <1>4 DEF UserUnsubscribe
<1>5. ASSUME NEW t \in Topic, UnsubscribeActive(a, t)
      PROVE  \E s \in Sub : BeginsCancel(a, s)
  <2>1. subscriptions[t] \in Sub
    BY <1>t, <1>5 DEF UnsubscribeActive, TypeOK
  <2> QED
    BY <1>3, <1>5, <2>1 DEF UnsubscribeActive
<1>6. ASSUME NEW t \in Topic, CloseActive(a, t)
      PROVE  \E s \in Sub : BeginsCancel(a, s)
  <2>1. subscriptions[t] \in Sub
    BY <1>t, <1>6 DEF CloseActive, TypeOK, TypeInv, TodoMapped, LoopPc
  <2> QED
    BY <1>3, <1>6, <2>1 DEF CloseActive
<1>7. ASSUME NEW t \in Topic, UnsubscribeInactive(a, t) \/ CloseInactive(a, t)
      PROVE  OtherStep
  BY <1>7 DEF UnsubscribeInactive, CloseInactive, OtherStep, SameCancel
<1> QED
  BY <1>1, <1>2, <1>4, <1>5, <1>6, <1>7 DEF OtherCall

\* Every step is of one of the four kinds.
LEMMA StepKinds ==
    ASSUME TypeInv, [Next]_vars
    PROVE  \/ \E a \in Agent, s \in Sub : BeginsCancel(a, s)
           \/ \E a \in Agent : EndsCancel(a)
           \/ \E s \in Sub, t \in Topic : Subscribes(s, t)
           \/ OtherStep
<1>1. ASSUME NEW a \in Agent, Call(a) \/ CallStep(a)
      PROVE  \/ OtherCall(a)
             \/ \E s \in Sub : SubscribeLocked(a, s)
             \/ UserCancel(a) \/ UnsubscribeCancel(a) \/ CloseCancel(a)
  BY <1>1 DEF Call, CallStep, OtherCall
<1>2. CASE UNCHANGED vars
  BY <1>2 DEF vars, calls, subs, history, OtherStep, SameCancel
<1> QED
  BY <1>1, <1>2, SubscribeKind, CancelKind, OtherKind DEF Next

\* A subscription that was not made is inactive and not cancelled; one that is
\* active is not being cancelled; and two goroutines never cancel the same one.
NewSub ==
    \A s \in Sub : topic[s] = NoTopic =>
        ~active[s] /\ cancels[s] = 0 /\ ~Cancelling(s)

OneCanceller ==
    /\ \A s \in Sub : active[s] => ~Cancelling(s)
    /\ \A a, b \in Agent :
           pc[a] \in CancelPc /\ pc[b] \in CancelPc /\ arg[a] = arg[b] => a = b

CancelInv == NewSub /\ OneCanceller /\ CancelledOnce

\* A step of goroutines that are not cancelling s leaves its cancellers alone.
LEMMA CancellingIs ==
    ASSUME NEW s
    PROVE  Cancelling(s) <=> \E a \in Agent : pc[a] \in CancelPc /\ arg[a] = s
BY DEF Cancelling, CancelPc

\* Who cancels what after each kind of step.
LEMMA CancellingAfter ==
    ASSUME TypeInv, NEW s \in Sub
    PROVE  /\ (\A b \in Agent : SameCancel(b)) => (Cancelling(s)' <=> Cancelling(s))
           /\ \A a \in Agent, r \in Sub : BeginsCancel(a, r) =>
                  /\ s = r => Cancelling(s)'
                  /\ s # r => (Cancelling(s)' <=> Cancelling(s))
           /\ \A a \in Agent : EndsCancel(a) /\ s # arg[a] =>
                  (Cancelling(s)' <=> Cancelling(s))
<1>0. Cancelling(s)' <=> \E a \in Agent : pc'[a] \in CancelPc /\ arg'[a] = s
  BY DEF Cancelling, CancelPc
<1>1. ASSUME \A b \in Agent : SameCancel(b) PROVE Cancelling(s)' <=> Cancelling(s)
  BY <1>0, <1>1, CancellingIs DEF SameCancel
<1>2. ASSUME NEW a \in Agent, NEW r \in Sub, BeginsCancel(a, r)
      PROVE  /\ s = r => Cancelling(s)'
             /\ s # r => (Cancelling(s)' <=> Cancelling(s))
  BY <1>0, <1>2, CancellingIs DEF BeginsCancel, SameCancel
<1>3. ASSUME NEW a \in Agent, EndsCancel(a), s # arg[a]
      PROVE  Cancelling(s)' <=> Cancelling(s)
  BY <1>0, <1>3, CancellingIs DEF EndsCancel, SameCancel
<1> QED
  BY <1>1, <1>2, <1>3

\* A goroutine that has called cancelFn was the only one to cancel.
LEMMA EndedCancel ==
    ASSUME TypeInv, OneCanceller, NEW a \in Agent, NEW s \in Sub, s = arg[a],
           EndsCancel(a)
    PROVE  Cancelling(s) /\ ~active[s] /\ ~Cancelling(s)'
<1>1. Cancelling(s)
  BY CancellingIs DEF EndsCancel
<1>2. \A b \in Agent : ~(pc'[b] \in CancelPc /\ arg'[b] = s)
  BY DEF EndsCancel, SameCancel, OneCanceller
<1>3. ~Cancelling(s)'
  BY <1>2 DEF Cancelling, CancelPc
<1> QED
  BY <1>1, <1>3 DEF OneCanceller

LEMMA CancelInvStep == TypeInv /\ CancelInv /\ [Next]_vars => CancelInv'
<1> SUFFICES ASSUME TypeInv, CancelInv, [Next]_vars PROVE CancelInv'
  OBVIOUS
<1>t. TypeOK /\ \A a \in Agent : pc[a] \in CancelPc => arg[a] \in Sub
  BY DEF TypeInv, ArgTyped
<1>u. /\ \A s \in Sub : /\ topic[s] = NoTopic =>
                                ~active[s] /\ cancels[s] = 0 /\ ~Cancelling(s)
                        /\ active[s] => ~Cancelling(s)
                        /\ topic[s] # NoTopic =>
                              cancels[s] = IF active[s] \/ Cancelling(s) THEN 0 ELSE 1
      /\ \A a, b \in Agent :
             pc[a] \in CancelPc /\ pc[b] \in CancelPc /\ arg[a] = arg[b] => a = b
  BY DEF CancelInv, NewSub, OneCanceller, CancelledOnce
<1>v. ASSUME
      /\ \A s \in Sub : /\ topic'[s] = NoTopic =>
                                ~active'[s] /\ cancels'[s] = 0 /\ ~Cancelling(s)'
                        /\ active'[s] => ~Cancelling(s)'
                        /\ topic'[s] # NoTopic =>
                              cancels'[s] = IF active'[s] \/ Cancelling(s)' THEN 0 ELSE 1
      /\ \A a, b \in Agent :
             pc'[a] \in CancelPc /\ pc'[b] \in CancelPc /\ arg'[a] = arg'[b] => a = b
      PROVE CancelInv'
  BY <1>v DEF CancelInv, NewSub, OneCanceller, CancelledOnce
<1>1. ASSUME NEW a \in Agent, NEW s \in Sub, BeginsCancel(a, s) PROVE CancelInv'
  <2>1. /\ active[s] /\ ~active'[s] /\ UNCHANGED <<topic, cancels>>
        /\ \A r \in Sub : r # s => active'[r] = active[r]
    BY <1>1, <1>t DEF BeginsCancel, Deactivate, TypeOK
  <2>2. Cancelling(s)' /\ \A r \in Sub : r # s => (Cancelling(r)' <=> Cancelling(r))
    BY <1>1, CancellingAfter
  <2>3. \A b \in Agent : b # a => SameCancel(b)
    BY <1>1 DEF BeginsCancel
  <2>4. \A b \in Agent : pc[b] \in CancelPc => arg[b] # s
    BY <1>u, <2>1, CancellingIs
  <2>5. ASSUME NEW b \in Agent, NEW c \in Agent, pc'[b] \in CancelPc,
               pc'[c] \in CancelPc, arg'[b] = arg'[c]
        PROVE  b = c
    BY <1>1, <1>u, <2>3, <2>4, <2>5 DEF BeginsCancel, SameCancel
  <2> QED
    BY <1>u, <1>v, <2>1, <2>2, <2>5
<1>2. ASSUME NEW a \in Agent, EndsCancel(a) PROVE CancelInv'
  <2>0. PICK s \in Sub : s = arg[a]
    BY <1>2, <1>t DEF EndsCancel
  <2>1. Cancelling(s) /\ UNCHANGED <<topic, active>>
    BY <1>2, <2>0, CancellingIs DEF EndsCancel, subs
  <2>2. /\ cancels'[s] = cancels[s] + 1
        /\ \A r \in Sub : r # s => cancels'[r] = cancels[r]
    BY <1>2, <1>t, <2>0, CancelFnFacts DEF EndsCancel
  <2>3. \A b \in Agent : b # a => SameCancel(b) /\ (pc[b] \in CancelPc => arg[b] # s)
    BY <1>2, <1>u, <2>0 DEF EndsCancel
  <2>4. ~Cancelling(s)'
    BY <1>2, <2>0, EndedCancel DEF CancelInv
  <2>5. \A r \in Sub : r # s => (Cancelling(r)' <=> Cancelling(r))
    BY <1>2, <2>0, CancellingAfter
  <2>6. ASSUME NEW b \in Agent, NEW c \in Agent, pc'[b] \in CancelPc,
               pc'[c] \in CancelPc, arg'[b] = arg'[c]
        PROVE  b = c
    BY <1>2, <1>u, <2>3, <2>6 DEF EndsCancel, SameCancel
  <2>7. topic[s] # NoTopic /\ ~active[s] /\ cancels[s] = 0
    BY <1>u, <2>1
  <2> QED
    BY <1>u, <1>v, <2>1, <2>2, <2>4, <2>5, <2>6, <2>7
<1>3. ASSUME NEW s \in Sub, NEW t \in Topic, Subscribes(s, t) PROVE CancelInv'
  <2>1. /\ topic[s] = NoTopic /\ topic'[s] # NoTopic /\ active'[s] /\ UNCHANGED cancels
        /\ \A r \in Sub : r # s => topic'[r] = topic[r] /\ active'[r] = active[r]
    BY <1>3, <1>t, AdapterAssumption DEF Subscribes, TypeOK, AdapterAssumption
  <2>2. \A r \in Sub : Cancelling(r)' <=> Cancelling(r)
    BY <1>3, CancellingAfter DEF Subscribes
  <2>3. \A b \in Agent : SameCancel(b)
    BY <1>3 DEF Subscribes
  <2> QED
    BY <1>u, <1>v, <2>1, <2>2, <2>3 DEF SameCancel
<1>4. CASE OtherStep
  <2>1. /\ UNCHANGED <<topic, active, cancels>> /\ \A b \in Agent : SameCancel(b)
        /\ \A r \in Sub : Cancelling(r)' <=> Cancelling(r)
    BY <1>4, CancellingAfter DEF OtherStep, subs
  <2> QED
    BY <1>u, <1>v, <2>1 DEF SameCancel
<1> QED
  BY <1>1, <1>2, <1>3, <1>4, StepKinds

LEMMA CancelInvInit == Init => CancelInv
<1> SUFFICES ASSUME Init PROVE CancelInv
  OBVIOUS
<1>1. /\ \A a \in Agent : pc[a] = "idle"
      /\ \A s \in Sub : topic[s] = NoTopic /\ ~active[s] /\ cancels[s] = 0
  BY DEF Init
<1> QED
  BY <1>1 DEF CancelInv, NewSub, OneCanceller, CancelledOnce, Cancelling, CancelPc

\* However the holder's Unsubscribe, Unsubscribe(topic) and Close race for it, a
\* subscription is cancelled at most once, and once it is inactive it has been
\* cancelled or exactly one goroutine is about to.
THEOREM CancelledExactlyOnce == Spec => []CancelledOnce
<1>1. CancelInv => CancelledOnce
  BY DEF CancelInv
<1> QED
  BY <1>1, TypeInvInit, TypeInvStep, CancelInvInit, CancelInvStep, PTL DEF Spec
-----------------------------------------------------------------------------
(* Close.  One call of Close does the work, once; it holds c.mu during the *)
(* loop, so what it has visited stays inactive and nothing joins the map.  *)

OneCloser ==
    /\ \A a, b \in Agent : pc[a] \in ClosePc /\ pc[b] \in ClosePc => a = b
    /\ \A a \in Agent : pc[a] \in ClosePc => closed /\ ~closeReturned
    /\ closeReturned => closed

Visited ==
    \A a \in Agent : pc[a] \in LoopPc =>
        \A t \in Topic \ todo[a] :
            subscriptions[t] # NoSub => ~active[subscriptions[t]]

InTimeMade == \A s \in inTime : topic[s] # NoTopic

CloseInv == OneCloser /\ Visited /\ InTimeMade /\ CloseCancelsMapped

\* While Close is at work or has returned, a step that changes neither the map
\* nor makes a subscription active changes nothing about it.
LEMMA QuietKeepsClose ==
    ASSUME TypeInv, CloseInv, NEW a \in Agent, NEW p,
           Goto(a, p), pc[a] \in ClosePc <=> p \in ClosePc,
           p \in LoopPc => pc[a] \in LoopPc /\ todo'[a] = todo[a],
           \A b \in Agent : b # a => todo'[b] = todo[b],
           \A s \in Sub : active'[s] => active[s],
           UNCHANGED <<closed, subscriptions, topic, inTime, closeReturned>>
    PROVE  CloseInv'
<1>1. pc'[a] = p /\ \A b \in Agent : b # a => pc'[b] = pc[b]
  BY GotoFacts DEF TypeInv
<1>2. OneCloser'
  BY <1>1 DEF CloseInv, OneCloser
<1>3. \A t \in Topic : subscriptions[t] # NoSub => subscriptions[t] \in Sub
  BY DEF TypeInv, TypeOK
<1>4. Visited'
  BY <1>1, <1>3 DEF CloseInv, Visited
<1>5. InTimeMade'
  BY DEF CloseInv, InTimeMade
<1>6. CloseCancelsMapped'
  BY DEF CloseInv, CloseCancelsMapped, TypeInv, TypeOK
<1> QED
  BY <1>2, <1>4, <1>5, <1>6 DEF CloseInv

LEMMA CloseInvStep == TypeInv /\ CloseInv /\ [Next]_vars => CloseInv'
<1> SUFFICES ASSUME TypeInv, CloseInv, [Next]_vars PROVE CloseInv'
  OBVIOUS
<1> USE DEF adapter, subs, calls, history
<1>t. TypeOK
  BY DEF TypeInv
<1>d. ASSUME NEW s \in Sub, Deactivate(s) PROVE \A r \in Sub : active'[r] => active[r]
  BY <1>d, <1>t DEF Deactivate, TypeOK
<1> USE DEF ClosePc, LoopPc
<1>1. ASSUME NEW a \in Agent, ConnectCheck(a) \/ ConnectStore(a) PROVE CloseInv'
  BY <1>1, QuietKeepsClose DEF ConnectCheck, ConnectStore
<1>2. ASSUME NEW a \in Agent, NEW t \in Topic, SubscribeCheck(a, t) PROVE CloseInv'
  BY <1>2, QuietKeepsClose DEF SubscribeCheck
<1>3. ASSUME NEW a \in Agent, NEW s \in Sub, SubscribeLocked(a, s) PROVE CloseInv'
  <2>1. arg[a] \in Topic
    BY <1>3 DEF SubscribeLocked, TypeInv, ArgTyped
  <2>2. /\ pc[a] = "subscribeLock" /\ pc'[a] = "idle" /\ mu = Nobody
        /\ \A b \in Agent : b # a => pc'[b] = pc[b]
        /\ topic[s] = NoTopic /\ topic'[s] = arg[a]
        /\ \A r \in Sub : r # s => topic'[r] = topic[r] /\ active'[r] = active[r]
        /\ subscriptions'[arg[a]] = s
        /\ \A t \in Topic : t # arg[a] => subscriptions'[t] = subscriptions[t]
        /\ inTime' = IF closeReturned THEN inTime ELSE inTime \cup {s}
        /\ UNCHANGED <<closed, closeReturned>>
    BY <1>t, <1>3, <2>1 DEF SubscribeLocked, TypeOK, Goto
  <2>3. OneCloser'
    BY <2>2 DEF CloseInv, OneCloser
  <2>4. Visited'
    <3>1. \A b \in Agent : pc'[b] \notin LoopPc
      BY <2>2, FreeLock
    <3> QED
      BY <3>1 DEF Visited
  <2>5. InTimeMade'
    <3>1. topic'[s] # NoTopic
      BY <2>1, <2>2, AdapterAssumption DEF AdapterAssumption
    <3>2. inTime \subseteq Sub
      BY <1>t DEF TypeOK
    <3> QED
      BY <2>2, <3>1, <3>2 DEF CloseInv, InTimeMade
  <2>6. CloseCancelsMapped'
    <3> SUFFICES ASSUME closeReturned', NEW t \in Topic, subscriptions'[t] \in inTime'
                 PROVE  ~active'[subscriptions'[t]]
      BY DEF CloseCancelsMapped
    <3>1. inTime' = inTime /\ s \notin inTime /\ closeReturned
      BY <2>2 DEF CloseInv, InTimeMade
    <3>2. t # arg[a] /\ subscriptions'[t] = subscriptions[t]
      BY <2>2, <3>1
    <3>3. subscriptions[t] \in Sub /\ subscriptions[t] # s
      BY <1>t, <3>1, <3>2 DEF TypeOK
    <3> QED
      BY <2>2, <3>1, <3>2, <3>3 DEF CloseInv, CloseCancelsMapped
  <2> QED
    BY <2>3, <2>4, <2>5, <2>6 DEF CloseInv
<1>4. ASSUME NEW a \in Agent, NEW s \in Sub, UserUnsubscribe(a, s) PROVE CloseInv'
  BY <1>4, <1>d, QuietKeepsClose DEF UserUnsubscribe
<1>5. ASSUME NEW a \in Agent, UserCancel(a) PROVE CloseInv'
  BY <1>5, QuietKeepsClose DEF UserCancel
<1>6. ASSUME NEW a \in Agent, NEW t \in Topic, UnsubscribeActive(a, t) PROVE CloseInv'
  <2>1. subscriptions[t] \in Sub
    BY <1>t, <1>6 DEF UnsubscribeActive, TypeOK
  <2> QED
    BY <1>6, <1>d, <2>1, QuietKeepsClose DEF UnsubscribeActive
<1>7. ASSUME NEW a \in Agent, NEW t,
             /\ subscriptions' = [subscriptions EXCEPT ![t] = NoSub]
             /\ \A b \in Agent : /\ pc'[b] \notin LoopPc
                                 /\ pc'[b] \in ClosePc <=> pc[b] \in ClosePc
             /\ UNCHANGED <<closed, subs, inTime, closeReturned>>
      PROVE  CloseInv'
  <2>1. OneCloser'
    BY <1>7 DEF CloseInv, OneCloser
  <2>2. Visited' /\ InTimeMade'
    BY <1>7 DEF CloseInv, Visited, InTimeMade
  <2>3. \A u \in Topic : subscriptions'[u] = subscriptions[u] \/ subscriptions'[u] = NoSub
    BY <1>7, <1>t DEF TypeOK
  <2>4. NoSub \notin inTime
    BY <1>t, AdapterAssumption DEF TypeOK, AdapterAssumption
  <2>5. CloseCancelsMapped'
    BY <1>7, <2>3, <2>4 DEF CloseInv, CloseCancelsMapped
  <2> QED
    BY <2>1, <2>2, <2>5 DEF CloseInv
<1>8. ASSUME NEW a \in Agent, UnsubscribeCancel(a) PROVE CloseInv'
  <2>1. /\ pc[a] = "unsubscribeCancel" /\ pc'[a] = "idle"
        /\ \A b \in Agent : b # a => pc'[b] = pc[b]
    BY <1>t, <1>8, GotoFacts DEF UnsubscribeCancel
  <2>2. \A b \in Agent : b # a => pc[b] \notin LoopPc
    BY <2>1 DEF TypeInv, LockHeld
  <2>3. \A b \in Agent : pc'[b] \notin LoopPc /\ (pc'[b] \in ClosePc <=> pc[b] \in ClosePc)
    BY <2>1, <2>2
  <2> QED
    BY <1>7, <1>8, <2>3 DEF UnsubscribeCancel
<1>9. ASSUME NEW a \in Agent, NEW t \in Topic, UnsubscribeInactive(a, t) PROVE CloseInv'
  <2>1. mu = Nobody /\ UNCHANGED pc
    BY <1>9 DEF UnsubscribeInactive
  <2>2. \A b \in Agent : pc'[b] \notin LoopPc /\ (pc'[b] \in ClosePc <=> pc[b] \in ClosePc)
    BY <2>1, FreeLock
  <2> QED
    BY <1>7, <1>9, <2>2 DEF UnsubscribeInactive
<1>10. ASSUME NEW a \in Agent, CloseSwap(a) PROVE CloseInv'
  <2>1. /\ ~closed /\ closed' /\ pc'[a] = "closeLock"
        /\ \A b \in Agent : b # a => pc'[b] = pc[b]
        /\ UNCHANGED <<subscriptions, subs, todo, inTime, closeReturned>>
    BY <1>t, <1>10, GotoFacts DEF CloseSwap
  <2>2. OneCloser'
    BY <2>1 DEF CloseInv, OneCloser
  <2>3. Visited' /\ InTimeMade' /\ CloseCancelsMapped'
    BY <2>1 DEF CloseInv, Visited, InTimeMade, CloseCancelsMapped
  <2> QED
    BY <2>2, <2>3 DEF CloseInv
<1>11. ASSUME NEW a \in Agent, CloseLock(a) PROVE CloseInv'
  <2>1. /\ pc[a] = "closeLock" /\ pc'[a] = "closeLoop" /\ mu = Nobody
        /\ todo'[a] = {t \in Topic : subscriptions[t] # NoSub}
        /\ \A b \in Agent : b # a => pc'[b] = pc[b]
        /\ UNCHANGED <<closed, subscriptions, subs, inTime, closeReturned>>
    BY <1>t, <1>11 DEF CloseLock, Goto, TypeOK
  <2>2. OneCloser'
    BY <2>1 DEF CloseInv, OneCloser
  <2>3. \A b \in Agent : b # a => pc'[b] \notin LoopPc
    BY <2>1, FreeLock
  <2>4. Visited'
    BY <2>1, <2>3 DEF Visited
  <2>5. InTimeMade' /\ CloseCancelsMapped'
    BY <2>1 DEF CloseInv, InTimeMade, CloseCancelsMapped
  <2> QED
    BY <2>2, <2>4, <2>5 DEF CloseInv
<1>12. ASSUME NEW a \in Agent, NEW t \in Topic, CloseActive(a, t) \/ CloseInactive(a, t)
       PROVE CloseInv'
  <2>1. subscriptions[t] \in Sub /\ pc[a] = "closeLoop" /\ t \in todo[a]
    BY <1>t, <1>12 DEF CloseActive, CloseInactive, TypeOK, TypeInv, TodoMapped
  <2>2. /\ \A s \in Sub : active'[s] => active[s]
        /\ ~active'[subscriptions[t]]
    BY <1>t, <1>12, <2>1 DEF CloseActive, CloseInactive, Deactivate, TypeOK
  <2>3. /\ pc'[a] \in LoopPc /\ todo'[a] = todo[a] \ {t}
        /\ \A b \in Agent : b # a => pc'[b] = pc[b] /\ todo'[b] = todo[b]
        /\ UNCHANGED <<closed, subscriptions, topic, inTime, closeReturned>>
    BY <1>t, <1>12 DEF CloseActive, CloseInactive, Goto, TypeOK
  <2>4. OneCloser'
    BY <2>1, <2>3 DEF CloseInv, OneCloser
  <2>5. \A u \in Topic : subscriptions[u] # NoSub => subscriptions[u] \in Sub
    BY <1>t DEF TypeOK
  <2>6. Visited'
    <3> SUFFICES ASSUME NEW b \in Agent, pc'[b] \in LoopPc, NEW u \in Topic \ todo'[b],
                        subscriptions[u] # NoSub
                 PROVE  ~active'[subscriptions[u]]
      BY <2>3 DEF Visited
    <3>1. b = a
      BY <2>1, <2>3 DEF CloseInv, OneCloser
    <3>2. CASE u = t
      BY <2>2, <3>2
    <3>3. CASE u # t
      <4>1. u \in Topic \ todo[a]
        BY <2>3, <3>1, <3>3
      <4>2. ~active[subscriptions[u]]
        BY <2>1, <4>1 DEF CloseInv, Visited
      <4> QED
        BY <2>2, <2>5, <4>2
    <3> QED
      BY <3>2, <3>3
  <2>7. InTimeMade'
    BY <2>3 DEF CloseInv, InTimeMade
  <2>8. CloseCancelsMapped'
    BY <1>t, <2>2, <2>3 DEF CloseInv, CloseCancelsMapped, TypeOK
  <2> QED
    BY <2>4, <2>6, <2>7, <2>8 DEF CloseInv
<1>13. ASSUME NEW a \in Agent, CloseCancel(a) PROVE CloseInv'
  BY <1>13, QuietKeepsClose DEF CloseCancel
<1>14. ASSUME NEW a \in Agent, CloseDone(a) PROVE CloseInv'
  <2>1. /\ pc[a] = "closeLoop" /\ pc'[a] = "idle" /\ todo[a] = {} /\ closeReturned'
        /\ \A b \in Agent : b # a => pc'[b] = pc[b]
        /\ UNCHANGED <<closed, subscriptions, subs, todo, inTime>>
    BY <1>t, <1>14, GotoFacts DEF CloseDone
  <2>2. closed /\ \A b \in Agent : pc'[b] \notin ClosePc
    BY <2>1 DEF CloseInv, OneCloser
  <2>3. OneCloser' /\ Visited' /\ InTimeMade'
    BY <2>1, <2>2 DEF CloseInv, OneCloser, Visited, InTimeMade
  <2>4. NoSub \notin inTime
    BY <1>t, AdapterAssumption DEF TypeOK, AdapterAssumption
  <2>5. CloseCancelsMapped'
    BY <2>1, <2>4 DEF CloseInv, Visited, CloseCancelsMapped
  <2> QED
    BY <2>3, <2>5 DEF CloseInv
<1>15. CASE UNCHANGED vars
  BY <1>15 DEF vars, CloseInv, OneCloser, Visited, InTimeMade, CloseCancelsMapped
<1> QED
  BY <1>1, <1>2, <1>3, <1>4, <1>5, <1>6, <1>8, <1>9, <1>10, <1>11, <1>12, <1>13,
     <1>14, <1>15 DEF Next, Call, CallStep

LEMMA CloseInvInit == Init => CloseInv
BY DEF Init, CloseInv, OneCloser, Visited, InTimeMade, CloseCancelsMapped, ClosePc, LoopPc

\* When Close returns, every subscription that is in the map and was made before
\* Close took c.mu is inactive, and it stays so.
THEOREM MappedAreCancelled == Spec => []CloseCancelsMapped
<1>1. CloseInv => CloseCancelsMapped
  BY DEF CloseInv
<1> QED
  BY <1>1, TypeInvInit, TypeInvStep, CloseInvInit, CloseInvStep, PTL DEF Spec
-----------------------------------------------------------------------------
(* Close is final for Subscribe.  The goroutines waiting for c.mu in       *)
(* Subscribe and the subscriptions made are finitely many at any time,     *)
(* however many goroutines there are; each of the former becomes one of    *)
(* the latter, and nobody joins the former once closed is set.             *)

Made == {s \in Sub : topic[s] # NoTopic}

Waiting == {a \in Agent : pc[a] = "subscribeLock"}

FiniteInv == IsFiniteSet(Made) /\ IsFiniteSet(Waiting)

\* What a step does to the two sets.
LEMMA SubscribedKinds ==
    ASSUME TypeInv, [Next]_vars
    PROVE  \/ ~closed /\ Made' = Made /\ \E a \in Agent : Waiting' = Waiting \cup {a}
           \/ \E s \in Sub, a \in Agent :
                 /\ s \notin Made /\ Made' = Made \cup {s}
                 /\ a \in Waiting /\ Waiting' = Waiting \ {a}
           \/ Made' = Made /\ Waiting' = Waiting
<1> USE DEF adapter, subs, calls, history
<1>t. TypeOK
  BY DEF TypeInv
<1>0. ASSUME NEW a \in Agent, NEW p, Goto(a, p), pc[a] # "subscribeLock",
             p # "subscribeLock", UNCHANGED topic
      PROVE  Made' = Made /\ Waiting' = Waiting
  BY <1>0, <1>t, GotoFacts DEF Made, Waiting
<1>1. ASSUME NEW a \in Agent, NEW t \in Topic, SubscribeCheck(a, t)
      PROVE  ~closed /\ Made' = Made /\ Waiting' = Waiting \cup {a}
  <2>1. ~closed /\ UNCHANGED topic /\ Goto(a, "subscribeLock")
    BY <1>1 DEF SubscribeCheck, IsConnected
  <2> QED
    BY <1>t, <2>1, GotoFacts DEF Made, Waiting
<1>2. ASSUME NEW a \in Agent, NEW s \in Sub, SubscribeLocked(a, s)
      PROVE  /\ s \notin Made /\ Made' = Made \cup {s}
             /\ a \in Waiting /\ Waiting' = Waiting \ {a}
  <2>1. arg[a] \in Topic
    BY <1>2 DEF SubscribeLocked, TypeInv, ArgTyped
  <2>2. /\ topic[s] = NoTopic /\ topic'[s] # NoTopic
        /\ \A r \in Sub : r # s => topic'[r] = topic[r]
    BY <1>t, <1>2, <2>1, AdapterAssumption DEF SubscribeLocked, TypeOK, AdapterAssumption
  <2>3. /\ pc[a] = "subscribeLock" /\ pc'[a] = "idle"
        /\ \A b \in Agent : b # a => pc'[b] = pc[b]
    BY <1>t, <1>2, GotoFacts DEF SubscribeLocked
  <2> QED
    BY <2>2, <2>3 DEF Made, Waiting
<1>3. ASSUME NEW a \in Agent, ConnectCheck(a) \/ ConnectStore(a) \/ CloseSwap(a)
             \/ CloseLock(a) \/ CloseDone(a)
      PROVE  Made' = Made /\ Waiting' = Waiting
  BY <1>0, <1>3 DEF ConnectCheck, ConnectStore, CloseSwap, CloseLock, CloseDone
<1>4. ASSUME NEW a \in Agent, UserCancel(a) \/ UnsubscribeCancel(a) \/ CloseCancel(a)
      PROVE  Made' = Made /\ Waiting' = Waiting
  BY <1>0, <1>4 DEF UserCancel, UnsubscribeCancel, CloseCancel
<1>5. ASSUME NEW a \in Agent, NEW s \in Sub, UserUnsubscribe(a, s)
      PROVE  Made' = Made /\ Waiting' = Waiting
  BY <1>0, <1>5 DEF UserUnsubscribe
<1>6. ASSUME NEW a \in Agent, NEW t \in Topic, UnsubscribeActive(a, t) \/ CloseActive(a, t)
      PROVE  Made' = Made /\ Waiting' = Waiting
  BY <1>0, <1>6 DEF UnsubscribeActive, CloseActive
<1>7. ASSUME NEW a \in Agent, NEW t \in Topic,
             UnsubscribeInactive(a, t) \/ CloseInactive(a, t)
      PROVE  Made' = Made /\ Waiting' = Waiting
  BY <1>7 DEF UnsubscribeInactive, CloseInactive, Made, Waiting
<1>8. CASE UNCHANGED vars
  BY <1>8 DEF vars, Made, Waiting
<1> QED
  BY <1>1, <1>2, <1>3, <1>4, <1>5, <1>6, <1>7, <1>8 DEF Next, Call, CallStep

LEMMA FiniteInvStep == TypeInv /\ FiniteInv /\ [Next]_vars => FiniteInv'
BY SubscribedKinds, FS_AddElement, FS_RemoveElement DEF FiniteInv

\* Once closed is set, the only subscriptions still to come are those of the
\* Subscribe calls that were waiting for c.mu by then, even if a Connect sets
\* connected again.
THEOREM CloseFinal == Spec => CloseIsFinal
<1> DEFINE Final == closed => Subscribed' <= Subscribed
<1>1. Init => FiniteInv
  <2> SUFFICES ASSUME Init PROVE FiniteInv
    OBVIOUS
  <2>1. Made = {} /\ Waiting = {}
    BY DEF Init, Made, Waiting
  <2> QED
    BY <2>1, FS_EmptySet DEF FiniteInv
<1>2. TypeInv /\ FiniteInv /\ [Next]_vars => [Final]_vars
  <2> SUFFICES ASSUME TypeInv, FiniteInv, [Next]_vars, closed
               PROVE  Subscribed' <= Subscribed
    OBVIOUS
  <2>1. Cardinality(Made) \in Nat /\ Cardinality(Waiting) \in Nat
    BY FS_CardinalityType DEF FiniteInv
  <2>2. CASE Made' = Made /\ Waiting' = Waiting
    BY <2>1, <2>2 DEF Subscribed, Made, Waiting
  <2>3. ASSUME NEW s \in Sub, NEW a \in Agent, s \notin Made, Made' = Made \cup {s},
               a \in Waiting, Waiting' = Waiting \ {a}
        PROVE  Subscribed' <= Subscribed
    <3>1. Cardinality(Made') = Cardinality(Made) + 1
      BY <2>3, FS_AddElement DEF FiniteInv
    <3>2. Cardinality(Waiting') = Cardinality(Waiting) - 1
      BY <2>3, FS_RemoveElement DEF FiniteInv
    <3>3. /\ Subscribed = Cardinality(Made) + Cardinality(Waiting)
          /\ Subscribed' = Cardinality(Made') + Cardinality(Waiting')
      BY DEF Subscribed, Made, Waiting
    <3> QED
      BY <2>1, <3>1, <3>2, <3>3
  <2> QED
    BY <2>2, <2>3, SubscribedKinds
<1>3. CloseIsFinal <=> [][Final]_vars
  BY PTL DEF CloseIsFinal
<1> HIDE DEF Final
<1> QED
  BY <1>1, <1>2, <1>3, TypeInvInit, TypeInvStep, FiniteInvStep, PTL DEF Spec
-----------------------------------------------------------------------------
(* The RabbitMQ consumer.                                                  *)

\* Every step of the RabbitMQ consumer is one of the shared control.
LEMMA RabbitStepMaps == [RabbitNext]_rabbitVars => [Next]_vars
<1>1. ASSUME NEW a \in Agent, RabbitStep(a) PROVE Call(a) \/ CallStep(a)
  BY <1>1 DEF RabbitStep, RabbitConnect, RabbitSubscribe, RabbitSubUnsubscribe,
              RabbitUnsubscribe, RabbitClose, Call, CallStep
<1> QED
  BY <1>1 DEF RabbitNext, Next, rabbitVars

\* The consumer of pkg/rabbitmq implements the control it shares with that of
\* pkg/kafka, so what is proved of the one holds of the other: closing a channel
\* in the place of calling a cancel function adds no behaviour, as a panic only
\* ends one.
THEOREM RabbitIsAdapter == RabbitSpec => Spec
<1>1. RabbitInit => Init
  BY DEF RabbitInit
<1> QED
  BY <1>1, RabbitStepMaps, PTL DEF RabbitSpec, Spec

\* A channel exists since Subscribe; with the flag's history it says all.
ChannelInv ==
    /\ cancelCh \in [Sub -> {"nil", "open", "closed"}]
    /\ ChannelFollowsFlag

LEMMA ChannelInvStep ==
    TypeInv /\ CancelInv /\ ChannelInv /\ [RabbitNext]_rabbitVars => ChannelInv'
<1> SUFFICES ASSUME TypeInv, CancelInv, ChannelInv, [RabbitNext]_rabbitVars
             PROVE  ChannelInv'
  OBVIOUS
<1> DEFINE Chan == {"nil", "open", "closed"}
<1>t. /\ TypeOK /\ cancelCh \in [Sub -> Chan] /\ ~panicked
      /\ \A a \in Agent : pc[a] \in CancelPc => arg[a] \in Sub
  BY DEF TypeInv, ArgTyped, ChannelInv, ChannelFollowsFlag
<1>u. \A s \in Sub :
          /\ topic[s] = NoTopic => ~active[s] /\ ~Cancelling(s)
          /\ cancelCh[s] = "open" <=> topic[s] # NoTopic /\ (active[s] \/ Cancelling(s))
          /\ cancelCh[s] = "closed" => ~active[s]
  BY DEF CancelInv, NewSub, ChannelInv, ChannelFollowsFlag
<1>v. ASSUME cancelCh' \in [Sub -> Chan], ~panicked',
             \A s \in Sub :
                 /\ cancelCh'[s] = "open" <=>
                        topic'[s] # NoTopic /\ (active'[s] \/ Cancelling(s)')
                 /\ cancelCh'[s] = "closed" => ~active'[s]
      PROVE  ChannelInv'
  BY <1>v DEF ChannelInv, ChannelFollowsFlag
<1>1. ASSUME OtherStep, UNCHANGED <<cancelCh, panicked>> PROVE ChannelInv'
  <2>1. /\ UNCHANGED <<topic, active>>
        /\ \A s \in Sub : Cancelling(s)' <=> Cancelling(s)
    BY <1>1, CancellingAfter DEF OtherStep, subs
  <2> QED
    BY <1>1, <1>t, <1>u, <1>v, <2>1
<1>2. ASSUME NEW a \in Agent, NEW s \in Sub, BeginsCancel(a, s),
             UNCHANGED <<cancelCh, panicked>>
      PROVE  ChannelInv'
  <2>1. /\ active[s] /\ ~active'[s] /\ UNCHANGED topic
        /\ \A r \in Sub : r # s => active'[r] = active[r]
    BY <1>2, <1>t DEF BeginsCancel, Deactivate, TypeOK
  <2>2. Cancelling(s)' /\ \A r \in Sub : r # s => (Cancelling(r)' <=> Cancelling(r))
    BY <1>2, CancellingAfter
  <2> QED
    BY <1>2, <1>t, <1>u, <1>v, <2>1, <2>2
<1>3. ASSUME NEW a \in Agent, EndsCancel(a), CloseCancelCh(arg[a]) PROVE ChannelInv'
  <2>0. PICK s \in Sub : s = arg[a]
    BY <1>3, <1>t DEF EndsCancel
  <2>1. Cancelling(s) /\ ~active[s] /\ ~Cancelling(s)' /\ UNCHANGED <<topic, active>>
    BY <1>3, <2>0, EndedCancel DEF CancelInv, EndsCancel, subs
  <2>2. \A r \in Sub : r # s => (Cancelling(r)' <=> Cancelling(r))
    BY <1>3, <2>0, CancellingAfter
  <2>3. cancelCh[s] = "open"
    BY <1>u, <2>1
  <2>4. /\ cancelCh' = [cancelCh EXCEPT ![s] = "closed"] /\ UNCHANGED panicked
    BY <1>3, <2>0, <2>3 DEF CloseCancelCh
  <2>5. /\ cancelCh' \in [Sub -> Chan] /\ cancelCh'[s] = "closed" /\ ~panicked'
        /\ \A r \in Sub : r # s => cancelCh'[r] = cancelCh[r]
    BY <1>t, <2>4
  <2> QED
    BY <1>u, <1>v, <2>1, <2>2, <2>5
<1>4. ASSUME NEW s \in Sub, NEW t \in Topic, Subscribes(s, t), UNCHANGED panicked,
             cancelCh' = [cancelCh EXCEPT ![s] = "open"]
      PROVE  ChannelInv'
  <2>1. /\ topic'[s] # NoTopic /\ active'[s]
        /\ \A r \in Sub : r # s => topic'[r] = topic[r] /\ active'[r] = active[r]
    BY <1>4, <1>t, AdapterAssumption DEF Subscribes, TypeOK, AdapterAssumption
  <2>2. \A r \in Sub : Cancelling(r)' <=> Cancelling(r)
    BY <1>4, CancellingAfter DEF Subscribes
  <2>3. /\ cancelCh' \in [Sub -> Chan] /\ cancelCh'[s] = "open" /\ ~panicked'
        /\ \A r \in Sub : r # s => cancelCh'[r] = cancelCh[r]
    BY <1>4, <1>t
  <2> QED
    BY <1>u, <1>v, <2>1, <2>2, <2>3
<1>5. ASSUME NEW a \in Agent, RabbitStep(a)
      PROVE  \/ OtherCall(a) /\ UNCHANGED <<cancelCh, panicked>>
             \/ \E s \in Sub : /\ SubscribeLocked(a, s) /\ UNCHANGED panicked
                               /\ cancelCh' = [cancelCh EXCEPT ![s] = "open"]
             \/ /\ UserCancel(a) \/ UnsubscribeCancel(a) \/ CloseCancel(a)
                /\ CloseCancelCh(arg[a])
  BY <1>5 DEF RabbitStep, RabbitConnect, RabbitSubscribe, RabbitSubUnsubscribe,
              RabbitUnsubscribe, RabbitClose, OtherCall
<1>6. CASE UNCHANGED rabbitVars
  <2>1. OtherStep /\ UNCHANGED <<cancelCh, panicked>>
    BY <1>6 DEF rabbitVars, vars, calls, subs, history, OtherStep, SameCancel
  <2> QED
    BY <1>1, <2>1
<1> QED
  BY <1>1, <1>2, <1>3, <1>4, <1>5, <1>6, SubscribeKind, CancelKind, OtherKind
     DEF RabbitNext

\* No channel is closed twice: a cancelCh is open from Subscribe until the one
\* goroutine that cleared the flag closes it, whichever of the holder,
\* Unsubscribe(topic) and Close that is, so the consumer never panics.
THEOREM ChannelTruthful == RabbitSpec => []ChannelFollowsFlag
<1>1. RabbitInit => ChannelInv
  <2> SUFFICES ASSUME RabbitInit PROVE ChannelInv
    OBVIOUS
  <2>1. /\ ~panicked /\ cancelCh = [s \in Sub |-> "nil"]
        /\ \A s \in Sub : topic[s] = NoTopic
    BY DEF RabbitInit, Init
  <2> QED
    BY <2>1 DEF ChannelInv, ChannelFollowsFlag
<1>2. RabbitSpec => [](TypeInv /\ CancelInv)
  BY RabbitIsAdapter, TypeInvInit, TypeInvStep, CancelInvInit, CancelInvStep, PTL DEF Spec
<1>3. ChannelInv => ChannelFollowsFlag
  BY DEF ChannelInv
<1> QED
  BY <1>1, <1>2, <1>3, ChannelInvStep, PTL DEF RabbitSpec
=============================================================================
