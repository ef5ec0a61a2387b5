------------------------- MODULE AsyncProducerProofs -------------------------
(***************************************************************************)
(* Proofs about AsyncProducer, for any number of Send, Start and Stop      *)
(* calls and every buffer size: type correctness, that no message is lost  *)
(* or published twice, the order of the publishes, and what Stop has       *)
(* drained when it returns.                                                *)
(***************************************************************************)
EXTENDS AsyncProducer, SequenceTheorems, FiniteSetTheorems, TLAPS

\* The goroutines of sendLoop: what the WaitGroup counts.
LivePc == {"select", "publish", "report", "drain", "drainPublish"}
Live == {l \in Loop : loopPc[l] \in LivePc}

\* A goroutine holds a message exactly between its receive and the return of
\* broker.Publish.
HandHeld ==
    \A l \in Loop : hand[l] # NoMsg <=> loopPc[l] \in {"publish", "drainPublish"}

\* The counter of the WaitGroup is the number of goroutines.
Counted == IsFiniteSet(Live) /\ wg = Cardinality(Live)

TypeInv == TypeOK /\ HandHeld /\ Counted

\* How many of the accepted messages have left the channel.
Taken == Len(queued) - Len(msgCh)

\* The channel holds the last of the accepted messages, in their order.
QueueIsTail ==
    /\ Len(msgCh) <= Len(queued)
    /\ \A i \in 1..Len(msgCh) : queued[Taken + i] = msgCh[i]

\* Every Send call that returned nil has its one place among the accepted.
QueuedOnce ==
    /\ \A i, j \in 1..Len(queued) : queued[i] = queued[j] => i = j
    /\ \A m \in Msg : sendPc[m] = "queued" <=> \E p \in 1..Len(queued) : queued[p] = m

\* A goroutine holds the message or has given it to the broker.
Held(m) == (\E l \in Loop : hand[l] = m) \/ Attempted(m)

\* What left the channel is held, and nothing else is.
TakenIsHeld ==
    /\ \A p \in 1..Taken : Held(queued[p])
    /\ \A m \in Msg : Held(m) => \E p \in 1..Taken : queued[p] = m

\* No two goroutines hold the same message, none holds one that was already
\* given to the broker, and none is given twice.
HeldOnce ==
    /\ \A k, l \in Loop : hand[k] = hand[l] /\ hand[l] # NoMsg => k = l
    /\ \A l \in Loop : hand[l] # NoMsg => ~Attempted(hand[l])
    /\ \A k, l \in Loop : \A i \in 1..Len(tried[k]), j \in 1..Len(tried[l]) :
           tried[k][i] = tried[l][j] => k = l /\ i = j

\* The message in hand was accepted after all that the goroutine published.
HandIsNext ==
    \A l \in Loop : \A i \in 1..Len(tried[l]) : \A p, q \in 1..Len(queued) :
        queued[p] = tried[l][i] /\ queued[q] = hand[l] => p < q

FlowInv == QueueIsTail /\ QueuedOnce /\ TakenIsHeld /\ HeldOnce /\ HandIsNext

\* Before stopCh is closed no goroutine drains, one that ended was cancelled,
\* and no Stop call is past its close.
BeforeClose ==
    ~stopClosed =>
        /\ \A l \in Loop : loopPc[l] \notin {"drain", "drainPublish"}
        /\ \A l \in Loop : loopPc[l] = "done" => ctxDone[l]
        /\ \A s \in Stopper : stopPc[s] \notin {"closed", "waiting", "woken", "returned"}

\* The producer runs because of a Start call that found it stopped.
RunningStarted == running => \E l \in Loop : loopPc[l] \notin {"off", "ignored"}

\* A Stop call whose close does not or did not panic.
Stopping(s) ==
    \/ stopPc[s] = "swapped" /\ ~stopClosed
    \/ stopPc[s] \in {"closed", "waiting", "woken", "returned"}

\* A goroutine had been started when the Stop call began; if it has ended,
\* what was queued then has left the channel.
Drains(s, l) ==
    /\ loopPc[l] \in LivePc \cup {"done"}
    /\ loopPc[l] = "done" => \A i \in 1..Len(msgCh) : msgCh[i] \notin pending[s]

PendingDrained ==
    (\A l \in Loop : ~ctxDone[l]) =>
        \A s \in Stopper : Stopping(s) => pending[s] = {} \/ \E l \in Loop : Drains(s, l)

PendingQueued ==
    \A s \in Stopper : \A m \in pending[s] : sendPc[m] = "queued"

StopInv == BeforeClose /\ RunningStarted /\ PendingDrained /\ PendingQueued

-----------------------------------------------------------------------------
(* Types.                                                                  *)

\* A goroutine that starts raises the number of goroutines by one.
LEMMA LiveGrows ==
    ASSUME Counted, NEW l \in Loop, l \notin Live, Live' = Live \cup {l}, wg' = wg + 1
    PROVE  Counted'
<1>1. IsFiniteSet(Live \cup {l}) /\ Cardinality(Live \cup {l}) = Cardinality(Live) + 1
  BY FS_AddElement DEF Counted
<1> QED
  BY <1>1 DEF Counted

\* A goroutine that ends lowers it by one; the counter was not zero.
LEMMA LiveShrinks ==
    ASSUME Counted, NEW l \in Live, Live' = Live \ {l}, wg' = wg - 1
    PROVE  Counted' /\ wg' \in Nat
<1>1. /\ IsFiniteSet(Live \ {l}) /\ Cardinality(Live \ {l}) = Cardinality(Live) - 1
  BY FS_RemoveElement DEF Counted
<1>2. Cardinality(Live \ {l}) \in Nat
  BY <1>1, FS_CardinalityType
<1> QED
  BY <1>1, <1>2 DEF Counted

LEMMA TypeInit == Init => TypeInv
<1> SUFFICES ASSUME Init PROVE TypeInv
  OBVIOUS
<1>1. <<>> \in Seq(Msg) /\ Len(<<>>) = 0
  OBVIOUS
<1>2. /\ running \in BOOLEAN /\ stopClosed \in BOOLEAN /\ panicked \in BOOLEAN
      /\ ctxDone \in [Loop -> BOOLEAN]
  BY DEF Init
<1>3. msgCh \in Seq(Msg) /\ Len(msgCh) <= Cap /\ queued \in Seq(Msg)
  BY <1>1, ProducerAssumption DEF Init
<1>4. errCh \in 0..Cap /\ wg \in Nat /\ sent \in Nat /\ failed \in Nat
  BY ProducerAssumption DEF Init
<1>5. /\ loopPc \in [Loop -> LoopPc] /\ sendPc \in [Msg -> SendPc]
      /\ stopPc \in [Stopper -> StopPc]
  BY DEF Init, LoopPc, SendPc, StopPc
<1>6. hand \in [Loop -> Msg \cup {NoMsg}]
  BY DEF Init
<1>7. tried \in [Loop -> Seq(Msg)] /\ pending \in [Stopper -> SUBSET Msg]
  BY <1>1 DEF Init
<1>8. TypeOK
  BY <1>2, <1>3, <1>4, <1>5, <1>6, <1>7, Zenon DEF TypeOK
<1>9. HandHeld
  BY DEF Init, HandHeld
<1>10. Live = {}
  BY DEF Init, Live, LivePc
<1>11. Counted
  BY <1>10, FS_EmptySet DEF Counted, Init
<1> QED
  BY <1>8, <1>9, <1>11 DEF TypeInv

\* An Exit ends a live goroutine whose hands are empty.
LEMMA ExitTyped ==
    ASSUME TypeInv, NEW l \in Loop, loopPc[l] \in {"select", "drain"}, Exit(l)
    PROVE  TypeInv'
<1> USE DEF chans, counters, history
<1>1. l \in Live /\ Live' = Live \ {l}
  BY DEF TypeInv, TypeOK, Exit, Live, LivePc
<1>2. Counted' /\ wg' \in Nat
  BY <1>1, LiveShrinks DEF TypeInv, Exit
<1>3. HandHeld'
  BY DEF TypeInv, TypeOK, HandHeld, Exit
<1>4. TypeOK'
  <2>1. loopPc' \in [Loop -> LoopPc]
    BY DEF TypeInv, TypeOK, Exit, LoopPc
  <2>2. stopPc' \in [Stopper -> StopPc]
    BY DEF TypeInv, TypeOK, Exit, StopPc
  <2> QED
    BY <1>2, <2>1, <2>2 DEF TypeInv, TypeOK, Exit
<1> QED
  BY <1>2, <1>3, <1>4 DEF TypeInv

\* The broker is only given a message, never an empty hand.
LEMMA PublishedTyped ==
    ASSUME TypeInv, NEW l \in Loop, NEW ok \in BOOLEAN,
           LoopPublish(l, ok) \/ DrainPublish(l, ok)
    PROVE  TypeInv'
<1> USE DEF chans, counters, history
<1>1. hand[l] \in Msg
  BY DEF TypeInv, TypeOK, HandHeld, LoopPublish, DrainPublish
<1>2. tried' \in [Loop -> Seq(Msg)]
  <2>1. tried \in [Loop -> Seq(Msg)] /\ tried[l] \in Seq(Msg)
    BY DEF TypeInv, TypeOK
  <2>2. Append(tried[l], hand[l]) \in Seq(Msg)
    BY <1>1, <2>1, AppendProperties
  <2>3. tried' = [tried EXCEPT ![l] = Append(@, hand[l])]
    BY DEF Published, LoopPublish, DrainPublish
  <2> QED
    BY <2>1, <2>2, <2>3
<1>3. /\ loopPc' \in [Loop -> LoopPc] /\ Live' = Live /\ HandHeld'
      /\ hand' \in [Loop -> Msg \cup {NoMsg}]
  BY DEF TypeInv, TypeOK, HandHeld, Published, LoopPublish, DrainPublish, Live,
         LivePc, LoopPc
<1>4. sent' \in Nat /\ failed' \in Nat
  BY DEF TypeInv, TypeOK, Published, LoopPublish, DrainPublish
<1>5. UNCHANGED <<running, chans, wg, panicked, ctxDone, sendPc, stopPc, queued, pending>>
  BY DEF Published, LoopPublish, DrainPublish
<1>6. TypeOK'
  BY <1>2, <1>3, <1>4, <1>5 DEF TypeInv, TypeOK
<1>7. Counted'
  BY <1>3, <1>5 DEF TypeInv, Counted
<1> QED
  BY <1>3, <1>6, <1>7 DEF TypeInv

LEMMA ReceiveTyped ==
    ASSUME TypeInv, NEW l \in Loop, LoopReceive(l) \/ DrainReceive(l)
    PROVE  TypeInv'
<1> USE DEF chans, counters, history
<1>1. /\ msgCh # <<>> /\ msgCh' = Tail(msgCh)
      /\ hand' = [hand EXCEPT ![l] = Head(msgCh)]
      /\ UNCHANGED <<running, errCh, stopClosed, wg, panicked, ctxDone, sendPc,
                     stopPc, counters, history>>
  BY DEF LoopReceive, DrainReceive, Receive
<1>2. /\ Head(msgCh) \in Msg /\ Tail(msgCh) \in Seq(Msg)
      /\ Len(Tail(msgCh)) <= Cap
  BY <1>1, HeadTailProperties, ProducerAssumption, LenProperties DEF TypeInv, TypeOK
<1>3. loopPc' \in [Loop -> LoopPc] /\ Live' = Live
  BY DEF TypeInv, TypeOK, LoopReceive, DrainReceive, Receive, Live, LivePc, LoopPc
<1>4. HandHeld'
  BY <1>1, <1>2, ProducerAssumption
     DEF TypeInv, TypeOK, HandHeld, LoopReceive, DrainReceive, Receive
<1>5. TypeOK'
  BY <1>1, <1>2, <1>3 DEF TypeInv, TypeOK
<1>6. Counted'
  BY <1>1, <1>3 DEF TypeInv, Counted
<1> QED
  BY <1>4, <1>5, <1>6 DEF TypeInv

LEMMA TypeStep == TypeInv /\ [Next]_vars => TypeInv'
<1> SUFFICES ASSUME TypeInv, [Next]_vars PROVE TypeInv'
  OBVIOUS
<1> USE DEF chans, counters, history
<1>0. ASSUME UNCHANGED <<loopPc, hand, wg>>, TypeOK' PROVE TypeInv'
  BY <1>0 DEF TypeInv, HandHeld, Counted, Live
<1>1. ASSUME NEW l \in Loop, StartSwap(l) PROVE TypeInv'
  <2>1. TypeOK' /\ Live' = Live /\ HandHeld'
    BY <1>1 DEF StartSwap, TypeInv, TypeOK, HandHeld, Live, LivePc, LoopPc
  <2> QED
    BY <1>1, <2>1 DEF StartSwap, TypeInv, Counted
<1>2. ASSUME NEW l \in Loop, StartGo(l) PROVE TypeInv'
  <2>1. /\ TypeOK' /\ HandHeld'
    BY <1>2 DEF StartGo, TypeInv, TypeOK, HandHeld, LoopPc
  <2>2. l \notin Live /\ Live' = Live \cup {l}
    BY <1>2 DEF StartGo, TypeInv, TypeOK, Live, LivePc
  <2> QED
    BY <1>2, <2>1, <2>2, LiveGrows DEF StartGo, TypeInv
<1>3. ASSUME NEW l \in Loop, Cancel(l) PROVE TypeInv'
  BY <1>3, <1>0 DEF Cancel, TypeInv, TypeOK
<1>4. ASSUME NEW l \in Loop, LoopReport(l) \/ LoopStop(l) PROVE TypeInv'
  <2>1. Live' = Live /\ HandHeld' /\ loopPc' \in [Loop -> LoopPc] /\ wg' = wg
    BY <1>4 DEF LoopReport, LoopStop, TypeInv, TypeOK, HandHeld, Live, LivePc, LoopPc
  <2>2. errCh' \in 0..Cap
    BY <1>4, ProducerAssumption DEF LoopReport, LoopStop, TypeInv, TypeOK
  <2>3. TypeOK'
    BY <1>4, <2>1, <2>2 DEF LoopReport, LoopStop, TypeInv, TypeOK
  <2> QED
    BY <2>1, <2>3 DEF TypeInv, Counted
<1>5. ASSUME NEW m \in Msg, SendCheck(m) PROVE TypeInv'
  <2>1. TypeOK'
    BY <1>5 DEF SendCheck, TypeInv, TypeOK, SendPc
  <2> QED
    BY <1>5, <2>1, <1>0 DEF SendCheck
<1>6. ASSUME NEW m \in Msg, SendOffer(m) PROVE TypeInv'
  <2>1. sendPc' \in [Msg -> SendPc]
    BY <1>6 DEF SendOffer, TypeInv, TypeOK, SendPc
  <2>2. /\ Append(msgCh, m) \in Seq(Msg) /\ Append(queued, m) \in Seq(Msg)
        /\ Len(Append(msgCh, m)) = Len(msgCh) + 1 /\ Len(msgCh) \in Nat
    BY AppendProperties DEF TypeInv, TypeOK
  <2>3. msgCh' \in Seq(Msg) /\ Len(msgCh') <= Cap /\ queued' \in Seq(Msg)
    <3>1. CASE HasRoom
      <4>1. msgCh' = Append(msgCh, m) /\ queued' = Append(queued, m)
        BY <1>6, <3>1 DEF SendOffer
      <4>2. Len(msgCh) + 1 <= Cap
        BY <2>2, <3>1, ProducerAssumption DEF HasRoom
      <4> QED
        BY <2>2, <4>1, <4>2
    <3>2. CASE ~HasRoom
      BY <1>6, <3>2 DEF SendOffer, TypeInv, TypeOK
    <3> QED
      BY <3>1, <3>2
  <2>4. TypeOK'
    BY <1>6, <2>1, <2>3 DEF SendOffer, TypeInv, TypeOK
  <2> QED
    BY <1>6, <2>4, <1>0 DEF SendOffer
<1>7. CASE TakeError
  BY <1>7, <1>0, ProducerAssumption DEF TakeError, TypeInv, TypeOK
<1>8. ASSUME NEW s \in Stopper, StopSwap(s) PROVE TypeInv'
  <2>1. {queued[i] : i \in DOMAIN queued} \in SUBSET Msg
    BY DEF TypeInv, TypeOK
  <2>2. pending' \in [Stopper -> SUBSET Msg]
    BY <1>8, <2>1 DEF StopSwap, TypeInv, TypeOK
  <2>3. stopPc' \in [Stopper -> StopPc]
    BY <1>8 DEF StopSwap, TypeInv, TypeOK, StopPc
  <2>4. TypeOK'
    BY <1>8, <2>2, <2>3 DEF StopSwap, TypeInv, TypeOK
  <2> QED
    BY <1>8, <2>4, <1>0 DEF StopSwap
<1>9. ASSUME NEW s \in Stopper, StopStep(s) PROVE TypeInv'
  <2>1. stopPc' \in [Stopper -> StopPc]
    BY <1>9 DEF StopStep, StopClose, StopWait, StopReturn, TypeInv, TypeOK, StopPc
  <2>2. panicked' \in BOOLEAN /\ stopClosed' \in BOOLEAN
    BY <1>9 DEF StopStep, StopClose, StopWait, StopReturn, TypeInv, TypeOK
  <2>3. TypeOK'
    BY <1>9, <2>1, <2>2 DEF StopStep, StopClose, StopWait, StopReturn, TypeInv, TypeOK
  <2> QED
    BY <1>9, <2>3, <1>0 DEF StopStep, StopClose, StopWait, StopReturn
<1>10. CASE UNCHANGED vars
  BY <1>10, <1>0 DEF vars, TypeInv, TypeOK
<1>11. ASSUME NEW l \in Loop, LoopStep(l) PROVE TypeInv'
  <2>1. CASE DrainDone(l) \/ LoopCancelled(l)
    BY <2>1, ExitTyped DEF DrainDone, LoopCancelled
  <2>2. ASSUME NEW ok \in BOOLEAN, LoopPublish(l, ok) \/ DrainPublish(l, ok)
        PROVE  TypeInv'
    BY <2>2, PublishedTyped
  <2> QED
    BY <1>2, <1>4, <1>11, <2>1, <2>2, ReceiveTyped DEF LoopStep
<1> QED
  BY <1>1, <1>3, <1>5, <1>6, <1>7, <1>8, <1>9, <1>10, <1>11 DEF Next

\* The channels stay within their capacity and the WaitGroup counter never
\* becomes negative, which would panic: it is the number of goroutines.
THEOREM ProducerTypes == Spec => []TypeOK
<1>1. TypeInv => TypeOK
  BY DEF TypeInv
<1> QED
  BY <1>1, TypeInit, TypeStep, PTL DEF Spec

-----------------------------------------------------------------------------
(* How a message flows: a step lets Send accept one, a goroutine take the  *)
(* oldest, a goroutine give its own to the broker, or moves none.          *)

Accepts(m) ==
    /\ sendPc[m] = "checked"
    /\ sendPc' = [sendPc EXCEPT ![m] = "queued"]
    /\ msgCh' = Append(msgCh, m)
    /\ queued' = Append(queued, m)
    /\ UNCHANGED <<hand, tried>>

Takes(l) ==
    /\ hand[l] = NoMsg
    /\ msgCh # <<>>
    /\ hand' = [hand EXCEPT ![l] = Head(msgCh)]
    /\ msgCh' = Tail(msgCh)
    /\ UNCHANGED <<sendPc, queued, tried>>

Gives(l) ==
    /\ hand[l] # NoMsg
    /\ tried' = [tried EXCEPT ![l] = Append(@, hand[l])]
    /\ hand' = [hand EXCEPT ![l] = NoMsg]
    /\ UNCHANGED <<sendPc, msgCh, queued>>

MovesNone ==
    /\ \A m \in Msg : sendPc'[m] = "queued" <=> sendPc[m] = "queued"
    /\ UNCHANGED <<msgCh, queued, hand, tried>>

LEMMA FlowSteps ==
    ASSUME TypeInv, [Next]_vars
    PROVE  \/ \E m \in Msg : Accepts(m)
           \/ \E l \in Loop : Takes(l) \/ Gives(l)
           \/ MovesNone
<1> USE DEF chans, counters, history
<1>1. ASSUME NEW m \in Msg, SendOffer(m) PROVE Accepts(m) \/ MovesNone
  BY <1>1 DEF SendOffer, Accepts, MovesNone, TypeInv, TypeOK
<1>2. ASSUME NEW l \in Loop, LoopReceive(l) \/ DrainReceive(l) PROVE Takes(l)
  BY <1>2 DEF LoopReceive, DrainReceive, Receive, Takes, TypeInv, HandHeld
<1>3. ASSUME NEW l \in Loop, NEW ok \in BOOLEAN, LoopPublish(l, ok) \/ DrainPublish(l, ok)
      PROVE  Gives(l)
  <2>1. hand[l] # NoMsg
    BY <1>3 DEF LoopPublish, DrainPublish, TypeInv, HandHeld
  <2> QED
    BY <1>3, <2>1 DEF LoopPublish, DrainPublish, Published, Gives
<1>4. ASSUME NEW m \in Msg, SendCheck(m) PROVE MovesNone
  BY <1>4 DEF SendCheck, MovesNone, TypeInv, TypeOK
<1>5. ASSUME UNCHANGED <<sendPc, msgCh, queued, hand, tried>> PROVE MovesNone
  BY <1>5 DEF MovesNone
<1>6. ASSUME NEW l \in Loop, StartSwap(l) \/ Cancel(l) PROVE MovesNone
  BY <1>5, <1>6 DEF StartSwap, Cancel
<1>7. ASSUME NEW l \in Loop,
             \/ StartGo(l) \/ LoopReport(l) \/ LoopStop(l)
             \/ DrainDone(l) \/ LoopCancelled(l)
      PROVE  MovesNone
  BY <1>5, <1>7 DEF StartGo, LoopReport, LoopStop, DrainDone, LoopCancelled, Exit
<1>8. ASSUME NEW s \in Stopper, StopSwap(s) \/ StopStep(s) PROVE MovesNone
  BY <1>5, <1>8 DEF StopSwap, StopStep, StopClose, StopWait, StopReturn
<1>9. CASE TakeError
  BY <1>5, <1>9 DEF TakeError
<1>10. CASE UNCHANGED vars
  BY <1>5, <1>10 DEF vars
<1> QED
  BY <1>1, <1>2, <1>3, <1>4, <1>6, <1>7, <1>8, <1>9, <1>10 DEF Next, LoopStep

\* Only a publish adds to the messages given to the broker.
LEMMA AttemptedKept ==
    ASSUME TypeInv, UNCHANGED tried
    PROVE  \A m : Attempted(m)' <=> Attempted(m)
BY DEF Attempted

LEMMA AttemptedGrows ==
    ASSUME TypeInv, TypeInv', NEW l \in Loop, Gives(l)
    PROVE  \A m : Attempted(m)' <=> Attempted(m) \/ m = hand[l]
<1>1. /\ tried \in [Loop -> Seq(Msg)] /\ tried[l] \in Seq(Msg) /\ hand[l] \in Msg
      /\ tried' = [tried EXCEPT ![l] = Append(tried[l], hand[l])]
  BY DEF TypeInv, TypeOK, Gives
<1>2. /\ Len(tried[l]) \in Nat /\ Len(tried'[l]) = Len(tried[l]) + 1
      /\ tried'[l][Len(tried[l]) + 1] = hand[l]
      /\ \A i \in 1..Len(tried[l]) : tried'[l][i] = tried[l][i]
      /\ DOMAIN tried[l] = 1..Len(tried[l]) /\ DOMAIN tried'[l] = 1..(Len(tried[l]) + 1)
  BY <1>1, AppendProperties
<1>3. \A k \in Loop : k # l => tried'[k] = tried[k]
  BY <1>1
<1> TAKE m
<1>4. ASSUME Attempted(m) PROVE Attempted(m)'
  <2>1. PICK k \in Loop : \E i \in DOMAIN tried[k] : tried[k][i] = m
    BY <1>4 DEF Attempted
  <2>2. PICK i \in DOMAIN tried[k] : tried[k][i] = m
    BY <2>1
  <2>3. i \in DOMAIN tried'[k] /\ tried'[k][i] = m
    BY <1>2, <1>3, <2>2
  <2> QED
    BY <2>3 DEF Attempted
<1>5. ASSUME m = hand[l] PROVE Attempted(m)'
  <2>1. Len(tried[l]) + 1 \in DOMAIN tried'[l] /\ tried'[l][Len(tried[l]) + 1] = m
    BY <1>2, <1>5
  <2> QED
    BY <2>1 DEF Attempted
<1>6. ASSUME Attempted(m)' PROVE Attempted(m) \/ m = hand[l]
  <2>1. PICK k \in Loop : \E i \in DOMAIN tried'[k] : tried'[k][i] = m
    BY <1>6 DEF Attempted
  <2>2. PICK i \in DOMAIN tried'[k] : tried'[k][i] = m
    BY <2>1
  <2>3. CASE k # l
    BY <1>3, <2>2, <2>3 DEF Attempted
  <2>4. CASE k = l /\ i = Len(tried[l]) + 1
    BY <1>2, <2>2, <2>4
  <2>5. CASE k = l /\ i # Len(tried[l]) + 1
    <3>1. i \in 1..Len(tried[l])
      BY <1>2, <2>2, <2>5
    <3>2. i \in DOMAIN tried[l] /\ tried[l][i] = m
      BY <1>2, <2>2, <2>5, <3>1
    <3> QED
      BY <3>2 DEF Attempted
  <2> QED
    BY <2>3, <2>4, <2>5
<1> QED
  BY <1>4, <1>5, <1>6

LEMMA FlowInit == Init => FlowInv /\ InOrder
<1> SUFFICES ASSUME Init PROVE FlowInv /\ InOrder
  OBVIOUS
<1>1. /\ Len(queued) = 0 /\ Len(msgCh) = 0 /\ Taken = 0
      /\ \A l \in Loop : tried[l] = <<>> /\ Len(tried[l]) = 0 /\ DOMAIN tried[l] = {}
      /\ DOMAIN queued = {}
  BY DEF Init, Taken
<1>2. 1..0 = {}
  OBVIOUS
<1>3. \A m : ~Attempted(m)
  BY <1>1 DEF Attempted
<1>4. \A m \in Msg : ~Held(m)
  BY <1>3, ProducerAssumption DEF Held, Init
<1>5. QueueIsTail /\ QueuedOnce
  BY <1>1, <1>2 DEF QueueIsTail, QueuedOnce, Init
<1>6. TakenIsHeld /\ HeldOnce /\ HandIsNext
  BY <1>1, <1>2, <1>3, <1>4 DEF TakenIsHeld, HeldOnce, HandIsNext, Init
<1>7. InOrder
  BY <1>1 DEF InOrder
<1> QED
  BY <1>5, <1>6, <1>7 DEF FlowInv

\* The lengths and places the flow lemmas reason about.
LEMMA FlowTypes ==
    ASSUME TypeInv, QueueIsTail
    PROVE  /\ queued \in Seq(Msg) /\ msgCh \in Seq(Msg)
           /\ Len(queued) \in Nat /\ Len(msgCh) \in Nat /\ Taken \in Nat
           /\ Taken + Len(msgCh) = Len(queued) /\ Taken <= Len(queued)
           /\ \A p \in 1..Len(queued) : queued[p] \in Msg
           /\ \A l \in Loop : tried[l] \in Seq(Msg) /\ Len(tried[l]) \in Nat
           /\ \A l \in Loop : DOMAIN tried[l] = 1..Len(tried[l])
           /\ \A l \in Loop : \A i \in 1..Len(tried[l]) : tried[l][i] \in Msg
           /\ \A l \in Loop : hand[l] \in Msg \cup {NoMsg}
           /\ DOMAIN queued = 1..Len(queued)
BY DEF TypeInv, TypeOK, QueueIsTail, Taken

\* Send accepts a message that was nowhere before.
LEMMA AcceptFlow ==
    ASSUME TypeInv, TypeInv', FlowInv, InOrder, NEW m \in Msg, Accepts(m)
    PROVE  FlowInv' /\ InOrder'
<1> DEFINE n == Len(queued)
<1>1. /\ queued \in Seq(Msg) /\ msgCh \in Seq(Msg)
      /\ n \in Nat /\ Len(msgCh) \in Nat /\ Taken \in Nat /\ Taken <= n
      /\ Taken + Len(msgCh) = n /\ Len(msgCh) <= n
  BY FlowTypes DEF FlowInv, QueueIsTail
<1>2. /\ Len(queued') = n + 1 /\ queued'[n + 1] = m /\ DOMAIN queued' = 1..(n + 1)
      /\ \A p \in 1..n : queued'[p] = queued[p]
  BY <1>1, AppendProperties DEF Accepts
<1>3. /\ Len(msgCh') = Len(msgCh) + 1 /\ msgCh'[Len(msgCh) + 1] = m
      /\ \A p \in 1..Len(msgCh) : msgCh'[p] = msgCh[p]
  BY <1>1, AppendProperties DEF Accepts
<1>4. Taken' = Taken
  BY <1>1, <1>2, <1>3 DEF Taken
<1>5. \A p \in 1..n : queued[p] # m
  BY DEF FlowInv, QueuedOnce, Accepts
<1>6. \A x : Held(x)' <=> Held(x)
  BY AttemptedKept DEF Held, Accepts
<1>7. ~Held(m)
  BY <1>1, <1>5 DEF FlowInv, TakenIsHeld
<1>8. \A p \in 1..(n + 1) : p \in 1..n \/ p = n + 1
  BY <1>1
<1>9. 1..n \subseteq 1..(n + 1) /\ n + 1 \in 1..(n + 1) /\ 1..Taken \subseteq 1..n
  BY <1>1
<1> HIDE DEF n
<1>10. QueueIsTail'
  <2>1. ASSUME NEW i \in 1..Len(msgCh) PROVE queued'[Taken + i] = msgCh'[i]
    <3>1. Taken + i \in 1..n
      BY <1>1
    <3> QED
      BY <1>2, <1>3, <3>1 DEF FlowInv, QueueIsTail
  <2>2. queued'[Taken + (Len(msgCh) + 1)] = msgCh'[Len(msgCh) + 1]
    <3>1. Taken + (Len(msgCh) + 1) = n + 1
      BY <1>1
    <3> QED
      BY <1>2, <1>3, <3>1
  <2>3. \A i \in 1..(Len(msgCh) + 1) : i \in 1..Len(msgCh) \/ i = Len(msgCh) + 1
    BY <1>1
  <2>4. Len(msgCh') <= Len(queued')
    BY <1>1, <1>2, <1>3
  <2> QED
    BY <1>3, <1>4, <2>1, <2>2, <2>3, <2>4 DEF QueueIsTail
<1>11. QueuedOnce'
  <2>1. \A i, j \in 1..(n + 1) : queued'[i] = queued'[j] => i = j
    BY <1>2, <1>5, <1>8 DEF FlowInv, QueuedOnce, n
  <2>2. ASSUME NEW x \in Msg
        PROVE  sendPc'[x] = "queued" <=> \E p \in 1..(n + 1) : queued'[p] = x
    <3>1. CASE x = m
      BY <1>2, <1>9, <3>1 DEF Accepts, TypeInv, TypeOK
    <3>2. CASE x # m
      <4>1. sendPc'[x] = sendPc[x]
        BY <3>2 DEF Accepts, TypeInv, TypeOK
      <4>2. sendPc[x] = "queued" <=> \E p \in 1..n : queued[p] = x
        BY DEF FlowInv, QueuedOnce, n
      <4>3. (\E p \in 1..n : queued[p] = x) <=> \E p \in 1..(n + 1) : queued'[p] = x
        BY <1>2, <1>8, <1>9, <3>2
      <4> QED
        BY <4>1, <4>2, <4>3
    <3> QED
      BY <3>1, <3>2
  <2> QED
    BY <1>2, <2>1, <2>2 DEF QueuedOnce
<1>12. TakenIsHeld'
  <2>1. \A p \in 1..Taken : queued'[p] = queued[p]
    BY <1>2, <1>9
  <2> QED
    BY <1>4, <1>6, <2>1 DEF FlowInv, TakenIsHeld
<1>13. HeldOnce'
  BY AttemptedKept DEF FlowInv, HeldOnce, Accepts
<1>14. \A l \in Loop : \A i \in 1..Len(tried[l]) : tried[l][i] # m
  <2>1. \A l \in Loop : \A i \in 1..Len(tried[l]) : Held(tried[l][i])
    BY FlowTypes DEF Held, Attempted, FlowInv
  <2> QED
    BY <1>7, <2>1
<1>15. \A l \in Loop : hand[l] # m
  BY <1>7 DEF Held
<1>16. HandIsNext'
  <2> SUFFICES ASSUME NEW l \in Loop, NEW i \in 1..Len(tried[l]),
                      NEW p \in 1..(n + 1), NEW q \in 1..(n + 1),
                      queued'[p] = tried[l][i], queued'[q] = hand[l]
               PROVE  p < q
    BY <1>2 DEF HandIsNext, Accepts
  <2>1. p \in 1..n /\ q \in 1..n
    BY <1>2, <1>8, <1>14, <1>15
  <2>2. queued[p] = tried[l][i] /\ queued[q] = hand[l]
    BY <1>2, <2>1
  <2> QED
    BY <2>1, <2>2 DEF FlowInv, HandIsNext, n
<1>17. InOrder'
  <2> SUFFICES ASSUME NEW l \in Loop, NEW i \in DOMAIN tried[l], NEW j \in DOMAIN tried[l],
                      NEW p \in 1..(n + 1), NEW q \in 1..(n + 1), i < j,
                      queued'[p] = tried[l][i], queued'[q] = tried[l][j]
               PROVE  p < q
    BY <1>2 DEF InOrder, Accepts
  <2>0. i \in 1..Len(tried[l]) /\ j \in 1..Len(tried[l])
    BY FlowTypes DEF FlowInv
  <2>1. p \in 1..n /\ q \in 1..n
    BY <1>2, <1>8, <1>14, <2>0
  <2>2. queued[p] = tried[l][i] /\ queued[q] = tried[l][j]
    BY <1>2, <2>1
  <2>3. p \in DOMAIN queued /\ q \in DOMAIN queued
    BY <2>1, FlowTypes DEF FlowInv, n
  <2> QED
    BY <2>2, <2>3 DEF InOrder
<1> QED
  BY <1>10, <1>11, <1>12, <1>13, <1>16, <1>17 DEF FlowInv

\* A receive takes the oldest message of the channel, which no goroutine had.
LEMMA TakeFlow ==
    ASSUME TypeInv, TypeInv', FlowInv, InOrder, NEW l \in Loop, Takes(l)
    PROVE  FlowInv' /\ InOrder'
<1>1. /\ queued \in Seq(Msg) /\ msgCh \in Seq(Msg)
      /\ Len(queued) \in Nat /\ Len(msgCh) \in Nat /\ Taken \in Nat
      /\ Taken + Len(msgCh) = Len(queued) /\ Len(msgCh) <= Len(queued)
  BY FlowTypes DEF FlowInv, QueueIsTail
<1>2. PICK x \in Msg : x = Head(msgCh)
  BY <1>1, HeadTailProperties DEF Takes
<1>3. /\ Len(msgCh) # 0 /\ msgCh[1] = x /\ Len(msgCh') = Len(msgCh) - 1
      /\ \A i \in 1..(Len(msgCh) - 1) : msgCh'[i] = msgCh[i + 1]
  BY <1>1, <1>2, HeadTailProperties, EmptySeq DEF Takes
<1>4. Taken' = Taken + 1
  BY <1>1, <1>3 DEF Taken, Takes
<1>5. Taken + 1 \in 1..Len(queued) /\ queued[Taken + 1] = x
  <2>1. 1 \in 1..Len(msgCh) /\ Taken + 1 \in 1..Len(queued)
    BY <1>1, <1>3
  <2>2. queued[Taken + 1] = msgCh[1]
    BY <2>1 DEF FlowInv, QueueIsTail
  <2> QED
    BY <1>3, <2>1, <2>2
<1>6. ~Held(x)
  <2>1. \A p \in 1..Taken : p \in 1..Len(queued) /\ p # Taken + 1
    BY <1>1
  <2>2. \A p \in 1..Taken : queued[p] # x
    BY <1>5, <2>1 DEF FlowInv, QueuedOnce
  <2> QED
    BY <2>2 DEF FlowInv, TakenIsHeld
<1>7. /\ hand'[l] = x /\ \A k \in Loop : k # l => hand'[k] = hand[k]
      /\ \A m \in Msg : hand[l] # m /\ tried' = tried
  BY <1>2, ProducerAssumption DEF Takes, TypeInv, TypeOK
<1>8. \A m : Attempted(m)' <=> Attempted(m)
  BY AttemptedKept DEF Takes
<1>9. \A m \in Msg : Held(m)' <=> Held(m) \/ m = x
  BY <1>7, <1>8 DEF Held
<1>10. QueueIsTail'
  <2>1. ASSUME NEW i \in 1..(Len(msgCh) - 1) PROVE queued[Taken + 1 + i] = msgCh'[i]
    <3>1. i + 1 \in 1..Len(msgCh) /\ Taken + 1 + i = Taken + (i + 1)
      BY <1>1
    <3>2. queued[Taken + (i + 1)] = msgCh[i + 1]
      BY <3>1 DEF FlowInv, QueueIsTail
    <3> QED
      BY <1>3, <3>1, <3>2
  <2>2. Len(msgCh') <= Len(queued)
    BY <1>1, <1>3
  <2> QED
    BY <1>3, <1>4, <2>1, <2>2 DEF QueueIsTail, Takes
<1>11. QueuedOnce'
  BY DEF FlowInv, QueuedOnce, Takes
<1>12. TakenIsHeld'
  <2>1. \A p \in 1..(Taken + 1) : p \in 1..Taken \/ p = Taken + 1
    BY <1>1
  <2>2. 1..Taken \subseteq 1..(Taken + 1) /\ Taken + 1 \in 1..(Taken + 1)
    BY <1>1
  <2>3. \A p \in 1..Taken : queued[p] \in Msg
    BY FlowTypes DEF FlowInv
  <2>4. ASSUME NEW p \in 1..(Taken + 1) PROVE Held(queued[p])'
    <3>1. CASE p \in 1..Taken
      <4>1. Held(queued[p]) /\ queued'[p] = queued[p]
        BY <3>1 DEF FlowInv, TakenIsHeld, Takes
      <4> QED
        BY <1>9, <2>3, <3>1, <4>1 DEF Takes
    <3>2. CASE p = Taken + 1
      <4>1. Held(x)'
        BY <1>9
      <4>2. queued'[p] = x
        BY <1>5, <3>2 DEF Takes
      <4> QED
        BY <4>1, <4>2
    <3> QED
      BY <2>1, <3>1, <3>2
  <2>5. ASSUME NEW m \in Msg, Held(m)' PROVE \E p \in 1..(Taken + 1) : queued[p] = m
    BY <1>5, <1>9, <2>2, <2>5 DEF FlowInv, TakenIsHeld
  <2> QED
    BY <1>4, <2>4, <2>5 DEF TakenIsHeld, Takes
<1>13. HeldOnce'
  <2>1. \A k \in Loop : hand[k] # x /\ ~Attempted(x)
    BY <1>6 DEF Held
  <2>2. \A j, k \in Loop : hand'[j] = hand'[k] /\ hand'[k] # NoMsg => j = k
    BY <1>7, <2>1 DEF FlowInv, HeldOnce
  <2>3. \A k \in Loop : hand'[k] # NoMsg => ~Attempted(hand'[k])
    BY <1>7, <2>1 DEF FlowInv, HeldOnce
  <2>4. \A k \in Loop : hand'[k] # NoMsg => ~Attempted(hand[k])'
    BY <1>8, <2>3
  <2> QED
    BY <2>2, <2>4 DEF FlowInv, HeldOnce, Takes
<1>14. HandIsNext'
  <2> SUFFICES ASSUME NEW k \in Loop, NEW i \in 1..Len(tried[k]),
                      NEW p \in 1..Len(queued), NEW q \in 1..Len(queued),
                      queued[p] = tried[k][i], queued[q] = hand'[k]
               PROVE  p < q
    BY DEF HandIsNext, Takes
  <2>1. CASE k # l
    BY <1>7, <2>1 DEF FlowInv, HandIsNext
  <2>2. CASE k = l
    <3>1. q = Taken + 1
      BY <1>5, <1>7, <2>2 DEF FlowInv, QueuedOnce
    <3>2. Held(tried[k][i]) /\ tried[k][i] \in Msg
      BY FlowTypes DEF Held, Attempted, FlowInv
    <3>3. PICK r \in 1..Taken : queued[r] = tried[k][i]
      BY <3>2 DEF FlowInv, TakenIsHeld
    <3>4. r \in 1..Len(queued)
      BY <1>1
    <3>5. p = r
      BY <3>3, <3>4 DEF FlowInv, QueuedOnce
    <3> QED
      BY <1>1, <3>1, <3>5
  <2> QED
    BY <2>1, <2>2
<1>15. InOrder'
  BY DEF InOrder, Takes
<1> QED
  BY <1>10, <1>11, <1>12, <1>13, <1>14, <1>15 DEF FlowInv

\* No message is at two places of what the goroutines have published.
LEMMA TriedOnce ==
    ASSUME HeldOnce, NEW k \in Loop, NEW l \in Loop,
           NEW i \in 1..Len(tried[k]), NEW j \in 1..Len(tried[l]),
           tried[k][i] = tried[l][j]
    PROVE  k = l /\ i = j
BY DEF HeldOnce

\* A publish moves the message from the goroutine's hand to the end of what it
\* has published.
LEMMA GiveFlow ==
    ASSUME TypeInv, TypeInv', FlowInv, InOrder, NEW l \in Loop, Gives(l)
    PROVE  FlowInv' /\ InOrder'
<1>1. PICK x \in Msg : x = hand[l]
  BY DEF Gives, TypeInv, TypeOK
<1>2. PICK n \in Nat : n = Len(tried[l])
  BY FlowTypes DEF FlowInv
<1>3. /\ Len(tried'[l]) = n + 1 /\ tried'[l][n + 1] = x
      /\ \A i \in 1..n : tried'[l][i] = tried[l][i]
      /\ DOMAIN tried'[l] = 1..(n + 1) /\ DOMAIN tried[l] = 1..n
      /\ \A k \in Loop : k # l => tried'[k] = tried[k]
  BY <1>1, <1>2, AppendProperties DEF Gives, TypeInv, TypeOK
<1>4. /\ hand'[l] = NoMsg /\ \A k \in Loop : k # l => hand'[k] = hand[k]
  BY DEF Gives, TypeInv, TypeOK
<1>5. \A m : Attempted(m)' <=> Attempted(m) \/ m = x
  BY <1>1, AttemptedGrows
<1>6. \A m \in Msg : Held(m)' <=> Held(m)
  BY <1>1, <1>4, <1>5, ProducerAssumption DEF Held
<1>7. Taken' = Taken /\ queued' = queued /\ msgCh' = msgCh
  BY DEF Taken, Gives
<1>8. ~Attempted(x) /\ x # NoMsg
  BY <1>1, ProducerAssumption DEF FlowInv, HeldOnce
<1>9. \A k \in Loop : \A i \in 1..Len(tried[k]) : tried[k][i] # x
  BY <1>8, FlowTypes DEF Attempted, FlowInv
<1>10. \A i \in 1..(n + 1) : i \in 1..n \/ i = n + 1
  BY <1>2
<1>11. QueueIsTail' /\ QueuedOnce'
  BY <1>7 DEF FlowInv, QueueIsTail, QueuedOnce, Gives
<1>12. TakenIsHeld'
  <2>1. \A p \in 1..Taken : queued[p] \in Msg
    BY FlowTypes DEF FlowInv
  <2>2. ASSUME NEW p \in 1..Taken PROVE Held(queued[p])'
    <3>1. Held(queued[p])
      BY DEF FlowInv, TakenIsHeld
    <3>2. PICK m \in Msg : m = queued[p]
      BY <2>1
    <3>3. Held(m)'
      BY <1>6, <3>1, <3>2
    <3> QED
      BY <1>7, <3>2, <3>3
  <2> QED
    BY <1>6, <1>7, <2>2 DEF FlowInv, TakenIsHeld
<1>13. HeldOnce'
  <2>1. \A j, k \in Loop : hand'[j] = hand'[k] /\ hand'[k] # NoMsg => j = k
    BY <1>4 DEF FlowInv, HeldOnce
  <2>2. ASSUME NEW k \in Loop, hand'[k] # NoMsg PROVE ~Attempted(hand[k])'
    <3>1. k # l /\ hand'[k] = hand[k] /\ hand[k] # NoMsg
      BY <1>4, <2>2
    <3>2. ~Attempted(hand[k]) /\ hand[k] # x
      BY <1>1, <3>1 DEF FlowInv, HeldOnce
    <3>3. PICK m : m = hand[k]
      OBVIOUS
    <3>4. ~Attempted(m)'
      BY <1>5, <3>2, <3>3
    <3> QED
      BY <3>1, <3>3, <3>4
  <2>3. ASSUME NEW j \in Loop, NEW k \in Loop,
               NEW a \in 1..Len(tried'[j]), NEW b \in 1..Len(tried'[k]),
               tried'[j][a] = tried'[k][b]
        PROVE  j = k /\ a = b
    <3>1. CASE (j = l /\ a = n + 1) /\ (k = l /\ b = n + 1)
      BY <3>1
    <3>2. CASE (j = l /\ a = n + 1) /\ ~(k = l /\ b = n + 1)
      <4>1. b \in 1..Len(tried[k]) /\ tried'[k][b] = tried[k][b]
        BY <1>2, <1>3, <1>10, <3>2
      <4> QED
        BY <1>3, <1>9, <2>3, <3>2, <4>1
    <3>3. CASE ~(j = l /\ a = n + 1) /\ (k = l /\ b = n + 1)
      <4>1. a \in 1..Len(tried[j]) /\ tried'[j][a] = tried[j][a]
        BY <1>2, <1>3, <1>10, <3>3
      <4> QED
        BY <1>3, <1>9, <2>3, <3>3, <4>1
    <3>4. CASE ~(j = l /\ a = n + 1) /\ ~(k = l /\ b = n + 1)
      <4>1. a \in 1..Len(tried[j]) /\ tried'[j][a] = tried[j][a]
        BY <1>2, <1>3, <1>10, <3>4
      <4>2. b \in 1..Len(tried[k]) /\ tried'[k][b] = tried[k][b]
        BY <1>2, <1>3, <1>10, <3>4
      <4>3. tried[j][a] = tried[k][b]
        BY <2>3, <4>1, <4>2
      <4>4. HeldOnce
        BY DEF FlowInv
      <4> QED
        BY <4>1, <4>2, <4>3, <4>4, TriedOnce
    <3> QED
      BY <3>1, <3>2, <3>3, <3>4
  <2> QED
    BY <2>1, <2>2, <2>3 DEF HeldOnce
<1>14. HandIsNext'
  <2> SUFFICES ASSUME NEW k \in Loop, NEW i \in 1..Len(tried'[k]),
                      NEW p \in 1..Len(queued), NEW q \in 1..Len(queued),
                      queued[p] = tried'[k][i], queued[q] = hand'[k]
               PROVE  p < q
    BY <1>7 DEF HandIsNext
  <2>1. queued[q] # NoMsg
    BY FlowTypes, ProducerAssumption DEF FlowInv
  <2>2. k # l
    BY <1>4, <2>1
  <2> QED
    BY <1>3, <1>4, <2>2 DEF FlowInv, HandIsNext
<1>15. InOrder'
  <2> SUFFICES ASSUME NEW k \in Loop, NEW i \in DOMAIN tried'[k], NEW j \in DOMAIN tried'[k],
                      NEW p \in DOMAIN queued, NEW q \in DOMAIN queued, i < j,
                      queued[p] = tried'[k][i], queued[q] = tried'[k][j]
               PROVE  p < q
    BY <1>7 DEF InOrder
  <2>1. CASE k # l
    BY <1>3, <2>1 DEF InOrder
  <2>2. CASE k = l /\ j = n + 1
    <3>1. i \in 1..n
      BY <1>2, <1>3, <2>2
    <3>2. queued[p] = tried[l][i] /\ queued[q] = hand[l]
      BY <1>1, <1>3, <2>2, <3>1
    <3>3. p \in 1..Len(queued) /\ q \in 1..Len(queued)
      BY FlowTypes DEF FlowInv
    <3> QED
      BY <1>2, <3>1, <3>2, <3>3 DEF FlowInv, HandIsNext
  <2>3. CASE k = l /\ j # n + 1
    <3>1. i \in 1..n /\ j \in 1..n
      BY <1>2, <1>3, <2>3
    <3>2. queued[p] = tried[l][i] /\ queued[q] = tried[l][j]
      BY <1>3, <2>3, <3>1
    <3> QED
      BY <1>3, <3>1, <3>2 DEF InOrder
  <2> QED
    BY <2>1, <2>2, <2>3
<1> QED
  BY <1>11, <1>12, <1>13, <1>14, <1>15 DEF FlowInv

LEMMA FlowStep ==
    TypeInv /\ TypeInv' /\ FlowInv /\ InOrder /\ [Next]_vars => FlowInv' /\ InOrder'
<1> SUFFICES ASSUME TypeInv, TypeInv', FlowInv, InOrder, [Next]_vars
             PROVE  FlowInv' /\ InOrder'
  OBVIOUS
<1>1. CASE MovesNone
  <2>1. QueueIsTail' /\ QueuedOnce'
    BY <1>1 DEF MovesNone, FlowInv, QueueIsTail, QueuedOnce, Taken
  <2>2. TakenIsHeld' /\ HeldOnce'
    BY <1>1 DEF MovesNone, FlowInv, TakenIsHeld, HeldOnce, Taken, Held, Attempted
  <2>3. HandIsNext' /\ InOrder'
    BY <1>1 DEF MovesNone, FlowInv, HandIsNext, InOrder
  <2> QED
    BY <2>1, <2>2, <2>3 DEF FlowInv
<1> QED
  BY <1>1, FlowSteps, AcceptFlow, TakeFlow, GiveFlow

ProducerInv == TypeInv /\ FlowInv /\ InOrder

\* The inductive invariant that the theorems on the flow rest on.
LEMMA ProducerInvariant == Spec => []ProducerInv
<1>1. Init => ProducerInv
  BY TypeInit, FlowInit DEF ProducerInv
<1>2. ProducerInv /\ [Next]_vars => ProducerInv'
  BY TypeStep, FlowStep DEF ProducerInv
<1> QED
  BY <1>1, <1>2, PTL DEF Spec

\* Each goroutine publishes in the order in which Send accepted, through the
\* switch to the draining loop and whatever other goroutines take in between.
THEOREM PublishOrder == Spec => []InOrder
<1>1. ProducerInv => InOrder
  BY DEF ProducerInv
<1> QED
  BY <1>1, ProducerInvariant, PTL

\* An accepted message has exactly one place, any other message none.
LEMMA OnePlaceEach ==
    ASSUME TypeInv, FlowInv, NEW m \in Msg
    PROVE  Cardinality(Places(m)) = IF sendPc[m] = "queued" THEN 1 ELSE 0
<1> DEFINE InQueue == {"queue"} \X {i \in DOMAIN msgCh : msgCh[i] = m}
           InHand == {"hand"} \X {l \in Loop : hand[l] = m}
           At(l) == {l} \X {i \in DOMAIN tried[l] : tried[l][i] = m}
           InTried == {"tried"} \X UNION {At(l) : l \in Loop}
<1>1. Places(m) = InQueue \cup InHand \cup InTried
  BY DEF Places
<1>2. /\ DOMAIN msgCh = 1..Len(msgCh) /\ Len(msgCh) \in Nat
      /\ \A l \in Loop : DOMAIN tried[l] = 1..Len(tried[l])
      /\ Taken \in Nat /\ Taken + Len(msgCh) = Len(queued) /\ Len(queued) \in Nat
  BY FlowTypes DEF FlowInv
<1>3. ASSUME NEW i \in 1..Len(msgCh)
      PROVE  Taken + i \in 1..Len(queued) /\ queued[Taken + i] = msgCh[i]
  BY <1>2 DEF FlowInv, QueueIsTail
\* A message in the channel is not held, and the other way round.
<1>4. ASSUME NEW i \in 1..Len(msgCh), msgCh[i] = m PROVE ~Held(m)
  <2>1. ASSUME NEW p \in 1..Taken, queued[p] = m PROVE FALSE
    <3>1. p \in 1..Len(queued) /\ p # Taken + i
      BY <1>2
    <3> QED
      BY <1>3, <1>4, <2>1, <3>1 DEF FlowInv, QueuedOnce
  <2> QED
    BY <2>1 DEF FlowInv, TakenIsHeld
<1>5. ~Held(m) => InHand = {} /\ InTried = {}
  BY DEF Held, Attempted
<1>6. ASSUME NEW i \in 1..Len(msgCh), msgCh[i] = m PROVE InQueue = {<<"queue", i>>}
  <2>1. ASSUME NEW j \in 1..Len(msgCh), msgCh[j] = m PROVE j = i
    <3>1. Taken + j = Taken + i
      BY <1>3, <1>6, <2>1 DEF FlowInv, QueuedOnce
    <3> QED
      BY <1>2, <3>1
  <2>2. {j \in DOMAIN msgCh : msgCh[j] = m} = {i}
    BY <1>2, <1>6, <2>1
  <2> QED
    BY <2>2
<1>7. ASSUME NEW l \in Loop, hand[l] = m
      PROVE  InHand = {<<"hand", l>>} /\ InTried = {}
  <2>1. m # NoMsg
    BY ProducerAssumption
  <2>2. {k \in Loop : hand[k] = m} = {l}
    BY <1>7, <2>1 DEF FlowInv, HeldOnce
  <2>3. ~Attempted(m)
    BY <1>7, <2>1 DEF FlowInv, HeldOnce
  <2>4. InTried = {}
    BY <2>3 DEF Attempted
  <2> QED
    BY <2>2, <2>4
<1>8. ASSUME NEW l \in Loop, NEW i \in 1..Len(tried[l]), tried[l][i] = m
      PROVE  InTried = {<<"tried", <<l, i>>>>} /\ InHand = {}
  <2>1. Attempted(m)
    BY <1>2, <1>8 DEF Attempted
  <2>2. InHand = {}
    BY <2>1, ProducerAssumption DEF FlowInv, HeldOnce
  <2>3. \A k \in Loop : \A j \in 1..Len(tried[k]) : tried[k][j] = m => k = l /\ j = i
    BY <1>8 DEF FlowInv, HeldOnce
  <2>4. \A k \in Loop : k # l => At(k) = {}
    BY <1>2, <2>3
  <2>5. At(l) = {<<l, i>>}
    <3>1. {j \in DOMAIN tried[l] : tried[l][j] = m} = {i}
      BY <1>2, <1>8, <2>3
    <3> QED
      BY <3>1
  <2> HIDE DEF At
  <2>6. UNION {At(k) : k \in Loop} = {<<l, i>>}
    BY <2>4, <2>5
  <2> QED
    BY <2>2, <2>6
<1>9. ASSUME NEW x, Places(m) = {x} PROVE Cardinality(Places(m)) = 1
  BY <1>9, FS_Singleton
<1>10. sendPc[m] = "queued" <=> \E p \in 1..Len(queued) : queued[p] = m
  BY DEF FlowInv, QueuedOnce
<1>11. CASE sendPc[m] = "queued"
  <2>1. PICK p \in 1..Len(queued) : queued[p] = m
    BY <1>10, <1>11
  <2>2. CASE p <= Taken
    <3>1. Held(m)
      BY <1>2, <2>1, <2>2 DEF FlowInv, TakenIsHeld
    <3>2. InQueue = {}
      BY <1>2, <1>4, <3>1
    <3>3. CASE \E l \in Loop : hand[l] = m
      <4>1. PICK l \in Loop : hand[l] = m
        BY <3>3
      <4> HIDE DEF InQueue, InHand, InTried
      <4> QED
        BY <1>1, <1>7, <1>9, <1>11, <3>2, <4>1
    <3>4. CASE Attempted(m)
      <4>1. PICK l \in Loop : \E i \in 1..Len(tried[l]) : tried[l][i] = m
        BY <1>2, <3>4 DEF Attempted
      <4>2. PICK i \in 1..Len(tried[l]) : tried[l][i] = m
        BY <4>1
      <4> HIDE DEF InQueue, InHand, InTried
      <4> QED
        BY <1>1, <1>8, <1>9, <1>11, <3>2, <4>2
    <3> QED
      BY <3>1, <3>3, <3>4 DEF Held
  <2>3. CASE ~(p <= Taken)
    <3>1. p - Taken \in 1..Len(msgCh) /\ Taken + (p - Taken) = p
      BY <1>2, <2>3
    <3>2. msgCh[p - Taken] = m
      BY <1>3, <2>1, <3>1
    <3>3. ~Held(m) /\ InQueue = {<<"queue", p - Taken>>}
      BY <1>4, <1>6, <3>1, <3>2
    <3> HIDE DEF InQueue, InHand, InTried
    <3> QED
      BY <1>1, <1>5, <1>9, <1>11, <3>3
  <2> QED
    BY <2>2, <2>3
<1>12. CASE sendPc[m] # "queued"
  <2>1. \A p \in 1..Len(queued) : queued[p] # m
    BY <1>10, <1>12
  <2>2. InQueue = {}
    BY <1>2, <1>3, <2>1
  <2>3. ~Held(m)
    <3>1. 1..Taken \subseteq 1..Len(queued)
      BY <1>2
    <3> QED
      BY <2>1, <3>1 DEF FlowInv, TakenIsHeld
  <2>4. Places(m) = {}
    BY <1>1, <1>5, <2>2, <2>3
  <2> QED
    BY <1>12, <2>4, FS_EmptySet
<1> QED
  BY <1>11, <1>12

\* No message is lost or published twice, in every interleaving of any number of
\* goroutines.
THEOREM NothingLost == Spec => []Conservation
<1>1. ProducerInv => Conservation
  BY OnePlaceEach DEF ProducerInv, Conservation
<1> QED
  BY <1>1, ProducerInvariant, PTL

-----------------------------------------------------------------------------
(* What Stop has drained when it returns.                                  *)

Past == {"closed", "waiting", "woken", "returned"}

InChannel(m) == \E i \in 1..Len(msgCh) : msgCh[i] = m

\* What is accepted stays accepted, what left the channel does not come back
\* and what was given to the broker stays given.
LEMMA FlowForward ==
    ASSUME TypeInv, TypeInv', [Next]_vars, NEW m \in Msg
    PROVE  /\ sendPc[m] = "queued" => sendPc'[m] = "queued"
           /\ sendPc[m] = "queued" /\ InChannel(m)' => InChannel(m)
           /\ Attempted(m) => Attempted(m)'
<1>0. msgCh \in Seq(Msg) /\ Len(msgCh) \in Nat
  BY DEF TypeInv, TypeOK
<1>1. ASSUME NEW x \in Msg, Accepts(x), sendPc[m] = "queued", InChannel(m)'
      PROVE  InChannel(m)
  <2>1. m # x
    BY <1>1 DEF Accepts
  <2>2. PICK i \in 1..Len(msgCh') : msgCh'[i] = m
    BY <1>1 DEF InChannel
  <2>3. /\ Len(msgCh') = Len(msgCh) + 1 /\ msgCh'[Len(msgCh) + 1] = x
        /\ \A j \in 1..Len(msgCh) : msgCh'[j] = msgCh[j]
    BY <1>0, <1>1, AppendProperties DEF Accepts
  <2>4. i \in 1..Len(msgCh)
    BY <1>0, <2>1, <2>2, <2>3
  <2> QED
    BY <2>2, <2>3, <2>4 DEF InChannel
<1>2. ASSUME NEW l \in Loop, Takes(l), InChannel(m)' PROVE InChannel(m)
  <2>1. PICK i \in 1..Len(msgCh') : msgCh'[i] = m
    BY <1>2 DEF InChannel
  <2>2. /\ Len(msgCh') = Len(msgCh) - 1
        /\ \A j \in 1..(Len(msgCh) - 1) : msgCh'[j] = msgCh[j + 1]
    BY <1>0, <1>2, HeadTailProperties DEF Takes
  <2>3. i + 1 \in 1..Len(msgCh) /\ msgCh[i + 1] = m
    BY <1>0, <2>1, <2>2
  <2> QED
    BY <2>3 DEF InChannel
<1>3. ASSUME UNCHANGED msgCh, InChannel(m)' PROVE InChannel(m)
  BY <1>3 DEF InChannel
<1>4. sendPc[m] = "queued" => sendPc'[m] = "queued"
  BY FlowSteps DEF Accepts, Takes, Gives, MovesNone, TypeInv, TypeOK
<1>5. Attempted(m) => Attempted(m)'
  BY FlowSteps, AttemptedKept, AttemptedGrows DEF Accepts, Takes, MovesNone
<1>6. sendPc[m] = "queued" /\ InChannel(m)' => InChannel(m)
  BY <1>1, <1>2, <1>3, FlowSteps DEF Gives, MovesNone
<1> QED
  BY <1>4, <1>5, <1>6

\* How far a goroutine can get in a step: it starts to drain only after stopCh
\* was closed, and ends only when cancelled or with the channel empty.
LoopForward(l) ==
    /\ loopPc[l] \in LivePc \cup {"done"} => loopPc'[l] \in LivePc \cup {"done"}
    /\ loopPc[l] \notin {"off", "ignored"} => loopPc'[l] \notin {"off", "ignored"}
    /\ loopPc'[l] \in {"drain", "drainPublish"} =>
           loopPc[l] \in {"drain", "drainPublish"} \/ stopClosed
    /\ loopPc'[l] = "done" =>
           \/ loopPc[l] = "done"
           \/ ctxDone[l]
           \/ loopPc[l] = "drain" /\ Len(msgCh') = 0
    /\ ctxDone[l] => ctxDone'[l]

LEMMA LoopMoves ==
    ASSUME TypeInv, [Next]_vars, NEW l \in Loop
    PROVE  LoopForward(l)
<1> USE DEF chans, counters, history
<1>0. ASSUME UNCHANGED <<loopPc, ctxDone>> PROVE LoopForward(l)
  BY <1>0 DEF LoopForward
<1>1. ASSUME NEW k \in Loop, StartSwap(k) PROVE LoopForward(l)
  BY <1>1 DEF StartSwap, LoopForward, TypeInv, TypeOK, LivePc
<1>2. ASSUME NEW k \in Loop, Cancel(k) PROVE LoopForward(l)
  BY <1>2 DEF Cancel, LoopForward, TypeInv, TypeOK
<1>3. ASSUME NEW k \in Loop, StartGo(k) \/ LoopReport(k) \/ LoopStop(k)
      PROVE  LoopForward(l)
  BY <1>3 DEF StartGo, LoopReport, LoopStop, LoopForward, TypeInv, TypeOK, LivePc
<1>4. ASSUME NEW k \in Loop, LoopReceive(k) \/ DrainReceive(k) PROVE LoopForward(l)
  BY <1>4 DEF LoopReceive, DrainReceive, Receive, LoopForward, TypeInv, TypeOK, LivePc
<1>5. ASSUME NEW k \in Loop, NEW ok \in BOOLEAN, LoopPublish(k, ok) \/ DrainPublish(k, ok)
      PROVE  LoopForward(l)
  BY <1>5 DEF LoopPublish, DrainPublish, Published, LoopForward, TypeInv, TypeOK, LivePc
<1>6. ASSUME NEW k \in Loop, DrainDone(k) \/ LoopCancelled(k) PROVE LoopForward(l)
  <2>1. DrainDone(k) => Len(msgCh') = 0
    BY DEF DrainDone, Exit
  <2> QED
    BY <1>6, <2>1 DEF DrainDone, LoopCancelled, Exit, LoopForward, TypeInv, TypeOK, LivePc
<1>7. ASSUME NEW m \in Msg, SendCheck(m) \/ SendOffer(m) PROVE LoopForward(l)
  BY <1>0, <1>7 DEF SendCheck, SendOffer
<1>8. ASSUME NEW s \in Stopper, StopSwap(s) \/ StopStep(s) PROVE LoopForward(l)
  BY <1>0, <1>8 DEF StopSwap, StopStep, StopClose, StopWait, StopReturn
<1>9. CASE TakeError \/ UNCHANGED vars
  BY <1>0, <1>9 DEF TakeError, vars
<1> QED
  BY <1>1, <1>2, <1>3, <1>4, <1>5, <1>6, <1>7, <1>8, <1>9 DEF Next, LoopStep

\* How far a Stop call can get in a step: only the one that closes stopCh gets
\* past the close, and it returns with the WaitGroup at zero.
StopForward(s) ==
    /\ stopClosed => stopClosed'
    /\ stopPc'[s] \in Past =>
           \/ stopPc[s] \in Past
           \/ stopPc[s] = "swapped" /\ ~stopClosed /\ stopClosed'
    /\ stopPc'[s] = "swapped" => stopPc[s] = "swapped" \/ StopSwap(s)
    /\ pending'[s] = pending[s] \/ StopSwap(s)
    /\ stopPc'[s] = "returned" =>
           \/ stopPc[s] = "returned"
           \/ /\ stopPc[s] \in Past
              /\ wg = 0
              /\ UNCHANGED <<loopPc, ctxDone, tried, pending>>

LEMMA StopMoves ==
    ASSUME TypeInv, [Next]_vars, NEW s \in Stopper
    PROVE  StopForward(s)
<1> USE DEF chans, counters, history
<1>0. ASSUME UNCHANGED <<stopPc, stopClosed, pending>> PROVE StopForward(s)
  BY <1>0 DEF StopForward
<1>1. ASSUME NEW t \in Stopper, StopSwap(t) PROVE StopForward(s)
  <2>1. CASE t = s
    BY <1>1, <2>1 DEF StopSwap, StopForward, Past, TypeInv, TypeOK
  <2>2. CASE t # s
    <3>1. stopPc'[s] = stopPc[s] /\ pending'[s] = pending[s] /\ stopClosed' = stopClosed
      BY <1>1, <2>2 DEF StopSwap, TypeInv, TypeOK
    <3> QED
      BY <3>1 DEF StopForward
  <2> QED
    BY <2>1, <2>2
<1>2. ASSUME NEW t \in Stopper, StopClose(t) PROVE StopForward(s)
  BY <1>2 DEF StopClose, StopForward, Past, TypeInv, TypeOK
<1>3. ASSUME NEW t \in Stopper, StopWait(t) PROVE StopForward(s)
  BY <1>3 DEF StopWait, StopForward, Past, TypeInv, TypeOK
<1>4. ASSUME NEW t \in Stopper, StopReturn(t) PROVE StopForward(s)
  BY <1>4 DEF StopReturn, StopForward, Past, TypeInv, TypeOK
<1>5. ASSUME NEW l \in Loop, DrainDone(l) \/ LoopCancelled(l) PROVE StopForward(s)
  BY <1>5 DEF DrainDone, LoopCancelled, Exit, StopForward, Past, TypeInv, TypeOK
<1>6. ASSUME NEW l \in Loop,
             \/ StartSwap(l) \/ Cancel(l) \/ StartGo(l) \/ LoopReport(l) \/ LoopStop(l)
             \/ LoopReceive(l) \/ DrainReceive(l)
      PROVE  StopForward(s)
  BY <1>0, <1>6 DEF StartSwap, Cancel, StartGo, LoopReport, LoopStop, LoopReceive,
                    DrainReceive, Receive
<1>7. ASSUME NEW l \in Loop, NEW ok \in BOOLEAN, LoopPublish(l, ok) \/ DrainPublish(l, ok)
      PROVE  StopForward(s)
  BY <1>0, <1>7 DEF LoopPublish, DrainPublish, Published
<1>8. ASSUME NEW m \in Msg, SendCheck(m) \/ SendOffer(m) PROVE StopForward(s)
  BY <1>0, <1>8 DEF SendCheck, SendOffer
<1>9. CASE TakeError \/ UNCHANGED vars
  BY <1>0, <1>9 DEF TakeError, vars
<1> QED
  BY <1>1, <1>2, <1>3, <1>4, <1>5, <1>6, <1>7, <1>8, <1>9 DEF Next, LoopStep, StopStep

LEMMA StopInit == Init => StopInv /\ StopDrainsPending
<1> SUFFICES ASSUME Init PROVE StopInv /\ StopDrainsPending
  OBVIOUS
<1>1. BeforeClose /\ RunningStarted
  BY DEF Init, BeforeClose, RunningStarted
<1>2. PendingDrained /\ PendingQueued
  BY DEF Init, PendingDrained, PendingQueued, Stopping
<1>3. StopDrainsPending
  BY DEF Init, StopDrainsPending
<1> QED
  BY <1>1, <1>2, <1>3 DEF StopInv

\* A goroutine that drains for a Stop call goes on doing so: it ends only when
\* the channel is empty.
LEMMA DrainsKept ==
    ASSUME TypeInv, TypeInv', [Next]_vars, PendingQueued, NEW s \in Stopper,
           NEW l \in Loop, Drains(s, l), pending'[s] = pending[s], ~ctxDone[l]
    PROVE  Drains(s, l)'
<1>1. loopPc'[l] \in LivePc \cup {"done"}
  BY LoopMoves DEF LoopForward, Drains
<1>2. ASSUME loopPc'[l] = "done", NEW i \in 1..Len(msgCh'), msgCh'[i] \in pending[s]
      PROVE  FALSE
  <2>1. PICK m \in Msg : m = msgCh'[i]
    BY DEF TypeInv, TypeOK
  <2>2. InChannel(m)' /\ m \in pending[s] /\ sendPc[m] = "queued"
    BY <1>2, <2>1 DEF InChannel, PendingQueued
  <2>3. InChannel(m)
    BY <2>2, FlowForward
  <2>4. loopPc[l] # "done"
    BY <2>2, <2>3 DEF Drains, InChannel
  <2>5. Len(msgCh') = 0
    BY <1>2, <2>4, LoopMoves DEF LoopForward
  <2> QED
    BY <1>2, <2>5
<1> QED
  BY <1>1, <1>2 DEF Drains

LEMMA StopInvStep ==
    ASSUME TypeInv, TypeInv', FlowInv, StopInv, [Next]_vars
    PROVE  StopInv'
<1>1. BeforeClose'
  <2> SUFFICES ASSUME ~stopClosed' PROVE BeforeClose'
    BY DEF BeforeClose
  <2>0. CASE Stopper = {}
    <3>1. stopClosed' = stopClosed
      BY <2>0 DEF Next, vars, chans, StartSwap, Cancel, LoopStep, StartGo, LoopReceive, DrainReceive,
                  Receive, LoopPublish, DrainPublish, Published, LoopReport, LoopStop,
                  DrainDone, LoopCancelled, Exit, SendCheck, SendOffer, TakeError
    <3> QED
      BY <2>0, <3>1, LoopMoves DEF StopInv, BeforeClose, LoopForward
  <2>1. CASE Stopper # {}
    <3>1. ~stopClosed
      BY <2>1, StopMoves DEF StopForward
    <3>2. \A s \in Stopper : stopPc'[s] \notin Past
      BY <3>1, StopMoves DEF StopForward, StopInv, BeforeClose, Past
    <3>3. \A l \in Loop : /\ loopPc'[l] \notin {"drain", "drainPublish"}
                          /\ loopPc'[l] = "done" => ctxDone'[l]
      BY <3>1, LoopMoves DEF LoopForward, StopInv, BeforeClose
    <3> QED
      BY <3>2, <3>3 DEF BeforeClose, Past
  <2> QED
    BY <2>0, <2>1
<1>2. RunningStarted'
  <2>1. ASSUME NEW l \in Loop, StartSwap(l) PROVE RunningStarted'
    <3>1. CASE running
      <4>1. PICK k \in Loop : loopPc[k] \notin {"off", "ignored"}
        BY <3>1 DEF StopInv, RunningStarted
      <4>2. loopPc'[k] \notin {"off", "ignored"}
        BY <4>1, LoopMoves DEF LoopForward
      <4> QED
        BY <4>2 DEF RunningStarted
    <3>2. CASE ~running
      <4>1. loopPc'[l] = "starting"
        BY <2>1, <3>2 DEF StartSwap, TypeInv, TypeOK
      <4> QED
        BY <4>1 DEF RunningStarted
    <3> QED
      BY <3>1, <3>2
  <2>2. (\A l \in Loop : ~StartSwap(l)) => (running' => running)
    BY DEF Next, vars, Cancel, LoopStep, StartGo, LoopReceive, DrainReceive, Receive,
           LoopPublish, DrainPublish, Published, LoopReport, LoopStop, DrainDone,
           LoopCancelled, Exit, SendCheck, SendOffer, TakeError, StopSwap, StopStep,
           StopClose, StopWait, StopReturn
  <2>3. CASE running' => running
    <3> SUFFICES ASSUME running' PROVE RunningStarted'
      BY DEF RunningStarted
    <3>1. PICK k \in Loop : loopPc[k] \notin {"off", "ignored"}
      BY <2>3 DEF StopInv, RunningStarted
    <3>2. loopPc'[k] \notin {"off", "ignored"}
      BY <3>1, LoopMoves DEF LoopForward
    <3> QED
      BY <3>2 DEF RunningStarted
  <2> QED
    BY <2>1, <2>2, <2>3
<1>3. PendingQueued'
  <2> SUFFICES ASSUME NEW s \in Stopper, NEW m \in pending'[s]
               PROVE  sendPc'[m] = "queued"
    BY DEF PendingQueued
  <2>1. m \in Msg
    BY DEF TypeInv, TypeOK
  <2>2. CASE pending'[s] = pending[s]
    BY <2>1, <2>2, FlowForward DEF StopInv, PendingQueued
  <2>3. CASE StopSwap(s)
    <3>1. \E i \in 1..Len(queued) : queued[i] = m
      BY <2>3 DEF StopSwap, TypeInv, TypeOK
    <3>2. sendPc[m] = "queued"
      BY <2>1, <3>1 DEF FlowInv, QueuedOnce
    <3> QED
      BY <2>1, <3>2, FlowForward
  <2> QED
    BY <2>2, <2>3, StopMoves DEF StopForward
<1>4. PendingDrained'
  <2> SUFFICES ASSUME \A l \in Loop : ~ctxDone'[l], NEW s \in Stopper, Stopping(s)',
                      pending'[s] # {}
               PROVE  \E l \in Loop : Drains(s, l)'
    BY DEF PendingDrained
  <2>1. \A l \in Loop : ~ctxDone[l]
    BY LoopMoves DEF LoopForward
  <2>2. CASE StopSwap(s)
    <3>1. /\ running /\ ~stopClosed /\ (\A l \in Loop : loopPc[l] # "starting")
          /\ loopPc' = loopPc
      BY <2>2 DEF StopSwap, Stopping, TypeInv, TypeOK, chans
    <3>2. PICK l \in Loop : loopPc[l] \notin {"off", "ignored"}
      BY <3>1 DEF StopInv, RunningStarted
    <3>3. loopPc[l] # "done"
      BY <2>1, <3>1 DEF StopInv, BeforeClose
    <3>4. loopPc[l] \in LivePc
      BY <3>1, <3>2, <3>3 DEF TypeInv, TypeOK, LoopPc, LivePc
    <3>5. Drains(s, l)'
      BY <3>1, <3>3, <3>4 DEF Drains
    <3> QED
      BY <3>5
  <2>3. CASE ~StopSwap(s)
    <3>1. Stopping(s) /\ pending'[s] = pending[s]
      BY <2>3, StopMoves DEF StopForward, Stopping, Past
    <3>2. PICK l \in Loop : Drains(s, l)
      BY <2>1, <3>1 DEF StopInv, PendingDrained
    <3>3. Drains(s, l)'
      BY <2>1, <3>1, <3>2, DrainsKept DEF StopInv
    <3> QED
      BY <3>3
  <2> QED
    BY <2>2, <2>3
<1> QED
  BY <1>1, <1>2, <1>3, <1>4 DEF StopInv

\* With the WaitGroup at zero nothing is in a goroutine's hands: what left the
\* channel was given to the broker.
LEMMA ZeroMeansGiven ==
    ASSUME TypeInv, FlowInv, wg = 0, NEW m \in Msg, sendPc[m] = "queued", ~InChannel(m)
    PROVE  Attempted(m)
<1>1. Live = {}
  BY FS_EmptySet DEF TypeInv, Counted
<1>2. \A l \in Loop : hand[l] = NoMsg
  BY <1>1 DEF TypeInv, HandHeld, Live, LivePc
<1>3. PICK p \in 1..Len(queued) : queued[p] = m
  BY DEF FlowInv, QueuedOnce
<1>4. /\ Len(queued) \in Nat /\ Len(msgCh) \in Nat /\ Taken \in Nat
      /\ Taken + Len(msgCh) = Len(queued)
  BY FlowTypes DEF FlowInv
<1>5. p <= Taken
  <2> SUFFICES ASSUME ~(p <= Taken) PROVE FALSE
    OBVIOUS
  <2>1. p - Taken \in 1..Len(msgCh) /\ Taken + (p - Taken) = p
    BY <1>4
  <2>2. msgCh[p - Taken] = m
    BY <1>3, <2>1 DEF FlowInv, QueueIsTail
  <2> QED
    BY <2>1, <2>2 DEF InChannel
<1>6. Held(m)
  <2>1. p \in 1..Taken
    BY <1>4, <1>5
  <2> QED
    BY <1>3, <2>1 DEF FlowInv, TakenIsHeld
<1> QED
  BY <1>2, <1>6, ProducerAssumption DEF Held

LEMMA StopDrainsStep ==
    ASSUME TypeInv, TypeInv', FlowInv, StopInv, StopDrainsPending, [Next]_vars
    PROVE  StopDrainsPending'
<1> SUFFICES ASSUME NEW s \in Stopper, stopPc'[s] = "returned",
                    \A l \in Loop : ~ctxDone'[l], NEW m \in pending'[s]
             PROVE  Attempted(m)'
  BY DEF StopDrainsPending
<1>1. \A l \in Loop : ~ctxDone[l]
  BY LoopMoves DEF LoopForward
<1>2. m \in Msg
  BY DEF TypeInv, TypeOK
<1>3. pending'[s] = pending[s]
  BY StopMoves DEF StopForward, StopSwap, TypeInv, TypeOK
<1>4. CASE stopPc[s] = "returned"
  <2>1. Attempted(m)
    BY <1>1, <1>3, <1>4 DEF StopDrainsPending
  <2> QED
    BY <1>2, <2>1, FlowForward
<1>5. CASE stopPc[s] # "returned"
  <2>1. stopPc[s] \in Past /\ wg = 0
    BY <1>5, StopMoves DEF StopForward
  <2>2. PICK l \in Loop : Drains(s, l)
    BY <1>1, <1>3, <2>1 DEF StopInv, PendingDrained, Stopping, Past
  <2>3. loopPc[l] = "done"
    <3>1. Live = {}
      BY <2>1, FS_EmptySet DEF TypeInv, Counted
    <3> QED
      BY <2>2, <3>1 DEF Drains, Live
  <2>4. ~InChannel(m)
    BY <1>3, <2>2, <2>3 DEF Drains, InChannel
  <2>5. sendPc[m] = "queued"
    BY <1>3 DEF StopInv, PendingQueued
  <2>6. Attempted(m)
    BY <1>2, <2>1, <2>4, <2>5, ZeroMeansGiven
  <2> QED
    BY <1>2, <2>6, FlowForward
<1> QED
  BY <1>4, <1>5

\* When Stop returns, what was accepted before it began has been given to the
\* broker, unless a Start call was still in progress or a context cancelled.
THEOREM StopDrains == Spec => []StopDrainsPending
<1>1. Init => StopInv /\ StopDrainsPending
  BY StopInit
<1>2. /\ ProducerInv /\ ProducerInv' /\ StopInv /\ StopDrainsPending /\ [Next]_vars
      => StopInv' /\ StopDrainsPending'
  BY StopInvStep, StopDrainsStep DEF ProducerInv
<1> QED
  BY <1>1, <1>2, ProducerInvariant, PTL DEF Spec
=============================================================================
