------------------------- MODULE BatchConsumerProofs -------------------------
(***************************************************************************)
(* Proofs about BatchConsumer, for any number of Add, Start, Stop and      *)
(* Flush calls and every batch size: type correctness, that the batches    *)
(* are the stream of added messages, that no wake-up is lost and that Stop *)
(* leaves nothing behind that was added before it.                         *)
(***************************************************************************)
EXTENDS BatchConsumer, SequenceTheorems, TLAPS

\* No message is at two places of the sequence.
Distinct(q) == \A i, j \in 1..Len(q) : q[i] = q[j] => i = j

\* The elements of a sequence are what its places hold.
LEMMA ElemsIs ==
    ASSUME NEW q \in Seq(Msg)
    PROVE  /\ Elems(q) \subseteq Msg
           /\ \A x : x \in Elems(q) <=> \E i \in 1..Len(q) : q[i] = x
BY DEF Elems

LEMMA ElemsEmpty == Elems(<<>>) = {}
BY DEF Elems

\* A flush moves the elements of the buffer behind those taken before.
LEMMA ElemsConcat ==
    ASSUME NEW p \in Seq(Msg), NEW q \in Seq(Msg)
    PROVE  Elems(p \o q) = Elems(p) \cup Elems(q)
<1>1. /\ p \o q \in Seq(Msg) /\ Len(p) \in Nat /\ Len(q) \in Nat
      /\ Len(p \o q) = Len(p) + Len(q)
      /\ \A i \in 1..(Len(p) + Len(q)) :
             (p \o q)[i] = IF i <= Len(p) THEN p[i] ELSE q[i - Len(p)]
  BY ConcatProperties
<1>2. ASSUME NEW x \in Elems(p \o q) PROVE x \in Elems(p) \cup Elems(q)
  <2>1. PICK i \in 1..(Len(p) + Len(q)) : (p \o q)[i] = x
    BY <1>1, <1>2, ElemsIs
  <2>2. CASE i <= Len(p)
    BY <1>1, <2>1, <2>2, ElemsIs
  <2>3. CASE ~(i <= Len(p))
    <3>1. i - Len(p) \in 1..Len(q) /\ q[i - Len(p)] = x
      BY <1>1, <2>1, <2>3
    <3> QED
      BY <3>1, ElemsIs
  <2> QED
    BY <2>2, <2>3
<1>3. ASSUME NEW x \in Elems(p) PROVE x \in Elems(p \o q)
  <2>1. PICK i \in 1..Len(p) : p[i] = x
    BY <1>3, ElemsIs
  <2>2. i \in 1..(Len(p) + Len(q)) /\ (p \o q)[i] = x
    BY <1>1, <2>1
  <2> QED
    BY <1>1, <2>2, ElemsIs
<1>4. ASSUME NEW x \in Elems(q) PROVE x \in Elems(p \o q)
  <2>1. PICK i \in 1..Len(q) : q[i] = x
    BY <1>4, ElemsIs
  <2>2. /\ Len(p) + i \in 1..(Len(p) + Len(q)) /\ ~(Len(p) + i <= Len(p))
        /\ Len(p) + i - Len(p) = i
    BY <1>1
  <2>3. (p \o q)[Len(p) + i] = x
    BY <1>1, <2>1, <2>2
  <2> QED
    BY <1>1, <2>2, <2>3, ElemsIs
<1> QED
  BY <1>2, <1>3, <1>4

\* Add appends one element to the buffer and to the stream.
LEMMA ElemsAppend ==
    ASSUME NEW q \in Seq(Msg), NEW m \in Msg
    PROVE  Elems(Append(q, m)) = Elems(q) \cup {m}
<1>1. Append(q, m) = q \o <<m>> /\ <<m>> \in Seq(Msg)
  BY AppendIsConcat
<1>2. Elems(<<m>>) = {m}
  BY DEF Elems
<1> QED
  BY <1>1, <1>2, ElemsConcat

\* The stream stays free of repetitions when a new message is appended.
LEMMA DistinctAppend ==
    ASSUME NEW q \in Seq(Msg), NEW m \in Msg, Distinct(q), m \notin Elems(q)
    PROVE  Distinct(Append(q, m))
<1>1. /\ Len(q) \in Nat /\ Len(Append(q, m)) = Len(q) + 1
      /\ Append(q, m)[Len(q) + 1] = m
      /\ \A i \in 1..Len(q) : Append(q, m)[i] = q[i]
  OBVIOUS
<1>2. \A i \in 1..Len(q) : q[i] # m
  BY ElemsIs
<1>3. \A i \in 1..Len(Append(q, m)) : i \in 1..Len(q) \/ i = Len(q) + 1
  BY <1>1
<1> QED
  BY <1>1, <1>2, <1>3 DEF Distinct

\* Two parts of a stream without repetitions have no element in common.
LEMMA DistinctParts ==
    ASSUME NEW p \in Seq(Msg), NEW q \in Seq(Msg), Distinct(p \o q)
    PROVE  Elems(p) \cap Elems(q) = {}
<1>1. /\ Len(p) \in Nat /\ Len(q) \in Nat /\ Len(p \o q) = Len(p) + Len(q)
      /\ \A i \in 1..(Len(p) + Len(q)) :
             (p \o q)[i] = IF i <= Len(p) THEN p[i] ELSE q[i - Len(p)]
  BY ConcatProperties
<1>2. ASSUME NEW x \in Elems(p), x \in Elems(q) PROVE FALSE
  <2>1. PICK i \in 1..Len(p) : p[i] = x
    BY <1>2, ElemsIs
  <2>2. PICK j \in 1..Len(q) : q[j] = x
    BY <1>2, ElemsIs
  <2>3. /\ i \in 1..Len(p \o q) /\ Len(p) + j \in 1..Len(p \o q)
        /\ i # Len(p) + j
        /\ ~(Len(p) + j <= Len(p)) /\ Len(p) + j - Len(p) = j
    BY <1>1
  <2>4. (p \o q)[i] = x /\ (p \o q)[Len(p) + j] = x
    BY <1>1, <2>1, <2>2, <2>3
  <2> QED
    BY <2>3, <2>4 DEF Distinct
<1> QED
  BY <1>2

\* The rest of a stream without repetitions has none.
LEMMA DistinctRest ==
    ASSUME NEW p \in Seq(Msg), NEW q \in Seq(Msg), Distinct(p \o q)
    PROVE  Distinct(q)
<1>1. /\ Len(p) \in Nat /\ Len(q) \in Nat /\ Len(p \o q) = Len(p) + Len(q)
      /\ \A i \in 1..(Len(p) + Len(q)) :
             (p \o q)[i] = IF i <= Len(p) THEN p[i] ELSE q[i - Len(p)]
  BY ConcatProperties
<1>2. ASSUME NEW i \in 1..Len(q)
      PROVE  Len(p) + i \in 1..Len(p \o q) /\ (p \o q)[Len(p) + i] = q[i]
  <2>1. /\ Len(p) + i \in 1..(Len(p) + Len(q)) /\ ~(Len(p) + i <= Len(p))
        /\ Len(p) + i - Len(p) = i
    BY <1>1
  <2> QED
    BY <1>1, <2>1
<1>3. ASSUME NEW i \in 1..Len(q), NEW j \in 1..Len(q), q[i] = q[j] PROVE i = j
  <2>1. Len(p) + i = Len(p) + j
    BY <1>2, <1>3 DEF Distinct
  <2> QED
    BY <1>1, <2>1
<1> QED
  BY <1>3 DEF Distinct

-----------------------------------------------------------------------------
(* Types.                                                                  *)

\* Where a Flush goes on is a place of a program.
LEMMA FlushPlaces ==
    /\ After("flush") = "select" /\ After("handling") = "select"
    /\ After("lastFlush") = "done" /\ After("lastHandling") = "done"
    /\ Handling("flush") = "handling" /\ Handling("lastFlush") = "lastHandling"
BY DEF After, Handling

\* The state keeps its types; in particular flushCh never holds more than the
\* one signal it has room for.
THEOREM BatchTypes == Spec => []TypeOK
<1>1. Init => TypeOK
  <2>1. <<>> \in Seq(Msg)
    OBVIOUS
  <2> SUFFICES ASSUME Init PROVE TypeOK
    OBVIOUS
  <2>2. addPc \in [Msg -> AddPc] /\ pc \in [Actor -> Pc]
    BY DEF Init, AddPc, Pc
  <2>3. ctxDone \in [Loop -> BOOLEAN] /\ before \in [Stopper -> SUBSET Msg]
    BY DEF Init
  <2>4. /\ buffer \in Seq(Msg) /\ added \in Seq(Msg) /\ taken \in Seq(Msg)
        /\ hand \in [Actor -> Seq(Msg)] /\ flushCh \in 0..1
    BY <2>1 DEF Init
  <2>5. /\ stopClosed \in BOOLEAN /\ running \in BOOLEAN /\ panicked \in BOOLEAN
        /\ handled \subseteq Msg
    BY DEF Init
  <2> QED
    BY <2>2, <2>3, <2>4, <2>5, Zenon DEF TypeOK
<1>2. TypeOK /\ [Next]_vars => TypeOK'
  <2> SUFFICES ASSUME TypeOK, [Next]_vars PROVE TypeOK'
    OBVIOUS
  <2> USE DEF chan, history
  <2>1. ASSUME NEW m \in Msg, AddAppend(m) PROVE TypeOK'
    BY <2>1 DEF AddAppend, TypeOK, AddPc
  <2>2. ASSUME NEW m \in Msg, AddSignal(m) PROVE TypeOK'
    BY <2>2 DEF AddSignal, Signalled, TypeOK, AddPc
  <2>3. ASSUME NEW l \in Loop, Start(l) PROVE TypeOK'
    BY <2>3 DEF Start, TypeOK, Pc, Actor
  <2>4. ASSUME NEW l \in Loop, Cancel(l) PROVE TypeOK'
    BY <2>4 DEF Cancel, TypeOK
  <2>5. ASSUME NEW l \in Loop, LoopSelect(l) PROVE TypeOK'
    <3>1. CASE LoopSignal(l)
      BY <3>1 DEF LoopSignal, TypeOK, Pc, Actor
    <3>2. CASE LoopTick(l) \/ LoopStop(l) \/ LoopCancelled(l)
      BY <3>2 DEF LoopTick, LoopStop, LoopCancelled, TypeOK, Pc, Actor
    <3> QED
      BY <2>5, <3>1, <3>2 DEF LoopSelect
  <2>6. ASSUME NEW s \in Stopper, StopSwap(s) PROVE TypeOK'
    <3>1. Elems(added) \subseteq Msg
      BY ElemsIs DEF TypeOK
    <3> QED
      BY <2>6, <3>1 DEF StopSwap, TypeOK, Pc, Actor
  <2>7. ASSUME NEW s \in Stopper, StopClose(s) PROVE TypeOK'
    BY <2>7 DEF StopClose, TypeOK, Pc, Actor
  <2>8. ASSUME NEW f \in Flusher, UserFlush(f) PROVE TypeOK'
    BY <2>8 DEF UserFlush, TypeOK, Pc, Actor
  <2>9. ASSUME NEW a \in Actor, FlushTake(a) PROVE TypeOK'
    <3>1. After(pc[a]) \in Pc /\ Handling(pc[a]) \in Pc
      BY <2>9, FlushPlaces DEF FlushTake, Pc
    <3>2. taken \o buffer \in Seq(Msg) /\ <<>> \in Seq(Msg)
      BY ConcatProperties DEF TypeOK
    <3>3. CASE buffer = <<>>
      BY <2>9, <3>1, <3>2, <3>3 DEF FlushTake, TypeOK
    <3>4. CASE buffer # <<>>
      BY <2>9, <3>1, <3>2, <3>4 DEF FlushTake, Batch, TypeOK
    <3> QED
      BY <3>3, <3>4
  <2>10. ASSUME NEW a \in Actor, HandlerReturn(a) PROVE TypeOK'
    <3>1. After(pc[a]) \in Pc
      BY <2>10, FlushPlaces DEF HandlerReturn, Pc
    <3>2. Elems(hand[a]) \subseteq Msg /\ <<>> \in Seq(Msg)
      BY ElemsIs DEF TypeOK
    <3> QED
      BY <2>10, <3>1, <3>2 DEF HandlerReturn, TypeOK
  <2>11. CASE UNCHANGED vars
    BY <2>11 DEF vars, TypeOK
  <2> QED
    BY <2>1, <2>2, <2>3, <2>4, <2>5, <2>6, <2>7, <2>8, <2>9, <2>10, <2>11
       DEF Next, ConsumerStep, FlushStep
<1> QED
  BY <1>1, <1>2, PTL DEF Spec
-----------------------------------------------------------------------------
(* The stream.  A message is added once, so the stream has no repetitions  *)
(* and what is in the buffer was not taken before; an actor that is not in *)
(* the handler has an empty hand, so taking a batch overwrites nothing.    *)

AddedOnce ==
    /\ \A m \in Msg : m \in Elems(added) => addPc[m] # "new"
    /\ Distinct(added)

EmptyHands ==
    \A a \in Actor : pc[a] \notin {"handling", "lastHandling"} => hand[a] = <<>>

\* The messages in the hands of the callers of Flush.
InHand == UNION {Elems(hand[a]) : a \in Actor}

StreamInv == AddedOnce /\ EmptyHands /\ BatchesAreTheStream

\* An actor that moves on without a Flush has an empty hand before and after.
LEMMA MoveKeepsStream ==
    ASSUME TypeOK, StreamInv, NEW a \in Actor, NEW p \in Pc,
           pc[a] \notin {"handling", "lastHandling"},
           pc' = [pc EXCEPT ![a] = p],
           UNCHANGED <<buffer, addPc, hand, added, taken, handled>>
    PROVE  StreamInv'
<1>1. AddedOnce' /\ BatchesAreTheStream'
  BY DEF StreamInv, AddedOnce, BatchesAreTheStream
<1>2. EmptyHands'
  BY DEF TypeOK, StreamInv, EmptyHands
<1> QED
  BY <1>1, <1>2 DEF StreamInv

\* Every operation of the batch consumer keeps the stream together.
LEMMA StreamInvStep == TypeOK /\ StreamInv /\ [Next]_vars => StreamInv'
<1> SUFFICES ASSUME TypeOK, StreamInv, [Next]_vars PROVE StreamInv'
  OBVIOUS
<1> USE DEF chan, history
<1>0. ASSUME UNCHANGED <<buffer, pc, hand, added, taken, handled>>,
             \A m \in Msg : addPc'[m] = "new" => addPc[m] = "new"
      PROVE  StreamInv'
  BY <1>0 DEF StreamInv, AddedOnce, EmptyHands, BatchesAreTheStream
<1>1. ASSUME NEW m \in Msg, AddAppend(m) PROVE StreamInv'
  <2>1. /\ addPc[m] = "new" /\ addPc'[m] # "new"
        /\ \A n \in Msg : n # m => addPc'[n] = addPc[n]
        /\ buffer' = Append(buffer, m) /\ added' = Append(added, m)
        /\ UNCHANGED <<pc, hand, taken, handled>>
    BY <1>1 DEF AddAppend, TypeOK
  <2>2. /\ buffer \in Seq(Msg) /\ added \in Seq(Msg) /\ taken \in Seq(Msg)
        /\ taken \o buffer = added /\ m \notin Elems(added) /\ Distinct(added)
    BY <2>1 DEF TypeOK, StreamInv, AddedOnce, BatchesAreTheStream
  <2>3. AddedOnce'
    <3>1. Elems(added') = Elems(added) \cup {m} /\ Distinct(added')
      BY <2>1, <2>2, ElemsAppend, DistinctAppend
    <3> QED
      BY <2>1, <3>1 DEF StreamInv, AddedOnce
  <2>4. taken \o Append(buffer, m) = Append(taken \o buffer, m)
    <3>1. <<m>> \in Seq(Msg) /\ taken \o buffer \in Seq(Msg)
      BY <2>2, ConcatProperties
    <3>2. Append(buffer, m) = buffer \o <<m>>
      BY <2>2, AppendIsConcat
    <3>3. Append(taken \o buffer, m) = (taken \o buffer) \o <<m>>
      BY <3>1, AppendIsConcat
    <3> QED
      BY <2>2, <3>1, <3>2, <3>3, ConcatAssociative
  <2> QED
    BY <2>1, <2>2, <2>3, <2>4 DEF StreamInv, EmptyHands, BatchesAreTheStream
<1>2. ASSUME NEW m \in Msg, AddSignal(m) PROVE StreamInv'
  BY <1>0, <1>2 DEF AddSignal, TypeOK
<1>3. ASSUME NEW l \in Loop, Start(l) PROVE StreamInv'
  BY <1>3, MoveKeepsStream DEF Start, Actor, Pc
<1>4. ASSUME NEW l \in Loop, Cancel(l) PROVE StreamInv'
  BY <1>0, <1>4 DEF Cancel
<1>5. ASSUME NEW l \in Loop, LoopSelect(l) PROVE StreamInv'
  <2>1. /\ l \in Actor /\ pc[l] = "select"
        /\ \E p \in {"flush", "lastFlush"} : pc' = [pc EXCEPT ![l] = p]
        /\ UNCHANGED <<buffer, addPc, hand, added, taken, handled>>
    BY <1>5 DEF LoopSelect, LoopTick, LoopSignal, LoopStop, LoopCancelled, Actor
  <2> QED
    BY <2>1, MoveKeepsStream DEF Pc
<1>6. ASSUME NEW s \in Stopper, StopSwap(s) PROVE StreamInv'
  BY <1>6, MoveKeepsStream DEF StopSwap, Actor, Pc
<1>7. ASSUME NEW s \in Stopper, StopClose(s) PROVE StreamInv'
  <2>1. CASE stopClosed
    BY <1>0, <1>7, <2>1 DEF StopClose
  <2>2. CASE ~stopClosed
    BY <1>7, <2>2, MoveKeepsStream DEF StopClose, Actor, Pc
  <2> QED
    BY <2>1, <2>2
<1>8. ASSUME NEW f \in Flusher, UserFlush(f) PROVE StreamInv'
  BY <1>8, MoveKeepsStream DEF UserFlush, Actor, Pc
<1>9. ASSUME NEW a \in Actor, FlushTake(a) PROVE StreamInv'
  <2>1. CASE buffer = <<>>
    <3>1. /\ pc[a] \in {"flush", "lastFlush"} /\ pc' = [pc EXCEPT ![a] = After(pc[a])]
          /\ UNCHANGED <<buffer, addPc, hand, added, taken, handled>>
      BY <1>9, <2>1 DEF FlushTake
    <3>2. After(pc[a]) \in Pc
      BY <3>1, FlushPlaces DEF Pc
    <3> QED
      BY <3>1, <3>2, MoveKeepsStream
  <2>2. CASE buffer # <<>>
    <3>1. /\ pc[a] \in {"flush", "lastFlush"} /\ pc' = [pc EXCEPT ![a] = Handling(pc[a])]
          /\ hand' = [hand EXCEPT ![a] = buffer] /\ buffer' = <<>>
          /\ taken' = taken \o buffer /\ UNCHANGED <<addPc, added, handled>>
      BY <1>9, <2>2 DEF FlushTake, Batch
    <3>2. pc'[a] \in {"handling", "lastHandling"} /\ hand'[a] = buffer
      BY <3>1, FlushPlaces DEF TypeOK
    <3>3. \A b \in Actor : b # a => pc'[b] = pc[b] /\ hand'[b] = hand[b]
      BY <3>1 DEF TypeOK
    <3>4. /\ buffer \in Seq(Msg) /\ taken \in Seq(Msg) /\ added \in Seq(Msg)
          /\ taken \o buffer = added /\ Distinct(added) /\ hand[a] = <<>>
      BY <3>1 DEF TypeOK, StreamInv, AddedOnce, EmptyHands, BatchesAreTheStream
    <3>5. AddedOnce'
      BY <3>1 DEF StreamInv, AddedOnce
    <3>6. EmptyHands'
      BY <3>2, <3>3 DEF StreamInv, EmptyHands
    <3>7. taken' \o buffer' = added'
      BY <3>1, <3>4, ConcatEmptySeq
    <3>8. Elems(taken') = Elems(taken) \cup Elems(buffer) /\ Elems(taken) \cap Elems(buffer) = {}
      BY <3>1, <3>4, ElemsConcat, DistinctParts
    <3>9. Elems(taken) = handled \cup InHand /\ Elems(hand[a]) = {}
      BY <3>4, ElemsEmpty DEF StreamInv, BatchesAreTheStream, InHand
    <3>10. InHand' = InHand \cup Elems(buffer)
      BY <3>2, <3>3, <3>9 DEF InHand
    <3>11. ASSUME NEW b \in Actor, b # a
           PROVE  Elems(hand'[b]) \cap Elems(buffer) = {}
      BY <3>3, <3>8, <3>9, <3>11 DEF InHand
    <3>12. ASSUME NEW b \in Actor
           PROVE  /\ Elems(hand'[b]) \cap handled' = {}
                  /\ \A c \in Actor : b # c => Elems(hand'[b]) \cap Elems(hand'[c]) = {}
      <4>1. CASE b = a
        BY <3>1, <3>2, <3>8, <3>9, <3>11, <4>1
      <4>2. CASE b # a
        BY <3>1, <3>2, <3>3, <3>11, <4>2 DEF StreamInv, BatchesAreTheStream
      <4> QED
        BY <4>1, <4>2
    <3>13. BatchesAreTheStream'
      <4>1. Elems(taken') = handled' \cup InHand'
        BY <3>1, <3>8, <3>9, <3>10
      <4> QED
        BY <3>7, <3>12, <4>1 DEF BatchesAreTheStream, InHand
    <3> QED
      BY <3>5, <3>6, <3>13 DEF StreamInv
  <2> QED
    BY <2>1, <2>2
<1>10. ASSUME NEW a \in Actor, HandlerReturn(a) PROVE StreamInv'
  <2>1. /\ handled' = handled \cup Elems(hand[a]) /\ hand'[a] = <<>>
        /\ \A b \in Actor : b # a => pc'[b] = pc[b] /\ hand'[b] = hand[b]
        /\ UNCHANGED <<buffer, addPc, added, taken>>
    BY <1>10 DEF HandlerReturn, TypeOK
  <2>2. AddedOnce' /\ EmptyHands'
    BY <2>1 DEF StreamInv, AddedOnce, EmptyHands
  <2>3. handled' \cup InHand' = handled \cup InHand
    BY <2>1, ElemsEmpty DEF InHand
  <2>4. ASSUME NEW b \in Actor
        PROVE  /\ Elems(hand'[b]) \cap handled' = {}
               /\ \A c \in Actor : b # c => Elems(hand'[b]) \cap Elems(hand'[c]) = {}
    <3>1. CASE b = a
      BY <2>1, <3>1, ElemsEmpty
    <3>2. CASE b # a
      BY <2>1, <3>2, ElemsEmpty DEF StreamInv, BatchesAreTheStream
    <3> QED
      BY <3>1, <3>2
  <2> QED
    BY <2>1, <2>2, <2>3, <2>4 DEF StreamInv, BatchesAreTheStream, InHand
<1>11. CASE UNCHANGED vars
  BY <1>0, <1>11 DEF vars
<1> QED
  BY <1>1, <1>2, <1>3, <1>4, <1>5, <1>6, <1>7, <1>8, <1>9, <1>10, <1>11
     DEF Next, ConsumerStep, FlushStep

LEMMA StreamInvInit == Init => StreamInv
<1> SUFFICES ASSUME Init PROVE StreamInv
  OBVIOUS
<1>1. /\ buffer = <<>> /\ taken = <<>> /\ added = <<>> /\ handled = {}
      /\ \A a \in Actor : hand[a] = <<>>
  BY DEF Init
<1>2. taken \o buffer = added
  BY <1>1
<1>3. AddedOnce /\ EmptyHands
  BY <1>1, ElemsEmpty DEF AddedOnce, EmptyHands, Distinct
<1> QED
  BY <1>1, <1>2, <1>3, ElemsEmpty DEF StreamInv, BatchesAreTheStream

\* No message is twice in the buffer or in a batch.
NoRepetition == Distinct(buffer) /\ \A a \in Actor : Distinct(hand[a])

LEMMA BufferDistinct == TypeOK /\ StreamInv => Distinct(buffer)
BY DistinctRest DEF TypeOK, StreamInv, AddedOnce, BatchesAreTheStream

LEMMA NoRepetitionStep ==
    ASSUME TypeOK, StreamInv, NoRepetition, [Next]_vars, Distinct(buffer)'
    PROVE  NoRepetition'
<1> USE DEF chan, history
<1>0. Distinct(buffer') /\ Distinct(<<>>)
  BY DEF Distinct
<1>1. ASSUME hand' = hand PROVE NoRepetition'
  BY <1>0, <1>1 DEF NoRepetition, Distinct
<1>2. ASSUME NEW a \in Actor, NEW q, Distinct(q), hand' = [hand EXCEPT ![a] = q]
      PROVE  NoRepetition'
  <2>1. \A b \in Actor : hand'[b] = q \/ hand'[b] = hand[b]
    BY <1>2 DEF TypeOK
  <2>2. \A b \in Actor : Distinct(hand'[b])
    BY <1>2, <2>1 DEF NoRepetition
  <2> QED
    BY <1>0, <2>2 DEF NoRepetition, Distinct
<1>3. ASSUME NEW a \in Actor, FlushTake(a) PROVE NoRepetition'
  BY <1>1, <1>2, <1>3 DEF FlushTake, Batch, NoRepetition
<1>4. ASSUME NEW a \in Actor, HandlerReturn(a) PROVE NoRepetition'
  BY <1>0, <1>2, <1>4 DEF HandlerReturn
<1>5. ASSUME NEW m \in Msg, AddAppend(m) \/ AddSignal(m) PROVE NoRepetition'
  BY <1>1, <1>5 DEF AddAppend, AddSignal
<1>6. ASSUME NEW l \in Loop, Start(l) \/ Cancel(l) \/ LoopSelect(l) PROVE NoRepetition'
  BY <1>1, <1>6 DEF Start, Cancel, LoopSelect, LoopTick, LoopSignal, LoopStop, LoopCancelled
<1>7. ASSUME NEW s \in Stopper, StopSwap(s) \/ StopClose(s) PROVE NoRepetition'
  BY <1>1, <1>7 DEF StopSwap, StopClose
<1>8. ASSUME NEW f \in Flusher, UserFlush(f) PROVE NoRepetition'
  BY <1>1, <1>8 DEF UserFlush
<1>9. CASE UNCHANGED vars
  BY <1>1, <1>9 DEF vars
<1> QED
  BY <1>3, <1>4, <1>5, <1>6, <1>7, <1>8, <1>9 DEF Next, ConsumerStep, FlushStep

LEMMA StreamInvariant == Spec => [](TypeOK /\ StreamInv /\ NoRepetition)
<1>1. Init => NoRepetition
  <2>1. Distinct(<<>>)
    BY DEF Distinct
  <2> QED
    BY <2>1 DEF Init, NoRepetition
<1>2. TypeOK /\ StreamInv /\ NoRepetition /\ [Next]_vars /\ Distinct(buffer)'
      => NoRepetition'
  BY NoRepetitionStep
<1>3. TypeOK' /\ StreamInv' => Distinct(buffer)'
  BY BufferDistinct, PTL
<1> QED
  BY <1>1, <1>2, <1>3, BatchTypes, StreamInvInit, StreamInvStep, PTL DEF Spec

\* The goroutine, Stop and Flush together hand over the stream of added
\* messages: in order, nothing lost with the buffer a Flush replaces, and
\* every message in the hand of exactly one of them until its handler has
\* returned.
THEOREM StreamKept == Spec => []BatchesAreTheStream
<1>1. StreamInv => BatchesAreTheStream
  BY DEF StreamInv
<1> QED
  BY <1>1, StreamInvariant, PTL
-----------------------------------------------------------------------------
(* Wake-ups.  NoLostWakeUp is inductive as it stands: the Add that fills a *)
(* batch owes a signal until it finds one in the channel or puts one       *)
(* there, and whoever takes the signal is about to take the buffer.        *)

\* A flush is about to take the buffer.
FlushComing == \E a \in Actor : pc[a] \in {"flush", "lastFlush"}

SignalComing == \E m \in Msg : addPc[m] = "signal"

\* An actor outside Flush that moves on does not take a coming flush away.
LEMMA MoveKeepsFlush ==
    ASSUME TypeOK, NEW a \in Actor, NEW p, pc[a] \notin {"flush", "lastFlush"},
           pc' = [pc EXCEPT ![a] = p]
    PROVE  /\ FlushComing => FlushComing'
           /\ p \in {"flush", "lastFlush"} => FlushComing'
<1>1. pc'[a] = p /\ \A b \in Actor : b # a => pc'[b] = pc[b]
  BY DEF TypeOK
<1> QED
  BY <1>1 DEF FlushComing

LEMMA WakeUpStep == TypeOK /\ NoLostWakeUp /\ [Next]_vars => NoLostWakeUp'
<1> SUFFICES ASSUME TypeOK, NoLostWakeUp, [Next]_vars PROVE NoLostWakeUp'
  OBVIOUS
<1> USE DEF chan, history
<1>a. Len(buffer) >= BatchSize => flushCh > 0 \/ SignalComing \/ FlushComing
  BY DEF NoLostWakeUp, SignalComing, FlushComing
<1>b. SUFFICES Len(buffer') >= BatchSize =>
                   flushCh' > 0 \/ SignalComing' \/ FlushComing'
  BY DEF NoLostWakeUp, SignalComing, FlushComing
<1>0. ASSUME UNCHANGED <<buffer, flushCh, addPc>>, FlushComing => FlushComing'
      PROVE  Len(buffer') >= BatchSize => flushCh' > 0 \/ SignalComing' \/ FlushComing'
  BY <1>0, <1>a DEF SignalComing
<1> DEFINE Goal == Len(buffer') >= BatchSize => flushCh' > 0 \/ SignalComing' \/ FlushComing'
<1>1. ASSUME NEW m \in Msg, AddAppend(m) PROVE Goal
  <2>1. /\ Len(buffer') = Len(buffer) + 1
        /\ Len(buffer) + 1 >= BatchSize => addPc'[m] = "signal"
    BY <1>1 DEF AddAppend, TypeOK
  <2> QED
    BY <2>1 DEF SignalComing
<1>2. ASSUME NEW m \in Msg, AddSignal(m) PROVE Goal
  BY <1>2 DEF AddSignal, Signalled, TypeOK
<1>3. ASSUME NEW l \in Loop, Start(l) PROVE Goal
  <2>1. FlushComing => FlushComing'
    BY <1>3, MoveKeepsFlush DEF Start, Actor
  <2> QED
    BY <1>0, <1>3, <2>1 DEF Start
<1>4. ASSUME NEW l \in Loop, Cancel(l) PROVE Goal
  BY <1>0, <1>4 DEF Cancel, FlushComing
<1>5. ASSUME NEW l \in Loop, LoopSelect(l) PROVE Goal
  <2>1. /\ l \in Actor /\ pc[l] = "select"
        /\ \E p \in {"flush", "lastFlush"} : pc' = [pc EXCEPT ![l] = p]
    BY <1>5 DEF LoopSelect, LoopTick, LoopSignal, LoopStop, LoopCancelled, Actor
  <2> QED
    BY <2>1, MoveKeepsFlush
<1>6. ASSUME NEW s \in Stopper, StopSwap(s) PROVE Goal
  <2>1. FlushComing => FlushComing'
    BY <1>6, MoveKeepsFlush DEF StopSwap, Actor
  <2> QED
    BY <1>0, <1>6, <2>1 DEF StopSwap
<1>7. ASSUME NEW s \in Stopper, StopClose(s) PROVE Goal
  <2>1. CASE stopClosed
    BY <1>0, <1>7, <2>1 DEF StopClose, FlushComing
  <2>2. CASE ~stopClosed
    BY <1>7, <2>2, MoveKeepsFlush DEF StopClose, Actor
  <2> QED
    BY <2>1, <2>2
<1>8. ASSUME NEW f \in Flusher, UserFlush(f) PROVE Goal
  BY <1>8, MoveKeepsFlush DEF UserFlush, Actor
<1>9. ASSUME NEW a \in Actor, FlushTake(a) PROVE Goal
  <2>1. Len(buffer') = 0 /\ BatchSize \in Nat \ {0}
    BY <1>9, BatchAssumption DEF FlushTake, BatchAssumption
  <2> QED
    BY <2>1
<1>10. ASSUME NEW a \in Actor, HandlerReturn(a) PROVE Goal
  <2>1. FlushComing => FlushComing'
    BY <1>10, MoveKeepsFlush DEF HandlerReturn
  <2> QED
    BY <1>0, <1>10, <2>1 DEF HandlerReturn
<1>11. CASE UNCHANGED vars
  BY <1>0, <1>11 DEF vars, FlushComing
<1> QED
  BY <1>1, <1>2, <1>3, <1>4, <1>5, <1>6, <1>7, <1>8, <1>9, <1>10, <1>11
     DEF Next, ConsumerStep, FlushStep

\* No wake-up is lost, for every batch size of at least one: a full batch in
\* the buffer always has a signal or a Flush on its way, although Add sends
\* the signal after it has released bc.mu and drops it when one is there.
THEOREM WakeUpKept == Spec => []NoLostWakeUp
<1>1. Init => NoLostWakeUp
  <2> SUFFICES ASSUME Init PROVE NoLostWakeUp
    OBVIOUS
  <2>1. Len(buffer) = 0 /\ BatchSize \in Nat \ {0}
    BY BatchAssumption DEF Init, BatchAssumption
  <2> QED
    BY <2>1 DEF NoLostWakeUp
<1> QED
  BY <1>1, BatchTypes, WakeUpStep, PTL DEF Spec
-----------------------------------------------------------------------------
(* Stop.  From the moment its Flush has looked at the buffer, nothing that *)
(* was added before the call can be there: what it found is gone, and what *)
(* comes later is new.                                                     *)

StopInv ==
    \A s \in Stopper :
        /\ before[s] \subseteq Elems(added)
        /\ pc[s] \in {"lastHandling", "done"} => before[s] \cap Elems(buffer) = {}

\* A move that does not enter the end of Stop changes nothing about it.
LEMMA MoveKeepsStop ==
    ASSUME TypeOK, StopInv, NEW a \in Actor, NEW p, p \notin {"lastHandling", "done"},
           pc' = [pc EXCEPT ![a] = p], UNCHANGED <<buffer, added, before>>
    PROVE  StopInv'
<1>1. pc'[a] = p /\ \A b \in Actor : b # a => pc'[b] = pc[b]
  BY DEF TypeOK
<1> QED
  BY <1>1 DEF StopInv, Actor

LEMMA StopInvStep == TypeOK /\ StreamInv /\ StopInv /\ [Next]_vars => StopInv'
<1> SUFFICES ASSUME TypeOK, StreamInv, StopInv, [Next]_vars PROVE StopInv'
  OBVIOUS
<1> USE DEF chan, history
<1>0. ASSUME UNCHANGED <<buffer, pc, added, before>> PROVE StopInv'
  BY <1>0 DEF StopInv
<1>1. ASSUME NEW m \in Msg, AddAppend(m) PROVE StopInv'
  <2>1. /\ m \notin Elems(added) /\ UNCHANGED <<pc, before>>
        /\ Elems(added') = Elems(added) \cup {m}
        /\ Elems(buffer') = Elems(buffer) \cup {m}
    BY <1>1, ElemsAppend DEF AddAppend, TypeOK, StreamInv, AddedOnce
  <2> QED
    BY <2>1 DEF StopInv
<1>2. ASSUME NEW m \in Msg, AddSignal(m) PROVE StopInv'
  BY <1>0, <1>2 DEF AddSignal
<1>3. ASSUME NEW l \in Loop, Start(l) PROVE StopInv'
  BY <1>3, MoveKeepsStop DEF Start, Actor
<1>4. ASSUME NEW l \in Loop, Cancel(l) PROVE StopInv'
  BY <1>0, <1>4 DEF Cancel
<1>5. ASSUME NEW l \in Loop, LoopSelect(l) PROVE StopInv'
  <2>1. /\ l \in Actor /\ UNCHANGED <<buffer, added, before>>
        /\ \E p \in {"flush", "lastFlush"} : pc' = [pc EXCEPT ![l] = p]
    BY <1>5 DEF LoopSelect, LoopTick, LoopSignal, LoopStop, LoopCancelled, Actor
  <2> QED
    BY <2>1, MoveKeepsStop
<1>6. ASSUME NEW s \in Stopper, StopSwap(s) PROVE StopInv'
  <2>1. /\ before'[s] = Elems(added) /\ pc'[s] \in {"swapped", "ignored"}
        /\ \A r \in Stopper : r # s => before'[r] = before[r] /\ pc'[r] = pc[r]
        /\ UNCHANGED <<buffer, added>>
    BY <1>6 DEF StopSwap, TypeOK, Actor
  <2> QED
    BY <2>1 DEF StopInv
<1>7. ASSUME NEW s \in Stopper, StopClose(s) PROVE StopInv'
  <2>1. CASE stopClosed
    BY <1>0, <1>7, <2>1 DEF StopClose
  <2>2. CASE ~stopClosed
    BY <1>7, <2>2, MoveKeepsStop DEF StopClose, Actor
  <2> QED
    BY <2>1, <2>2
<1>8. ASSUME NEW f \in Flusher, UserFlush(f) PROVE StopInv'
  BY <1>8, MoveKeepsStop DEF UserFlush, Actor
<1>9. ASSUME NEW a \in Actor, FlushTake(a) PROVE StopInv'
  <2>1. Elems(buffer') = {} /\ UNCHANGED <<added, before>>
    BY <1>9, ElemsEmpty DEF FlushTake
  <2> QED
    BY <2>1 DEF StopInv
<1>10. ASSUME NEW a \in Actor, HandlerReturn(a) PROVE StopInv'
  <2>1. /\ pc[a] \in {"handling", "lastHandling"} /\ pc'[a] = After(pc[a])
        /\ \A b \in Actor : b # a => pc'[b] = pc[b]
        /\ UNCHANGED <<buffer, added, before>>
    BY <1>10 DEF HandlerReturn, TypeOK
  <2>2. pc'[a] = "select" \/ (pc'[a] = "done" /\ pc[a] = "lastHandling")
    BY <2>1, FlushPlaces
  <2> QED
    BY <2>1, <2>2 DEF StopInv, Actor
<1>11. CASE UNCHANGED vars
  BY <1>0, <1>11 DEF vars
<1> QED
  BY <1>1, <1>2, <1>3, <1>4, <1>5, <1>6, <1>7, <1>8, <1>9, <1>10, <1>11
     DEF Next, ConsumerStep, FlushStep

\* A Stop that returns has left nothing in the buffer that was added before it
\* was called, whoever else flushes, adds or stops at the same time.
THEOREM StopFlushed == Spec => []StopFlushesBuffer
<1>1. Init => StopInv
  BY ElemsEmpty DEF Init, StopInv, Actor
<1>2. StopInv => StopFlushesBuffer
  BY DEF StopInv, StopFlushesBuffer
<1> QED
  BY <1>1, <1>2, BatchTypes, StreamInvInit, StreamInvStep, StopInvStep, PTL DEF Spec
=============================================================================
