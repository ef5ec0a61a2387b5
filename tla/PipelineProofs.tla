--------------------------- MODULE PipelineProofs ---------------------------
(***************************************************************************)
(* Proofs about Pipeline, for any number of calls of Send, any compressors *)
(* and any number of Start, Stop and Flush calls of the batch consumer:    *)
(* that the broker drives the batch consumer through its own operations    *)
(* only, so that what is proved of BatchConsumer holds behind a broker,    *)
(* and that no message is lost or duplicated from Send to the handler.     *)
(***************************************************************************)
EXTENDS Pipeline, FiniteSetTheorems, TLAPS

\* BatchConsumer with its theorems; PipelineAssumption is what they assume.
BP == INSTANCE BatchConsumerProofs WITH ctxDone <- startDone

LEMMA BatchConstants ==
    /\ BatchSize \in Nat \ {0}
    /\ MayCancel \in BOOLEAN
    /\ Loop \cap Stopper = {}
    /\ Loop \cap Flusher = {}
    /\ Stopper \cap Flusher = {}
BY PipelineAssumption DEF B!BatchAssumption

-----------------------------------------------------------------------------
(* The two instances of BatchConsumer are the same.                        *)

LEMMA SameState ==
    /\ B!Actor = BP!Actor
    /\ B!vars = BP!vars
    /\ B!Init <=> BP!Init
    /\ \A q : B!Elems(q) = BP!Elems(q)
BY DEF B!Actor, BP!Actor, B!vars, BP!vars, B!Init, BP!Init, B!chan, BP!chan,
       B!history, BP!history, B!Elems, BP!Elems

LEMMA SameAdd ==
    ASSUME NEW m
    PROVE  /\ B!AddAppend(m) <=> BP!AddAppend(m)
           /\ B!AddSignal(m) <=> BP!AddSignal(m)
BY DEF B!AddAppend, BP!AddAppend, B!AddSignal, BP!AddSignal, B!Signalled, BP!Signalled,
       B!chan, BP!chan, B!history, BP!history

LEMMA SameLoop ==
    ASSUME NEW l
    PROVE  /\ B!Start(l) <=> BP!Start(l)
           /\ B!Cancel(l) <=> BP!Cancel(l)
           /\ B!LoopSelect(l) <=> BP!LoopSelect(l)
BY DEF B!Start, BP!Start, B!Cancel, BP!Cancel, B!LoopSelect, BP!LoopSelect,
       B!LoopTick, BP!LoopTick, B!LoopSignal, BP!LoopSignal, B!LoopStop, BP!LoopStop,
       B!LoopCancelled, BP!LoopCancelled, B!chan, BP!chan, B!history, BP!history

LEMMA SameStop ==
    ASSUME NEW s
    PROVE  /\ B!StopSwap(s) <=> BP!StopSwap(s)
           /\ B!StopClose(s) <=> BP!StopClose(s)
           /\ B!UserFlush(s) <=> BP!UserFlush(s)
BY DEF B!StopSwap, BP!StopSwap, B!StopClose, BP!StopClose, B!UserFlush, BP!UserFlush,
       B!Elems, BP!Elems, B!chan, BP!chan, B!history, BP!history

LEMMA SameFlush ==
    ASSUME NEW a
    PROVE  B!FlushStep(a) <=> BP!FlushStep(a)
BY DEF B!FlushStep, BP!FlushStep, B!FlushTake, BP!FlushTake, B!HandlerReturn,
       BP!HandlerReturn, B!After, BP!After, B!Handling, BP!Handling, B!Batch, BP!Batch,
       B!Elems, BP!Elems, B!chan, BP!chan

LEMMA SameConsumer == B!ConsumerStep <=> BP!ConsumerStep
BY SameAdd, SameLoop, SameStop, SameFlush, SameState DEF B!ConsumerStep, BP!ConsumerStep
-----------------------------------------------------------------------------
(* The batch consumer behind the broker.                                   *)

LEMMA BatchInit == Init => BP!Init
BY SameState DEF Init

\* A step of the pipeline is a step of the batch consumer, or none.
LEMMA BatchStep == [Next]_vars => [BP!Next]_(BP!vars)
<1> SUFFICES ASSUME [Next]_vars PROVE BP!Next \/ UNCHANGED BP!vars
  OBVIOUS
<1>1. ASSUME NEW m \in Msg, Deliver(m) PROVE BP!Next
  BY <1>1, SameAdd DEF Deliver, BP!Next
<1>2. CASE Consume
  BY <1>2, SameConsumer DEF Consume, BP!Next
<1>3. ASSUME UNCHANGED consumer PROVE UNCHANGED BP!vars
  BY <1>3 DEF consumer, BP!vars, BP!chan, BP!history
<1>4. CASE Produce \/ (\E m \in Msg : Publish(m)) \/ UNCHANGED vars
  BY <1>3, <1>4 DEF Produce, Publish, vars
<1> QED
  BY <1>1, <1>2, <1>4 DEF Next

LEMMA BatchSpec == Spec => BP!Spec
BY BatchInit, BatchStep, PTL DEF Spec, BP!Spec

\* The broker drives the batch consumer through Add only: a pipeline implements
\* BatchConsumer, whatever the producer, the compressors and the reconnects of
\* the broker do.
THEOREM DrivesBatchConsumer == Spec => B!Spec
<1>1. Init => B!Init
  BY DEF Init
<1>2. [Next]_vars => [B!Next]_(B!vars)
  <2>1. BP!Next => B!Next
    BY SameAdd, SameConsumer DEF BP!Next, B!Next
  <2>2. UNCHANGED BP!vars => UNCHANGED B!vars
    BY DEF BP!vars, B!vars, BP!chan, B!chan, BP!history, B!history
  <2> QED
    BY <2>1, <2>2, BatchStep
<1> QED
  BY <1>1, <1>2, PTL DEF Spec, B!Spec

\* What is proved of BatchConsumer alone holds behind a broker: the batches are
\* the stream of what the broker delivered, no wake-up is lost, and a Stop that
\* returns leaves nothing behind that was delivered before.
THEOREM BatchGuarantees ==
    Spec => [](B!BatchesAreTheStream /\ B!NoLostWakeUp /\ B!StopFlushesBuffer)
<1>1. BP!Spec => []BP!BatchesAreTheStream
  BY BatchConstants, BP!StreamKept
<1>2. BP!Spec => []BP!NoLostWakeUp
  BY BatchConstants, BP!WakeUpKept
<1>3. BP!Spec => []BP!StopFlushesBuffer
  BY BatchConstants, BP!StopFlushed
<1>4. /\ BP!BatchesAreTheStream => B!BatchesAreTheStream
      /\ BP!NoLostWakeUp => B!NoLostWakeUp
      /\ BP!StopFlushesBuffer => B!StopFlushesBuffer
  BY DEF BP!BatchesAreTheStream, B!BatchesAreTheStream, BP!NoLostWakeUp, B!NoLostWakeUp,
         BP!StopFlushesBuffer, B!StopFlushesBuffer, B!Elems, BP!Elems, B!Actor, BP!Actor
<1> QED
  BY <1>1, <1>2, <1>3, <1>4, BatchSpec, PTL

LEMMA StreamOfPipeline == Spec => [](BP!TypeOK /\ BP!StreamInv /\ BP!NoRepetition)
<1>1. BP!Spec => [](BP!TypeOK /\ BP!StreamInv /\ BP!NoRepetition)
  BY BatchConstants, BP!StreamInvariant
<1> QED
  BY <1>1, BatchSpec, PTL

-----------------------------------------------------------------------------
(* The producer.  As in RetryDeadLetterProofs, for the other way to        *)
(* consume what it sends.                                                  *)

\* What the producer and the broker do in a step.
LEMMA ProducerSteps ==
    ASSUME [Next]_vars
    PROVE  SyncStep \/ (\E m \in Msg : SendPublish(m)) \/ UNCHANGED syncVars
BY DEF Next, Produce, Publish, Deliver, Consume, vars

LEMMA SyncInitTyped == SyncInit => SyncTypeOK
<1> SUFFICES ASSUME SyncInit PROVE SyncTypeOK
  OBVIOUS
<1>1. [layers |-> <<>>, encoding |-> None, setBy |-> None] \in Message
  BY DEF Message
<1>2. object \in [Object -> Message]
  BY <1>1 DEF SyncInit
<1>3. spc \in [Msg -> {"new", "publish", "count", "sent", "failed"}]
  BY DEF SyncInit
<1>4. wire \in [Msg -> Message \cup {None}]
  BY DEF SyncInit
<1>5. compressor \in Compressor \cup {None} /\ ctxDone \subseteq Msg
  BY DEF SyncInit
<1>6. up \in BOOLEAN /\ stopped \in BOOLEAN
  BY DEF SyncInit
<1>7. sent \in Nat /\ failed \in Nat
  BY DEF SyncInit
<1> QED
  BY <1>2, <1>3, <1>4, <1>5, <1>6, <1>7, Zenon DEF SyncTypeOK

\* What Send makes of a message is a message.
LEMMA EncodedTyped ==
    ASSUME NEW m \in Msg, NEW msg \in Message, compressor \in Compressor
    PROVE  Encoded(m, msg) \in Message
<1>1. msg.layers \in Seq(Layer) /\ compressor.alg \in Alg
  BY DEF Message, Alg
<1>2. [alg |-> compressor.alg, by |-> m] \in Layer
  BY <1>1 DEF Layer
<1>3. Compress(compressor, msg.layers, m) \in Seq(Layer)
  BY <1>1, <1>2 DEF Compress
<1> QED
  BY <1>1, <1>3 DEF Encoded, Message

LEMMA SyncTyped ==
    ASSUME SyncTypeOK, [Next]_vars
    PROVE  SyncTypeOK'
<1> USE DEF broker, message, counters
<1>1. ASSUME NEW m \in Msg, SendPrepare(m) PROVE SyncTypeOK'
  <2>1. object' \in [Object -> Message]
    <3>1. CASE compressor = None
      BY <1>1, <3>1 DEF SendPrepare, SyncTypeOK
    <3>2. CASE compressor # None
      <4>1. Passed[m] \in Object /\ object[Passed[m]] \in Message
        BY DEF SyncTypeOK, Object
      <4>2. Encoded(m, object[Passed[m]]) \in Message
        BY <3>2, <4>1, EncodedTyped DEF SyncTypeOK
      <4>3. object' = [object EXCEPT ![Passed[m]] = Encoded(m, object[Passed[m]])]
        BY <1>1, <3>2 DEF SendPrepare
      <4> QED
        BY <4>1, <4>2, <4>3 DEF SyncTypeOK
    <3> QED
      BY <3>1, <3>2
  <2> QED
    BY <1>1, <2>1 DEF SendPrepare, SyncTypeOK
<1>2. ASSUME NEW m \in Msg, SendCompressFails(m) \/ SendValueFails(m) PROVE SyncTypeOK'
  BY <1>2 DEF SendCompressFails, SendValueFails, SyncTypeOK
<1>3. ASSUME NEW m \in Msg, SendPublishFails(m) \/ SendReturn(m) PROVE SyncTypeOK'
  BY <1>3 DEF SendPublishFails, SendReturn, SyncTypeOK
<1>5. ASSUME NEW m \in Msg, SendPublish(m) PROVE SyncTypeOK'
  <2>1. object[Passed[m]] \in Message
    BY DEF SyncTypeOK, Object
  <2>2. wire' \in [Msg -> Message \cup {None}]
    BY <1>5, <2>1 DEF SendPublish, SyncTypeOK
  <2> QED
    BY <1>5, <2>2 DEF SendPublish, SyncTypeOK
<1>6. ASSUME NEW c \in Compressor \cup {None}, SetCompressor(c) PROVE SyncTypeOK'
  BY <1>6 DEF SetCompressor, SyncTypeOK
<1>7. CASE BrokerClose \/ BrokerConnect
  BY <1>7 DEF BrokerClose, BrokerConnect, SyncTypeOK
<1>8. CASE UNCHANGED syncVars
  BY <1>8 DEF syncVars, SyncTypeOK
<1> QED
  BY <1>1, <1>2, <1>3, <1>5, <1>6, <1>7, <1>8, ProducerSteps DEF SyncStep

-----------------------------------------------------------------------------
(* From Send to the subscription.                                          *)

\* The calls whose message the broker took, and those not yet counted.
Taken == {m \in Msg : wire[m] # None}
Uncounted == {m \in Msg : spc[m] = "count"}

\* A call that was not published, or failed, left nothing with the broker, and
\* sent counts the calls whose message it took but for those about to count.
SendInv ==
    /\ SyncTypeOK
    /\ \A m \in Msg : spc[m] \in {"new", "publish", "failed"} => wire[m] = None
    /\ IsFiniteSet(Taken) /\ IsFiniteSet(Uncounted)
    /\ Cardinality(Taken) = sent + Cardinality(Uncounted)

\* A message published to the subscription was taken by the broker, and waits
\* in its goroutine or has been added, one of the two.
RouteInv ==
    /\ routed \subseteq Taken
    /\ goroutines \cup BP!Elems(added) = routed
    /\ goroutines \cap BP!Elems(added) = {}

LEMMA SendInit == Init => SendInv
<1> SUFFICES ASSUME Init PROVE SendInv
  OBVIOUS
<1>1. Taken = {} /\ Uncounted = {} /\ sent = 0
  BY DEF Init, SyncInit, Taken, Uncounted
<1>2. \A m \in Msg : wire[m] = None
  BY DEF Init, SyncInit
<1>3. SyncTypeOK
  BY SyncInitTyped DEF Init
<1> QED
  BY <1>1, <1>2, <1>3, FS_EmptySet DEF SendInv

\* A Publish puts the message of one call on the wire, and is counted later.
LEMMA PublishCounts ==
    ASSUME SendInv, NEW m \in Msg, SendPublish(m)
    PROVE  /\ m \notin Taken
           /\ Taken' = Taken \cup {m}
           /\ Uncounted' = Uncounted \cup {m}
           /\ m \notin Uncounted
<1>1. spc[m] = "publish" /\ m \notin Taken /\ m \notin Uncounted
  BY DEF SendPublish, SendInv, Taken, Uncounted
<1>2. wire' = [wire EXCEPT ![m] = object[Passed[m]]] /\ spc' = [spc EXCEPT ![m] = "count"]
  BY DEF SendPublish
<1>3. object[Passed[m]] # None
  BY NilAssumption DEF SendInv, SyncTypeOK, Object
<1>4. Taken' = Taken \cup {m}
  BY <1>2, <1>3 DEF SendInv, SyncTypeOK, Taken
<1>5. Uncounted' = Uncounted \cup {m}
  BY <1>2 DEF SendInv, SyncTypeOK, Uncounted
<1> QED
  BY <1>1, <1>4, <1>5

LEMMA SendStep ==
    ASSUME SendInv, SyncTypeOK', [Next]_vars
    PROVE  SendInv'
<1> USE DEF message, counters
<1> DEFINE Unsent == \A n \in Msg : spc'[n] \in {"new", "publish", "failed"} => wire'[n] = None
<1>0. /\ Cardinality(Taken) \in Nat /\ Cardinality(Uncounted) \in Nat /\ sent \in Nat
      /\ spc \in [Msg -> {"new", "publish", "count", "sent", "failed"}]
      /\ wire \in [Msg -> Message \cup {None}]
  BY FS_CardinalityType DEF SendInv, SyncTypeOK
<1>1. ASSUME Unsent, IsFiniteSet(Taken'), IsFiniteSet(Uncounted'),
             Cardinality(Taken') = sent' + Cardinality(Uncounted')
      PROVE  SendInv'
  BY <1>1 DEF SendInv
<1>2. ASSUME NEW m \in Msg, SendPublish(m) PROVE SendInv'
  <2>1. /\ Taken' = Taken \cup {m} /\ m \notin Taken
        /\ Uncounted' = Uncounted \cup {m} /\ m \notin Uncounted
    BY <1>2, PublishCounts
  <2>2. /\ IsFiniteSet(Taken') /\ Cardinality(Taken') = Cardinality(Taken) + 1
        /\ IsFiniteSet(Uncounted') /\ Cardinality(Uncounted') = Cardinality(Uncounted) + 1
    BY <2>1, FS_AddElement DEF SendInv
  <2>3. sent' = sent
    BY <1>2 DEF SendPublish
  <2>4. Cardinality(Taken') = sent' + Cardinality(Uncounted')
    BY <1>0, <2>2, <2>3 DEF SendInv
  <2>5. Unsent
    BY <1>0, <1>2 DEF SendPublish, SendInv
  <2> QED
    BY <1>1, <2>2, <2>4, <2>5
<1>3. ASSUME NEW m \in Msg, SendReturn(m) PROVE SendInv'
  <2>1. m \in Uncounted /\ Uncounted' = Uncounted \ {m} /\ Taken' = Taken /\ sent' = sent + 1
    BY <1>0, <1>3 DEF SendReturn, Uncounted, Taken
  <2>2. IsFiniteSet(Uncounted') /\ Cardinality(Uncounted') = Cardinality(Uncounted) - 1
    BY <2>1, FS_RemoveElement DEF SendInv
  <2>3. Cardinality(Taken') = sent' + Cardinality(Uncounted') /\ IsFiniteSet(Taken')
    BY <1>0, <2>1, <2>2 DEF SendInv
  <2>4. Unsent
    BY <1>0, <1>3 DEF SendReturn, SendInv
  <2> QED
    BY <1>1, <2>2, <2>3, <2>4
<1>4. ASSUME NEW m \in Msg, \/ SendPrepare(m) \/ SendCompressFails(m)
                            \/ SendValueFails(m) \/ SendPublishFails(m)
      PROVE  SendInv'
  <2>1. /\ spc[m] \in {"new", "publish"} /\ wire' = wire /\ sent' = sent
        /\ \E p \in {"publish", "failed"} : spc' = [spc EXCEPT ![m] = p]
    BY <1>4 DEF SendPrepare, SendCompressFails, SendValueFails, SendPublishFails
  <2>2. Taken' = Taken /\ Uncounted' = Uncounted
    BY <1>0, <2>1 DEF Taken, Uncounted
  <2>3. Unsent
    BY <1>0, <2>1 DEF SendInv
  <2> QED
    BY <1>1, <2>1, <2>2, <2>3 DEF SendInv
<1>5. ASSUME UNCHANGED <<spc, wire, sent>> PROVE SendInv'
  <2>1. Taken' = Taken /\ Uncounted' = Uncounted
    BY <1>5 DEF Taken, Uncounted
  <2> QED
    BY <1>1, <1>5, <2>1 DEF SendInv
<1>6. ASSUME NEW c, SetCompressor(c) PROVE SendInv'
  BY <1>5, <1>6 DEF SetCompressor
<1>7. CASE BrokerClose \/ BrokerConnect \/ UNCHANGED syncVars
  BY <1>5, <1>7 DEF BrokerClose, BrokerConnect, syncVars
<1> QED
  BY <1>2, <1>3, <1>4, <1>6, <1>7, ProducerSteps DEF SyncStep

\* Only Add extends the stream.
LEMMA ConsumerAddsNothing == BP!ConsumerStep => added' = added
BY DEF BP!ConsumerStep, BP!AddSignal, BP!Start, BP!Cancel, BP!LoopSelect, BP!LoopTick,
       BP!LoopSignal, BP!LoopStop, BP!LoopCancelled, BP!StopSwap, BP!StopClose,
       BP!UserFlush, BP!FlushStep, BP!FlushTake, BP!HandlerReturn, BP!history

LEMMA RouteInit == Init => RouteInv
<1> SUFFICES ASSUME Init PROVE RouteInv
  OBVIOUS
<1>1. goroutines = {} /\ routed = {} /\ added = <<>>
  BY DEF Init, B!Init
<1>2. BP!Elems(<<>>) = {}
  BY BatchConstants, BP!ElemsEmpty
<1> QED
  BY <1>1, <1>2 DEF RouteInv

LEMMA RouteStep ==
    ASSUME SendInv, RouteInv, BP!TypeOK, [Next]_vars
    PROVE  RouteInv'
<1> USE DEF delivery, message
<1>0. BP!Elems(added)' = BP!Elems(added')
  BY DEF BP!Elems
<1>1. ASSUME UNCHANGED <<goroutines, routed, added>>, Taken \subseteq Taken'
      PROVE  RouteInv'
  BY <1>0, <1>1 DEF RouteInv
<1>2. CASE Produce
  <2>1. wire' = wire
    BY <1>2 DEF Produce, SyncStep, SendPrepare, SendCompressFails, SendValueFails,
                SendPublishFails, SendReturn, SetCompressor, BrokerClose, BrokerConnect
  <2> QED
    BY <1>1, <1>2, <2>1 DEF Produce, consumer, Taken
<1>3. ASSUME NEW m \in Msg, Publish(m) PROVE RouteInv'
  <2>1. m \notin Taken /\ Taken' = Taken \cup {m}
    BY <1>3, PublishCounts DEF Publish
  <2>2. added' = added
    BY <1>3 DEF Publish, consumer
  <2>3. CASE stopped
    BY <1>1, <1>3, <2>1, <2>2, <2>3 DEF Publish
  <2>4. CASE ~stopped
    <3>1. goroutines' = goroutines \cup {m} /\ routed' = routed \cup {m}
      BY <1>3, <2>4 DEF Publish
    <3>2. m \notin BP!Elems(added)
      BY <2>1 DEF RouteInv
    <3>3. BP!Elems(added)' = BP!Elems(added)
      BY <1>0, <2>2
    <3> QED
      BY <2>1, <3>1, <3>2, <3>3 DEF RouteInv
  <2> QED
    BY <2>3, <2>4
<1>4. ASSUME NEW m \in Msg, Deliver(m) PROVE RouteInv'
  <2>1. /\ m \in goroutines /\ goroutines' = goroutines \ {m} /\ routed' = routed
        /\ added' = Append(added, m)
    BY <1>4 DEF Deliver, B!AddAppend
  <2>2. wire' = wire
    BY <1>4 DEF Deliver, syncVars
  <2>3. BP!Elems(added)' = BP!Elems(added) \cup {m}
    <3>1. added \in Seq(Msg)
      BY DEF BP!TypeOK
    <3>2. BP!Elems(Append(added, m)) = BP!Elems(added) \cup {m}
      BY <3>1, BatchConstants, BP!ElemsAppend
    <3> QED
      BY <1>0, <2>1, <3>2
  <2>4. Taken' = Taken
    BY <2>2 DEF Taken
  <2> QED
    BY <2>1, <2>3, <2>4 DEF RouteInv
<1>5. CASE Consume
  <2>1. added' = added
    BY <1>5, SameConsumer, ConsumerAddsNothing DEF Consume
  <2> QED
    BY <1>1, <1>5, <2>1 DEF Consume, syncVars, Taken
<1>6. CASE UNCHANGED vars
  BY <1>1, <1>6 DEF vars, consumer, syncVars, Taken
<1> QED
  BY <1>2, <1>3, <1>4, <1>5, <1>6 DEF Next
-----------------------------------------------------------------------------
(* From the subscription to the handler.                                   *)

\* Where a message is, part by part.
AtGoroutine(m) == {<<"goroutine", g>> : g \in goroutines \cap {m}}
AtBuffer(m) == {<<"buffer", i>> : i \in {j \in DOMAIN buffer : buffer[j] = m}}
AtHand(m) ==
    UNION {{<<"hand", a, i>> : i \in {j \in DOMAIN hand[a] : hand[a][j] = m}} :
              a \in B!Actor}
AtHandler(m) == {<<"handled", h>> : h \in handled \cap {m}}

\* A sequence without repetitions holds a message at one place or at none.
LEMMA OneIndex ==
    ASSUME NEW q \in Seq(Msg), BP!Distinct(q), NEW m
    PROVE  /\ m \notin BP!Elems(q) => {j \in DOMAIN q : q[j] = m} = {}
           /\ m \in BP!Elems(q) => \E i : {j \in DOMAIN q : q[j] = m} = {i}
<1>1. DOMAIN q = 1..Len(q)
  OBVIOUS
<1>2. ASSUME m \in BP!Elems(q) PROVE \E i : {j \in DOMAIN q : q[j] = m} = {i}
  <2>1. PICK i \in DOMAIN q : q[i] = m
    BY <1>2 DEF BP!Elems
  <2>2. \A j \in DOMAIN q : q[j] = m => j = i
    BY <1>1, <2>1 DEF BP!Distinct
  <2>3. {j \in DOMAIN q : q[j] = m} = {i}
    BY <2>1, <2>2
  <2> QED
    BY <2>3
<1>3. m \notin BP!Elems(q) => {j \in DOMAIN q : q[j] = m} = {}
  BY DEF BP!Elems
<1> QED
  BY <1>2, <1>3

LEMMA AtBufferIs ==
    ASSUME BP!TypeOK, BP!NoRepetition, NEW m \in Msg
    PROVE  /\ m \notin BP!Elems(buffer) => AtBuffer(m) = {}
           /\ m \in BP!Elems(buffer) => \E x : AtBuffer(m) = {x}
<1>1. buffer \in Seq(Msg) /\ BP!Distinct(buffer)
  BY DEF BP!TypeOK, BP!NoRepetition
<1>2. PICK J : J = {j \in DOMAIN buffer : buffer[j] = m}
  OBVIOUS
<1>3. /\ m \notin BP!Elems(buffer) => J = {}
      /\ m \in BP!Elems(buffer) => \E i : J = {i}
  BY <1>1, <1>2, OneIndex
<1>4. AtBuffer(m) = {<<"buffer", i>> : i \in J}
  BY <1>2 DEF AtBuffer
<1>5. ASSUME m \in BP!Elems(buffer) PROVE \E x : AtBuffer(m) = {x}
  <2>1. PICK i : J = {i}
    BY <1>3, <1>5
  <2>2. AtBuffer(m) = {<<"buffer", i>>}
    BY <1>4, <2>1
  <2> QED
    BY <2>2
<1> QED
  BY <1>3, <1>4, <1>5

\* A message is in no hand, or at one place of one.
LEMMA AtHandIs ==
    ASSUME BP!TypeOK, BP!NoRepetition, NEW m \in Msg
    PROVE  /\ (\A a \in BP!Actor : m \notin BP!Elems(hand[a])) => AtHand(m) = {}
           /\ \A a \in BP!Actor :
                  /\ m \in BP!Elems(hand[a])
                  /\ \A b \in BP!Actor : b # a => m \notin BP!Elems(hand[b])
                  => \E x : AtHand(m) = {x}
<1> DEFINE J(a) == {j \in DOMAIN hand[a] : hand[a][j] = m}
           H(a) == {<<"hand", a, i>> : i \in J(a)}
<1>1. ASSUME NEW a \in BP!Actor
      PROVE  /\ m \notin BP!Elems(hand[a]) => H(a) = {}
             /\ m \in BP!Elems(hand[a]) => \E x : H(a) = {x}
  <2>1. hand[a] \in Seq(Msg) /\ BP!Distinct(hand[a])
    BY DEF BP!TypeOK, BP!NoRepetition
  <2>2. /\ m \notin BP!Elems(hand[a]) => J(a) = {}
        /\ m \in BP!Elems(hand[a]) => \E i : J(a) = {i}
    BY <2>1, OneIndex
  <2> HIDE DEF J
  <2>3. ASSUME m \in BP!Elems(hand[a]) PROVE \E x : H(a) = {x}
    <3>1. PICK i : J(a) = {i}
      BY <2>2, <2>3
    <3>2. H(a) = {<<"hand", a, i>>}
      BY <3>1
    <3> QED
      BY <3>2
  <2> QED
    BY <2>2, <2>3
<1>2. AtHand(m) = UNION {H(a) : a \in BP!Actor}
  BY SameState DEF AtHand
<1> HIDE DEF H
<1>3. ASSUME \A a \in BP!Actor : m \notin BP!Elems(hand[a]) PROVE AtHand(m) = {}
  <2>1. \A a \in BP!Actor : H(a) = {}
    BY <1>1, <1>3
  <2> QED
    BY <1>2, <2>1
<1>4. ASSUME NEW a \in BP!Actor, m \in BP!Elems(hand[a]),
             \A b \in BP!Actor : b # a => m \notin BP!Elems(hand[b])
      PROVE  \E x : AtHand(m) = {x}
  <2>1. \A b \in BP!Actor : b # a => H(b) = {}
    BY <1>1, <1>4
  <2>2. PICK x : H(a) = {x}
    BY <1>1, <1>4
  <2>3. AtHand(m) = {x}
    BY <1>2, <2>1, <2>2
  <2> QED
    BY <2>3
<1> QED
  BY <1>3, <1>4

\* What is added is in the buffer or was taken, what was taken is in one hand or
\* handled, and each excludes the other.
LEMMA StreamParts ==
    ASSUME BP!TypeOK, BP!StreamInv
    PROVE  /\ BP!Elems(added) = BP!Elems(taken) \cup BP!Elems(buffer)
           /\ BP!Elems(taken) \cap BP!Elems(buffer) = {}
<1>1. /\ taken \in Seq(Msg) /\ buffer \in Seq(Msg) /\ taken \o buffer = added
      /\ BP!Distinct(taken \o buffer)
  BY DEF BP!TypeOK, BP!StreamInv, BP!AddedOnce, BP!BatchesAreTheStream
<1>2. BP!Elems(taken \o buffer) = BP!Elems(taken) \cup BP!Elems(buffer)
  BY <1>1, BatchConstants, BP!ElemsConcat
<1>3. BP!Elems(taken) \cap BP!Elems(buffer) = {}
  BY <1>1, BatchConstants, BP!DistinctParts
<1> QED
  BY <1>1, <1>2, <1>3

\* A routed message is at one place, any other at none.
LEMMA PlacesAre ==
    ASSUME BP!TypeOK, BP!StreamInv, BP!NoRepetition, RouteInv, NEW m \in Msg
    PROVE  /\ m \notin routed => Places(m) = {}
           /\ m \in routed => \E x : Places(m) = {x}
<1>1. Places(m) = AtGoroutine(m) \cup AtBuffer(m) \cup AtHand(m) \cup AtHandler(m)
  BY DEF Places, AtGoroutine, AtBuffer, AtHand, AtHandler
<1>2. /\ m \notin goroutines => AtGoroutine(m) = {}
      /\ m \in goroutines => AtGoroutine(m) = {<<"goroutine", m>>}
  BY DEF AtGoroutine
<1>3. /\ m \notin handled => AtHandler(m) = {}
      /\ m \in handled => AtHandler(m) = {<<"handled", m>>}
  BY DEF AtHandler
<1>4. /\ m \in BP!Elems(added) <=> m \in BP!Elems(taken) \/ m \in BP!Elems(buffer)
      /\ ~(m \in BP!Elems(taken) /\ m \in BP!Elems(buffer))
  BY StreamParts
<1>5. /\ m \in BP!Elems(taken) <=>
             m \in handled \/ \E a \in BP!Actor : m \in BP!Elems(hand[a])
      /\ \A a \in BP!Actor :
             m \in BP!Elems(hand[a]) =>
                 m \notin handled /\ \A b \in BP!Actor : b # a => m \notin BP!Elems(hand[b])
  BY DEF BP!StreamInv, BP!BatchesAreTheStream
<1>6. /\ m \in routed <=> m \in goroutines \/ m \in BP!Elems(added)
      /\ ~(m \in goroutines /\ m \in BP!Elems(added))
  BY DEF RouteInv
<1>7. CASE m \notin BP!Elems(added)
  <2>1. AtBuffer(m) = {} /\ AtHand(m) = {} /\ AtHandler(m) = {}
    BY <1>3, <1>4, <1>5, <1>7, AtBufferIs, AtHandIs
  <2> QED
    BY <1>1, <1>2, <1>6, <1>7, <2>1
<1>8. CASE m \in BP!Elems(buffer)
  <2>1. AtGoroutine(m) = {} /\ AtHand(m) = {} /\ AtHandler(m) = {}
    BY <1>2, <1>3, <1>4, <1>5, <1>6, <1>8, AtHandIs
  <2>2. PICK x : AtBuffer(m) = {x}
    BY <1>8, AtBufferIs
  <2> QED
    BY <1>1, <1>4, <1>6, <1>8, <2>1, <2>2
<1>9. CASE m \in handled
  <2>1. AtGoroutine(m) = {} /\ AtBuffer(m) = {} /\ AtHand(m) = {}
    BY <1>2, <1>4, <1>5, <1>6, <1>9, AtBufferIs, AtHandIs
  <2> QED
    BY <1>1, <1>3, <1>4, <1>5, <1>6, <1>9, <2>1
<1>10. ASSUME NEW a \in BP!Actor, m \in BP!Elems(hand[a])
       PROVE  m \in routed /\ \E x : Places(m) = {x}
  <2>1. AtGoroutine(m) = {} /\ AtBuffer(m) = {} /\ AtHandler(m) = {}
    BY <1>2, <1>3, <1>4, <1>5, <1>6, <1>10, AtBufferIs
  <2>2. PICK x : AtHand(m) = {x}
    BY <1>5, <1>10, AtHandIs
  <2> QED
    BY <1>1, <1>4, <1>5, <1>6, <1>10, <2>1, <2>2
<1> QED
  BY <1>4, <1>5, <1>7, <1>8, <1>9, <1>10

PipeInv ==
    /\ SendInv
    /\ RouteInv
    /\ BP!TypeOK
    /\ BP!StreamInv
    /\ BP!NoRepetition

LEMMA PipeInvariant == Spec => []PipeInv
<1>1. Init => SendInv /\ RouteInv
  BY SendInit, RouteInit
<1>2. SendInv /\ RouteInv /\ BP!TypeOK /\ [Next]_vars => SendInv' /\ RouteInv'
  <2>1. SendInv /\ [Next]_vars => SyncTypeOK'
    BY SyncTyped DEF SendInv
  <2> QED
    BY <2>1, SendStep, RouteStep
<1> QED
  BY <1>1, <1>2, StreamOfPipeline, PTL DEF PipeInv, Spec

\* From Send to the return of the batch handler no message is lost or
\* duplicated: whatever the broker's goroutines, Add and the Flushes of any
\* number of goroutines, Stops and users do, a message that was published to the
\* subscription is at exactly one place, no other message is anywhere, and no
\* more messages are handled than the producer has sent.
THEOREM OnePlaceKept == Spec => []OnePlace
<1>1. ASSUME PipeInv PROVE OnePlace
  <2>1. ASSUME NEW m \in Msg
        PROVE  Cardinality(Places(m)) = IF m \in routed THEN 1 ELSE 0
    <3>1. CASE m \notin routed
      <4>1. Places(m) = {}
        BY <1>1, <3>1, PlacesAre DEF PipeInv
      <4> QED
        BY <3>1, <4>1, FS_EmptySet
    <3>2. CASE m \in routed
      <4>1. PICK x : Places(m) = {x}
        BY <1>1, <3>2, PlacesAre DEF PipeInv
      <4> QED
        BY <3>2, <4>1, FS_Singleton
    <3> QED
      BY <3>1, <3>2
  <2>2. handled \in SUBSET Taken
    <3>1. handled \subseteq BP!Elems(taken)
      BY <1>1 DEF PipeInv, BP!StreamInv, BP!BatchesAreTheStream
    <3>2. BP!Elems(taken) \subseteq BP!Elems(added)
      BY <1>1, StreamParts DEF PipeInv
    <3> QED
      BY <1>1, <3>1, <3>2 DEF PipeInv, RouteInv
  <2>3. Cardinality(handled) <= Cardinality(Taken)
    BY <1>1, <2>2, FS_Subset DEF PipeInv, SendInv
  <2>4. Cardinality(Taken) = sent + Cardinality({m \in Msg : spc[m] = "count"})
    BY <1>1 DEF PipeInv, SendInv, Uncounted
  <2>5. routed \subseteq {m \in Msg : wire[m] # None}
    BY <1>1 DEF PipeInv, RouteInv, Taken
  <2> QED
    BY <2>1, <2>3, <2>4, <2>5 DEF OnePlace
<1> QED
  BY <1>1, PipeInvariant, PTL
=============================================================================
