---------------------------- MODULE SyncProducer ----------------------------
(***************************************************************************)
(* SyncProducer of pkg/producer/producer.go over the InMemoryBroker, with  *)
(* the compressors.                                                        *)
(*                                                                         *)
(* Send derives a context with a deadline, compresses the value of the     *)
(* caller's message in place, publishes a clone and counts; the context is *)
(* cancelled when Send returns.  The broker ignores the context itself and *)
(* passes it on to the handler.  Calls run concurrently; the counters are  *)
(* atomics.  What SetCompressor and SetHeader write is not synchronised:   *)
(* the compressor is set between calls of Send, and calls that are given   *)
(* the same message (a retry, a second topic) come one after the other.    *)
(*                                                                         *)
(* A value is known by the layers of compression that calls have put       *)
(* around what the caller passed.  The content-type is left out.           *)
(***************************************************************************)
EXTENDS Naturals, Sequences, FiniteSets

CONSTANTS
    Msg,          \* the calls of Send and SendValue
    Passed,       \* the *broker.Message a call is given, or makes
    Compressor,   \* what SetCompressor may be called with
    None          \* nil: no compressor, header or message

Object == {Passed[m] : m \in Msg}

\* A GzipCompressor has both functions.  A SnappyCompressor or an LZ4Compressor
\* has those it was given, CompressFunc and DecompressFunc, one, both or none, and
\* the name of its algorithm all the same.
ASSUME SyncAssumption ==
    /\ \A c \in Compressor : {c.compress, c.decompress} \subseteq BOOLEAN
    /\ None \notin Compressor

VARIABLES
    up,           \* b.connected of the broker
    stopped,      \* b.stopCh of the broker is closed
    compressor,   \* sp.compressor; a nil Value is as good as a nil compressor
    object,       \* the messages of the callers: value and content-encoding, and,
                  \* as history, the call that set the header
    spc,          \* where the call is
    ctxDone,      \* the calls whose context is done
    wire,         \* the clone the broker took of the message of a call
    sent,         \* sp.sent
    failed        \* sp.failed

broker   == <<up, stopped>>
message  == <<compressor, object, wire>>
counters == <<sent, failed>>
syncVars == <<broker, message, spc, ctxDone, counters>>

SyncInit ==
    /\ up = TRUE
    /\ stopped = FALSE
    /\ compressor = None
    /\ object = [o \in Object |-> [layers |-> <<>>, encoding |-> None, setBy |-> None]]
    /\ spc = [m \in Msg |-> "new"]
    /\ ctxDone = {}
    /\ wire = [m \in Msg |-> None]
    /\ sent = 0
    /\ failed = 0

-----------------------------------------------------------------------------
(* Compressor: gzip, or snappy and lz4 by injected functions.  Without its *)
(* function each of the two methods passes on what it gets.                *)

Compress(c, layers, m) ==
    IF c.compress THEN Append(layers, [alg |-> c.alg, by |-> m]) ELSE layers

\* Decompressing what the algorithm did not produce is an error.
Decompress(c, layers) ==
    IF ~c.decompress THEN layers
    ELSE IF layers # <<>> /\ layers[Len(layers)].alg = c.alg
         THEN SubSeq(layers, 1, Len(layers) - 1)
         ELSE None

-----------------------------------------------------------------------------
(* Send, and SendValue, which is Send of a new message.                    *)

Waiting == {"new", "sent", "failed"}

\* After the last call of Send it makes no difference any more.
SetCompressor(c) ==
    /\ \A m \in Msg : spc[m] \in Waiting
    /\ \E m \in Msg : spc[m] = "new"
    /\ compressor' = c
    /\ UNCHANGED <<broker, object, wire, spc, ctxDone, counters>>

\* No other call is using the message of m.
Alone(m) ==
    \A n \in Msg \ {m} :
        Passed[n] = Passed[m] => spc[n] \in Waiting

\* Mutant: the header is not set.
EncodedUnlabelled(m, msg) ==
    [msg EXCEPT !.layers = Compress(compressor, msg.layers, m)]

\* The compressed bytes replace the value, and the header is set.
Encoded(m, msg) ==
    [layers   |-> Compress(compressor, msg.layers, m),
     encoding |-> compressor.alg,
     setBy    |-> m]

\* The part before Publish: the context, the compression, the headers.
SendPrepare(m) ==
    /\ spc[m] = "new"
    /\ Alone(m)
    /\ IF compressor = None
       THEN UNCHANGED object
       ELSE object' = [object EXCEPT ![Passed[m]] = Encoded(m, @)]
    /\ spc' = [spc EXCEPT ![m] = "publish"]
    /\ UNCHANGED <<broker, compressor, wire, ctxDone, counters>>

\* Compress fails; the deferred cancel() ends the context.
SendCompressFails(m) ==
    /\ spc[m] = "new"
    /\ Alone(m)
    /\ compressor # None /\ compressor.compress
    /\ failed' = failed + 1
    /\ ctxDone' = ctxDone \cup {m}
    /\ spc' = [spc EXCEPT ![m] = "failed"]
    /\ UNCHANGED <<broker, message, sent>>

\* Serialize fails in SendValue, which has made no context: it cannot encode
\* the value, or the serializer has no function.
SendValueFails(m) ==
    /\ spc[m] = "new"
    /\ \A n \in Msg \ {m} : Passed[n] # Passed[m]
    /\ failed' = failed + 1
    /\ spc' = [spc EXCEPT ![m] = "failed"]
    /\ UNCHANGED <<broker, message, ctxDone, sent>>

\* The deadline of the context expires, or its parent is cancelled.
SendContextDone(m) ==
    /\ spc[m] \in {"publish", "count"}
    /\ m \notin ctxDone
    /\ ctxDone' = ctxDone \cup {m}
    /\ UNCHANGED <<broker, message, spc, counters>>

\* broker.Publish clones the message, under the broker's lock.
SendPublish(m) ==
    /\ spc[m] = "publish"
    /\ up
    /\ wire' = [wire EXCEPT ![m] = object[Passed[m]]]
    /\ spc' = [spc EXCEPT ![m] = "count"]
    /\ UNCHANGED <<broker, compressor, object, ctxDone, counters>>

\* Mutant: this path forgets the counter.
SendPublishFailsUncounted(m) ==
    /\ spc[m] = "publish"
    /\ ~up
    /\ ctxDone' = ctxDone \cup {m}
    /\ spc' = [spc EXCEPT ![m] = "failed"]
    /\ UNCHANGED <<broker, message, counters>>

\* broker.Publish returns ErrNotConnected: Send counts it and returns it.  The
\* message stays as Send has changed it.
SendPublishFails(m) ==
    /\ spc[m] = "publish"
    /\ ~up
    /\ failed' = failed + 1
    /\ ctxDone' = ctxDone \cup {m}
    /\ spc' = [spc EXCEPT ![m] = "failed"]
    /\ UNCHANGED <<broker, message, sent>>

\* Send counts the message and returns; the deferred cancel() ends its context.
SendReturn(m) ==
    /\ spc[m] = "count"
    /\ sent' = sent + 1
    /\ ctxDone' = ctxDone \cup {m}
    /\ spc' = [spc EXCEPT ![m] = "sent"]
    /\ UNCHANGED <<broker, message, failed>>

-----------------------------------------------------------------------------
(* The broker is closed and connected again; a second Close would panic    *)
(* (see InMemoryBroker) and is not made here.                              *)

BrokerClose ==
    /\ up
    /\ ~stopped
    /\ up' = FALSE
    /\ stopped' = TRUE
    /\ UNCHANGED <<message, spc, ctxDone, counters>>

BrokerConnect ==
    /\ ~up
    /\ up' = TRUE
    /\ UNCHANGED <<stopped, message, spc, ctxDone, counters>>

\* Everything but the Publish that starts a delivery and the end of a context
\* before its time.
SyncStep ==
    \/ \E m \in Msg :
          \/ SendPrepare(m)
          \/ SendCompressFails(m)
          \/ SendValueFails(m)
          \/ SendPublishFails(m)
          \/ SendReturn(m)
    \/ \E c \in Compressor \cup {None} : SetCompressor(c)
    \/ BrokerClose
    \/ BrokerConnect

-----------------------------------------------------------------------------
(* Properties.                                                             *)

Alg == {c.alg : c \in Compressor}
Layer == [alg : Alg, by : Msg]
Message == [layers : Seq(Layer), encoding : Alg \cup {None}, setBy : Msg \cup {None}]

ASSUME NilAssumption == None \notin Message \cup Seq(Layer) \cup Alg

\* The part of the type invariant that is about the producer.
SyncTypeOK ==
    /\ up \in BOOLEAN
    /\ stopped \in BOOLEAN
    /\ compressor \in Compressor \cup {None}
    /\ object \in [Object -> Message]
    /\ spc \in [Msg -> {"new", "publish", "count", "sent", "failed"}]
    /\ ctxDone \subseteq Msg
    /\ wire \in [Msg -> Message \cup {None}]
    /\ sent \in Nat
    /\ failed \in Nat

\* SentCount and FailedCount account for every call: a call that has returned
\* was counted once, as sent if and only if the broker took its message,
\* although the broker is closed at any time.
CountersAccount ==
    /\ sent = Cardinality({m \in Msg : wire[m] # None})
              - Cardinality({m \in Msg : spc[m] = "count"})
    /\ sent + failed = Cardinality({m \in Msg : spc[m] \in {"sent", "failed"}})

\* The call that set the header compressed the value.
Packed(msg) == \E i \in DOMAIN msg.layers : msg.layers[i].by = msg.setBy

\* The compressors that undo what that call did: of the algorithm the header
\* names, and with a DecompressFunc if and only if that of the call had a
\* CompressFunc.
Reader(msg) == [alg : {msg.encoding}, compress : BOOLEAN, decompress : {Packed(msg)}]

\* What a consumer with compressor c gets from a message.
Decoded(c, msg) ==
    IF msg.encoding = None THEN msg.layers ELSE Decompress(c, msg.layers)

\* What was published can be read by its header: a compressor of the algorithm
\* that content-encoding names decodes the value, and what it gives back is free
\* of what the call itself did, whichever compressors were set before.  The
\* reader must have a DecompressFunc where the producer had a CompressFunc and
\* none where it had none: the header tells the algorithm, also if nothing was
\* compressed, and Compress and Decompress of one compressor are switched on
\* separately.  What is read need not be what the caller passed at first: a call
\* with a message that was sent before, also if that Publish failed, compresses
\* the compressed bytes, once per call, and the header keeps only the last name.
ReadableByHeader ==
    \A m \in Msg :
        wire[m] # None =>
            /\ \A c \in Reader(wire[m]) :
                   LET value == Decoded(c, wire[m])
                   IN  value # None /\ \A i \in DOMAIN value : value[i].by # m
            /\ \A i, j \in DOMAIN wire[m].layers :
                   wire[m].layers[i].by = wire[m].layers[j].by => i = j
=============================================================================
