--------------------------- MODULE BatchConsumer ---------------------------
(***************************************************************************)
(* The batch consumer of pkg/consumer/consumer.go.                         *)
(*                                                                         *)
(* Add appends to a buffer under bc.mu and, after unlocking, signals a     *)
(* channel of capacity one when the batch is full.  Flush takes the buffer *)
(* under bc.mu and calls the handler after unlocking; it is called by the  *)
(* background goroutine (on a tick, on a signal and on its way out), by    *)
(* Stop, and by users.  An action is one critical section, one channel     *)
(* operation or the return of the handler.                                 *)
(*                                                                         *)
(* The ticker may fire whenever the goroutine waits in its select.  The    *)
(* handler's error is dropped by the goroutine and returned by the other   *)
(* callers of Flush; the batch is gone in both cases.                      *)
(***************************************************************************)
EXTENDS Naturals, Sequences, FiniteSets

CONSTANTS
    Msg,          \* messages, one per Add call
    Loop,         \* Start calls, each with the goroutine it may start
    Stopper,      \* Stop calls
    Flusher,      \* calls of Flush by users
    BatchSize,    \* bc.batchSize, at least 1 after NewBatchConsumer
    MayCancel     \* whether callers cancel the contexts they pass to Start

ASSUME BatchAssumption ==
    /\ BatchSize \in Nat \ {0}
    /\ MayCancel \in BOOLEAN
    /\ Loop \cap Stopper = {}
    /\ Loop \cap Flusher = {}
    /\ Stopper \cap Flusher = {}

VARIABLES
    buffer,       \* bc.buffer
    flushCh,      \* the number of signals in bc.flushCh, which has room for one
    stopClosed,   \* bc.stopCh has been closed
    running,      \* bc.running
    panicked,     \* a goroutine panicked, which ends the process
    ctxDone,      \* the context of a Start call is cancelled
    addPc,        \* where an Add call is
    pc,           \* where a goroutine, a Stop call or a Flush call is
    hand,         \* the batch a caller of Flush has taken
    added,        \* history: the messages in the order of their Add
    taken,        \* history: the messages in the order in which Flush took them
    handled,      \* history: the messages the handler has returned for
    before        \* history: what had been added when a Stop call began

Actor == Loop \cup Stopper \cup Flusher

chan    == <<flushCh, stopClosed>>
history == <<added, taken, handled, before>>
vars    == <<buffer, chan, running, panicked, ctxDone, addPc, pc, hand, history>>

AddPc == {"new", "signal", "returned"}

\* "flush" and "handling" are a Flush in progress, "lastFlush" and
\* "lastHandling" one after which the actor is done.
Pc == {"off", "ignored", "select", "flush", "handling", "swapped",
       "lastFlush", "lastHandling", "done"}

Elems(q) == {q[i] : i \in DOMAIN q}

Init ==
    /\ buffer = <<>>
    /\ flushCh = 0
    /\ stopClosed = FALSE
    /\ running = FALSE
    /\ panicked = FALSE
    /\ ctxDone = [l \in Loop |-> FALSE]
    /\ addPc = [m \in Msg |-> "new"]
    /\ pc = [a \in Actor |-> "off"]
    /\ hand = [a \in Actor |-> <<>>]
    /\ added = <<>>
    /\ taken = <<>>
    /\ handled = {}
    /\ before = [s \in Stopper |-> {}]

-----------------------------------------------------------------------------
(* Add (and AsHandler's handler, which calls it).                          *)

AddAppend(m) ==
    /\ ~panicked
    /\ addPc[m] = "new"
    /\ buffer' = Append(buffer, m)
    /\ added' = Append(added, m)
    /\ addPc' = [addPc EXCEPT ![m] =
           IF Len(buffer) + 1 >= BatchSize THEN "signal" ELSE "returned"]
    /\ UNCHANGED <<chan, running, panicked, ctxDone, pc, hand, taken, handled, before>>

\* Mutant: flushCh has no buffer, so the signal is dropped while nobody waits.
SignalledUnbuffered == IF \E l \in Loop : pc[l] = "select" THEN 1 ELSE flushCh

\* Mutant: the signals are counted.
SignalledCounted == flushCh + 1

\* The select with a default case: a signal that finds no room is dropped.
Signalled == IF flushCh < 1 THEN flushCh + 1 ELSE flushCh

\* The non-blocking send to flushCh.
AddSignal(m) ==
    /\ ~panicked
    /\ addPc[m] = "signal"
    /\ flushCh' = Signalled
    /\ addPc' = [addPc EXCEPT ![m] = "returned"]
    /\ UNCHANGED <<buffer, stopClosed, running, panicked, ctxDone, pc, hand, history>>

-----------------------------------------------------------------------------
(* Flush, by an actor whose program counter says where it returns to.      *)

After(p) == CASE p \in {"flush", "handling"} -> "select"
              [] p \in {"lastFlush", "lastHandling"} -> "done"

Handling(p) == IF p = "flush" THEN "handling" ELSE "lastHandling"

\* Mutant: the last message is cut off the batch (buffer[:len-1]).
BatchShort == SubSeq(buffer, 1, Len(buffer) - 1)

\* batch := bc.buffer
Batch == buffer

\* The critical section: an empty buffer makes Flush return at once.
FlushTake(a) ==
    /\ ~panicked
    /\ pc[a] \in {"flush", "lastFlush"}
    /\ buffer' = <<>>
    /\ IF buffer = <<>>
       THEN /\ pc' = [pc EXCEPT ![a] = After(pc[a])]
            /\ UNCHANGED <<hand, taken>>
       ELSE /\ pc' = [pc EXCEPT ![a] = Handling(pc[a])]
            /\ hand' = [hand EXCEPT ![a] = Batch]
            /\ taken' = taken \o Batch
    /\ UNCHANGED <<chan, running, panicked, ctxDone, addPc, added, handled, before>>

\* The handler returns, with or without an error.
HandlerReturn(a) ==
    /\ ~panicked
    /\ pc[a] \in {"handling", "lastHandling"}
    /\ handled' = handled \cup Elems(hand[a])
    /\ hand' = [hand EXCEPT ![a] = <<>>]
    /\ pc' = [pc EXCEPT ![a] = After(pc[a])]
    /\ UNCHANGED <<buffer, chan, running, panicked, ctxDone, addPc, added, taken, before>>

\* A user calls Flush.
UserFlush(f) ==
    /\ ~panicked
    /\ pc[f] = "off"
    /\ pc' = [pc EXCEPT ![f] = "lastFlush"]
    /\ UNCHANGED <<buffer, chan, running, panicked, ctxDone, addPc, hand, history>>

-----------------------------------------------------------------------------
(* Start and its goroutine.                                                *)

Start(l) ==
    /\ ~panicked
    /\ pc[l] = "off"
    /\ running' = TRUE
    /\ pc' = [pc EXCEPT ![l] = IF running THEN "ignored" ELSE "select"]
    /\ UNCHANGED <<buffer, chan, panicked, ctxDone, addPc, hand, history>>

\* Mutant: the goroutine has no ticker.
LoopTickNever(l) == l \notin Loop

LoopTick(l) ==
    /\ ~panicked
    /\ pc[l] = "select"
    /\ pc' = [pc EXCEPT ![l] = "flush"]
    /\ UNCHANGED <<buffer, chan, running, panicked, ctxDone, addPc, hand, history>>

LoopSignal(l) ==
    /\ ~panicked
    /\ pc[l] = "select"
    /\ flushCh > 0
    /\ flushCh' = flushCh - 1
    /\ pc' = [pc EXCEPT ![l] = "flush"]
    /\ UNCHANGED <<buffer, stopClosed, running, panicked, ctxDone, addPc, hand, history>>

LoopStop(l) ==
    /\ ~panicked
    /\ pc[l] = "select"
    /\ stopClosed
    /\ pc' = [pc EXCEPT ![l] = "lastFlush"]
    /\ UNCHANGED <<buffer, chan, running, panicked, ctxDone, addPc, hand, history>>

\* Mutant: the goroutine returns on ctx.Done() without the last flush.
LoopCancelledNoFlush(l) ==
    /\ ~panicked
    /\ pc[l] = "select"
    /\ ctxDone[l]
    /\ pc' = [pc EXCEPT ![l] = "done"]
    /\ UNCHANGED <<buffer, chan, running, panicked, ctxDone, addPc, hand, history>>

\* running stays true: nobody tells the consumer that its goroutine is gone.
LoopCancelled(l) ==
    /\ ~panicked
    /\ pc[l] = "select"
    /\ ctxDone[l]
    /\ pc' = [pc EXCEPT ![l] = "lastFlush"]
    /\ UNCHANGED <<buffer, chan, running, panicked, ctxDone, addPc, hand, history>>

\* The caller of Start cancels the context it passed.
Cancel(l) ==
    /\ ~panicked
    /\ MayCancel
    /\ ~ctxDone[l]
    /\ ctxDone' = [ctxDone EXCEPT ![l] = TRUE]
    /\ UNCHANGED <<buffer, chan, running, panicked, addPc, pc, hand, history>>

-----------------------------------------------------------------------------
(* Stop: Swap(false), close(stopCh), Flush.                                *)

StopSwap(s) ==
    /\ ~panicked
    /\ pc[s] = "off"
    /\ running' = FALSE
    /\ pc' = [pc EXCEPT ![s] = IF running THEN "swapped" ELSE "ignored"]
    /\ before' = [before EXCEPT ![s] = Elems(added)]
    /\ UNCHANGED <<buffer, chan, panicked, ctxDone, addPc, hand, added, taken, handled>>

\* Mutant: Stop leaves the rest to the goroutine.
StopCloseNoFlush(s) ==
    /\ ~panicked
    /\ pc[s] = "swapped"
    /\ IF stopClosed
       THEN panicked' = TRUE /\ UNCHANGED <<stopClosed, pc>>
       ELSE /\ stopClosed' = TRUE
            /\ pc' = [pc EXCEPT ![s] = "done"]
            /\ UNCHANGED panicked
    /\ UNCHANGED <<buffer, flushCh, running, ctxDone, addPc, hand, history>>

\* stopCh is made once, by NewBatchConsumer, and closed by every Stop that
\* finds the consumer running.
StopClose(s) ==
    /\ ~panicked
    /\ pc[s] = "swapped"
    /\ IF stopClosed
       THEN panicked' = TRUE /\ UNCHANGED <<stopClosed, pc>>
       ELSE /\ stopClosed' = TRUE
            /\ pc' = [pc EXCEPT ![s] = "lastFlush"]
            /\ UNCHANGED panicked
    /\ UNCHANGED <<buffer, flushCh, running, ctxDone, addPc, hand, history>>

-----------------------------------------------------------------------------
LoopSelect(l) == LoopTick(l) \/ LoopSignal(l) \/ LoopStop(l) \/ LoopCancelled(l)

FlushStep(a) == FlushTake(a) \/ HandlerReturn(a)

\* Everything but the call of Add.
ConsumerStep ==
    \/ \E m \in Msg : AddSignal(m)
    \/ \E l \in Loop : Start(l) \/ Cancel(l) \/ LoopSelect(l)
    \/ \E s \in Stopper : StopSwap(s) \/ StopClose(s)
    \/ \E f \in Flusher : UserFlush(f)
    \/ \E a \in Actor : FlushStep(a)

Next ==
    \/ \E m \in Msg : AddAppend(m)
    \/ ConsumerStep

Spec == Init /\ [][Next]_vars

-----------------------------------------------------------------------------
(* Properties.                                                             *)

\* The type invariant.
TypeOK ==
    /\ buffer \in Seq(Msg)
    /\ flushCh \in 0..1
    /\ stopClosed \in BOOLEAN
    /\ running \in BOOLEAN
    /\ panicked \in BOOLEAN
    /\ ctxDone \in [Loop -> BOOLEAN]
    /\ addPc \in [Msg -> AddPc]
    /\ pc \in [Actor -> Pc]
    /\ hand \in [Actor -> Seq(Msg)]
    /\ added \in Seq(Msg)
    /\ taken \in Seq(Msg)
    /\ handled \subseteq Msg
    /\ before \in [Stopper -> SUBSET Msg]

\* The batches are the messages in the order of their Add, each exactly once,
\* whichever of the goroutine, Stop and Flush takes them: what was taken,
\* followed by what is in the buffer, is what was added, and what was taken is
\* in the hand of exactly one of them until the handler has returned for it.
\* An Add between two Flushes is never lost with the buffer that is replaced.
BatchesAreTheStream ==
    /\ taken \o buffer = added
    /\ Elems(taken) = handled \cup UNION {Elems(hand[a]) : a \in Actor}
    /\ \A a \in Actor :
           /\ Elems(hand[a]) \cap handled = {}
           /\ \A b \in Actor : a # b => Elems(hand[a]) \cap Elems(hand[b]) = {}

\* No wake-up is lost: whenever a full batch is in the buffer, a signal is in
\* flushCh, an Add is about to send one, or a Flush is about to take the
\* buffer, although the signal is sent after bc.mu was released and is dropped
\* when one is already there.
NoLostWakeUp ==
    Len(buffer) >= BatchSize =>
        \/ flushCh > 0
        \/ \E m \in Msg : addPc[m] = "signal"
        \/ \E a \in Actor : pc[a] \in {"flush", "lastFlush"}

\* When Stop returns, every message added before it was called has left the
\* buffer: some Flush has given it to the handler.
StopFlushesBuffer ==
    \A s \in Stopper : pc[s] = "done" => before[s] \cap Elems(buffer) = {}

\* Two Start calls found the consumer stopped.
Restarted == \E l, k \in Loop : l # k /\ {pc[l], pc[k]} \cap {"off", "ignored"} = {}

\* A message added while the goroutine waits in its select is handled, also
\* when the goroutine is stopped or its context is cancelled before the tick,
\* and however many goroutines call Stop: only a consumer that was restarted
\* closes stopCh twice and panics.
AddedIsHandled ==
    \A m \in Msg :
        m \in Elems(buffer) /\ (\E l \in Loop : pc[l] = "select")
            ~> m \in handled \/ Restarted
=============================================================================
