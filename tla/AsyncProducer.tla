--------------------------- MODULE AsyncProducer ---------------------------
(***************************************************************************)
(* The asynchronous producer of pkg/producer/producer.go.                  *)
(*                                                                         *)
(* Send puts a message into a buffered channel, a background goroutine     *)
(* takes it out and publishes it, Stop closes stopCh and waits for the     *)
(* goroutine to drain the channel.  None of these hold a lock: an action   *)
(* is one atomic or channel operation, and calls overlap in every order.   *)
(* A select with several ready cases takes any of them.                    *)
(*                                                                         *)
(* The broker is any MessageBroker: Publish returns, with or without an    *)
(* error.  The serializer and the compressor are stored and never used.    *)
(***************************************************************************)
EXTENDS Naturals, Sequences, FiniteSets

CONSTANTS
    Msg,          \* messages, one per Send call
    Loop,         \* Start calls, each with the goroutine it may start
    Stopper,      \* Stop calls
    Cap,          \* bufferSize: the capacity of msgCh and of errCh
    NoMsg,        \* the hand of a goroutine that holds no message
    MayCancel     \* whether callers cancel the contexts they pass to Start

ASSUME ProducerAssumption ==
    /\ Cap \in Nat \ {0}
    /\ NoMsg \notin Msg
    /\ MayCancel \in BOOLEAN

VARIABLES
    running,      \* ap.running
    msgCh,        \* ap.msgCh
    errCh,        \* the number of errors in ap.errCh
    stopClosed,   \* ap.stopCh has been closed
    wg,           \* the counter of ap.wg
    panicked,     \* a goroutine panicked, which ends the process
    loopPc,       \* where a Start call and its goroutine are
    hand,         \* the message a goroutine has taken and not yet published
    ctxDone,      \* the context of a Start call is cancelled
    sendPc,       \* where a Send call is
    stopPc,       \* where a Stop call is
    sent,         \* ap.sent
    failed,       \* ap.failed
    queued,       \* history: the messages Send accepted, in order
    tried,        \* history: what each goroutine published, in order
    pending       \* history: what was queued when a Stop call found the producer
                  \* running, if no Start call was still in progress then

chans    == <<msgCh, errCh, stopClosed>>
counters == <<sent, failed>>
history  == <<queued, tried, pending>>
vars     == <<running, chans, wg, panicked, loopPc, hand, ctxDone, sendPc,
              stopPc, counters, history>>

LoopPc == {"off", "ignored", "starting", "select", "publish", "report",
           "drain", "drainPublish", "done"}
SendPc == {"new", "checked", "notStarted", "full", "queued"}
StopPc == {"new", "swapped", "closed", "waiting", "woken", "noop", "returned"}

\* A Start call with no goroutine: not made, without effect, or finished.
Gone == {"off", "ignored", "done"}

Init ==
    /\ running = FALSE
    /\ msgCh = <<>>
    /\ errCh = 0
    /\ stopClosed = FALSE
    /\ wg = 0
    /\ panicked = FALSE
    /\ loopPc = [l \in Loop |-> "off"]
    /\ hand = [l \in Loop |-> NoMsg]
    /\ ctxDone = [l \in Loop |-> FALSE]
    /\ sendPc = [m \in Msg |-> "new"]
    /\ stopPc = [s \in Stopper |-> "new"]
    /\ sent = 0
    /\ failed = 0
    /\ queued = <<>>
    /\ tried = [l \in Loop |-> <<>>]
    /\ pending = [s \in Stopper |-> {}]

-----------------------------------------------------------------------------
(* Start: Swap(true), then wg.Add(1) and the go statement.                 *)

StartSwap(l) ==
    /\ ~panicked
    /\ loopPc[l] = "off"
    /\ running' = TRUE
    /\ loopPc' = [loopPc EXCEPT ![l] = IF running THEN "ignored" ELSE "starting"]
    /\ UNCHANGED <<chans, wg, panicked, hand, ctxDone, sendPc, stopPc, counters, history>>

StartGo(l) ==
    /\ ~panicked
    /\ loopPc[l] = "starting"
    /\ wg' = wg + 1
    /\ loopPc' = [loopPc EXCEPT ![l] = "select"]
    /\ UNCHANGED <<running, chans, panicked, hand, ctxDone, sendPc, stopPc, counters, history>>

\* The caller of Start cancels the context it passed.  Nobody looks at it before
\* the Swap, in a Start that is ignored, or after the goroutine is gone.
Cancel(l) ==
    /\ ~panicked
    /\ MayCancel
    /\ ~ctxDone[l]
    /\ loopPc[l] \notin Gone
    /\ ctxDone' = [ctxDone EXCEPT ![l] = TRUE]
    /\ UNCHANGED <<running, chans, wg, panicked, loopPc, hand, sendPc, stopPc, counters, history>>

-----------------------------------------------------------------------------
(* sendLoop.                                                               *)

\* A receive from msgCh, in the outer or in the draining select.
Receive(l, from, to) ==
    /\ ~panicked
    /\ loopPc[l] = from
    /\ msgCh # <<>>
    /\ hand' = [hand EXCEPT ![l] = Head(msgCh)]
    /\ msgCh' = Tail(msgCh)
    /\ loopPc' = [loopPc EXCEPT ![l] = to]
    /\ UNCHANGED <<running, errCh, stopClosed, wg, panicked, ctxDone, sendPc,
                   stopPc, counters, history>>

LoopReceive(l) == Receive(l, "select", "publish")
DrainReceive(l) == Receive(l, "drain", "drainPublish")

\* broker.Publish returns ok, and the counter is incremented: a later atomic
\* operation, after which nothing but SentCount and FailedCount asks.
Published(l, ok) ==
    /\ tried' = [tried EXCEPT ![l] = Append(@, hand[l])]
    /\ hand' = [hand EXCEPT ![l] = NoMsg]
    /\ IF ok THEN sent' = sent + 1 /\ UNCHANGED failed
             ELSE failed' = failed + 1 /\ UNCHANGED sent
    /\ UNCHANGED <<running, chans, wg, panicked, ctxDone, sendPc, stopPc, queued, pending>>

\* Mutant: the message in hand is dropped when the context is done.
LoopPublishDropped(l, ok) ==
    /\ ~panicked
    /\ loopPc[l] = "publish"
    /\ loopPc' = [loopPc EXCEPT ![l] = IF ok \/ ctxDone[l] THEN "select" ELSE "report"]
    /\ IF ctxDone[l]
       THEN /\ hand' = [hand EXCEPT ![l] = NoMsg]
            /\ UNCHANGED <<running, chans, wg, panicked, ctxDone, sendPc, stopPc,
                           counters, history>>
       ELSE Published(l, ok)

\* Mutant: a message that failed goes back to the queue if there is room.
LoopPublishRequeue(l, ok) ==
    /\ ~panicked
    /\ loopPc[l] = "publish"
    /\ IF ok \/ Len(msgCh) = Cap
       THEN /\ loopPc' = [loopPc EXCEPT ![l] = IF ok THEN "select" ELSE "report"]
            /\ Published(l, ok)
       ELSE /\ loopPc' = [loopPc EXCEPT ![l] = "select"]
            /\ msgCh' = Append(msgCh, hand[l])
            /\ hand' = [hand EXCEPT ![l] = NoMsg]
            /\ UNCHANGED <<running, errCh, stopClosed, wg, panicked, ctxDone, sendPc,
                           stopPc, counters, history>>

LoopPublish(l, ok) ==
    /\ ~panicked
    /\ loopPc[l] = "publish"
    /\ loopPc' = [loopPc EXCEPT ![l] = IF ok THEN "select" ELSE "report"]
    /\ Published(l, ok)

\* Mutant: the send to errCh has no default case.
LoopReportBlocking(l) ==
    /\ ~panicked
    /\ loopPc[l] = "report"
    /\ errCh < Cap
    /\ errCh' = errCh + 1
    /\ loopPc' = [loopPc EXCEPT ![l] = "select"]
    /\ UNCHANGED <<running, msgCh, stopClosed, wg, panicked, hand, ctxDone, sendPc,
                   stopPc, counters, history>>

\* The error is dropped when errCh is full.
LoopReport(l) ==
    /\ ~panicked
    /\ loopPc[l] = "report"
    /\ errCh' = IF errCh < Cap THEN errCh + 1 ELSE errCh
    /\ loopPc' = [loopPc EXCEPT ![l] = "select"]
    /\ UNCHANGED <<running, msgCh, stopClosed, wg, panicked, hand, ctxDone, sendPc,
                   stopPc, counters, history>>

LoopStop(l) ==
    /\ ~panicked
    /\ loopPc[l] = "select"
    /\ stopClosed
    /\ loopPc' = [loopPc EXCEPT ![l] = "drain"]
    /\ UNCHANGED <<running, chans, wg, panicked, hand, ctxDone, sendPc, stopPc,
                   counters, history>>

\* The errors of the draining loop are counted and not reported.
DrainPublish(l, ok) ==
    /\ ~panicked
    /\ loopPc[l] = "drainPublish"
    /\ loopPc' = [loopPc EXCEPT ![l] = "drain"]
    /\ Published(l, ok)

\* The deferred wg.Done: at zero it releases every waiter.
Exit(l) ==
    /\ wg' = wg - 1
    /\ loopPc' = [loopPc EXCEPT ![l] = "done"]
    /\ stopPc' = [s \in Stopper |-> IF stopPc[s] = "waiting" /\ wg = 1
                                    THEN "woken" ELSE stopPc[s]]
    /\ UNCHANGED <<running, chans, panicked, hand, ctxDone, sendPc, counters, history>>

\* Mutant: a stop ends the loop at once, as a cancelled context does.
DrainDoneEarly(l) ==
    /\ ~panicked
    /\ loopPc[l] = "drain"
    /\ Exit(l)

DrainDone(l) ==
    /\ ~panicked
    /\ loopPc[l] = "drain"
    /\ msgCh = <<>>
    /\ Exit(l)

LoopCancelled(l) ==
    /\ ~panicked
    /\ loopPc[l] = "select"
    /\ ctxDone[l]
    /\ Exit(l)

-----------------------------------------------------------------------------
(* Send: running.Load(), then the non-blocking send.                       *)

SendCheck(m) ==
    /\ ~panicked
    /\ sendPc[m] = "new"
    /\ sendPc' = [sendPc EXCEPT ![m] = IF running THEN "checked" ELSE "notStarted"]
    /\ UNCHANGED <<running, chans, wg, panicked, loopPc, hand, ctxDone, stopPc,
                   counters, history>>

\* Mutant: the capacity check is off by one.
HasRoomOneMore == Len(msgCh) <= Cap

HasRoom == Len(msgCh) < Cap

SendOffer(m) ==
    /\ ~panicked
    /\ sendPc[m] = "checked"
    /\ IF HasRoom
       THEN /\ msgCh' = Append(msgCh, m)
            /\ sendPc' = [sendPc EXCEPT ![m] = "queued"]
            /\ queued' = Append(queued, m)
       ELSE /\ sendPc' = [sendPc EXCEPT ![m] = "full"]
            /\ UNCHANGED <<msgCh, queued>>
    /\ UNCHANGED <<running, errCh, stopClosed, wg, panicked, loopPc, hand, ctxDone,
                   stopPc, counters, tried, pending>>

\* A caller receives from the channel Errors() returned.
TakeError ==
    /\ ~panicked
    /\ errCh > 0
    /\ errCh' = errCh - 1
    /\ UNCHANGED <<running, msgCh, stopClosed, wg, panicked, loopPc, hand, ctxDone,
                   sendPc, stopPc, counters, history>>

-----------------------------------------------------------------------------
(* Stop: Swap(false), close(stopCh), wg.Wait().                            *)

StopSwap(s) ==
    /\ ~panicked
    /\ stopPc[s] = "new"
    /\ running' = FALSE
    /\ stopPc' = [stopPc EXCEPT ![s] = IF running THEN "swapped" ELSE "noop"]
    /\ pending' = [pending EXCEPT ![s] =
           IF ~running \/ \E l \in Loop : loopPc[l] = "starting" THEN {}
           ELSE {queued[i] : i \in DOMAIN queued}]
    /\ UNCHANGED <<chans, wg, panicked, loopPc, hand, ctxDone, sendPc, counters,
                   queued, tried>>

\* stopCh is made once, by NewAsyncProducer, and closed by every Stop that
\* finds the producer running.
StopClose(s) ==
    /\ ~panicked
    /\ stopPc[s] = "swapped"
    /\ IF stopClosed
       THEN panicked' = TRUE /\ UNCHANGED <<stopClosed, stopPc>>
       ELSE /\ stopClosed' = TRUE
            /\ stopPc' = [stopPc EXCEPT ![s] = "closed"]
            /\ UNCHANGED panicked
    /\ UNCHANGED <<running, msgCh, errCh, wg, loopPc, hand, ctxDone, sendPc,
                   counters, history>>

StopWait(s) ==
    /\ ~panicked
    /\ stopPc[s] = "closed"
    /\ stopPc' = [stopPc EXCEPT ![s] = IF wg = 0 THEN "returned" ELSE "waiting"]
    /\ UNCHANGED <<running, chans, wg, panicked, loopPc, hand, ctxDone, sendPc,
                   counters, history>>

\* sync.WaitGroup panics when a released waiter finds that a new wg.Add came
\* before it ran ("WaitGroup is reused before previous Wait has returned").
StopReturn(s) ==
    /\ ~panicked
    /\ stopPc[s] = "woken"
    /\ IF wg # 0
       THEN panicked' = TRUE /\ UNCHANGED stopPc
       ELSE stopPc' = [stopPc EXCEPT ![s] = "returned"] /\ UNCHANGED panicked
    /\ UNCHANGED <<running, chans, wg, loopPc, hand, ctxDone, sendPc, counters, history>>

-----------------------------------------------------------------------------
LoopStep(l) ==
    \/ StartGo(l)
    \/ LoopReceive(l)
    \/ \E ok \in BOOLEAN : LoopPublish(l, ok)
    \/ LoopReport(l)
    \/ LoopStop(l)
    \/ DrainReceive(l)
    \/ \E ok \in BOOLEAN : DrainPublish(l, ok)
    \/ DrainDone(l)
    \/ LoopCancelled(l)

StopStep(s) == StopClose(s) \/ StopWait(s) \/ StopReturn(s)

Next ==
    \/ \E l \in Loop : StartSwap(l) \/ Cancel(l) \/ LoopStep(l)
    \/ \E m \in Msg : SendCheck(m) \/ SendOffer(m)
    \/ \E s \in Stopper : StopSwap(s) \/ StopStep(s)
    \/ TakeError

Spec == Init /\ [][Next]_vars

\* A goroutine that can run does: the scheduler is fair, and broker.Publish
\* returns.  Nobody has to call Start, Send or Stop, cancel a context or read
\* errors.
Fairness ==
    /\ \A l \in Loop : WF_vars(LoopStep(l))
    /\ \A m \in Msg : WF_vars(SendOffer(m))
    /\ \A s \in Stopper : WF_vars(StopStep(s))

FairSpec == Spec /\ Fairness

-----------------------------------------------------------------------------
(* Properties.                                                             *)

\* The type invariant; the channels stay within their capacity.
TypeOK ==
    /\ running \in BOOLEAN
    /\ msgCh \in Seq(Msg) /\ Len(msgCh) <= Cap
    /\ errCh \in 0..Cap
    /\ stopClosed \in BOOLEAN
    /\ wg \in Nat
    /\ panicked \in BOOLEAN
    /\ loopPc \in [Loop -> LoopPc]
    /\ hand \in [Loop -> Msg \cup {NoMsg}]
    /\ ctxDone \in [Loop -> BOOLEAN]
    /\ sendPc \in [Msg -> SendPc]
    /\ stopPc \in [Stopper -> StopPc]
    /\ sent \in Nat
    /\ failed \in Nat
    /\ queued \in Seq(Msg)
    /\ tried \in [Loop -> Seq(Msg)]
    /\ pending \in [Stopper -> SUBSET Msg]

\* The places a message can be: a slot of msgCh, the hand of a goroutine, or
\* among the messages a goroutine has given to the broker.
Places(m) ==
    ({"queue"} \X {i \in DOMAIN msgCh : msgCh[i] = m})
        \cup ({"hand"} \X {l \in Loop : hand[l] = m})
        \cup ({"tried"} \X UNION {{l} \X {i \in DOMAIN tried[l] : tried[l][i] = m} :
                                  l \in Loop})

\* No message is lost or published twice, not even across an overlapping
\* Start, a cancelled context or a full buffer: a message whose Send returned
\* nil is in exactly one place, and one whose Send failed is nowhere.
Conservation ==
    \A m \in Msg : Cardinality(Places(m)) = IF sendPc[m] = "queued" THEN 1 ELSE 0

\* A goroutine publishes in the order in which the messages were accepted,
\* across the switch from the send loop to the draining loop.
InOrder ==
    \A l \in Loop : \A i, j \in DOMAIN tried[l] : \A p, q \in DOMAIN queued :
        /\ i < j
        /\ queued[p] = tried[l][i]
        /\ queued[q] = tried[l][j]
        => p < q

Attempted(m) == \E l \in Loop : \E i \in DOMAIN tried[l] : tried[l][i] = m

\* What Stop can promise: when it returns, every message whose Send had
\* returned nil before Stop was called has been given to the broker, provided
\* that Start had returned by then (otherwise wg may still be zero and Stop has
\* nothing to wait for) and that the context of Start was not cancelled.
StopDrainsPending ==
    \A s \in Stopper :
        stopPc[s] = "returned" /\ (\A l \in Loop : ~ctxDone[l])
            => \A m \in pending[s] : Attempted(m)

\* Two Start calls found the producer stopped.
Restarted == \E l, k \in Loop : l # k /\ {loopPc[l], loopPc[k]} \cap {"off", "ignored"} = {}

\* Every Stop call returns, however many goroutines call it, although nobody
\* reads the errors: no Stop is left waiting on the WaitGroup and none panics,
\* unless the producer was restarted, which closes stopCh twice or calls wg.Add
\* while a Stop is still in wg.Wait.
StopReturns ==
    \A s \in Stopper :
        stopPc[s] = "swapped" ~> stopPc[s] = "returned" \/ Restarted

\* A message accepted while the producer runs is given to the broker, unless
\* the context of Start is cancelled.
SendIsAttempted ==
    \A m \in Msg :
        sendPc[m] = "queued" /\ running ~>
            Attempted(m) \/ Restarted \/ \E l \in Loop : ctxDone[l]

-----------------------------------------------------------------------------
(* What the repository says of the producer and the code does not do.      *)

\* "Stop stops the producer and waits for pending messages to drain."
\* (producer.go): once Stop has returned and the goroutines are gone, every
\* message Send accepted was given to the broker.
NothingStranded ==
    (\E s \in Stopper : stopPc[s] = "returned") /\ (\A l \in Loop : loopPc[l] \in Gone)
        => \A m \in Msg : sendPc[m] = "queued" => Attempted(m)
=============================================================================
