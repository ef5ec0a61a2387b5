------------------------------ MODULE Pipeline ------------------------------
(***************************************************************************)
(* From SyncProducer.Send to the handler of a batch: the composition of    *)
(* SyncProducer, the InMemoryBroker and BatchConsumer that                 *)
(* docs/USER_GUIDE.md describes under "Batch Processing",                  *)
(*     sub, _ := b.Subscribe(ctx, "metrics", bc.AsHandler())               *)
(* A Publish starts a goroutine for the subscription, which calls Add at   *)
(* any later time, also when the consumer has been stopped.  Close drops   *)
(* the subscription, and a later Connect does not bring it back.           *)
(***************************************************************************)
EXTENDS SyncProducer

CONSTANTS Loop, Stopper, Flusher, BatchSize, MayCancel    \* of BatchConsumer

VARIABLES
    goroutines,   \* the deliveries that have not called the handler
    routed,       \* history: the messages published to the subscription
    startDone,    \* ctxDone of BatchConsumer: the contexts given to Start
    buffer, flushCh, stopClosed, running, panicked, addPc, pc, hand,
    added, taken, handled, before

B == INSTANCE BatchConsumer WITH ctxDone <- startDone

ASSUME PipelineAssumption == B!BatchAssumption

delivery == <<goroutines, routed>>
consumer == <<startDone, buffer, flushCh, stopClosed, running, panicked, addPc, pc,
              hand, added, taken, handled, before>>
vars     == <<syncVars, delivery, consumer>>

Init ==
    /\ SyncInit
    /\ goroutines = {}
    /\ routed = {}
    /\ B!Init

Produce ==
    /\ ~panicked
    /\ SyncStep
    /\ UNCHANGED <<delivery, consumer>>

Publish(m) ==
    /\ ~panicked
    /\ SendPublish(m)
    /\ IF stopped
       THEN UNCHANGED delivery
       ELSE goroutines' = goroutines \cup {m} /\ routed' = routed \cup {m}
    /\ UNCHANGED consumer

\* The handler AsHandler returned: Add, in the goroutine of the delivery.
Deliver(m) ==
    /\ m \in goroutines
    /\ B!AddAppend(m)
    /\ goroutines' = goroutines \ {m}
    /\ UNCHANGED <<routed, syncVars>>

Consume == B!ConsumerStep /\ UNCHANGED <<syncVars, delivery>>

Next ==
    \/ Produce
    \/ \E m \in Msg : Publish(m)
    \/ \E m \in Msg : Deliver(m)
    \/ Consume

Spec == Init /\ [][Next]_vars

\* The scheduler runs the goroutines of the broker and of the consumer, the
\* ticker keeps firing and the handler of the batches returns.
Fairness ==
    /\ \A m \in Msg : WF_vars(Deliver(m))
    /\ \A m \in Msg : WF_vars(B!AddSignal(m) /\ Consume)
    /\ \A l \in Loop : WF_vars(B!LoopSelect(l) /\ Consume)
    /\ \A a \in B!Actor : WF_vars(B!FlushStep(a) /\ Consume)
    /\ \A s \in Stopper : WF_vars(B!StopClose(s) /\ Consume)

FairSpec == Spec /\ Fairness

-----------------------------------------------------------------------------
(* Properties.                                                             *)

\* The places a message can be between the broker and its handler's return: a
\* message that is twice in the buffer or in a batch is at two places.
Places(m) ==
    {<<"goroutine", g>> : g \in goroutines \cap {m}}
    \cup {<<"buffer", i>> : i \in {j \in DOMAIN buffer : buffer[j] = m}}
    \cup (UNION {{<<"hand", a, i>> : i \in {j \in DOMAIN hand[a] : hand[a][j] = m}} :
                     a \in B!Actor})
    \cup {<<"handled", h>> : h \in handled \cap {m}}

\* From end to end no message is lost or duplicated: one that was published to
\* the subscription is in exactly one place (its goroutine, the buffer, a batch
\* in somebody's hand, or handled), any other is in none, and no counter of the
\* producer says otherwise.  It takes the broker's goroutines, Add and the
\* Flushes of three actors together.
OnePlace ==
    /\ \A m \in Msg : Cardinality(Places(m)) = IF m \in routed THEN 1 ELSE 0
    /\ routed \subseteq {m \in Msg : wire[m] # None}
    /\ Cardinality(handled) <= sent + Cardinality({m \in Msg : spc[m] = "count"})

\* A message that was published to the subscription is handled, unless the
\* goroutine of the consumer has ended or was never started: Add does not look
\* at running, and a delivery that comes after the last Flush stays in the
\* buffer.
PublishedIsHandled ==
    \A m \in Msg :
        m \in routed ~>
            m \in handled \/ \A l \in Loop : pc[l] \in {"off", "ignored", "done"}

\* What AddedIsHandled of BatchConsumer says of messages added directly, for
\* those a broker delivers.
AddedIsHandled == B!AddedIsHandled
=============================================================================
