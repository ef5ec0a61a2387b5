------------------------------- MODULE PubSub -------------------------------
(***************************************************************************)
(* What a message broker of this library promises its users, stated        *)
(* without locks, slices, handles or goroutines: the contract behind the   *)
(* MessageBroker interface (pkg/broker/broker.go).                         *)
(*                                                                         *)
(* A subscription is live from the moment it is created until it is        *)
(* cancelled, and it is created once.  Publishing a message to a topic     *)
(* owes it to exactly the subscriptions that are live on that topic at     *)
(* that instant; each owed message is handled exactly once, in any order,  *)
(* also when the subscription is cancelled in between.                     *)
(***************************************************************************)
CONSTANTS Topic,   \* topic names
          Msg,     \* one element per Publish call
          Sub      \* subscription identifiers

VARIABLES live,    \* live[t]: the subscriptions that receive what is published to t
          known,   \* the subscriptions ever created
          sent,    \* the messages published so far
          owed,    \* the <<subscription, message>> pairs still to be handled
          done,    \* the pairs that were handled
          halted   \* the process died

vars == <<live, known, sent, owed, done, halted>>

Init ==
    /\ live = [t \in Topic |-> {}]
    /\ known = {}
    /\ sent = {}
    /\ owed = {}
    /\ done = {}
    /\ halted = FALSE

Subscribe(s, t) ==
    /\ s \notin known
    /\ live' = [live EXCEPT ![t] = @ \cup {s}]
    /\ known' = known \cup {s}
    /\ UNCHANGED <<sent, owed, done, halted>>

\* Some subscriptions stop being live, for good.  A handle that is created
\* and cancelled by the same broker operation never becomes live.
Cancel ==
    /\ live' \in [Topic -> SUBSET Sub]
    /\ \A t \in Topic : live'[t] \subseteq live[t]
    /\ UNCHANGED <<known, sent, owed, done, halted>>

Publish(t, m) ==
    /\ m \notin sent
    /\ sent' = sent \cup {m}
    /\ owed' = owed \cup (live[t] \X {m})
    /\ UNCHANGED <<live, known, done, halted>>

Handle(s, m) ==
    /\ ~halted
    /\ <<s, m>> \in owed
    /\ owed' = owed \ {<<s, m>>}
    /\ done' = done \cup {<<s, m>>}
    /\ UNCHANGED <<live, known, sent, halted>>

Halt ==
    /\ halted' = TRUE
    /\ UNCHANGED <<live, known, sent, owed, done>>

Next ==
    \/ \E s \in Sub, t \in Topic : Subscribe(s, t)
    \/ Cancel
    \/ \E t \in Topic, m \in Msg : Publish(t, m)
    \/ \E s \in Sub, m \in Msg : Handle(s, m)
    \/ Halt

\* The safety half of the contract.
SafeSpec == Init /\ [][Next]_vars

\* The whole contract: while the process lives, what is owed gets handled.
Spec == SafeSpec /\ \A s \in Sub, m \in Msg : WF_vars(Handle(s, m))
=============================================================================
