-------------------------- MODULE AdapterProducer --------------------------
(***************************************************************************)
(* The publish side of the broker adapters: Producer of                    *)
(* pkg/kafka/kafka.go, which Producer of pkg/rabbitmq/rabbitmq.go repeats  *)
(* line by line.                                                           *)
(*                                                                         *)
(* connected and closed are atomics that are read and written without a    *)
(* lock; p.mu guards publishFn, the injected client, which is copied under *)
(* the lock and called after the unlock.  The client is code of the user:  *)
(* it may call SetPublishFunc itself, to replace itself after a failure.   *)
(* IsConnected reads connected, then closed; as closed is never cleared    *)
(* and connected is cleared only after closed is set, its answer is that   *)
(* of one instant.  A call that is refused before IsConnected, or because  *)
(* of an invalid configuration, changes nothing.                           *)
(***************************************************************************)
EXTENDS Naturals, Sequences

CONSTANTS
    Msg,        \* messages, one per Publish call
    Fn,         \* client functions
    NoFn,       \* nil
    Caller,     \* goroutines that call Connect and Close
    MaxSets     \* bound: the functions that are installed from outside

ASSUME ProducerAssumption ==
    /\ NoFn \notin Fn
    /\ MaxSets \in Nat

VARIABLES
    connected,        \* p.connected
    closed,           \* p.closed
    publishFn,        \* p.publishFn
    readers,          \* the Publish calls that hold p.mu.RLock
    pubPc,            \* where a Publish call is
    fn,               \* its copy of publishFn
    callPc,           \* where a caller is in Connect or Close
    installed,        \* history: what publishFn was, from nil on
    from,             \* history: how many of these had been when Publish was called
    closeReturned,    \* history: some Close has returned
    late,             \* history: the messages published after that
    handed            \* history: the messages the client was called with

flags   == <<connected, closed>>
client  == <<publishFn, installed>>
calls   == <<readers, pubPc, fn>>
history == <<from, late, handed>>
vars    == <<flags, client, calls, callPc, history, closeReturned>>

PubPc == {"new", "checked", "locked", "call", "clientSet", "nil", "error"}

Init ==
    /\ connected = FALSE
    /\ closed = FALSE
    /\ publishFn = NoFn
    /\ readers = {}
    /\ pubPc = [m \in Msg |-> "new"]
    /\ fn = [m \in Msg |-> NoFn]
    /\ callPc = [c \in Caller |-> "idle"]
    /\ installed = <<NoFn>>
    /\ from = [m \in Msg |-> 1]
    /\ closeReturned = FALSE
    /\ late = {}
    /\ handed = {}

-----------------------------------------------------------------------------
(* SetPublishFunc, under p.mu.                                             *)

\* Mutant: only the first function is kept.
InstallFirst(f) ==
    /\ readers = {}
    /\ publishFn' = IF publishFn = NoFn THEN f ELSE publishFn
    /\ installed' = Append(installed, f)

Install(f) ==
    /\ readers = {}
    /\ publishFn' = f
    /\ installed' = Append(installed, f)

SetPublishFunc(f) ==
    /\ Len(installed) <= MaxSets
    /\ Install(f)
    /\ UNCHANGED <<flags, calls, callPc, history, closeReturned>>

-----------------------------------------------------------------------------
(* Connect and Close.                                                      *)

\* Connect loads connected, and stores it once the configuration is found valid.
ConnectCheck(c) ==
    /\ callPc[c] = "idle"
    /\ ~connected
    /\ callPc' = [callPc EXCEPT ![c] = "connectStore"]
    /\ UNCHANGED <<flags, client, calls, history, closeReturned>>

ConnectStore(c) ==
    /\ callPc[c] = "connectStore"
    /\ connected' = TRUE
    /\ callPc' = [callPc EXCEPT ![c] = "idle"]
    /\ UNCHANGED <<closed, client, calls, history, closeReturned>>

\* closed.Swap(true): a call that finds it set returns at once, also while the
\* call that set it has not cleared connected yet.
CloseSwap(c) ==
    /\ callPc[c] = "idle"
    /\ closed' = TRUE
    /\ IF closed
       THEN closeReturned' = TRUE /\ UNCHANGED callPc
       ELSE /\ callPc' = [callPc EXCEPT ![c] = "closeStore"]
            /\ UNCHANGED closeReturned
    /\ UNCHANGED <<connected, client, calls, history>>

CloseStore(c) ==
    /\ callPc[c] = "closeStore"
    /\ connected' = FALSE
    /\ closeReturned' = TRUE
    /\ callPc' = [callPc EXCEPT ![c] = "idle"]
    /\ UNCHANGED <<closed, client, calls, history>>

-----------------------------------------------------------------------------
(* Publish.                                                                *)

\* Mutant: closed is not looked at.
IsConnectedFlag == connected

IsConnected == connected /\ ~closed

\* The call, and its check; ErrNotConnected if that fails.
PublishCheck(m) ==
    /\ pubPc[m] = "new"
    /\ pubPc' = [pubPc EXCEPT ![m] = IF IsConnected THEN "checked" ELSE "error"]
    /\ from' = [from EXCEPT ![m] = Len(installed)]
    /\ late' = IF closeReturned THEN late \cup {m} ELSE late
    /\ UNCHANGED <<flags, client, readers, fn, callPc, handed, closeReturned>>

\* RLock, and the copy.
PublishRLock(m) ==
    /\ pubPc[m] = "checked"
    /\ readers' = readers \cup {m}
    /\ fn' = [fn EXCEPT ![m] = publishFn]
    /\ pubPc' = [pubPc EXCEPT ![m] = "locked"]
    /\ UNCHANGED <<flags, client, callPc, history, closeReturned>>

\* Mutant: "defer p.mu.RUnlock()".
PublishRUnlockDeferred(m) ==
    /\ pubPc[m] = "locked"
    /\ readers' = IF fn[m] = NoFn THEN readers \ {m} ELSE readers
    /\ pubPc' = [pubPc EXCEPT ![m] = IF fn[m] = NoFn THEN "nil" ELSE "call"]
    /\ UNCHANGED <<flags, client, fn, callPc, history, closeReturned>>

\* Mutant: no "if fn != nil".
PublishRUnlockUnchecked(m) ==
    /\ pubPc[m] = "locked"
    /\ readers' = readers \ {m}
    /\ pubPc' = [pubPc EXCEPT ![m] = "call"]
    /\ UNCHANGED <<flags, client, fn, callPc, history, closeReturned>>

\* RUnlock; without a client Publish returns nil.
PublishRUnlock(m) ==
    /\ pubPc[m] = "locked"
    /\ readers' = readers \ {m}
    /\ pubPc' = [pubPc EXCEPT ![m] = IF fn[m] = NoFn THEN "nil" ELSE "call"]
    /\ UNCHANGED <<flags, client, fn, callPc, history, closeReturned>>

\* The client sends the message or fails, and Publish returns its answer; or
\* it wants to be replaced first.
ClientRuns(m) ==
    /\ pubPc[m] = "call"
    /\ handed' = handed \cup {m}
    /\ \E r \in {"nil", "error", "clientSet"} : pubPc' = [pubPc EXCEPT ![m] = r]
    /\ UNCHANGED <<flags, client, readers, fn, callPc, from, late, closeReturned>>

\* SetPublishFunc called by the client.
ClientSets(m, f) ==
    /\ pubPc[m] = "clientSet"
    /\ Install(f)
    /\ pubPc' = [pubPc EXCEPT ![m] = "error"]
    /\ UNCHANGED <<flags, readers, fn, callPc, history, closeReturned>>

-----------------------------------------------------------------------------
PublishStep(m) ==
    \/ PublishRLock(m)
    \/ PublishRUnlock(m)
    \/ ClientRuns(m)
    \/ \E f \in Fn : ClientSets(m, f)

Next ==
    \/ \E f \in Fn \cup {NoFn} : SetPublishFunc(f)
    \/ \E c \in Caller :
          ConnectCheck(c) \/ ConnectStore(c) \/ CloseSwap(c) \/ CloseStore(c)
    \/ \E m \in Msg : PublishCheck(m) \/ PublishStep(m)

Spec == Init /\ [][Next]_vars

\* A Publish in progress goes on, and the client comes back.
FairSpec == Spec /\ \A m \in Msg : WF_vars(PublishStep(m))

-----------------------------------------------------------------------------
(* Properties.                                                             *)

\* The type invariant; a nil function is never called.
TypeOK ==
    /\ connected \in BOOLEAN
    /\ closed \in BOOLEAN
    /\ publishFn \in Fn \cup {NoFn}
    /\ readers \subseteq Msg
    /\ pubPc \in [Msg -> PubPc]
    /\ fn \in [Msg -> Fn \cup {NoFn}]
    /\ callPc \in [Caller -> {"idle", "connectStore", "closeStore"}]
    /\ installed \in Seq(Fn \cup {NoFn})
    /\ from \in [Msg -> Nat]
    /\ closeReturned \in BOOLEAN
    /\ late \subseteq Msg
    /\ handed \subseteq Msg
    /\ \A m \in Msg : pubPc[m] = "call" => fn[m] \in Fn

\* Close is final: once a Close has returned, no Publish that is called later
\* reaches the client, although a Connect that was on its way stores connected
\* after the Close cleared it, and although the Close that returned may be a
\* second one that overtook the first.
ClosedIsFinal == late \cap handed = {}

\* A Publish uses a client that was installed when it was called, or a later
\* one: after SetPublishFunc has returned, no new Publish calls the old client.
NoStaleClient ==
    \A m \in Msg :
        pubPc[m] \in {"locked", "call", "clientSet"} =>
            \E i \in from[m]..Len(installed) : fn[m] = installed[i]

\* Every Publish that passed its check returns, also when the client calls
\* SetPublishFunc, which needs p.mu: it is called without the lock.
PublishReturns ==
    \A m \in Msg : pubPc[m] = "checked" ~> pubPc[m] \in {"nil", "error"}
=============================================================================
