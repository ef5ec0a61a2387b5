----------------------- MODULE AdapterProducerProofs ------------------------
(***************************************************************************)
(* Theorems about AdapterProducer: its types, and that Close is final, for *)
(* every set of messages, clients and callers.                             *)
(***************************************************************************)
EXTENDS AdapterProducer, TLAPS

\* Installing a client keeps the types of what p.mu guards.
LEMMA InstallType ==
    ASSUME NEW f \in Fn \cup {NoFn},
           publishFn \in Fn \cup {NoFn}, installed \in Seq(Fn \cup {NoFn}),
           Install(f)
    PROVE  /\ publishFn' \in Fn \cup {NoFn}
           /\ installed' \in Seq(Fn \cup {NoFn})
BY DEF Install

\* The type invariant is kept by every step, the nil check of Publish included.
LEMMA TypeStep == TypeOK /\ [Next]_vars => TypeOK'
<1> SUFFICES ASSUME TypeOK, [Next]_vars PROVE TypeOK'
    OBVIOUS
<1> USE DEF TypeOK, PubPc, flags, client, calls, history
<1>1. ASSUME NEW f \in Fn \cup {NoFn}, SetPublishFunc(f) PROVE TypeOK'
    BY <1>1, InstallType DEF SetPublishFunc
<1>2. ASSUME NEW c \in Caller, ConnectCheck(c) PROVE TypeOK'
    BY <1>2 DEF ConnectCheck
<1>3. ASSUME NEW c \in Caller, ConnectStore(c) PROVE TypeOK'
    BY <1>3 DEF ConnectStore
<1>4. ASSUME NEW c \in Caller, CloseSwap(c) PROVE TypeOK'
    BY <1>4 DEF CloseSwap
<1>5. ASSUME NEW c \in Caller, CloseStore(c) PROVE TypeOK'
    BY <1>5 DEF CloseStore
<1>6. ASSUME NEW m \in Msg, PublishCheck(m) PROVE TypeOK'
    BY <1>6 DEF PublishCheck
<1>7. ASSUME NEW m \in Msg, PublishRLock(m) PROVE TypeOK'
    BY <1>7 DEF PublishRLock
<1>8. ASSUME NEW m \in Msg, PublishRUnlock(m) PROVE TypeOK'
    BY <1>8 DEF PublishRUnlock
<1>9. ASSUME NEW m \in Msg, ClientRuns(m) PROVE TypeOK'
    BY <1>9 DEF ClientRuns
<1>10. ASSUME NEW m \in Msg, NEW f \in Fn, ClientSets(m, f) PROVE TypeOK'
    BY <1>10, InstallType DEF ClientSets
<1>11. CASE UNCHANGED vars
    BY <1>11 DEF vars
<1>12. QED
    BY <1>1, <1>2, <1>3, <1>4, <1>5, <1>6, <1>7, <1>8, <1>9, <1>10, <1>11
       DEF Next, PublishStep

\* The type invariant of the producers holds in every reachable state: in
\* particular Publish never calls a nil client.
THEOREM ProducerTypes == Spec => []TypeOK
<1>1. Init => TypeOK
    <2> SUFFICES ASSUME Init PROVE TypeOK
        OBVIOUS
    <2>1. installed \in Seq(Fn \cup {NoFn})
        BY DEF Init
    <2>2. /\ from \in [Msg -> Nat]
          /\ \A m \in Msg : pubPc[m] # "call"
        BY DEF Init
    <2>3. QED
        BY <2>1, <2>2 DEF Init, TypeOK, PubPc
<1>2. QED
    BY <1>1, TypeStep, PTL DEF Spec

-----------------------------------------------------------------------------
(* Close is final.  ClosedIsFinal alone is not inductive: what a late call *)
(* does depends on closed, which must have been set before any Close       *)
(* returned, and on how far the call has come.                             *)

\* Whoever returned from Close, or is about to, has found or left closed set.
ClosedBefore ==
    /\ closeReturned => closed
    /\ \A c \in Caller : callPc[c] = "closeStore" => closed

\* A late call was refused, and a call that was not made has reached nobody.
LateRefused ==
    /\ \A m \in late : pubPc[m] = "error" /\ m \notin handed
    /\ \A m \in Msg : pubPc[m] = "new" => m \notin handed

FinalInv == ClosedBefore /\ LateRefused

\* No step clears closed, and a call made after it is set is refused.
LEMMA FinalStep == TypeOK /\ FinalInv /\ [Next]_vars => FinalInv'
<1> SUFFICES ASSUME TypeOK, FinalInv, [Next]_vars PROVE FinalInv'
    OBVIOUS
<1> USE DEF TypeOK, PubPc, FinalInv, ClosedBefore, LateRefused,
            flags, client, calls, history
<1>1. ASSUME NEW f \in Fn \cup {NoFn}, SetPublishFunc(f) PROVE FinalInv'
    BY <1>1 DEF SetPublishFunc
<1>2. ASSUME NEW c \in Caller, ConnectCheck(c) PROVE FinalInv'
    BY <1>2 DEF ConnectCheck
<1>3. ASSUME NEW c \in Caller, ConnectStore(c) PROVE FinalInv'
    BY <1>3 DEF ConnectStore
<1>4. ASSUME NEW c \in Caller, CloseSwap(c) PROVE FinalInv'
    BY <1>4 DEF CloseSwap
<1>5. ASSUME NEW c \in Caller, CloseStore(c) PROVE FinalInv'
    BY <1>5 DEF CloseStore
<1>6. ASSUME NEW m \in Msg, PublishCheck(m) PROVE FinalInv'
    BY <1>6 DEF PublishCheck, IsConnected
<1>7. ASSUME NEW m \in Msg, PublishRLock(m) PROVE FinalInv'
    BY <1>7 DEF PublishRLock
<1>8. ASSUME NEW m \in Msg, PublishRUnlock(m) PROVE FinalInv'
    BY <1>8 DEF PublishRUnlock
<1>9. ASSUME NEW m \in Msg, ClientRuns(m) PROVE FinalInv'
    BY <1>9 DEF ClientRuns
<1>10. ASSUME NEW m \in Msg, NEW f \in Fn, ClientSets(m, f) PROVE FinalInv'
    BY <1>10 DEF ClientSets
<1>11. CASE UNCHANGED vars
    BY <1>11 DEF vars
<1>12. QED
    BY <1>1, <1>2, <1>3, <1>4, <1>5, <1>6, <1>7, <1>8, <1>9, <1>10, <1>11
       DEF Next, PublishStep

\* Close is final, for every number of publishers, of Connect and Close calls
\* and of clients: a Publish called after a Close has returned reaches no client.
THEOREM CloseFinal == Spec => []ClosedIsFinal
<1>1. Init => FinalInv
    BY DEF Init, FinalInv, ClosedBefore, LateRefused
<1>2. FinalInv => ClosedIsFinal
    BY DEF FinalInv, LateRefused, ClosedIsFinal
<1>3. QED
    BY <1>1, <1>2, FinalStep, ProducerTypes, PTL DEF Spec

-----------------------------------------------------------------------------
(* No stale client.  The copy a Publish makes is the current client, and   *)
(* what is current was installed last.                                     *)

Current ==
    /\ Len(installed) >= 1
    /\ publishFn = installed[Len(installed)]

CalledBefore == \A m \in Msg : from[m] >= 1 /\ from[m] <= Len(installed)

ClientInv == Current /\ CalledBefore /\ NoStaleClient

\* Installing a client keeps what was installed before in its place.
LEMMA InstallKeeps ==
    ASSUME NEW f \in Fn \cup {NoFn}, TypeOK, ClientInv, Install(f)
    PROVE  /\ Current'
           /\ Len(installed') = Len(installed) + 1
           /\ \A i \in 1..Len(installed) : installed'[i] = installed[i]
BY DEF Install, TypeOK, ClientInv, Current

\* A call keeps its choice of clients when another one is installed.
LEMMA InstallNoStale ==
    ASSUME NEW f \in Fn \cup {NoFn}, TypeOK, ClientInv, Install(f),
           UNCHANGED <<from, fn>>,
           \A m \in Msg : pubPc'[m] \in {"locked", "call", "clientSet"} => pubPc'[m] = pubPc[m]
    PROVE  ClientInv'
<1>1. CalledBefore'
    <2>1. Len(installed) \in Nat /\ Len(installed') = Len(installed) + 1
        BY InstallKeeps DEF TypeOK
    <2>2. \A m \in Msg : from[m] \in Nat /\ from[m] >= 1 /\ from[m] <= Len(installed)
        BY DEF ClientInv, CalledBefore, TypeOK
    <2>3. QED
        BY <2>1, <2>2 DEF CalledBefore
<1>2. NoStaleClient'
    <2> SUFFICES ASSUME NEW m \in Msg, pubPc'[m] \in {"locked", "call", "clientSet"}
                 PROVE  \E i \in from[m]..Len(installed') : fn[m] = installed'[i]
        BY DEF NoStaleClient
    <2>1. PICK i \in from[m]..Len(installed) : fn[m] = installed[i]
        BY DEF ClientInv, NoStaleClient
    <2>2. i \in 1..Len(installed) /\ i \in from[m]..Len(installed')
        BY <2>1, InstallKeeps DEF ClientInv, CalledBefore, TypeOK
    <2>3. QED
        BY <2>1, <2>2, InstallKeeps
<1>3. QED
    BY <1>1, <1>2, InstallKeeps DEF ClientInv

\* A step that neither installs a client nor starts or copies for a Publish.
LEMMA OtherNoStale ==
    ASSUME TypeOK, ClientInv, UNCHANGED <<from, fn, publishFn, installed>>,
           \A m \in Msg : pubPc'[m] \in {"locked", "call", "clientSet"} =>
                             pubPc[m] \in {"locked", "call", "clientSet"}
    PROVE  ClientInv'
BY DEF ClientInv, Current, CalledBefore, NoStaleClient

\* Every step keeps the choice of clients open to the calls in progress.
LEMMA ClientStep == TypeOK /\ ClientInv /\ [Next]_vars => ClientInv'
<1> SUFFICES ASSUME TypeOK, ClientInv, [Next]_vars PROVE ClientInv'
    OBVIOUS
<1> USE DEF flags, client, calls, history
<1>1. ASSUME NEW f \in Fn \cup {NoFn}, SetPublishFunc(f) PROVE ClientInv'
    BY <1>1, InstallNoStale DEF SetPublishFunc
<1>2. ASSUME NEW c \in Caller, ConnectCheck(c) \/ ConnectStore(c) \/ CloseSwap(c) \/ CloseStore(c)
      PROVE  ClientInv'
    BY <1>2, OtherNoStale DEF ConnectCheck, ConnectStore, CloseSwap, CloseStore
<1>3. ASSUME NEW m \in Msg, PublishCheck(m) PROVE ClientInv'
    <2>1. Current' /\ CalledBefore'
        BY <1>3 DEF PublishCheck, ClientInv, Current, CalledBefore, TypeOK
    <2>2. NoStaleClient'
        BY <1>3 DEF PublishCheck, ClientInv, NoStaleClient, TypeOK
    <2>3. QED
        BY <2>1, <2>2 DEF ClientInv
<1>4. ASSUME NEW m \in Msg, PublishRLock(m) PROVE ClientInv'
    <2>1. Current' /\ CalledBefore'
        BY <1>4 DEF PublishRLock, ClientInv, Current, CalledBefore
    <2>2. \E i \in from[m]..Len(installed) : publishFn = installed[i]
        BY DEF ClientInv, Current, CalledBefore, TypeOK
    <2>3. NoStaleClient'
        BY <1>4, <2>2 DEF PublishRLock, ClientInv, NoStaleClient, TypeOK
    <2>4. QED
        BY <2>1, <2>3 DEF ClientInv
<1>5. ASSUME NEW m \in Msg, PublishRUnlock(m) \/ ClientRuns(m) PROVE ClientInv'
    <2>1. \A k \in Msg : pubPc'[k] \in {"locked", "call", "clientSet"} =>
                             pubPc[k] \in {"locked", "call", "clientSet"}
        BY <1>5 DEF PublishRUnlock, ClientRuns, TypeOK
    <2>2. QED
        BY <1>5, <2>1, OtherNoStale DEF PublishRUnlock, ClientRuns
<1>6. ASSUME NEW m \in Msg, NEW f \in Fn, ClientSets(m, f) PROVE ClientInv'
    <2>1. \A k \in Msg : pubPc'[k] \in {"locked", "call", "clientSet"} => pubPc'[k] = pubPc[k]
        BY <1>6 DEF ClientSets, TypeOK
    <2>2. QED
        BY <1>6, <2>1, InstallNoStale DEF ClientSets
<1>7. CASE UNCHANGED vars
    BY <1>7, OtherNoStale DEF vars
<1>8. QED
    BY <1>1, <1>2, <1>3, <1>4, <1>5, <1>6, <1>7 DEF Next, PublishStep

\* After SetPublishFunc has returned no new Publish calls the old client, for
\* every number of publishers and of clients, installed from outside or by one
\* another.
THEOREM ClientCurrent == Spec => []NoStaleClient
<1>1. Init => ClientInv
    BY DEF Init, ClientInv, Current, CalledBefore, NoStaleClient
<1>2. ClientInv => NoStaleClient
    BY DEF ClientInv
<1>3. QED
    BY <1>1, <1>2, ClientStep, ProducerTypes, PTL DEF Spec
=============================================================================
