-------------------------- MODULE PortCallersProofs --------------------------
(***************************************************************************)
(* The port adapter under any number of concurrent callers, ports and      *)
(* remotes.                                                                *)
(***************************************************************************)
EXTENDS PortCallers, TLAPS

\* The type invariant holds of every set of callers and every interleaving.
THEOREM CallersTypeCorrect == Spec => []TypeOK
<1>1. Init => TypeOK
  BY DEF Init, AdapterInit, TypeOK, AdapterTypeOK, AddrSet, CallerOK, Pcs
<1>2. TypeOK /\ [Next]_vars => TypeOK'
  <2> SUFFICES ASSUME TypeOK, [Next]_vars PROVE TypeOK'
    OBVIOUS
  <2> USE CallersAssumption, AdapterAssumption DEF TypeOK, AdapterTypeOK, AddrSet, CallerOK, Goto, Pcs
  <2>1. ASSUME NEW c \in Callers, Scan(c) PROVE TypeOK'
    BY <2>1 DEF Scan, adapterVars, Reusable, Recorded
  <2>2. ASSUME NEW c \in Callers, Alloc(c) PROVE TypeOK'
    <3>1. ASSUME NEW p \in Ports, Listen(want[c][1], p),
                 Goto(c, "record", want[c], <<want[c][1], p>>)
          PROVE TypeOK'
      <4>1. <<want[c][1], p>> \in Key
        BY <3>1 DEF Listen, Key
      <4>2. want[c] \in Want[c] /\ <<want[c][1], p>>[1] = want[c][1]
        BY <2>2 DEF Alloc
      <4>3. AdapterTypeOK'
        BY <3>1, <4>1 DEF Listen
      <4>4. \A d \in Callers : CallerOK(d)'
        BY <3>1, <4>1, <4>2
      <4>5. closed' = closed /\ panicked' = panicked
        BY <2>2 DEF Alloc
      <4> QED BY <3>1, <4>1, <4>3, <4>4, <4>5
    <3>2. ASSUME ListenFails(want[c][1]), Goto(c, "idle", NoWant, NoKey)
          PROVE  TypeOK'
      <4>1. AdapterTypeOK'
        <5>1. CASE UNCHANGED adapterVars
          BY <5>1 DEF adapterVars
        <5>2. ASSUME want[c][1] \in Transports, NEW p \in Ports,
                     bound' = bound \cup {<<want[c][1], p>>}, UNCHANGED <<ports, mgr>>
              PROVE  AdapterTypeOK'
          BY <5>2 DEF Key
        <5> QED BY <3>2, <5>1, <5>2 DEF ListenFails
      <4>2. closed' = closed /\ panicked' = panicked
        BY <2>2 DEF Alloc
      <4> QED BY <3>2, <4>1, <4>2
    <3> QED BY <2>2, <3>1, <3>2 DEF Alloc
  <2>3. ASSUME NEW c \in Callers, RecordLease(c) PROVE TypeOK'
    BY <2>3 DEF RecordLease, Record
  <2>4. ASSUME NEW c \in Callers, Release(c) PROVE TypeOK'
    BY <2>4 DEF Release, Remove
  <2>5. ASSUME NEW c \in Callers, Panic(c) PROVE TypeOK'
    BY <2>5 DEF Panic, adapterVars, callerVars
  <2>6. ASSUME NEW c \in Callers, ReleaseSocket(c) PROVE TypeOK'
    BY <2>6 DEF ReleaseSocket, Unlisten
  <2>7. CASE Close
    BY <2>7 DEF Close, CloseAll, callerVars
  <2>8. CASE Collect
    BY <2>8 DEF Collect, Finalize, callerVars
  <2>9. CASE UNCHANGED vars
    BY <2>9 DEF vars
  <2> QED BY <2>1, <2>2, <2>3, <2>4, <2>5, <2>6, <2>7, <2>8, <2>9
          DEF Next, CallerStep, Crashed
<1> QED BY <1>1, <1>2, PTL DEF Spec

(***************************************************************************)
(* No leak.  NoPortLeak is not inductive by itself for one action only:    *)
(* Release hands the key from Recorded to InFlight, which needs the type   *)
(* invariant to know that the caller's key is the one it removed from.     *)
(***************************************************************************)

\* Every port the Manager holds is recorded or in the hands of a goroutine,
\* for any number of callers and also around Close.
THEOREM NoPortLeakHolds == Spec => []NoPortLeak
<1>1. Init => NoPortLeak
  BY DEF Init, AdapterInit, NoPortLeak
<1>2. TypeOK /\ NoPortLeak /\ [Next]_vars => NoPortLeak'
  <2> SUFFICES ASSUME TypeOK, NoPortLeak, [Next]_vars, NEW k \in mgr'
               PROVE  k \in Recorded' \cup InFlight'
    BY DEF NoPortLeak
  <2> USE DEF TypeOK, AdapterTypeOK, AddrSet, CallerOK, Goto, NoPortLeak, Recorded, InFlight, Pcs
  <2>1. ASSUME NEW c \in Callers, Scan(c) PROVE k \in Recorded' \cup InFlight'
    BY <2>1 DEF Scan, adapterVars
  <2>2. ASSUME NEW c \in Callers, Alloc(c) PROVE k \in Recorded' \cup InFlight'
    <3>1. ASSUME NEW p \in Ports, Listen(want[c][1], p),
                 Goto(c, "record", want[c], <<want[c][1], p>>)
          PROVE k \in Recorded' \cup InFlight'
      BY <2>2, <3>1 DEF Alloc, Listen
    <3>2. ASSUME ListenFails(want[c][1]), Goto(c, "idle", NoWant, NoKey)
          PROVE  k \in Recorded' \cup InFlight'
      BY <2>2, <3>2 DEF Alloc, ListenFails, adapterVars
    <3> QED BY <2>2, <3>1, <3>2 DEF Alloc
  <2>3. ASSUME NEW c \in Callers, RecordLease(c) PROVE k \in Recorded' \cup InFlight'
    <3>1. /\ key[c] \in Key /\ pc[c] = "record" /\ k \in mgr
          /\ ports' = [ports EXCEPT ![key[c]] = @ \cup {want[c][2]}]
      BY <2>3 DEF RecordLease, Record
    <3>2. CASE k = key[c]
      BY <3>1, <3>2
    <3>3. CASE k # key[c] /\ k \in Recorded
      BY <3>1, <3>3
    <3>4. CASE k # key[c] /\ k \in InFlight
      <4>1. PICK d \in Callers : pc[d] \in {"record", "unlisten"} /\ key[d] = k
        BY <3>4
      <4>2. d # c /\ pc'[d] = pc[d] /\ key'[d] = key[d]
        BY <2>3, <3>4, <4>1 DEF RecordLease
      <4> QED BY <4>1, <4>2
    <3> QED BY <3>1, <3>2, <3>3, <3>4
  <2>4. ASSUME NEW c \in Callers, Release(c) PROVE k \in Recorded' \cup InFlight'
    <3>1. key[c] \in Key /\ pc[c] = "leased" /\ k \in mgr
      BY <2>4 DEF Release, Remove
    <3>2. CASE k = key[c] /\ NotUse(key[c], want[c][2])
      BY <2>4, <3>1, <3>2 DEF Release
    <3>3. CASE k = key[c] /\ ~NotUse(key[c], want[c][2])
      BY <2>4, <3>1, <3>3 DEF Release, Remove, NotUse
    <3>4. CASE k # key[c] /\ k \in Recorded
      BY <2>4, <3>1, <3>4 DEF Release, Remove
    <3>5. CASE k \in InFlight
      <4>1. PICK d \in Callers : pc[d] \in {"record", "unlisten"} /\ key[d] = k
        BY <3>5
      <4>2. d # c /\ pc'[d] = pc[d] /\ key'[d] = key[d]
        BY <2>4, <3>1, <4>1 DEF Release
      <4> QED BY <4>1, <4>2
    <3> QED BY <3>1, <3>2, <3>3, <3>4, <3>5
  <2>5. ASSUME NEW c \in Callers, Panic(c) PROVE k \in Recorded' \cup InFlight'
    BY <2>5 DEF Panic, adapterVars, callerVars
  <2>6. ASSUME NEW c \in Callers, ReleaseSocket(c) PROVE k \in Recorded' \cup InFlight'
    BY <2>6 DEF ReleaseSocket, Unlisten
  <2>7. CASE Close
    BY <2>7 DEF Close, CloseAll, callerVars
  <2>8. CASE Collect
    BY <2>8 DEF Collect, Finalize, callerVars
  <2>9. CASE UNCHANGED vars
    BY <2>9 DEF vars
  <2> QED BY <2>1, <2>2, <2>3, <2>4, <2>5, <2>6, <2>7, <2>8, <2>9
          DEF Next, CallerStep, Crashed
<1> QED BY <1>1, <1>2, CallersTypeCorrect, PTL DEF Spec

(***************************************************************************)
(* Callers that never ask for the same (protocol, remote) pair.            *)
(***************************************************************************)

DistinctWants == \A c, d \in Callers : c # d => Want[c] \cap Want[d] = {}

\* With distinct wants no DelPort takes away the entry of a live lease, so
\* DelPort dereferences a missing entry only after Close.
THEOREM LeasesStayRecorded ==
  ASSUME DistinctWants
  PROVE  Spec => [](LeaseRecorded /\ PanicOnlyAfterClose)
<1> DEFINE Inv == LeaseRecorded /\ PanicOnlyAfterClose
<1>1. Init => Inv
  BY DEF Init, LeaseRecorded, PanicOnlyAfterClose
<1>2. TypeOK /\ Inv /\ [Next]_vars => Inv'
  <2> SUFFICES ASSUME TypeOK, Inv, [Next]_vars PROVE Inv'
    OBVIOUS
  <2> USE DEF TypeOK, AdapterTypeOK, AddrSet, CallerOK, Goto, LeaseRecorded, PanicOnlyAfterClose, Pcs
  <2>1. ASSUME NEW c \in Callers, Scan(c) PROVE Inv'
    BY <2>1 DEF Scan, adapterVars
  <2>2. ASSUME NEW c \in Callers, Alloc(c) PROVE Inv'
    BY <2>2 DEF Alloc, Listen, ListenFails, adapterVars
  <2>3. ASSUME NEW c \in Callers, RecordLease(c) PROVE Inv'
    BY <2>3 DEF RecordLease, Record
  <2>4. ASSUME NEW c \in Callers, Release(c) PROVE Inv'
    <3>1. PanicOnlyAfterClose'
      BY <2>4 DEF Release
    <3>2. ASSUME ~closed, NEW d \in Callers, pc'[d] = "leased"
          PROVE  want'[d][2] \in ports'[key'[d]]
      <4>1. d # c /\ pc[d] = "leased" /\ want'[d] = want[d] /\ key'[d] = key[d]
        BY <2>4, <3>2 DEF Release
      <4>2. want[d][2] \in ports[key[d]] /\ key[d] \in Key
        BY <3>2, <4>1
      <4>3. want[c] \in Want[c] /\ want[d] \in Want[d] /\ pc[c] = "leased"
        BY <2>4, <4>1 DEF Release
      <4>4. want[c] # want[d]
        BY <4>1, <4>3, DistinctWants DEF DistinctWants
      <4>5. want[c] \in Protos \X Remotes /\ want[d] \in Protos \X Remotes
        BY <4>3, CallersAssumption
      <4>6. key[c] = key[d] => want[c][2] # want[d][2]
        BY <4>1, <4>3, <4>4, <4>5
      <4>7. ports' = [ports EXCEPT ![key[c]] = @ \ {want[c][2]}]
        BY <2>4 DEF Release, Remove
      <4> QED BY <4>1, <4>2, <4>6, <4>7
    <3>3. closed' = closed
      BY <2>4 DEF Release
    <3> QED BY <3>1, <3>2, <3>3
  <2>5. ASSUME NEW c \in Callers, Panic(c) PROVE Inv'
    BY <2>5 DEF Panic, adapterVars, callerVars, RemovePanics, Recorded
  <2>6. ASSUME NEW c \in Callers, ReleaseSocket(c) PROVE Inv'
    BY <2>6 DEF ReleaseSocket, Unlisten
  <2>7. CASE Close
    BY <2>7 DEF Close
  <2>8. CASE Collect
    BY <2>8 DEF Collect, Finalize, callerVars
  <2>9. CASE UNCHANGED vars
    BY <2>9 DEF vars
  <2> QED BY <2>1, <2>2, <2>3, <2>4, <2>5, <2>6, <2>7, <2>8, <2>9
          DEF Next, CallerStep, Crashed
<1> QED BY <1>1, <1>2, CallersTypeCorrect, PTL DEF Spec
\* With distinct wants DelPort meets a missing entry, and the server panics, only
\* after Close.
THEOREM PanicsOnlyAfterClose ==
  ASSUME DistinctWants
  PROVE  Spec => []PanicOnlyAfterClose
BY DistinctWants, LeasesStayRecorded, PTL
=============================================================================
