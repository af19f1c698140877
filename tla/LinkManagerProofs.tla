-------------------------- MODULE LinkManagerProofs --------------------------
(***************************************************************************)
(* What holds of the link manager for any number of connections, flows,    *)
(* ports and any ttl, also when flows of several connections collide.      *)
(***************************************************************************)
EXTENDS LinkManager, SequenceTheorems, TLAPS

\* Cleanup's move of the head to the back of the queue with a new start.
LEMMA RequeuedSeq ==
  ASSUME ttl \in Seq(Entry), Len(ttl) > 0, NEW e \in Entry, TTL \in Nat
  PROVE  /\ Requeued(e) \in Seq(Entry) /\ Len(Requeued(e)) = Len(ttl)
         /\ \A i \in 1..(Len(ttl) - 1) : Requeued(e)[i] = ttl[i + 1]
         /\ Requeued(e)[Len(ttl)] = [up |-> e.up, age |-> 0]
<1> DEFINE f == [up |-> e.up, age |-> 0]
<1>1. f \in Entry
  BY DEF Entry
<1>2. /\ Tail(ttl) \in Seq(Entry) /\ Len(Tail(ttl)) = Len(ttl) - 1
      /\ \A i \in 1..(Len(ttl) - 1) : Tail(ttl)[i] = ttl[i + 1]
  BY HeadTailProperties, ElementOfSeq
<1> HIDE DEF f
<1>3. /\ Append(Tail(ttl), f) \in Seq(Entry)
      /\ Len(Append(Tail(ttl), f)) = Len(Tail(ttl)) + 1
      /\ \A i \in 1..Len(Tail(ttl)) : Append(Tail(ttl), f)[i] = Tail(ttl)[i]
      /\ Append(Tail(ttl), f)[Len(Tail(ttl)) + 1] = f
  BY <1>1, <1>2, AppendProperties
<1>4. Len(ttl) \in Nat
  OBVIOUS
<1> QED BY <1>2, <1>3, <1>4 DEF Requeued, f

\* The queue after a tick: the same links, each a little older.
LEMMA TickedSeq ==
  ASSUME ttl \in Seq(Entry), TTL \in Nat, Tick
  PROVE  /\ ttl' \in Seq(Entry) /\ Len(ttl') = Len(ttl)
         /\ \A i \in 1..Len(ttl) : /\ ttl'[i].up = ttl[i].up
                                   /\ ttl'[i].age = Older(ttl[i].age)
<1>1. \A i \in 1..Len(ttl) : [up |-> ttl[i].up, age |-> Older(ttl[i].age)] \in Entry
  <2> TAKE i \in 1..Len(ttl)
  <2>1. ttl[i] \in Entry
    BY ElementOfSeq
  <2> QED BY <2>1 DEF Entry, Older
<1>2. Len(ttl) \in Nat
  OBVIOUS
<1>3. ttl' = [i \in 1..Len(ttl) |-> [up |-> ttl[i].up, age |-> Older(ttl[i].age)]]
  BY DEF Tick
<1>4. ttl' \in [1..Len(ttl) -> Entry]
  BY <1>1, <1>3
<1>5. ttl' \in Seq(Entry)
  BY <1>2, <1>4, SeqDef
<1>6. Len(ttl') = Len(ttl)
  BY <1>2, <1>4, <1>5, LenProperties
<1> QED BY <1>3, <1>5, <1>6

(***************************************************************************)
(* Type correctness.                                                       *)
(***************************************************************************)

\* Cleanup's loop works on the head of a queue that is not empty.
LEMMA LoopHead ==
  ASSUME TypeOK, NEW c \in Conns, InLoop(c)
  PROVE  /\ ttl \in Seq(Entry) /\ Len(ttl) > 0 /\ Len(ttl) \in Nat
         /\ Head(ttl) \in Entry /\ Head(ttl) = ttl[1]
         /\ Tail(ttl) \in Seq(Entry) /\ Len(Tail(ttl)) = Len(ttl) - 1
         /\ \A i \in 1..(Len(ttl) - 1) : Tail(ttl)[i] = ttl[i + 1]
<1>1. ttl \in Seq(Entry) /\ Len(ttl) > 0 /\ Len(ttl) \in Nat
  BY DEF InLoop, TypeOK, LinkTypeOK
<1> QED BY <1>1, HeadTailProperties, ElementOfSeq

\* The steps that only move goroutine c and change none of the other state.
LEMMA SendsTyped ==
  ASSUME NEW c \in Conns, NEW u \in Sends[c]
  PROVE  u \in AllUplinks /\ u.proto \in Transports /\ u.server \in Remotes
BY LinksAssumption DEF AllUplinks

\* The type invariant, for every number of connections and flows.
THEOREM LinksTypeCorrect == Spec => []TypeOK
<1> USE DEF TypeOK
<1>1. Init => TypeOK
  <2> SUFFICES ASSUME Init PROVE TypeOK
    OBVIOUS
  <2>1. AdapterTypeOK
    BY DEF Init, AdapterInit, AdapterTypeOK, AddrSet
  <2>2. LinkTypeOK
    <3>1. <<>> \in Seq(Entry)
      OBVIOUS
    <3> QED BY <3>1, LinksAssumption DEF Init, LinkTypeOK
  <2>3. ConnTypeOK
    BY DEF Init, ConnTypeOK, Pcs
  <2>4. \A c \in Conns : ConnOK(c)
    BY LinksAssumption DEF Init, ConnOK
  <2> QED BY <2>1, <2>2, <2>3, <2>4
<1>2. TypeOK /\ [Next]_vars => TypeOK'
  <2> SUFFICES ASSUME TypeOK, [Next]_vars PROVE TypeOK'
    OBVIOUS
  <2> USE LinksAssumption, AdapterAssumption
      DEF ConnOK, Pcs, Goto, At, adapterVars, linkVars, sweepVars, connVars, envVars
  <2>1. ASSUME NEW c \in Conns, Recv(c) PROVE TypeOK'
    <3>a. AdapterTypeOK'
      BY <2>1, SendsTyped DEF Recv, AdapterTypeOK, AddrSet
    <3>b. LinkTypeOK'
      BY <2>1, SendsTyped DEF Recv, LinkTypeOK
    <3>c. ConnTypeOK'
      BY <2>1, SendsTyped DEF Recv, ConnTypeOK
    <3>d. \A d \in Conns : ConnOK(d)'
      BY <2>1, SendsTyped DEF Recv, ConnTypeOK
    <3> QED BY <3>a, <3>b, <3>c, <3>d
  <2>2. ASSUME NEW c \in Conns, Uplink(c) PROVE TypeOK'
    <3>0. cur[c] \in Sends[c] /\ cur[c] \in AllUplinks /\ cur[c].proto \in Transports
      BY <2>2, SendsTyped DEF Uplink
    <3>1. uplinkMap[cur[c]] # None => KeyOf(cur[c], uplinkMap[cur[c]]) \in Key
      BY <3>0 DEF KeyOf, Key, LinkTypeOK
    <3>2. KeyOf(cur[c], uplinkMap[cur[c]])[1] = cur[c].proto
      BY DEF KeyOf
    <3>a. AdapterTypeOK'
      BY <2>2, <3>0, <3>1, <3>2 DEF Uplink, AdapterTypeOK, AddrSet
    <3>b. LinkTypeOK'
      BY <2>2, <3>0, <3>1, <3>2 DEF Uplink, LinkTypeOK
    <3>c. ConnTypeOK'
      BY <2>2, <3>0, <3>1, <3>2 DEF Uplink, ConnTypeOK
    <3>d. \A d \in Conns : ConnOK(d)'
      BY <2>2, <3>0, <3>1, <3>2 DEF Uplink, ConnTypeOK
    <3> QED BY <3>a, <3>b, <3>c, <3>d
  <2>3. ASSUME NEW c \in Conns, Send(c) PROVE TypeOK'
    <3>a. AdapterTypeOK'
      BY <2>3 DEF Send, Forget, CloseAll, AdapterTypeOK, AddrSet
    <3>b. LinkTypeOK'
      BY <2>3 DEF Send, Forget, CloseAll, LinkTypeOK
    <3>c. ConnTypeOK'
      BY <2>3 DEF Send, Forget, CloseAll, ConnTypeOK
    <3>d. \A d \in Conns : ConnOK(d)'
      BY <2>3 DEF Send, Forget, CloseAll, ConnTypeOK
    <3> QED BY <3>a, <3>b, <3>c, <3>d
  <2>4. ASSUME NEW c \in Conns, BeginSweep(c) PROVE TypeOK'
    BY <2>4 DEF BeginSweep, Links, AdapterTypeOK, AddrSet, LinkTypeOK, ConnTypeOK
  <2>5. ASSUME NEW c \in Conns, SweepExhausted(c) PROVE TypeOK'
    BY <2>5 DEF SweepExhausted, EndSweep, AdapterTypeOK, AddrSet, LinkTypeOK, ConnTypeOK
  <2>6. ASSUME NEW c \in Conns, SweepBreak(c) PROVE TypeOK'
    <3>1. ttl' \in Seq(Entry)
      BY <2>6, LoopHead, RequeuedSeq DEF SweepBreak
    <3>2. pc[c] = "sweep"
      BY <2>6 DEF SweepBreak, InLoop
    <3> QED BY <2>6, <3>1, <3>2 DEF SweepBreak, EndSweep, AdapterTypeOK, AddrSet, LinkTypeOK, ConnTypeOK
  <2>7. ASSUME NEW c \in Conns, SweepBusy(c) PROVE TypeOK'
    <3>1. ttl' \in Seq(Entry)
      BY <2>7, LoopHead, RequeuedSeq DEF SweepBusy
    <3> QED BY <2>7, <3>1 DEF SweepBusy, AdapterTypeOK, AddrSet, LinkTypeOK, ConnTypeOK
  <2>8. ASSUME NEW c \in Conns, SweepIdle(c) PROVE TypeOK'
    <3>1. Head(ttl) \in Entry /\ Tail(ttl) \in Seq(Entry) /\ pc[c] = "sweep"
      BY <2>8, LoopHead DEF SweepIdle, InLoop
    <3>2. Head(ttl).up \in AllUplinks
      BY <3>1 DEF Entry
    <3>3. <<Head(ttl).up, uplinkMap[Head(ttl).up]>> \in AllUplinks \X Ports
      BY <2>8, <3>2 DEF SweepIdle, LinkTypeOK
    <3>4. swept' \in [Conns -> SUBSET (AllUplinks \X Ports)]
      BY <2>8, <3>3 DEF SweepIdle, ConnTypeOK
    <3>5. \A d \in Conns : ConnOK(d)'
      BY <2>8, <3>1 DEF SweepIdle, ConnTypeOK
    <3> QED BY <2>8, <3>1, <3>2, <3>4, <3>5 DEF SweepIdle, AdapterTypeOK, AddrSet, LinkTypeOK, ConnTypeOK
  <2>9. ASSUME NEW c \in Conns, SweepPanic(c) PROVE TypeOK'
    BY <2>9 DEF SweepPanic, AdapterTypeOK, AddrSet, LinkTypeOK, ConnTypeOK
  <2>10. ASSUME NEW c \in Conns, DownDel(c) PROVE TypeOK'
    BY <2>10 DEF DownDel, AdapterTypeOK, AddrSet, LinkTypeOK, ConnTypeOK
  <2>11. ASSUME NEW c \in Conns, DelPort(c) PROVE TypeOK'
    <3>1. PICK s \in swept[c] :
            /\ Remove(KeyOf(s[1], s[2]), s[1].server)
            /\ swept' = [swept EXCEPT ![c] = @ \ {s}]
            /\ key' = [key EXCEPT ![c] = KeyOf(s[1], s[2])]
            /\ IF NotUse(KeyOf(s[1], s[2]), s[1].server) THEN Goto(c, "unlisten") ELSE UNCHANGED pc
      BY <2>11 DEF DelPort
    <3>2. KeyOf(s[1], s[2]) \in Key
      BY <3>1 DEF Remove, Recorded
    <3>3. AdapterTypeOK'
      BY <3>1 DEF Remove, AdapterTypeOK, AddrSet
    <3>4. LinkTypeOK'
      BY <2>11 DEF DelPort, LinkTypeOK
    <3>5. pc[c] = "delport" /\ cur' = cur /\ uplinkMu' = uplinkMu /\ closed' = closed /\ panicked' = panicked
      BY <2>11 DEF DelPort
    <3>6. ConnTypeOK'
      BY <3>1, <3>2, <3>5 DEF ConnTypeOK
    <3>7. \A d \in Conns : ConnOK(d)'
      BY <3>1, <3>2, <3>5 DEF ConnTypeOK, LinkTypeOK
    <3> QED BY <3>3, <3>4, <3>6, <3>7
  <2>12. ASSUME NEW c \in Conns, DelPortSocket(c) PROVE TypeOK'
    BY <2>12 DEF DelPortSocket, Unlisten, AdapterTypeOK, AddrSet, LinkTypeOK, ConnTypeOK
  <2>13. ASSUME NEW c \in Conns, DelPortPanic(c) PROVE TypeOK'
    BY <2>13 DEF DelPortPanic, AdapterTypeOK, AddrSet, LinkTypeOK, ConnTypeOK
  <2>14. ASSUME NEW c \in Conns, EndCleanup(c) PROVE TypeOK'
    BY <2>14 DEF EndCleanup, AdapterTypeOK, AddrSet, LinkTypeOK, ConnTypeOK
  <2>15. ASSUME NEW c \in Conns, GetPortScan(c) PROVE TypeOK'
    <3>a. AdapterTypeOK'
      BY <2>15 DEF GetPortScan, Reusable, Recorded, AdapterTypeOK, AddrSet
    <3>b. LinkTypeOK'
      BY <2>15 DEF GetPortScan, Reusable, Recorded, LinkTypeOK
    <3>c. ConnTypeOK'
      BY <2>15 DEF GetPortScan, Reusable, Recorded, ConnTypeOK
    <3>d. \A d \in Conns : ConnOK(d)'
      BY <2>15 DEF GetPortScan, Reusable, Recorded, ConnTypeOK
    <3> QED BY <3>a, <3>b, <3>c, <3>d
  <2>16. ASSUME NEW c \in Conns, GetPortAlloc(c) PROVE TypeOK'
    <3>0. /\ cur[c] \in Sends[c] /\ cur[c].proto \in Transports /\ pc[c] = "alloc"
          /\ LinkTypeOK' /\ swept' = swept /\ uplinkMu' = uplinkMu /\ closed' = closed /\ panicked' = panicked
      BY <2>16, SendsTyped DEF GetPortAlloc, LinkTypeOK
    <3>1. ASSUME NEW p \in Ports, Listen(cur[c].proto, p),
                 key' = [key EXCEPT ![c] = KeyOf(cur[c], p)], Goto(c, "record"), UNCHANGED cur
          PROVE  TypeOK'
      <4>1. KeyOf(cur[c], p) \in Key /\ KeyOf(cur[c], p)[1] = cur[c].proto
        BY <3>0 DEF KeyOf, Key
      <4>2. <<cur[c].proto, p>> \in Key
        BY <3>0 DEF Key
      <4>3. AdapterTypeOK'
        BY <3>1, <4>2 DEF Listen, AdapterTypeOK, AddrSet
      <4>4. ConnTypeOK'
        BY <3>0, <3>1, <4>1 DEF ConnTypeOK
      <4>5. \A d \in Conns : ConnOK(d)'
        BY <3>0, <3>1, <4>1 DEF ConnTypeOK
      <4> QED BY <3>0, <4>3, <4>4, <4>5
    <3>2. ASSUME ListenFails(cur[c].proto), Goto(c, "recv"), Forget(c)
          PROVE  TypeOK'
      <4>1. AdapterTypeOK'
        <5>1. CASE UNCHANGED adapterVars
          BY <5>1 DEF AdapterTypeOK, AddrSet
        <5>2. ASSUME NEW p \in Ports, bound' = bound \cup {<<cur[c].proto, p>>}, UNCHANGED <<ports, mgr>>
              PROVE  AdapterTypeOK'
          BY <3>0, <5>2 DEF AdapterTypeOK, AddrSet, Key
        <5> QED BY <3>2, <5>1, <5>2 DEF ListenFails
      <4>2. ConnTypeOK' /\ \A d \in Conns : ConnOK(d)'
        BY <3>0, <3>2 DEF Forget, ConnTypeOK
      <4> QED BY <3>0, <4>1, <4>2
    <3> QED BY <2>16, <3>1, <3>2 DEF GetPortAlloc
  <2>17. ASSUME NEW c \in Conns, GetPortRecord(c) PROVE TypeOK'
    <3>1. cur[c].server \in Remotes
      BY <2>17, SendsTyped DEF GetPortRecord
    <3> QED BY <2>17, <3>1 DEF GetPortRecord, Record, AdapterTypeOK, AddrSet, LinkTypeOK, ConnTypeOK
  <2>18. ASSUME NEW c \in Conns, AddUp(c) PROVE TypeOK'
    <3>1. cur[c] \in AllUplinks /\ key[c] \in Key /\ key[c][2] \in Ports
      BY <2>18, SendsTyped DEF AddUp, Key
    <3>2. [up |-> cur[c], age |-> 0] \in Entry
      BY <3>1 DEF Entry
    <3>3. ttl' \in Seq(Entry)
      BY <2>18, <3>2, AppendProperties DEF AddUp, LinkTypeOK
    <3> QED BY <2>18, <3>1, <3>3 DEF AddUp, AdapterTypeOK, AddrSet, LinkTypeOK, ConnTypeOK
  <2>19. ASSUME NEW c \in Conns, AddDown(c) PROVE TypeOK'
    <3>1. /\ cur[c] \in AllUplinks /\ cur[c].server \in Remotes
          /\ cur[c].proto \in Transports /\ key[c][2] \in Ports
      BY <2>19, SendsTyped DEF AddDown, Key
    <3>2. DownOf(cur[c], key[c][2]) \in Downlink
      BY <3>1 DEF DownOf, Downlink
    <3>3. <<c, cur[c].proc[2]>> \in Conns \X {u.proc[2] : u \in AllUplinks}
      BY <3>1
    <3>4. downlinkMap' \in [Downlink -> (Conns \X {u.proc[2] : u \in AllUplinks}) \cup {None}]
      BY <2>19, <3>2, <3>3 DEF AddDown, LinkTypeOK
    <3> QED BY <2>19, <3>4 DEF AddDown, AdapterTypeOK, AddrSet, LinkTypeOK, ConnTypeOK
  <2>20. CASE Tick
    <3>1. ttl' \in Seq(Entry)
      BY <2>20, TickedSeq DEF LinkTypeOK
    <3>2. unused' \in [AllUplinks -> 0..(TTL + 1)]
      BY <2>20 DEF Tick, Older, LinkTypeOK
    <3> QED BY <2>20, <3>1, <3>2 DEF Tick, AdapterTypeOK, AddrSet, LinkTypeOK, ConnTypeOK
  <2>21. CASE Close
    BY <2>21 DEF Close, CloseAll, AdapterTypeOK, AddrSet, LinkTypeOK, ConnTypeOK
  <2>22. CASE Collect
    BY <2>22 DEF Collect, Finalize, AdapterTypeOK, AddrSet, LinkTypeOK, ConnTypeOK
  <2>23. CASE UNCHANGED vars
    BY <2>23 DEF vars, AdapterTypeOK, AddrSet, LinkTypeOK, ConnTypeOK
  <2> QED BY <2>1, <2>2, <2>3, <2>4, <2>5, <2>6, <2>7, <2>8, <2>9, <2>10, <2>11, <2>12,
             <2>13, <2>14, <2>15, <2>16, <2>17, <2>18, <2>19, <2>20, <2>21, <2>22, <2>23
          DEF Next, ServeConn, Cleanup, Add, Halted
<1> QED BY <1>1, <1>2, PTL DEF Spec

(***************************************************************************)
(* The ttl queue.  Six actions touch it or the links it speaks of.         *)
(***************************************************************************)

QueueStep == \/ Tick
             \/ \E c \in Conns : \/ Uplink(c) \/ SweepBreak(c) \/ SweepBusy(c)
                                 \/ SweepIdle(c) \/ AddUp(c)

\* Every other step leaves the queue, the links and their use alone.
LEMMA QueueSteps ==
  ASSUME [Next]_vars
  PROVE  QueueStep \/ UNCHANGED <<uplinkMap, busy, ttl, unused>>
<1> USE DEF linkVars
<1>1. ASSUME NEW c \in Conns, ServeConn(c)
      PROVE  QueueStep \/ UNCHANGED <<uplinkMap, busy, ttl, unused>>
  BY <1>1 DEF ServeConn, Cleanup, Add, QueueStep, Recv, Send, BeginSweep, SweepExhausted,
              EndSweep, SweepPanic, DownDel, DelPort, DelPortSocket, DelPortPanic, EndCleanup,
              GetPortScan, GetPortAlloc, GetPortRecord, AddDown
<1>2. CASE Close \/ Collect
  BY <1>2 DEF Close, Collect
<1>3. CASE UNCHANGED vars
  BY <1>3 DEF vars
<1> QED BY <1>1, <1>2, <1>3 DEF Next, Halted, QueueStep

\* The entries of the queue are typed.
LEMMA EntriesTyped ==
  ASSUME TypeOK
  PROVE  /\ Len(ttl) \in Nat
         /\ \A i \in 1..Len(ttl) : /\ ttl[i] \in Entry /\ ttl[i].up \in AllUplinks
                                   /\ ttl[i].age \in 0..(TTL + 1)
<1>1. ttl \in Seq(Entry)
  BY DEF TypeOK, LinkTypeOK
<1>2. \A i \in 1..Len(ttl) : ttl[i] \in Entry
  BY <1>1, ElementOfSeq
<1> QED BY <1>1, <1>2 DEF Entry

\* AddUp appends an entry for its link at age zero.
LEMMA AddUpQueue ==
  ASSUME TypeOK, NEW c \in Conns, AddUp(c)
  PROVE  /\ Len(ttl') = Len(ttl) + 1
         /\ \A i \in 1..Len(ttl) : ttl'[i] = ttl[i]
         /\ ttl'[Len(ttl) + 1].up = cur[c] /\ ttl'[Len(ttl) + 1].age = 0
         /\ cur[c] \in Sends[c] /\ cur[c] \in AllUplinks /\ key[c][2] \in Ports
<1>1. /\ cur[c] \in Sends[c] /\ cur[c] \in AllUplinks
      /\ key[c][2] \in Ports /\ ttl \in Seq(Entry)
  BY SendsTyped DEF AddUp, At, TypeOK, ConnOK, LinkTypeOK, Key
<1> DEFINE e == [up |-> cur[c], age |-> 0]
<1>2. e \in Entry /\ e.up = cur[c] /\ e.age = 0
  BY <1>1, LinksAssumption DEF Entry
<1>3. ttl' = Append(ttl, e)
  BY DEF AddUp
<1> HIDE DEF e
<1>4. /\ Len(ttl') = Len(ttl) + 1
      /\ \A i \in 1..Len(ttl) : ttl'[i] = ttl[i]
      /\ ttl'[Len(ttl) + 1] = e
  BY <1>1, <1>2, <1>3, AppendProperties
<1> QED BY <1>1, <1>2, <1>4

\* Cleanup's two ways to put the head back.
LEMMA RequeueQueue ==
  ASSUME TypeOK, NEW c \in Conns, InLoop(c), ttl' = Requeued(Head(ttl))
  PROVE  /\ Len(ttl') = Len(ttl) /\ Len(ttl) \in Nat /\ Len(ttl) > 0
         /\ \A i \in 1..(Len(ttl) - 1) : ttl'[i] = ttl[i + 1]
         /\ ttl'[Len(ttl)].up = ttl[1].up /\ ttl'[Len(ttl)].age = 0
<1>1. /\ ttl \in Seq(Entry) /\ Len(ttl) > 0 /\ Len(ttl) \in Nat
      /\ Head(ttl) \in Entry /\ Head(ttl) = ttl[1]
  BY LoopHead
<1>2. /\ Len(ttl') = Len(ttl)
      /\ \A i \in 1..(Len(ttl) - 1) : ttl'[i] = ttl[i + 1]
      /\ ttl'[Len(ttl)] = [up |-> Head(ttl).up, age |-> 0]
  <2>1. TTL \in Nat
    BY LinksAssumption
  <2> QED BY <1>1, <2>1, RequeuedSeq
<1>3. ttl'[Len(ttl)].up = Head(ttl).up /\ ttl'[Len(ttl)].age = 0
  BY <1>2
<1> QED BY <1>1, <1>2, <1>3

\* The queue is ordered by age: nothing behind an entry that has not expired
\* has expired, so Cleanup's break skips no expired link.
THEOREM QueueSorted == Spec => []TtlSorted
<1>1. Init => TtlSorted
  BY DEF Init, TtlSorted
<1>2. TypeOK /\ TtlSorted /\ [Next]_vars => TtlSorted'
  <2> SUFFICES ASSUME TypeOK, TtlSorted, [Next]_vars PROVE TtlSorted'
    OBVIOUS
  <2>0. /\ Len(ttl) \in Nat
        /\ \A i \in 1..Len(ttl) : ttl[i].age \in 0..(TTL + 1)
    BY EntriesTyped
  <2> USE LinksAssumption DEF TtlSorted
  <2>1. CASE UNCHANGED <<uplinkMap, busy, ttl, unused>>
    BY <2>1
  <2>2. CASE Tick
    <3>1. /\ Len(ttl') = Len(ttl)
          /\ \A i \in 1..Len(ttl) : ttl'[i].age = Older(ttl[i].age)
      BY <2>2, TickedSeq DEF TypeOK, LinkTypeOK
    <3>2. ASSUME NEW x \in 0..(TTL + 1), NEW y \in 0..(TTL + 1), x >= y PROVE Older(x) >= Older(y)
      BY <3>2 DEF Older
    <3> SUFFICES ASSUME NEW i \in 1..Len(ttl), NEW j \in 1..Len(ttl), i < j
                 PROVE  ttl'[i].age >= ttl'[j].age
      BY <3>1
    <3>3. ttl[i].age >= ttl[j].age /\ ttl[i].age \in 0..(TTL + 1) /\ ttl[j].age \in 0..(TTL + 1)
      BY <2>0
    <3>4. Older(ttl[i].age) >= Older(ttl[j].age)
      BY <3>2, <3>3
    <3> QED BY <3>1, <3>4
  <2>3. ASSUME NEW c \in Conns, Uplink(c) PROVE TtlSorted'
    BY <2>3 DEF Uplink
  <2>4. ASSUME NEW c \in Conns, SweepBreak(c) \/ SweepBusy(c) PROVE TtlSorted'
    <3>1. /\ Len(ttl') = Len(ttl)
          /\ \A i \in 1..(Len(ttl) - 1) : ttl'[i] = ttl[i + 1]
          /\ ttl'[Len(ttl)].age = 0
      BY <2>4, RequeueQueue DEF SweepBreak, SweepBusy
    <3>2. ASSUME NEW i \in 1..Len(ttl), NEW j \in 1..Len(ttl), i < j
          PROVE  ttl'[i].age >= ttl'[j].age
      <4>1. i \in 1..(Len(ttl) - 1) /\ i + 1 \in 1..Len(ttl) /\ ttl'[i] = ttl[i + 1]
        BY <2>0, <3>1, <3>2
      <4>2. CASE j = Len(ttl)
        BY <2>0, <3>1, <4>1, <4>2
      <4>3. CASE j # Len(ttl)
        <5>1. j \in 1..(Len(ttl) - 1) /\ j + 1 \in 1..Len(ttl) /\ i + 1 < j + 1
          BY <2>0, <3>2, <4>3
        <5>2. ttl'[j] = ttl[j + 1] /\ ttl[i + 1].age >= ttl[j + 1].age
          BY <3>1, <4>1, <5>1
        <5> QED BY <4>1, <5>2
      <4> QED BY <4>2, <4>3
    <3> QED BY <3>1, <3>2
  <2>5. ASSUME NEW c \in Conns, SweepIdle(c) PROVE TtlSorted'
    <3>1. /\ Len(ttl') = Len(ttl) - 1
          /\ \A i \in 1..(Len(ttl) - 1) : ttl'[i] = ttl[i + 1]
      BY <2>5, LoopHead DEF SweepIdle
    <3>2. ASSUME NEW i \in 1..(Len(ttl) - 1), NEW j \in 1..(Len(ttl) - 1), i < j
          PROVE  ttl'[i].age >= ttl'[j].age
      <4>1. i + 1 \in 1..Len(ttl) /\ j + 1 \in 1..Len(ttl) /\ i + 1 < j + 1
        BY <2>0, <3>2
      <4>2. ttl[i + 1].age >= ttl[j + 1].age
        BY <4>1
      <4> QED BY <3>1, <4>2
    <3> QED BY <3>1, <3>2
  <2>6. ASSUME NEW c \in Conns, AddUp(c) PROVE TtlSorted'
    <3>1. /\ Len(ttl') = Len(ttl) + 1
          /\ \A i \in 1..Len(ttl) : ttl'[i] = ttl[i]
          /\ ttl'[Len(ttl) + 1].age = 0
      BY <2>6, AddUpQueue
    <3>2. ASSUME NEW i \in 1..(Len(ttl) + 1), NEW j \in 1..(Len(ttl) + 1), i < j
          PROVE  ttl'[i].age >= ttl'[j].age
      <4>1. i \in 1..Len(ttl) /\ ttl'[i] = ttl[i]
        BY <2>0, <3>1, <3>2
      <4>2. CASE j = Len(ttl) + 1
        <5>1. ttl[i].age \in 0..(TTL + 1) /\ ttl'[j].age = 0
          BY <2>0, <3>1, <4>1, <4>2
        <5> QED BY <4>1, <5>1
      <4>3. CASE j # Len(ttl) + 1
        <5>1. j \in 1..Len(ttl) /\ ttl'[j] = ttl[j]
          BY <2>0, <3>1, <3>2, <4>3
        <5>2. ttl[i].age >= ttl[j].age
          BY <3>2, <4>1, <5>1
        <5> QED BY <4>1, <5>1, <5>2
      <4> QED BY <4>2, <4>3
    <3> QED BY <3>1, <3>2
  <2> QED BY <2>1, <2>2, <2>3, <2>4, <2>5, <2>6, QueueSteps DEF QueueStep
<1> QED BY <1>1, <1>2, LinksTypeCorrect, PTL DEF Spec

\* Every link can expire, whatever Adds and sweeps of other connections
\* interleave with the Add that made it.
THEOREM LinksHaveTtl == Spec => []EveryLinkHasTtl
<1>1. Init => EveryLinkHasTtl
  BY DEF Init, EveryLinkHasTtl, Links
<1>2. TypeOK /\ EveryLinkHasTtl /\ [Next]_vars => EveryLinkHasTtl'
  <2> SUFFICES ASSUME TypeOK, EveryLinkHasTtl, [Next]_vars,
                      NEW u \in AllUplinks, uplinkMap'[u] # None
               PROVE  \E i \in 1..Len(ttl') : ttl'[i].up = u
    BY DEF EveryLinkHasTtl, Links
  <2>0. /\ Len(ttl) \in Nat
        /\ uplinkMap[u] # None => \E i \in 1..Len(ttl) : ttl[i].up = u
    BY EntriesTyped DEF EveryLinkHasTtl, Links
  <2>1. CASE UNCHANGED <<uplinkMap, busy, ttl, unused>>
    BY <2>0, <2>1
  <2>2. CASE Tick
    <3>1. /\ Len(ttl') = Len(ttl) /\ uplinkMap' = uplinkMap
          /\ \A i \in 1..Len(ttl) : ttl'[i].up = ttl[i].up
      BY <2>2, TickedSeq, LinksAssumption DEF TypeOK, LinkTypeOK, Tick
    <3> QED BY <2>0, <3>1
  <2>3. ASSUME NEW c \in Conns, Uplink(c) PROVE \E i \in 1..Len(ttl') : ttl'[i].up = u
    BY <2>0, <2>3 DEF Uplink
  <2>4. ASSUME NEW c \in Conns, SweepBreak(c) \/ SweepBusy(c)
        PROVE  \E i \in 1..Len(ttl') : ttl'[i].up = u
    <3>1. /\ Len(ttl') = Len(ttl) /\ Len(ttl) > 0
          /\ \A i \in 1..(Len(ttl) - 1) : ttl'[i] = ttl[i + 1]
          /\ ttl'[Len(ttl)].up = ttl[1].up
      BY <2>4, RequeueQueue DEF SweepBreak, SweepBusy
    <3>2. PICK i \in 1..Len(ttl) : ttl[i].up = u
      BY <2>0, <2>4 DEF SweepBreak, SweepBusy, EndSweep
    <3>3. CASE i = 1
      BY <2>0, <3>1, <3>2, <3>3
    <3>4. CASE i # 1
      <4>1. i - 1 \in 1..(Len(ttl) - 1) /\ ttl'[i - 1] = ttl[i]
        BY <2>0, <3>1, <3>4
      <4> QED BY <2>0, <3>1, <3>2, <4>1
    <3> QED BY <3>3, <3>4
  <2>5. ASSUME NEW c \in Conns, SweepIdle(c) PROVE \E i \in 1..Len(ttl') : ttl'[i].up = u
    <3>1. /\ Len(ttl') = Len(ttl) - 1 /\ Head(ttl) = ttl[1]
          /\ \A i \in 1..(Len(ttl) - 1) : ttl'[i] = ttl[i + 1]
      BY <2>5, LoopHead DEF SweepIdle
    <3>2. ttl[1].up # u /\ uplinkMap[u] # None
      BY <2>5, <3>1 DEF SweepIdle, TypeOK, LinkTypeOK
    <3>3. PICK i \in 1..Len(ttl) : ttl[i].up = u
      BY <2>0, <3>2
    <3>4. i - 1 \in 1..(Len(ttl) - 1) /\ ttl'[i - 1] = ttl[i]
      BY <2>0, <3>1, <3>2, <3>3
    <3> QED BY <2>0, <3>1, <3>3, <3>4
  <2>6. ASSUME NEW c \in Conns, AddUp(c) PROVE \E i \in 1..Len(ttl') : ttl'[i].up = u
    <3>1. /\ Len(ttl') = Len(ttl) + 1
          /\ \A i \in 1..Len(ttl) : ttl'[i] = ttl[i]
          /\ ttl'[Len(ttl) + 1].up = cur[c]
      BY <2>6, AddUpQueue
    <3>2. CASE u = cur[c]
      BY <2>0, <3>1, <3>2
    <3>3. CASE u # cur[c]
      <4>1. uplinkMap[u] # None
        BY <2>6, <3>3 DEF AddUp, TypeOK, LinkTypeOK
      <4> QED BY <2>0, <3>1, <4>1
    <3> QED BY <3>2, <3>3
  <2> QED BY <2>1, <2>2, <2>3, <2>4, <2>5, <2>6, QueueSteps DEF QueueStep
<1> QED BY <1>1, <1>2, LinksTypeCorrect, PTL DEF Spec

(***************************************************************************)
(* Every port is accounted for.                                            *)
(***************************************************************************)

\* A step of goroutine c outside GetPort and DelPort hands no key over.
LEMMA LeakUntouched ==
  ASSUME PortsAccounted, NEW c \in Conns, pc[c] \notin {"record", "unlisten"},
         UNCHANGED <<ports, mgr>>,
         \A d \in Conns : d # c => pc'[d] = pc[d] /\ key'[d] = key[d]
  PROVE  PortsAccounted'
<1> SUFFICES ASSUME NEW k \in mgr' PROVE k \in Recorded' \cup InFlight'
  BY DEF PortsAccounted
<1>1. CASE k \in Recorded
  BY <1>1 DEF Recorded
<1>2. CASE k \in InFlight
  <2>1. PICK d \in Conns : pc[d] \in {"record", "unlisten"} /\ key[d] = k
    BY <1>2 DEF InFlight
  <2>2. pc'[d] = pc[d] /\ key'[d] = key[d]
    BY <2>1
  <2> QED BY <2>1, <2>2 DEF InFlight
<1> QED BY <1>1, <1>2 DEF PortsAccounted

\* Close returns every recorded port and leaves the keys in flight alone.
LEMMA LeakClosed ==
  ASSUME PortsAccounted, CloseAll, NEW c,
         pc[c] \notin {"record", "unlisten"},
         \A d \in Conns : d # c => pc'[d] = pc[d] /\ key'[d] = key[d]
  PROVE  PortsAccounted'
<1> SUFFICES ASSUME NEW k \in mgr' PROVE k \in InFlight'
  BY DEF PortsAccounted
<1>1. k \in InFlight
  BY DEF CloseAll, PortsAccounted
<1>2. PICK d \in Conns : pc[d] \in {"record", "unlisten"} /\ key[d] = k
  BY <1>1 DEF InFlight
<1>3. pc'[d] = pc[d] /\ key'[d] = key[d]
  BY <1>2
<1> QED BY <1>2, <1>3 DEF InFlight

\* Every port the Manager holds is recorded or in flight, for any number of
\* connections, colliding flows and a Close at any moment.
LEMMA PortsStayAccounted == Spec => []PortsAccounted
<1>1. Init => PortsAccounted
  BY DEF Init, AdapterInit, PortsAccounted
<1>2. TypeOK /\ PortsAccounted /\ [Next]_vars => PortsAccounted'
  <2> SUFFICES ASSUME TypeOK, PortsAccounted, [Next]_vars PROVE PortsAccounted'
    OBVIOUS
  <2> USE DEF At, Goto, adapterVars, linkVars, sweepVars, connVars, envVars
  <2>0. pc \in [Conns -> Pcs] /\ key \in [Conns -> Key \cup {None}]
    BY DEF TypeOK, ConnTypeOK
  <2>1. ASSUME NEW c \in Conns, Recv(c) \/ Uplink(c) PROVE PortsAccounted'
    BY <2>0, <2>1, LeakUntouched DEF Recv, Uplink
  <2>2. ASSUME NEW c \in Conns, Send(c) PROVE PortsAccounted'
    <3>1. /\ pc[c] \notin {"record", "unlisten"}
          /\ \A d \in Conns : d # c => pc'[d] = pc[d] /\ key'[d] = key[d]
      BY <2>0, <2>2 DEF Send, Forget
    <3>2. CASE UNCHANGED adapterVars
      BY <3>1, <3>2, LeakUntouched
    <3>3. CASE CloseAll
      BY <3>1, <3>3, LeakClosed
    <3> QED BY <2>2, <3>2, <3>3 DEF Send
  <2>3. ASSUME NEW c \in Conns, BeginSweep(c) \/ SweepExhausted(c) \/ SweepBreak(c)
        PROVE  PortsAccounted'
    BY <2>0, <2>3, LeakUntouched DEF BeginSweep, SweepExhausted, SweepBreak, EndSweep, InLoop
  <2>4. ASSUME NEW c \in Conns, SweepBusy(c) \/ SweepIdle(c) \/ SweepPanic(c)
        PROVE  PortsAccounted'
    BY <2>0, <2>4, LeakUntouched DEF SweepBusy, SweepIdle, SweepPanic, InLoop
  <2>5. ASSUME NEW c \in Conns, DownDel(c) \/ DelPortPanic(c) \/ EndCleanup(c)
        PROVE  PortsAccounted'
    BY <2>0, <2>5, LeakUntouched DEF DownDel, DelPortPanic, EndCleanup
  <2>6. ASSUME NEW c \in Conns, DelPort(c) PROVE PortsAccounted'
    <3>1. PICK s \in swept[c] :
            /\ Remove(KeyOf(s[1], s[2]), s[1].server)
            /\ key' = [key EXCEPT ![c] = KeyOf(s[1], s[2])]
            /\ IF NotUse(KeyOf(s[1], s[2]), s[1].server) THEN Goto(c, "unlisten") ELSE UNCHANGED pc
      BY <2>6 DEF DelPort
    <3> DEFINE k0 == KeyOf(s[1], s[2])
    <3>2. /\ k0 \in Key /\ mgr' = mgr /\ ports' = [ports EXCEPT ![k0] = @ \ {s[1].server}]
      BY <3>1 DEF Remove, Recorded
    <3> SUFFICES ASSUME NEW k \in mgr PROVE k \in Recorded' \cup InFlight'
      BY <3>2 DEF PortsAccounted
    <3>3. ports \in [Key -> SUBSET Remotes]
      BY DEF TypeOK, AdapterTypeOK, AddrSet
    <3>4. CASE k = k0 /\ NotUse(k0, s[1].server)
      BY <2>0, <3>1, <3>4 DEF InFlight
    <3>5. CASE k = k0 /\ ~NotUse(k0, s[1].server)
      BY <3>2, <3>3, <3>5 DEF Recorded, NotUse
    <3>6. CASE k # k0 /\ k \in Recorded
      BY <3>2, <3>3, <3>6 DEF Recorded
    <3>7. CASE k \in InFlight
      <4>1. PICK d \in Conns : pc[d] \in {"record", "unlisten"} /\ key[d] = k
        BY <3>7 DEF InFlight
      <4>2. d # c /\ pc'[d] = pc[d] /\ key'[d] = key[d]
        BY <2>0, <2>6, <3>1, <4>1 DEF DelPort
      <4> QED BY <4>1, <4>2 DEF InFlight
    <3> QED BY <3>4, <3>5, <3>6, <3>7 DEF PortsAccounted
  <2>7. ASSUME NEW c \in Conns, DelPortSocket(c) PROVE PortsAccounted'
    <3> SUFFICES ASSUME NEW k \in mgr' PROVE k \in Recorded' \cup InFlight'
      BY DEF PortsAccounted
    <3>1. k \in mgr /\ k # key[c] /\ ports' = ports
      BY <2>7 DEF DelPortSocket, Unlisten
    <3>2. CASE k \in Recorded
      BY <3>1, <3>2 DEF Recorded
    <3>3. CASE k \in InFlight
      <4>1. PICK d \in Conns : pc[d] \in {"record", "unlisten"} /\ key[d] = k
        BY <3>3 DEF InFlight
      <4>2. d # c /\ pc'[d] = pc[d] /\ key'[d] = key[d]
        BY <2>0, <2>7, <3>1, <4>1 DEF DelPortSocket
      <4> QED BY <4>1, <4>2 DEF InFlight
    <3> QED BY <3>1, <3>2, <3>3 DEF PortsAccounted
  <2>8. ASSUME NEW c \in Conns, GetPortScan(c) PROVE PortsAccounted'
    BY <2>0, <2>8, LeakUntouched DEF GetPortScan
  <2>9. ASSUME NEW c \in Conns, GetPortAlloc(c) PROVE PortsAccounted'
    <3>1. ASSUME NEW p \in Ports, Listen(cur[c].proto, p),
                 key' = [key EXCEPT ![c] = KeyOf(cur[c], p)], Goto(c, "record")
          PROVE  PortsAccounted'
      <4> SUFFICES ASSUME NEW k \in mgr' PROVE k \in Recorded' \cup InFlight'
        BY DEF PortsAccounted
      <4>1. CASE k = KeyOf(cur[c], p)
        BY <2>0, <3>1, <4>1 DEF InFlight
      <4>2. CASE k # KeyOf(cur[c], p)
        <5>1. k \in mgr /\ ports' = ports
          BY <3>1, <4>2 DEF Listen, KeyOf
        <5>2. CASE k \in Recorded
          BY <5>1, <5>2 DEF Recorded
        <5>3. CASE k \in InFlight
          <6>1. PICK d \in Conns : pc[d] \in {"record", "unlisten"} /\ key[d] = k
            BY <5>3 DEF InFlight
          <6>2. d # c /\ pc'[d] = pc[d] /\ key'[d] = key[d]
            BY <2>0, <2>9, <3>1, <6>1 DEF GetPortAlloc
          <6> QED BY <6>1, <6>2 DEF InFlight
        <5> QED BY <5>1, <5>2, <5>3 DEF PortsAccounted
      <4> QED BY <4>1, <4>2
    <3>2. ASSUME ListenFails(cur[c].proto), Goto(c, "recv"), Forget(c) PROVE PortsAccounted'
      <4>1. UNCHANGED <<ports, mgr>>
        BY <3>2 DEF ListenFails
      <4> QED BY <2>0, <2>9, <3>2, <4>1, LeakUntouched DEF GetPortAlloc, Forget
    <3> QED BY <2>9, <3>1, <3>2 DEF GetPortAlloc
  <2>10. ASSUME NEW c \in Conns, GetPortRecord(c) PROVE PortsAccounted'
    <3> SUFFICES ASSUME NEW k \in mgr' PROVE k \in Recorded' \cup InFlight'
      BY DEF PortsAccounted
    <3>1. /\ k \in mgr /\ key[c] \in Key /\ ports \in [Key -> SUBSET Remotes]
          /\ ports' = [ports EXCEPT ![key[c]] = @ \cup {cur[c].server}]
      BY <2>10 DEF GetPortRecord, Record, TypeOK, ConnOK, AdapterTypeOK, AddrSet
    <3>2. CASE k = key[c]
      BY <3>1, <3>2 DEF Recorded
    <3>3. CASE k # key[c] /\ k \in Recorded
      BY <3>1, <3>3 DEF Recorded
    <3>4. CASE k # key[c] /\ k \in InFlight
      <4>1. PICK d \in Conns : pc[d] \in {"record", "unlisten"} /\ key[d] = k
        BY <3>4 DEF InFlight
      <4>2. d # c /\ pc'[d] = pc[d] /\ key'[d] = key[d]
        BY <2>0, <2>10, <3>4, <4>1 DEF GetPortRecord
      <4> QED BY <4>1, <4>2 DEF InFlight
    <3> QED BY <3>1, <3>2, <3>3, <3>4 DEF PortsAccounted
  <2>11. ASSUME NEW c \in Conns, AddUp(c) \/ AddDown(c) PROVE PortsAccounted'
    BY <2>0, <2>11, LeakUntouched DEF AddUp, AddDown
  <2>12. CASE UNCHANGED <<ports, mgr, pc, key>>
    BY <2>12 DEF PortsAccounted, Recorded, InFlight
  <2>13. CASE Close
    <3> SUFFICES ASSUME NEW k \in mgr' PROVE k \in InFlight'
      BY DEF PortsAccounted
    <3>1. k \in InFlight /\ UNCHANGED <<pc, key>>
      BY <2>13 DEF Close, CloseAll, PortsAccounted
    <3> QED BY <3>1 DEF InFlight
  <2> QED BY <2>1, <2>2, <2>3, <2>4, <2>5, <2>6, <2>7, <2>8, <2>9, <2>10, <2>11, <2>12, <2>13
          DEF Next, ServeConn, Cleanup, Add, Tick, Collect, Finalize, Halted, vars
<1> QED BY <1>1, <1>2, LinksTypeCorrect, PTL DEF Spec

(***************************************************************************)
(* Clients behind different addresses.  TtlMatchesLinks is not inductive:  *)
(* AddUp must know that the link is still absent (MissingStays), which     *)
(* only its own goroutine could change.                                    *)
(***************************************************************************)

\* A goroutine between a miss and AddUp got there by a miss and kept its packet.
LEMMA MissSteps ==
  ASSUME TypeOK, [Next]_vars, NEW c \in Conns, pc'[c] \in MissPcs
  PROVE  /\ cur'[c] = cur[c]
         /\ \/ pc[c] \in MissPcs /\ ~AddUp(c)
            \/ uplinkMap[cur[c]] = None /\ uplinkMap' = uplinkMap
<1> USE DEF At, Goto, adapterVars, linkVars, sweepVars, connVars, envVars, MissPcs
<1>0. pc \in [Conns -> Pcs] /\ cur \in [Conns -> AllUplinks \cup {None}]
  BY DEF TypeOK, ConnTypeOK
<1> DEFINE Goal == /\ cur'[c] = cur[c]
                   /\ \/ pc[c] \in MissPcs /\ ~AddUp(c)
                      \/ uplinkMap[cur[c]] = None /\ uplinkMap' = uplinkMap
<1>1. ASSUME NEW d \in Conns, ServeConn(d), d # c PROVE Goal
  <2>1. pc'[c] = pc[c] /\ cur'[c] = cur[c]
    BY <1>0, <1>1 DEF ServeConn, Cleanup, Add, Recv, Uplink, Send, Forget, BeginSweep, SweepExhausted,
              SweepBreak, EndSweep, SweepBusy, SweepIdle, SweepPanic, DownDel, DelPort,
              DelPortSocket, DelPortPanic, EndCleanup, GetPortScan, GetPortAlloc,
              GetPortRecord, AddUp, AddDown
  <2>2. ~AddUp(c)
    BY <1>0, <2>1 DEF AddUp
  <2> QED BY <2>1, <2>2
<1>2. ASSUME ServeConn(c) PROVE Goal
  <2>1. CASE Recv(c) \/ Send(c)
    BY <1>0, <2>1 DEF Recv, Send
  <2>2. CASE Uplink(c)
    BY <1>0, <2>2 DEF Uplink
  <2>3. CASE Cleanup(c)
    <3>1. pc[c] \in MissPcs /\ pc[c] # "addup" /\ cur' = cur
      BY <2>3 DEF Cleanup, BeginSweep, SweepExhausted, SweepBreak, EndSweep, SweepBusy, SweepIdle,
                  SweepPanic, DownDel, DelPort, DelPortSocket, DelPortPanic, EndCleanup, InLoop
    <3> QED BY <3>1 DEF AddUp
  <2>4. CASE GetPortScan(c) \/ GetPortRecord(c)
    <3>1. pc[c] \in MissPcs /\ pc[c] # "addup" /\ cur' = cur
      BY <2>4 DEF GetPortScan, GetPortRecord
    <3> QED BY <3>1 DEF AddUp
  <2>5. CASE GetPortAlloc(c)
    <3>1. pc[c] = "alloc" /\ cur' = cur
      BY <1>0, <2>5 DEF GetPortAlloc
    <3> QED BY <3>1 DEF AddUp
  <2>6. CASE AddUp(c) \/ AddDown(c)
    BY <1>0, <2>6 DEF AddUp, AddDown
  <2> QED BY <1>2, <2>1, <2>2, <2>3, <2>4, <2>5, <2>6 DEF ServeConn, Add
<1>3. CASE UNCHANGED <<pc, cur>>
  <2>1. ~AddUp(c)
    BY <1>0, <1>3 DEF AddUp
  <2> QED BY <1>3, <2>1
<1> QED BY <1>1, <1>2, <1>3 DEF Next, Tick, Close, Collect, Halted, vars

ClientInv == TtlMatchesLinks /\ MissingStays /\ UseCounted

\* The inductive step for clients behind different addresses.
LEMMA ClientInvStep ==
  ASSUME DistinctClients, TypeOK, ClientInv, [Next]_vars
  PROVE  ClientInv'
<1>0. /\ Len(ttl) \in Nat
      /\ \A i \in 1..Len(ttl) : /\ ttl[i].up \in AllUplinks /\ ttl[i].age \in 0..(TTL + 1)
      /\ uplinkMap \in [AllUplinks -> Ports \cup {None}]
      /\ unused \in [AllUplinks -> 0..(TTL + 1)]
      /\ busy \in SUBSET AllUplinks
  BY EntriesTyped DEF TypeOK, LinkTypeOK
<1>1. MissingStays'
  <2> SUFFICES ASSUME NEW c \in Conns, pc'[c] \in MissPcs
               PROVE  ~(cur'[c] \in AllUplinks /\ uplinkMap'[cur'[c]] # None)
    BY DEF MissingStays, Links
  <2>1. /\ cur'[c] = cur[c]
        /\ \/ pc[c] \in MissPcs /\ ~AddUp(c)
           \/ uplinkMap[cur[c]] = None /\ uplinkMap' = uplinkMap
    BY MissSteps
  <2>2. CASE uplinkMap[cur[c]] = None /\ uplinkMap' = uplinkMap
    BY <2>1, <2>2
  <2>3. CASE pc[c] \in MissPcs /\ ~AddUp(c)
    <3>1. cur[c] \in Sends[c] /\ cur[c] \in AllUplinks /\ uplinkMap[cur[c]] = None
      BY <2>3, SendsTyped DEF TypeOK, ConnOK, MissPcs, ClientInv, MissingStays, Links
    <3>2. CASE UNCHANGED <<uplinkMap, busy, ttl, unused>> \/ Tick
      BY <2>1, <3>1, <3>2 DEF Tick
    <3>3. ASSUME NEW d \in Conns,
                 Uplink(d) \/ SweepBreak(d) \/ SweepBusy(d)
          PROVE  uplinkMap'[cur[c]] = None
      BY <3>1, <3>3 DEF Uplink, SweepBreak, EndSweep, SweepBusy
    <3>4. ASSUME NEW d \in Conns, SweepIdle(d) PROVE uplinkMap'[cur[c]] = None
      BY <1>0, <3>1, <3>4 DEF SweepIdle
    <3>5. ASSUME NEW d \in Conns, AddUp(d) PROVE uplinkMap'[cur[c]] = None
      <4>1. d # c /\ cur[d] \in Sends[d]
        BY <2>3, <3>5, AddUpQueue
      <4>2. cur[d] # cur[c]
        BY <3>1, <4>1, DistinctClients DEF DistinctClients
      <4> QED BY <1>0, <3>1, <3>5, <4>2 DEF AddUp
    <3> QED BY <2>1, <3>1, <3>2, <3>3, <3>4, <3>5, QueueSteps DEF QueueStep
  <2> QED BY <2>1, <2>2, <2>3
<1>2. TtlMatchesLinks' /\ UseCounted'
  <2> USE DEF TtlMatchesLinks, UseCounted, Links
  <2>0. TtlMatchesLinks /\ UseCounted /\ MissingStays
    BY DEF ClientInv
  <2>1. CASE UNCHANGED <<uplinkMap, busy, ttl, unused>>
    BY <2>0, <2>1
  <2>2. CASE Tick
    <3>1. /\ Len(ttl') = Len(ttl) /\ uplinkMap' = uplinkMap /\ busy' = busy
          /\ unused' = [u \in AllUplinks |-> Older(unused[u])]
          /\ \A i \in 1..Len(ttl) : /\ ttl'[i].up = ttl[i].up
                                    /\ ttl'[i].age = Older(ttl[i].age)
      BY <2>2, TickedSeq, LinksAssumption DEF TypeOK, LinkTypeOK, Tick
    <3>2. TtlMatchesLinks'
      BY <2>0, <3>1
    <3>3. ASSUME NEW i \in 1..Len(ttl)
          PROVE  ttl'[i].up \in busy' \/ unused'[ttl'[i].up] >= ttl'[i].age
      <4>1. ttl[i].up \in busy \/ unused[ttl[i].up] >= ttl[i].age
        BY <2>0
      <4>2. /\ unused'[ttl'[i].up] = Older(unused[ttl[i].up])
            /\ unused[ttl[i].up] \in 0..(TTL + 1)
        BY <1>0, <3>1
      <4> QED BY <1>0, <3>1, <4>1, <4>2, LinksAssumption DEF Older
    <3> QED BY <3>1, <3>2, <3>3
  <2>3. ASSUME NEW c \in Conns, Uplink(c) PROVE TtlMatchesLinks' /\ UseCounted'
    <3>1. ttl' = ttl /\ uplinkMap' = uplinkMap
      BY <2>3 DEF Uplink
    <3>2. \A u \in AllUplinks : u \in busy' \/ (unused'[u] = unused[u] /\ u \notin busy)
      BY <1>0, <2>3 DEF Uplink
    <3> QED BY <1>0, <2>0, <3>1, <3>2
  <2>4. ASSUME NEW c \in Conns, SweepBreak(c) \/ SweepBusy(c)
        PROVE  TtlMatchesLinks' /\ UseCounted'
    <3>1. /\ Len(ttl') = Len(ttl) /\ Len(ttl) > 0
          /\ \A i \in 1..(Len(ttl) - 1) : ttl'[i] = ttl[i + 1]
          /\ ttl'[Len(ttl)].up = ttl[1].up /\ ttl'[Len(ttl)].age = 0
      BY <2>4, RequeueQueue DEF SweepBreak, SweepBusy
    <3>2. uplinkMap' = uplinkMap /\ unused' = unused
      BY <2>4 DEF SweepBreak, SweepBusy, EndSweep
    <3>3. \A u \in busy : u = ttl[1].up \/ u \in busy'
      BY <2>4, LoopHead DEF SweepBreak, SweepBusy, EndSweep
    <3> DEFINE from(i) == IF i = Len(ttl) THEN 1 ELSE i + 1
    <3>4. ASSUME NEW i \in 1..Len(ttl)
          PROVE  from(i) \in 1..Len(ttl) /\ ttl'[i].up = ttl[from(i)].up
      BY <1>0, <3>1
    <3>4a. \A i, j \in 1..Len(ttl) : from(i) = from(j) => i = j
      BY <1>0
    <3> HIDE DEF from
    <3>5a. \A i \in 1..Len(ttl) : ttl'[i].up \in Links'
      BY <2>0, <3>2, <3>4
    <3>5b. ASSUME NEW i \in 1..Len(ttl), NEW j \in 1..Len(ttl), ttl'[i].up = ttl'[j].up
           PROVE  i = j
      <4>1. from(i) = from(j)
        BY <2>0, <3>4, <3>5b
      <4> QED BY <3>4a, <4>1
    <3>5. TtlMatchesLinks'
      BY <3>1, <3>5a, <3>5b
    <3>6. ASSUME NEW i \in 1..Len(ttl)
          PROVE  ttl'[i].up \in busy' \/ unused'[ttl'[i].up] >= ttl'[i].age
      <4>1. CASE i = Len(ttl)
        BY <1>0, <3>1, <3>2, <4>1
      <4>2. CASE i # Len(ttl)
        <5>1. ttl'[i] = ttl[i + 1] /\ i + 1 \in 1..Len(ttl) /\ 1 \in 1..Len(ttl) /\ i + 1 # 1
          BY <1>0, <3>1, <4>2
        <5>2. ttl[i + 1].up # ttl[1].up
          BY <2>0, <5>1
        <5>3. ttl[i + 1].up \in busy \/ unused[ttl[i + 1].up] >= ttl[i + 1].age
          BY <2>0, <5>1
        <5> QED BY <3>2, <3>3, <5>1, <5>2, <5>3
      <4> QED BY <4>1, <4>2
    <3> QED BY <3>1, <3>5, <3>6
  <2>5. ASSUME NEW c \in Conns, SweepIdle(c) PROVE TtlMatchesLinks' /\ UseCounted'
    <3>1. /\ Len(ttl') = Len(ttl) - 1 /\ Head(ttl) = ttl[1] /\ Len(ttl) > 0
          /\ \A i \in 1..(Len(ttl) - 1) : ttl'[i] = ttl[i + 1]
      BY <2>5, LoopHead DEF SweepIdle
    <3>2. /\ uplinkMap' = [uplinkMap EXCEPT ![ttl[1].up] = None]
          /\ busy' = busy /\ unused' = unused
      BY <2>5, <3>1 DEF SweepIdle
    <3>3. ASSUME NEW i \in 1..(Len(ttl) - 1)
          PROVE  /\ ttl'[i] = ttl[i + 1] /\ i + 1 \in 1..Len(ttl)
                 /\ ttl[i + 1].up # ttl[1].up
      <4>1. i + 1 \in 1..Len(ttl) /\ 1 \in 1..Len(ttl) /\ i + 1 # 1
        BY <1>0, <3>1
      <4> QED BY <2>0, <3>1, <4>1
    <3>4. \A i \in 1..(Len(ttl) - 1) : ttl'[i].up \in Links'
      <4> TAKE i \in 1..(Len(ttl) - 1)
      <4>1. ttl[i + 1].up \in AllUplinks /\ uplinkMap[ttl[i + 1].up] # None
        BY <2>0, <3>3
      <4> QED BY <1>0, <3>2, <3>3, <4>1
    <3>5. \A i, j \in 1..(Len(ttl) - 1) : ttl'[i].up = ttl'[j].up => i = j
      <4> TAKE i, j \in 1..(Len(ttl) - 1)
      <4>1. ttl[i + 1].up = ttl[j + 1].up => i + 1 = j + 1
        BY <2>0, <3>3
      <4> QED BY <1>0, <3>3, <4>1
    <3>6. UseCounted'
      BY <1>0, <2>0, <3>1, <3>2, <3>3
    <3> QED BY <3>1, <3>4, <3>5, <3>6
  <2>6. ASSUME NEW c \in Conns, AddUp(c) PROVE TtlMatchesLinks' /\ UseCounted'
    <3>1. /\ Len(ttl') = Len(ttl) + 1
          /\ \A i \in 1..Len(ttl) : ttl'[i] = ttl[i]
          /\ ttl'[Len(ttl) + 1].up = cur[c] /\ ttl'[Len(ttl) + 1].age = 0
          /\ cur[c] \in AllUplinks /\ key[c][2] \in Ports
      BY <2>6, AddUpQueue
    <3>2. uplinkMap[cur[c]] = None
      BY <2>0, <2>6, <3>1 DEF AddUp, At, MissingStays, MissPcs
    <3>3. \A i \in 1..Len(ttl) : ttl[i].up # cur[c]
      BY <2>0, <3>2
    <3>4. /\ uplinkMap' = [uplinkMap EXCEPT ![cur[c]] = key[c][2]]
          /\ busy' = busy \ {cur[c]} /\ unused' = [unused EXCEPT ![cur[c]] = 0]
      BY <2>6 DEF AddUp
    <3>5. key[c][2] # None
      BY <3>1, LinksAssumption
    <3>6. \A i \in 1..(Len(ttl) + 1) : i \in 1..Len(ttl) \/ i = Len(ttl) + 1
      BY <1>0
    <3>7. \A i \in 1..(Len(ttl) + 1) : ttl'[i].up \in Links'
      BY <1>0, <2>0, <3>1, <3>3, <3>4, <3>5, <3>6
    <3>8. \A i, j \in 1..(Len(ttl) + 1) : ttl'[i].up = ttl'[j].up => i = j
      BY <1>0, <2>0, <3>1, <3>3, <3>6
    <3>9. ASSUME NEW i \in 1..(Len(ttl) + 1)
          PROVE  ttl'[i].up \in busy' \/ unused'[ttl'[i].up] >= ttl'[i].age
      <4>1. CASE i = Len(ttl) + 1
        BY <1>0, <3>1, <3>4, <4>1
      <4>2. CASE i \in 1..Len(ttl)
        <5>1. ttl[i].up \in busy \/ unused[ttl[i].up] >= ttl[i].age
          BY <2>0, <4>2
        <5> QED BY <1>0, <3>1, <3>3, <3>4, <4>2, <5>1
      <4> QED BY <3>6, <4>1, <4>2
    <3> QED BY <3>1, <3>7, <3>8, <3>9
  <2> QED BY <2>1, <2>2, <2>3, <2>4, <2>5, <2>6, QueueSteps DEF QueueStep
<1> QED BY <1>1, <1>2 DEF ClientInv

\* The inductive invariant of the queue, for clients behind different addresses.
THEOREM ClientInvariant ==
  ASSUME DistinctClients PROVE Spec => []ClientInv
<1>1. Init => ClientInv
  BY DEF Init, ClientInv, TtlMatchesLinks, MissingStays, UseCounted, MissPcs
<1>2. TypeOK /\ ClientInv /\ [Next]_vars => ClientInv'
  BY ClientInvStep
<1> QED BY <1>1, <1>2, LinksTypeCorrect, PTL DEF Spec

\* One queue entry per link, and so no nil port in Cleanup, for any number of
\* clients behind different addresses.
THEOREM QueueMatchesLinks ==
  ASSUME DistinctClients PROVE Spec => []TtlMatchesLinks
<1>1. ClientInv => TtlMatchesLinks
  BY DEF ClientInv
<1> QED BY <1>1, ClientInvariant, PTL

\* A link is dropped only after more than the ttl without a packet.
THEOREM LinksExpireLate ==
  ASSUME DistinctClients PROVE Spec => NoEarlyExpiry
<1> DEFINE Drop == \A u \in AllUplinks :
             uplinkMap[u] # None /\ uplinkMap'[u] = None => unused[u] > TTL
<1>1. TypeOK /\ ClientInv /\ [Next]_vars => [Drop]_vars
  <2> SUFFICES ASSUME TypeOK, ClientInv, [Next]_vars,
                      NEW u \in AllUplinks, uplinkMap[u] # None, uplinkMap'[u] = None
               PROVE  unused[u] > TTL
    OBVIOUS
  <2>1. uplinkMap \in [AllUplinks -> Ports \cup {None}]
        /\ unused \in [AllUplinks -> 0..(TTL + 1)]
    BY DEF TypeOK, LinkTypeOK
  <2>2. ASSUME NEW c \in Conns, SweepIdle(c) PROVE unused[u] > TTL
    <3>1. Head(ttl) = ttl[1] /\ 1 \in 1..Len(ttl) /\ Head(ttl) \in Entry
      BY <2>2, LoopHead DEF SweepIdle
    <3>2. ttl[1].up = u /\ u \notin busy /\ ttl[1].age > TTL
      BY <2>1, <2>2, <3>1 DEF SweepIdle, Expired
    <3>3. unused[u] >= ttl[1].age
      BY <3>1, <3>2 DEF ClientInv, UseCounted
    <3>4. ttl[1].age \in Nat /\ unused[u] \in Nat /\ TTL \in Nat
      BY <2>1, <3>1, LinksAssumption DEF Entry
    <3> QED BY <3>2, <3>3, <3>4
  <2>3. ASSUME NEW c \in Conns, AddUp(c) PROVE FALSE
    <3>1. key[c][2] # None /\ cur[c] \in AllUplinks
      BY <2>3, AddUpQueue, LinksAssumption
    <3> QED BY <2>1, <2>3, <3>1 DEF AddUp
  <2>4. ASSUME NEW c \in Conns, Uplink(c) \/ SweepBreak(c) \/ SweepBusy(c) PROVE FALSE
    BY <2>4 DEF Uplink, SweepBreak, SweepBusy, EndSweep
  <2>5. ~(UNCHANGED <<uplinkMap, busy, ttl, unused>> \/ Tick)
    BY DEF Tick
  <2> QED BY <2>2, <2>3, <2>4, <2>5, QueueSteps DEF QueueStep
<1> QED BY <1>1, LinksTypeCorrect, ClientInvariant, PTL DEF Spec, NoEarlyExpiry

(***************************************************************************)
(* Stale return paths: an entry of downlinkMap has a live link, or one in  *)
(* the hands of a Cleanup, unless it was written late.                     *)
(***************************************************************************)

\* The steps that write downlinkMap.
LEMMA DownSteps ==
  ASSUME [Next]_vars
  PROVE  \/ \E c \in Conns : DownDel(c) \/ AddDown(c)
         \/ UNCHANGED <<downlinkMap, late>>
<1> USE DEF linkVars, envVars, histVars
<1>1. ASSUME NEW c \in Conns, ServeConn(c), ~DownDel(c), ~AddDown(c)
      PROVE  UNCHANGED <<downlinkMap, late>>
  BY <1>1 DEF ServeConn, Cleanup, Add, Recv, Uplink, Send, BeginSweep, SweepExhausted, SweepBreak,
              EndSweep, SweepBusy, SweepIdle, SweepPanic, DelPort, DelPortSocket, DelPortPanic,
              EndCleanup, GetPortScan, GetPortAlloc, GetPortRecord, AddUp
<1>2. CASE Tick \/ Close \/ Collect
  BY <1>2 DEF Tick, Close, Collect
<1>3. CASE UNCHANGED vars
  BY <1>3 DEF vars
<1> QED BY <1>1, <1>2, <1>3 DEF Next, Halted

\* Links are made by AddUp and unmade by SweepIdle.
LEMMA MapSteps ==
  ASSUME [Next]_vars
  PROVE  (\E c \in Conns : SweepIdle(c) \/ AddUp(c)) \/ UNCHANGED uplinkMap
<1>1. QueueStep \/ UNCHANGED uplinkMap
  BY QueueSteps
<1> QED BY <1>1 DEF QueueStep, Tick, Uplink, SweepBreak, SweepBusy, EndSweep

\* Swept links stay in the hands of a goroutine until it has deleted them from
\* downlinkMap.
LEMMA SweptStay ==
  ASSUME TypeOK, [Next]_vars, NEW c \in Conns, ~DownDel(c),
         pc[c] \in {"sweep", "downdel"}, swept[c] # {}
  PROVE  pc'[c] \in {"sweep", "downdel"} /\ swept[c] \subseteq swept'[c]
<1> USE DEF At, Goto, InLoop, connVars
<1>0. /\ pc \in [Conns -> Pcs] /\ swept \in [Conns -> SUBSET (AllUplinks \X Ports)]
  BY DEF TypeOK, ConnTypeOK
<1>1. ASSUME NEW e \in Conns, ServeConn(e), e # c PROVE pc'[c] = pc[c] /\ swept'[c] = swept[c]
  BY <1>0, <1>1 DEF ServeConn, Cleanup, Add, Recv, Uplink, Send, Forget, BeginSweep, SweepExhausted,
              SweepBreak, EndSweep, SweepBusy, SweepIdle, SweepPanic, DownDel, DelPort,
              DelPortSocket, DelPortPanic, EndCleanup, GetPortScan, GetPortAlloc,
              GetPortRecord, AddUp, AddDown
<1>2. CASE ServeConn(c)
  <2>1. SweepExhausted(c) \/ SweepBreak(c) \/ SweepBusy(c) \/ SweepIdle(c) \/ SweepPanic(c)
    BY <1>2 DEF ServeConn, Cleanup, Add, Recv, Uplink, Send, BeginSweep, DelPort, DelPortSocket,
                DelPortPanic, EndCleanup, GetPortScan, GetPortAlloc, GetPortRecord, AddUp, AddDown
  <2> QED BY <1>0, <2>1 DEF SweepExhausted, SweepBreak, EndSweep, SweepBusy, SweepIdle, SweepPanic
<1>3. CASE UNCHANGED <<pc, swept>>
  BY <1>3
<1> QED BY <1>1, <1>2, <1>3 DEF Next, Tick, Close, Collect, Halted, vars

\* An entry of downlinkMap outlives its link only until the Cleanup that swept
\* the link deletes it, or when Add wrote it after the sweep.
LEMMA StaleStep ==
  ASSUME TypeOK, MissingStays, NoStaleReturnPath, [Next]_vars
  PROVE  NoStaleReturnPath'
<1> DEFINE Swept(d) == \E c \in Conns : /\ pc[c] \in {"sweep", "downdel"}
                                        /\ \E s \in swept[c] : d = DownOf(s[1], s[2])
           Live(d) == \E u \in Links : d = DownOf(u, uplinkMap[u])
<1>0. /\ uplinkMap \in [AllUplinks -> Ports \cup {None}]
      /\ downlinkMap \in [Downlink -> (Conns \X {u.proc[2] : u \in AllUplinks}) \cup {None}]
      /\ pc \in [Conns -> Pcs] /\ swept \in [Conns -> SUBSET (AllUplinks \X Ports)]
      /\ None \notin Ports
  BY LinksAssumption DEF TypeOK, LinkTypeOK, ConnTypeOK
<1> SUFFICES ASSUME NEW d \in Downlink, downlinkMap'[d] # None
             PROVE  d \in late' \/ Live(d)' \/ Swept(d)'
  BY DEF NoStaleReturnPath
\* What other steps do to live and to swept links.
<1>1. ASSUME Live(d) PROVE Live(d)' \/ Swept(d)'
  <2>1. PICK u \in Links : d = DownOf(u, uplinkMap[u])
    BY <1>1
  <2>2. u \in AllUplinks /\ uplinkMap[u] # None
    BY <2>1 DEF Links
  <2>3. CASE UNCHANGED uplinkMap
    BY <2>1, <2>2, <2>3 DEF Links
  <2>4. ASSUME NEW c \in Conns, AddUp(c) PROVE Live(d)'
    <3>1. cur[c] # u
      BY <2>1, <2>4 DEF MissingStays, MissPcs, AddUp, At
    <3>2. uplinkMap'[u] = uplinkMap[u]
      BY <1>0, <2>2, <2>4, <3>1 DEF AddUp
    <3> QED BY <2>1, <2>2, <3>2 DEF Links
  <2>5. ASSUME NEW c \in Conns, SweepIdle(c) PROVE Live(d)' \/ Swept(d)'
    <3>1. /\ uplinkMap' = [uplinkMap EXCEPT ![Head(ttl).up] = None]
          /\ swept' = [swept EXCEPT ![c] = @ \cup {<<Head(ttl).up, uplinkMap[Head(ttl).up]>>}]
          /\ pc[c] = "sweep" /\ pc' = pc
      BY <2>5 DEF SweepIdle, InLoop, At
    <3>2. CASE Head(ttl).up = u
      <4>1. <<u, uplinkMap[u]>> \in swept'[c]
        BY <1>0, <3>1, <3>2
      <4> QED BY <2>1, <3>1, <4>1
    <3>3. CASE Head(ttl).up # u
      BY <1>0, <2>1, <2>2, <3>1, <3>3 DEF Links
    <3> QED BY <3>2, <3>3
  <2> QED BY <2>3, <2>4, <2>5, MapSteps
<1>2. ASSUME NEW c \in Conns, pc[c] \in {"sweep", "downdel"}, NEW s \in swept[c],
             d = DownOf(s[1], s[2]), ~DownDel(c)
      PROVE  Swept(d)'
  <2>1. pc'[c] \in {"sweep", "downdel"} /\ s \in swept'[c]
    BY <1>2, SweptStay
  <2> QED BY <1>2, <2>1
<1> HIDE DEF Live
<1>3. CASE UNCHANGED <<downlinkMap, late>>
  <2>1. d \in late \/ Live(d) \/ Swept(d)
    BY <1>3 DEF NoStaleReturnPath, Live
  <2>2. ASSUME Swept(d) PROVE Swept(d)' \/ downlinkMap'[d] = None
    <3>1. PICK c \in Conns : /\ pc[c] \in {"sweep", "downdel"}
                             /\ \E s \in swept[c] : d = DownOf(s[1], s[2])
      BY <2>2
    <3>2. CASE DownDel(c)
      BY <3>1, <3>2 DEF DownDel
    <3> QED BY <1>2, <3>1, <3>2
  <2> QED BY <1>1, <1>3, <2>1, <2>2
<1>4. ASSUME NEW c \in Conns, DownDel(c) PROVE d \in late' \/ Live(d)' \/ Swept(d)'
  <2>1. /\ downlinkMap[d] # None /\ ~\E s \in swept[c] : d = DownOf(s[1], s[2])
        /\ late' = {b \in late : downlinkMap'[b] # None}
    BY <1>4 DEF DownDel
  <2>2. d \in late \/ Live(d) \/ Swept(d)
    BY <2>1 DEF NoStaleReturnPath, Live
  <2>3. ASSUME Swept(d) PROVE Swept(d)'
    <3>1. PICK b \in Conns : /\ pc[b] \in {"sweep", "downdel"}
                             /\ \E s \in swept[b] : d = DownOf(s[1], s[2])
      BY <2>3
    <3>2. b # c
      BY <2>1, <3>1
    <3>3. pc'[b] = pc[b] /\ swept'[b] = swept[b]
      BY <1>0, <1>4, <3>2 DEF DownDel, Goto
    <3> QED BY <3>1, <3>3
  <2> QED BY <1>1, <2>1, <2>2, <2>3
<1>5. ASSUME NEW c \in Conns, AddDown(c) PROVE d \in late' \/ Live(d)' \/ Swept(d)'
  <2>1. /\ cur[c] \in AllUplinks /\ key[c][2] \in Ports
    BY <1>5, SendsTyped DEF AddDown, At, TypeOK, ConnOK, Key
  <2> DEFINE b == DownOf(cur[c], key[c][2])
  <2>2. /\ downlinkMap' = [downlinkMap EXCEPT ![b] = <<c, cur[c].proc[2]>>]
        /\ late' = IF uplinkMap[cur[c]] = key[c][2] THEN late \ {b} ELSE late \cup {b}
        /\ uplinkMap' = uplinkMap
    BY <1>5 DEF AddDown
  <2>3. CASE d = b /\ uplinkMap[cur[c]] = key[c][2]
    <3>1. cur[c] \in Links /\ d = DownOf(cur[c], uplinkMap[cur[c]])
      BY <1>0, <2>1, <2>3 DEF Links
    <3>2. Live(d)
      BY <3>1 DEF Live
    <3> QED BY <1>1, <3>2
  <2>4. CASE d = b /\ uplinkMap[cur[c]] # key[c][2]
    BY <2>2, <2>4
  <2>5. CASE d # b
    <3>1. downlinkMap[d] # None /\ (d \in late => d \in late')
      BY <1>0, <2>2, <2>5
    <3>2. d \in late \/ Live(d) \/ Swept(d)
      BY <3>1 DEF NoStaleReturnPath, Live
    <3>3. ASSUME Swept(d) PROVE Swept(d)'
      <4>1. PICK e \in Conns : /\ pc[e] \in {"sweep", "downdel"}
                               /\ \E s \in swept[e] : d = DownOf(s[1], s[2])
        BY <3>3
      <4>2. ~DownDel(e)
        BY <1>0, <1>5 DEF DownDel, AddDown, At, Goto
      <4> QED BY <1>2, <4>1, <4>2
    <3> QED BY <1>1, <3>1, <3>2, <3>3
  <2> QED BY <2>3, <2>4, <2>5
<1> QED BY <1>3, <1>4, <1>5, DownSteps

\* No return path is left behind, for clients behind different addresses.
THEOREM ReturnPathsEnd ==
  ASSUME DistinctClients PROVE Spec => []NoStaleReturnPath
<1>1. Init => NoStaleReturnPath
  BY DEF Init, NoStaleReturnPath
<1>2. TypeOK /\ ClientInv /\ NoStaleReturnPath /\ [Next]_vars => NoStaleReturnPath'
  BY StaleStep DEF ClientInv
<1> QED BY <1>1, <1>2, LinksTypeCorrect, ClientInvariant, PTL DEF Spec

(***************************************************************************)
(* Leases.  A return path d = <<server, protocol, port>> is also the lease *)
(* of a port for a server.  It is held by a live link, by a goroutine      *)
(* between GetPort and AddUp, or by a swept link whose DelPort is due.     *)
(* Every such place is a triple.                                           *)
(***************************************************************************)

Places == ({"link"} \X AllUplinks \X {None}) \cup ({"add"} \X Conns \X {None})
          \cup ({"swept"} \X Conns \X (AllUplinks \X Ports))

Holds(h, d) ==
  \/ /\ h[1] = "link" /\ uplinkMap[h[2]] # None
     /\ d = DownOf(h[2], uplinkMap[h[2]])
  \/ /\ h[1] = "add" /\ pc[h[2]] = "addup"
     /\ d = DownOf(cur[h[2]], key[h[2]][2])
  \/ /\ h[1] = "swept" /\ h[3] \in swept[h[2]]
     /\ d = DownOf(h[3][1], h[3][2])

\* Every lease that no stale scan touched is recorded and held in one place.
LeaseInv ==
  \A d \in Downlink : KeyAt(d) \notin raced =>
    /\ \A h \in Places : Holds(h, d) => Leased(d)
    /\ \A g, h \in Places : Holds(g, d) /\ Holds(h, d) => g = h

\* What the goroutines inside GetPort and DelPort may count on.
RecordedListens == \A k \in Recorded \ raced : k \in mgr
RecordsOK == \A c \in Conns : pc[c] = "record" /\ key[c] \notin raced =>
               key[c] \in mgr /\ cur[c].server \notin ports[key[c]]
UnlistenOK == \A c \in Conns : pc[c] = "unlisten" /\ key[c] \notin raced =>
                /\ key[c] \in mgr /\ key[c] \notin Recorded
                /\ \A d \in Conns \ {c} : pc[d] \in {"record", "unlisten"} => key[d] # key[c]

SocketInv == mgr \subseteq bound
AdapterInv == RecordedListens /\ RecordsOK /\ UnlistenOK

PortInv == SocketInv /\ (~closed => AdapterInv /\ LeaseInv)

\* A return path is a triple of its parts.
LEMMA DownParts ==
  ASSUME NEW u \in AllUplinks, NEW p \in Ports
  PROVE  /\ DownOf(u, p) \in Downlink /\ KeyAt(DownOf(u, p)) = KeyOf(u, p)
         /\ DownOf(u, p)[1] = u.server /\ KeyOf(u, p) \in Key
<1>1. PICK c \in Conns : u \in Sends[c]
  BY DEF AllUplinks
<1>2. u.proto \in Transports /\ u.server \in Remotes
  BY <1>1, SendsTyped
<1> QED BY <1>2 DEF DownOf, Downlink, KeyAt, KeyOf, Key

\* The socket of every port the Manager has is open.
LEMMA SocketStep ==
  ASSUME SocketInv, [Next]_vars
  PROVE  SocketInv'
<1> USE DEF SocketInv, adapterVars
<1>1. ASSUME NEW c \in Conns, ServeConn(c) PROVE SocketInv'
  <2>1. CASE Send(c)
    BY <2>1 DEF Send, CloseAll
  <2>2. CASE DelPort(c)
    BY <2>2 DEF DelPort, Remove
  <2>3. CASE DelPortSocket(c)
    BY <2>3 DEF DelPortSocket, Unlisten
  <2>4. CASE GetPortAlloc(c)
    BY <2>4 DEF GetPortAlloc, Listen, ListenFails
  <2>5. CASE GetPortRecord(c)
    BY <2>5 DEF GetPortRecord, Record
  <2>6. CASE UNCHANGED adapterVars
    BY <2>6
  <2> QED BY <1>1, <2>1, <2>2, <2>3, <2>4, <2>5, <2>6
          DEF ServeConn, Cleanup, Add, Recv, Uplink, BeginSweep, SweepExhausted, SweepBreak,
              EndSweep, SweepBusy, SweepIdle, SweepPanic, DownDel, DelPortPanic,
              EndCleanup, GetPortScan, AddUp, AddDown
<1>2. CASE Tick
  BY <1>2 DEF Tick
<1>3. CASE Close
  BY <1>3 DEF Close, CloseAll
<1>4. CASE Collect
  BY <1>4 DEF Collect, Finalize
<1>5. CASE UNCHANGED vars
  BY <1>5 DEF vars
<1> QED BY <1>1, <1>2, <1>3, <1>4, <1>5 DEF Next, Halted

\* A step after which nobody holds more, and what is held stays recorded.
LEMMA LeaseKept ==
  ASSUME LeaseInv, raced \subseteq raced',
         \A d \in Downlink : KeyAt(d) \notin raced' /\ Leased(d) => Leased(d)',
         \A h \in Places, d \in Downlink : Holds(h, d)' => Holds(h, d)
  PROVE  LeaseInv'
BY DEF LeaseInv

\* A lease moves from one place to another.
LEMMA LeaseMoved ==
  ASSUME LeaseInv, raced' = raced, ports' = ports, NEW f \in Places, NEW g \in Places,
         \A h \in Places, d \in Downlink : Holds(h, d)' =>
            \/ h = g /\ Holds(f, d)
            \/ h # g /\ h # f /\ Holds(h, d)
  PROVE  LeaseInv'
<1> SUFFICES ASSUME NEW d \in Downlink, KeyAt(d) \notin raced
             PROVE  /\ \A h \in Places : Holds(h, d)' => Leased(d)'
                    /\ \A a, b \in Places : Holds(a, d)' /\ Holds(b, d)' => a = b
  BY DEF LeaseInv
<1>1. /\ \A h \in Places : Holds(h, d) => Leased(d)
      /\ \A a, b \in Places : Holds(a, d) /\ Holds(b, d) => a = b
  BY DEF LeaseInv
<1>2. Leased(d)' <=> Leased(d)
  BY DEF Leased
<1>3. ASSUME NEW h \in Places, Holds(h, d)' PROVE Leased(d)'
  BY <1>1, <1>2, <1>3
<1>4. ASSUME NEW a \in Places, NEW b \in Places, Holds(a, d)', Holds(b, d)' PROVE a = b
  BY <1>1, <1>4
<1> QED BY <1>3, <1>4

\* GetPort records a lease that nobody had.
LEMMA LeaseGained ==
  ASSUME LeaseInv, raced \subseteq raced', NEW g \in Places, NEW d0 \in Downlink,
         KeyAt(d0) \notin raced => ~Leased(d0), Leased(d0)',
         \A d \in Downlink : Leased(d) => Leased(d)',
         \A h \in Places, d \in Downlink : Holds(h, d)' => Holds(h, d) \/ (h = g /\ d = d0)
  PROVE  LeaseInv'
<1> SUFFICES ASSUME NEW d \in Downlink, KeyAt(d) \notin raced'
             PROVE  /\ \A h \in Places : Holds(h, d)' => Leased(d)'
                    /\ \A a, b \in Places : Holds(a, d)' /\ Holds(b, d)' => a = b
  BY DEF LeaseInv
<1>1. /\ \A h \in Places : Holds(h, d) => Leased(d)
      /\ \A a, b \in Places : Holds(a, d) /\ Holds(b, d) => a = b
  BY DEF LeaseInv
<1>2. CASE d = d0
  <2>1. \A h \in Places : ~Holds(h, d)
    BY <1>1, <1>2
  <2> QED BY <1>2, <2>1
<1>3. CASE d # d0
  BY <1>1, <1>3
<1> QED BY <1>2, <1>3

\* DelPort gives up a lease and its place.
LEMMA LeaseDropped ==
  ASSUME LeaseInv, raced \subseteq raced', NEW f \in Places, NEW d0 \in Downlink, Holds(f, d0),
         \A d \in Downlink : d # d0 /\ KeyAt(d) \notin raced' /\ Leased(d) => Leased(d)',
         \A h \in Places, d \in Downlink : Holds(h, d)' => Holds(h, d) /\ h # f
  PROVE  LeaseInv'
<1> SUFFICES ASSUME NEW d \in Downlink, KeyAt(d) \notin raced'
             PROVE  /\ \A h \in Places : Holds(h, d)' => Leased(d)'
                    /\ \A a, b \in Places : Holds(a, d)' /\ Holds(b, d)' => a = b
  BY DEF LeaseInv
<1>1. /\ \A h \in Places : Holds(h, d) => Leased(d)
      /\ \A a, b \in Places : Holds(a, d) /\ Holds(b, d) => a = b
  BY DEF LeaseInv
<1>2. CASE d = d0
  <2>1. \A h \in Places : ~Holds(h, d)'
    BY <1>1, <1>2
  <2> QED BY <2>1
<1>3. CASE d # d0
  BY <1>1, <1>3
<1> QED BY <1>2, <1>3

\* The three kinds of places.
LEMMA PlaceKinds ==
  ASSUME NEW h \in Places
  PROVE  \/ h[1] = "link" /\ h[2] \in AllUplinks /\ h = <<"link", h[2], None>>
         \/ h[1] = "add" /\ h[2] \in Conns /\ h = <<"add", h[2], None>>
         \/ /\ h[1] = "swept" /\ h[2] \in Conns /\ h[3] \in AllUplinks \X Ports
            /\ h = <<"swept", h[2], h[3]>>
BY DEF Places

\* The goroutines that did not move, and the ones elsewhere.
Inside == {"record", "unlisten", "addup"}
OthersStay(c) == \A d \in Conns \ {c} : pc'[d] = pc[d] /\ key'[d] = key[d] /\ cur'[d] = cur[d]

\* Only goroutine c moves, and it enters none of the sections of Inside.
LEMMA HoldsStay ==
  ASSUME NEW c, OthersStay(c), c \in Conns => pc'[c] \notin Inside,
         UNCHANGED <<uplinkMap, swept>>
  PROVE  \A h \in Places, d \in Downlink : Holds(h, d)' => Holds(h, d)
<1> SUFFICES ASSUME NEW h \in Places, NEW d \in Downlink, Holds(h, d)' PROVE Holds(h, d)
  OBVIOUS
<1>1. CASE h[1] = "link"
  BY <1>1 DEF Holds
<1>2. CASE h[1] = "swept"
  BY <1>2 DEF Holds
<1>3. CASE h[1] = "add" /\ h[2] \in Conns
  <2>1. pc'[h[2]] = "addup"
    BY <1>3 DEF Holds
  <2>2. h[2] # c
    BY <1>3, <2>1 DEF Inside
  <2>3. pc'[h[2]] = pc[h[2]] /\ key'[h[2]] = key[h[2]] /\ cur'[h[2]] = cur[h[2]]
    BY <1>3, <2>2 DEF OthersStay
  <2> QED BY <1>3, <2>3 DEF Holds
<1> QED BY <1>1, <1>2, <1>3, PlaceKinds

\* A step outside GetPort and DelPort keeps the leases.
LEMMA QuietStep ==
  ASSUME AdapterInv, LeaseInv, NEW c, OthersStay(c), c \in Conns => pc'[c] \notin Inside,
         UNCHANGED <<ports, mgr, raced, uplinkMap, swept>>
  PROVE  AdapterInv' /\ LeaseInv'
<1>1. \A h \in Places, d \in Downlink : Holds(h, d)' => Holds(h, d)
  BY HoldsStay
<1>2. \A d \in Downlink : Leased(d) => Leased(d)'
  BY DEF Leased
<1>3. LeaseInv'
  BY <1>1, <1>2, LeaseKept
<1>4. \A d \in Conns : pc'[d] \in Inside => pc'[d] = pc[d] /\ key'[d] = key[d] /\ cur'[d] = cur[d]
  BY DEF OthersStay
<1>5. Recorded' = Recorded
  BY DEF Recorded
<1>6. RecordedListens' /\ RecordsOK'
  BY <1>4, <1>5 DEF AdapterInv, RecordedListens, RecordsOK, Inside
<1>7. UnlistenOK'
  BY <1>4, <1>5 DEF AdapterInv, UnlistenOK, Inside
<1> QED BY <1>3, <1>6, <1>7 DEF AdapterInv

\* The types that the steps of the leases need.
LEMMA LeaseTypes ==
  ASSUME TypeOK
  PROVE  /\ pc \in [Conns -> Pcs] /\ cur \in [Conns -> AllUplinks \cup {None}]
         /\ key \in [Conns -> Key \cup {None}]
         /\ swept \in [Conns -> SUBSET (AllUplinks \X Ports)]
         /\ uplinkMap \in [AllUplinks -> Ports \cup {None}]
         /\ ports \in [Key -> SUBSET Remotes] /\ None \notin Ports
         /\ \A c \in Conns : pc[c] \notin {"recv", "done"} => cur[c] \in AllUplinks
         /\ \A c \in Conns : pc[c] \in {"record", "addup"} =>
              /\ key[c] \in Key /\ key[c][2] \in Ports
              /\ key[c] = KeyOf(cur[c], key[c][2])
         /\ \A c \in Conns : pc[c] = "unlisten" => key[c] \in Key
<1>1. \A c \in Conns : pc[c] \notin {"recv", "done"} => cur[c] \in AllUplinks
  BY SendsTyped DEF TypeOK, ConnOK
<1>2. \A c \in Conns : pc[c] \in {"record", "addup"} =>
              /\ key[c] \in Key /\ key[c][2] \in Ports
              /\ key[c] = KeyOf(cur[c], key[c][2])
  BY DEF TypeOK, ConnOK, Key, KeyOf
<1>3. \A c \in Conns : pc[c] = "unlisten" => key[c] \in Key
  BY DEF TypeOK, ConnOK
<1> QED BY <1>1, <1>2, <1>3, LinksAssumption
        DEF TypeOK, ConnTypeOK, LinkTypeOK, AdapterTypeOK, AddrSet

\* GetPort's scan settles on a recorded port without this server.
LEMMA ScanStep ==
  ASSUME TypeOK, AdapterInv, LeaseInv, NEW c \in Conns, GetPortScan(c)
  PROVE  AdapterInv' /\ LeaseInv'
<1> USE DEF At, Goto, adapterVars, linkVars, envVars, histVars
<1>0. /\ pc \in [Conns -> Pcs] /\ key \in [Conns -> Key \cup {None}] /\ pc[c] = "scan"
      /\ UNCHANGED <<ports, mgr, raced, uplinkMap, swept, cur>>
  BY LeaseTypes DEF GetPortScan
<1>1. CASE Goto(c, "alloc") /\ UNCHANGED key
  <2>1. OthersStay(c) /\ pc'[c] \notin Inside
    BY <1>0, <1>1 DEF OthersStay, Inside
  <2> QED BY <1>0, <2>1, QuietStep
<1>2. ASSUME NEW k \in Reusable(cur[c].proto, cur[c].server),
             key' = [key EXCEPT ![c] = k], Goto(c, "record")
      PROVE  AdapterInv' /\ LeaseInv'
  <2>1. k \in Recorded /\ cur[c].server \notin ports[k] /\ key'[c] = k /\ pc'[c] = "record"
    BY <1>0, <1>2 DEF Reusable
  <2>2. OthersStay(c) /\ \A d \in Conns : pc'[d] \in {"addup", "unlisten"} => d # c
    BY <1>0, <1>2 DEF OthersStay
  <2>3. Recorded' = Recorded
    BY <1>0 DEF Recorded
  <2>4. LeaseInv'
    <3>1. \A h \in Places, d \in Downlink : Holds(h, d)' => Holds(h, d)
      <4> SUFFICES ASSUME NEW h \in Places, NEW d \in Downlink, Holds(h, d)' PROVE Holds(h, d)
        OBVIOUS
      <4>1. CASE h[1] # "add"
        BY <1>0, <4>1 DEF Holds
      <4>2. CASE h[1] = "add" /\ h[2] \in Conns
        <5>1. h[2] # c
          BY <2>1, <4>2 DEF Holds
        <5> QED BY <2>2, <4>2, <5>1 DEF OthersStay, Holds
      <4> QED BY <4>1, <4>2, PlaceKinds
    <3>2. \A d \in Downlink : Leased(d) => Leased(d)'
      BY <1>0 DEF Leased
    <3> QED BY <1>0, <3>1, <3>2, LeaseKept
  <2>5. RecordedListens'
    BY <1>0, <2>3 DEF AdapterInv, RecordedListens
  <2>6. RecordsOK'
    <3> SUFFICES ASSUME NEW d \in Conns, pc'[d] = "record", key'[d] \notin raced
                 PROVE  key'[d] \in mgr /\ cur'[d].server \notin ports[key'[d]]
      BY <1>0 DEF RecordsOK
    <3>1. CASE d = c
      BY <1>0, <2>1, <3>1 DEF AdapterInv, RecordedListens
    <3>2. CASE d # c
      BY <2>2, <3>2 DEF OthersStay, AdapterInv, RecordsOK
    <3> QED BY <3>1, <3>2
  <2>7. UnlistenOK'
    <3> SUFFICES ASSUME NEW b \in Conns, pc'[b] = "unlisten", key'[b] \notin raced
                 PROVE  /\ key'[b] \in mgr /\ key'[b] \notin Recorded
                        /\ \A d \in Conns \ {b} : pc'[d] \in {"record", "unlisten"} => key'[d] # key'[b]
      BY <1>0, <2>3 DEF UnlistenOK
    <3>1. b # c /\ pc[b] = "unlisten" /\ key'[b] = key[b]
      BY <2>2 DEF OthersStay
    <3>2. /\ key[b] \in mgr /\ key[b] \notin Recorded
          /\ \A d \in Conns \ {b} : pc[d] \in {"record", "unlisten"} => key[d] # key[b]
      BY <3>1 DEF AdapterInv, UnlistenOK
    <3>3. ASSUME NEW d \in Conns \ {b}, pc'[d] \in {"record", "unlisten"} PROVE key'[d] # key[b]
      <4>1. CASE d = c
        BY <2>1, <3>2, <4>1
      <4>2. CASE d # c
        BY <2>2, <3>2, <3>3, <4>2 DEF OthersStay
      <4> QED BY <4>1, <4>2
    <3> QED BY <3>1, <3>2, <3>3
  <2> QED BY <2>4, <2>5, <2>6, <2>7 DEF AdapterInv
<1> QED BY <1>1, <1>2 DEF GetPortScan

\* A new socket is on a port nobody knows.
LEMMA AllocStep ==
  ASSUME TypeOK, SocketInv, AdapterInv, LeaseInv, NEW c \in Conns, GetPortAlloc(c)
  PROVE  AdapterInv' /\ LeaseInv'
<1> USE DEF At, Goto, linkVars, envVars, histVars
<1>0. /\ pc \in [Conns -> Pcs] /\ key \in [Conns -> Key \cup {None}] /\ pc[c] = "alloc"
      /\ cur \in [Conns -> AllUplinks \cup {None}] /\ cur[c] \in AllUplinks
      /\ ports \in [Key -> SUBSET Remotes]
      /\ UNCHANGED <<raced, uplinkMap, swept>>
  BY LeaseTypes DEF GetPortAlloc
<1>1. CASE ListenFails(cur[c].proto) /\ Goto(c, "recv") /\ Forget(c)
  <2>1. OthersStay(c) /\ pc'[c] \notin Inside /\ UNCHANGED <<ports, mgr>>
    BY <1>0, <1>1 DEF OthersStay, Inside, Forget, ListenFails, adapterVars
  <2> QED BY <1>0, <2>1, QuietStep
<1>2. ASSUME NEW p \in Ports, Listen(cur[c].proto, p), UNCHANGED cur,
             key' = [key EXCEPT ![c] = KeyOf(cur[c], p)], Goto(c, "record")
      PROVE  AdapterInv' /\ LeaseInv'
  <2> DEFINE k == KeyOf(cur[c], p)
  <2>0. k \in Key
    BY <1>0, DownParts
  <2>1. /\ k \notin bound /\ mgr' = mgr \cup {k} /\ ports' = ports
    BY <1>2 DEF Listen, KeyOf
  <2>2. /\ key'[c] = k /\ pc'[c] = "record" /\ k \notin mgr
    BY <1>0, <1>2, <2>1 DEF SocketInv
  <2>3. OthersStay(c) /\ \A d \in Conns : pc'[d] \in {"addup", "unlisten"} => d # c
    BY <1>0, <1>2 DEF OthersStay
  <2>4. Recorded' = Recorded
    BY <2>1 DEF Recorded
  <2> HIDE DEF k
  <2>5. k \notin raced => ports[k] = {}
    BY <2>0, <2>2 DEF AdapterInv, RecordedListens, Recorded
  <2>6. LeaseInv'
    <3>1. \A h \in Places, d \in Downlink : Holds(h, d)' => Holds(h, d)
      <4> SUFFICES ASSUME NEW h \in Places, NEW d \in Downlink, Holds(h, d)' PROVE Holds(h, d)
        OBVIOUS
      <4>1. CASE h[1] # "add"
        BY <1>0, <4>1 DEF Holds
      <4>2. CASE h[1] = "add" /\ h[2] \in Conns
        <5>1. h[2] # c
          BY <2>2, <4>2 DEF Holds
        <5> QED BY <2>3, <4>2, <5>1 DEF OthersStay, Holds
      <4> QED BY <4>1, <4>2, PlaceKinds
    <3>2. \A d \in Downlink : Leased(d) => Leased(d)'
      BY <2>1 DEF Leased
    <3> QED BY <1>0, <3>1, <3>2, LeaseKept
  <2>7. RecordedListens'
    BY <1>0, <2>1, <2>4 DEF AdapterInv, RecordedListens
  <2>8. RecordsOK'
    <3> SUFFICES ASSUME NEW d \in Conns, pc'[d] = "record", key'[d] \notin raced
                 PROVE  key'[d] \in mgr' /\ cur'[d].server \notin ports[key'[d]]
      BY <1>0, <2>1 DEF RecordsOK
    <3>1. CASE d = c
      BY <2>1, <2>2, <2>5, <3>1
    <3>2. CASE d # c
      BY <2>1, <2>3, <3>2 DEF OthersStay, AdapterInv, RecordsOK
    <3> QED BY <3>1, <3>2
  <2>9. UnlistenOK'
    <3> SUFFICES ASSUME NEW b \in Conns, pc'[b] = "unlisten", key'[b] \notin raced
                 PROVE  /\ key'[b] \in mgr' /\ key'[b] \notin Recorded
                        /\ \A d \in Conns \ {b} : pc'[d] \in {"record", "unlisten"} => key'[d] # key'[b]
      BY <1>0, <2>4 DEF UnlistenOK
    <3>1. b # c /\ pc[b] = "unlisten" /\ key'[b] = key[b]
      BY <2>3 DEF OthersStay
    <3>2. /\ key[b] \in mgr /\ key[b] \notin Recorded
          /\ \A d \in Conns \ {b} : pc[d] \in {"record", "unlisten"} => key[d] # key[b]
      BY <3>1 DEF AdapterInv, UnlistenOK
    <3>3. ASSUME NEW d \in Conns \ {b}, pc'[d] \in {"record", "unlisten"} PROVE key'[d] # key[b]
      <4>1. CASE d = c
        BY <2>2, <3>2, <4>1
      <4>2. CASE d # c
        BY <2>3, <3>2, <3>3, <4>2 DEF OthersStay
      <4> QED BY <4>1, <4>2
    <3> QED BY <2>1, <3>1, <3>2, <3>3
  <2> QED BY <2>6, <2>7, <2>8, <2>9 DEF AdapterInv
<1> QED BY <1>1, <1>2 DEF GetPortAlloc

\* GetPort's record, when the scan is still right, makes the goroutine the only
\* holder of the lease; otherwise the port is marked.
LEMMA RecordStep ==
  ASSUME TypeOK, AdapterInv, LeaseInv, NEW c \in Conns, GetPortRecord(c)
  PROVE  AdapterInv' /\ LeaseInv'
<1> USE DEF At, Goto, linkVars
<1> DEFINE k == key[c]
           Same == {d \in Scanned(k) \ {c} : cur[d].server = cur[c].server}
<1>0. /\ pc \in [Conns -> Pcs] /\ ports \in [Key -> SUBSET Remotes] /\ pc[c] = "record"
      /\ cur[c] \in AllUplinks /\ key[c][2] \in Ports /\ k = KeyOf(cur[c], key[c][2])
      /\ k \in Key
      /\ UNCHANGED <<uplinkMap, swept, cur, key, mgr>>
  BY LeaseTypes DEF GetPortRecord, Record
<1>1. /\ ports' = [ports EXCEPT ![k] = @ \cup {cur[c].server}]
      /\ raced' = IF Same = {} THEN raced ELSE raced \cup {k}
      /\ pc' = [pc EXCEPT ![c] = "addup"]
  BY DEF GetPortRecord, Record, Overtake
<1>2. PICK d0 \in Downlink : /\ d0 = DownOf(cur[c], key[c][2])
                            /\ KeyAt(d0) = k /\ d0[1] = cur[c].server
  BY <1>0, DownParts
<1>3. raced \subseteq raced' /\ \A d \in Same : k \in raced'
  BY <1>1
<1>4. /\ OthersStay(c) /\ \A d \in Conns : pc'[d] \in {"record", "unlisten"} => d # c
      /\ pc'[c] = "addup"
  BY <1>0, <1>1 DEF OthersStay
<1>5. Recorded' = Recorded \cup {k}
  BY <1>0, <1>1 DEF Recorded
<1>6. k \notin raced => k \in mgr /\ cur[c].server \notin ports[k]
  BY <1>0 DEF AdapterInv, RecordsOK
<1>7. LeaseInv'
  <2> DEFINE g == <<"add", c, None>>
  <2>1. g \in Places /\ g[1] = "add" /\ g[2] = c
    BY DEF Places
  <2>2. \A h \in Places, d \in Downlink : Holds(h, d)' => Holds(h, d) \/ (h = g /\ d = d0)
    <3> SUFFICES ASSUME NEW h \in Places, NEW d \in Downlink, Holds(h, d)'
                 PROVE  Holds(h, d) \/ (h = g /\ d = d0)
      OBVIOUS
    <3>1. CASE h[1] # "add"
      BY <1>0, <3>1 DEF Holds
    <3>2. CASE h = <<"add", h[2], None>> /\ h[1] = "add" /\ h[2] \in Conns
      <4>1. CASE h[2] = c
        BY <1>0, <1>2, <3>2, <4>1 DEF Holds
      <4>2. CASE h[2] # c
        BY <1>4, <3>2, <4>2 DEF OthersStay, Holds
      <4> QED BY <4>1, <4>2
    <3> QED BY <3>1, <3>2, PlaceKinds
  <2>3. KeyAt(d0) \notin raced => ~Leased(d0)
    BY <1>2, <1>6 DEF Leased
  <2>4. Leased(d0)'
    BY <1>0, <1>1, <1>2 DEF Leased, KeyAt
  <2>5. \A d \in Downlink : Leased(d) => Leased(d)'
    <3> SUFFICES ASSUME NEW d \in Downlink, Leased(d) PROVE Leased(d)'
      OBVIOUS
    <3>1. KeyAt(d) \in Key
      BY DEF Downlink, KeyAt, Key
    <3> QED BY <1>0, <1>1, <3>1 DEF Leased, KeyAt
  <2> HIDE DEF g
  <2> QED BY <1>2, <1>3, <2>1, <2>2, <2>3, <2>4, <2>5, LeaseGained
<1>8. RecordedListens'
  BY <1>0, <1>3, <1>5, <1>6 DEF AdapterInv, RecordedListens
<1>9. RecordsOK'
  <2> SUFFICES ASSUME NEW d \in Conns, pc'[d] = "record", key[d] \notin raced'
               PROVE  key[d] \in mgr /\ cur[d].server \notin ports'[key[d]]
    BY <1>0 DEF RecordsOK
  <2>1. /\ d # c /\ pc[d] = "record" /\ key[d] \in mgr /\ cur[d].server \notin ports[key[d]]
    BY <1>3, <1>4 DEF OthersStay, AdapterInv, RecordsOK
  <2>2. CASE key[d] = k
    <3>1. cur[d].server # cur[c].server
      BY <1>3, <2>1, <2>2 DEF Scanned
    <3> QED BY <1>0, <1>1, <2>1, <2>2, <3>1
  <2>3. CASE key[d] # k
    <3>1. ports'[key[d]] = ports[key[d]]
      BY <1>0, <1>1, <2>1, <2>3, LeaseTypes
    <3> QED BY <2>1, <3>1
  <2> QED BY <2>2, <2>3
<1>10. UnlistenOK'
  <2> SUFFICES ASSUME NEW b \in Conns, pc'[b] = "unlisten", key[b] \notin raced'
               PROVE  /\ key[b] \in mgr /\ key[b] \notin Recorded'
                      /\ \A d \in Conns \ {b} : pc'[d] \in {"record", "unlisten"} => key[d] # key[b]
    BY <1>0 DEF UnlistenOK
  <2>1. b # c /\ pc[b] = "unlisten"
    BY <1>4 DEF OthersStay
  <2>2. /\ key[b] \in mgr /\ key[b] \notin Recorded
        /\ \A d \in Conns \ {b} : pc[d] \in {"record", "unlisten"} => key[d] # key[b]
    BY <1>3, <2>1 DEF AdapterInv, UnlistenOK
  <2>3. key[b] # k
    BY <1>0, <2>1, <2>2
  <2>4. ASSUME NEW d \in Conns \ {b}, pc'[d] \in {"record", "unlisten"} PROVE key[d] # key[b]
    <3>1. d # c /\ pc[d] = pc'[d]
      BY <1>4, <2>4 DEF OthersStay
    <3> QED BY <2>2, <2>4, <3>1
  <2> QED BY <1>5, <2>2, <2>3, <2>4
<1> QED BY <1>7, <1>8, <1>9, <1>10 DEF AdapterInv

\* Steps that leave GetPort, DelPort and the adapter alone.
LEMMA AdapterApart ==
  ASSUME AdapterInv, UNCHANGED <<ports, mgr, raced>>,
         \A d \in Conns : pc'[d] \in {"record", "unlisten"} =>
            pc'[d] = pc[d] /\ key'[d] = key[d] /\ cur'[d] = cur[d]
  PROVE  AdapterInv'
<1>1. Recorded' = Recorded
  BY DEF Recorded
<1>2. RecordedListens' /\ RecordsOK'
  BY <1>1 DEF AdapterInv, RecordedListens, RecordsOK
<1>3. UnlistenOK'
  BY <1>1 DEF AdapterInv, UnlistenOK
<1> QED BY <1>2, <1>3 DEF AdapterInv

\* AddUp hands the lease of the goroutine to its link.
LEMMA AddUpStep ==
  ASSUME TypeOK, AdapterInv, LeaseInv, NEW c \in Conns, AddUp(c)
  PROVE  AdapterInv' /\ LeaseInv'
<1> USE DEF At, Goto, adapterVars, envVars, histVars
<1>0. /\ pc \in [Conns -> Pcs] /\ uplinkMap \in [AllUplinks -> Ports \cup {None}]
      /\ pc[c] = "addup" /\ cur[c] \in AllUplinks /\ key[c][2] \in Ports
      /\ UNCHANGED <<ports, mgr, raced, swept, cur, key>>
  BY LeaseTypes DEF AddUp
<1>1. /\ uplinkMap' = [uplinkMap EXCEPT ![cur[c]] = key[c][2]]
      /\ pc' = [pc EXCEPT ![c] = "adddown"]
  BY DEF AddUp
<1>2. AdapterInv'
  BY <1>0, <1>1, AdapterApart
<1>3. PICK u \in AllUplinks : u = cur[c]
  BY <1>0
<1> DEFINE f == <<"add", c, None>>
           g == <<"link", u, None>>
<1>4. /\ f \in Places /\ f[1] = "add" /\ f[2] = c
      /\ g \in Places /\ g[1] = "link" /\ g[2] = u
  BY DEF Places
<1>5. ASSUME NEW h \in Places, NEW d \in Downlink, Holds(h, d)'
      PROVE  (h = g /\ Holds(f, d)) \/ (h # g /\ h # f /\ Holds(h, d))
  <2>1. CASE h = g
    <3>1. d = DownOf(u, uplinkMap'[u])
      BY <1>4, <1>5, <2>1 DEF Holds
    <3>2. uplinkMap'[u] = key[c][2]
      BY <1>0, <1>1, <1>3
    <3>3. Holds(f, d)
      BY <1>0, <1>3, <1>4, <3>1, <3>2 DEF Holds
    <3> QED BY <2>1, <3>3
  <2>2. CASE h # g /\ h[1] = "link" /\ h[2] \in AllUplinks /\ h = <<"link", h[2], None>>
    <3>1. h[2] # u
      BY <2>2
    <3>2. uplinkMap'[h[2]] = uplinkMap[h[2]]
      BY <1>0, <1>1, <1>3, <2>2, <3>1
    <3>3. Holds(h, d)
      BY <1>5, <2>2, <3>2 DEF Holds
    <3> QED BY <1>4, <2>2, <3>3
  <2>3. CASE h[1] = "add" /\ h[2] \in Conns
    <3>1. h[2] # c /\ pc'[h[2]] = pc[h[2]]
      BY <1>0, <1>1, <1>5, <2>3 DEF Holds
    <3>2. Holds(h, d)
      BY <1>0, <1>5, <2>3, <3>1 DEF Holds
    <3>3. h # g /\ h # f
      BY <2>3, <3>1
    <3> QED BY <3>2, <3>3
  <2>4. CASE h[1] = "swept"
    <3>1. Holds(h, d)
      BY <1>0, <1>5, <2>4 DEF Holds
    <3> QED BY <1>4, <2>4, <3>1
  <2> QED BY <2>1, <2>2, <2>3, <2>4, PlaceKinds
<1> HIDE DEF f, g
<1>6. LeaseInv'
  BY <1>0, <1>4, <1>5, LeaseMoved
<1> QED BY <1>2, <1>6

\* A sweep hands the lease of a link to the Cleanup that has to return it.
LEMMA SweepIdleStep ==
  ASSUME TypeOK, AdapterInv, LeaseInv, NEW c \in Conns, SweepIdle(c)
  PROVE  AdapterInv' /\ LeaseInv'
<1> USE DEF adapterVars, envVars, histVars
<1>0. /\ uplinkMap \in [AllUplinks -> Ports \cup {None}] /\ None \notin Ports
      /\ swept \in [Conns -> SUBSET (AllUplinks \X Ports)]
      /\ UNCHANGED <<ports, mgr, raced, pc, cur, key>>
  BY LeaseTypes DEF SweepIdle
<1>1. /\ Head(ttl).up \in AllUplinks /\ uplinkMap[Head(ttl).up] # None
      /\ swept' = [swept EXCEPT ![c] = @ \cup {<<Head(ttl).up, uplinkMap[Head(ttl).up]>>}]
      /\ uplinkMap' = [uplinkMap EXCEPT ![Head(ttl).up] = None]
  BY LoopHead DEF SweepIdle, Entry
<1>2. AdapterInv'
  BY <1>0, AdapterApart
<1>3. PICK u \in AllUplinks : u = Head(ttl).up
  BY <1>1
<1>4. PICK p \in Ports : p = uplinkMap[u]
  BY <1>0, <1>1, <1>3
<1> DEFINE f == <<"link", u, None>>
           g == <<"swept", c, <<u, p>>>>
<1>5. /\ f \in Places /\ f[1] = "link" /\ f[2] = u
      /\ g \in Places /\ g[1] = "swept" /\ g[2] = c /\ g[3] = <<u, p>>
  BY DEF Places
<1>6. ASSUME NEW h \in Places, NEW d \in Downlink, Holds(h, d)'
      PROVE  (h = g /\ Holds(f, d)) \/ (h # g /\ h # f /\ Holds(h, d))
  <2>1. CASE h = g
    <3>1. d = DownOf(u, p)
      BY <1>5, <1>6, <2>1 DEF Holds
    <3>2. Holds(f, d)
      BY <1>0, <1>4, <1>5, <3>1 DEF Holds
    <3> QED BY <2>1, <3>2
  <2>2. CASE h[1] = "link" /\ h[2] \in AllUplinks
    <3>1. h[2] # u
      BY <1>0, <1>1, <1>3, <1>6, <2>2 DEF Holds
    <3>2. uplinkMap'[h[2]] = uplinkMap[h[2]]
      BY <1>0, <1>1, <1>3, <2>2, <3>1
    <3>3. Holds(h, d)
      BY <1>6, <2>2, <3>2 DEF Holds
    <3> QED BY <1>5, <2>2, <3>1, <3>3
  <2>3. CASE h[1] = "add"
    <3>1. Holds(h, d)
      BY <1>0, <1>6, <2>3 DEF Holds
    <3> QED BY <1>5, <2>3, <3>1
  <2>4. CASE h # g /\ h[1] = "swept" /\ h[2] \in Conns /\ h = <<"swept", h[2], h[3]>>
    <3>1. h[3] \in swept'[h[2]] /\ d = DownOf(h[3][1], h[3][2])
      BY <1>6, <2>4 DEF Holds
    <3>2. h[2] # c \/ h[3] # <<u, p>>
      BY <2>4
    <3>3. h[3] \in swept[h[2]]
      BY <1>0, <1>1, <1>3, <1>4, <2>4, <3>1, <3>2
    <3>4. Holds(h, d)
      BY <2>4, <3>1, <3>3 DEF Holds
    <3> QED BY <1>5, <2>4, <3>4
  <2> QED BY <2>1, <2>2, <2>3, <2>4, PlaceKinds
<1> HIDE DEF f, g
<1>7. LeaseInv'
  BY <1>0, <1>5, <1>6, LeaseMoved
<1> QED BY <1>2, <1>7

\* DelPort gives the lease of a swept link up; when the port becomes unused
\* nobody else has a lease of it, and who scanned it before marks it.
LEMMA DelPortStep ==
  ASSUME TypeOK, AdapterInv, LeaseInv, NEW c \in Conns, DelPort(c)
  PROVE  AdapterInv' /\ LeaseInv'
<1> USE DEF At, Goto, linkVars
<1>0. /\ pc \in [Conns -> Pcs] /\ ports \in [Key -> SUBSET Remotes] /\ pc[c] = "delport"
      /\ key \in [Conns -> Key \cup {None}]
      /\ swept \in [Conns -> SUBSET (AllUplinks \X Ports)]
      /\ UNCHANGED <<uplinkMap, cur>>
  BY LeaseTypes DEF DelPort
<1>1. PICK s \in swept[c] :
        /\ Remove(KeyOf(s[1], s[2]), s[1].server)
        /\ swept' = [swept EXCEPT ![c] = @ \ {s}]
        /\ key' = [key EXCEPT ![c] = KeyOf(s[1], s[2])]
        /\ IF NotUse(KeyOf(s[1], s[2]), s[1].server)
           THEN Goto(c, "unlisten") /\ Overtake(KeyOf(s[1], s[2]), Scanned(KeyOf(s[1], s[2])))
           ELSE UNCHANGED <<pc, raced>>
  BY DEF DelPort
<1>2. s \in AllUplinks \X Ports /\ s[1] \in AllUplinks /\ s[2] \in Ports
  BY <1>0
<1> DEFINE k == KeyOf(s[1], s[2])
           d0 == DownOf(s[1], s[2])
           r == s[1].server
<1>3. d0 \in Downlink /\ KeyAt(d0) = k /\ d0[1] = r /\ k \in Key
  BY <1>2, DownParts
<1>4. k \in Recorded /\ ports' = [ports EXCEPT ![k] = @ \ {r}] /\ mgr' = mgr
  BY <1>1 DEF Remove
<1>5. raced \subseteq raced' /\ OthersStay(c) /\ key'[c] = k
  BY <1>0, <1>1 DEF Overtake, OthersStay
<1>6. /\ ports[k] \subseteq {r} => pc'[c] = "unlisten" /\ (Scanned(k) # {} => k \in raced')
      /\ ~(ports[k] \subseteq {r}) => pc' = pc
  BY <1>0, <1>1 DEF NotUse, Overtake
<1>7. /\ Recorded' \subseteq Recorded
      /\ \A b \in Recorded \ Recorded' : b = k
      /\ k \in Recorded' <=> ~(ports[k] \subseteq {r})
  BY <1>0, <1>3, <1>4 DEF Recorded
<1> DEFINE f == <<"swept", c, s>>
<1>8. f \in Places /\ f[1] = "swept" /\ f[2] = c /\ f[3] = s
  BY <1>2 DEF Places
<1>9. Holds(f, d0)
  BY <1>8 DEF Holds
<1>10. ASSUME NEW h \in Places, NEW d \in Downlink, Holds(h, d)' PROVE Holds(h, d) /\ h # f
  <2>1. CASE h[1] = "link"
    <3>1. Holds(h, d)
      BY <1>0, <1>10, <2>1 DEF Holds
    <3> QED BY <1>8, <2>1, <3>1
  <2>2. CASE h[1] = "add" /\ h[2] \in Conns
    <3>1. h[2] # c
      BY <1>0, <1>6, <1>10, <2>2 DEF Holds
    <3>2. Holds(h, d)
      BY <1>5, <1>10, <2>2, <3>1 DEF Holds, OthersStay
    <3> QED BY <1>8, <2>2, <3>2
  <2>3. CASE h[1] = "swept" /\ h[2] \in Conns
    <3>1. h[3] \in swept[h[2]] /\ (h[2] = c => h[3] # s)
      BY <1>0, <1>1, <1>10, <2>3 DEF Holds
    <3>2. Holds(h, d)
      BY <1>10, <2>3, <3>1 DEF Holds
    <3> QED BY <1>8, <3>1, <3>2
  <2> QED BY <2>1, <2>2, <2>3, PlaceKinds
<1> HIDE DEF f
<1>11. LeaseInv'
  <2>1. ASSUME NEW d \in Downlink, d # d0, Leased(d) PROVE Leased(d)'
    <3>1. KeyAt(d) \in Key /\ d = <<d[1], d[2], d[3]>>
      BY DEF Downlink, KeyAt, Key
    <3>2. CASE KeyAt(d) = k
      <4>1. d[1] # r
        BY <1>3, <2>1, <3>1, <3>2 DEF KeyAt, DownOf, KeyOf
      <4> QED BY <1>0, <1>3, <1>4, <2>1, <3>2, <4>1 DEF Leased, KeyAt
    <3>3. CASE KeyAt(d) # k
      BY <1>0, <1>4, <2>1, <3>1, <3>3 DEF Leased, KeyAt
    <3> QED BY <3>2, <3>3
  <2> QED BY <1>3, <1>5, <1>8, <1>9, <1>10, <2>1, LeaseDropped
<1> HIDE DEF k, r
<1>12. RecordedListens'
  BY <1>4, <1>5, <1>7 DEF AdapterInv, RecordedListens
<1>13. RecordsOK'
  <2> SUFFICES ASSUME NEW d \in Conns, pc'[d] = "record", key'[d] \notin raced'
               PROVE  key'[d] \in mgr /\ cur[d].server \notin ports'[key'[d]]
    BY <1>0, <1>4 DEF RecordsOK
  <2>1. d # c /\ pc[d] = "record" /\ key'[d] = key[d]
    BY <1>0, <1>5, <1>6 DEF OthersStay
  <2>2. key[d] \in mgr /\ cur[d].server \notin ports[key[d]] /\ key[d] \in Key
    BY <1>5, <2>1, LeaseTypes DEF AdapterInv, RecordsOK
  <2>3. ports'[key[d]] \subseteq ports[key[d]]
    BY <1>0, <1>3, <1>4, <2>2
  <2> QED BY <2>1, <2>2, <2>3
<1>14. UnlistenOK'
  <2> SUFFICES ASSUME NEW b \in Conns, pc'[b] = "unlisten", key'[b] \notin raced'
               PROVE  /\ key'[b] \in mgr /\ key'[b] \notin Recorded'
                      /\ \A d \in Conns \ {b} : pc'[d] \in {"record", "unlisten"} => key'[d] # key'[b]
    BY <1>4 DEF UnlistenOK
  \* Nobody else is inside GetPort or DelPort with the port that is given up.
  <2>1. ASSUME NEW d \in Conns \ {c}, ports[k] \subseteq {r}, k \notin raced',
               pc[d] \in {"record", "unlisten"}
        PROVE  key[d] # k
    <3>1. CASE pc[d] = "record"
      BY <1>6, <2>1, <3>1 DEF Scanned
    <3>2. CASE pc[d] = "unlisten"
      BY <1>4, <1>5, <2>1, <3>2 DEF AdapterInv, UnlistenOK
    <3> QED BY <2>1, <3>1, <3>2
  <2>2. CASE b = c
    <3>1. ports[k] \subseteq {r} /\ k \notin raced' /\ k \notin Recorded'
      BY <1>0, <1>5, <1>6, <1>7, <2>2
    <3>2. k \in mgr
      BY <1>4, <1>5, <3>1 DEF AdapterInv, RecordedListens
    <3>3. ASSUME NEW d \in Conns \ {b}, pc'[d] \in {"record", "unlisten"} PROVE key'[d] # k
      BY <1>5, <2>1, <2>2, <3>1, <3>3 DEF OthersStay
    <3> QED BY <1>5, <2>2, <3>1, <3>2, <3>3
  <2>3. CASE b # c
    <3>1. pc[b] = "unlisten" /\ key'[b] = key[b]
      BY <1>5, <2>3 DEF OthersStay
    <3>2. /\ key[b] \in mgr /\ key[b] \notin Recorded
          /\ \A d \in Conns \ {b} : pc[d] \in {"record", "unlisten"} => key[d] # key[b]
      BY <1>5, <3>1 DEF AdapterInv, UnlistenOK
    <3>3. ASSUME NEW d \in Conns \ {b}, pc'[d] \in {"record", "unlisten"} PROVE key'[d] # key[b]
      <4>1. CASE d = c
        BY <1>4, <1>5, <3>2, <4>1
      <4>2. CASE d # c
        BY <1>5, <3>2, <3>3, <4>2 DEF OthersStay
      <4> QED BY <4>1, <4>2
    <3> QED BY <1>7, <3>1, <3>2, <3>3
  <2> QED BY <2>2, <2>3
<1> QED BY <1>11, <1>12, <1>13, <1>14 DEF AdapterInv

\* The socket that DelPort closes is of a port nobody uses.
LEMMA DelPortSocketStep ==
  ASSUME TypeOK, AdapterInv, LeaseInv, NEW c \in Conns, DelPortSocket(c)
  PROVE  AdapterInv' /\ LeaseInv'
<1> USE DEF At, Goto, linkVars, envVars, histVars
<1>0. /\ pc \in [Conns -> Pcs] /\ pc[c] = "unlisten" /\ pc' = [pc EXCEPT ![c] = "delport"]
      /\ UNCHANGED <<uplinkMap, cur, key, swept, raced, ports>>
      /\ mgr' = mgr \ {key[c]}
  BY LeaseTypes DEF DelPortSocket, Unlisten
<1>1. OthersStay(c) /\ pc'[c] \notin Inside
  BY <1>0 DEF OthersStay, Inside
<1>2. LeaseInv'
  <2>1. \A h \in Places, d \in Downlink : Holds(h, d)' => Holds(h, d)
    BY <1>0, <1>1, HoldsStay
  <2>2. \A d \in Downlink : Leased(d) => Leased(d)'
    BY <1>0 DEF Leased
  <2> QED BY <1>0, <2>1, <2>2, LeaseKept
<1>3. Recorded' = Recorded
  BY <1>0 DEF Recorded
<1>4. key[c] \notin raced =>
        /\ key[c] \notin Recorded
        /\ \A d \in Conns \ {c} : pc[d] \in {"record", "unlisten"} => key[d] # key[c]
  BY <1>0 DEF AdapterInv, UnlistenOK
<1>5. \A d \in Conns : pc'[d] \in {"record", "unlisten"} => d # c /\ pc[d] = pc'[d]
  BY <1>0
<1>6. RecordedListens'
  BY <1>0, <1>3, <1>4 DEF AdapterInv, RecordedListens
<1>7. RecordsOK'
  <2> SUFFICES ASSUME NEW d \in Conns, pc'[d] = "record", key[d] \notin raced
               PROVE  key[d] \in mgr' /\ cur[d].server \notin ports[key[d]]
    BY <1>0 DEF RecordsOK
  <2>1. d # c /\ pc[d] = "record"
    BY <1>5
  <2>2. key[d] \in mgr /\ cur[d].server \notin ports[key[d]]
    BY <2>1 DEF AdapterInv, RecordsOK
  <2>3. key[d] # key[c]
    BY <1>4, <2>1
  <2> QED BY <1>0, <2>2, <2>3
<1>8. UnlistenOK'
  <2> SUFFICES ASSUME NEW b \in Conns, pc'[b] = "unlisten", key[b] \notin raced
               PROVE  /\ key[b] \in mgr' /\ key[b] \notin Recorded
                      /\ \A d \in Conns \ {b} : pc'[d] \in {"record", "unlisten"} => key[d] # key[b]
    BY <1>0, <1>3 DEF UnlistenOK
  <2>1. b # c /\ pc[b] = "unlisten"
    BY <1>5
  <2>2. /\ key[b] \in mgr /\ key[b] \notin Recorded
        /\ \A d \in Conns \ {b} : pc[d] \in {"record", "unlisten"} => key[d] # key[b]
    BY <2>1 DEF AdapterInv, UnlistenOK
  <2>3. key[c] # key[b]
    BY <1>0, <2>1, <2>2
  <2> QED BY <1>0, <1>5, <2>2, <2>3
<1> QED BY <1>2, <1>6, <1>7, <1>8 DEF AdapterInv

\* Everything the leases need is kept by every step while the server is open.
LEMMA LeaseStep ==
  ASSUME TypeOK, SocketInv, AdapterInv, LeaseInv, [Next]_vars, ~closed'
  PROVE  AdapterInv' /\ LeaseInv'
<1> USE DEF At, Goto, adapterVars, linkVars, connVars, envVars, histVars
<1> DEFINE Goal == AdapterInv' /\ LeaseInv'
<1>0. pc \in [Conns -> Pcs] /\ cur \in [Conns -> AllUplinks \cup {None}]
      /\ key \in [Conns -> Key \cup {None}]
  BY LeaseTypes
<1>1. ASSUME NEW c \in Conns, Recv(c) \/ Uplink(c) PROVE Goal
  <2>1. /\ OthersStay(c) /\ pc'[c] \notin Inside /\ UNCHANGED <<ports, mgr, raced, uplinkMap, swept>>
    BY <1>0, <1>1 DEF Recv, Uplink, OthersStay, Inside
  <2> QED BY <2>1, QuietStep
<1>2. ASSUME NEW c \in Conns, Send(c) PROVE Goal
  <2>1. /\ OthersStay(c) /\ pc'[c] \notin Inside /\ UNCHANGED <<ports, mgr, raced, uplinkMap, swept>>
    BY <1>0, <1>2 DEF Send, Forget, OthersStay, Inside
  <2> QED BY <2>1, QuietStep
<1>3. ASSUME NEW c \in Conns, BeginSweep(c) \/ SweepExhausted(c) \/ SweepBreak(c) PROVE Goal
  <2>1. /\ OthersStay(c) /\ pc'[c] \notin Inside /\ UNCHANGED <<ports, mgr, raced, uplinkMap, swept>>
    BY <1>0, <1>3 DEF BeginSweep, SweepExhausted, SweepBreak, EndSweep, OthersStay, Inside
  <2> QED BY <2>1, QuietStep
<1>4. ASSUME NEW c \in Conns, SweepBusy(c) \/ SweepPanic(c) \/ DownDel(c) \/ DelPortPanic(c)
                              \/ EndCleanup(c) \/ AddDown(c)
      PROVE  Goal
  <2>1. /\ OthersStay(c) /\ pc'[c] \notin Inside /\ UNCHANGED <<ports, mgr, raced, uplinkMap, swept>>
    BY <1>0, <1>4 DEF SweepBusy, SweepPanic, DownDel, DelPortPanic, EndCleanup, AddDown,
                      InLoop, OthersStay, Inside
  <2> QED BY <2>1, QuietStep
<1>5. ASSUME NEW c \in Conns, SweepIdle(c) \/ DelPort(c) \/ DelPortSocket(c) PROVE Goal
  BY <1>5, SweepIdleStep, DelPortStep, DelPortSocketStep
<1>6. ASSUME NEW c \in Conns, Add(c), ~AddDown(c) PROVE Goal
  BY <1>6, ScanStep, AllocStep, RecordStep, AddUpStep DEF Add
<1>7. ASSUME UNCHANGED <<ports, mgr, raced, uplinkMap, swept, pc, cur, key>> PROVE Goal
  <2>1. OthersStay(None) /\ None \notin Conns
    BY <1>7, LinksAssumption DEF OthersStay
  <2> QED BY <1>7, <2>1, QuietStep
<1>8. ~Close
  BY DEF Close
<1> HIDE DEF Goal
<1>9. ASSUME NEW c \in Conns, ServeConn(c) PROVE Goal
  BY <1>1, <1>2, <1>3, <1>4, <1>5, <1>6, <1>9 DEF ServeConn, Cleanup
<1>10. Goal
  BY <1>7, <1>8, <1>9 DEF Next, Tick, Collect, Finalize, Halted, vars
<1> QED BY <1>10 DEF Goal

\* A server that was closed stays closed.
LEMMA ClosedStays == ASSUME [Next]_vars, closed PROVE closed'
<1> USE DEF envVars
<1>1. ASSUME NEW c \in Conns, ServeConn(c) PROVE closed'
  <2>1. CASE Send(c)
    BY <2>1 DEF Send
  <2>2. CASE Recv(c) \/ Uplink(c)
    BY <2>2 DEF Recv, Uplink
  <2>3. CASE Cleanup(c)
    BY <2>3 DEF Cleanup, BeginSweep, SweepExhausted, SweepBreak, EndSweep, SweepBusy, SweepIdle,
                SweepPanic, DownDel, DelPort, DelPortSocket, DelPortPanic, EndCleanup
  <2>4. CASE Add(c)
    BY <2>4 DEF Add, GetPortScan, GetPortAlloc, GetPortRecord, AddUp, AddDown
  <2> QED BY <1>1, <2>1, <2>2, <2>3, <2>4 DEF ServeConn
<1>2. CASE Tick \/ Collect
  BY <1>2 DEF Tick, Collect
<1>3. CASE Close
  BY <1>3 DEF Close
<1>4. CASE UNCHANGED vars
  BY <1>4 DEF vars
<1> QED BY <1>1, <1>2, <1>3, <1>4 DEF Next, Halted

\* Ports, sockets and leases, for clients behind different addresses or not.
THEOREM PortInvariant == Spec => []PortInv
<1>1. Init => PortInv
  <2> SUFFICES ASSUME Init PROVE PortInv
    OBVIOUS
  <2>1. SocketInv
    BY DEF Init, AdapterInit, SocketInv
  <2>2. AdapterInv
    BY DEF Init, AdapterInit, AdapterInv, RecordedListens, RecordsOK, UnlistenOK, Recorded
  <2>3. \A h \in Places, d \in Downlink : ~Holds(h, d)
    BY PlaceKinds DEF Init, Holds
  <2>4. LeaseInv
    BY <2>3 DEF LeaseInv
  <2> QED BY <2>1, <2>2, <2>4 DEF PortInv
<1>2. TypeOK /\ PortInv /\ [Next]_vars => PortInv'
  BY SocketStep, LeaseStep, ClosedStays DEF PortInv
<1> QED BY <1>1, <1>2, LinksTypeCorrect, PTL DEF Spec

\* The port of a live link is held by an open socket and recorded for the
\* link's server, but for the ports that a stale scan recorded.
THEOREM PortsAreHeld == Spec => []PortHeld
<1>1. TypeOK /\ PortInv => PortHeld
  <2> SUFFICES ASSUME TypeOK, PortInv, ~closed, NEW u \in Links,
                      KeyOf(u, uplinkMap[u]) \notin raced
               PROVE  /\ KeyOf(u, uplinkMap[u]) \in bound
                      /\ u.server \in ports[KeyOf(u, uplinkMap[u])]
    BY DEF PortHeld
  <2>1. u \in AllUplinks /\ uplinkMap[u] \in Ports
    BY LeaseTypes DEF Links
  <2> DEFINE h == <<"link", u, None>>
             d == DownOf(u, uplinkMap[u])
             k == KeyOf(u, uplinkMap[u])
  <2>2. /\ d \in Downlink /\ KeyAt(d) = k /\ d[1] = u.server /\ k \in Key
    BY <2>1, DownParts
  <2>3. h \in Places /\ Holds(h, d)
    BY <2>1 DEF Places, Holds, Links
  <2> HIDE DEF h, d
  <2>4. Leased(d)
    BY <2>2, <2>3 DEF PortInv, LeaseInv
  <2>5. u.server \in ports[k]
    BY <2>2, <2>4 DEF Leased
  <2>6. k \in Recorded
    BY <2>2, <2>5 DEF Recorded
  <2> QED BY <2>5, <2>6 DEF PortInv, AdapterInv, RecordedListens, SocketInv
<1> QED BY <1>1, PortInvariant, LinksTypeCorrect, PTL

(***************************************************************************)
(* No port leak: a recorded lease has an owner who will return it.  Only   *)
(* AddUp can take the owner of a lease away without taking its place, by   *)
(* overwriting a link, which needs another tunnel with the same Uplink.    *)
(***************************************************************************)

\* A step that records no lease and takes no owner away.
LEMMA OwnersStay ==
  ASSUME LeasesOwned, UNCHANGED <<uplinkMap, swept, orphaned>>,
         \A d \in Downlink : Leased(d)' => Leased(d),
         \A c \in Conns : pc[c] = "addup" => pc'[c] = "addup" /\ cur'[c] = cur[c] /\ key'[c] = key[c]
  PROVE  LeasesOwned'
<1> SUFFICES ASSUME NEW d \in Downlink, Leased(d)'
             PROVE  Owned(d)' \/ (d \in orphaned' /\ ~DistinctClients)
  BY DEF LeasesOwned
<1>1. Owned(d) \/ (d \in orphaned /\ ~DistinctClients)
  BY DEF LeasesOwned
<1>2. ASSUME Owned(d) PROVE Owned(d)'
  BY <1>2 DEF Owned, Links
<1> QED BY <1>1, <1>2

\* GetPort's goroutine owns the lease it records.
LEMMA RecordOwned ==
  ASSUME TypeOK, LeasesOwned, NEW c \in Conns, GetPortRecord(c)
  PROVE  LeasesOwned'
<1> USE DEF At, Goto, linkVars
<1>1. /\ pc[c] = "record" /\ pc' = [pc EXCEPT ![c] = "addup"]
      /\ ports' = [ports EXCEPT ![key[c]] = @ \cup {cur[c].server}]
      /\ UNCHANGED <<uplinkMap, swept, orphaned, cur, key>>
  BY DEF GetPortRecord, Record
<1>2. /\ pc \in [Conns -> Pcs] /\ ports \in [Key -> SUBSET Remotes]
      /\ key[c] \in Key /\ key[c] = KeyOf(cur[c], key[c][2])
  BY <1>1, LeaseTypes
<1> SUFFICES ASSUME NEW d \in Downlink, Leased(d)'
             PROVE  Owned(d)' \/ (d \in orphaned' /\ ~DistinctClients)
  BY DEF LeasesOwned
<1>3. CASE Leased(d)
  <2>1. Owned(d) \/ (d \in orphaned /\ ~DistinctClients)
    BY <1>3 DEF LeasesOwned
  <2>2. ASSUME Owned(d) PROVE Owned(d)'
    BY <1>1, <1>2, <2>2 DEF Owned, Links
  <2> QED BY <1>1, <2>1, <2>2
<1>4. CASE ~Leased(d)
  <2>1. KeyAt(d) = key[c] /\ d[1] = cur[c].server
    BY <1>1, <1>2, <1>4 DEF Leased, KeyAt, Downlink, Key
  <2>2. d = DownOf(cur[c], key[c][2])
    BY <1>2, <2>1 DEF KeyAt, KeyOf, DownOf, Downlink
  <2> QED BY <1>1, <1>2, <2>2 DEF Owned
<1> QED BY <1>3, <1>4

\* AddUp hands the lease to its link; the lease of a link that it overwrites is
\* orphaned.
LEMMA AddUpOwned ==
  ASSUME TypeOK, LeasesOwned, DistinctClients => MissingStays, NEW c \in Conns, AddUp(c)
  PROVE  LeasesOwned'
<1> USE DEF At, Goto, adapterVars
<1>1. /\ pc[c] = "addup" /\ pc' = [pc EXCEPT ![c] = "adddown"]
      /\ uplinkMap' = [uplinkMap EXCEPT ![cur[c]] = key[c][2]]
      /\ orphaned' = IF uplinkMap[cur[c]] \in {None, key[c][2]} THEN orphaned
                     ELSE orphaned \cup {DownOf(cur[c], uplinkMap[cur[c]])}
      /\ UNCHANGED <<ports, swept, cur, key>>
  BY DEF AddUp
<1>2. /\ pc \in [Conns -> Pcs] /\ uplinkMap \in [AllUplinks -> Ports \cup {None}]
      /\ cur[c] \in AllUplinks /\ key[c][2] \in Ports /\ None \notin Ports
  BY <1>1, LeaseTypes
<1> SUFFICES ASSUME NEW d \in Downlink, Leased(d)'
             PROVE  Owned(d)' \/ (d \in orphaned' /\ ~DistinctClients)
  BY DEF LeasesOwned
<1>3. Owned(d) \/ (d \in orphaned /\ ~DistinctClients)
  BY <1>1 DEF LeasesOwned, Leased
<1>4. cur[c] \in Links' /\ uplinkMap'[cur[c]] = key[c][2]
  BY <1>1, <1>2 DEF Links
<1>5. CASE \E u \in Links : d = DownOf(u, uplinkMap[u])
  <2>1. PICK u \in Links : d = DownOf(u, uplinkMap[u])
    BY <1>5
  <2>2. CASE u # cur[c]
    <3>1. u \in Links' /\ uplinkMap'[u] = uplinkMap[u]
      BY <1>1, <1>2, <2>2 DEF Links
    <3> QED BY <2>1, <3>1 DEF Owned
  <2>3. CASE u = cur[c] /\ uplinkMap[u] = key[c][2]
    BY <1>4, <2>1, <2>3 DEF Owned
  <2>4. CASE u = cur[c] /\ uplinkMap[u] # key[c][2]
    <3>1. uplinkMap[u] # None
      BY DEF Links
    <3>2. d \in orphaned'
      BY <1>1, <2>1, <2>4, <3>1
    <3>3. ~MissingStays
      BY <1>1, <2>4 DEF MissingStays, MissPcs
    <3> QED BY <3>2, <3>3
  <2> QED BY <2>2, <2>3, <2>4
<1>6. CASE \E e \in Conns : pc[e] = "addup" /\ d = DownOf(cur[e], key[e][2])
  <2>1. PICK e \in Conns : pc[e] = "addup" /\ d = DownOf(cur[e], key[e][2])
    BY <1>6
  <2>2. CASE e = c
    BY <1>4, <2>1, <2>2 DEF Owned
  <2>3. CASE e # c
    <3>1. pc'[e] = "addup" /\ cur'[e] = cur[e] /\ key'[e] = key[e]
      BY <1>1, <1>2, <2>1, <2>3
    <3> QED BY <2>1, <3>1 DEF Owned
  <2> QED BY <2>2, <2>3
<1>7. CASE \E e \in Conns : \E s \in swept[e] : d = DownOf(s[1], s[2])
  BY <1>1, <1>7 DEF Owned
<1>8. CASE d \in orphaned /\ ~DistinctClients
  BY <1>1, <1>8
<1> QED BY <1>3, <1>5, <1>6, <1>7, <1>8 DEF Owned

\* A sweep takes the lease over from the link.
LEMMA SweepIdleOwned ==
  ASSUME TypeOK, LeasesOwned, NEW c \in Conns, SweepIdle(c)
  PROVE  LeasesOwned'
<1>1. /\ UNCHANGED <<ports, pc, cur, key, orphaned>>
      /\ swept' = [swept EXCEPT ![c] = @ \cup {<<Head(ttl).up, uplinkMap[Head(ttl).up]>>}]
      /\ uplinkMap' = [uplinkMap EXCEPT ![Head(ttl).up] = None]
  BY DEF SweepIdle, adapterVars, envVars, histVars
<1>2. /\ uplinkMap \in [AllUplinks -> Ports \cup {None}]
      /\ swept \in [Conns -> SUBSET (AllUplinks \X Ports)]
  BY LeaseTypes
<1> SUFFICES ASSUME NEW d \in Downlink, Leased(d)'
             PROVE  Owned(d)' \/ (d \in orphaned' /\ ~DistinctClients)
  BY DEF LeasesOwned
<1>3. Owned(d) \/ (d \in orphaned /\ ~DistinctClients)
  BY <1>1 DEF LeasesOwned, Leased
<1>4. CASE \E u \in Links : d = DownOf(u, uplinkMap[u])
  <2>1. PICK u \in Links : d = DownOf(u, uplinkMap[u])
    BY <1>4
  <2>2. CASE u = Head(ttl).up
    <3> DEFINE s == <<u, uplinkMap[u]>>
    <3>1. s \in swept'[c]
      BY <1>1, <1>2, <2>2
    <3>2. d = DownOf(s[1], s[2])
      BY <2>1
    <3> HIDE DEF s
    <3> QED BY <3>1, <3>2 DEF Owned
  <2>3. CASE u # Head(ttl).up
    <3>1. u \in Links' /\ uplinkMap'[u] = uplinkMap[u]
      BY <1>1, <1>2, <2>3 DEF Links
    <3> QED BY <2>1, <3>1 DEF Owned
  <2> QED BY <2>2, <2>3
<1>5. CASE \E e \in Conns : pc[e] = "addup" /\ d = DownOf(cur[e], key[e][2])
  BY <1>1, <1>5 DEF Owned
<1>6. CASE \E e \in Conns : \E s \in swept[e] : d = DownOf(s[1], s[2])
  <2>1. \A e \in Conns : swept[e] \subseteq swept'[e]
    BY <1>1, <1>2
  <2> QED BY <1>6, <2>1 DEF Owned
<1> QED BY <1>1, <1>3, <1>4, <1>5, <1>6 DEF Owned

\* DelPort gives a lease up together with its owner.
LEMMA DelPortOwned ==
  ASSUME TypeOK, LeasesOwned, NEW c \in Conns, DelPort(c)
  PROVE  LeasesOwned'
<1>1. PICK s \in swept[c] :
        /\ ports' = [ports EXCEPT ![KeyOf(s[1], s[2])] = @ \ {s[1].server}]
        /\ swept' = [swept EXCEPT ![c] = @ \ {s}]
        /\ key' = [key EXCEPT ![c] = KeyOf(s[1], s[2])]
        /\ pc[c] = "delport" /\ (pc' = pc \/ pc' = [pc EXCEPT ![c] = "unlisten"])
        /\ UNCHANGED <<uplinkMap, cur, orphaned>>
  BY DEF DelPort, Remove, At, Goto, linkVars
<1>2. /\ pc \in [Conns -> Pcs] /\ ports \in [Key -> SUBSET Remotes]
      /\ swept \in [Conns -> SUBSET (AllUplinks \X Ports)]
      /\ key \in [Conns -> Key \cup {None}]
      /\ s[1] \in AllUplinks /\ s[2] \in Ports
  BY LeaseTypes
<1>3. /\ KeyAt(DownOf(s[1], s[2])) = KeyOf(s[1], s[2]) /\ KeyOf(s[1], s[2]) \in Key
      /\ DownOf(s[1], s[2])[1] = s[1].server
  BY <1>2, DownParts
<1> SUFFICES ASSUME NEW d \in Downlink, Leased(d)'
             PROVE  Owned(d)' \/ (d \in orphaned' /\ ~DistinctClients)
  BY DEF LeasesOwned
<1>4. Leased(d) /\ d # DownOf(s[1], s[2])
  <2>1. KeyAt(d) \in Key
    BY DEF KeyAt, Downlink, Key
  <2>2. KeyAt(d) = KeyOf(s[1], s[2]) => d[1] # s[1].server /\ d[1] \in ports[KeyAt(d)]
    BY <1>1, <1>2, <1>3 DEF Leased
  <2>3. KeyAt(d) # KeyOf(s[1], s[2]) => d[1] \in ports[KeyAt(d)]
    BY <1>1, <1>2, <2>1 DEF Leased
  <2> QED BY <1>3, <2>2, <2>3 DEF Leased
<1>5. Owned(d) \/ (d \in orphaned /\ ~DistinctClients)
  BY <1>4 DEF LeasesOwned
<1>6. CASE \E u \in Links : d = DownOf(u, uplinkMap[u])
  BY <1>1, <1>6 DEF Owned, Links
<1>7. CASE \E e \in Conns : pc[e] = "addup" /\ d = DownOf(cur[e], key[e][2])
  <2>1. PICK e \in Conns : pc[e] = "addup" /\ d = DownOf(cur[e], key[e][2])
    BY <1>7
  <2>2. pc'[e] = "addup" /\ cur'[e] = cur[e] /\ key'[e] = key[e]
    BY <1>1, <1>2, <2>1
  <2> QED BY <2>1, <2>2 DEF Owned
<1>8. CASE \E e \in Conns : \E t \in swept[e] : d = DownOf(t[1], t[2])
  <2>1. PICK e \in Conns : \E t \in swept[e] : d = DownOf(t[1], t[2])
    BY <1>8
  <2>2. PICK t \in swept[e] : d = DownOf(t[1], t[2])
    BY <2>1
  <2>3. t \in swept'[e]
    BY <1>1, <1>2, <1>4, <2>2
  <2> QED BY <2>2, <2>3 DEF Owned
<1> QED BY <1>1, <1>5, <1>6, <1>7, <1>8 DEF Owned

\* Nothing is recorded any more after a Close.
LEMMA ClosedLeases == ASSUME CloseAll, NEW d \in Downlink PROVE ~Leased(d)'
<1>1. KeyAt(d) \in Key
  BY DEF KeyAt, Downlink, Key
<1> QED BY <1>1 DEF CloseAll, Leased

\* The steps of the other kinds take no lease and no owner away.
LEMMA OwnedStep ==
  ASSUME TypeOK, LeasesOwned, DistinctClients => MissingStays, [Next]_vars
  PROVE  LeasesOwned'
<1> USE DEF At, Goto, linkVars, connVars, envVars, histVars
<1>0. pc \in [Conns -> Pcs] /\ key \in [Conns -> Key \cup {None}] /\ cur \in [Conns -> AllUplinks \cup {None}]
  BY LeaseTypes
<1> DEFINE Same(c) == /\ pc[c] # "addup" /\ UNCHANGED <<uplinkMap, swept, orphaned>>
                      /\ \A e \in Conns \ {c} : pc'[e] = pc[e] /\ cur'[e] = cur[e] /\ key'[e] = key[e]
<1>1. ASSUME NEW c \in Conns, Same(c), ports' = ports \/ CloseAll PROVE LeasesOwned'
  <2>1. \A d \in Downlink : Leased(d)' => Leased(d)
    BY <1>1, ClosedLeases DEF Leased
  <2>2. \A e \in Conns : pc[e] = "addup" => pc'[e] = "addup" /\ cur'[e] = cur[e] /\ key'[e] = key[e]
    BY <1>1
  <2>3. UNCHANGED <<uplinkMap, swept, orphaned>>
    BY <1>1
  <2> QED BY <2>1, <2>2, <2>3, OwnersStay
<1>2. ASSUME UNCHANGED <<connVars, uplinkMap, orphaned>>, ports' = ports \/ CloseAll PROVE LeasesOwned'
  <2>1. \A d \in Downlink : Leased(d)' => Leased(d)
    BY <1>2, ClosedLeases DEF Leased
  <2> QED BY <1>2, <2>1, OwnersStay
<1>3. ASSUME NEW c \in Conns, Recv(c) \/ Uplink(c) \/ Send(c) PROVE LeasesOwned'
  <2>1. Same(c)
    BY <1>0, <1>3 DEF Recv, Uplink, Send, Forget
  <2>2. ports' = ports \/ CloseAll
    BY <1>3 DEF Recv, Uplink, Send, adapterVars
  <2> QED BY <1>1, <2>1, <2>2
<1>4. ASSUME NEW c \in Conns, BeginSweep(c) \/ SweepExhausted(c) \/ SweepBreak(c) \/ SweepBusy(c) \/ SweepPanic(c)
      PROVE  LeasesOwned'
  <2>1. Same(c) /\ ports' = ports
    BY <1>0, <1>4 DEF BeginSweep, SweepExhausted, SweepBreak, EndSweep, SweepBusy, SweepPanic, InLoop, adapterVars
  <2> QED BY <1>1, <2>1
<1>5. ASSUME NEW c \in Conns, DownDel(c) \/ DelPortSocket(c) \/ DelPortPanic(c) \/ EndCleanup(c)
      PROVE  LeasesOwned'
  <2>1. Same(c) /\ ports' = ports
    BY <1>0, <1>5 DEF DownDel, DelPortSocket, Unlisten, DelPortPanic, EndCleanup, adapterVars
  <2> QED BY <1>1, <2>1
<1>6. ASSUME NEW c \in Conns, GetPortScan(c) \/ GetPortAlloc(c) \/ AddDown(c) PROVE LeasesOwned'
  <2>1. Same(c)
    BY <1>0, <1>6 DEF GetPortScan, GetPortAlloc, Forget, AddDown
  <2>2. ports' = ports
    BY <1>6 DEF GetPortScan, GetPortAlloc, Listen, ListenFails, AddDown, adapterVars
  <2> QED BY <1>1, <2>1, <2>2
<1>7. CASE Tick \/ Close \/ Collect \/ UNCHANGED vars
  BY <1>2, <1>7 DEF Tick, Close, Collect, Finalize, vars, adapterVars
<1> QED BY <1>3, <1>4, <1>5, <1>6, <1>7, RecordOwned, AddUpOwned, SweepIdleOwned, DelPortOwned
        DEF Next, ServeConn, Cleanup, Add, Halted

\* No local port leaks, for any number of connections and a Close at any moment:
\* the Manager has no port that is neither recorded nor in flight, and every
\* lease has an owner who will return it, but the ones whose link another
\* tunnel's Add overwrote.  Distinct clients orphan none.
THEOREM LinksNoPortLeak == Spec => []NoPortLeak
<1>1. Init => LeasesOwned
  <2> SUFFICES ASSUME Init, NEW d \in Downlink PROVE ~Leased(d)
    BY DEF LeasesOwned
  <2>1. KeyAt(d) \in Key
    BY DEF KeyAt, Downlink, Key
  <2> QED BY <2>1 DEF Init, AdapterInit, Leased
<1>2. CASE DistinctClients
  <2>1. TypeOK /\ ClientInv /\ LeasesOwned /\ [Next]_vars => LeasesOwned'
    BY OwnedStep DEF ClientInv
  <2>2. Spec => []ClientInv
    BY <1>2, ClientInvariant
  <2>3. PortsAccounted /\ LeasesOwned => NoPortLeak
    BY DEF NoPortLeak
  <2> QED BY <1>1, <2>1, <2>2, <2>3, LinksTypeCorrect, PortsStayAccounted, PTL DEF Spec
<1>3. CASE ~DistinctClients
  <2>1. TypeOK /\ LeasesOwned /\ [Next]_vars => LeasesOwned'
    BY <1>3, OwnedStep
  <2>2. PortsAccounted /\ LeasesOwned => NoPortLeak
    BY DEF NoPortLeak
  <2> QED BY <1>1, <2>1, <2>2, LinksTypeCorrect, PortsStayAccounted, PTL DEF Spec
<1> QED BY <1>2, <1>3

\* The sweep meets no entry without a link and DelPort no port without a set
\* before the server is closed, unless GetPort recorded a port after a stale scan,
\* for clients behind different addresses.
THEOREM LinksPanicOnlyAfterClose ==
  ASSUME DistinctClients PROVE Spec => []PanicOnlyAfterClose
<1>1. Init => PanicOnlyAfterClose
  BY DEF Init, PanicOnlyAfterClose
<1>2. TypeOK /\ ClientInv /\ PortInv /\ PanicOnlyAfterClose /\ [Next]_vars => PanicOnlyAfterClose'
  <2> SUFFICES ASSUME TypeOK, ClientInv, PortInv, PanicOnlyAfterClose, [Next]_vars,
                      panicked', ~closed'
               PROVE  raced' # {}
    BY DEF PanicOnlyAfterClose
  <2> USE DEF envVars, histVars
  <2>1. ~closed
    BY ClosedStays
  <2>2. ASSUME NEW c \in Conns, SweepPanic(c) PROVE FALSE
    <3>1. Head(ttl) = ttl[1] /\ 1 \in 1..Len(ttl)
      BY <2>2, LoopHead DEF SweepPanic
    <3>2. ttl[1].up \in Links
      BY <3>1 DEF ClientInv, TtlMatchesLinks
    <3> QED BY <2>2, <3>1, <3>2 DEF SweepPanic, Links
  <2>3. ASSUME NEW c \in Conns, DelPortPanic(c) PROVE raced' # {}
    <3>1. PICK s \in swept[c] : KeyOf(s[1], s[2]) \notin Recorded
      BY <2>3 DEF DelPortPanic, RemovePanics
    <3>2. s \in AllUplinks \X Ports /\ s[1] \in AllUplinks /\ s[2] \in Ports
      BY <3>1, LeaseTypes
    <3> DEFINE h == <<"swept", c, s>>
               d == DownOf(s[1], s[2])
    <3>3. /\ d \in Downlink /\ KeyAt(d) = KeyOf(s[1], s[2]) /\ KeyOf(s[1], s[2]) \in Key
      BY <3>2, DownParts
    <3>4. h \in Places /\ Holds(h, d)
      BY <3>2 DEF Places, Holds
    <3>5. ~Leased(d)
      BY <3>1, <3>3 DEF Leased, Recorded
    <3> HIDE DEF h, d
    <3>6. KeyAt(d) \in raced
      BY <2>1, <3>3, <3>4, <3>5 DEF PortInv, LeaseInv
    <3>7. raced' = raced
      BY <2>3 DEF DelPortPanic
    <3> QED BY <3>6, <3>7
  <2>4. ASSUME panicked PROVE raced' # {}
    <3>1. raced # {}
      BY <2>1, <2>4 DEF PanicOnlyAfterClose
    <3>2. ASSUME NEW c \in Conns PROVE ~ServeConn(c)
      BY <2>4 DEF ServeConn, Cleanup, Add, Recv, Uplink, Send, BeginSweep, SweepExhausted, SweepBreak,
              SweepBusy, SweepIdle, SweepPanic, DownDel, DelPort, DelPortSocket, InLoop, At,
              DelPortPanic, EndCleanup, GetPortScan, GetPortAlloc, GetPortRecord, AddUp, AddDown
    <3> QED BY <2>4, <3>1, <3>2 DEF Next, Tick, Close, Collect, Halted, vars
  <2>5. ASSUME ~panicked PROVE \E c \in Conns : SweepPanic(c) \/ DelPortPanic(c)
    <3>1. ASSUME NEW c \in Conns, ServeConn(c), ~SweepPanic(c), ~DelPortPanic(c) PROVE ~panicked'
      <4>1. panicked' = panicked
        BY <3>1 DEF ServeConn, Cleanup, Add, Recv, Uplink, Send, BeginSweep, SweepExhausted, SweepBreak,
              EndSweep, SweepBusy, SweepIdle, DownDel, DelPort, DelPortSocket,
              EndCleanup, GetPortScan, GetPortAlloc, GetPortRecord, AddUp, AddDown
      <4> QED BY <2>5, <4>1
    <3>2. ASSUME Tick \/ Close \/ Collect \/ UNCHANGED vars PROVE ~panicked'
      <4>1. panicked' = panicked
        BY <3>2 DEF Tick, Close, Collect, vars
      <4> QED BY <2>5, <4>1
    <3> QED BY <3>1, <3>2 DEF Next, Halted
  <2> QED BY <2>2, <2>3, <2>4, <2>5
<1> QED BY <1>1, <1>2, LinksTypeCorrect, ClientInvariant, PortInvariant, PTL DEF Spec

(***************************************************************************)
(* Return paths of live links.                                             *)
(***************************************************************************)

\* A late return path is there, and a goroutine that is about to write its return
\* path finds its own link or none.
LateInv ==
  /\ \A d \in late : d \in Downlink /\ downlinkMap[d] # None
  /\ \A c \in Conns : pc[c] = "adddown" =>
       uplinkMap[cur[c]] = None \/ uplinkMap[cur[c]] = key[c][2]

\* A goroutine gets to AddDown by its own AddUp and stays there with its packet.
LEMMA AddDownStays ==
  ASSUME TypeOK, [Next]_vars, NEW c \in Conns
  PROVE  /\ pc[c] = "adddown" => AddDown(c) \/ (pc'[c] = "adddown" /\ cur'[c] = cur[c] /\ key'[c] = key[c])
         /\ pc'[c] = "adddown" => AddUp(c) \/ (pc[c] = "adddown" /\ cur'[c] = cur[c] /\ key'[c] = key[c])
<1> USE DEF At, Goto, connVars
<1> DEFINE Goal ==
      /\ pc[c] = "adddown" => AddDown(c) \/ (pc'[c] = "adddown" /\ cur'[c] = cur[c] /\ key'[c] = key[c])
      /\ pc'[c] = "adddown" => AddUp(c) \/ (pc[c] = "adddown" /\ cur'[c] = cur[c] /\ key'[c] = key[c])
<1>0. pc \in [Conns -> Pcs] /\ cur \in [Conns -> AllUplinks \cup {None}]
      /\ key \in [Conns -> Key \cup {None}]
  BY LeaseTypes
<1>1. ASSUME NEW e \in Conns, ServeConn(e), e # c PROVE Goal
  <2>1. pc'[c] = pc[c] /\ cur'[c] = cur[c] /\ key'[c] = key[c]
    BY <1>0, <1>1 DEF ServeConn, Cleanup, Add, Recv, Uplink, Send, Forget, BeginSweep, SweepExhausted,
              SweepBreak, EndSweep, SweepBusy, SweepIdle, SweepPanic, DownDel, DelPort,
              DelPortSocket, DelPortPanic, EndCleanup, GetPortScan, GetPortAlloc,
              GetPortRecord, AddUp, AddDown
  <2> QED BY <2>1
<1>2. ASSUME ServeConn(c), ~AddUp(c), ~AddDown(c) PROVE Goal
  <2>1. pc[c] # "adddown" /\ pc'[c] # "adddown"
    BY <1>0, <1>2 DEF ServeConn, Cleanup, Add, Recv, Uplink, Send, Forget, BeginSweep, SweepExhausted,
              SweepBreak, EndSweep, SweepBusy, SweepIdle, SweepPanic, DownDel, DelPort, InLoop,
              DelPortSocket, DelPortPanic, EndCleanup, GetPortScan, GetPortAlloc,
              GetPortRecord
  <2> QED BY <2>1
<1>3. ASSUME AddUp(c) \/ AddDown(c) PROVE Goal
  BY <1>0, <1>3 DEF AddUp, AddDown
<1>4. ASSUME UNCHANGED <<pc, cur, key>> PROVE Goal
  BY <1>4
<1> HIDE DEF Goal
<1>5. Goal
  BY <1>1, <1>2, <1>3, <1>4 DEF Next, Tick, Close, Collect, Halted, vars
<1> QED BY <1>5 DEF Goal

\* LateInv is kept, since only the goroutine of a client adds the client's links.
LEMMA LateStep ==
  ASSUME DistinctClients, TypeOK, LateInv, [Next]_vars
  PROVE  LateInv'
<1>0. /\ uplinkMap \in [AllUplinks -> Ports \cup {None}] /\ None \notin Ports
      /\ downlinkMap \in [Downlink -> (Conns \X {u.proc[2] : u \in AllUplinks}) \cup {None}]
      /\ pc \in [Conns -> Pcs]
  BY LeaseTypes DEF TypeOK, LinkTypeOK
<1>1. \A d \in late' : d \in Downlink /\ downlinkMap'[d] # None
  <2>1. CASE UNCHANGED <<downlinkMap, late>>
    BY <2>1 DEF LateInv
  <2>2. ASSUME NEW c \in Conns, DownDel(c) PROVE \A d \in late' : d \in Downlink /\ downlinkMap'[d] # None
    BY <2>2 DEF LateInv, DownDel
  <2>3. ASSUME NEW c \in Conns, AddDown(c) PROVE \A d \in late' : d \in Downlink /\ downlinkMap'[d] # None
    <3> DEFINE b == DownOf(cur[c], key[c][2])
               x == <<c, cur[c].proc[2]>>
    <3>1. /\ cur[c] \in AllUplinks /\ key[c][2] \in Ports
      BY <2>3, SendsTyped DEF AddDown, At, TypeOK, ConnOK, Key
    <3>2. b \in Downlink
      BY <3>1, DownParts
    <3>3. /\ downlinkMap' = [downlinkMap EXCEPT ![b] = x]
          /\ late' \subseteq late \cup {b}
      BY <2>3 DEF AddDown
    <3>4. downlinkMap'[b] # None
      <4>1. x \in Conns \X {u.proc[2] : u \in AllUplinks}
        BY <3>1
      <4>2. x # None
        BY <4>1, ReturnAssumption
      <4> QED BY <1>0, <3>2, <3>3, <4>2
    <3> HIDE DEF b, x
    <3> QED BY <1>0, <3>2, <3>3, <3>4 DEF LateInv
  <2> QED BY <2>1, <2>2, <2>3, DownSteps
<1>2. ASSUME NEW c \in Conns, pc'[c] = "adddown"
      PROVE  uplinkMap'[cur'[c]] = None \/ uplinkMap'[cur'[c]] = key'[c][2]
  <2>1. CASE AddUp(c)
    <3>1. cur[c] \in AllUplinks
      BY <2>1, AddUpQueue
    <3> QED BY <1>0, <2>1, <3>1 DEF AddUp
  <2>2. CASE pc[c] = "adddown" /\ cur'[c] = cur[c] /\ key'[c] = key[c] /\ ~AddUp(c)
    <3>1. /\ uplinkMap[cur[c]] = None \/ uplinkMap[cur[c]] = key[c][2]
          /\ cur[c] \in Sends[c] /\ cur[c] \in AllUplinks
      BY <2>2, SendsTyped DEF LateInv, TypeOK, ConnOK
    <3>2. ASSUME NEW e \in Conns, AddUp(e) PROVE uplinkMap'[cur[c]] = uplinkMap[cur[c]]
      <4>1. e # c /\ cur[e] \in Sends[e]
        BY <2>2, <3>2, AddUpQueue
      <4>2. cur[e] # cur[c]
        BY <3>1, <4>1 DEF DistinctClients
      <4> QED BY <1>0, <3>1, <3>2, <4>2 DEF AddUp
    <3>3. ASSUME NEW e \in Conns, SweepIdle(e)
          PROVE  uplinkMap'[cur[c]] = uplinkMap[cur[c]] \/ uplinkMap'[cur[c]] = None
      BY <1>0, <3>1, <3>3 DEF SweepIdle
    <3> QED BY <2>2, <3>1, <3>2, <3>3, MapSteps
  <2> QED BY <1>2, <2>1, <2>2, AddDownStays
<1> QED BY <1>1, <1>2 DEF LateInv

\* A port that a stale scan recorded stays marked.
LEMMA RacedStays == ASSUME [Next]_vars PROVE raced \subseteq raced'
<1> USE DEF envVars, histVars
<1>1. ASSUME NEW c \in Conns, ServeConn(c) PROVE raced \subseteq raced'
  <2>1. CASE Recv(c) \/ Uplink(c) \/ Send(c)
    BY <2>1 DEF Recv, Uplink, Send
  <2>2. CASE Cleanup(c) /\ ~DelPort(c)
    BY <2>2 DEF Cleanup, BeginSweep, SweepExhausted, SweepBreak, EndSweep, SweepBusy, SweepIdle,
                SweepPanic, DownDel, DelPortSocket, DelPortPanic, EndCleanup
  <2>3. CASE DelPort(c)
    BY <2>3 DEF DelPort, Overtake
  <2>4. CASE Add(c)
    BY <2>4 DEF Add, GetPortScan, GetPortAlloc, GetPortRecord, Overtake, AddUp, AddDown
  <2> QED BY <1>1, <2>1, <2>2, <2>3, <2>4 DEF ServeConn
<1>2. CASE Tick \/ Close \/ Collect
  BY <1>2 DEF Tick, Close, Collect
<1>3. CASE UNCHANGED vars
  BY <1>3 DEF vars
<1> QED BY <1>1, <1>2, <1>3 DEF Next, Halted

\* The return path of a live link is found while it lives, once AddDown wrote it.
LEMMA PathStep ==
  ASSUME DistinctClients, TypeOK, PortInv, LateInv, ReturnPath, [Next]_vars
  PROVE  ReturnPath'
<1>0. /\ uplinkMap \in [AllUplinks -> Ports \cup {None}] /\ None \notin Ports
      /\ downlinkMap \in [Downlink -> (Conns \X {u.proc[2] : u \in AllUplinks}) \cup {None}]
      /\ pc \in [Conns -> Pcs]
  BY LeaseTypes DEF TypeOK, LinkTypeOK
<1> SUFFICES ASSUME ~closed', NEW c \in Conns, NEW u \in Sends[c], uplinkMap'[u] # None, Sound(u)'
             PROVE  \/ downlinkMap'[DownOf(u, uplinkMap'[u])] = <<c, u.proc[2]>>
                    \/ pc'[c] = "adddown" /\ cur'[c] = u
  BY DEF ReturnPath, Links
<1>1. ~closed /\ u \in AllUplinks
  BY ClosedStays, SendsTyped
\* A link that AddUp just made.
<1>2. CASE AddUp(c) /\ cur[c] = u
  BY <1>0, <1>2 DEF AddUp, Goto
\* Otherwise the link was there before.
<1>3. CASE ~(AddUp(c) /\ cur[c] = u)
  <2>1. uplinkMap'[u] = uplinkMap[u]
    <3>1. ASSUME NEW e \in Conns, AddUp(e) PROVE uplinkMap'[u] = uplinkMap[u]
      <4>1. cur[e] \in Sends[e]
        BY <3>1, AddUpQueue
      <4>2. cur[e] # u
        BY <1>3, <3>1, <4>1 DEF DistinctClients
      <4> QED BY <1>0, <1>1, <3>1, <4>2 DEF AddUp
    <3>2. ASSUME NEW e \in Conns, SweepIdle(e) PROVE uplinkMap'[u] = uplinkMap[u]
      BY <1>0, <1>1, <3>2 DEF SweepIdle
    <3> QED BY <3>1, <3>2, MapSteps
  <2> DEFINE p == uplinkMap[u]
             d == DownOf(u, p)
             h == <<"link", u, None>>
  <2>2. u \in Links /\ p \in Ports
    BY <1>0, <1>1, <2>1 DEF Links
  <2>3. /\ d \in Downlink /\ KeyAt(d) = KeyOf(u, p) /\ d[1] = u.server
    BY <1>1, <2>2, DownParts
  <2>4. h \in Places /\ Holds(h, d)
    BY <1>1, <2>2 DEF Places, Holds, Links
  <2>5. KeyAt(d) \notin raced' /\ d \notin late'
    BY <2>1, <2>3 DEF Sound
  <2>6. KeyAt(d) \notin raced
    BY <2>5, RacedStays
  <2>7. \A g \in Places : Holds(g, d) => g = h
    BY <1>1, <2>3, <2>4, <2>6 DEF PortInv, LeaseInv
  <2>8. d \notin late => downlinkMap[d] = <<c, u.proc[2]>> \/ (pc[c] = "adddown" /\ cur[c] = u)
    BY <1>1, <2>2, <2>3, <2>6 DEF ReturnPath, Sound
  <2> HIDE DEF d, h
  <2>9. SUFFICES downlinkMap'[d] = <<c, u.proc[2]>> \/ (pc'[c] = "adddown" /\ cur'[c] = u)
    BY <2>1 DEF d
  <2>10. CASE UNCHANGED <<downlinkMap, late>> /\ ~AddDown(c)
    BY <2>5, <2>8, <2>10, AddDownStays
  <2>11. ASSUME NEW e \in Conns, DownDel(e)
         PROVE  downlinkMap'[d] = <<c, u.proc[2]>> \/ (pc'[c] = "adddown" /\ cur'[c] = u)
    <3>1. \A s \in swept[e] : d # DownOf(s[1], s[2])
      <4> SUFFICES ASSUME NEW s \in swept[e], d = DownOf(s[1], s[2]) PROVE FALSE
        OBVIOUS
      <4>1. s \in AllUplinks \X Ports
        BY LeaseTypes
      <4>2. <<"swept", e, s>> \in Places /\ Holds(<<"swept", e, s>>, d)
        BY <4>1 DEF Places, Holds
      <4> QED BY <2>7, <4>2 DEF h
    <3>2. downlinkMap'[d] = downlinkMap[d]
      BY <2>3, <2>11, <3>1 DEF DownDel
    <3>3. d \notin late
      BY <2>5, <2>11, <3>2 DEF DownDel, LateInv
    <3>4. ~AddDown(c)
      BY <1>0, <2>11 DEF DownDel, AddDown, At, Goto
    <3> QED BY <2>8, <3>2, <3>3, <3>4, AddDownStays
  <2>12. ASSUME NEW e \in Conns, AddDown(e)
         PROVE  downlinkMap'[d] = <<c, u.proc[2]>> \/ (pc'[c] = "adddown" /\ cur'[c] = u)
    <3> DEFINE b == DownOf(cur[e], key[e][2])
    <3>1. /\ cur[e] \in Sends[e] /\ cur[e] \in AllUplinks /\ key[e][2] \in Ports
      BY <2>12, SendsTyped DEF AddDown, At, TypeOK, ConnOK, Key
    <3>2. /\ downlinkMap' = [downlinkMap EXCEPT ![b] = <<e, cur[e].proc[2]>>]
          /\ late' = IF uplinkMap[cur[e]] = key[e][2] THEN late \ {b} ELSE late \cup {b}
      BY <2>12 DEF AddDown
    <3>3. CASE b = d
      <4>1. uplinkMap[cur[e]] = key[e][2]
        BY <2>5, <3>2, <3>3
      <4>2. <<"link", cur[e], None>> \in Places /\ Holds(<<"link", cur[e], None>>, d)
        BY <1>0, <3>1, <3>3, <4>1 DEF Places, Holds
      <4>3. cur[e] = u
        BY <2>7, <4>2 DEF h
      <4>4. e = c
        BY <3>1, <4>3 DEF DistinctClients
      <4> QED BY <1>0, <2>3, <3>2, <3>3, <4>3, <4>4
    <3>4. CASE b # d
      <4>1. downlinkMap'[d] = downlinkMap[d] /\ d \notin late
        BY <1>0, <2>3, <2>5, <3>2, <3>4
      <4>2. ASSUME cur[c] = u, AddDown(c) PROVE downlinkMap[d] = <<c, u.proc[2]>>
        <5>1. e = c
          BY <1>0, <2>12, <4>2 DEF AddDown, At, Goto, Pcs
        <5>2. key[c][2] = p
          BY <1>0, <2>2, <4>2 DEF LateInv, AddDown, At
        <5> QED BY <3>4, <4>2, <5>1, <5>2 DEF d
      <4> QED BY <2>8, <4>1, <4>2, AddDownStays
    <3> QED BY <3>3, <3>4
  <2> QED BY <2>10, <2>11, <2>12, DownSteps
<1> QED BY <1>2, <1>3

\* The way back: recvService finds the connection and the process port of a live
\* link, but for the links that one of the two races touched, for any number of
\* clients behind different addresses.
THEOREM ReturnPathsAreFound ==
  ASSUME DistinctClients PROVE Spec => []ReturnPath
<1>1. Init => LateInv /\ ReturnPath
  BY DEF Init, LateInv, ReturnPath, Links
<1>2. TypeOK /\ PortInv /\ LateInv /\ ReturnPath /\ [Next]_vars => LateInv' /\ ReturnPath'
  BY LateStep, PathStep
<1> QED BY <1>1, <1>2, LinksTypeCorrect, PortInvariant, PTL DEF Spec
=============================================================================
