-------------------------- MODULE UdpListenerProofs --------------------------
(***************************************************************************)
(* The udp listener for any number of services, peers, buffers and conns,  *)
(* and any capacity of the channels.                                       *)
(***************************************************************************)
EXTENDS UdpListener, SequenceTheorems, FiniteSetTheorems, TLAPS

(***************************************************************************)
(* The invariant.                                                          *)
(***************************************************************************)

Holding == {"lookup", "insert", "put", "send", "steal"}
Putting == {"put", "send", "steal"}
Serving == Putting \cup {"offer", "offering"}

\* A service holds the datagram of the peer it serves, and the peer's conn.
ServiceOK(v) ==
  /\ pc[v] \in Holding => seg[v] \in Segs /\ addr[v] \in Peers /\ data[seg[v]] = addr[v]
  /\ pc[v] \notin Holding => seg[v] = None
  /\ pc[v] \in Serving => a[v] \in Made
  /\ pc[v] \in Putting => raddr[a[v]] = addr[v]

\* The table has the conns of each peer under its own address.
TableOK == \A p \in Peers : conns[p] # None => conns[p] \in Made /\ raddr[conns[p]] = p

\* A conn that is not made has no buffers.
SpareOK == \A c \in Conns \ Made : buff[c] = <<>> /\ rd[c] = None /\ c \notin timers

ServiceInv == /\ TypeOK /\ running # {} /\ TableOK /\ SpareOK
              /\ \A v \in Services : ServiceOK(v)

\* The conn that a service made and did not offer yet.
Fresh(v) == isNew[v] /\ pc[v] \in Serving

\* A conn is offered to Accept at most once, and until then the program has not
\* touched it.
OfferInv ==
  /\ \A v \in Services : pc[v] = "offering" => isNew[v]
  /\ \A v \in Services : Fresh(v) => cpc[a[v]] = "open"
  /\ \A v \in Services, i \in 1..Len(connCh) : Fresh(v) => connCh[i] # a[v]
  /\ \A v, w \in Services : Fresh(v) /\ Fresh(w) /\ a[v] = a[w] => v = w
  /\ \A i \in 1..Len(connCh) : connCh[i] \in Made /\ cpc[connCh[i]] = "open"
  /\ \A i, j \in 1..Len(connCh) : connCh[i] = connCh[j] => i = j

\* The conn was not removed from the table yet.
Linked(c) == cpc[c] \in {"open", "accepted", "flagged", "closing", "deleting"} \/ c \in timers

\* With one service: the conns that were not removed are the ones in the table,
\* and the one about to be made has no predecessor there.
LinkInv ==
  /\ \A c \in timers : cpc[c] \in {"draining", "closed"}
  /\ Cardinality(running) = 1 =>
       /\ \A c \in Made : Linked(c) => conns[raddr[c]] = c
       /\ \A v \in running : pc[v] = "insert" => isNew[v] /\ conns[addr[v]] = None

\* A closed socket: the listener is closed and no conn can come to the program.
SocketInv ==
  ~udpOpen => /\ closed
              /\ Cardinality(running) = 1 =>
                   /\ \A c \in Made : cpc[c] # "accepted"
                   /\ \A i \in 1..Len(connCh) : FALSE
                   /\ \A v \in running : pc[v] # "offering"

(***************************************************************************)
(* The services, the conns and the table.                                  *)
(***************************************************************************)

\* There are conns left for one that is made.
LEMMA RoomForConn ==
  ASSUME TypeOK, running # {}, NEW c \in Nat \ {0}, c * Cardinality(running) <= MaxConns
  PROVE  c \in Conns
<1> DEFINE n == Cardinality(running)
<1>1. IsFiniteSet(running)
  BY UdpAssumption, FS_Subset DEF TypeOK
<1>2. n \in Nat /\ n # 0
  BY <1>1, FS_CardinalityType, FS_EmptySet
<1> HIDE DEF n
<1>3. c <= c * n
  BY <1>2
<1>4. c * n <= MaxConns /\ c * n \in Nat
  BY <1>2 DEF n
<1> QED BY <1>3, <1>4, UdpAssumption DEF Conns

\* The conns made are conns.
LEMMA MadeAreConns == ASSUME TypeOK PROVE Made \subseteq Conns
BY UdpAssumption DEF TypeOK, Made, Conns

\* What Insert makes.
Inserted(v, c) ==
  /\ c = Len(raddr) + 1 /\ c \in Conns /\ c \notin Made /\ Made' = Made \cup {c}
  /\ raddr' \in Seq(Peers) /\ Len(raddr') = c /\ raddr'[c] = addr[v]
  /\ \A d \in Made : d \in Conns /\ d # c /\ raddr'[d] = raddr[d]

\* It makes one conn more, for the peer at hand.
LEMMA InsertMakes ==
  ASSUME ServiceInv, NEW v \in Services, Insert(v)
  PROVE  Inserted(v, Len(raddr) + 1)
<1> DEFINE c == Len(raddr) + 1
           n == Cardinality(running)
<1>1. raddr \in Seq(Peers) /\ Len(raddr) \in Nat /\ Len(raddr) <= MaxConns
  BY DEF ServiceInv, TypeOK
<1>2. c \in Nat \ {0} /\ c * n <= MaxConns
  BY <1>1 DEF Insert
<1> HIDE DEF c
<1>3. c \in Conns
  BY <1>2, RoomForConn DEF ServiceInv, n
<1>4. addr[v] \in Peers
  BY DEF ServiceInv, ServiceOK, Holding, Insert, At
<1>5. raddr' = Append(raddr, addr[v])
  BY DEF Insert
<1>6. /\ raddr' \in Seq(Peers) /\ Len(raddr') = Len(raddr) + 1
      /\ \A i \in 1..Len(raddr) : raddr'[i] = raddr[i]
      /\ raddr'[Len(raddr) + 1] = addr[v]
  BY <1>1, <1>4, <1>5, AppendProperties
<1> QED BY <1>1, <1>3, <1>6, UdpAssumption DEF Inserted, Made, Conns, c

\* The services keep the types, first where they move no queue.
LEMMA ServiceTypes ==
  ASSUME ServiceInv, NEW v \in Services, Service(v), ~Insert(v), ~Send(v), ~Steal(v), ~Offering(v)
  PROVE  TypeOK'
<1> USE DEF ServiceInv, TypeOK, At, Goto
<1>1. CASE ReadFrom(v)
  BY <1>1 DEF ReadFrom, connVars, lisVars, Made
<1>2. CASE ReadFails(v)
  BY <1>2 DEF ReadFails, connVars, bufVars, lisVars, Made
<1>3. CASE Lookup(v)
  BY <1>3 DEF Lookup, connVars, bufVars, lisVars, Made, ServiceOK, Holding
<1>4. CASE Put(v)
  BY <1>4 DEF Put, Unused, connVars, lisVars, Made
<1>5. CASE Offer(v)
  BY <1>5 DEF Offer, NextTurn, bufVars, connVars, lisVars, Made
<1>6. CASE SendPanic(v) \/ OfferPanic(v)
  BY <1>6 DEF SendPanic, OfferPanic, Panic, svcVars, bufVars, connVars, lisVars, Made
<1> QED BY <1>1, <1>2, <1>3, <1>4, <1>5, <1>6 DEF Service

\* What a step does to the channel of conn c.
Adds(c, s) == buff' = [buff EXCEPT ![c] = Append(buff[c], s)]
Takes(c) == buff' = [buff EXCEPT ![c] = Tail(buff[c])]

\* A buffer joins the channel of c.
LEMMA BufferJoins ==
  ASSUME buff \in [Conns -> Seq(Segs)], NEW c \in Conns, NEW s \in Segs, Adds(c, s)
  PROVE  /\ buff' \in [Conns -> Seq(Segs)]
         /\ \A d \in Conns : d # c => buff'[d] = buff[d]
         /\ Len(buff'[c]) = Len(buff[c]) + 1 /\ buff'[c][Len(buff[c]) + 1] = s
         /\ \A i \in 1..Len(buff[c]) : buff'[c][i] = buff[c][i]
<1> DEFINE q == buff[c]
           r == Append(q, s)
<1>1. q \in Seq(Segs)
  OBVIOUS
<1> HIDE DEF q
<1>2. /\ r \in Seq(Segs) /\ Len(r) = Len(q) + 1
      /\ \A i \in 1..Len(q) : r[i] = q[i]
      /\ r[Len(q) + 1] = s
  BY <1>1, AppendProperties
<1>3. buff' = [buff EXCEPT ![c] = r]
  BY DEF Adds, q
<1> HIDE DEF r
<1> QED BY <1>2, <1>3 DEF q

\* The first buffer leaves it.
LEMMA BufferLeaves ==
  ASSUME buff \in [Conns -> Seq(Segs)], NEW c \in Conns, buff[c] # <<>>, Takes(c)
  PROVE  /\ buff' \in [Conns -> Seq(Segs)] /\ Len(buff[c]) > 0
         /\ \A d \in Conns : d # c => buff'[d] = buff[d]
         /\ Head(buff[c]) = buff[c][1] /\ Head(buff[c]) \in Segs
         /\ Len(buff'[c]) = Len(buff[c]) - 1
         /\ \A i \in 1..(Len(buff[c]) - 1) : buff'[c][i] = buff[c][i + 1]
<1> DEFINE q == buff[c]
           r == Tail(q)
<1>1. q \in Seq(Segs) /\ Len(q) > 0
  BY EmptySeq
<1> HIDE DEF q
<1>2. /\ r \in Seq(Segs) /\ Len(r) = Len(q) - 1 /\ Head(q) = q[1] /\ Head(q) \in Segs
      /\ \A i \in 1..(Len(q) - 1) : r[i] = q[i + 1]
  BY <1>1, HeadTailProperties, ElementOfSeq
<1>3. buff' = [buff EXCEPT ![c] = r]
  BY DEF Takes, q
<1> HIDE DEF r
<1> QED BY <1>1, <1>2, <1>3 DEF q

\* The channels stay within their capacity when a buffer leaves one.
LEMMA LeavesBounded ==
  ASSUME TypeOK, NEW c \in Conns, buff[c] # <<>>, Takes(c)
  PROVE  /\ buff' \in [Conns -> Seq(Segs)] /\ \A d \in Conns : Len(buff'[d]) <= BuffCap
         /\ Head(buff[c]) \in Segs
<1>1. buff \in [Conns -> Seq(Segs)] /\ Len(buff[c]) \in Nat /\ BuffCap \in Nat
  BY UdpAssumption DEF TypeOK
<1>2. \A d \in Conns : Len(buff[d]) <= BuffCap
  BY DEF TypeOK
<1>3. /\ buff' \in [Conns -> Seq(Segs)] /\ Head(buff[c]) \in Segs
      /\ \A d \in Conns : d # c => buff'[d] = buff[d]
      /\ Len(buff'[c]) = Len(buff[c]) - 1
  BY <1>1, BufferLeaves
<1> QED BY <1>1, <1>2, <1>3

\* And when one joins a channel that is not full.
LEMMA JoinsBounded ==
  ASSUME TypeOK, NEW c \in Conns, NEW s \in Segs, Adds(c, s), Len(buff[c]) < BuffCap
  PROVE  buff' \in [Conns -> Seq(Segs)] /\ \A d \in Conns : Len(buff'[d]) <= BuffCap
<1>1. buff \in [Conns -> Seq(Segs)] /\ Len(buff[c]) \in Nat /\ BuffCap \in Nat
  BY UdpAssumption DEF TypeOK
<1>2. \A d \in Conns : Len(buff[d]) <= BuffCap
  BY DEF TypeOK
<1>3. /\ buff' \in [Conns -> Seq(Segs)]
      /\ \A d \in Conns : d # c => buff'[d] = buff[d]
      /\ Len(buff'[c]) = Len(buff[c]) + 1
  BY <1>1, BufferJoins
<1> QED BY <1>1, <1>2, <1>3

\* The steps of a service that move a queue keep the types.
LEMMA QueueTypes ==
  ASSUME ServiceInv, NEW v \in Services, Insert(v) \/ Send(v) \/ Steal(v) \/ Offering(v)
  PROVE  TypeOK'
<1> USE DEF ServiceInv, TypeOK, At, Goto
<1>1. CASE Insert(v)
  <2>1. PICK c \in Nat : c = Len(raddr) + 1
    OBVIOUS
  <2>2. Inserted(v, c)
    BY <1>1, <2>1, InsertMakes
  <2>3. /\ cpc' = [cpc EXCEPT ![c] = "open"] /\ a' = [a EXCEPT ![v] = c]
        /\ conns' = [conns EXCEPT ![addr[v]] = c]
    BY <1>1, <2>1 DEF Insert
  <2>4. \A d \in Conns : cpc'[d] # "new" <=> d \in Made'
    BY <2>2, <2>3 DEF Inserted
  <2>5. raddr' \in Seq(Peers) /\ Len(raddr') <= MaxConns
    BY <2>2 DEF Inserted, Conns
  <2>6. c \in Conns
    BY <2>2 DEF Inserted
  <2> QED BY <1>1, <2>3, <2>4, <2>5, <2>6 DEF Insert, bufVars, lisVars
<1>2. CASE Send(v)
  <2>1. a[v] \in Conns /\ seg[v] \in Segs
    BY <1>2, MadeAreConns DEF Send, ServiceOK, Serving, Putting, Holding
  <2>2. CASE Len(buff[a[v]]) < BuffCap
    <3>1. Adds(a[v], seg[v])
      BY <1>2, <2>2 DEF Send, Adds
    <3>2. buff' \in [Conns -> Seq(Segs)] /\ \A d \in Conns : Len(buff'[d]) <= BuffCap
      BY <2>1, <2>2, <3>1, JoinsBounded
    <3> QED BY <1>2, <2>2, <3>2 DEF Send, bufVars, lisVars, Made
  <2>3. CASE ~(Len(buff[a[v]]) < BuffCap)
    BY <1>2, <2>3 DEF Send, bufVars, lisVars, Made
  <2> QED BY <2>2, <2>3
<1>3. CASE Steal(v)
  <2>1. a[v] \in Conns /\ seg[v] \in Segs
    BY <1>3, MadeAreConns DEF Steal, ServiceOK, Serving, Putting, Holding
  <2>2. CASE buff[a[v]] = <<>>
    BY <1>3, <2>2 DEF Steal, PutBack, Unused, lisVars, Made
  <2>3. CASE buff[a[v]] # <<>>
    <3>1. Takes(a[v])
      BY <1>3, <2>3 DEF Steal, Takes
    <3>3. /\ buff' \in [Conns -> Seq(Segs)] /\ \A d \in Conns : Len(buff'[d]) <= BuffCap
          /\ Head(buff[a[v]]) \in Segs
      BY <2>1, <2>3, <3>1, LeavesBounded
    <3>4. pool' \in SUBSET Segs /\ data' \in [Segs -> Peers \cup {None}]
      BY <1>3, <2>3, <3>3 DEF Steal, PutBack, Unused
    <3> QED BY <1>3, <3>3, <3>4 DEF Steal, lisVars, Made
  <2> QED BY <2>2, <2>3
<1>4. CASE Offering(v)
  <2>1. a[v] \in Conns
    BY <1>4, MadeAreConns DEF Offering, ServiceOK, Serving, Putting
  <2>2. Append(connCh, a[v]) \in Seq(Conns)
    BY <2>1, AppendProperties
  <2>3. connCh' \in Seq(Conns)
    BY <1>4, <2>2 DEF Offering
  <2> QED BY <1>4, <2>3 DEF Offering, NextTurn, bufVars, connVars, Made
<1> QED BY <1>1, <1>2, <1>3, <1>4

\* The program keeps the types.
LEMMA ProgramTypes ==
  ASSUME ServiceInv, Accept \/ Close \/ CloseCh \/ \E c \in Conns : AcceptConn(c),
         \A i \in 1..Len(connCh) : connCh[i] \in Made
  PROVE  TypeOK'
<1> USE DEF ServiceInv, TypeOK
<1>1. CASE Accept
  <2>1. Head(connCh) \in Made /\ Tail(connCh) \in Seq(Conns)
    <3>1. Len(connCh) > 0 /\ 1 \in 1..Len(connCh)
      BY <1>1, EmptySeq DEF Accept
    <3> QED BY <3>1, HeadTailProperties, ElementOfSeq
  <2> QED BY <1>1, <2>1 DEF Accept, svcVars, bufVars, Made
<1>2. CASE Close \/ CloseCh
  BY <1>2 DEF Close, CloseCh, svcVars, bufVars, connVars, Made
<1>3. ASSUME NEW c \in Conns, Read(c) PROVE TypeOK'
  <2>1. Takes(c)
    BY <1>3 DEF Read, Takes
  <2>2. /\ buff' \in [Conns -> Seq(Segs)] /\ \A d \in Conns : Len(buff'[d]) <= BuffCap
        /\ Head(buff[c]) \in Segs
    BY <1>3, <2>1, LeavesBounded DEF Read
  <2> QED BY <1>3, <2>2 DEF Read, svcVars, bufVars, lisVars, Made
<1>4. ASSUME NEW c \in Conns, ReadDone(c) PROVE TypeOK'
  BY <1>4 DEF ReadDone, PutBack, Unused, svcVars, lisVars, Made
<1>5. ASSUME NEW c \in Conns, CloseFlag(c) \/ CloseBuff(c) PROVE TypeOK'
  BY <1>5 DEF CloseFlag, CloseBuff, CGoto, svcVars, bufVars, lisVars, Made
<1>6. ASSUME NEW c \in Conns, Del(c) PROVE TypeOK'
  <2>1. cpc[c] = "closing" /\ timers' \in SUBSET Conns
    BY <1>6 DEF Del
  <2>2. PICK w \in {"deleting", "draining"} : cpc' = [cpc EXCEPT ![c] = w]
    BY <1>6 DEF Del, CGoto
  <2> QED BY <1>6, <2>1, <2>2 DEF Del, svcVars, bufVars, lisVars, Made
<1>7. ASSUME NEW c \in Conns, DelEntry(c) PROVE TypeOK'
  BY <1>7 DEF DelEntry, _del, CGoto, svcVars, bufVars, lisVars, Made
<1>8. ASSUME NEW c \in Conns, DelTimer(c) PROVE TypeOK'
  BY <1>8 DEF DelTimer, _del, svcVars, bufVars, connVars, lisVars, Made
<1>9. ASSUME NEW c \in Conns, Drain(c) PROVE TypeOK'
  <2>1. \A i \in 1..Len(buff[c]) : buff[c][i] \in Segs
    BY ElementOfSeq
  <2>2. buff' \in [Conns -> Seq(Segs)] /\ \A d \in Conns : Len(buff'[d]) <= BuffCap
    BY <1>9, UdpAssumption DEF Drain
  <2> QED BY <1>9, <2>1, <2>2 DEF Drain, PutBack, Unused, CGoto, svcVars, lisVars, Made
<1> QED BY <1>1, <1>2, <1>3, <1>4, <1>5, <1>6, <1>7, <1>8, <1>9 DEF AcceptConn

(***************************************************************************)
(* The owner of each buffer.                                               *)
(***************************************************************************)

\* BuffersOwnedOnce, place by place.
SegOnce == \A v, w \in Services : seg[v] # None /\ seg[v] = seg[w] => v = w
RdOnce == \A c, d \in Conns : rd[c] # None /\ rd[c] = rd[d] => c = d
BuffOnce == \A c, d \in Conns : \A i \in 1..Len(buff[c]), j \in 1..Len(buff[d]) :
              buff[c][i] = buff[d][j] => c = d /\ i = j
SegNotRd == \A c \in Conns, v \in Services : seg[v] # None => seg[v] # rd[c]
BuffNotRd == \A c, d \in Conns : \A i \in 1..Len(buff[c]) : buff[c][i] # rd[d]
BuffNotSeg == \A c \in Conns, v \in Services : \A i \in 1..Len(buff[c]) : buff[c][i] # seg[v]
PoolFree == /\ \A v \in Services : seg[v] \notin pool
            /\ \A c \in Conns : rd[c] \notin pool
            /\ \A c \in Conns : \A i \in 1..Len(buff[c]) : buff[c][i] \notin pool
OwnedOnce == SegOnce /\ RdOnce /\ BuffOnce /\ SegNotRd /\ BuffNotRd /\ BuffNotSeg /\ PoolFree

\* The two say the same, as the listener has a service.
LEMMA OwnedOnceIs == ASSUME Services # {} PROVE BuffersOwnedOnce <=> OwnedOnce
<1>1. pool \cap InUse = {} <=> PoolFree
  BY DEF InUse, PoolFree
<1>2. BuffersOwnedOnce => OwnedOnce
  BY <1>1 DEF BuffersOwnedOnce, OwnedOnce, SegOnce, RdOnce, BuffOnce, SegNotRd, BuffNotRd, BuffNotSeg
<1>3. OwnedOnce => BuffersOwnedOnce
  BY <1>1 DEF BuffersOwnedOnce, OwnedOnce, SegOnce, RdOnce, BuffOnce, SegNotRd, BuffNotRd, BuffNotSeg
<1> QED BY <1>2, <1>3

\* A buffer that a service may take is nobody's.
LEMMA FreeBuffer ==
  ASSUME OwnedOnce, NEW s \in pool \cup (Segs \ InUse)
  PROVE  /\ \A v \in Services : seg[v] # s
         /\ \A c \in Conns : rd[c] # s
         /\ \A c \in Conns : \A i \in 1..Len(buff[c]) : buff[c][i] # s
BY DEF OwnedOnce, PoolFree, InUse

\* Two places with the same buffer are one place.
LEMMA OnePlace ==
  ASSUME OwnedOnce, NEW c \in Conns, NEW d \in Conns, NEW i \in 1..Len(buff[c]),
         NEW j \in 1..Len(buff[d]), buff[c][i] = buff[d][j]
  PROVE  c = d /\ i = j
BY Zenon DEF OwnedOnce, BuffOnce

\* The buffer that leaves a channel is on no channel any more, and the others are
\* where they were, one place up.
LEMMA HeadLeaves ==
  ASSUME buff \in [Conns -> Seq(Segs)], OwnedOnce, NEW c \in Conns, buff[c] # <<>>, Takes(c)
  PROVE  /\ 1 \in 1..Len(buff[c]) /\ Head(buff[c]) = buff[c][1] /\ Head(buff[c]) \in Segs
         /\ \A d \in Conns : \A i \in 1..Len(buff'[d]) :
              /\ \E j \in 1..Len(buff[d]) : buff'[d][i] = buff[d][j]
              /\ buff'[d][i] # Head(buff[c])
         /\ BuffOnce'
<1>1. /\ Len(buff[c]) > 0
      /\ \A d \in Conns : d # c => buff'[d] = buff[d]
      /\ Head(buff[c]) = buff[c][1] /\ Head(buff[c]) \in Segs
      /\ Len(buff'[c]) = Len(buff[c]) - 1
      /\ \A i \in 1..(Len(buff[c]) - 1) : buff'[c][i] = buff[c][i + 1]
  BY BufferLeaves
<1>2. \A d \in Conns : Len(buff[d]) \in Nat
  OBVIOUS
<1>3. 1 \in 1..Len(buff[c])
  BY <1>1, <1>2
<1>4. \A i \in 1..Len(buff'[c]) : i \in Nat /\ i + 1 \in 1..Len(buff[c]) /\ i + 1 # 1 /\ buff'[c][i] = buff[c][i + 1]
  BY <1>1, <1>2
<1>5. \A d \in Conns \ {c} : buff'[d] = buff[d]
  BY <1>1
<1>6. ASSUME NEW d \in Conns, NEW i \in 1..Len(buff'[d])
      PROVE  /\ \E j \in 1..Len(buff[d]) : buff'[d][i] = buff[d][j]
             /\ buff'[d][i] # Head(buff[c])
  <2>1. CASE d = c
    <3>1. i + 1 \in 1..Len(buff[c]) /\ i + 1 # 1 /\ buff'[c][i] = buff[c][i + 1]
      BY <1>4, <2>1
    <3>2. buff[c][i + 1] # buff[c][1]
      BY <1>3, <3>1, OnePlace
    <3> QED BY <1>1, <2>1, <3>1, <3>2
  <2>2. CASE d # c
    BY <1>1, <1>3, <1>5, <2>2 DEF OwnedOnce, BuffOnce
  <2> QED BY <2>1, <2>2
<1>7. BuffOnce'
  <2> SUFFICES ASSUME NEW d \in Conns, NEW e \in Conns, NEW i \in 1..Len(buff'[d]),
                      NEW j \in 1..Len(buff'[e]), buff'[d][i] = buff'[e][j]
               PROVE  d = e /\ i = j
    BY DEF BuffOnce
  <2>1. PICK k \in 1..Len(buff[d]) : buff'[d][i] = buff[d][k] /\ k = IF d = c THEN i + 1 ELSE i
    BY <1>4, <1>5
  <2>2. PICK l \in 1..Len(buff[e]) : buff'[e][j] = buff[e][l] /\ l = IF e = c THEN j + 1 ELSE j
    BY <1>4, <1>5
  <2>3. buff[d][k] = buff[e][l]
    BY <2>1, <2>2
  <2>4. d = e /\ k = l
    BY <2>3, OnePlace
  <2> QED BY <2>1, <2>2, <2>4
<1> QED BY <1>1, <1>3, <1>6, <1>7

\* No buffer gets a second owner: the services.
LEMMA ServiceOwns ==
  ASSUME ServiceInv, OwnedOnce, NEW v \in Services, Service(v)
  PROVE  OwnedOnce'
<1>0. /\ seg \in [Services -> Segs \cup {None}] /\ rd \in [Conns -> Segs \cup {None}]
      /\ buff \in [Conns -> Seq(Segs)] /\ pool \in SUBSET Segs
      /\ Made \subseteq Conns /\ None \notin Segs
  BY UdpAssumption, MadeAreConns DEF ServiceInv, TypeOK
<1>8. pc[v] \in Putting => a[v] \in Conns /\ seg[v] \in Segs
  BY <1>0 DEF ServiceInv, ServiceOK, Serving, Putting, Holding
<1>1. ASSUME UNCHANGED <<seg, rd, buff, pool>> PROVE OwnedOnce'
  BY <1>1 DEF OwnedOnce, SegOnce, RdOnce, BuffOnce, SegNotRd, BuffNotRd, BuffNotSeg, PoolFree
<1>2. CASE ReadFrom(v)
  <2>1. PICK s \in pool \cup (Segs \ InUse) : pool' = pool \ {s} /\ seg' = [seg EXCEPT ![v] = s]
    BY <1>2 DEF ReadFrom
  <2>2. buff' = buff /\ rd' = rd
    BY <1>2 DEF ReadFrom, connVars
  <2>3. /\ \A w \in Services : seg[w] # s
        /\ \A c \in Conns : rd[c] # s
        /\ \A c \in Conns : \A i \in 1..Len(buff[c]) : buff[c][i] # s
    BY FreeBuffer
  <2>4. SegOnce' /\ RdOnce' /\ BuffOnce'
    BY <1>0, <2>1, <2>2, <2>3 DEF OwnedOnce, SegOnce, RdOnce, BuffOnce
  <2>5. SegNotRd' /\ BuffNotRd' /\ BuffNotSeg'
    BY <1>0, <2>1, <2>2, <2>3 DEF OwnedOnce, SegNotRd, BuffNotRd, BuffNotSeg
  <2>6. PoolFree'
    BY <1>0, <2>1, <2>2, <2>3 DEF OwnedOnce, PoolFree
  <2> QED BY <2>4, <2>5, <2>6 DEF OwnedOnce
<1>3. CASE ReadFails(v) \/ Lookup(v) \/ Insert(v) \/ SendPanic(v) \/ Offer(v) \/ Offering(v) \/ OfferPanic(v)
  BY <1>1, <1>3 DEF ReadFails, Lookup, Insert, SendPanic, Offer, Offering, OfferPanic, Panic,
                    svcVars, bufVars, connVars
\* A buffer that a service lets go of.
<1>4. ASSUME seg' = [seg EXCEPT ![v] = None], UNCHANGED <<rd, buff, pool>> PROVE OwnedOnce'
  <2>1. \A c \in Conns : \A i \in 1..Len(buff[c]) : buff[c][i] # None
    BY <1>0, ElementOfSeq
  <2>2. None \notin pool
    BY <1>0
  <2>3. SegOnce' /\ RdOnce' /\ BuffOnce' /\ SegNotRd' /\ BuffNotRd' /\ BuffNotSeg'
    BY <1>0, <1>4, <2>1 DEF OwnedOnce, SegOnce, RdOnce, BuffOnce, SegNotRd, BuffNotRd, BuffNotSeg
  <2>4. PoolFree'
    BY <1>0, <1>4, <2>2 DEF OwnedOnce, PoolFree
  <2> QED BY <2>3, <2>4 DEF OwnedOnce
<1>5. CASE Put(v)
  BY <1>1, <1>4, <1>5 DEF Put, connVars
<1>6. CASE Send(v)
  <2> DEFINE c == a[v]
             s == seg[v]
  <2>1. c \in Conns /\ s \in Segs /\ s # None
    BY <1>0, <1>8, <1>6 DEF Send, At, Putting
  <2>2. CASE ~(Len(buff[c]) < BuffCap)
    BY <1>1, <1>6, <2>2 DEF Send, bufVars
  <2>3. CASE Len(buff[c]) < BuffCap
    <3>1. Adds(c, s) /\ seg' = [seg EXCEPT ![v] = None] /\ rd' = rd /\ pool' = pool
      BY <1>6, <2>3 DEF Send, Adds, bufVars
    <3> HIDE DEF c, s
    <3>2. /\ \A d \in Conns : d # c => buff'[d] = buff[d]
          /\ Len(buff'[c]) = Len(buff[c]) + 1 /\ buff'[c][Len(buff[c]) + 1] = s
          /\ \A i \in 1..Len(buff[c]) : buff'[c][i] = buff[c][i]
      BY <1>0, <2>1, <3>1, BufferJoins
    <3>3. \A d \in Conns : Len(buff[d]) \in Nat
      BY <1>0
    \* Each place of a channel is an old one or the new one.
    <3>4. \A d \in Conns : \A i \in 1..Len(buff'[d]) :
            \/ i \in 1..Len(buff[d]) /\ buff'[d][i] = buff[d][i]
            \/ d = c /\ i = Len(buff[c]) + 1 /\ buff'[d][i] = s
      BY <3>2, <3>3
    <3>5. \A w \in Services : seg'[w] # s /\ (seg'[w] = seg[w] \/ seg'[w] = None)
      BY <1>0, <2>1, <3>1 DEF OwnedOnce, SegOnce, s
    <3>6. /\ \A d \in Conns : rd[d] # s
          /\ \A d \in Conns : \A i \in 1..Len(buff[d]) : buff[d][i] # s
          /\ s \notin pool
      BY <2>1 DEF OwnedOnce, SegNotRd, BuffNotSeg, PoolFree, s
    <3>7. \A d \in Conns : \A i \in 1..Len(buff[d]) : buff[d][i] # None
      BY <1>0, ElementOfSeq
    <3>8. BuffOnce'
      <4> SUFFICES ASSUME NEW d \in Conns, NEW e \in Conns, NEW i \in 1..Len(buff'[d]),
                          NEW j \in 1..Len(buff'[e]), buff'[d][i] = buff'[e][j]
                   PROVE  d = e /\ i = j
        BY DEF BuffOnce
      <4>1. CASE i \in 1..Len(buff[d]) /\ buff'[d][i] = buff[d][i]
        <5>1. j \in 1..Len(buff[e]) /\ buff'[e][j] = buff[e][j]
          BY <3>4, <3>6, <4>1
        <5>2. buff[d][i] = buff[e][j]
          BY <4>1, <5>1
        <5> QED BY <4>1, <5>1, <5>2, OnePlace
      <4>2. CASE d = c /\ i = Len(buff[c]) + 1 /\ buff'[d][i] = s
        <5>1. e = c /\ j = Len(buff[c]) + 1
          BY <3>4, <3>6, <4>2
        <5> QED BY <4>2, <5>1
      <4> QED BY <3>4, <4>1, <4>2
    <3>9. SegOnce' /\ RdOnce' /\ SegNotRd'
      BY <1>0, <3>1 DEF OwnedOnce, SegOnce, RdOnce, SegNotRd
    <3>10. BuffNotRd'
      BY <3>1, <3>4, <3>6 DEF OwnedOnce, BuffNotRd
    <3>11. BuffNotSeg'
      BY <3>4, <3>5, <3>7 DEF OwnedOnce, BuffNotSeg
    <3>12. PoolFree'
      <4>1. None \notin pool
        BY <1>0
      <4> QED BY <3>1, <3>4, <3>5, <3>6, <4>1 DEF OwnedOnce, PoolFree
    <3> QED BY <3>8, <3>9, <3>10, <3>11, <3>12 DEF OwnedOnce
  <2> QED BY <2>2, <2>3
<1>7. CASE Steal(v)
  <2> DEFINE c == a[v]
  <2>1. c \in Conns
    BY <1>8, <1>7 DEF Steal, At, Putting
  <2>2. seg' = seg /\ rd' = rd
    BY <1>7 DEF Steal
  <2>3. CASE buff[c] = <<>>
    <3>1. buff' = buff /\ pool' = pool
      BY <1>0, <1>7, <2>3 DEF Steal, PutBack
    <3> QED BY <1>1, <2>2, <3>1
  <2>4. CASE buff[c] # <<>>
    <3>1. Takes(c) /\ pool' = pool \cup ({Head(buff[c])} \ {None})
      BY <1>7, <2>4 DEF Steal, Takes, PutBack
    <3> HIDE DEF c
    <3>2. /\ 1 \in 1..Len(buff[c]) /\ Head(buff[c]) = buff[c][1] /\ Head(buff[c]) \in Segs
          /\ \A d \in Conns : \A i \in 1..Len(buff'[d]) :
               /\ \E j \in 1..Len(buff[d]) : buff'[d][i] = buff[d][j]
               /\ buff'[d][i] # Head(buff[c])
          /\ BuffOnce'
      BY <1>0, <2>1, <2>4, <3>1, HeadLeaves
    <3>3. SegOnce' /\ RdOnce' /\ SegNotRd'
      BY <2>2 DEF OwnedOnce, SegOnce, RdOnce, SegNotRd
    <3>4. BuffNotRd' /\ BuffNotSeg'
      <4> SUFFICES ASSUME NEW d \in Conns, NEW i \in 1..Len(buff'[d])
                   PROVE  /\ \A e \in Conns : buff'[d][i] # rd'[e]
                          /\ \A w \in Services : buff'[d][i] # seg'[w]
        BY DEF BuffNotRd, BuffNotSeg
      <4>1. PICK j \in 1..Len(buff[d]) : buff'[d][i] = buff[d][j]
        BY <3>2
      <4> QED BY <2>2, <4>1 DEF OwnedOnce, BuffNotRd, BuffNotSeg
    <3>5. PoolFree'
      <4>1. /\ \A w \in Services : seg[w] # Head(buff[c])
            /\ \A d \in Conns : rd[d] # Head(buff[c])
        BY <2>1, <3>2 DEF OwnedOnce, BuffNotRd, BuffNotSeg
      <4>2. ASSUME NEW d \in Conns, NEW i \in 1..Len(buff'[d]) PROVE buff'[d][i] \notin pool'
        <5>1. PICK j \in 1..Len(buff[d]) : buff'[d][i] = buff[d][j]
          BY <3>2
        <5>2. buff'[d][i] # Head(buff[c]) /\ buff[d][j] \notin pool
          BY <3>2 DEF OwnedOnce, PoolFree
        <5> QED BY <3>1, <5>1, <5>2
      <4>3. /\ \A w \in Services : seg'[w] \notin pool'
            /\ \A d \in Conns : rd'[d] \notin pool'
        BY <2>2, <3>1, <4>1 DEF OwnedOnce, PoolFree
      <4> QED BY <4>2, <4>3 DEF PoolFree
    <3> QED BY <3>2, <3>3, <3>4, <3>5 DEF OwnedOnce
  <2> QED BY <2>3, <2>4
<1> QED BY <1>2, <1>3, <1>5, <1>6, <1>7 DEF Service

\* No buffer gets a second owner: the program.
LEMMA ProgramOwns ==
  ASSUME ServiceInv, OwnedOnce, Accept \/ Close \/ CloseCh \/ \E c \in Conns : AcceptConn(c)
  PROVE  OwnedOnce'
<1>0. /\ seg \in [Services -> Segs \cup {None}] /\ rd \in [Conns -> Segs \cup {None}]
      /\ buff \in [Conns -> Seq(Segs)] /\ pool \in SUBSET Segs
  BY DEF ServiceInv, TypeOK
<1>1. ASSUME UNCHANGED <<seg, rd, buff, pool>> PROVE OwnedOnce'
  BY <1>1 DEF OwnedOnce, SegOnce, RdOnce, BuffOnce, SegNotRd, BuffNotRd, BuffNotSeg, PoolFree
<1>2. CASE Accept \/ Close \/ CloseCh
  BY <1>1, <1>2 DEF Accept, Close, CloseCh, svcVars, bufVars, connVars
<1>3. ASSUME NEW c \in Conns,
             CloseFlag(c) \/ CloseBuff(c) \/ Del(c) \/ DelEntry(c) \/ DelTimer(c)
      PROVE  OwnedOnce'
  BY <1>1, <1>3 DEF CloseFlag, CloseBuff, Del, DelEntry, DelTimer, svcVars, bufVars, connVars
<1>4. \A d \in Conns : \A i \in 1..Len(buff[d]) : buff[d][i] # None
  BY <1>0, ElementOfSeq, UdpAssumption
<1>5. None \notin pool
  BY <1>0, UdpAssumption
<1>6. ASSUME NEW c \in Conns, Read(c) PROVE OwnedOnce'
  <2>1. Takes(c) /\ buff[c] # <<>> /\ rd' = [rd EXCEPT ![c] = Head(buff[c])] /\ seg' = seg /\ pool' = pool
    BY <1>6 DEF Read, Takes, svcVars, bufVars
  <2>2. /\ 1 \in 1..Len(buff[c]) /\ Head(buff[c]) = buff[c][1] /\ Head(buff[c]) \in Segs
        /\ \A d \in Conns : \A i \in 1..Len(buff'[d]) :
             /\ \E j \in 1..Len(buff[d]) : buff'[d][i] = buff[d][j]
             /\ buff'[d][i] # Head(buff[c])
        /\ BuffOnce'
    BY <1>0, <2>1, HeadLeaves
  <2>3. /\ \A w \in Services : seg[w] # Head(buff[c])
        /\ \A d \in Conns : rd[d] # Head(buff[c])
        /\ Head(buff[c]) \notin pool
    BY <2>2 DEF OwnedOnce, BuffNotRd, BuffNotSeg, PoolFree
  <2>4. \A d \in Conns : rd'[d] = IF d = c THEN Head(buff[c]) ELSE rd[d]
    BY <1>0, <2>1
  <2>5. SegOnce' /\ RdOnce' /\ SegNotRd'
    BY <2>1, <2>3, <2>4 DEF OwnedOnce, SegOnce, RdOnce, SegNotRd
  <2>6. BuffNotRd' /\ BuffNotSeg'
    <3>1. seg' = seg
      BY <2>1
    <3> SUFFICES ASSUME NEW d \in Conns, NEW i \in 1..Len(buff'[d])
                 PROVE  /\ \A e \in Conns : buff'[d][i] # rd'[e]
                        /\ \A w \in Services : buff'[d][i] # seg'[w]
      BY DEF BuffNotRd, BuffNotSeg
    <3>2. PICK j \in 1..Len(buff[d]) : buff'[d][i] = buff[d][j]
      BY <2>2
    <3> QED BY <2>2, <2>4, <3>1, <3>2 DEF OwnedOnce, BuffNotRd, BuffNotSeg
  <2>7. PoolFree'
    <3>1. seg' = seg /\ pool' = pool
      BY <2>1
    <3>2. ASSUME NEW d \in Conns, NEW i \in 1..Len(buff'[d]) PROVE buff'[d][i] \notin pool
      <4>1. PICK j \in 1..Len(buff[d]) : buff'[d][i] = buff[d][j]
        BY <2>2
      <4> QED BY <4>1 DEF OwnedOnce, PoolFree
    <3>3. \A d \in Conns : rd'[d] \notin pool
      BY <2>3, <2>4 DEF OwnedOnce, PoolFree
    <3> QED BY <3>1, <3>2, <3>3 DEF OwnedOnce, PoolFree
  <2> QED BY <2>2, <2>5, <2>6, <2>7 DEF OwnedOnce
<1>7. ASSUME NEW c \in Conns, ReadDone(c) PROVE OwnedOnce'
  <2>1. /\ rd[c] # None /\ rd' = [rd EXCEPT ![c] = None] /\ seg' = seg /\ buff' = buff
        /\ pool' = pool \cup ({rd[c]} \ {None})
    BY <1>7 DEF ReadDone, PutBack, svcVars
  <2>2. RdOnce' /\ SegOnce' /\ BuffOnce' /\ SegNotRd' /\ BuffNotRd' /\ BuffNotSeg'
    BY <1>0, <1>4, <2>1 DEF OwnedOnce, SegOnce, RdOnce, BuffOnce, SegNotRd, BuffNotRd, BuffNotSeg
  <2>3. PoolFree'
    <3>1. /\ \A w \in Services : seg[w] # rd[c]
          /\ \A d \in Conns : rd'[d] # rd[c] /\ rd'[d] \in {rd[d], None}
          /\ \A d \in Conns : \A i \in 1..Len(buff[d]) : buff[d][i] # rd[c]
      BY <1>0, <2>1 DEF OwnedOnce, SegNotRd, RdOnce, BuffNotRd
    <3> QED BY <1>5, <2>1, <3>1 DEF OwnedOnce, PoolFree
  <2> QED BY <2>2, <2>3 DEF OwnedOnce
<1>8. ASSUME NEW c \in Conns, Drain(c) PROVE OwnedOnce'
  <2> DEFINE S == {buff[c][i] : i \in 1..Len(buff[c])}
  <2>1. rd' = rd /\ seg' = seg /\ buff' = [buff EXCEPT ![c] = <<>>] /\ pool' = pool \cup (S \ {None})
    BY <1>8 DEF Drain, PutBack, svcVars
  <2>2. \A d \in Conns : \A i \in 1..Len(buff'[d]) : d # c /\ i \in 1..Len(buff[d]) /\ buff'[d][i] = buff[d][i]
    <3>1. \A d \in Conns : buff'[d] = IF d = c THEN <<>> ELSE buff[d]
      BY <1>0, <2>1
    <3>2. \A i \in 1..Len(buff'[c]) : FALSE
      BY <3>1
    <3> QED BY <3>1, <3>2
  <2>3. RdOnce' /\ SegOnce' /\ BuffOnce' /\ SegNotRd' /\ BuffNotRd' /\ BuffNotSeg'
    BY <2>1, <2>2 DEF OwnedOnce, SegOnce, RdOnce, BuffOnce, SegNotRd, BuffNotRd, BuffNotSeg
  <2>4. PoolFree'
    <3>1. /\ \A w \in Services : seg[w] \notin S
          /\ \A d \in Conns : rd[d] \notin S
          /\ \A d \in Conns : \A i \in 1..Len(buff'[d]) : buff'[d][i] \notin S
      BY <2>2 DEF OwnedOnce, BuffNotSeg, BuffNotRd, BuffOnce
    <3> HIDE DEF S
    <3> QED BY <2>1, <2>2, <3>1 DEF OwnedOnce, PoolFree
  <2> QED BY <2>3, <2>4 DEF OwnedOnce
<1> QED BY <1>2, <1>3, <1>6, <1>7, <1>8 DEF AcceptConn

(***************************************************************************)
(* What the services hold, and what the buffers hold.                      *)
(***************************************************************************)

\* The conns stay as they are.
Old == Made \subseteq Made' /\ \A d \in Made : raddr'[d] = raddr[d]

\* A service whose buffer is left alone stays as it is.
LEMMA ServiceStays ==
  ASSUME NEW w \in Services, ServiceOK(w), Old,
         pc'[w] = pc[w] /\ seg'[w] = seg[w] /\ addr'[w] = addr[w] /\ a'[w] = a[w],
         seg[w] \in Segs => data'[seg[w]] = data[seg[w]]
  PROVE  ServiceOK(w)'
BY DEF ServiceOK, Old, Serving

\* The steps of service v keep what the services hold.
LEMMA ServicesKeep ==
  ASSUME ServiceInv, OwnedOnce, NEW v \in Services, Service(v)
  PROVE  Old /\ \A w \in Services : ServiceOK(w)'
<1>0. /\ pc \in [Services -> {"read", "lookup", "insert", "put", "send", "steal", "offer", "offering", "done"}]
      /\ seg \in [Services -> Segs \cup {None}] /\ addr \in [Services -> Peers \cup {None}]
      /\ a \in [Services -> Conns \cup {None}] /\ data \in [Segs -> Peers \cup {None}]
      /\ Made \subseteq Conns /\ None \notin Segs /\ pool \in SUBSET Segs
      /\ conns \in [Peers -> Conns \cup {None}] /\ buff \in [Conns -> Seq(Segs)]
  BY UdpAssumption, MadeAreConns DEF ServiceInv, TypeOK
<1>1. \A w \in Services : ServiceOK(w)
  BY DEF ServiceInv
<1>2. TableOK
  BY DEF ServiceInv
<1> USE DEF At, Goto
<1>3. CASE ReadFrom(v)
  <2>1. PICK s \in pool \cup (Segs \ InUse), p \in Peers :
          data' = [data EXCEPT ![s] = p] /\ seg' = [seg EXCEPT ![v] = s] /\ addr' = [addr EXCEPT ![v] = p]
    BY <1>3 DEF ReadFrom
  <2>2. s \in Segs /\ \A w \in Services : seg[w] # s
    BY <1>0, FreeBuffer
  <2>3. Old /\ pc' = [pc EXCEPT ![v] = "lookup"] /\ a' = a
    BY <1>3 DEF ReadFrom, connVars, Old, Made
  <2>4. ServiceOK(v)'
    BY <1>0, <2>1, <2>2, <2>3 DEF ServiceOK, Holding, Serving, Putting
  <2>5. ASSUME NEW w \in Services, w # v PROVE ServiceOK(w)'
    BY <1>0, <1>1, <2>1, <2>2, <2>3, <2>5, ServiceStays
  <2> QED BY <2>3, <2>4, <2>5
<1>4. CASE ReadFails(v) \/ Lookup(v) \/ Offer(v) \/ Offering(v) \/ SendPanic(v) \/ OfferPanic(v)
  <2>1. Old /\ seg' = seg /\ data' = data
    BY <1>4 DEF ReadFails, Lookup, Offer, Offering, SendPanic, OfferPanic, Panic, svcVars, bufVars,
                connVars, Old, Made
  <2>2. ServiceOK(v)
    BY <1>1
  <2>3. CASE ReadFails(v)
    <3>1. pc' = [pc EXCEPT ![v] = "done"] /\ addr' = addr /\ a' = a /\ pc[v] = "read"
      BY <2>3 DEF ReadFails
    <3>2. ServiceOK(v)'
      BY <1>0, <2>1, <2>2, <3>1 DEF ServiceOK, Holding, Serving, Putting
    <3> QED BY <1>0, <1>1, <2>1, <3>1, <3>2, ServiceStays
  <2>4. CASE Lookup(v)
    <3>1. PICK c \in Conns \cup {None} : c = conns[addr[v]]
      BY <1>0, <2>2, <2>4 DEF Lookup, ServiceOK, Holding
    <3>2. /\ pc[v] = "lookup" /\ a' = [a EXCEPT ![v] = c] /\ addr' = addr
          /\ pc' = [pc EXCEPT ![v] = IF c = None THEN "insert" ELSE "put"]
      BY <2>4, <3>1 DEF Lookup
    <3>3. seg[v] \in Segs /\ addr[v] \in Peers /\ data[seg[v]] = addr[v]
      BY <2>2, <3>2 DEF ServiceOK, Holding
    <3>4. c # None => c \in Made /\ raddr[c] = addr[v]
      BY <1>2, <3>1, <3>3 DEF TableOK
    <3>5. ServiceOK(v)'
      <4>1. CASE c = None
        BY <1>0, <2>1, <3>2, <3>3, <4>1 DEF ServiceOK, Holding, Serving, Putting
      <4>2. CASE c # None
        BY <1>0, <2>1, <3>2, <3>3, <3>4, <4>2 DEF ServiceOK, Holding, Serving, Putting, Old
      <4> QED BY <4>1, <4>2
    <3> QED BY <1>0, <1>1, <2>1, <3>2, <3>5, ServiceStays
  <2>5. CASE Offer(v) \/ Offering(v)
    <3>1. /\ pc[v] \in {"offer", "offering"}
          /\ \/ pc' = [pc EXCEPT ![v] = "offering"] /\ UNCHANGED <<addr, a>>
             \/ /\ pc' = [pc EXCEPT ![v] = "read"]
                /\ addr' = [addr EXCEPT ![v] = None] /\ a' = [a EXCEPT ![v] = None]
      BY <2>5 DEF Offer, Offering, NextTurn
    <3>2. ServiceOK(v)'
      BY <1>0, <2>1, <2>2, <3>1 DEF ServiceOK, Holding, Serving, Putting, Old
    <3>3. ASSUME NEW w \in Services, w # v PROVE ServiceOK(w)'
      <4>1. pc'[w] = pc[w] /\ seg'[w] = seg[w] /\ addr'[w] = addr[w] /\ a'[w] = a[w]
        BY <1>0, <2>1, <3>1, <3>3
      <4> QED BY <1>1, <2>1, <4>1, ServiceStays
    <3> QED BY <2>1, <3>2, <3>3
  <2>6. CASE SendPanic(v) \/ OfferPanic(v)
    <3>1. pc' = pc /\ addr' = addr /\ a' = a
      BY <2>6 DEF SendPanic, OfferPanic, Panic, svcVars
    <3> QED BY <1>1, <2>1, <3>1, ServiceStays
  <2> QED BY <1>4, <2>3, <2>4, <2>5, <2>6
<1>5. CASE Insert(v)
  <2>1. PICK c \in Nat : c = Len(raddr) + 1 /\ Inserted(v, c)
    <3>1. Len(raddr) + 1 \in Nat
      BY DEF ServiceInv, TypeOK
    <3> QED BY <1>5, <3>1, InsertMakes
  <2>2. /\ pc[v] = "insert" /\ pc' = [pc EXCEPT ![v] = "put"] /\ a' = [a EXCEPT ![v] = c]
        /\ seg' = seg /\ addr' = addr /\ data' = data
    BY <1>5, <2>1 DEF Insert, bufVars
  <2>3. Old
    BY <2>1 DEF Inserted, Old
  <2>4. ServiceOK(v)'
    BY <1>0, <1>1, <2>1, <2>2 DEF ServiceOK, Holding, Serving, Putting, Inserted
  <2> QED BY <1>0, <1>1, <2>2, <2>3, <2>4, ServiceStays
<1>6. CASE Put(v)
  <2>1. /\ pc[v] = "put" /\ addr' = addr /\ a' = a /\ Old
        /\ \/ pc' = [pc EXCEPT ![v] = "send"] /\ UNCHANGED <<seg, data>>
           \/ /\ pc' = [pc EXCEPT ![v] = "offer"] /\ seg' = [seg EXCEPT ![v] = None]
              /\ data' = [s \in Segs |-> IF s \in {seg[v]} THEN None ELSE data[s]]
    BY <1>6 DEF Put, Unused, connVars, Old, Made
  <2>2. ServiceOK(v)'
    BY <1>0, <1>1, <2>1 DEF ServiceOK, Holding, Serving, Putting, Old
  <2>3. ASSUME NEW w \in Services, w # v PROVE ServiceOK(w)'
    <3>1. pc'[w] = pc[w] /\ seg'[w] = seg[w]
      BY <1>0, <2>1, <2>3
    <3>2. seg[w] \in Segs => seg[w] # seg[v]
      BY <1>0, <2>3 DEF OwnedOnce, SegOnce
    <3>3. seg[w] \in Segs => data'[seg[w]] = data[seg[w]]
      BY <1>0, <2>1, <3>2
    <3> QED BY <1>1, <2>1, <3>1, <3>3, ServiceStays
  <2> QED BY <2>1, <2>2, <2>3
<1>7. CASE Send(v)
  <2>1. /\ pc[v] = "send" /\ addr' = addr /\ a' = a /\ data' = data /\ Old
        /\ \/ pc' = [pc EXCEPT ![v] = "steal"] /\ seg' = seg
           \/ pc' = [pc EXCEPT ![v] = "offer"] /\ seg' = [seg EXCEPT ![v] = None]
    BY <1>7 DEF Send, bufVars, Old, Made
  <2>2. ServiceOK(v)'
    BY <1>0, <1>1, <2>1 DEF ServiceOK, Holding, Serving, Putting, Old
  <2>3. ASSUME NEW w \in Services, w # v PROVE ServiceOK(w)'
    <3>1. pc'[w] = pc[w] /\ seg'[w] = seg[w]
      BY <1>0, <2>1, <2>3
    <3> QED BY <1>1, <2>1, <3>1, ServiceStays
  <2> QED BY <2>1, <2>2, <2>3
<1>8. CASE Steal(v)
  <2>1. /\ pc[v] = "steal" /\ pc' = [pc EXCEPT ![v] = "put"] /\ addr' = addr /\ a' = a /\ seg' = seg /\ Old
    BY <1>8 DEF Steal, Old, Made
  <2>2. a[v] \in Conns
    BY <1>0, <1>1, <2>1 DEF ServiceOK, Serving, Putting
  <2>3. PICK h : /\ h = IF buff[a[v]] = <<>> THEN None ELSE Head(buff[a[v]])
                 /\ data' = [s \in Segs |-> IF s \in {h} THEN None ELSE data[s]]
    BY <1>8 DEF Steal, PutBack, Unused
  <2>4. \A w \in Services : seg[w] \in Segs => seg[w] # h
    <3>1. CASE buff[a[v]] = <<>>
      BY <1>0, <2>3, <3>1
    <3>2. CASE buff[a[v]] # <<>>
      <4>1. h = buff[a[v]][1] /\ 1 \in 1..Len(buff[a[v]])
        <5>1. buff[a[v]] \in Seq(Segs) /\ Len(buff[a[v]]) > 0
          BY <1>0, <2>2, <3>2, EmptySeq
        <5> QED BY <2>3, <3>2, <5>1, HeadTailProperties, ElementOfSeq
      <4> QED BY <2>2, <4>1 DEF OwnedOnce, BuffNotSeg
    <3> QED BY <3>1, <3>2
  <2>5. \A w \in Services : seg[w] \in Segs => data'[seg[w]] = data[seg[w]]
    BY <1>0, <2>3, <2>4
  <2>6. ServiceOK(v)'
    BY <1>0, <1>1, <2>1, <2>5 DEF ServiceOK, Holding, Serving, Putting, Old
  <2> QED BY <1>0, <1>1, <2>1, <2>5, <2>6, ServiceStays
<1> QED BY <1>3, <1>4, <1>5, <1>6, <1>7, <1>8 DEF Service

\* So do the steps of the program.
LEMMA ProgramKeeps ==
  ASSUME ServiceInv, OwnedOnce, Accept \/ Close \/ CloseCh \/ \E c \in Conns : AcceptConn(c)
  PROVE  Old /\ \A w \in Services : ServiceOK(w)'
<1>0. /\ seg \in [Services -> Segs \cup {None}] /\ None \notin Segs
      /\ \A w \in Services : ServiceOK(w)
  BY UdpAssumption DEF ServiceInv, TypeOK
<1>1. Old /\ pc' = pc /\ seg' = seg /\ addr' = addr /\ a' = a
  BY DEF Accept, Close, CloseCh, AcceptConn, Read, ReadDone, CloseFlag, CloseBuff, Del, DelEntry,
         DelTimer, Drain, svcVars, connVars, Old, Made
<1>2. ASSUME NEW S, data' = [s \in Segs |-> IF s \in S THEN None ELSE data[s]],
             \A w \in Services : seg[w] # None => seg[w] \notin S
      PROVE  \A w \in Services : ServiceOK(w)'
  <2>1. \A w \in Services : seg[w] \in Segs => data'[seg[w]] = data[seg[w]]
    BY <1>0, <1>2
  <2> QED BY <1>0, <1>1, <2>1, ServiceStays
<1>3. ASSUME data' = data PROVE \A w \in Services : ServiceOK(w)'
  BY <1>0, <1>1, <1>3, ServiceStays
<1>4. ASSUME NEW c \in Conns, ReadDone(c) PROVE \A w \in Services : ServiceOK(w)'
  <2>1. \A w \in Services : seg[w] # None => seg[w] \notin {rd[c]}
    BY DEF OwnedOnce, SegNotRd
  <2> QED BY <1>2, <1>4, <2>1 DEF ReadDone, PutBack, Unused
<1>5. ASSUME NEW c \in Conns, Drain(c) PROVE \A w \in Services : ServiceOK(w)'
  <2>1. \A w \in Services : seg[w] # None => seg[w] \notin {buff[c][i] : i \in 1..Len(buff[c])}
    BY DEF OwnedOnce, BuffNotSeg
  <2> QED BY <1>2, <1>5, <2>1 DEF Drain, PutBack, Unused
<1>6. CASE Accept \/ Close \/ CloseCh
  BY <1>1, <1>3, <1>6 DEF Accept, Close, CloseCh, bufVars
<1>7. ASSUME NEW c \in Conns,
             Read(c) \/ CloseFlag(c) \/ CloseBuff(c) \/ Del(c) \/ DelEntry(c) \/ DelTimer(c)
      PROVE  \A w \in Services : ServiceOK(w)'
  BY <1>3, <1>7 DEF Read, CloseFlag, CloseBuff, Del, DelEntry, DelTimer, bufVars
<1> QED BY <1>1, <1>4, <1>5, <1>6, <1>7 DEF AcceptConn

\* The table keeps every conn under its own address.
LEMMA TableKept ==
  ASSUME ServiceInv, Old, Next
  PROVE  TableOK'
<1>1. TableOK /\ conns \in [Peers -> Conns \cup {None}]
  BY DEF ServiceInv, TypeOK
<1>2. ASSUME conns' = conns PROVE TableOK'
  BY <1>1, <1>2 DEF TableOK, Old
<1>3. ASSUME NEW v \in Services, Insert(v) PROVE TableOK'
  <2>1. PICK c \in Nat : c = Len(raddr) + 1 /\ Inserted(v, c)
    <3>1. Len(raddr) + 1 \in Nat
      BY DEF ServiceInv, TypeOK
    <3> QED BY <1>3, <3>1, InsertMakes
  <2>2. conns' = [conns EXCEPT ![addr[v]] = c]
    BY <1>3, <2>1 DEF Insert
  <2> QED BY <1>1, <2>1, <2>2 DEF TableOK, Inserted
<1>4. ASSUME NEW c \in Conns, DelEntry(c) \/ DelTimer(c) PROVE TableOK'
  <2>1. conns' = [conns EXCEPT ![raddr[c]] = None]
    BY <1>4 DEF DelEntry, DelTimer, _del
  <2> QED BY <1>1, <2>1 DEF TableOK, Old
<1>5. ASSUME NEW v \in Services, Service(v), ~Insert(v) PROVE conns' = conns
  BY <1>5 DEF Service, ReadFrom, ReadFails, Lookup, Put, Send, SendPanic, Steal, Offer, Offering,
              OfferPanic, Panic
<1>6. ASSUME NEW c \in Conns, AcceptConn(c), ~DelEntry(c), ~DelTimer(c) PROVE conns' = conns
  BY <1>6 DEF AcceptConn, Read, ReadDone, CloseFlag, CloseBuff, Del, Drain
<1>7. CASE Accept \/ Close \/ CloseCh
  BY <1>2, <1>7 DEF Accept, Close, CloseCh
<1> QED BY <1>2, <1>3, <1>4, <1>5, <1>6, <1>7 DEF Next

\* Only conns that are made get buffers.
LEMMA SpareKept ==
  ASSUME ServiceInv, Old, Next
  PROVE  SpareOK'
<1>1. /\ SpareOK /\ timers \in SUBSET Conns
      /\ buff \in [Conns -> Seq(Segs)] /\ rd \in [Conns -> Segs \cup {None}]
      /\ \A d \in Conns : cpc[d] # "new" <=> d \in Made
  BY DEF ServiceInv, TypeOK
<1>2. ASSUME NEW c \in Made, \A d \in Conns \ {c} : buff'[d] = buff[d] /\ rd'[d] = rd[d],
             timers' \subseteq timers \cup {c}
      PROVE  SpareOK'
  BY <1>1, <1>2 DEF SpareOK, Old
<1>3. ASSUME UNCHANGED <<buff, rd, timers>> PROVE SpareOK'
  BY <1>1, <1>3 DEF SpareOK, Old
<1>4. ASSUME NEW v \in Services, Service(v), ~Send(v), ~Steal(v) PROVE SpareOK'
  BY <1>3, <1>4 DEF Service, ReadFrom, ReadFails, Lookup, Insert, Put, SendPanic, Offer, Offering,
                    OfferPanic, Panic, connVars
<1>5. ASSUME NEW v \in Services, Send(v) \/ Steal(v) PROVE SpareOK'
  <2>1. a[v] \in Made
    BY <1>5 DEF Send, Steal, At, ServiceInv, ServiceOK, Serving, Putting
  <2>2. rd' = rd /\ timers' = timers /\ \E q : buff' = [buff EXCEPT ![a[v]] = q]
    <3>1. buff = [buff EXCEPT ![a[v]] = buff[a[v]]]
      BY <1>1
    <3> QED BY <1>5, <3>1 DEF Send, Steal
  <2> QED BY <1>1, <1>2, <2>1, <2>2
<1>6. ASSUME NEW c \in Conns, Read(c) \/ ReadDone(c) \/ Drain(c) PROVE SpareOK'
  <2>1. c \in Made
    <3>1. CASE ReadDone(c)
      BY <1>1, <1>6, <3>1 DEF ReadDone, SpareOK
    <3>2. CASE Read(c) \/ Drain(c)
      BY <1>1, <1>6, <3>2 DEF Read, Drain
    <3> QED BY <1>6, <3>1, <3>2
  <2>2. timers' = timers /\ \A d \in Conns \ {c} : buff'[d] = buff[d] /\ rd'[d] = rd[d]
    BY <1>1, <1>6 DEF Read, ReadDone, Drain
  <2> QED BY <1>2, <2>1, <2>2
<1>7. ASSUME NEW c \in Conns, CloseFlag(c) \/ CloseBuff(c) \/ DelEntry(c) PROVE SpareOK'
  BY <1>3, <1>7 DEF CloseFlag, CloseBuff, DelEntry
<1>8. ASSUME NEW c \in Conns, Del(c) \/ DelTimer(c) PROVE SpareOK'
  <2>1. /\ c \in Made /\ timers' \subseteq timers \cup {c} /\ UNCHANGED <<buff, rd>>
    BY <1>1, <1>8 DEF Del, DelTimer, connVars, SpareOK
  <2> QED BY <1>2, <2>1
<1>9. CASE Accept \/ Close \/ CloseCh
  BY <1>3, <1>9 DEF Accept, Close, CloseCh, connVars
<1> QED BY <1>4, <1>5, <1>6, <1>7, <1>8, <1>9 DEF Next, AcceptConn

\* A buffer that is with conn d stays, comes from its channel, or is its peer's.
StaysWith(d) ==
  /\ rd'[d] # None => /\ rd'[d] = rd[d] \/ \E j \in 1..Len(buff[d]) : rd'[d] = buff[d][j]
                      /\ data'[rd'[d]] = data[rd'[d]]
  /\ \A i \in 1..Len(buff'[d]) :
       \/ \E j \in 1..Len(buff[d]) : buff'[d][i] = buff[d][j] /\ data'[buff[d][j]] = data[buff[d][j]]
       \/ data'[buff'[d][i]] = raddr[d]

\* Then the conns still hold their own peers' datagrams.
LEMMA OwnPeerKept ==
  ASSUME ReadsOwnPeer, Old, \A d \in Made' : d \in Made /\ StaysWith(d)
  PROVE  ReadsOwnPeer'
<1> SUFFICES ASSUME NEW d \in Made'
             PROVE  /\ rd'[d] # None => data'[rd'[d]] = raddr'[d]
                    /\ \A i \in 1..Len(buff'[d]) : data'[buff'[d][i]] = raddr'[d]
  BY DEF ReadsOwnPeer
<1>1. d \in Made /\ StaysWith(d) /\ raddr'[d] = raddr[d]
  BY DEF Old
<1>2. /\ rd[d] # None => data[rd[d]] = raddr[d]
      /\ \A i \in 1..Len(buff[d]) : data[buff[d][i]] = raddr[d]
  BY <1>1 DEF ReadsOwnPeer
<1>3. rd'[d] # None => data'[rd'[d]] = raddr'[d]
  BY <1>1, <1>2 DEF StaysWith
<1>4. ASSUME NEW i \in 1..Len(buff'[d]) PROVE data'[buff'[d][i]] = raddr'[d]
  BY <1>1, <1>2 DEF StaysWith
<1> QED BY <1>3, <1>4

\* The contents of the buffers in S change, and the conns had none of them.
LEMMA ElsewhereChanges ==
  ASSUME ServiceInv, NEW S, UNCHANGED <<rd, buff, raddr>>, ReadsOwnPeer,
         \A s \in Segs \ S : data'[s] = data[s],
         \A d \in Conns : rd[d] \notin S /\ \A i \in 1..Len(buff[d]) : buff[d][i] \notin S
  PROVE  ReadsOwnPeer'
<1>1. /\ rd \in [Conns -> Segs \cup {None}] /\ buff \in [Conns -> Seq(Segs)]
      /\ Made \subseteq Conns /\ Made' = Made /\ Old
  BY MadeAreConns DEF ServiceInv, TypeOK, Made, Old
<1>2. \A d \in Conns : \A i \in 1..Len(buff[d]) : buff[d][i] \in Segs
  BY <1>1, ElementOfSeq
<1>3. ASSUME NEW d \in Conns PROVE StaysWith(d)
  BY <1>1, <1>2 DEF StaysWith
<1> QED BY <1>1, <1>3, OwnPeerKept

\* The services put into a channel only what its peer sent.
LEMMA ServiceReadsOwn ==
  ASSUME ServiceInv, OwnedOnce, ReadsOwnPeer, NEW v \in Services, Service(v)
  PROVE  ReadsOwnPeer'
<1>0. /\ seg \in [Services -> Segs \cup {None}] /\ rd \in [Conns -> Segs \cup {None}]
      /\ data \in [Segs -> Peers \cup {None}] /\ buff \in [Conns -> Seq(Segs)]
      /\ Made \subseteq Conns /\ None \notin Segs /\ pool \in SUBSET Segs /\ ServiceOK(v)
  BY UdpAssumption, MadeAreConns DEF ServiceInv, TypeOK
<1>1. \A d \in Conns : \A i \in 1..Len(buff[d]) : buff[d][i] \in Segs
  BY <1>0, ElementOfSeq
<1>2. CASE ReadFrom(v)
  <2>1. PICK s \in pool \cup (Segs \ InUse), p \in Peers : data' = [data EXCEPT ![s] = p]
    BY <1>2 DEF ReadFrom
  <2>2. UNCHANGED <<rd, buff, raddr>>
    BY <1>2 DEF ReadFrom, connVars
  <2>3. \A d \in Conns : rd[d] \notin {s} /\ \A i \in 1..Len(buff[d]) : buff[d][i] \notin {s}
    BY FreeBuffer
  <2>4. \A t \in Segs \ {s} : data'[t] = data[t]
    BY <1>0, <2>1
  <2> QED BY <2>2, <2>3, <2>4, ElsewhereChanges
<1>3. ASSUME UNCHANGED <<rd, buff, raddr, data>> PROVE ReadsOwnPeer'
  BY <1>3 DEF ReadsOwnPeer, Made
<1>4. CASE ReadFails(v) \/ Lookup(v) \/ SendPanic(v) \/ Offer(v) \/ Offering(v) \/ OfferPanic(v)
  BY <1>3, <1>4 DEF ReadFails, Lookup, SendPanic, Offer, Offering, OfferPanic, Panic, bufVars, connVars
<1>5. CASE Insert(v)
  <2>1. PICK c \in Nat : Inserted(v, c)
    <3>1. Len(raddr) + 1 \in Nat
      BY DEF ServiceInv, TypeOK
    <3> QED BY <1>5, <3>1, InsertMakes
  <2>2. UNCHANGED <<rd, buff, data>>
    BY <1>5 DEF Insert, bufVars
  <2>3. buff[c] = <<>> /\ rd[c] = None
    BY <2>1 DEF ServiceInv, SpareOK, Inserted
  <2>4. \A i \in 1..Len(buff[c]) : FALSE
    BY <2>3
  <2> QED BY <2>1, <2>2, <2>3, <2>4 DEF ReadsOwnPeer, Inserted
<1>6. CASE Put(v)
  <2>1. UNCHANGED <<rd, buff, raddr>>
    BY <1>6 DEF Put, connVars
  <2>2. seg[v] \in Segs
    BY <1>0, <1>6 DEF Put, At, ServiceOK, Holding
  <2>3. \A d \in Conns : rd[d] \notin {seg[v]} /\ \A i \in 1..Len(buff[d]) : buff[d][i] \notin {seg[v]}
    BY <1>0, <2>2 DEF OwnedOnce, SegNotRd, BuffNotSeg
  <2>4. \A t \in Segs \ {seg[v]} : data'[t] = data[t]
    BY <1>0, <1>6 DEF Put, Unused
  <2> QED BY <2>1, <2>3, <2>4, ElsewhereChanges
<1>7. CASE Send(v)
  <2> DEFINE c == a[v]
             s == seg[v]
  <2>1. c \in Made /\ c \in Conns /\ s \in Segs /\ data[s] = raddr[c]
    BY <1>0, <1>7 DEF Send, At, ServiceOK, Serving, Putting, Holding
  <2>2. UNCHANGED <<rd, raddr, data>>
    BY <1>7 DEF Send, bufVars
  <2>3. CASE ~(Len(buff[c]) < BuffCap)
    BY <1>3, <1>7, <2>2, <2>3 DEF Send
  <2>4. CASE Len(buff[c]) < BuffCap
    <3>1. Adds(c, s)
      BY <1>7, <2>4 DEF Send, Adds
    <3> HIDE DEF c, s
    <3>2. /\ \A d \in Conns : d # c => buff'[d] = buff[d]
          /\ Len(buff'[c]) = Len(buff[c]) + 1 /\ buff'[c][Len(buff[c]) + 1] = s
          /\ \A i \in 1..Len(buff[c]) : buff'[c][i] = buff[c][i]
      BY <1>0, <2>1, <3>1, BufferJoins
    <3>3. \A d \in Conns : Len(buff[d]) \in Nat
      BY <1>0
    <3>4. \A d \in Conns : \A i \in 1..Len(buff'[d]) :
            \/ i \in 1..Len(buff[d]) /\ buff'[d][i] = buff[d][i]
            \/ d = c /\ buff'[d][i] = s
      BY <3>2, <3>3
    <3>5. ASSUME NEW d \in Conns PROVE StaysWith(d)
      BY <2>1, <2>2, <3>4 DEF StaysWith
    <3>6. Old /\ Made' = Made
      BY <2>2 DEF Old, Made
    <3> QED BY <1>0, <3>5, <3>6, OwnPeerKept
  <2> QED BY <2>3, <2>4
<1>8. CASE Steal(v)
  <2> DEFINE c == a[v]
  <2>1. c \in Conns
    BY <1>0, <1>8 DEF Steal, At, ServiceOK, Serving, Putting
  <2>2. UNCHANGED <<rd, raddr>>
    BY <1>8 DEF Steal
  <2>3. CASE buff[c] = <<>>
    <3>1. buff' = buff /\ \A s \in Segs \ {None} : data'[s] = data[s]
      BY <1>0, <1>8, <2>3 DEF Steal, PutBack, Unused
    <3> DEFINE S == {}
    <3>2. \A s \in Segs \ S : data'[s] = data[s]
      BY <1>0, <3>1
    <3>3. \A d \in Conns : rd[d] \notin S /\ \A i \in 1..Len(buff[d]) : buff[d][i] \notin S
      OBVIOUS
    <3> HIDE DEF S
    <3>4. UNCHANGED <<rd, buff, raddr>>
      BY <2>2, <3>1
    <3> QED BY <3>2, <3>3, <3>4, ElsewhereChanges
  <2>4. CASE buff[c] # <<>>
    <3>1. Takes(c) /\ data' = [s \in Segs |-> IF s \in {Head(buff[c])} THEN None ELSE data[s]]
      BY <1>8, <2>4 DEF Steal, Takes, PutBack, Unused
    <3> HIDE DEF c
    <3>2. /\ 1 \in 1..Len(buff[c]) /\ Head(buff[c]) = buff[c][1] /\ Head(buff[c]) \in Segs
          /\ \A d \in Conns : \A i \in 1..Len(buff'[d]) :
               /\ \E j \in 1..Len(buff[d]) : buff'[d][i] = buff[d][j]
               /\ buff'[d][i] # Head(buff[c])
      BY <1>0, <2>1, <2>4, <3>1, HeadLeaves
    <3>3. \A s \in Segs : s # Head(buff[c]) => data'[s] = data[s]
      BY <3>1
    <3>4. \A d \in Conns : rd[d] # Head(buff[c])
      BY <2>1, <3>2 DEF OwnedOnce, BuffNotRd
    <3>5. ASSUME NEW d \in Conns PROVE StaysWith(d)
      <4>1. rd'[d] # None => rd'[d] = rd[d] /\ data'[rd'[d]] = data[rd'[d]]
        BY <1>0, <2>2, <3>3, <3>4
      <4>2. ASSUME NEW i \in 1..Len(buff'[d])
            PROVE  \E j \in 1..Len(buff[d]) : buff'[d][i] = buff[d][j] /\ data'[buff[d][j]] = data[buff[d][j]]
        <5>1. PICK j \in 1..Len(buff[d]) : buff'[d][i] = buff[d][j]
          BY <3>2
        <5>2. buff[d][j] \in Segs /\ buff[d][j] # Head(buff[c])
          BY <1>1, <3>2, <5>1
        <5> QED BY <3>3, <5>1, <5>2
      <4> QED BY <4>1, <4>2 DEF StaysWith
    <3>6. Old /\ Made' = Made
      BY <2>2 DEF Old, Made
    <3> QED BY <1>0, <3>5, <3>6, OwnPeerKept
  <2> QED BY <2>3, <2>4
<1> QED BY <1>2, <1>4, <1>5, <1>6, <1>7, <1>8 DEF Service

\* Read takes from the conn's own channel, and recycles only what it was given.
LEMMA ProgramReadsOwn ==
  ASSUME ServiceInv, OwnedOnce, ReadsOwnPeer,
         Accept \/ Close \/ CloseCh \/ \E c \in Conns : AcceptConn(c)
  PROVE  ReadsOwnPeer'
<1>0. /\ rd \in [Conns -> Segs \cup {None}] /\ buff \in [Conns -> Seq(Segs)]
      /\ Made \subseteq Conns /\ None \notin Segs
  BY UdpAssumption, MadeAreConns DEF ServiceInv, TypeOK
<1>1. \A d \in Conns : \A i \in 1..Len(buff[d]) : buff[d][i] \in Segs
  BY <1>0, ElementOfSeq
<1>2. raddr' = raddr /\ Old /\ Made' = Made
  BY DEF Accept, Close, CloseCh, AcceptConn, Read, ReadDone, CloseFlag, CloseBuff, Del, DelEntry,
         DelTimer, Drain, connVars, Old, Made
<1>3. ASSUME UNCHANGED <<rd, buff, data>> PROVE ReadsOwnPeer'
  BY <1>2, <1>3 DEF ReadsOwnPeer
<1>4. CASE Accept \/ Close \/ CloseCh
  BY <1>3, <1>4 DEF Accept, Close, CloseCh, bufVars, connVars
<1>5. ASSUME NEW c \in Conns, CloseFlag(c) \/ CloseBuff(c) \/ Del(c) \/ DelEntry(c) \/ DelTimer(c)
      PROVE  ReadsOwnPeer'
  BY <1>3, <1>5 DEF CloseFlag, CloseBuff, Del, DelEntry, DelTimer, bufVars, connVars
<1>6. ASSUME NEW c \in Conns, Read(c) PROVE ReadsOwnPeer'
  <2>1. Takes(c) /\ buff[c] # <<>> /\ rd' = [rd EXCEPT ![c] = Head(buff[c])] /\ data' = data
    BY <1>6 DEF Read, Takes, bufVars
  <2>2. /\ 1 \in 1..Len(buff[c]) /\ Head(buff[c]) = buff[c][1]
        /\ \A d \in Conns : \A i \in 1..Len(buff'[d]) :
             \E j \in 1..Len(buff[d]) : buff'[d][i] = buff[d][j]
    BY <1>0, <2>1, HeadLeaves
  <2>3. data' = data /\ \A d \in Conns : rd'[d] = IF d = c THEN buff[c][1] ELSE rd[d]
    BY <1>0, <2>1, <2>2
  <2>4. ASSUME NEW d \in Conns PROVE StaysWith(d)
    BY <2>2, <2>3 DEF StaysWith
  <2> QED BY <1>0, <1>2, <2>4, OwnPeerKept
<1>7. ASSUME NEW c \in Conns, ReadDone(c) PROVE ReadsOwnPeer'
  <2>1. /\ rd[c] # None /\ rd' = [rd EXCEPT ![c] = None] /\ buff' = buff
        /\ data' = [s \in Segs |-> IF s \in {rd[c]} THEN None ELSE data[s]]
    BY <1>7 DEF ReadDone, PutBack, Unused
  <2>2. \A s \in Segs : s # rd[c] => data'[s] = data[s]
    BY <2>1
  <2>3. ASSUME NEW d \in Conns PROVE StaysWith(d)
    <3>1. rd'[d] # None => rd'[d] = rd[d] /\ rd[d] # rd[c] /\ rd[d] \in Segs
      BY <1>0, <2>1 DEF OwnedOnce, RdOnce
    <3>2. \A i \in 1..Len(buff[d]) : buff[d][i] # rd[c]
      BY DEF OwnedOnce, BuffNotRd
    <3> QED BY <1>1, <2>1, <2>2, <3>1, <3>2 DEF StaysWith
  <2> QED BY <1>0, <1>2, <2>3, OwnPeerKept
<1>8. ASSUME NEW c \in Conns, Drain(c) PROVE ReadsOwnPeer'
  <2> DEFINE S == {buff[c][i] : i \in 1..Len(buff[c])}
  <2>1. /\ rd' = rd /\ buff' = [buff EXCEPT ![c] = <<>>]
        /\ data' = [s \in Segs |-> IF s \in S THEN None ELSE data[s]]
    BY <1>8 DEF Drain, PutBack, Unused
  <2>2. \A s \in Segs : s \notin S => data'[s] = data[s]
    BY <2>1
  <2>3. ASSUME NEW d \in Conns PROVE StaysWith(d)
    <3>1. rd[d] \notin S
      BY DEF OwnedOnce, BuffNotRd
    <3>2. CASE d = c
      <4>1. \A i \in 1..Len(buff'[d]) : FALSE
        BY <1>0, <2>1, <3>2
      <4> HIDE DEF S
      <4> QED BY <1>0, <2>1, <2>2, <3>1, <4>1 DEF StaysWith
    <3>3. CASE d # c
      <4>1. \A i \in 1..Len(buff[d]) : buff[d][i] \notin S
        BY <3>3, OnePlace
      <4>2. buff'[d] = buff[d]
        BY <1>0, <2>1, <3>3
      <4> HIDE DEF S
      <4> QED BY <1>0, <1>1, <2>1, <2>2, <3>1, <4>1, <4>2 DEF StaysWith
    <3> QED BY <3>2, <3>3
  <2> QED BY <1>0, <1>2, <2>3, OwnPeerKept
<1> QED BY <1>4, <1>5, <1>6, <1>7, <1>8 DEF AcceptConn

(***************************************************************************)
(* The conns on their way to Accept.                                       *)
(***************************************************************************)

\* A service whose conn is no longer new, or the same, and the conns on connCh.
LEMMA OffersStay ==
  ASSUME OfferInv, connCh' = connCh, Old,
         \A w \in Services : Fresh(w)' => Fresh(w) /\ a'[w] = a[w],
         \A w \in Services : pc'[w] = "offering" => isNew'[w],
         \A d \in Made : cpc[d] = "open" => cpc'[d] = "open",
         \A w \in Services : Fresh(w) => a[w] \in Made
  PROVE  OfferInv'
<1>1. \A w \in Services : Fresh(w)' => cpc'[a'[w]] = "open"
  BY DEF OfferInv
<1>2. \A w \in Services, i \in 1..Len(connCh') : Fresh(w)' => connCh'[i] # a'[w]
  BY DEF OfferInv
<1>3. \A u, w \in Services : Fresh(u)' /\ Fresh(w)' /\ a'[u] = a'[w] => u = w
  BY DEF OfferInv
<1>4. \A i \in 1..Len(connCh') : connCh'[i] \in Made' /\ cpc'[connCh'[i]] = "open"
  BY DEF OfferInv, Old
<1>5. \A i, j \in 1..Len(connCh') : connCh'[i] = connCh'[j] => i = j
  BY DEF OfferInv
<1> QED BY <1>1, <1>2, <1>3, <1>4, <1>5 DEF OfferInv

\* A conn is offered once, and until Accept returned it the program leaves it alone.
LEMMA OffersKept ==
  ASSUME ServiceInv, OfferInv, Old, Next
  PROVE  OfferInv'
<1>0. /\ pc \in [Services -> {"read", "lookup", "insert", "put", "send", "steal", "offer", "offering", "done"}]
      /\ a \in [Services -> Conns \cup {None}] /\ isNew \in [Services -> BOOLEAN]
      /\ connCh \in Seq(Conns) /\ Made \subseteq Conns
      /\ \A d \in Made : cpc[d] # "new" /\ cpc \in [Conns -> {"new", "open", "accepted", "flagged",
                             "closing", "deleting", "draining", "closed"}]
  BY MadeAreConns DEF ServiceInv, TypeOK
<1>1. \A w \in Services : Fresh(w) => a[w] \in Made
  BY DEF ServiceInv, ServiceOK, Fresh
<1>2. /\ connCh \in Seq(Conns) /\ Len(connCh) \in Nat /\ Made \subseteq Conns
  BY <1>0
<1>3. \A w \in Services : pc[w] = "offering" => isNew[w]
  BY DEF OfferInv
\* Steps of one service that make no conn and offer none.
<1>4. ASSUME NEW v \in Services, NEW where, pc' = [pc EXCEPT ![v] = where],
             connCh' = connCh, cpc' = cpc,
             \A w \in Services \ {v} : a'[w] = a[w] /\ isNew'[w] = isNew[w],
             where = "offering" => isNew'[v],
             where \in Serving /\ isNew'[v] => Fresh(v) /\ a'[v] = a[v]
      PROVE  OfferInv'
  <2>1. \A w \in Services : Fresh(w)' => Fresh(w) /\ a'[w] = a[w]
    BY <1>0, <1>4 DEF Fresh
  <2>2. \A w \in Services : pc'[w] = "offering" => isNew'[w]
    BY <1>0, <1>3, <1>4
  <2> QED BY <1>1, <1>4, <2>1, <2>2, OffersStay
<1>5. ASSUME UNCHANGED <<pc, isNew, a, connCh>>, \A d \in Made : cpc[d] = "open" => cpc'[d] = "open"
      PROVE  OfferInv'
  <2>1. \A w \in Services : Fresh(w)' => Fresh(w) /\ a'[w] = a[w]
    BY <1>5 DEF Fresh
  <2> QED BY <1>1, <1>3, <1>5, <2>1, OffersStay
<1>6. ASSUME NEW v \in Services, Service(v), ~Insert(v), ~Offering(v) PROVE OfferInv'
  <2>1. CASE ReadFrom(v)
    BY <1>4, <2>1 DEF ReadFrom, Goto, connVars, lisVars, Serving, Putting
  <2>2. CASE ReadFails(v)
    BY <1>4, <2>2 DEF ReadFails, Goto, connVars, Serving, Putting
  <2>3. CASE Lookup(v)
    <3>1. PICK c : c = conns[addr[v]]
      OBVIOUS
    <3>2. /\ pc' = [pc EXCEPT ![v] = IF c = None THEN "insert" ELSE "put"]
          /\ isNew' = [isNew EXCEPT ![v] = (c = None)] /\ a' = [a EXCEPT ![v] = c]
          /\ connCh' = connCh /\ cpc' = cpc
      BY <2>3, <3>1 DEF Lookup, Goto, connVars, lisVars
    <3>3. \A w \in Services \ {v} : a'[w] = a[w] /\ isNew'[w] = isNew[w]
      BY <1>0, <3>2
    <3>4. isNew'[v] = (c = None)
      BY <1>0, <3>2
    <3>5. CASE c = None
      <4>1. pc' = [pc EXCEPT ![v] = "insert"]
        BY <3>2, <3>5
      <4> QED BY <1>4, <3>2, <3>3, <4>1 DEF Serving, Putting
    <3>6. CASE c # None
      <4>1. pc' = [pc EXCEPT ![v] = "put"] /\ ~isNew'[v]
        BY <3>2, <3>4, <3>6
      <4> QED BY <1>4, <3>2, <3>3, <4>1 DEF Serving, Putting
    <3> QED BY <3>5, <3>6
  <2>4. CASE Put(v) \/ Send(v) \/ Steal(v)
    <3>1. /\ pc[v] \in Putting /\ isNew' = isNew /\ a' = a /\ connCh' = connCh /\ cpc' = cpc
          /\ \E where \in Serving \ {"offering"} : pc' = [pc EXCEPT ![v] = where]
      BY <2>4 DEF Put, Send, Steal, At, Goto, connVars, lisVars, Serving, Putting
    <3>2. isNew[v] => Fresh(v)
      BY <3>1 DEF Fresh, Serving
    <3> QED BY <1>4, <3>1, <3>2
  <2>5. CASE Offer(v)
    <3>1. pc[v] = "offer" /\ connCh' = connCh /\ cpc' = cpc
      BY <2>5 DEF Offer, At, connVars, lisVars
    <3>2. CASE isNew[v] /\ ~closed
      <4>1. pc' = [pc EXCEPT ![v] = "offering"] /\ a' = a /\ isNew' = isNew
        BY <2>5, <3>2 DEF Offer, Goto
      <4> QED BY <1>4, <3>1, <3>2, <4>1 DEF Fresh, Serving
    <3>3. CASE ~(isNew[v] /\ ~closed)
      <4>1. /\ pc' = [pc EXCEPT ![v] = "read"] /\ a' = [a EXCEPT ![v] = None]
            /\ isNew' = [isNew EXCEPT ![v] = FALSE]
        BY <2>5, <3>3 DEF Offer, NextTurn, Goto
      <4> QED BY <1>0, <1>4, <3>1, <4>1 DEF Serving, Putting
    <3> QED BY <3>2, <3>3
  <2>6. CASE SendPanic(v) \/ OfferPanic(v)
    BY <1>5, <2>6 DEF SendPanic, OfferPanic, Panic, svcVars, connVars, lisVars
  <2> QED BY <1>6, <2>1, <2>2, <2>3, <2>4, <2>5, <2>6 DEF Service
<1>7. ASSUME NEW v \in Services, Insert(v) PROVE OfferInv'
  <2>1. PICK c \in Nat : c = Len(raddr) + 1 /\ Inserted(v, c)
    <3>1. Len(raddr) + 1 \in Nat
      BY DEF ServiceInv, TypeOK
    <3> QED BY <1>7, <3>1, InsertMakes
  <2>2. /\ pc' = [pc EXCEPT ![v] = "put"] /\ a' = [a EXCEPT ![v] = c] /\ isNew' = isNew
        /\ cpc' = [cpc EXCEPT ![c] = "open"] /\ connCh' = connCh
    BY <1>7, <2>1 DEF Insert, Goto, lisVars
  <2>3. c \in Conns /\ c \notin Made /\ cpc \in [Conns -> {"new", "open", "accepted", "flagged",
                             "closing", "deleting", "draining", "closed"}]
    BY <2>1 DEF Inserted, ServiceInv, TypeOK
  <2>4. cpc'[c] = "open" /\ \A d \in Made : cpc'[d] = cpc[d]
    BY <1>2, <2>2, <2>3
  <2>5. a'[v] = c /\ \A w \in Services \ {v} : a'[w] = a[w] /\ (Fresh(w)' <=> Fresh(w))
    BY <1>0, <2>2 DEF Fresh
  <2>6. \A i \in 1..Len(connCh) : connCh[i] \in Made /\ cpc[connCh[i]] = "open"
    BY DEF OfferInv
  <2>7. \A w \in Services : Fresh(w)' => cpc'[a'[w]] = "open"
    BY <1>1, <2>4, <2>5 DEF OfferInv
  <2>8. \A w \in Services, i \in 1..Len(connCh') : Fresh(w)' => connCh'[i] # a'[w]
    BY <2>2, <2>3, <2>5, <2>6 DEF OfferInv
  <2>9. \A u, w \in Services : Fresh(u)' /\ Fresh(w)' /\ a'[u] = a'[w] => u = w
    BY <1>1, <2>3, <2>5 DEF OfferInv
  <2>10. \A i \in 1..Len(connCh') : connCh'[i] \in Made' /\ cpc'[connCh'[i]] = "open"
    BY <2>2, <2>4, <2>6 DEF Old
  <2>11. \A i, j \in 1..Len(connCh') : connCh'[i] = connCh'[j] => i = j
    BY <2>2 DEF OfferInv
  <2>12. \A w \in Services : pc'[w] = "offering" => isNew'[w]
    BY <1>0, <1>3, <2>2
  <2> QED BY <2>7, <2>8, <2>9, <2>10, <2>11, <2>12 DEF OfferInv
<1>8. ASSUME NEW v \in Services, Offering(v) PROVE OfferInv'
  <2>1. /\ pc[v] = "offering" /\ pc' = [pc EXCEPT ![v] = "read"] /\ a' = [a EXCEPT ![v] = None]
        /\ isNew' = [isNew EXCEPT ![v] = FALSE] /\ cpc' = cpc
        /\ connCh' = connCh \/ connCh' = Append(connCh, a[v])
    BY <1>8 DEF Offering, At, NextTurn, Goto, connVars
  <2>2. Fresh(v) /\ a[v] \in Made /\ cpc[a[v]] = "open"
    BY <1>1, <1>3, <2>1 DEF Fresh, Serving, OfferInv
  <2>3. CASE connCh' = connCh
    BY <1>0, <1>4, <2>1, <2>3 DEF Serving, Putting
  <2>4. CASE connCh' = Append(connCh, a[v])
    <3>1. /\ Len(connCh') = Len(connCh) + 1 /\ connCh'[Len(connCh) + 1] = a[v]
          /\ \A i \in 1..Len(connCh) : connCh'[i] = connCh[i]
      BY <1>2, <2>2, <2>4, AppendProperties
    <3>2. \A i \in 1..Len(connCh') :
            \/ i \in 1..Len(connCh) /\ connCh'[i] = connCh[i]
            \/ i = Len(connCh) + 1 /\ connCh'[i] = a[v]
      BY <1>2, <3>1
    <3>3. \A w \in Services : Fresh(w)' => w # v /\ Fresh(w) /\ a'[w] = a[w]
      BY <1>0, <2>1 DEF Fresh, Serving, Putting
    <3>4. \A i \in 1..Len(connCh) : connCh[i] \in Made /\ cpc[connCh[i]] = "open" /\ connCh[i] # a[v]
      BY <2>2 DEF OfferInv
    <3>5. \A w \in Services : Fresh(w)' => cpc'[a'[w]] = "open"
      BY <2>1, <3>3 DEF OfferInv
    <3>6. \A w \in Services, i \in 1..Len(connCh') : Fresh(w)' => connCh'[i] # a'[w]
      BY <2>2, <3>2, <3>3 DEF OfferInv
    <3>7. \A u, w \in Services : Fresh(u)' /\ Fresh(w)' /\ a'[u] = a'[w] => u = w
      BY <3>3 DEF OfferInv
    <3>8. \A i \in 1..Len(connCh') : connCh'[i] \in Made' /\ cpc'[connCh'[i]] = "open"
      BY <2>1, <2>2, <3>2, <3>4 DEF Old
    <3>9. \A i, j \in 1..Len(connCh') : connCh'[i] = connCh'[j] => i = j
      <4> SUFFICES ASSUME NEW i \in 1..Len(connCh'), NEW j \in 1..Len(connCh'), connCh'[i] = connCh'[j]
                   PROVE  i = j
        OBVIOUS
      <4>1. CASE i \in 1..Len(connCh) /\ connCh'[i] = connCh[i]
        <5>1. j \in 1..Len(connCh) /\ connCh'[j] = connCh[j]
          BY <3>2, <3>4, <4>1
        <5> QED BY <4>1, <5>1 DEF OfferInv
      <4>2. CASE i = Len(connCh) + 1 /\ connCh'[i] = a[v]
        BY <3>2, <3>4, <4>2
      <4> QED BY <3>2, <4>1, <4>2
    <3>10. \A w \in Services : pc'[w] = "offering" => isNew'[w]
      BY <1>0, <1>3, <2>1
    <3> QED BY <3>5, <3>6, <3>7, <3>8, <3>9, <3>10 DEF OfferInv
  <2> QED BY <2>1, <2>3, <2>4
<1>9. CASE Accept
  <2>1. /\ Len(connCh) > 0 /\ connCh' = Tail(connCh) /\ cpc' = [cpc EXCEPT ![Head(connCh)] = "accepted"]
        /\ UNCHANGED <<pc, a, isNew>>
    BY <1>2, <1>9, EmptySeq DEF Accept, svcVars
  <2>2. /\ Head(connCh) = connCh[1] /\ Len(connCh') = Len(connCh) - 1
        /\ \A i \in 1..(Len(connCh) - 1) : connCh'[i] = connCh[i + 1]
    BY <1>2, <2>1, HeadTailProperties, ElementOfSeq
  <2>3. 1 \in 1..Len(connCh) /\ \A i \in 1..Len(connCh') : i + 1 \in 1..Len(connCh) /\ connCh'[i] = connCh[i + 1]
    BY <1>2, <2>1, <2>2
  <2>4. \A d \in Made : d # connCh[1] => cpc'[d] = cpc[d]
    BY <2>1, <2>2, <1>0
  <2>5. \A w \in Services : Fresh(w)' <=> Fresh(w)
    BY <2>1 DEF Fresh
  <2>6. \A w \in Services : Fresh(w)' => cpc'[a'[w]] = "open"
    BY <1>1, <2>1, <2>3, <2>4, <2>5 DEF OfferInv
  <2>7. \A w \in Services, i \in 1..Len(connCh') : Fresh(w)' => connCh'[i] # a'[w]
    BY <2>1, <2>3, <2>5 DEF OfferInv
  <2>8. \A u, w \in Services : Fresh(u)' /\ Fresh(w)' /\ a'[u] = a'[w] => u = w
    BY <2>1, <2>5 DEF OfferInv
  <2>9. ASSUME NEW i \in 1..Len(connCh') PROVE connCh'[i] \in Made' /\ cpc'[connCh'[i]] = "open"
    <3>1. i + 1 \in 1..Len(connCh) /\ connCh'[i] = connCh[i + 1] /\ i + 1 # 1
      BY <2>3
    <3>2. connCh[i + 1] \in Made /\ cpc[connCh[i + 1]] = "open" /\ connCh[i + 1] # connCh[1]
      BY <2>3, <3>1 DEF OfferInv
    <3> QED BY <2>4, <3>1, <3>2 DEF Old
  <2>10. ASSUME NEW i \in 1..Len(connCh'), NEW j \in 1..Len(connCh'), connCh'[i] = connCh'[j] PROVE i = j
    <3>1. /\ i + 1 \in 1..Len(connCh) /\ j + 1 \in 1..Len(connCh)
          /\ connCh[i + 1] = connCh[j + 1]
      BY <2>3, <2>10
    <3>2. i + 1 = j + 1
      BY <3>1 DEF OfferInv
    <3> QED BY <3>2
  <2>11. \A w \in Services : pc'[w] = "offering" => isNew'[w]
    BY <1>3, <2>1
  <2> QED BY <2>6, <2>7, <2>8, <2>9, <2>10, <2>11 DEF OfferInv
<1>10. CASE Close \/ CloseCh
  BY <1>5, <1>10 DEF Close, CloseCh, svcVars, connVars
<1>11. ASSUME NEW c \in Conns, AcceptConn(c) PROVE OfferInv'
  <2>1. UNCHANGED <<pc, isNew, a, connCh>>
    BY <1>11 DEF AcceptConn, Read, ReadDone, CloseFlag, CloseBuff, Del, DelEntry, DelTimer, Drain,
                 svcVars, lisVars
  <2>2. \/ cpc' = cpc
        \/ cpc[c] # "open" /\ \E w : cpc' = [cpc EXCEPT ![c] = w]
    <3>1. CASE Read(c) \/ ReadDone(c) \/ DelTimer(c)
      BY <3>1 DEF Read, ReadDone, DelTimer, connVars
    <3>2. CASE CloseFlag(c) \/ CloseBuff(c) \/ DelEntry(c) \/ Drain(c)
      BY <3>2 DEF CloseFlag, CloseBuff, DelEntry, Drain, CGoto
    <3>3. CASE Del(c)
      BY <3>3 DEF Del, CGoto
    <3> QED BY <1>11, <3>1, <3>2, <3>3 DEF AcceptConn
  <2>3. \A d \in Made : cpc[d] = "open" => cpc'[d] = "open"
    BY <1>0, <2>2
  <2> QED BY <1>5, <2>1, <2>3
<1> QED BY <1>6, <1>7, <1>8, <1>9, <1>10, <1>11 DEF Next

(***************************************************************************)
(* The table with one service, and the socket.                             *)
(***************************************************************************)

\* One service is one service.
LEMMA OneService ==
  ASSUME TypeOK, Cardinality(running) = 1
  PROVE  \A v, w \in running : v = w
<1>1. IsFiniteSet(running)
  BY UdpAssumption, FS_Subset DEF TypeOK
<1>2. PICK u : running = {u}
  BY <1>1, FS_Singleton
<1> QED BY <1>2

\* The places of the conns: how a step moves cpc and timers.
ConnStays(d) == (Linked(d)' => Linked(d)) /\ (cpc'[d] = "accepted" => cpc[d] \in {"open", "accepted"})

\* A timer is set for conns whose Close is past del, and a conn that left the table
\* does not come back.
LEMMA TimersKept ==
  ASSUME ServiceInv, OfferInv, LinkInv, Next
  PROVE  /\ \A c \in timers' : cpc'[c] \in {"draining", "closed"}
         /\ \A d \in Made : ConnStays(d)
<1>0. /\ timers \in SUBSET Conns /\ Made \subseteq Conns /\ \A c \in Conns \ Made : c \notin timers
      /\ cpc \in [Conns -> {"new", "open", "accepted", "flagged", "closing", "deleting", "draining", "closed"}]
      /\ \A c \in timers : cpc[c] \in {"draining", "closed"}
  BY MadeAreConns DEF ServiceInv, TypeOK, SpareOK, LinkInv
<1>1. ASSUME cpc' = cpc, timers' \subseteq timers
      PROVE  (\A c \in timers' : cpc'[c] \in {"draining", "closed"}) /\ \A d \in Made : ConnStays(d)
  BY <1>0, <1>1 DEF ConnStays, Linked
<1>2. ASSUME NEW v \in Services, Service(v), ~Insert(v) PROVE cpc' = cpc /\ timers' = timers
  BY <1>2 DEF Service, ReadFrom, ReadFails, Lookup, Put, Send, SendPanic, Steal, Offer, Offering,
              OfferPanic, Panic, connVars
<1>3. ASSUME NEW v \in Services, Insert(v)
      PROVE  (\A c \in timers' : cpc'[c] \in {"draining", "closed"}) /\ \A d \in Made : ConnStays(d)
  <2>1. PICK c \in Nat : c = Len(raddr) + 1 /\ Inserted(v, c)
    <3>1. Len(raddr) + 1 \in Nat
      BY DEF ServiceInv, TypeOK
    <3> QED BY <1>3, <3>1, InsertMakes
  <2>2. cpc' = [cpc EXCEPT ![c] = "open"] /\ timers' = timers
    BY <1>3, <2>1 DEF Insert
  <2>3. c \in Conns /\ c \notin Made
    BY <2>1 DEF Inserted
  <2>4. \A d \in Conns : d # c => cpc'[d] = cpc[d]
    BY <1>0, <2>2
  <2> QED BY <1>0, <2>2, <2>3, <2>4 DEF ConnStays, Linked
\* Steps of the conn c itself.
<1>4. ASSUME NEW c \in Conns, NEW w, cpc' = [cpc EXCEPT ![c] = w], timers' \subseteq timers \cup {c},
             c \in timers' => w \in {"draining", "closed"},
             cpc[c] \in {"open", "accepted", "flagged", "closing", "deleting"}
               \/ (cpc[c] = "draining" /\ w = "closed" /\ timers' = timers),
             w = "accepted" => cpc[c] = "open"
      PROVE  (\A d \in timers' : cpc'[d] \in {"draining", "closed"}) /\ \A d \in Made : ConnStays(d)
  <2>1. cpc'[c] = w /\ \A d \in Conns : d # c => cpc'[d] = cpc[d]
    BY <1>0, <1>4
  <2>2. \A d \in timers' : cpc'[d] \in {"draining", "closed"}
    BY <1>0, <1>4, <2>1
  <2>3. ASSUME NEW d \in Made PROVE ConnStays(d)
    <3>1. CASE d = c
      BY <1>4, <2>1, <3>1 DEF ConnStays, Linked
    <3>2. CASE d # c
      BY <1>0, <1>4, <2>1, <3>2 DEF ConnStays, Linked
    <3> QED BY <3>1, <3>2
  <2> QED BY <2>2, <2>3
<1>5. CASE Accept
  <2>1. /\ Head(connCh) \in Conns /\ cpc[Head(connCh)] = "open"
    <3>1. connCh \in Seq(Conns) /\ Len(connCh) > 0 /\ 1 \in 1..Len(connCh)
      BY <1>5, EmptySeq DEF Accept, ServiceInv, TypeOK
    <3>2. Head(connCh) = connCh[1]
      BY <3>1, HeadTailProperties, ElementOfSeq
    <3> QED BY <1>0, <3>1, <3>2 DEF OfferInv
  <2>2. cpc' = [cpc EXCEPT ![Head(connCh)] = "accepted"] /\ timers' = timers
    BY <1>5 DEF Accept
  <2>3. Head(connCh) \notin timers
    BY <1>0, <2>1
  <2> QED BY <1>4, <2>1, <2>2, <2>3
<1>6. CASE Close \/ CloseCh
  BY <1>1, <1>6 DEF Close, CloseCh, connVars
<1>7. ASSUME NEW c \in Conns, Read(c) \/ ReadDone(c) \/ DelTimer(c)
      PROVE  cpc' = cpc /\ timers' \subseteq timers
  BY <1>7 DEF Read, ReadDone, DelTimer, connVars
<1>8. ASSUME NEW c \in Conns, CloseFlag(c) \/ CloseBuff(c) \/ DelEntry(c)
      PROVE  (\A d \in timers' : cpc'[d] \in {"draining", "closed"}) /\ \A d \in Made : ConnStays(d)
  <2>1. timers' = timers /\ cpc[c] \in {"accepted", "flagged", "deleting"}
    BY <1>8 DEF CloseFlag, CloseBuff, DelEntry
  <2>2. PICK w \in {"flagged", "closing", "draining"} : cpc' = [cpc EXCEPT ![c] = w]
    BY <1>8 DEF CloseFlag, CloseBuff, DelEntry, CGoto
  <2>3. c \notin timers
    BY <1>0, <2>1
  <2> QED BY <1>4, <2>1, <2>2, <2>3
<1>9. ASSUME NEW c \in Conns, Del(c)
      PROVE  (\A d \in timers' : cpc'[d] \in {"draining", "closed"}) /\ \A d \in Made : ConnStays(d)
  <2>1. cpc[c] = "closing" /\ c \notin timers
    BY <1>0, <1>9 DEF Del
  <2>2. \/ cpc' = [cpc EXCEPT ![c] = "deleting"] /\ timers' = timers
        \/ cpc' = [cpc EXCEPT ![c] = "draining"] /\ timers' = timers \cup {c}
    BY <1>9 DEF Del, CGoto
  <2> QED BY <1>4, <2>1, <2>2
<1>10. ASSUME NEW c \in Conns, Drain(c)
       PROVE  (\A d \in timers' : cpc'[d] \in {"draining", "closed"}) /\ \A d \in Made : ConnStays(d)
  BY <1>4, <1>10 DEF Drain, CGoto
<1>11. ASSUME NEW c \in Conns, AcceptConn(c)
       PROVE  (\A d \in timers' : cpc'[d] \in {"draining", "closed"}) /\ \A d \in Made : ConnStays(d)
  BY <1>1, <1>7, <1>8, <1>9, <1>10, <1>11 DEF AcceptConn
<1> QED BY <1>1, <1>2, <1>3, <1>5, <1>6, <1>11 DEF Next

\* With one service, a conn leaves the table only when it is itself removed, and
\* none is put where another one is.
LEMMA LinksKept ==
  ASSUME ServiceInv, OfferInv, LinkInv, Old, Next
  PROVE  LinkInv'
<1>0. /\ conns \in [Peers -> Conns \cup {None}] /\ Made \subseteq Conns /\ raddr \in Seq(Peers)
      /\ pc \in [Services -> {"read", "lookup", "insert", "put", "send", "steal", "offer", "offering", "done"}]
      /\ isNew \in [Services -> BOOLEAN] /\ addr \in [Services -> Peers \cup {None}]
      /\ running \in SUBSET Services /\ None \notin Conns
  BY MadeAreConns, UdpAssumption DEF ServiceInv, TypeOK, Conns
<1>1. (\A c \in timers' : cpc'[c] \in {"draining", "closed"}) /\ \A d \in Made : ConnStays(d)
  BY TimersKept
<1>2. running' = running
  BY DEF Next, Service, AcceptConn, ReadFrom, ReadFails, Lookup, Insert, Put, Send, SendPanic, Steal,
         Offer, Offering, OfferPanic, Panic, Accept, Close, CloseCh, Read, ReadDone, CloseFlag,
         CloseBuff, Del, DelEntry, DelTimer, Drain, svcVars
<1> SUFFICES ASSUME Cardinality(running) = 1
             PROVE  /\ \A c \in Made' : Linked(c)' => conns'[raddr'[c]] = c
                    /\ \A v \in running : pc'[v] = "insert" => isNew'[v] /\ conns'[addr'[v]] = None
  BY <1>1, <1>2 DEF LinkInv
<1> DEFINE Done == /\ \A c \in Made' : Linked(c)' => conns'[raddr'[c]] = c
                   /\ \A v \in running : pc'[v] = "insert" => isNew'[v] /\ conns'[addr'[v]] = None
<1>3. /\ \A c \in Made : Linked(c) => conns[raddr[c]] = c
      /\ \A v \in running : pc[v] = "insert" => isNew[v] /\ conns[addr[v]] = None
      /\ \A v, w \in running : v = w
  BY OneService DEF LinkInv, ServiceInv
<1>4. ASSUME UNCHANGED <<conns, raddr>>,
             \A v \in running : pc'[v] = "insert" => isNew'[v] /\ conns[addr'[v]] = None
      PROVE  Done
  <2>1. Made' = Made
    BY <1>4 DEF Made
  <2> QED BY <1>1, <1>3, <1>4, <2>1 DEF ConnStays
<1>5. ASSUME UNCHANGED <<conns, raddr, pc, isNew, addr>> PROVE Done
  BY <1>3, <1>4, <1>5
<1>6. ASSUME NEW v \in Services, Service(v), ~Insert(v), ~Lookup(v) PROVE Done
  <2>1. conns' = conns /\ raddr' = raddr /\ v \in running
    BY <1>6 DEF Service, ReadFrom, ReadFails, Put, Send, SendPanic, Steal, Offer, Offering, OfferPanic,
                Panic, connVars, At
  <2>2. CASE SendPanic(v) \/ OfferPanic(v)
    BY <1>5, <2>2 DEF SendPanic, OfferPanic, Panic, svcVars, connVars
  <2>3. CASE ~SendPanic(v) /\ ~OfferPanic(v)
    <3>1. \E where \in {"read", "lookup", "put", "send", "steal", "offer", "offering", "done"} : pc' = [pc EXCEPT ![v] = where]
      BY <1>6, <2>3 DEF Service, ReadFrom, ReadFails, Put, Send, Steal, Offer, Offering, NextTurn, Goto
    <3>2. \A w \in running : pc'[w] # "insert"
      BY <1>0, <1>3, <2>1, <3>1
    <3> QED BY <1>4, <2>1, <3>2
  <2> QED BY <2>2, <2>3
<1>7. ASSUME NEW v \in Services, Lookup(v) PROVE Done
  <2>1. PICK c : c = conns[addr[v]]
    OBVIOUS
  <2>2. /\ conns' = conns /\ raddr' = raddr /\ addr' = addr /\ v \in running
        /\ pc' = [pc EXCEPT ![v] = IF c = None THEN "insert" ELSE "put"]
        /\ isNew' = [isNew EXCEPT ![v] = (c = None)]
    BY <1>7, <2>1 DEF Lookup, connVars, At, Goto
  <2>3. pc'[v] = "insert" => c = None
    BY <1>0, <2>2
  <2>4. c = None => isNew'[v]
    BY <1>0, <2>2
  <2>5. \A w \in running : pc'[w] = "insert" => isNew'[w] /\ conns[addr'[w]] = None
    BY <1>3, <2>1, <2>2, <2>3, <2>4
  <2> QED BY <1>4, <2>2, <2>5
<1>8. ASSUME NEW v \in Services, Insert(v) PROVE Done
  <2>1. PICK c \in Nat : c = Len(raddr) + 1 /\ Inserted(v, c)
    <3>1. Len(raddr) + 1 \in Nat
      BY DEF ServiceInv, TypeOK
    <3> QED BY <1>8, <3>1, InsertMakes
  <2>2. /\ v \in running /\ pc[v] = "insert" /\ pc' = [pc EXCEPT ![v] = "put"]
        /\ conns' = [conns EXCEPT ![addr[v]] = c]
    BY <1>8, <2>1 DEF Insert, At, Goto
  <2>3. addr[v] \in Peers /\ conns[addr[v]] = None
    BY <1>3, <2>2 DEF ServiceInv, ServiceOK, Holding
  <2>4. \A w \in running : pc'[w] # "insert"
    BY <1>0, <1>3, <2>2
  <2>5. conns'[raddr'[c]] = c
    BY <1>0, <2>1, <2>2, <2>3 DEF Inserted
  <2>6. ASSUME NEW d \in Made, Linked(d)' PROVE conns'[raddr'[d]] = d
    <3>1. Linked(d) /\ conns[raddr[d]] = d /\ raddr'[d] = raddr[d] /\ d # None
      BY <1>0, <1>1, <1>3, <2>6 DEF ConnStays, Old
    <3>2. raddr[d] # addr[v]
      BY <2>3, <3>1
    <3>3. raddr[d] \in Peers
      BY <1>0, ElementOfSeq DEF Made
    <3> QED BY <1>0, <2>2, <3>1, <3>2, <3>3
  <2>7. Made' = Made \cup {c}
    BY <2>1 DEF Inserted
  <2> QED BY <2>4, <2>5, <2>6, <2>7
<1>9. ASSUME NEW c \in Conns, DelEntry(c) \/ DelTimer(c) PROVE Done
  <2>1. /\ c \in Made /\ Linked(c)
    BY <1>9 DEF DelEntry, DelTimer, Linked, ServiceInv, TypeOK, SpareOK
  <2>2. /\ conns' = [conns EXCEPT ![raddr[c]] = None] /\ UNCHANGED <<raddr, pc, isNew, addr>>
    BY <1>9 DEF DelEntry, DelTimer, _del, svcVars, connVars
  <2>3. ~Linked(c)'
    <3>1. CASE DelEntry(c)
      <4>1. cpc[c] = "deleting" /\ cpc' = [cpc EXCEPT ![c] = "draining"] /\ timers' = timers
        BY <3>1 DEF DelEntry, CGoto
      <4>2. c \notin timers /\ cpc'[c] = "draining"
        BY <4>1 DEF LinkInv, ServiceInv, TypeOK
      <4> QED BY <4>1, <4>2 DEF Linked
    <3>2. CASE DelTimer(c)
      <4>1. c \in timers /\ cpc' = cpc /\ timers' = timers \ {c}
        BY <3>2 DEF DelTimer, connVars
      <4> QED BY <4>1 DEF LinkInv, Linked
    <3> QED BY <1>9, <3>1, <3>2
  <2>4. Made' = Made
    BY <2>2 DEF Made
  <2>5. raddr[c] \in Peers
    BY <1>0, <2>1, ElementOfSeq DEF Made
  <2>6. ASSUME NEW d \in Made, Linked(d)' PROVE conns'[raddr'[d]] = d
    <3>1. Linked(d) /\ conns[raddr[d]] = d /\ d # c
      BY <1>1, <1>3, <2>3, <2>6 DEF ConnStays
    <3>2. conns[raddr[c]] = c
      BY <1>3, <2>1
    <3>3. raddr[d] # raddr[c] /\ raddr[d] \in Peers
      BY <1>0, <3>1, <3>2, ElementOfSeq DEF Made
    <3> QED BY <1>0, <2>2, <3>1, <3>3
  <2>7. \A v \in running : pc'[v] = "insert" => isNew'[v] /\ conns'[addr'[v]] = None
    <3> SUFFICES ASSUME NEW v \in running, pc[v] = "insert" PROVE isNew[v] /\ conns'[addr[v]] = None
      BY <2>2
    <3>1. isNew[v] /\ conns[addr[v]] = None /\ addr[v] \in Peers
      BY <1>0, <1>3 DEF ServiceInv, ServiceOK, Holding
    <3> QED BY <1>0, <2>2, <2>5, <3>1
  <2> QED BY <2>4, <2>6, <2>7
<1>10. ASSUME NEW c \in Conns, AcceptConn(c), ~DelEntry(c), ~DelTimer(c) PROVE Done
  <2>1. UNCHANGED <<conns, raddr, pc, isNew, addr>>
    BY <1>10 DEF AcceptConn, Read, ReadDone, CloseFlag, CloseBuff, Del, Drain, svcVars
  <2> QED BY <1>5, <2>1
<1>11. CASE Accept \/ Close \/ CloseCh
  BY <1>5, <1>11 DEF Accept, Close, CloseCh, svcVars, connVars
<1> QED BY <1>6, <1>7, <1>8, <1>9, <1>10, <1>11 DEF Next

\* The socket is closed with the last conn of a closed listener, and nothing comes
\* to the program after that.
LEMMA SocketKept ==
  ASSUME ServiceInv, OfferInv, LinkInv, SocketInv, Old, Next
  PROVE  SocketInv'
<1>0. /\ Made \subseteq Conns /\ raddr \in Seq(Peers) /\ running \in SUBSET Services
      /\ pc \in [Services -> {"read", "lookup", "insert", "put", "send", "steal", "offer", "offering", "done"}]
      /\ cpc \in [Conns -> {"new", "open", "accepted", "flagged", "closing", "deleting", "draining", "closed"}]
      /\ connCh \in Seq(Conns) /\ Len(connCh) \in Nat /\ None \notin Conns
  BY MadeAreConns, UdpAssumption DEF ServiceInv, TypeOK, Conns
<1>1. \A d \in Made : ConnStays(d)
  BY TimersKept
<1>2. running' = running /\ (closed => closed')
  <2>1. ASSUME NEW v \in Services, Service(v) PROVE running' = running /\ (closed => closed')
    <3>1. CASE ReadFails(v)
      BY <3>1 DEF ReadFails
    <3>2. CASE Panic
      BY <3>2 DEF Panic, svcVars, lisVars
    <3>3. CASE ReadFrom(v) \/ Lookup(v) \/ Insert(v) \/ Put(v) \/ Send(v) \/ Steal(v) \/ Offer(v)
      BY <3>3 DEF ReadFrom, Lookup, Insert, Put, Send, Steal, Offer, lisVars
    <3>4. CASE Offering(v)
      BY <3>4 DEF Offering
    <3> QED BY <2>1, <3>1, <3>2, <3>3, <3>4 DEF Service, SendPanic, OfferPanic
  <2>2. ASSUME NEW c \in Conns, AcceptConn(c) PROVE running' = running /\ (closed => closed')
    BY <2>2 DEF AcceptConn, Read, ReadDone, CloseFlag, CloseBuff, Del, DelEntry, DelTimer, Drain,
                svcVars, lisVars
  <2>3. CASE Accept \/ Close \/ CloseCh
    BY <2>3 DEF Accept, Close, CloseCh, svcVars
  <2> QED BY <2>1, <2>2, <2>3 DEF Next
<1> DEFINE Quiet == /\ \A c \in Made : cpc[c] # "accepted"
                    /\ \A i \in 1..Len(connCh) : FALSE
                    /\ \A v \in running : pc[v] # "offering"
\* The socket was closed before the step.
<1>3. ASSUME ~udpOpen, Cardinality(running) = 1 PROVE Quiet'
  <2>1. closed /\ Quiet
    BY <1>3 DEF SocketInv
  <2>2. connCh = <<>>
    BY <1>0, <2>1, EmptySeq
  <2>3. ~Accept /\ \A v \in Services : ~Offering(v)
    BY <2>1, <2>2 DEF Accept, Offering, At
  <2>4. connCh' = connCh
    BY <2>3 DEF Next, Service, AcceptConn, ReadFrom, ReadFails, Lookup, Insert, Put, Send, SendPanic,
           Steal, Offer, OfferPanic, Panic, Close, CloseCh, Read, ReadDone, CloseFlag,
           CloseBuff, Del, DelEntry, DelTimer, Drain, lisVars
  <2>5. ASSUME NEW v \in running, pc'[v] = "offering" PROVE FALSE
    <3>1. ASSUME NEW w \in Services, Service(w) PROVE FALSE
      <4>1. \/ pc' = pc
            \/ \E where \in {"read", "lookup", "insert", "put", "send", "steal", "offer", "done"} : pc' = [pc EXCEPT ![w] = where]
        BY <2>1, <2>3, <3>1 DEF Service, ReadFrom, ReadFails, Lookup, Insert, Put, Send, SendPanic,
           Steal, Offer, OfferPanic, Panic, svcVars, NextTurn, Goto
      <4> QED BY <1>0, <2>1, <2>5, <4>1
    <3>2. ASSUME ~\E w \in Services : Service(w) PROVE pc' = pc
      BY <3>2 DEF Next, AcceptConn, Accept, Close, CloseCh, Read, ReadDone, CloseFlag,
           CloseBuff, Del, DelEntry, DelTimer, Drain, svcVars
    <3> QED BY <2>1, <2>5, <3>1, <3>2
  <2>6. ASSUME NEW c \in Made', cpc'[c] = "accepted" PROVE FALSE
    <3>1. ASSUME NEW v \in Services, Insert(v) PROVE FALSE
      <4>1. PICK e \in Nat : e = Len(raddr) + 1 /\ Inserted(v, e)
        <5>1. Len(raddr) + 1 \in Nat
          BY DEF ServiceInv, TypeOK
        <5> QED BY <3>1, <5>1, InsertMakes
      <4>2. cpc' = [cpc EXCEPT ![e] = "open"] /\ e \in Conns /\ Made' = Made \cup {e}
        BY <3>1, <4>1 DEF Insert, Inserted
      <4> QED BY <1>0, <2>1, <2>6, <4>2
    <3>2. ASSUME ~\E v \in Services : Insert(v) PROVE raddr' = raddr
      BY <3>2 DEF Next, Service, AcceptConn, ReadFrom, ReadFails, Lookup, Put, Send, SendPanic, Steal,
         Offer, Offering, OfferPanic, Panic, Accept, Close, CloseCh, Read, ReadDone, CloseFlag,
         CloseBuff, Del, DelEntry, DelTimer, Drain, connVars
    <3>3. \A d \in Conns : cpc'[d] = "accepted" => cpc[d] = "accepted" \/ \E v \in Services : Insert(v)
      <4>1. \/ cpc' = cpc \/ \E v \in Services : Insert(v)
            \/ \E d \in Conns, w \in {"flagged", "closing", "deleting", "draining", "closed"} :
                 cpc' = [cpc EXCEPT ![d] = w]
        <5>1. ASSUME NEW v \in Services, Service(v), ~Insert(v) PROVE cpc' = cpc
          BY <5>1 DEF Service, ReadFrom, ReadFails, Lookup, Put, Send, SendPanic, Steal,
             Offer, Offering, OfferPanic, Panic, connVars
        <5>2. ASSUME NEW d \in Conns, AcceptConn(d)
              PROVE  \/ cpc' = cpc
                     \/ \E w \in {"flagged", "closing", "deleting", "draining", "closed"} : cpc' = [cpc EXCEPT ![d] = w]
          BY <5>2 DEF AcceptConn, Read, ReadDone, CloseFlag, CloseBuff, Del, DelEntry, DelTimer, Drain,
                      connVars, CGoto
        <5>3. ASSUME Close \/ CloseCh PROVE cpc' = cpc
          BY <5>3 DEF Close, CloseCh, connVars
        <5> QED BY <2>3, <5>1, <5>2, <5>3 DEF Next
      <4> QED BY <1>0, <4>1
    <3>4. Made' = Made
      BY <3>1, <3>2 DEF Made
    <3> QED BY <1>0, <2>1, <2>6, <3>1, <3>3, <3>4
  <2> QED BY <1>2, <2>1, <2>4, <2>5, <2>6
\* The step closes the socket.
<1>4. ASSUME udpOpen, ~udpOpen' PROVE closed /\ (Cardinality(running) = 1 => Quiet')
  <2>1. PICK c \in Conns : DelEntry(c) \/ DelTimer(c)
    BY <1>4 DEF Next, Service, AcceptConn, ReadFrom, ReadFails, Lookup, Insert, Put, Send, SendPanic, Steal,
         Offer, Offering, OfferPanic, Panic, Accept, Close, CloseCh, Read, ReadDone, CloseFlag,
         CloseBuff, Del, Drain
  <2>2. closed /\ Table \subseteq {raddr[c]}
    BY <1>4, <2>1 DEF DelEntry, DelTimer, _del
  <2>3. c \in Made /\ Linked(c) /\ cpc[c] \in {"deleting", "draining", "closed"}
    BY <2>1 DEF DelEntry, DelTimer, Linked, LinkInv, ServiceInv, TypeOK, SpareOK
  <2>4. UNCHANGED <<pc, connCh, raddr>>
    BY <2>1 DEF DelEntry, DelTimer, svcVars, lisVars, connVars
  <2>5. ASSUME Cardinality(running) = 1, NEW d \in Made, cpc[d] \in {"open", "accepted"} PROVE FALSE
    <3>1. conns[raddr[d]] = d /\ conns[raddr[c]] = c
      BY <2>3, <2>5 DEF LinkInv, Linked
    <3>2. raddr[d] \in Peers
      BY <1>0, ElementOfSeq DEF Made
    <3>3. raddr[d] \in Table
      BY <1>0, <3>1, <3>2 DEF Table
    <3>4. d = c
      BY <2>2, <3>1, <3>3
    <3> QED BY <2>3, <2>5, <3>4
  <2>6. ASSUME Cardinality(running) = 1 PROVE Quiet'
    <3>1. Made' = Made
      BY <2>4 DEF Made
    <3>2. \A d \in Made' : cpc'[d] # "accepted"
      BY <1>1, <2>5, <2>6, <3>1 DEF ConnStays
    <3>3. \A i \in 1..Len(connCh') : FALSE
      BY <2>4, <2>5, <2>6 DEF OfferInv
    <3>4. \A v \in running : pc'[v] # "offering"
      <4> SUFFICES ASSUME NEW v \in running, pc[v] = "offering" PROVE FALSE
        BY <2>4
      <4>1. Fresh(v) /\ a[v] \in Made
        BY <1>0 DEF OfferInv, Fresh, Serving, ServiceInv, ServiceOK
      <4> QED BY <1>0, <2>5, <2>6, <4>1 DEF OfferInv
    <3> QED BY <1>2, <3>2, <3>3, <3>4
  <2> QED BY <2>2, <2>6
<1>5. udpOpen \in BOOLEAN
  BY DEF ServiceInv, TypeOK
<1>6. ~udpOpen => closed
  BY DEF SocketInv
<1> HIDE DEF Quiet
<1>7. ~udpOpen' => closed' /\ (Cardinality(running') = 1 => Quiet')
  BY <1>2, <1>3, <1>4, <1>6
<1> QED BY <1>7 DEF SocketInv, Quiet

(***************************************************************************)
(* The whole invariant, and what follows from it.                          *)
(***************************************************************************)

UdpInv == ServiceInv /\ OwnedOnce /\ ReadsOwnPeer /\ OfferInv /\ LinkInv /\ SocketInv

\* The listener starts in the invariant.
LEMMA UdpInvInit == Init => UdpInv
<1> SUFFICES ASSUME Init PROVE UdpInv
  OBVIOUS
<1>1. Made = {} /\ Len(raddr) = 0 /\ raddr = <<>>
  BY DEF Init, Made
<1>2. \A c \in Conns : buff[c] = <<>> /\ Len(buff[c]) = 0 /\ rd[c] = None
  BY DEF Init
<1>3. running \in SUBSET Services /\ running # {}
  BY DEF Init
<1>4. TypeOK
  <2>1. raddr \in Seq(Peers) /\ Len(raddr) <= MaxConns /\ connCh \in Seq(Conns)
    BY <1>1, UdpAssumption DEF Init
  <2>2. buff \in [Conns -> Seq(Segs)] /\ \A c \in Conns : Len(buff[c]) <= BuffCap
    BY <1>2, UdpAssumption DEF Init
  <2>3. /\ pc \in [Services -> {"read", "lookup", "insert", "put", "send", "steal", "offer", "offering", "done"}]
        /\ seg \in [Services -> Segs \cup {None}]
        /\ addr \in [Services -> Peers \cup {None}]
        /\ a \in [Services -> Conns \cup {None}]
        /\ isNew \in [Services -> BOOLEAN]
    BY DEF Init
  <2>4. /\ pool \in SUBSET Segs /\ timers \in SUBSET Conns
        /\ data \in [Segs -> Peers \cup {None}]
        /\ conns \in [Peers -> Conns \cup {None}]
        /\ rd \in [Conns -> Segs \cup {None}]
    BY DEF Init
  <2>5. /\ cpc \in [Conns -> {"new", "open", "accepted", "flagged", "closing", "deleting", "draining", "closed"}]
        /\ \A c \in Conns : cpc[c] # "new" <=> c \in Made
    BY <1>1 DEF Init
  <2>6. chOpen \in BOOLEAN /\ closed \in BOOLEAN /\ udpOpen \in BOOLEAN /\ panicked \in BOOLEAN
    BY Zenon DEF Init
  <2> QED BY <1>3, <2>1, <2>2, <2>3, <2>4, <2>5, <2>6 DEF TypeOK
<1>5. ServiceInv
  BY <1>1, <1>2, <1>3, <1>4 DEF Init, ServiceInv, TableOK, SpareOK, ServiceOK, Holding, Serving, Putting
<1>6. OwnedOnce
  BY <1>2 DEF Init, OwnedOnce, SegOnce, RdOnce, BuffOnce, SegNotRd, BuffNotRd, BuffNotSeg, PoolFree
<1>7. ReadsOwnPeer
  BY <1>1 DEF ReadsOwnPeer
<1>8. OfferInv
  BY DEF Init, OfferInv, Fresh
<1>9. LinkInv
  BY <1>1, <1>3 DEF Init, LinkInv
<1>10. SocketInv
  BY DEF Init, SocketInv
<1> QED BY <1>5, <1>6, <1>7, <1>8, <1>9, <1>10 DEF UdpInv

\* Every step keeps it.
LEMMA UdpInvStep == UdpInv /\ [Next]_vars => UdpInv'
<1>1. ASSUME UdpInv, Next PROVE UdpInv'
  <2>1. ServiceInv /\ OwnedOnce /\ ReadsOwnPeer /\ OfferInv /\ LinkInv /\ SocketInv
    BY <1>1 DEF UdpInv
  <2>2. \/ \E v \in Services : Service(v)
        \/ Accept \/ Close \/ CloseCh \/ \E c \in Conns : AcceptConn(c)
    BY <1>1 DEF Next
  <2>3. Old /\ \A w \in Services : ServiceOK(w)'
    BY <2>1, <2>2, ServicesKeep, ProgramKeeps
  <2>4. \A i \in 1..Len(connCh) : connCh[i] \in Made
    BY <2>1 DEF OfferInv
  <2>5. TypeOK'
    BY <2>1, <2>2, <2>4, ServiceTypes, QueueTypes, ProgramTypes
  <2>6. running' = running
    BY <1>1 DEF Next, Service, AcceptConn, ReadFrom, ReadFails, Lookup, Insert, Put, Send, SendPanic, Steal,
         Offer, Offering, OfferPanic, Panic, Accept, Close, CloseCh, Read, ReadDone, CloseFlag,
         CloseBuff, Del, DelEntry, DelTimer, Drain, svcVars
  <2>7. TableOK' /\ SpareOK'
    BY <1>1, <2>1, <2>3, TableKept, SpareKept
  <2>8. ServiceInv'
    BY <2>1, <2>3, <2>5, <2>6, <2>7 DEF ServiceInv
  <2>9. OwnedOnce' /\ ReadsOwnPeer'
    BY <2>1, <2>2, ServiceOwns, ProgramOwns, ServiceReadsOwn, ProgramReadsOwn
  <2>10. OfferInv' /\ LinkInv' /\ SocketInv'
    BY <1>1, <2>1, <2>3, OffersKept, LinksKept, SocketKept
  <2> QED BY <2>8, <2>9, <2>10 DEF UdpInv
<1>2. ASSUME UdpInv, UNCHANGED vars PROVE UdpInv'
  <2>1. UNCHANGED <<running, pc, seg, addr, a, isNew, pool, data, conns, raddr, buff, cpc, rd, timers,
                    connCh, chOpen, closed, udpOpen, panicked>>
    BY <1>2 DEF vars, svcVars, bufVars, connVars, lisVars
  <2>2. Made' = Made
    BY <2>1 DEF Made
  <2>3. TypeOK'
    BY <1>2, <2>1, <2>2 DEF UdpInv, ServiceInv, TypeOK
  <2>4. ServiceInv'
    BY <1>2, <2>1, <2>2, <2>3 DEF UdpInv, ServiceInv, TableOK, SpareOK, ServiceOK
  <2>5. OwnedOnce' /\ ReadsOwnPeer'
    BY <1>2, <2>1, <2>2 DEF UdpInv, OwnedOnce, SegOnce, RdOnce, BuffOnce, SegNotRd, BuffNotRd, BuffNotSeg,
                            PoolFree, ReadsOwnPeer
  <2>6. OfferInv'
    BY <1>2, <2>1, <2>2 DEF UdpInv, OfferInv, Fresh
  <2>7. LinkInv' /\ SocketInv'
    BY <1>2, <2>1, <2>2 DEF UdpInv, Flagged, LinkInv, Linked, SocketInv
  <2> QED BY <2>4, <2>5, <2>6, <2>7 DEF UdpInv
<1> QED BY <1>1, <1>2

\* The listener is always in the invariant.
THEOREM UdpInvariant == Spec => []UdpInv
BY UdpInvInit, UdpInvStep, PTL DEF Spec

\* Type correctness: the channels stay within their capacities, and the conns made
\* are those that left the state "new".
THEOREM UdpTypeCorrect == Spec => []TypeOK
<1>1. UdpInv => TypeOK
  BY DEF UdpInv, ServiceInv
<1> QED BY <1>1, UdpInvariant, PTL

\* No buffer is in two places, whatever services, readers and closers recycle them.
THEOREM BuffersHaveOneOwner == Spec => []BuffersOwnedOnce
<1>1. UdpInv => BuffersOwnedOnce
  <2> SUFFICES ASSUME UdpInv PROVE BuffersOwnedOnce
    OBVIOUS
  <2>1. Services # {} /\ OwnedOnce
    BY DEF UdpInv, ServiceInv, TypeOK
  <2> QED BY <2>1, OwnedOnceIs
<1> QED BY <1>1, UdpInvariant, PTL

\* A conn reads only its own peer's datagrams.
THEOREM ConnsReadTheirOwn == Spec => []ReadsOwnPeer
<1>1. UdpInv => ReadsOwnPeer
  BY DEF UdpInv
<1> QED BY <1>1, UdpInvariant, PTL

\* Accept gives every conn out once, for any number of services and datagrams and
\* any capacity of connCh: what a service made is its own until it is offered.
THEOREM ConnsAcceptedOnce == Spec => []AcceptedOnce
<1>1. UdpInv => AcceptedOnce
  BY DEF UdpInv, OfferInv, AcceptedOnce
<1> QED BY <1>1, UdpInvariant, PTL

\* With one service a peer has one conn that is not closed.
THEOREM PeersHaveOneConn == Spec => []OneConnPerPeer
<1>1. UdpInv => OneConnPerPeer
  <2> SUFFICES ASSUME UdpInv, Cardinality(running) = 1, NEW c \in Made, NEW d \in Made,
                      raddr[c] = raddr[d], ~Flagged(c), ~Flagged(d)
               PROVE  c = d
    BY DEF OneConnPerPeer
  <2>1. \A e \in Made : ~Flagged(e) => Linked(e)
    <3>1. /\ \A e \in Made : cpc[e] # "new"
          /\ \A e \in Made : cpc[e] \in {"new", "open", "accepted", "flagged", "closing", "deleting",
                                         "draining", "closed"}
      BY MadeAreConns DEF UdpInv, ServiceInv, TypeOK
    <3> QED BY <3>1 DEF Flagged, Linked
  <2>2. conns[raddr[c]] = c /\ conns[raddr[d]] = d
    BY <2>1 DEF UdpInv, LinkInv
  <2> QED BY <2>2
<1> QED BY <1>1, UdpInvariant, PTL

\* With one service the socket outlives the conns the program uses, and it is never
\* closed before the listener.
THEOREM SocketStaysOpen == Spec => []SocketOutlivesConns
<1>1. UdpInv => SocketOutlivesConns
  BY DEF UdpInv, SocketInv, SocketOutlivesConns, InUseByProgram
<1> QED BY <1>1, UdpInvariant, PTL
=============================================================================
