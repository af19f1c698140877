----------------------------- MODULE UdpListener -----------------------------
(***************************************************************************)
(* udp.Listener and its acceptConns (src/conn/udp): net.Listener over one  *)
(* UDP socket.                                                             *)
(*                                                                         *)
(* Listen starts one accept service per CPU.  Each takes a buffer from the *)
(* pool, reads a datagram into it, finds or makes the acceptConn of the    *)
(* sender, and puts the buffer on the conn's channel; a new conn is        *)
(* offered to Accept.  Read and Close of a conn take buffers off its       *)
(* channel and give them back to the pool.  A closed conn stays in the     *)
(* table until a timer removes it, unless it is the last one.              *)
(*                                                                         *)
(* A buffer's contents are abstracted to the peer whose datagram it holds. *)
(* A channel is a sequence and a flag: a send on a closed one panics, a    *)
(* receive drains it first.                                                *)
(***************************************************************************)
EXTENDS Integers, Sequences, FiniteSets

CONSTANTS Services,   \* accept services, one per CPU
          Peers,      \* client addresses
          MaxConns,   \* bound on the acceptConns made, shared out among the services
          Segs,       \* the buffers there can be at a time
          BuffCap,    \* capacity of acceptConn.buff
          ChCap,      \* capacity of Listener.connCh
          Faults,     \* whether reading the socket may fail while it is open
          None

ASSUME UdpAssumption ==
  /\ MaxConns \in Nat /\ BuffCap \in Nat \ {0} /\ ChCap \in Nat
  /\ Faults \in BOOLEAN /\ IsFiniteSet(Services)
  /\ None \notin Segs \cup (1..MaxConns)

VARIABLES running,       \* the services Listen started
          pc,            \* per service: its place
          seg, addr, a,  \* per service: buffer, sender, conn in hand
          isNew,         \* per service: ~has
          pool,          \* buffers in Listener.pool
          data,          \* per buffer: whose datagram it holds
          conns,         \* Listener.conns
          raddr,         \* the conns made so far, by peer
          buff,          \* per conn: its channel
          cpc,           \* per conn: how far the program got with it
          rd,            \* per conn: the buffer Read holds
          timers,        \* conns whose delayed _del is pending
          connCh, chOpen, closed,   \* Accept's channel, closeErr
          udpOpen, panicked

svcVars == <<running, pc, seg, addr, a, isNew>>
bufVars == <<pool, data>>
connVars == <<raddr, buff, cpc, rd>>
lisVars == <<connCh, chOpen, closed>>
vars == <<svcVars, bufVars, conns, connVars, timers, lisVars, udpOpen, panicked>>

Conns == 1..MaxConns
Made == 1..Len(raddr)

Flagged(c) == cpc[c] \in {"flagged", "closing", "deleting", "draining", "closed"}
BuffClosed(c) == Flagged(c) /\ cpc[c] # "flagged"

Init == /\ \E s \in Services : running \in {{s}, Services}
        /\ pc = [v \in Services |-> "read"]
        /\ seg = [v \in Services |-> None]
        /\ addr = [v \in Services |-> None]
        /\ a = [v \in Services |-> None]
        /\ isNew = [v \in Services |-> FALSE]
        /\ pool = {} /\ data = [s \in Segs |-> None]
        /\ conns = [p \in Peers |-> None]
        /\ raddr = <<>>
        /\ buff = [c \in Conns |-> <<>>]
        /\ cpc = [c \in Conns |-> "new"]
        /\ rd = [c \in Conns |-> None]
        /\ timers = {}
        /\ connCh = <<>> /\ chOpen = TRUE /\ closed = FALSE
        /\ udpOpen = TRUE /\ panicked = FALSE

Goto(v, where) == pc' = [pc EXCEPT ![v] = where]
At(v, where) == ~panicked /\ v \in running /\ pc[v] = where

InUse == {seg[v] : v \in Services} \cup {rd[c] : c \in Conns}
         \cup UNION {{buff[c][i] : i \in 1..Len(buff[c])} : c \in Conns}

Table == {p \in Peers : conns[p] # None}

\* Panic: a send on a closed channel takes the process down.
Panic == /\ panicked' = TRUE
         /\ UNCHANGED <<svcVars, bufVars, conns, connVars, timers, lisVars, udpOpen>>

\* The contents of buffers nobody uses are of no interest.
Unused(S) == data' = [s \in Segs |-> IF s \in S THEN None ELSE data[s]]

\* Mutant of PutBack: a nil buffer is pooled too.
PutBackNil(S) == pool' = pool \cup S /\ Unused(S)

\* Listener.put, which ignores nil.
PutBack(S) == pool' = pool \cup (S \ {None}) /\ Unused(S)

(***************************************************************************)
(* accpetService.                                                          *)
(***************************************************************************)

\* A buffer, from the pool or new, and a datagram in it.
ReadFrom(v) ==
  /\ At(v, "read") /\ udpOpen
  /\ \E s \in pool \cup (Segs \ InUse), p \in Peers :
       /\ pool' = pool \ {s}
       /\ data' = [data EXCEPT ![s] = p]
       /\ seg' = [seg EXCEPT ![v] = s]
       /\ addr' = [addr EXCEPT ![v] = p]
  /\ Goto(v, "lookup")
  /\ UNCHANGED <<running, a, isNew, conns, connVars, timers, lisVars, udpOpen, panicked>>

\* The read fails: the service closes the listener and returns.
ReadFails(v) == /\ At(v, "read")
                /\ ~udpOpen \/ Faults
                /\ closed' = TRUE
                /\ Goto(v, "done")
                /\ UNCHANGED <<running, seg, addr, a, isNew, bufVars, conns, connVars,
                               timers, connCh, chOpen, udpOpen, panicked>>

\* The table is read under connsMu.RLock.
Lookup(v) ==
  LET c == conns[addr[v]] IN
  /\ At(v, "lookup")
  /\ a' = [a EXCEPT ![v] = c]
  /\ isNew' = [isNew EXCEPT ![v] = c = None]
  /\ Goto(v, IF c = None THEN "insert" ELSE "put")
  /\ UNCHANGED <<running, seg, addr, bufVars, conns, connVars, timers, lisVars,
                 udpOpen, panicked>>

\* newAcceptConn, and the table is written under connsMu.Lock: whatever another
\* service put there since the lookup is overwritten.
Insert(v) ==
  LET c == Len(raddr) + 1 IN
  /\ At(v, "insert") /\ c * Cardinality(running) <= MaxConns
  /\ raddr' = Append(raddr, addr[v])
  /\ cpc' = [cpc EXCEPT ![c] = "open"]
  /\ a' = [a EXCEPT ![v] = c]
  /\ conns' = [conns EXCEPT ![addr[v]] = c]
  /\ Goto(v, "put")
  /\ UNCHANGED <<running, seg, addr, isNew, bufVars, buff, rd, timers, lisVars,
                 udpOpen, panicked>>

\* put: the loop's condition; the buffer is dropped when the conn is closed.
Put(v) == /\ At(v, "put")
          /\ IF Flagged(a[v])
             THEN Goto(v, "offer") /\ seg' = [seg EXCEPT ![v] = None] /\ Unused({seg[v]})
             ELSE Goto(v, "send") /\ UNCHANGED <<seg, data>>
          /\ UNCHANGED <<running, addr, a, isNew, pool, conns, connVars, timers,
                         lisVars, udpOpen, panicked>>

\* Mutant of Send: the service keeps using the buffer it sent.
SendKept(v) ==
  /\ At(v, "send") /\ ~BuffClosed(a[v])
  /\ IF Len(buff[a[v]]) < BuffCap
     THEN /\ buff' = [buff EXCEPT ![a[v]] = Append(@, seg[v])]
          /\ pool' = pool \cup {seg[v]}
          /\ seg' = [seg EXCEPT ![v] = None]
          /\ Goto(v, "offer")
     ELSE Goto(v, "steal") /\ UNCHANGED <<buff, seg, pool>>
  /\ UNCHANGED <<running, addr, a, isNew, data, conns, raddr, cpc, rd, timers,
                 lisVars, udpOpen, panicked>>

\* put: case c.buff <- s, or default when the channel is full.
Send(v) ==
  /\ At(v, "send") /\ ~BuffClosed(a[v])
  /\ IF Len(buff[a[v]]) < BuffCap
     THEN /\ buff' = [buff EXCEPT ![a[v]] = Append(@, seg[v])]
          /\ seg' = [seg EXCEPT ![v] = None]
          /\ Goto(v, "offer")
     ELSE Goto(v, "steal") /\ UNCHANGED <<buff, seg>>
  /\ UNCHANGED <<running, addr, a, isNew, bufVars, conns, raddr, cpc, rd, timers,
                 lisVars, udpOpen, panicked>>

SendPanic(v) == At(v, "send") /\ BuffClosed(a[v]) /\ Panic

\* put: c.l.put(<-c.buff).  The receive waits when a reader was faster, and
\* gives nil when the conn was closed.
Steal(v) ==
  LET q == buff[a[v]] IN
  /\ At(v, "steal")
  /\ q # <<>> \/ BuffClosed(a[v])
  /\ PutBack({IF q = <<>> THEN None ELSE Head(q)})
  /\ buff' = [buff EXCEPT ![a[v]] = IF q = <<>> THEN q ELSE Tail(q)]
  /\ Goto(v, "put")
  /\ UNCHANGED <<running, seg, addr, a, isNew, conns, raddr, cpc, rd, timers,
                 lisVars, udpOpen, panicked>>

\* The locals of one turn of the loop go out of scope.
NextTurn(v) == /\ Goto(v, "read")
               /\ addr' = [addr EXCEPT ![v] = None]
               /\ a' = [a EXCEPT ![v] = None]
               /\ isNew' = [isNew EXCEPT ![v] = FALSE]

\* Mutant of Offer: a conn that the table had is offered too.
OfferAll(v) == /\ At(v, "offer")
               /\ IF ~closed
                  THEN Goto(v, "offering") /\ UNCHANGED <<addr, a, isNew>>
                  ELSE NextTurn(v)
               /\ UNCHANGED <<running, seg, bufVars, conns, connVars, timers, lisVars,
                              udpOpen, panicked>>

\* if !has && !l.closeErr.Closed().
Offer(v) == /\ At(v, "offer")
            /\ IF isNew[v] /\ ~closed
               THEN Goto(v, "offering") /\ UNCHANGED <<addr, a, isNew>>
               ELSE NextTurn(v)
            /\ UNCHANGED <<running, seg, bufVars, conns, connVars, timers, lisVars,
                           udpOpen, panicked>>

\* The conn goes to Accept; when connCh is full nobody will ever get it.
Offering(v) ==
  /\ At(v, "offering") /\ chOpen
  /\ connCh' = IF Len(connCh) < ChCap THEN Append(connCh, a[v]) ELSE connCh
  /\ NextTurn(v)
  /\ UNCHANGED <<running, seg, bufVars, conns, connVars, timers, chOpen, closed,
                 udpOpen, panicked>>

OfferPanic(v) == At(v, "offering") /\ ~chOpen /\ Panic

(***************************************************************************)
(* The program: Accept, Read and Close of a conn (once), Close of the      *)
(* listener.                                                               *)
(***************************************************************************)

Accept == /\ ~panicked /\ connCh # <<>>
          /\ cpc' = [cpc EXCEPT ![Head(connCh)] = "accepted"]
          /\ connCh' = Tail(connCh)
          /\ UNCHANGED <<svcVars, bufVars, conns, raddr, buff, rd, timers, chOpen,
                         closed, udpOpen, panicked>>

\* Mutant of Read: the buffer goes back to the pool before it is copied.
ReadPooled(c) ==
  /\ ~panicked /\ cpc[c] \notin {"new", "open"} /\ rd[c] = None /\ buff[c] # <<>>
  /\ rd' = [rd EXCEPT ![c] = Head(buff[c])]
  /\ pool' = pool \cup {Head(buff[c])}
  /\ buff' = [buff EXCEPT ![c] = Tail(@)]
  /\ UNCHANGED <<svcVars, data, conns, raddr, cpc, timers, lisVars, udpOpen, panicked>>

\* acceptConn.Read takes a buffer.
Read(c) ==
  /\ ~panicked /\ cpc[c] \notin {"new", "open"} /\ rd[c] = None /\ buff[c] # <<>>
  /\ rd' = [rd EXCEPT ![c] = Head(buff[c])]
  /\ buff' = [buff EXCEPT ![c] = Tail(@)]
  /\ UNCHANGED <<svcVars, bufVars, conns, raddr, cpc, timers, lisVars, udpOpen, panicked>>

\* acceptConn.Read has copied the data: the deferred put.
ReadDone(c) == /\ ~panicked /\ rd[c] # None
               /\ PutBack({rd[c]})
               /\ rd' = [rd EXCEPT ![c] = None]
               /\ UNCHANGED <<svcVars, conns, raddr, buff, cpc, timers, lisVars,
                              udpOpen, panicked>>

CGoto(c, where) == cpc' = [cpc EXCEPT ![c] = where]

\* acceptConn.Close: the flag, then the channel.
CloseFlag(c) == /\ ~panicked /\ cpc[c] = "accepted"
                /\ CGoto(c, "flagged")
                /\ UNCHANGED <<svcVars, bufVars, conns, raddr, buff, rd, timers, lisVars,
                               udpOpen, panicked>>

CloseBuff(c) == /\ ~panicked /\ cpc[c] = "flagged"
                /\ CGoto(c, "closing")
                /\ UNCHANGED <<svcVars, bufVars, conns, raddr, buff, rd, timers, lisVars,
                               udpOpen, panicked>>

\* Mutant of Del: the entry is removed now and once more by the timer.
DelTwice(c) == /\ ~panicked /\ cpc[c] = "closing"
               /\ CGoto(c, "deleting")
               /\ timers' = timers \cup {c}
               /\ UNCHANGED <<svcVars, bufVars, conns, raddr, buff, rd, lisVars, udpOpen, panicked>>

\* Listener.del reads the size of the table and removes the entry now, or
\* leaves that to a timer.
Del(c) == /\ ~panicked /\ cpc[c] = "closing"
          /\ IF Cardinality(Table) = 1
             THEN CGoto(c, "deleting") /\ UNCHANGED timers
             ELSE CGoto(c, "draining") /\ timers' = timers \cup {c}
          /\ UNCHANGED <<svcVars, bufVars, conns, raddr, buff, rd, lisVars, udpOpen, panicked>>

\* Mutant of _del: the socket is closed with the last conn, listener open or not.
_delUdp(p) == /\ conns' = [conns EXCEPT ![p] = None]
              /\ udpOpen' = (udpOpen /\ Table \ {p} # {})

\* Listener._del, under connsMu: the last conn of a closed listener closes the
\* socket.
_del(p) == /\ conns' = [conns EXCEPT ![p] = None]
           /\ udpOpen' = (udpOpen /\ ~(closed /\ Table \subseteq {p}))

DelEntry(c) == /\ ~panicked /\ cpc[c] = "deleting"
               /\ _del(raddr[c])
               /\ CGoto(c, "draining")
               /\ UNCHANGED <<svcVars, bufVars, raddr, buff, rd, timers, lisVars, panicked>>

DelTimer(c) == /\ ~panicked /\ c \in timers
               /\ _del(raddr[c])
               /\ timers' = timers \ {c}
               /\ UNCHANGED <<svcVars, bufVars, connVars, lisVars, panicked>>

\* acceptConn.Close: the rest of the channel goes back to the pool.
Drain(c) == /\ ~panicked /\ cpc[c] = "draining"
            /\ PutBack({buff[c][i] : i \in 1..Len(buff[c])})
            /\ buff' = [buff EXCEPT ![c] = <<>>]
            /\ CGoto(c, "closed")
            /\ UNCHANGED <<svcVars, conns, raddr, rd, timers, lisVars, udpOpen, panicked>>

\* Listener.close runs once: closeErr is set, then connCh is closed.
Close == /\ ~panicked /\ ~closed
         /\ closed' = TRUE
         /\ UNCHANGED <<svcVars, bufVars, conns, connVars, timers, connCh, chOpen,
                        udpOpen, panicked>>

CloseCh == /\ ~panicked /\ closed /\ chOpen
           /\ chOpen' = FALSE
           /\ UNCHANGED <<svcVars, bufVars, conns, connVars, timers, connCh, closed,
                          udpOpen, panicked>>

Service(v) == \/ ReadFrom(v) \/ ReadFails(v) \/ Lookup(v) \/ Insert(v)
              \/ Put(v) \/ Send(v) \/ SendPanic(v) \/ Steal(v)
              \/ Offer(v) \/ Offering(v) \/ OfferPanic(v)

AcceptConn(c) == \/ Read(c) \/ ReadDone(c) \/ CloseFlag(c) \/ CloseBuff(c) \/ Del(c)
                 \/ DelEntry(c) \/ DelTimer(c) \/ Drain(c)

Next == \/ \E v \in Services : Service(v)
        \/ Accept \/ Close \/ CloseCh
        \/ \E c \in Conns : AcceptConn(c)

Spec == Init /\ [][Next]_vars

(***************************************************************************)
(* Properties.                                                             *)
(***************************************************************************)

\* Type invariant.
TypeOK ==
  /\ running \in SUBSET Services
  /\ pc \in [Services -> {"read", "lookup", "insert", "put", "send", "steal",
                          "offer", "offering", "done"}]
  /\ seg \in [Services -> Segs \cup {None}]
  /\ addr \in [Services -> Peers \cup {None}]
  /\ a \in [Services -> Conns \cup {None}]
  /\ isNew \in [Services -> BOOLEAN]
  /\ pool \in SUBSET Segs
  /\ data \in [Segs -> Peers \cup {None}]
  /\ conns \in [Peers -> Conns \cup {None}]
  /\ raddr \in Seq(Peers) /\ Len(raddr) <= MaxConns
  /\ buff \in [Conns -> Seq(Segs)]
  /\ \A c \in Conns : Len(buff[c]) <= BuffCap
  /\ cpc \in [Conns -> {"new", "open", "accepted", "flagged", "closing", "deleting",
                        "draining", "closed"}]
  /\ \A c \in Conns : cpc[c] # "new" <=> c \in Made
  /\ rd \in [Conns -> Segs \cup {None}]
  /\ timers \in SUBSET Conns
  /\ connCh \in Seq(Conns)
  /\ chOpen \in BOOLEAN /\ closed \in BOOLEAN /\ udpOpen \in BOOLEAN /\ panicked \in BOOLEAN

\* No buffer is in two places: one that sits on a channel, is being filled by a
\* service or copied by Read is neither in the pool nor anywhere else.
BuffersOwnedOnce ==
  /\ \A v, w \in Services : seg[v] # None /\ seg[v] = seg[w] => v = w
  /\ \A c, d \in Conns : rd[c] # None /\ rd[c] = rd[d] => c = d
  /\ \A c, d \in Conns : \A i \in 1..Len(buff[c]), j \in 1..Len(buff[d]) :
       buff[c][i] = buff[d][j] => c = d /\ i = j
  /\ \A c \in Conns, v \in Services : seg[v] # None => seg[v] # rd[c]
  /\ \A c, d \in Conns : \A i \in 1..Len(buff[c]) :
       buff[c][i] # rd[d] /\ \A v \in Services : buff[c][i] # seg[v]
  /\ pool \cap InUse = {}

\* A conn reads only its own peer's datagrams, whatever buffers are recycled
\* while Read copies and however many services and conns there are for a peer.
ReadsOwnPeer ==
  \A c \in Made : /\ rd[c] # None => data[rd[c]] = raddr[c]
                  /\ \A i \in 1..Len(buff[c]) : data[buff[c][i]] = raddr[c]

\* Accept gives a conn out once: one that waits in connCh was never accepted and
\* waits there once, however datagrams, services and closed conns mix.  The second
\* user of a conn would close its channel again.
AcceptedOnce ==
  /\ \A i \in 1..Len(connCh) : cpc[connCh[i]] = "open"
  /\ \A i, j \in 1..Len(connCh) : connCh[i] = connCh[j] => i = j

InUseByProgram(c) == cpc[c] = "accepted"

\* With a single service a peer has one conn: two conns of one peer are never
\* both unclosed, though a closed one lingers in the table.
OneConnPerPeer ==
  Cardinality(running) = 1 =>
    \A c, d \in Made : raddr[c] = raddr[d] /\ ~Flagged(c) /\ ~Flagged(d) => c = d

\* With a single service the socket outlives the conns: it is closed only when
\* the listener is closed and no accepted conn is still in use.
SocketOutlivesConns ==
  ~udpOpen => closed /\ (Cardinality(running) = 1 => ~\E c \in Made : InUseByProgram(c))
=============================================================================
