----------------------------- MODULE LinkManager -----------------------------
(***************************************************************************)
(* The proxy server's data path: one serveConn goroutine per client        *)
(* connection (src/server.go) over one linkManager                         *)
(* (src/links/maps/maps.go) and its ports.Adapter.                         *)
(*                                                                         *)
(* serveConn receives a packet, looks its Uplink up and on a miss calls    *)
(* Add: Cleanup, GetPort, insert into uplinkMap and ttl, insert into       *)
(* downlinkMap.  Cleanup sweeps the ttl queue under uplinkMu, then deletes *)
(* the swept links from downlinkMap under donwlinkMu, then returns their   *)
(* ports.  Every lock release is a point where another goroutine may run.  *)
(* recvService, the way back, only reads downlinkMap: ReturnPath says what *)
(* it must find there.                                                     *)
(*                                                                         *)
(* The counter in a `port' matters only as zero or not: `busy' is the set  *)
(* of links whose counter is not zero.  The ttl queue is a links.Heap,     *)
(* which implements a FIFO queue (module HeapProofs).  Instead of the time *)
(* an entry started it holds its age, which stops at TTL + 1: all that     *)
(* time.Since(start) > duration can tell.  Time is therefore unbounded.    *)
(***************************************************************************)
EXTENDS PortAdapter, Naturals, Sequences

CONSTANTS Conns,      \* accepted client connections
          Sends,      \* Sends[c]: the uplinks whose packets arrive on c
          TTL,        \* linkManager.duration
          MaxTtl,     \* bound on the length of the ttl queue
          MayClose,   \* whether the server may be closed
          None        \* an absent map entry, an unset local, a free lock

\* Uplink: proc is the address serveConn computes, the tunnel's remote IP
\* with the process's port.
AllUplinks == UNION {Sends[c] : c \in Conns}

ASSUME LinksAssumption ==
  /\ TTL \in Nat /\ MaxTtl \in Nat /\ MayClose \in BOOLEAN
  /\ \A c \in Conns : \A u \in Sends[c] :
       u.proto \in Transports /\ u.server \in Remotes
  /\ None \notin Ports \cup Conns

\* An entry of downlinkMap is not an absent one.
ASSUME ReturnAssumption == None \notin Conns \X {u.proc[2] : u \in AllUplinks}

VARIABLES uplinkMap,     \* local port of a link, None if absent
          busy,          \* links used since the last sweep looked at them
          ttl,           \* queue of [up, age]
          uplinkMu,      \* the goroutine that holds the write lock
          downlinkMap,   \* downkey of a Downlink, None if absent
          pc, cur, key,  \* per goroutine: place, packet's uplink, port in hand
          swept,         \* per goroutine: Cleanup's ups with their ports
          idx,           \* Cleanup's loop index, of the holder of uplinkMu
          due,           \* history: idle links past their ttl when that sweep began
          unused,        \* history: time since a link last carried a packet up
          raced,         \* history: ports that a GetPort recorded after a stale scan
          late,          \* history: return paths added after their link was swept, while they stay
          orphaned,      \* history: leases whose link was overwritten in uplinkMap
          closed, panicked

sweepVars == <<uplinkMu, idx, due>>
linkVars == <<uplinkMap, busy, ttl, downlinkMap, unused, sweepVars>>
connVars == <<pc, cur, key, swept>>
histVars == <<raced, late, orphaned>>
envVars == <<histVars, closed, panicked>>
vars == <<adapterVars, linkVars, connVars, envVars>>


KeyOf(u, p) == <<u.proto, p>>
DownOf(u, p) == <<u.server, u.proto, p>>
Downlink == Remotes \X Transports \X Ports
Links == {u \in AllUplinks : uplinkMap[u] # None}

Init == /\ AdapterInit
        /\ uplinkMap = [u \in AllUplinks |-> None]
        /\ busy = {} /\ ttl = <<>> /\ uplinkMu = None
        /\ downlinkMap = [d \in Downlink |-> None]
        /\ unused = [u \in AllUplinks |-> 0]
        /\ pc = [c \in Conns |-> "recv"]
        /\ cur = [c \in Conns |-> None]
        /\ key = [c \in Conns |-> None]
        /\ swept = [c \in Conns |-> {}]
        /\ idx = 0 /\ due = {}
        /\ raced = {} /\ late = {} /\ orphaned = {}
        /\ closed = FALSE /\ panicked = FALSE

Goto(c, where) == pc' = [pc EXCEPT ![c] = where]

At(c, where) == ~panicked /\ pc[c] = where

(***************************************************************************)
(* serveConn.                                                              *)
(***************************************************************************)

\* A packet arrives, or the connection fails and the goroutine returns.
Recv(c) == /\ At(c, "recv")
           /\ \/ \E u \in Sends[c] : cur' = [cur EXCEPT ![c] = u] /\ Goto(c, "lookup")
              \/ Goto(c, "done") /\ UNCHANGED cur
           /\ UNCHANGED <<adapterVars, linkVars, key, swept, envVars>>

\* Mutant of Uplink: the lookup reads the port without counting the use.
UplinkUncounted(c) ==
  /\ At(c, "lookup") /\ uplinkMu = None
  /\ IF uplinkMap[cur[c]] # None
     THEN /\ unused' = [unused EXCEPT ![cur[c]] = 0]
          /\ key' = [key EXCEPT ![c] = KeyOf(cur[c], uplinkMap[cur[c]])]
          /\ Goto(c, "send")
     ELSE Goto(c, "lock") /\ UNCHANGED <<unused, key>>
  /\ UNCHANGED <<adapterVars, uplinkMap, busy, ttl, sweepVars, downlinkMap,
                 cur, swept, envVars>>

\* linkManager.Uplink, under the read lock: Port() counts the use.
Uplink(c) ==
  /\ At(c, "lookup") /\ uplinkMu = None
  /\ IF uplinkMap[cur[c]] # None
     THEN /\ busy' = busy \cup {cur[c]}
          /\ unused' = [unused EXCEPT ![cur[c]] = 0]
          /\ key' = [key EXCEPT ![c] = KeyOf(cur[c], uplinkMap[cur[c]])]
          /\ Goto(c, "send")
     ELSE Goto(c, "lock") /\ UNCHANGED <<busy, unused, key>>
  /\ UNCHANGED <<adapterVars, uplinkMap, ttl, sweepVars, downlinkMap,
                 cur, swept, envVars>>

\* The locals of one turn of the loop go out of scope.
Forget(c) == /\ cur' = [cur EXCEPT ![c] = None]
             /\ key' = [key EXCEPT ![c] = None]

\* Sender.Send with the link's local port.  An error closes the server (once)
\* and ends the goroutine; a closed server has closed its Sender.
Send(c) == /\ At(c, "send")
           /\ \/ ~closed /\ Goto(c, "recv") /\ UNCHANGED <<adapterVars, closed>>
              \/ closed /\ Goto(c, "done") /\ UNCHANGED <<adapterVars, closed>>
              \/ /\ MayClose /\ ~closed
                 /\ CloseAll /\ closed' = TRUE /\ Goto(c, "done")
           /\ Forget(c)
           /\ UNCHANGED <<linkVars, swept, histVars, panicked>>

(***************************************************************************)
(* Cleanup.                                                                *)
(***************************************************************************)

Expired(e) == e.age > TTL

\* Mutant of Requeued: the entry keeps the start it had.
RequeuedOld(e) == Append(Tail(ttl), e)

Requeued(e) == Append(Tail(ttl), [up |-> e.up, age |-> 0])

BeginSweep(c) ==
  /\ At(c, "lock") /\ uplinkMu = None
  /\ uplinkMu' = c /\ idx' = 0
  /\ due' = {u \in Links \ busy : \E i \in 1..Len(ttl) : ttl[i].up = u /\ Expired(ttl[i])}
  /\ Goto(c, "sweep")
  /\ UNCHANGED <<adapterVars, uplinkMap, busy, ttl, downlinkMap, unused,
                 cur, key, swept, envVars>>


\* Mutant of EndSweep: the early return forgets to unlock.
EndSweepLocked(c) ==
  /\ uplinkMu' = (IF swept[c] = {} THEN c ELSE None) /\ idx' = 0 /\ due' = {}
  /\ Goto(c, IF swept[c] = {} THEN "scan" ELSE "downdel")
  /\ UNCHANGED <<adapterVars, uplinkMap, busy, downlinkMap, unused,
                 cur, key, swept, envVars>>

\* The loop is left: unlock, and return early if nothing was swept.
EndSweep(c) == /\ uplinkMu' = None /\ idx' = 0 /\ due' = {}
               /\ Goto(c, IF swept[c] = {} THEN "scan" ELSE "downdel")
               /\ UNCHANGED <<adapterVars, uplinkMap, busy, downlinkMap, unused,
                              cur, key, swept, envVars>>

InLoop(c) == At(c, "sweep") /\ idx < Len(ttl)

\* i < t.ttl.Size() fails; the size has been shrinking while i grew.
SweepExhausted(c) == /\ At(c, "sweep") /\ idx >= Len(ttl)
                     /\ EndSweep(c)
                     /\ UNCHANGED ttl

\* The head has not expired: it goes to the back with a new start, and break.
SweepBreak(c) == /\ InLoop(c) /\ ~Expired(Head(ttl))
                 /\ ttl' = Requeued(Head(ttl))
                 /\ EndSweep(c)

\* Mutant of SweepBusy: the entry of a used link is not put back.
SweepBusyDropped(c) ==
  LET e == Head(ttl) IN
  /\ InLoop(c) /\ Expired(e) /\ uplinkMap[e.up] # None /\ e.up \in busy
  /\ busy' = busy \ {e.up}
  /\ ttl' = Tail(ttl)
  /\ idx' = idx + 1
  /\ UNCHANGED <<adapterVars, uplinkMap, downlinkMap, unused, uplinkMu, due,
                 connVars, envVars>>

\* The head expired but was used: Idle() clears the counter, the link stays.
SweepBusy(c) ==
  LET e == Head(ttl) IN
  /\ InLoop(c) /\ Expired(e) /\ uplinkMap[e.up] # None /\ e.up \in busy
  /\ busy' = busy \ {e.up}
  /\ ttl' = Requeued(e)
  /\ idx' = idx + 1
  /\ UNCHANGED <<adapterVars, uplinkMap, downlinkMap, unused, uplinkMu, due,
                 connVars, envVars>>

\* Mutant of SweepIdle: the entry is peeked at and not popped.
SweepIdlePeek(c) ==
  LET e == Head(ttl) IN
  /\ InLoop(c) /\ Expired(e) /\ uplinkMap[e.up] # None /\ e.up \notin busy
  /\ swept' = [swept EXCEPT ![c] = @ \cup {<<e.up, uplinkMap[e.up]>>}]
  /\ uplinkMap' = [uplinkMap EXCEPT ![e.up] = None]
  /\ idx' = idx + 1
  /\ UNCHANGED <<adapterVars, busy, ttl, downlinkMap, unused, uplinkMu, due,
                 pc, cur, key, envVars>>

\* The head expired and was idle: the link leaves uplinkMap.
SweepIdle(c) ==
  LET e == Head(ttl) IN
  /\ InLoop(c) /\ Expired(e) /\ uplinkMap[e.up] # None /\ e.up \notin busy
  /\ swept' = [swept EXCEPT ![c] = @ \cup {<<e.up, uplinkMap[e.up]>>}]
  /\ uplinkMap' = [uplinkMap EXCEPT ![e.up] = None]
  /\ ttl' = Tail(ttl)
  /\ idx' = idx + 1
  /\ UNCHANGED <<adapterVars, busy, downlinkMap, unused, uplinkMu, due,
                 pc, cur, key, envVars>>

\* The head's link is gone already: Idle() is called on a nil port.
SweepPanic(c) ==
  /\ InLoop(c) /\ Expired(Head(ttl)) /\ uplinkMap[Head(ttl).up] = None
  /\ panicked' = TRUE
  /\ UNCHANGED <<adapterVars, linkVars, connVars, histVars, closed>>

\* Mutant of DownDel: the swept links stay in downlinkMap.
DownDelSkipped(c) == /\ At(c, "downdel")
                     /\ Goto(c, "delport")
                     /\ UNCHANGED <<adapterVars, linkVars, cur, key, swept, envVars>>

\* Mutant of DownDel: the ports are returned first and the entries of
\* downlinkMap deleted afterwards.
DownDelLast(c) ==
  LET held == {s \in swept[c] : s[1].server \in ports[KeyOf(s[1], s[2])]} IN
  /\ At(c, "downdel")
  /\ \/ \E s \in held :
          LET k == KeyOf(s[1], s[2]) IN
          /\ ports' = [ports EXCEPT ![k] = @ \ {s[1].server}]
          /\ mgr' = IF NotUse(k, s[1].server) THEN mgr \ {k} ELSE mgr
          /\ bound' = IF NotUse(k, s[1].server) THEN bound \ {k} ELSE bound
          /\ UNCHANGED <<downlinkMap, swept, pc>>
     \/ /\ held = {}
        /\ downlinkMap' = [d \in Downlink |->
             IF \E s \in swept[c] : d = DownOf(s[1], s[2]) THEN None ELSE downlinkMap[d]]
        /\ swept' = [swept EXCEPT ![c] = {}]
        /\ Goto(c, "scan")
        /\ UNCHANGED adapterVars
  /\ UNCHANGED <<uplinkMap, busy, ttl, sweepVars, unused, cur, key, envVars>>

\* The swept links leave downlinkMap, all under one lock of donwlinkMu.
DownDel(c) ==
  /\ At(c, "downdel")
  /\ downlinkMap' = [d \in Downlink |->
       IF \E s \in swept[c] : d = DownOf(s[1], s[2]) THEN None ELSE downlinkMap[d]]
  /\ late' = {d \in late : downlinkMap'[d] # None}
  /\ Goto(c, "delport")
  /\ UNCHANGED <<adapterVars, uplinkMap, busy, ttl, sweepVars, unused,
                 cur, key, swept, raced, orphaned, closed, panicked>>

\* The goroutines whose scan in GetPort has settled on key k, and the note that
\* those of D, whose scan is out of date now, will record k all the same.
Scanned(k) == {d \in Conns : pc[d] = "record" /\ key[d] = k}
Overtake(k, D) == raced' = IF D = {} THEN raced ELSE raced \cup {k}

\* DelPort for each swept link; the order of the slice is not kept.
DelPort(c) ==
  /\ At(c, "delport") /\ swept[c] # {}
  /\ \E s \in swept[c] :
       LET k == KeyOf(s[1], s[2]) IN
       /\ Remove(k, s[1].server)
       /\ swept' = [swept EXCEPT ![c] = @ \ {s}]
       /\ key' = [key EXCEPT ![c] = k]
       /\ IF NotUse(k, s[1].server)
          THEN Goto(c, "unlisten") /\ Overtake(k, Scanned(k))
          ELSE UNCHANGED <<pc, raced>>
  /\ UNCHANGED <<linkVars, cur, late, orphaned, closed, panicked>>

\* The last part of DelPort, which closes the socket.
DelPortSocket(c) == /\ At(c, "unlisten")
                    /\ Unlisten(key[c])
                    /\ Goto(c, "delport")
                    /\ UNCHANGED <<linkVars, cur, key, swept, envVars>>

DelPortPanic(c) ==
  /\ At(c, "delport")
  /\ \E s \in swept[c] : RemovePanics(KeyOf(s[1], s[2]))
  /\ panicked' = TRUE
  /\ UNCHANGED <<adapterVars, linkVars, connVars, histVars, closed>>

\* Mutant of EndCleanup: it returns after the first port.
EndCleanupEarly(c) == /\ At(c, "delport")
                      /\ Goto(c, "scan")
                      /\ swept' = [swept EXCEPT ![c] = {}]
                      /\ UNCHANGED <<adapterVars, linkVars, cur, key, envVars>>

\* Cleanup returns.
EndCleanup(c) == /\ At(c, "delport") /\ swept[c] = {}
                 /\ Goto(c, "scan")
                 /\ UNCHANGED <<adapterVars, linkVars, cur, key, swept, envVars>>

(***************************************************************************)
(* The rest of Add: GetPort, then the two maps.                            *)
(***************************************************************************)

GetPortScan(c) ==
  LET able == Reusable(cur[c].proto, cur[c].server) IN
  /\ At(c, "scan")
  /\ \/ \E k \in able : key' = [key EXCEPT ![c] = k] /\ Goto(c, "record")
     \/ able = {} /\ Goto(c, "alloc") /\ UNCHANGED key
  /\ UNCHANGED <<adapterVars, linkVars, cur, swept, envVars>>

\* On an error of GetPort serveConn drops the packet.
GetPortAlloc(c) ==
  /\ At(c, "alloc")
  /\ \/ \E p \in Ports : /\ Listen(cur[c].proto, p)
                         /\ key' = [key EXCEPT ![c] = KeyOf(cur[c], p)]
                         /\ Goto(c, "record")
                         /\ UNCHANGED cur
     \/ ListenFails(cur[c].proto) /\ Goto(c, "recv") /\ Forget(c)
  /\ UNCHANGED <<linkVars, swept, envVars>>

GetPortRecord(c) == /\ At(c, "record")
                    /\ Record(key[c], cur[c].server)
                    /\ Overtake(key[c], {d \in Scanned(key[c]) \ {c} : cur[d].server = cur[c].server})
                    /\ Goto(c, "addup")
                    /\ UNCHANGED <<linkVars, cur, key, swept, late, orphaned, closed, panicked>>

\* NewPort starts with a zero counter: the first packet does not count as use.
\* An entry that is there already, another tunnel's, is overwritten.
AddUp(c) ==
  /\ At(c, "addup") /\ uplinkMu = None /\ Len(ttl) < MaxTtl
  /\ uplinkMap' = [uplinkMap EXCEPT ![cur[c]] = key[c][2]]
  /\ busy' = busy \ {cur[c]}
  /\ ttl' = Append(ttl, [up |-> cur[c], age |-> 0])
  /\ unused' = [unused EXCEPT ![cur[c]] = 0]
  /\ orphaned' = IF uplinkMap[cur[c]] \in {None, key[c][2]} THEN orphaned
                 ELSE orphaned \cup {DownOf(cur[c], uplinkMap[cur[c]])}
  /\ Goto(c, "adddown")
  /\ UNCHANGED <<adapterVars, sweepVars, downlinkMap, cur, key, swept, raced, late, closed, panicked>>

AddDown(c) ==
  /\ At(c, "adddown")
  /\ downlinkMap' = [downlinkMap EXCEPT
                       ![DownOf(cur[c], key[c][2])] = <<c, cur[c].proc[2]>>]
  /\ late' = IF uplinkMap[cur[c]] = key[c][2] THEN late \ {DownOf(cur[c], key[c][2])}
             ELSE late \cup {DownOf(cur[c], key[c][2])}
  /\ Goto(c, "send")
  /\ UNCHANGED <<adapterVars, uplinkMap, busy, ttl, sweepVars, unused,
                 cur, key, swept, raced, orphaned, closed, panicked>>

(***************************************************************************)
(* The environment: time, Server.close from another goroutine, the garbage *)
(* collector, and the end of a run.                                        *)
(***************************************************************************)

Older(t) == IF t > TTL THEN t ELSE t + 1

Tick == /\ ~panicked
        /\ ttl' = [i \in 1..Len(ttl) |-> [up |-> ttl[i].up, age |-> Older(ttl[i].age)]]
        /\ unused' = [u \in AllUplinks |-> Older(unused[u])]
        /\ UNCHANGED <<adapterVars, uplinkMap, busy, downlinkMap, sweepVars, connVars, envVars>>

Close == /\ ~panicked /\ MayClose /\ ~closed
         /\ CloseAll /\ closed' = TRUE
         /\ UNCHANGED <<linkVars, connVars, histVars, panicked>>

Collect == /\ ~panicked /\ Finalize
           /\ UNCHANGED <<linkVars, connVars, envVars>>

Halted == /\ panicked \/ \A c \in Conns : pc[c] = "done"
          /\ UNCHANGED vars

Cleanup(c) == \/ BeginSweep(c) \/ SweepExhausted(c) \/ SweepBreak(c) \/ SweepBusy(c)
              \/ SweepIdle(c) \/ SweepPanic(c) \/ DownDel(c) \/ DelPort(c)
              \/ DelPortSocket(c) \/ DelPortPanic(c) \/ EndCleanup(c)
Add(c) == \/ GetPortScan(c) \/ GetPortAlloc(c) \/ GetPortRecord(c)
          \/ AddUp(c) \/ AddDown(c)

ServeConn(c) == Recv(c) \/ Uplink(c) \/ Send(c) \/ Cleanup(c) \/ Add(c)

Next == (\E c \in Conns : ServeConn(c)) \/ Tick \/ Close \/ Collect \/ Halted

Spec == Init /\ [][Next]_vars

\* A goroutine that can run does run; RWMutex hands itself to every goroutine
\* that keeps waiting for it.  Nothing obliges a client to send or time to pass.
FairSpec ==
  /\ Spec
  /\ \A c \in Conns : SF_vars(Uplink(c) \/ Send(c) \/ Cleanup(c) \/ Add(c))

(***************************************************************************)
(* Properties.                                                             *)
(***************************************************************************)

Pcs == {"recv", "lookup", "lock", "sweep", "downdel", "delport", "unlisten",
        "scan", "alloc", "record", "addup", "adddown", "send", "done"}

\* What goroutine c carries, by where it stands.
ConnOK(c) ==
  /\ pc[c] \notin {"recv", "done"} => cur[c] \in Sends[c]
  /\ pc[c] \in {"record", "addup", "adddown", "send"} =>
       key[c] \in Key /\ key[c][1] = cur[c].proto
  /\ pc[c] = "unlisten" => key[c] \in Key
  /\ pc[c] = "sweep" <=> uplinkMu = c
  /\ swept[c] # {} => pc[c] \in {"sweep", "downdel", "delport", "unlisten"}

Entry == [up : AllUplinks, age : 0..(TTL + 1)]   \* ttlkey

LinkTypeOK ==
  /\ uplinkMap \in [AllUplinks -> Ports \cup {None}]
  /\ busy \in SUBSET AllUplinks
  /\ ttl \in Seq(Entry)
  /\ downlinkMap \in [Downlink -> (Conns \X {u.proc[2] : u \in AllUplinks}) \cup {None}]
  /\ unused \in [AllUplinks -> 0..(TTL + 1)]
  /\ uplinkMu \in Conns \cup {None}
  /\ idx \in Nat
  /\ due \in SUBSET AllUplinks

ConnTypeOK ==
  /\ pc \in [Conns -> Pcs]
  /\ cur \in [Conns -> AllUplinks \cup {None}]
  /\ key \in [Conns -> Key \cup {None}]
  /\ swept \in [Conns -> SUBSET (AllUplinks \X Ports)]
  /\ closed \in BOOLEAN
  /\ panicked \in BOOLEAN

\* Type invariant, with what each goroutine carries and who holds uplinkMu.
TypeOK == /\ AdapterTypeOK
          /\ LinkTypeOK
          /\ ConnTypeOK
          /\ \A c \in Conns : ConnOK(c)

InFlight == {key[c] : c \in {d \in Conns : pc[d] \in {"record", "unlisten"}}}

\* Every port the Manager holds is recorded in the Adapter or in the hands of a
\* goroutine inside GetPort or DelPort.
PortsAccounted == mgr \subseteq Recorded \cup InFlight

\* A lease d = <<server, protocol, port>>, and who will return it: a live link,
\* an Add about to make one, or a Cleanup that swept one.
KeyAt(d) == <<d[2], d[3]>>
Leased(d) == d[1] \in ports[KeyAt(d)]
Owned(d) ==
  \/ \E u \in Links : d = DownOf(u, uplinkMap[u])
  \/ \E c \in Conns : pc[c] = "addup" /\ d = DownOf(cur[c], key[c][2])
  \/ \E c \in Conns : \E s \in swept[c] : d = DownOf(s[1], s[2])

\* Clients behind different addresses: no two connections share an Uplink.
DistinctClients == \A c, d \in Conns : c # d => Sends[c] \cap Sends[d] = {}

\* A recorded lease has somebody who will return it, except one whose link
\* another tunnel's Add overwrote: that one stays until the server is closed.
LeasesOwned == \A d \in Downlink : Leased(d) => Owned(d) \/ (d \in orphaned /\ ~DistinctClients)

\* No local port leaks, through any interleaving of Add and Cleanup.
NoPortLeak == PortsAccounted /\ LeasesOwned

\* Every link can expire: a link of uplinkMap has an entry in the ttl queue,
\* through any interleaving of Add with the sweeps of other goroutines.
EveryLinkHasTtl == \A u \in Links : \E i \in 1..Len(ttl) : ttl[i].up = u

\* The queue is ordered by age, oldest first, which is why Cleanup may stop at the first
\* entry that has not expired.
TtlSorted == \A i, j \in 1..Len(ttl) : i < j => ttl[i].age >= ttl[j].age

\* The queue holds exactly one entry per link, so the sweep never meets an
\* entry whose link is gone (Idle on a nil port).
TtlMatchesLinks ==
  /\ \A i \in 1..Len(ttl) : ttl[i].up \in Links
  /\ \A i, j \in 1..Len(ttl) : ttl[i].up = ttl[j].up => i = j

\* Between a failed lookup and AddUp the link stays absent.
MissPcs == {"lock", "sweep", "downdel", "delport", "unlisten", "scan", "alloc", "record", "addup"}
MissingStays == \A c \in Conns : pc[c] \in MissPcs => cur[c] \notin Links

\* An entry's age underestimates the time its link has been unused, unless the
\* link's counter says that it was used.
UseCounted == \A i \in 1..Len(ttl) : ttl[i].up \in busy \/ unused[ttl[i].up] >= ttl[i].age

\* The server does not run into a nil pointer before it is closed, in Cleanup's
\* sweep or in DelPort, unless GetPort recorded a port after a stale scan.
PanicOnlyAfterClose == panicked => closed \/ raced # {}

\* A link that neither of the two races touched.
Sound(u) == /\ KeyOf(u, uplinkMap[u]) \notin raced
            /\ DownOf(u, uplinkMap[u]) \notin late

\* The return path of a live link: recvService finds in downlinkMap the
\* connection and the process port the link's packets come from.
ReturnPath ==
  closed \/ \A c \in Conns : \A u \in Sends[c] \cap Links :
              \/ ~Sound(u)
              \/ downlinkMap[DownOf(u, uplinkMap[u])] = <<c, u.proc[2]>>
              \/ pc[c] = "adddown" /\ cur[c] = u

\* No stale return path: an entry of downlinkMap belongs to a live link, or
\* the Cleanup that swept its link is about to delete it.
NoStaleReturnPath ==
  \A d \in Downlink : downlinkMap[d] # None =>
    \/ d \in late
    \/ \E u \in Links : d = DownOf(u, uplinkMap[u])
    \/ \E c \in Conns : /\ pc[c] \in {"sweep", "downdel"}
                        /\ \E s \in swept[c] : d = DownOf(s[1], s[2])

\* The local port a live link sends from is held by an open socket.
PortHeld ==
  closed \/ \A u \in Links : \/ KeyOf(u, uplinkMap[u]) \in raced
                             \/ /\ KeyOf(u, uplinkMap[u]) \in bound
                                /\ u.server \in ports[KeyOf(u, uplinkMap[u])]

\* A link is dropped only when it has carried nothing for more than the ttl.
NoEarlyExpiry ==
  [][\A u \in AllUplinks :
       uplinkMap[u] # None /\ uplinkMap'[u] = None => unused[u] > TTL]_vars

\* A received packet is sent or dropped: nobody waits for uplinkMu forever and
\* Cleanup's loop over the queue it refills ends (unless the queue reaches the
\* bound of the model, where AddUp stops).
PacketProgress ==
  \A c \in Conns :
    pc[c] = "lookup" ~> (pc[c] \in {"recv", "done"} \/ panicked \/ Len(ttl) = MaxTtl)

\* "Cleanup clean timeout ttl link": when a sweep ends, no idle link is left
\* that had expired when the sweep began.
SweepsAllExpired ==
  [][\A c \in Conns : uplinkMu = c /\ uplinkMu' = None => due \cap Links' = {}]_vars
=============================================================================
