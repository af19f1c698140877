----------------------------- MODULE TunnelConn -----------------------------
(***************************************************************************)
(* conn.conn (src/conn/conn.go), the two ends of one tunnel.               *)
(*                                                                         *)
(* The first of BuiltinConn, Recv and Send to be called runs the           *)
(* handshake; the others wait for handshakedNotify.  The handshake opens a *)
(* TCP connection over the tunnel itself (tcpFactory), while a goroutine   *)
(* of its own, handshakeInboundService, reads the datagrams: TCP packets   *)
(* go to the stack, data packets that arrive early are kept for Recv.  The *)
(* handshake returns only when that goroutine has ended, and it can end    *)
(* only after a Read, that is when one more datagram has arrived.          *)
(*                                                                         *)
(* The user-mode TCP is external: a three-way handshake with               *)
(* retransmission, and the keepalive that NewTCPConn switches on.  TLS,    *)
(* addresses and ports are left out; `keyed' says that the key exchange is *)
(* over.  The network loses datagrams and does not reorder them, so that   *)
(* any reordering is the conn's own.                                       *)
(***************************************************************************)
EXTENDS Integers, Sequences, FiniteSets

CONSTANTS Client, Server,
          Calls,      \* Calls[x]: which of "builtin", "recv", "send" are called
          MaxData,    \* MaxData[x]: bound on the data packets side x sends
          MaxLoss,    \* bound on the datagrams lost
          PendCap,    \* capacity of handshakeRecvedPackets
          Failing,    \* sides whose handshake may fail or be cancelled
          MayClose,   \* sides on which the program may call Close
          None

Sides == {Client, Server}
Other(x) == IF x = Client THEN Server ELSE Client

ASSUME TunnelAssumption ==
  /\ Client # Server
  /\ Calls \in [Sides -> SUBSET {"builtin", "recv", "send"}]
  /\ MaxData \in [Sides -> Nat] /\ MaxLoss \in Nat /\ PendCap \in Nat
  /\ Failing \subseteq Sides /\ MayClose \subseteq Sides
  /\ None \notin {"builtin", "recv", "send"}

VARIABLES pc,         \* pc[x][k]: where call k of side x stands
          won,        \* the call that set handshaked, or None
          notified,   \* handshakedNotify is closed
          keyed,      \* crypto and builtin are set
          hpc,        \* handshakeInboundService; "done" closes retch
          pend,       \* handshakeRecvedPackets
          got,        \* data packets Recv returned, in order
          sent,       \* data packets sent so far
          tcp,        \* the builtin TCP connection
          net,        \* net[x]: datagrams on their way to x
          lost,       \* how many the network lost
          open        \* the datagram conn is open

hsVars == <<won, notified, keyed>>
dataVars == <<pend, got, sent>>
netVars == <<tcp, net, lost>>
vars == <<pc, hsVars, hpc, dataVars, netVars, open>>

Kinds == {"builtin", "recv", "send"}
Tcp(p) == [kind |-> p, n |-> 0]
Data(n) == [kind |-> "data", n |-> n]
IsBuiltin(p) == p.kind # "data"

\* NewListen has a builtinListener on the server's stack.
InitTcp(x) == IF x = Client THEN "closed" ELSE "listen"

Init == /\ pc = [x \in Sides |-> [k \in Kinds |-> "idle"]]
        /\ won = [x \in Sides |-> None]
        /\ notified = [x \in Sides |-> FALSE]
        /\ keyed = [x \in Sides |-> FALSE]
        /\ hpc = [x \in Sides |-> "none"]
        /\ pend = [x \in Sides |-> <<>>]
        /\ got = [x \in Sides |-> <<>>]
        /\ sent = [x \in Sides |-> 0]
        /\ tcp = [x \in Sides |-> InitTcp(x)]
        /\ net = [x \in Sides |-> <<>>]
        /\ lost = 0
        /\ open = [x \in Sides |-> TRUE]

Goto(x, k, where) == pc' = [pc EXCEPT ![x][k] = where]
HGoto(x, where) == hpc' = [hpc EXCEPT ![x] = where]

(***************************************************************************)
(* The network and the user-mode TCP.                                      *)
(***************************************************************************)

\* What the TCP endpoint of x becomes, and answers, when it is given p.
NewTcp(x, p) ==
  CASE p.kind = "syn" /\ tcp[x] = "listen"       -> "synrcvd"
    [] p.kind = "synack" /\ tcp[x] = "synsent"   -> "estab"
    [] p.kind = "ack" /\ tcp[x] = "synrcvd"      -> "estab"
    [] OTHER                                     -> tcp[x]

Reply(x, p) ==
  CASE p.kind = "syn" /\ tcp[x] \in {"listen", "synrcvd"}     -> <<Tcp("synack")>>
    [] p.kind = "synack" /\ tcp[x] \in {"synsent", "estab"}   -> <<Tcp("ack")>>
    [] p.kind = "probe" /\ tcp[x] = "estab"                   -> <<Tcp("ack")>>
    [] OTHER                                                  -> <<>>

InFlight(x, kind) == \E i \in 1..Len(net[x]) : net[x][i].kind = kind

\* A TCP packet q on its way to x; a second copy of one in flight adds nothing.
Carry(x, q) == IF \E i \in 1..Len(q) : InFlight(x, q[i].kind) THEN net[x] ELSE net[x] \o q

\* inboundBuitinPacket; the answer leaves through outboundService.
Inbound(x, p) ==
  /\ tcp' = [tcp EXCEPT ![x] = NewTcp(x, p)]
  /\ net' = [net EXCEPT ![x] = Tail(@), ![Other(x)] = Carry(Other(x), Reply(x, p))]

\* A datagram is taken off the network and is not for the stack.
Taken(x) == net' = [net EXCEPT ![x] = Tail(@)] /\ UNCHANGED tcp

\* A TCP that waits for an answer sends again, one packet in flight at a time.
Retransmit(x) ==
  /\ open[x]
  /\ \E p \in {"syn", "synack"} :
       /\ tcp[x] = (IF p = "syn" THEN "synsent" ELSE "synrcvd")
       /\ ~InFlight(Other(x), p)
       /\ net' = [net EXCEPT ![Other(x)] = Append(@, Tcp(p))]
  /\ UNCHANGED <<pc, hsVars, hpc, dataVars, tcp, lost, open>>

\* Mutant of Keepalive: nothing is sent on an idle connection.
KeepaliveOff(x) == /\ FALSE /\ open[x] /\ UNCHANGED vars

\* The keepalive probe of an idle connection, which NewTCPConn switched on.
Keepalive(x) ==
  /\ open[x] /\ keyed[x] /\ tcp[x] = "estab"
  /\ net[Other(x)] = <<>>
  /\ net' = [net EXCEPT ![Other(x)] = <<Tcp("probe")>>]
  /\ UNCHANGED <<pc, hsVars, hpc, dataVars, tcp, lost, open>>

Lose(x) == /\ net[x] # <<>> /\ lost < MaxLoss
           /\ net' = [net EXCEPT ![x] = Tail(@)]
           /\ lost' = lost + 1
           /\ UNCHANGED <<pc, hsVars, hpc, dataVars, tcp, open>>

(***************************************************************************)
(* handshake.                                                              *)
(***************************************************************************)

\* The client's tcpFactory, up to the point where it waits for the connection.
DialTCPWithBind(x) == /\ tcp' = [tcp EXCEPT ![x] = "synsent"]
                      /\ net' = [net EXCEPT ![Other(x)] = Append(@, Tcp("syn"))]

\* The end of tcpFactory, for the server of AcceptBy with the conn's remote.
AcceptBy(x) == tcp[x] = "estab"

\* What close leaves of the builtin connection: a client closes its stack; a
\* server's stack outlives the conn, and it closes only the builtin it has.
Torn(x) == IF x = Client \/ keyed[x] THEN "closed" ELSE tcp[x]

\* The compare-and-swap: the winner starts the inbound service and tcpFactory
\* (the client dials, the server waits to accept); the others wait.
Handshake(x, k) ==
  /\ pc[x][k] = "idle" /\ k \in Calls[x]
  /\ \/ /\ won[x] = None
        /\ won' = [won EXCEPT ![x] = k]
        /\ HGoto(x, "select")
        /\ Goto(x, k, "factory")
        /\ IF x = Client /\ open[x] THEN DialTCPWithBind(x) ELSE UNCHANGED <<tcp, net>>
     \/ /\ won[x] # None
        /\ Goto(x, k, "wait")
        /\ UNCHANGED <<won, hpc, tcp, net>>
  /\ UNCHANGED <<notified, keyed, dataVars, lost, open>>

\* Mutant of Waited: the others do not wait for the handshake.
WaitedNot(x, k) == /\ pc[x][k] = "wait"
                   /\ Goto(x, k, "ready")
                   /\ UNCHANGED <<hsVars, hpc, dataVars, netVars, open>>

\* <-c.handshakedNotify.
Waited(x, k) == /\ pc[x][k] = "wait" /\ notified[x]
                /\ Goto(x, k, "ready")
                /\ UNCHANGED <<hsVars, hpc, dataVars, netVars, open>>

\* tcpFactory returned a connection: keys, builtin, close(handshakedNotify).
Handshaked(x, k) ==
  /\ pc[x][k] = "factory" /\ AcceptBy(x)
  /\ keyed' = [keyed EXCEPT ![x] = TRUE]
  /\ notified' = [notified EXCEPT ![x] = TRUE]
  /\ Goto(x, k, "retch")
  /\ UNCHANGED <<won, hpc, dataVars, netVars, open>>

\* tcpFactory or the key exchange failed, the context was cancelled, or the
\* client's stack was closed under the endpoint it dials from.
HandshakeFails(x, k) ==
  /\ pc[x][k] = "factory"
  /\ x \in Failing \/ (x = Client /\ ~open[x])
  /\ Goto(x, k, "failing")
  /\ UNCHANGED <<hsVars, hpc, dataVars, netVars, open>>

\* Mutant of Retch: the handshake does not wait for the inbound service.
RetchNot(x, k) ==
  /\ pc[x][k] \in {"retch", "failing"}
  /\ Goto(x, k, IF pc[x][k] = "retch" THEN "ready" ELSE "failed")
  /\ open' = [open EXCEPT ![x] = @ /\ pc[x][k] = "retch"]
  /\ tcp' = [tcp EXCEPT ![x] = IF pc[x][k] = "retch" THEN @ ELSE Torn(x)]
  /\ UNCHANGED <<hsVars, hpc, dataVars, net, lost>>

\* The deferred <-retch; on an error the caller then closes the conn.
Retch(x, k) ==
  /\ pc[x][k] \in {"retch", "failing"} /\ hpc[x] = "done"
  /\ Goto(x, k, IF pc[x][k] = "retch" THEN "ready" ELSE "failed")
  /\ open' = [open EXCEPT ![x] = @ /\ pc[x][k] = "retch"]
  /\ tcp' = [tcp EXCEPT ![x] = IF pc[x][k] = "retch" THEN @ ELSE Torn(x)]
  /\ UNCHANGED <<hsVars, hpc, dataVars, net, lost>>

(***************************************************************************)
(* handshakeInboundService.                                                *)
(***************************************************************************)

HSelect(x) == /\ hpc[x] = "select"
              /\ HGoto(x, IF notified[x] THEN "done" ELSE "read")
              /\ UNCHANGED <<pc, hsVars, dataVars, netVars, open>>

\* Mutant of HRead: early data packets are dropped.
HReadDrops(x) ==
  /\ hpc[x] = "read" /\ open[x] /\ net[x] # <<>>
  /\ IF IsBuiltin(Head(net[x])) THEN Inbound(x, Head(net[x])) ELSE Taken(x)
  /\ HGoto(x, "select")
  /\ UNCHANGED <<pc, hsVars, dataVars, lost, open>>

\* Mutant of HRead: handshakeRecvedPackets has no capacity.
HReadUnbounded(x) ==
  LET p == Head(net[x]) IN
  /\ hpc[x] = "read" /\ open[x] /\ net[x] # <<>>
  /\ \/ IsBuiltin(p) /\ Inbound(x, p) /\ UNCHANGED pend
     \/ ~IsBuiltin(p) /\ Taken(x) /\ pend' = [pend EXCEPT ![x] = Append(@, p.n)]
  /\ HGoto(x, "select")
  /\ UNCHANGED <<pc, hsVars, got, sent, lost, open>>

\* One datagram; a data packet that finds the channel full is dropped.
HRead(x) ==
  LET p == Head(net[x]) IN
  /\ hpc[x] = "read" /\ open[x] /\ net[x] # <<>>
  /\ \/ IsBuiltin(p) /\ Inbound(x, p) /\ UNCHANGED pend
     \/ /\ ~IsBuiltin(p) /\ Taken(x)
        /\ pend' = [pend EXCEPT ![x] = IF Len(@) < PendCap THEN Append(@, p.n) ELSE @]
  /\ HGoto(x, "select")
  /\ UNCHANGED <<pc, hsVars, got, sent, lost, open>>

\* Read fails on a closed conn.
HReadFails(x) == /\ hpc[x] = "read" /\ ~open[x]
                 /\ HGoto(x, "done")
                 /\ UNCHANGED <<pc, hsVars, dataVars, netVars, open>>

(***************************************************************************)
(* Recv, Send and Close.                                                   *)
(***************************************************************************)

\* recv: the early packets come first.
RecvPend(x) == /\ pc[x]["recv"] = "ready" /\ pend[x] # <<>>
               /\ got' = [got EXCEPT ![x] = Append(@, Head(pend[x]))]
               /\ pend' = [pend EXCEPT ![x] = Tail(@)]
               /\ UNCHANGED <<pc, hsVars, hpc, sent, netVars, open>>

\* recv: the select's default, and Read is entered.
RecvEnter(x) == /\ pc[x]["recv"] = "ready" /\ pend[x] = <<>>
                /\ Goto(x, "recv", "read")
                /\ UNCHANGED <<hsVars, hpc, dataVars, netVars, open>>

\* Recv: one datagram; a TCP packet goes to the stack.
RecvRead(x) ==
  LET p == Head(net[x]) IN
  /\ pc[x]["recv"] = "read" /\ open[x] /\ net[x] # <<>>
  /\ \/ IsBuiltin(p) /\ Inbound(x, p) /\ UNCHANGED got
     \/ ~IsBuiltin(p) /\ Taken(x) /\ got' = [got EXCEPT ![x] = Append(@, p.n)]
  /\ Goto(x, "recv", "ready")
  /\ UNCHANGED <<hsVars, hpc, pend, sent, lost, open>>

RecvFails(x) == /\ pc[x]["recv"] = "read" /\ ~open[x]
                /\ Goto(x, "recv", "failed")
                /\ UNCHANGED <<hsVars, hpc, dataVars, netVars, open>>

Send(x) == /\ pc[x]["send"] = "ready" /\ open[x] /\ sent[x] < MaxData[x]
           /\ sent' = [sent EXCEPT ![x] = @ + 1]
           /\ net' = [net EXCEPT ![Other(x)] = Append(@, Data(sent[x] + 1))]
           /\ UNCHANGED <<pc, hsVars, hpc, pend, got, tcp, lost, open>>

SendFails(x) == /\ pc[x]["send"] = "ready" /\ ~open[x]
                /\ Goto(x, "send", "failed")
                /\ UNCHANGED <<hsVars, hpc, dataVars, netVars, open>>

\* close, called by the program: the builtin connection, the stack, the conn.
Close(x) == /\ x \in MayClose /\ open[x]
            /\ open' = [open EXCEPT ![x] = FALSE]
            /\ tcp' = [tcp EXCEPT ![x] = Torn(x)]
            /\ UNCHANGED <<pc, hsVars, hpc, dataVars, net, lost>>

Call(x, k) == \/ Waited(x, k) \/ Handshaked(x, k) \/ HandshakeFails(x, k) \/ Retch(x, k)
Inner(x) == HSelect(x) \/ HRead(x) \/ HReadFails(x)
Recv(x) == RecvPend(x) \/ RecvEnter(x) \/ RecvRead(x) \/ RecvFails(x)

Next == \E x \in Sides :
          \/ \E k \in Kinds : Handshake(x, k) \/ Call(x, k)
          \/ Inner(x) \/ Recv(x) \/ Send(x) \/ SendFails(x)
          \/ Retransmit(x) \/ Keepalive(x) \/ Lose(x) \/ Close(x)

Spec == Init /\ [][Next]_vars

\* Every goroutine runs: of two goroutines blocked in Read neither is passed
\* over for ever.  The timers of the TCP fire.
FairSpec == /\ Spec
            /\ \A x \in Sides :
                 /\ SF_vars(Handshake(x, "recv") \/ Call(x, "recv") \/ Recv(x))
                 /\ \A k \in Calls[x] \ {"recv"} : WF_vars(Handshake(x, k) \/ Call(x, k))
                 /\ SF_vars(Inner(x))
                 /\ WF_vars(Retransmit(x) \/ Keepalive(x))

(***************************************************************************)
(* Properties.                                                             *)
(***************************************************************************)

Places == {"idle", "wait", "factory", "failing", "retch", "ready", "read", "failed"}

\* Type invariant.
TypeOK ==
  /\ pc \in [Sides -> [Kinds -> Places]]
  /\ won \in [Sides -> Kinds \cup {None}]
  /\ notified \in [Sides -> BOOLEAN] /\ keyed \in [Sides -> BOOLEAN]
  /\ hpc \in [Sides -> {"none", "select", "read", "done"}]
  /\ \A x \in Sides : /\ pend[x] \in Seq(1..MaxData[Other(x)]) /\ Len(pend[x]) <= PendCap
                      /\ got[x] \in Seq(1..MaxData[Other(x)])
                      /\ sent[x] \in 0..MaxData[x]
  /\ tcp \in [Sides -> {"closed", "listen", "synsent", "synrcvd", "estab"}]
  /\ lost \in 0..MaxLoss
  /\ open \in [Sides -> BOOLEAN]

\* No data before the keys: a call gets past the handshake, so that it can put
\* data on the wire or hand data to the program, only on a side whose key
\* exchange is over.
NoDataBeforeKeys ==
  \A x \in Sides : /\ \A k \in Kinds : pc[x][k] \in {"ready", "read"} => keyed[x]
                   /\ sent[x] > 0 \/ got[x] # <<>> => keyed[x]

Increasing(q) == \A i, j \in 1..Len(q) : i < j => q[i] < q[j]

\* When Recv itself ran the handshake it returns the data packets in the order
\* they arrived, the ones that came during the handshake included.
RecvInOrder == \A x \in Sides : won[x] = "recv" => Increasing(got[x])

\* No early data is lost: whatever was sent is on its way, kept or returned,
\* but for what the network lost, unless handshakeRecvedPackets was full.
Arrived(x) == {got[x][i] : i \in 1..Len(got[x])} \cup {pend[x][i] : i \in 1..Len(pend[x])}
              \cup {net[x][i].n : i \in {j \in 1..Len(net[x]) : ~IsBuiltin(net[x][j])}}
EarlyDataKept ==
  lost = 0 => \A x \in Sides : \/ Arrived(x) = 1..sent[Other(x)]
                               \/ Cardinality(Arrived(x)) >= PendCap

\* The handshake ends: once it has succeeded, the keepalive of the builtin
\* connection brings the one more datagram that lets handshakeInboundService
\* notice, so that on an open tunnel the call that ran the handshake and the
\* calls that wait for it all get through.
CallsReturn ==
  \A x \in Sides : \A k \in Calls[x] :
    notified[x] /\ pc[x][k] \in {"wait", "retch"}
      ~> pc[x][k] = "ready" \/ \E y \in Sides : ~open[y]
=============================================================================
