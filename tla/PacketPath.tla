----------------------------- MODULE PacketPath -----------------------------
(***************************************************************************)
(* The way of one packet from a process through client, tunnel and server  *)
(* to the remote, and of the reply back: what every step does to headers   *)
(* and checksums.                                                          *)
(*                                                                         *)
(*   Capture, uplinkService   src/client_windows.go, src/client.go         *)
(*   Client, Server           src/checksum/checkusm.go                     *)
(*   Encode, Decode           src/conn/peer.go                             *)
(*   serveConn, recvService   src/server.go, links by src/links/maps/mutx.go *)
(*   bpfSkipPorts             src/server_linux.go                          *)
(*   downlinkServic, Inject   src/client.go, src/client_windows.go         *)
(*                                                                         *)
(* Packets do not influence one another on this path but through the link  *)
(* tables (whose races are the subject of LinkManager), so one packet is   *)
(* under way at a time; links stay, and a client may come back with a new  *)
(* tunnel while they do.  A byte has Radix values and a word is two bytes. *)
(* An address is one word; of a transport header the ports, the length,    *)
(* the checksum, the TCP options and one word of content are kept.         *)
(***************************************************************************)
EXTENDS Integers, Sequences, FiniteSets, Functions

CONSTANTS Radix,       \* values of a byte, 256 in the code
          Clients,
          MaxEpoch,    \* MaxEpoch[c]: bound on the tunnels client c opens
          ClientAddr,  \* ClientAddr[c]: the client's address
          ServerAddr,  \* the proxy server's address
          Ports,       \* local ports of the proxy server
          Mutx,        \* shards of the mutxLinkManager
          MaxLinks,    \* bound on the links
          Overhead,    \* capture.overhead
          Process,     \* capture.process, the one that is proxied
          Multicast,   \* multicast addresses
          SkipPorts,   \* SkipPorts[proto]: the list given to EthSender.SkipPorts
          Sends,       \* what processes send
          Replies,     \* what remotes answer
          Foreign,     \* other packets that reach the server's interface
          None

Byte == 0..(Radix - 1)
Base == Radix * Radix
Word == 0..(Base - 1)
Tcp == 6
Udp == 17
Transports == {Tcp, Udp}
Unspecified == 0        \* 0.0.0.0

EOL == 0
NOP == 1
MSS == 2

\* The bytes of TCP options, whose length the header counts in fours, and where
\* their MSS option starts, None if they hold none.
Options == [bytes : Seq(Byte), mss : Nat \cup {None}]

\* What a reader of o comes to at offset k: an MSS option, the end, or one more
\* option to step over.  `walk' are the offsets he comes to.
ReadAt(o, k, walk) ==
  LET n == Len(o.bytes)
      kind == o.bytes[k + 1]
      len == o.bytes[k + 2]
  IN
  \/ k < n /\ kind = NOP /\ k + 1 \in walk
  \/ k < n /\ kind = EOL /\ o.mss = None
  \/ /\ k < n /\ kind = MSS
     /\ o.mss = IF k + 4 <= n /\ len = 4 THEN k ELSE None
  \/ /\ k + 1 < n /\ kind \notin {EOL, NOP, MSS}
     /\ k + len \in walk \/ (k + len > n /\ o.mss = None)
  \/ k + 1 = n /\ kind \notin {EOL, NOP, MSS} /\ o.mss = None
  \/ k = n /\ o.mss = None

\* o.mss is where the MSS option of o.bytes starts.
Marked(o) ==
  /\ Len(o.bytes) % 4 = 0
  /\ o.mss # None => o.mss + 4 <= Len(o.bytes)
  /\ \E walk \in SUBSET (0..Len(o.bytes)) :
       0 \in walk /\ \A k \in walk : ReadAt(o, k, walk)

ASSUME PathAssumption ==
  /\ Radix \in Nat /\ Base > Udp /\ Mutx \in 1..(Radix - 1) /\ Overhead \in Nat
  /\ ClientAddr \in [Clients -> Word] /\ MaxEpoch \in [Clients -> Nat]
  /\ ServerAddr \in Word /\ Ports \subseteq Word
  /\ SkipPorts \in [Transports -> Seq(Word)]
  /\ None \notin Nat /\ Process # None

\* What processes and remotes send has the length and the marks it claims; the
\* host itself uses none of the ports the proxy leases.
ASSUME TrafficAssumption ==
  /\ None \notin Sends
  /\ Sends \subseteq [client : Clients, proto : Transports, sport : Word, dst : Word \ {Unspecified},
                      dport : Word, options : Options, body : Word, name : STRING]
  /\ Replies \subseteq [proto : Transports, options : Options, body : Word]
  /\ Foreign \subseteq [proto : Word, src : Word, sport : Word, dport : Word]
  /\ \A s \in Sends \cup Replies : s.proto = Udp => s.options.mss = None
  /\ \A o \in {s.options : s \in Sends \cup Replies} : Marked(o)
  /\ \A f \in Foreign : f.proto \in Transports => f.dport \notin Ports

VARIABLES at,     \* where the packet is
          pkt,    \* the packet there
          i,      \* UpdateTcpMssOption's index, from the first option
          sent,   \* history: what a process sent, or its remote answered
          links,  \* the link tables, of all shards
          epoch   \* epoch[c]: the tunnel client c uses

vars == <<at, pkt, i, sent, links, epoch>>

(***************************************************************************)
(* Words, checksums and headers.                                           *)
(***************************************************************************)

Not(x) == Base - 1 - x

\* What is left of a sum of words when the carries have been added back.
EndAround(v) == IF v = 0 THEN 0 ELSE ((v - 1) % (Base - 1)) + 1

\* checksum.Combine and checksum.Checksum of the stack's library.
Combine(a, b) == EndAround(a + b)
Total(words) ==
  LET sum[k \in 0..Len(words)] == IF k = 0 THEN 0 ELSE sum[k - 1] + words[k]
  IN  sum[Len(words)]
Checksum(words, initial) == EndAround(initial + Total(words))

WordOf(hi, lo) == hi * Radix + lo
WordsOf(bytes) ==
  [k \in 1..(Len(bytes) \div 2) |-> WordOf(bytes[2 * k - 1], bytes[2 * k])]

\* A transport segment t has ports, checksum, options and content.
SegLen(t) == (10 + Len(t.opts)) % Base
SegWords(t) == <<t.sport, t.dport, SegLen(t), t.sum>> \o WordsOf(t.opts) \o <<t.body>>
PseudoHeaderChecksum(proto, src, dst, t) == Checksum(<<proto, src, dst, SegLen(t)>>, 0)

\* The transport checksum over segment t sent from src to dst.
SegSum(proto, src, dst, t) ==
  Not(Checksum(SegWords([t EXCEPT !.sum = 0]), PseudoHeaderChecksum(proto, src, dst, t)))

HdrSum(p) == Not(Checksum(<<p.proto, p.src, p.dst, SegLen(p.seg)>>, 0))

\* An IP packet; the checksum of its header is filled in.
IP(proto, src, dst, t) ==
  LET p == [proto |-> proto, src |-> src, dst |-> dst, seg |-> t, hsum |-> 0]
  IN  [p EXCEPT !.hsum = HdrSum(p)]

\* What the receiver of a packet verifies; UDP may go without a checksum.
Verifies(p) ==
  /\ \/ Checksum(SegWords(p.seg), PseudoHeaderChecksum(p.proto, p.src, p.dst, p.seg)) = Base - 1
     \/ p.proto = Udp /\ p.seg.sum = 0
  /\ p.hsum = HdrSum(p)

(***************************************************************************)
(* UpdateTcpMssOption, one turn of its loop at a time.                     *)
(***************************************************************************)

Opt(k) == pkt.seg.opts[k + 1]       \* hdr[20 + k]
N == Len(pkt.seg.opts)

\* The loop goes on at the same place.
Advance(k) == i' = i + k /\ UNCHANGED <<at, pkt, sent, links, epoch>>

\* Return, with an error or not: no caller looks at it.
Return(p) == /\ at' = (IF at = "capture" THEN "captured" ELSE "injected")
             /\ i' = 0
             /\ pkt' = p
             /\ UNCHANGED <<sent, links, epoch>>

InMss == at \in {"capture", "inject"}

MssSkip == /\ InMss
           /\ pkt.proto # Tcp \/ Overhead = 0 \/ i >= N
           /\ Return(pkt)

InLoop == InMss /\ pkt.proto = Tcp /\ Overhead # 0 /\ i < N

\* Mutant of MssNop: padding is not stepped over.
MssNopStays == InLoop /\ Opt(i) = NOP /\ Advance(0)

MssNop == InLoop /\ Opt(i) = NOP /\ Advance(1)
MssEol == InLoop /\ Opt(i) = EOL /\ Return(pkt)

MssOther ==
  /\ InLoop /\ Opt(i) \notin {EOL, NOP, MSS}
  /\ IF i + 1 < N THEN Advance(Opt(i + 1)) ELSE Return(pkt)

WellFormed == i + 4 <= N /\ Opt(i + 1) = 4
Old == WordOf(Opt(i + 2), Opt(i + 3))
New == Old - Overhead
NewOpts == [pkt.seg.opts EXCEPT ![i + 3] = New \div Radix, ![i + 4] = New % Radix]

\* Mutant of MssSum: the option is taken to be aligned.
MssSumAligned == Not(Combine(Combine(Not(pkt.seg.sum), Not(Old)), New))

\* The checksum after the update: by the changed word when it is aligned, else
\* by the two words it straddles.
MssSum ==
  IF i % 2 = 0
  THEN Not(Combine(Combine(Not(pkt.seg.sum), Not(Old)), New))
  ELSE LET two(o) == Checksum(WordsOf(SubSeq(o, i + 2, i + 5)), 0)
       IN  Not(Combine(Combine(Not(pkt.seg.sum), Not(two(pkt.seg.opts))), two(NewOpts)))

MssUpdate ==
  /\ InLoop /\ Opt(i) = MSS
  /\ IF WellFormed /\ New > 0 /\ (i % 2 = 0 \/ i + 5 <= N)
     THEN Return([pkt EXCEPT !.seg.opts = NewOpts, !.seg.sum = MssSum])
     ELSE Return(pkt)

UpdateTcpMssOption == MssSkip \/ MssNop \/ MssEol \/ MssOther \/ MssUpdate

(***************************************************************************)
(* Uplink: Client.uplinkService.                                           *)
(***************************************************************************)

Goto(where, p) == at' = where /\ pkt' = p /\ UNCHANGED <<i, sent, links, epoch>>

Forget == at' = "idle" /\ pkt' = None /\ sent' = None /\ UNCHANGED <<i, links, epoch>>

\* The session of a packet.
FromIP(p) == [src |-> <<p.src, p.seg.sport>>, proto |-> p.proto, dst |-> <<p.dst, p.seg.dport>>]

\* What mapping.Name answers: the owner of the port, or that it is not known yet.
Name(owner) == {owner, None}

\* Capture, up to UpdateTcpMssOption: a multicast packet, one of another process,
\* and one whose process is not known yet pass.
Capture ==
  /\ at = "idle"
  /\ \E s \in Sends :
       LET t == [sport |-> s.sport, dport |-> s.dport, sum |-> 0,
                 opts |-> s.options.bytes, body |-> s.body]
           src == ClientAddr[s.client]
           p == IP(s.proto, src, s.dst, [t EXCEPT !.sum = SegSum(s.proto, src, s.dst, t)])
       IN  /\ pkt' = p
           /\ sent' = s
           /\ \E name \in Name(s.name) :
                at' = IF FromIP(p).dst[1] \in Multicast \/ name # Process
                      THEN "passed" ELSE "capture"
  /\ UNCHANGED <<i, links, epoch>>

\* capture.Send puts the packet back as it was.
CapturePass == at = "passed" /\ Forget

\* checksum.Client: as if the source address and port were zero.
ClientSum(t, proto, dst) ==
  [t EXCEPT !.sum = SegSum(proto, Unspecified, dst, [t EXCEPT !.sport = 0])]

\* A datagram of client c's tunnel: Peer, which Encode puts in front, and the segment.
Datagram(c, proto, peer, t) == [client |-> c, proto |-> proto, peer |-> peer, seg |-> t]

\* Peer.IsBuiltin, after Decode.
IsBuiltin(d) == d.peer = Unspecified /\ d.proto = Tcp

UplinkService ==
  /\ at = "captured"
  /\ Goto("up", Datagram(sent.client, pkt.proto, pkt.dst, ClientSum(pkt.seg, pkt.proto, pkt.dst)))

\* outboundService, on either end: a packet of the tunnel's own TCP.
OutboundService ==
  /\ at = "idle"
  /\ \E c \in Clients, end \in {"up", "down"} :
       /\ pkt' = Datagram(c, Tcp, Unspecified,
                          [sport |-> 0, dport |-> 0, sum |-> 0, opts |-> <<>>, body |-> 0])
       /\ at' = end
  /\ UNCHANGED <<i, sent, links, epoch>>

\* conn.Recv, on either end: Decode, and a builtin packet goes to the stack.
Recv ==
  /\ at \in {"up", "down"}
  /\ Goto(IF IsBuiltin(pkt) THEN "stack" ELSE IF at = "up" THEN "serve" ELSE "inbound", pkt)

Inbound == at = "stack" /\ Forget

(***************************************************************************)
(* Server.serveConn, over a mutxLinkManager.                               *)
(***************************************************************************)

\* mutxLinkManager.get, by the last byte of the remote's address.
Get(addr) == (addr % Radix) % Mutx

\* A link of the manager of one shard, with the tunnel it was added by.
Link(c, proc, proto, server, port) ==
  [shard |-> Get(server[1]), conn |-> <<c, epoch[c]>>, proc |-> proc, proto |-> proto,
   server |-> server, port |-> port]

\* The links an Uplink, and a Downlink, is found at.
Uplinks(proc, proto, server) ==
  {l \in links : l.shard = Get(server[1]) /\ l.proc = proc /\ l.proto = proto /\ l.server = server}
Downlinks(proto, server, port) ==
  {l \in links : l.shard = Get(server[1]) /\ l.proto = proto /\ l.server = server /\ l.port = port}

\* Mutant of Leasable: a port may be shared by flows to the same remote.
LeasableAny(proto, server) == Ports

\* The shards share one Adapter, which gives a remote a port at most once.
Leasable(proto, server) ==
  {p \in Ports : ~\E l \in links : l.proto = proto /\ l.server = server /\ l.port = p}

\* checksum.Server: the local address and port are added to the client's sum.
ServerSum(t, port) ==
  [t EXCEPT !.sum = Not(Combine(Checksum(<<ServerAddr>>, port), Not(t.sum))), !.sport = port]

ServeConn ==
  LET d == pkt
      proc == <<ClientAddr[d.client], d.seg.sport>>
      server == <<d.peer, d.seg.dport>>
      found == Uplinks(proc, d.proto, server)
      Send(port) == /\ at' = "wire"
                    /\ pkt' = IP(d.proto, ServerAddr, d.peer, ServerSum(d.seg, port))
                    /\ UNCHANGED sent
  IN
  /\ at = "serve"
  /\ \/ \E l \in found : Send(l.port) /\ UNCHANGED links
     \/ /\ found = {} /\ Cardinality(links) < MaxLinks
        /\ \E p \in Leasable(d.proto, server) :
             /\ links' = links \cup {Link(d.client, proc, d.proto, server, p)}
             /\ Send(p)
     \/ /\ found = {}
        /\ Leasable(d.proto, server) = {} \/ Cardinality(links) = MaxLinks
        /\ at' = "idle" /\ pkt' = None /\ sent' = None /\ UNCHANGED links
  /\ UNCHANGED <<i, epoch>>

(***************************************************************************)
(* What arrives at the server's interface, and the filter on it.           *)
(***************************************************************************)

\* The remote of the packet on the wire answers, or does not.
Reply ==
  /\ at = "wire"
  /\ \/ \E r \in Replies :
          LET t == [sport |-> pkt.seg.dport, dport |-> pkt.seg.sport, sum |-> 0,
                    opts |-> r.options.bytes, body |-> r.body]
          IN  /\ r.proto = pkt.proto
              /\ pkt' = IP(pkt.proto, pkt.dst, ServerAddr,
                           [t EXCEPT !.sum = SegSum(pkt.proto, pkt.dst, ServerAddr, t)])
              /\ sent' = [sent EXCEPT !.options = r.options, !.body = r.body]
              /\ at' = "eth"
     \/ at' = "idle" /\ pkt' = None /\ sent' = None
  /\ UNCHANGED <<i, links, epoch>>

\* Traffic of the host itself, and of protocols that are not proxied.
Arrive ==
  /\ at = "idle"
  /\ \E f \in Foreign :
       pkt' = IP(f.proto, f.src, ServerAddr,
                 [sport |-> f.sport, dport |-> f.dport, sum |-> 0, opts |-> <<>>, body |-> 0])
  /\ at' = "eth"
  /\ UNCHANGED <<i, sent, links, epoch>>

\* slices.Sort, slices.Compact: every port once, in increasing order.
SortCompact(s) ==
  CHOOSE r \in [1..Cardinality(Range(s)) -> Range(s)] :
    Range(r) = Range(s) /\ \A j, k \in DOMAIN r : j < k => r[j] < r[k]

\* Instructions of the filter; a jump distance is a uint8.
LoadProto == [op |-> "proto", val |-> 0, skip |-> 0]
LoadX == [op |-> "x", val |-> 0, skip |-> 0]
LoadPort == [op |-> "port", val |-> 0, skip |-> 0]
JumpNotEqual(v, skip) == [op |-> "jne", val |-> v, skip |-> skip % 256]
Ret(v) == [op |-> "ret", val |-> v, skip |-> 0]

\* Three instructions for each port that is skipped.
Checks(ports) ==
  [j \in 1..(3 * Len(ports)) |->
     CASE j % 3 = 1 -> LoadPort
       [] j % 3 = 2 -> JumpNotEqual(ports[(j + 1) \div 3], 1)
       [] j % 3 = 0 -> Ret(0)]

\* Mutant of BpfSkipPorts: the jump lands on the block's last instruction.
BpfSkipPortsShort(proto, list) ==
  LET skipIns == <<LoadX>> \o Checks(SortCompact(list)) \o <<Ret(1)>>
  IN  <<LoadProto, JumpNotEqual(proto, Len(skipIns) - 1)>> \o skipIns

BpfSkipPorts(proto, list) ==
  LET skipIns == <<LoadX>> \o Checks(SortCompact(list)) \o <<Ret(1)>>
  IN  <<LoadProto, JumpNotEqual(proto, Len(skipIns))>> \o skipIns

Filter == BpfSkipPorts(Tcp, SkipPorts[Tcp]) \o BpfSkipPorts(Udp, SkipPorts[Udp]) \o <<Ret(0)>>

\* The BPF machine: run[k][a] is what the filter returns of p from instruction k
\* with accumulator a.  A port is loaded relative to X, which LoadX has set to the
\* length of the header.
Run(p) ==
  LET run[k \in 1..Len(Filter)] ==
        [a \in {0, p.proto, p.seg.dport} |->
           LET ins == Filter[k] IN
           CASE ins.op = "proto" -> run[k + 1][p.proto]
             [] ins.op = "x"     -> run[k + 1][a]
             [] ins.op = "port"  -> run[k + 1][p.seg.dport]
             [] ins.op = "jne"   -> run[k + 1 + (IF a # ins.val THEN ins.skip ELSE 0)][a]
             [] ins.op = "ret"   -> ins.val]
  IN  run[1][0]

\* EthSender.Recv returns what the filter lets through.
EthRecv == at = "eth" /\ Goto(IF Run(pkt) = 0 THEN "filtered" ELSE "recv", pkt)

Filtered == at = "filtered" /\ Forget

(***************************************************************************)
(* Downlink: Server.recvService and Client.downlinkServic.                 *)
(***************************************************************************)

\* The Downlink of a packet.
StripIP(p) == [server |-> <<p.src, p.seg.sport>>, proto |-> p.proto, local |-> <<p.dst, p.seg.dport>>]

\* StripIP, Downlink, and Send to the link's tunnel with the process's port; what
\* has no link, or one whose tunnel is gone, is dropped.
RecvService ==
  LET link == StripIP(pkt)
      found == Downlinks(link.proto, link.server, link.local[2])
      live == {l \in found : l.conn[2] = epoch[l.conn[1]]}
  IN
  /\ at = "recv"
  /\ \/ \E l \in live :
          Goto("down", Datagram(l.conn[1], link.proto, link.server[1], [pkt.seg EXCEPT !.dport = l.proc[2]]))
     \/ live = {} /\ Goto("dropped", pkt)

Dropped == at = "dropped" /\ Forget

\* The client comes back: a new tunnel from the same address.  Nothing tells the
\* link tables.
Reconnect == /\ at \in {"idle", "wire", "eth", "recv"}
             /\ \E c \in Clients : epoch[c] < MaxEpoch[c] /\ epoch' = [epoch EXCEPT ![c] = @ + 1]
             /\ UNCHANGED <<at, pkt, i, sent, links>>

\* A new IP header, and rechecksum; Inject is entered.
DownlinkServic ==
  LET dst == ClientAddr[pkt.client] IN
  /\ at = "inbound"
  /\ Goto("inject", IP(pkt.proto, pkt.peer, dst,
             [pkt.seg EXCEPT !.sum = SegSum(pkt.proto, pkt.peer, dst, pkt.seg)]))

\* The process gets what Inject sends.
Deliver == at = "injected" /\ Forget

Init == /\ at = "idle" /\ pkt = None /\ i = 0 /\ sent = None
        /\ links = {}
        /\ epoch = [c \in Clients |-> 0]

Next == \/ Capture \/ CapturePass \/ UpdateTcpMssOption \/ UplinkService
        \/ OutboundService \/ Recv \/ Inbound \/ ServeConn
        \/ Reply \/ Arrive \/ EthRecv \/ Filtered \/ RecvService \/ Dropped
        \/ DownlinkServic \/ Deliver \/ Reconnect

Spec == Init /\ [][Next]_vars

\* A service that is in the loop goes on with it.
FairSpec == Spec /\ WF_vars(UpdateTcpMssOption)

(***************************************************************************)
(* Properties.                                                             *)
(***************************************************************************)

\* The options with the MSS lowered, as the sender wrote them: options.mss is
\* where the MSS option starts, None if there is none.
Lowered(options) ==
  LET k == options.mss
      mss == WordOf(options.bytes[k + 3], options.bytes[k + 4])
  IN  IF k = None \/ mss <= Overhead THEN options.bytes
      ELSE [options.bytes EXCEPT ![k + 3] = (mss - Overhead) \div Radix,
                                 ![k + 4] = (mss - Overhead) % Radix]

\* What was sent arrives: the content, and the options with the MSS lowered
\* once, under checksums that verify.
Intact == /\ Verifies(pkt)
          /\ pkt.seg.body = sent.body /\ pkt.seg.opts = Lowered(sent.options)

\* Uplink: the remote gets what the process sent, from the proxy server's
\* address and a port whose link leads back to that process; the tunnel's own
\* TCP, and nothing else, goes to the stack.
UplinkArrives ==
  /\ at = "stack" => sent = None
  /\ at = "wire" =>
       /\ Intact
       /\ <<pkt.proto, pkt.src, pkt.dst, pkt.seg.dport>> = <<sent.proto, ServerAddr, sent.dst, sent.dport>>
       /\ \A l \in Downlinks(pkt.proto, <<pkt.dst, pkt.seg.dport>>, pkt.seg.sport) :
            l.conn[1] = sent.client /\ l.proc[2] = sent.sport

\* Downlink: the process gets the remote's answer as if it came from the remote
\* itself, on the client it sent from.  An answer is lost on the server only when
\* the link it belongs to was added by a tunnel the client has given up.
DownlinkArrives ==
  /\ at = "injected" =>
       /\ Intact
       /\ <<pkt.proto, pkt.src, pkt.seg.sport>> = <<sent.proto, sent.dst, sent.dport>>
       /\ <<pkt.dst, pkt.seg.dport>> = <<ClientAddr[sent.client], sent.sport>>
  /\ at \in {"filtered", "dropped"} /\ sent # None =>
       \E l \in links : /\ l.proc = <<ClientAddr[sent.client], sent.sport>>
                        /\ l.server = <<sent.dst, sent.dport>>
                        /\ l.conn[2] < epoch[sent.client]

\* "will drop packet, that the protocol dst port in skip-ports": the compiled
\* filter lets exactly the TCP and UDP packets to other ports through.
FilterExact ==
  at \in {"recv", "filtered"} =>
    (at = "recv" <=> pkt.proto \in Transports /\ pkt.seg.dport \notin Range(SkipPorts[pkt.proto]))

\* The walk over the options ends, whatever they hold, unless it comes to an
\* option of length zero, which it never gets past.
Stuck == i + 1 < N /\ Opt(i) \notin {EOL, NOP, MSS} /\ Opt(i + 1) = 0
MssEnds == InMss ~> ~InMss \/ Stuck
=============================================================================
