# A TLA+ verification project for fatun

fatun is a proxy. A client captures IP packets on its machine, sends them
through a datagram tunnel to a server, and the server sends them on from a local
port of its own; answers come back the same way. This directory holds TLA+
models of the parts that carry its logic, TLC configurations, and TLAPS proofs.
All references are to files of the repository under `src/`.

## 1. Inventory

| Part | State | Operations | What makes it correct |
|---|---|---|---|
| `links.Heap` (`links/links.go`) | array, start, size | Put, Pop, Peek, grow | it is a FIFO queue |
| `ports.Adapter`, `ports.Manager` (`ports/`) | map from (protocol, port) to the remotes that share it; sockets that hold the ports | GetPort, DelPort, Close | no port leaks; a lease stays recorded and has somebody to return it; two leases of one port have different remotes |
| `maps.linkManager` (`links/maps/maps.go`) | uplinkMap, downlinkMap, ttl queue, a use counter per link | Uplink, Downlink, Add, Cleanup, Close | every live link has its return path, its port and its ttl entry; only idle links expire |
| `maps.mutxLinkManager` (`links/maps/mutx.go`) | linkManagers that share one Adapter | the same, by the server's last address byte | as above for each shard; a packet and its answer meet the same shard |
| `Server` (`server.go`) | the parts, closeErr | acceptService, one serveConn per tunnel, recvService, close | every packet is sent or dropped; close ends everything once |
| `udp.Listener`, `acceptConn` (`conn/udp/`) | table of conns, buffer pool, channels | accept services (one per CPU), Accept, Read, Close, delayed removal | a buffer has one owner; a conn reads its own peer only and is accepted once; the socket outlives its conns |
| `conn.conn`, `conn.listener` (`conn/`) | handshake state, early packets, keys, builtin TCP connection | BuiltinConn, Recv, Send, Close, outboundService, handshakeInboundService | keys before data; early data kept and in order; the handshake ends |
| `link.List` (`ustack/link/`) | bounded packet queue, condition variable | WritePackets, Get, GetBy, SynClose | references balance; order per tunnel; a reader sleeps beside a packet for it only by the window in Get; the close ends |
| `ustack`, `gonet` (`ustack/`) | gVisor stack, deadlines | Dial, AcceptBy, Read, Write, deadlines, closes | a deadline that passed cancels, one that was replaced does not; no call sleeps through its event; each byte is written once |
| `Client`, Windows capture (`client.go`, `client_windows.go`) | capture, conn | uplink and downlink services, Capture, Inject, MSS rewriting | rewritten packets verify and reach the process they are for |
| `checksum`, `session`, `conn.Peer`, BPF filter of `EthSender` | none | pure functions | the checksum a receiver verifies; exactly the skipped ports are filtered |
| `crypto`, pcap wrappers, WinDivert driver, raw sockets | keys, files, drivers | I/O | out of scope |

How they interact: `serveConn` goroutines (one per tunnel) call
`linkManager.Uplink` and `Add`; `Add` runs `Cleanup` and calls the `Adapter`,
which calls the `Manager`; `recvService` reads `downlinkMap` and sends on the
tunnel it finds there. A tunnel is a `conn.conn` over an `acceptConn` of the
`udp.Listener` (server) or a UDP socket (client); its handshake is a TCP
connection run over the tunnel itself by a user-mode stack, whose packets pass
through a `link.List`. On its way a packet is rewritten four times: the client
strips the IP header and takes a checksum over no addresses, the server adds its
own address and port, recvService strips again, and the client builds the header
the process expects.

The hard behaviours: operations that take a lock twice and are open to others in
between (GetPort, DelPort, Add, Cleanup, the Listener's lookup and insert, Get);
a sweep that loops over a queue it refills; timers that act on whatever they
find later; channels closed under a sender; a handshake that needs one more
datagram to end; deadlines replaced while a call sleeps under the old one;
links that outlive the tunnel they lead to; lengths and jump distances of one
byte. `PROJECT.json` lists them as hazards with their lines.

## 2. Modules

| Module | Models |
|---|---|
| `Fifo` | abstract specification: an unbounded FIFO queue |
| `Heap`, `MCHeap`, `HeapProofs` | the ring buffer; implements `Fifo` |
| `PortAdapter` | critical sections of the Adapter and the Manager, as actions on shared state |
| `PortCallers`, `MCPortCallers`, `PortCallersProofs` | goroutines that string those sections together |
| `LinkManager`, `MCLinkManager`, `LinkManagerProofs` | serveConn over linkManager, composed with `PortAdapter` |
| `UdpListener`, `MCUdpListener`, `UdpListenerProofs` | accept services, conns, pool and timers |
| `LinkList`, `MCLinkList`, `LinkListProofs` | writers, readers and SynClose |
| `TunnelConn`, `MCTunnelConn`, `TunnelConnProofs` | both ends of a tunnel, with a lossy network between them |
| `PacketPath`, `MCPacketPath`, `PacketPathProofs` | capture, client, tunnel, server and BPF filter as one packet passes them, and the answer back |
| `Gonet`, `MCGonet`, `GonetProofs` | the blocking calls of gonet and the deadlines that interrupt them |

Correspondence. An action is one critical section, one channel operation or one
blocking call, and its name is the function's, with a suffix when a function has
several (`GetPortScan`, `GetPortAlloc`, `GetPortRecord`). Variables keep the
source's field names (`sart`, `uplinkMap`, `donwlinkMu` excepted: its critical
sections are single actions, so it needs no variable). A `pc` per goroutine
says which section comes next. `map` in `PROJECT.json` gives the lines of each
definition.

Abstractions worth knowing:

- `AddrSet` is a set; `{}` stands for an absent key, since DelPort deletes a key
  whose set becomes empty.
- DelTCPPort's two steps (forget the socket, close it) are one: in between the
  kernel still holds the port and no map does.
- The ttl queue of `LinkManager` is a sequence, which `HeapProofs` justifies. An
  entry holds its age instead of its start, cut off at ttl + 1, so time is
  unbounded. The 48-bit use counter is the set `busy` of links whose counter is
  not zero.
- `due`, `unused`, `raced`, `late` and `orphaned` in `LinkManager` are history
  variables: only properties read them. `raced` holds the ports that GetPort
  recorded although its scan was stale by then; `late` holds the return paths Add
  wrote after the link had been swept; `orphaned` holds the leases whose link
  another Add overwrote. So is `gap` in `LinkList`: the packets for a reader that
  were put after its last try and before it waited.
- A UDP buffer's contents are the peer its datagram came from.
- In `TunnelConn` TLS and the key exchange are the flag `keyed`; the gVisor TCP
  is a three-way handshake with retransmission and keepalive, and a second copy
  of a TCP packet already in flight is left out. The network keeps order, so a
  reordering the model shows is the conn's own.

- In `PacketPath` one packet is under way at a time: packets meet only in the link
  tables, whose races `LinkManager` has. A byte has `Radix` values and a word is two
  bytes, so that sums carry and bytes straddle words at small values (256 in the
  code, 8 in the run, any number in the proofs). The filter is
  compiled to instructions and run, as the kernel would (`Run`, external). A
  client's `epoch` counts its tunnels; a link keeps the one it was added with.
- In `Gonet` the endpoint and its wait queue are external: it signals readable
  data, a connection, an end, and room in the send buffer (TCP's once half of it
  is free). AcceptBy takes any connection that is queued, as `ep.Accept` does, whose
  argument is only filled in. Times are zero, past or future, and a timer may fire at any moment.

A nil dereference or a send on a closed channel sets `panicked`, after which
nothing happens.

## 3. Runs

| Run | Question | Instance |
|---|---|---|
| `heap` | is the ring buffer a FIFO queue? | starts with 1 slot, up to 5 elements: three growths, from every start index |
| `ports` | do concurrent leases leak, vanish or crash? | 3 callers that share and do not share, TCP, UDP and an unknown protocol, 2 ports, faults, Close |
| `ports_exclusive` | are the leases of one port for different remotes? (**violated**) | 3 callers, same remotes |
| `links` | do the maps, the queue and the sockets agree when two clients compete, and has every lease somebody to return it? | 2 clients behind different addresses, 3 flows, 1 port that two of them can share, ttl 1, faults, close |
| `links_shared` | what survives when two tunnels carry the same flow, and is every packet finished? | 2 tunnels, 1 port, queue of 3, fairness |
| `links_sweep` | does a sweep remove every expired idle link? (**violated**) | one client, 3 flows, 2 ports, ttl 1 |
| `udp` | are buffers, conns and the socket used safely, and is a conn accepted once? | one service with 4 conns, or two with 2; 2 peers, 2 buffers, channels of 1 |
| `list` | references, order and wake-ups of the queue | 2 writers, 5 packets, 2 readers, room for 4 (the code's minimum), SynClose |
| `synclose` | does SynClose return after its deadline? (**violated**) | 1 reader that may stop |
| `tunnel` | handshake against Recv, Send and Close; does every call return after a handshake that succeeds? | the client receives and sends, the server receives, 2 packets up, 1 loss, early channel of 1; the client's handshake may fail, and it may close; fairness |
| `path` | does a packet, and its answer, arrive at the right place and verify? does the filter filter, and the walk over TCP options end? | bytes of 3 bits, 2 clients with the same process port, one of which reconnects, 2 ports, `mutx` 2; the MSS option at every offset of 8 bytes; options that are malformed, cut off or of length zero; other packets on the server's interface |
| `gonet` | are deadlines exact, is a wake-up lost, is a byte written twice? | one reader under 3 deadlines; 2 readers, TCP or UDP, under 2; 2 TCP writers of 3 bytes with room for 2; 2 UDP writers; 2 acceptors on one listener, 2 peers |

Bounds and why they are enough. Two goroutines exhibit every two-party race of
the locks; the third caller of `ports` lets one share while another returns.
Capacities are as small as the code allows, so that full channels and full
queues happen. The queue bound `MaxTtl` is one more than the number of links
where duplicates can arise. `MaxConns` in `UdpListener` lets a peer's conn be
closed, removed and made anew while an older one's timer is pending. `path` has
values on both sides of every carry and every place the MSS option can take
relative to a word. Three deadlines let a timer that fired late meet the channel
made after the one it was set for.

Fairness. `links_shared`: a goroutine that can run runs, and a RWMutex is
eventually granted to a goroutine that keeps asking for it, which sync.RWMutex
guarantees: strong fairness of a goroutine's steps between two packets.
Clients need not send and time need not pass. `synclose`: goroutines inside a
call go on, `outboundService` reads again until it stops, and deadlines pass.
`tunnel`: goroutines run; the TCP retransmits and sends keepalive probes,
which `NewTCPConn` switches on; of two goroutines blocked in Read neither is
passed over for ever (strong fairness of the reads), as the poller and Go's
channels queue their waiters. `path`: a service inside the loop over the options
goes on with it. `list` and `gonet` state no fairness: `AsleepOnlyInTheGap` and
`NoLostWakeUp` are invariants, that a sleeping call with something to do has its
notification, or, in `list`, that its Broadcast is coming.

Deadlock is checked except in `udp`, `tunnel`, `path` and `gonet`, where the
number of conns, packets, links or calls is bounded and the program may stop.

### What the violations show

- `ports_exclusive`: GetPort scans under a read lock and records under a later
  write lock. Two overlapping calls for one remote get the same port, against
  the comment at `ports/adapter.go:40`.
- `links_sweep`: `for i := 0; i < t.ttl.Size(); i++` pops an entry per turn, so
  of n expired idle links a sweep removes about half (`links/links.go:23` says
  "Cleanup clean timeout ttl link"). Later sweeps get the rest.
- `synclose`: the loop condition at `ustack/link/list.go:62` is a disjunction, so
  the deadline does not end it while the queue holds a packet. When
  `outboundService` stops on a failed write and closes the conn, it is the very
  goroutine that would have emptied the queue.

### Where a property needs its condition

- With several tunnels that share client address and process port, the queue
  can hold two entries of one link, and the second sweep meets a nil port:
  `TtlMatchesLinks` and `PanicOnlyAfterClose` are checked for distinct clients.
  And the second Add overwrites the first one's port, which no Cleanup returns
  any more: `NoPortLeak` excepts these leases (`orphaned`) unless the clients are
  distinct. They stay recorded until the server is closed. The run `links` has distinct
  clients; `LinksNoPortLeak` covers shared uplinks too.
- A packet put between Get's try and its Wait wakes nobody (`ustack/link/list.go:221`)
  and lies in the queue, with the reader asleep beside it, until the next Put.
  `AsleepOnlyInTheGap` says that this window is the only one: whatever else is in
  the queue for a sleeping reader, its Broadcast is coming.
- setFilterAll that fails leaves an open socket in no map (`ports/manager.go:44`) until
  the finalizer closes it: such a socket is in no state of the models.
- GetPort's scan may choose a port that a concurrent DelPort removes before the
  record. The record then enters a port whose socket is closed, another call
  may open it anew, and two links hold one port; the second DelPort meets no set.
  `ReturnPath`, `PortHeld` and `PanicOnlyAfterClose` hold but for the ports in
  `raced`: this is the only way to lose them.
- If a goroutine stops for more than the ttl between the two maps of Add, another
  one's sweep removes the link first and the entry in downlinkMap stays:
  `ReturnPath` and `NoStaleReturnPath` hold but for `late`.
- A client that reconnects keeps using links that lead to its old tunnel: Uplink
  finds them, recvService sends their answers to the closed conn and drops them,
  and each packet that goes up keeps the link from expiring (a TODO at
  `server.go:260` asks for the repair). `DownlinkArrives` says an answer is lost
  in no other way.
- A TCP option of length zero keeps `UpdateTcpMssOption` in place for ever
  (`client.go:250`): `MssEnds` excepts it.
- The filter's jump distance is a uint8, and 85 or more ports wrap it. The model
  keeps the wrap (`FilterExact` would fail); the program passes one port.
  `FilterCorrect` is for lists of at most 84 distinct ports (`ShortSkipPorts`).
- Links are found by the process's address and port, not by the tunnel: clients
  behind one address would share links. And an answer to a leased port that the
  filter skips would be lost. `UplinkCorrect` and `DownlinkCorrect` are for clients
  at addresses of their own (`DistinctAddrs`), and `DownlinkCorrect` for leased ports
  outside the lists (`LeasedNotSkipped`). The run's instance is such a case.
- WriteTo of a UDPConn sleeps right after it registers, without asking again, and
  may miss the room that appeared before: `NoLostWakeUp` leaves it out. Nothing
  in the repository sends through a UDPConn.
- With several accept services a new peer may get two conns, of which closing one
  removes the other from the table: `OneConnPerPeer` and half of
  `SocketOutlivesConns` are stated for one service.
- `acceptConn.put` receives from a channel it found full (`conn/udp/conn.go:81`).
  If a reader emptied it since, put waits for another service to fill it, and
  with one service for ever. A conn that finds `connCh` full stays in the table
  and no Accept returns it. Neither is promised anywhere; both are in the model,
  and no property excludes them. The same holds for the two sends on a closed
  channel: put's, when the conn is closed after put looked (the comment at
  `conn/udp/conn.go:78` admits it), and the accept service's on `connCh`.
- `AcceptBy(src)` returns whichever connection is queued and fills `src` in
  (`ustack/gonet/gonet.go:304`), so two tunnels that handshake at once over the
  server's one listener may get each other's builtin connection. `Gonet` allows it;
  nothing states whose it should be. `TunnelConn` has one tunnel, which cannot show it.
- A handshake that fails waits for its inbound goroutine, which waits for a
  datagram or for the conn to be closed, which happens only after the handshake
  returns; and the calls that wait for `handshakedNotify` are never told.
  `CallsReturn` is about handshakes that succeed.
- When Send won the handshake, Recv and the inbound goroutine share the conn for
  one datagram, and a packet may be overtaken or lie in the early channel until
  the next datagram: `RecvInOrder` is about a Recv that ran the handshake.

## 4. Proofs

All theorems hold for every value of the constants that the named assumptions
allow: `HeapAssumption`, `AdapterAssumption`, `CallersAssumption`,
`LinksAssumption`, `ReturnAssumption`, `UdpAssumption`, `ListAssumption`,
`TunnelAssumption`, `GonetAssumption`, `PathAssumption` and `TrafficAssumption`. They say that numbers are numbers, that
capacities are as the code makes them, that `None` is no real value, and that the
accept services (one per CPU) are finitely many. `PathAssumption` adds that words
are wide enough for the protocol numbers and `mutx` is positive and fits a byte;
`TrafficAssumption`, that options fill whole 32-bit words and that a message's mark,
which only properties read, is where the walk over its options meets a complete MSS
option (`Marked`), that UDP has none, that no process sends to 0.0.0.0, which stands
for the stack, and that no other packet of the host is for a port the server leases.
Malformed options, and options of length zero, satisfy it. Theorems that need clients or
callers not to collide say so (`DistinctClients`, `DistinctWants`, `DistinctAddrs`).

- `HeapProofs`: `HeapTypeCorrect`; `HeapImplementsFifo`, by showing that each of
  Put (with and without growth), Pop and Peek changes `Content`, the array read
  from `sart` on, as the abstract action does. It needs the type invariant: the
  single conditional subtraction of `Wrap` is a remainder only for indices below
  twice the capacity.
- `PortCallersProofs`: `CallersTypeCorrect`; `NoPortLeakHolds`, inductive with
  the type invariant, because a port is always recorded or in the hands of the
  goroutine that listens or closes; `LeasesStayRecorded`, for callers with
  distinct wants, since then no Remove takes another's remote, and
  `PanicsOnlyAfterClose`, since a DelPort then finds its own lease.
- `LinkManagerProofs`: `LinksTypeCorrect` (with who holds `uplinkMu` and what
  each goroutine carries); `QueueSorted`, because entries enter with age 0 and
  time ages all alike; `LinksHaveTtl`, inductive because a sweep removes a link
  and its entry together and requeues all others; `LinksNoPortLeak`, in two parts:
  the Manager's ports are recorded or in flight, as for the callers, and a recorded
  lease goes from the goroutine that recorded it to the link and on to the Cleanup
  that sweeps it, so that it always has an owner, unless AddUp overwrote a link,
  which for distinct clients it never does.
  For distinct clients the invariant `ClientInv` joins three parts that need one
  another: the queue has one entry per link; a link that was missing at the lookup
  is missing until its own AddUp (else AddUp would duplicate the entry); an
  entry's age does not exceed the time its link has been unused, unless the link
  is marked busy. `QueueMatchesLinks` and the action property `NoEarlyExpiry`
  (`LinksExpireLate`) follow.
  `PortInv` follows a lease, a server on a port, through the three places that can
  hold it: the goroutine that recorded it, the link that AddUp makes, the Cleanup
  that swept the link. While the server is open and the port is not in `raced`, a
  lease that somebody holds is recorded, and one place holds it. A step keeps
  this in one of four ways (`LeaseKept`, `LeaseGained`, `LeaseMoved`,
  `LeaseDropped`); the gain needs that the scan of GetPort is still right, which is
  what `raced` excepts. From it come `PortsAreHeld`, for any clients;
  `LinksPanicOnlyAfterClose`, with `QueueMatchesLinks` for the sweep; and
  `ReturnPathsAreFound`: a DownDel or an AddDown that hits the return path of a
  live link would hold the same lease, and `LateInv` says that a goroutine about to
  write its return path finds its own link or none. `ReturnPathsEnd` needs only
  that AddUp overwrites no link.
- `UdpListenerProofs`: `UdpInv` joins what each accept service carries
  (`ServiceInv`), that every buffer is in one place (`OwnedOnce`) and holds its
  peer's data, that a new conn is offered once and untouched until then
  (`OfferInv`), and, for one service, that the table leads to every conn whose
  removal is still due (`LinkInv`) and that nothing is on its way to the program
  once the socket is closed (`SocketInv`). `UdpTypeCorrect`, `BuffersHaveOneOwner`,
  `ConnsReadTheirOwn`, `ConnsAcceptedOnce`, `PeersHaveOneConn` and `SocketStaysOpen`
  follow.
- `LinkListProofs`: `ListInv` adds to the types that the queue is in writing
  order, that a packet in a reader's hand has left the queue and is no other
  reader's, and that the reference count says just that. `ListTypeCorrect`,
  `ListRefsBalanced` and the action property `ListOldestLeavesFirst` follow. For
  `ListAsleepOnlyInTheGap` one adds `TriedInVain`: all that a reader between its try
  and its Wait may find is what was put since.
- `TunnelConnProofs`: `TunnelInv` describes the stages of a handshake on each side
  and how the early channel, the packets on the wire and the ones returned continue
  one another. `TunnelTypeCorrect`, `KeysComeFirst` and `RecvKeepsOrder` follow.
  `EarlyDataIsKept` counts: while no packet is lost, all that was sent is present
  on the receiver's side, or as many packets as the early channel holds were
  already there when one was dropped.
- `GonetProofs`: `TimerInv` says for each direction which timer may still close
  which cancel channel, for `DeadlinesAreExact`. `CallInv` says what each place of
  a call has asked and registered, for `WakeUpsAreKept`; `CancelInv` that the channel
  a call took stays current or is closed, for `SleepersAreCancellable`. `OutInv`
  relates the bytes in the endpoint to the count of each Write, for
  `WrittenExactlyOnce`.

- `PacketPathProofs`: `PathInv` says for each place of the way what kind of packet is
  there (`Own`, `Tunnelled`, `Returned`, `Answer`, `Stranger`), how it continues what
  was sent and what its checksum adds up to there, and that no two links have one
  port at one remote. It is inductive for all clients, ports and lists
  (`PathCorrect`); TLC checked it on the run's instance before it was proved.
  `UplinkCorrect`, `FilterCorrect` and `DownlinkCorrect` follow under the conditions
  above. What it rests on:
  - *Induction.* The sum over a list and the filter's machine are recursive
    functions. The library's induction theorems cannot be instantiated here, but
    `<` on the naturals is well founded, so a non-empty set of them has a least
    element (`Least`), which gives induction with the property as a set
    (`Induction`), the existence and uniqueness of what `Total` and `Run` define,
    and that `SortCompact` finds what it chooses.
  - *Checksums.* One's-complement sums are congruences modulo `Base - 1` (`Cong`). A
    segment is `Right` when its words and the pseudo header add up to 0, and so
    verifies. The sum a client sends is that of the segment as if it came from
    address and port zero; `ServerSumBalances` adds the server's, `SegSumBalances`
    is the sum computed anew. The receiver wants `Base - 1`, not 0, which is in the same
    class; the protocol number, never 0, keeps the sum from being 0.
  - *The MSS.* `MssUpdateRight`: the checksum changes by what the words change by,
    for an even offset by one word, for an odd one by the two it straddles. Options
    come in fours, so those two exist. That `UpdateTcpMssOption` lowers the right
    option follows from `Marked` along the walk.
  - *The filter.* Its instructions are described block by block (`BlockAt`); a machine
    only moves forward (`GoesOn`), so it ends; `RunExact` says how. A jump over n
    ports is 3n + 2 long, hence 84.

Only model-checked: the liveness properties `PacketProgress`, `CallsReturn`
and `MssEnds`, since the prover handles neither fairness nor ENABLED.

## 5. Not modelled, and the plan

Out of reach or pure I/O: cryptography, pcap files, the WinDivert driver, raw
sockets, the gVisor stack itself, the discovery of adapter and gateway.

Left out, because nothing interleaves with it or nothing uses it: the setup in
NewServer and NewClient and acceptService, which starts a serveConn per tunnel;
`WaitSentDataRecvByPeer` and `DialUDP` of gonet, which no part of the program
calls; IPv6, which capture and server refuse.

In this order:

1. The deadline that the handshake's context sets on the builtin conn
   (`conn/conn.go:282`) against a handshake that just ended, as a composition of
   `Gonet` and `TunnelConn`.
2. `conn.listener` with several conns over one stack.
