\* One service and four conns, or two services and two conns; two peers.
SPECIFICATION Spec
CONSTANTS
  Services = {s1, s2}
  Peers = {p1, p2}
  MaxConns = 4
  Segs = {b1, b2}
  BuffCap = 1
  ChCap = 1
  Faults = TRUE
  None = None
SYMMETRY UdpSymmetry
CHECK_DEADLOCK FALSE
INVARIANTS TypeOK BuffersOwnedOnce ReadsOwnPeer AcceptedOnce OneConnPerPeer SocketOutlivesConns
