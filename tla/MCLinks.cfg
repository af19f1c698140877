\* Two clients behind different addresses that want the same remote, two flows
\* of one of which share the local port; faults, and close at any time.
CONSTANTS
  tcp = tcp
  udp = udp
  ipA = ipA
  ipB = ipB
  x = x
  y = y
  r1 = r1
  r2 = r2
  c1 = c1
  c2 = c2
  Protos = {tcp, udp}
  Transports = {tcp}
  Ports = {p1}
  None = None
  Remotes = {r1, r2}
  Faults = TRUE
  Conns = {c1, c2}
  Sends <- SendsApart
  TTL = 1
  MaxTtl = 3
  MayClose = TRUE
SPECIFICATION Spec
INVARIANTS NoPortLeak ReturnPath NoStaleReturnPath PortHeld PanicOnlyAfterClose TtlMatchesLinks
PROPERTIES NoEarlyExpiry
