CONSTANTS
  tcp = tcp
  udp = udp
  ipA = ipA
  ipB = ipB
  x = x
  y = y
  r1 = r1
  r2 = r2
  c1 = c1
  c2 = c2
  Protos = {tcp, udp}
  Transports = {tcp}
  Ports = {p1}
  None = None
  Remotes = {r1, r2}
  Faults = FALSE
  Conns = {c1, c2}
  Sends <- SendsShared
  TTL = 0
  MaxTtl = 3
  MayClose = FALSE
SPECIFICATION FairSpec
INVARIANTS TypeOK EveryLinkHasTtl TtlSorted
PROPERTIES PacketProgress
