CONSTANTS
  tcp = tcp
  udp = udp
  ipA = ipA
  ipB = ipB
  x = x
  y = y
  r1 = r1
  r2 = r2
  c1 = c1
  c2 = c2
  Protos = {tcp, udp}
  Transports = {tcp}
  Ports = {p1, p2}
  None = None
  Remotes = {r1, r2}
  Faults = FALSE
  Conns = {c1}
  Sends <- SendsSingle
  TTL = 1
  MaxTtl = 3
  MayClose = TRUE
SPECIFICATION Spec
PROPERTY SweepsAllExpired
