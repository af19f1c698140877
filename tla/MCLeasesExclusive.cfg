CONSTANTS
  tcp = tcp
  udp = udp
  icmp = icmp
  r1 = r1
  r2 = r2
  r3 = r3
  c1 = c1
  c2 = c2
  c3 = c3
  Protos = {tcp, udp, icmp}
  Transports = {tcp, udp}
  Ports = {1, 2}
  Remotes = {r1, r2, r3}
  Faults = FALSE
  Callers = {c1, c2, c3}
  Want <- WantShared
SPECIFICATION Spec
INVARIANT LeasesExclusive
