\* Two clients, one of which reconnects once, two local ports, two shards in use of four.
SPECIFICATION FairSpec
CONSTANTS
  c1 = c1
  c2 = c2
  Radix = 8
  Clients = {c1, c2}
  MaxEpoch <- Once
  ClientAddr <- Addrs
  ServerAddr = 35
  Ports = {60, 61}
  Mutx = 2
  MaxLinks = 2
  Overhead = 6
  Process = "game"
  Multicast = {60}
  SkipPorts <- Skip
  Sends <- Sent
  Replies <- Answers
  Foreign <- Others
  None = None
CHECK_DEADLOCK FALSE
INVARIANTS UplinkArrives DownlinkArrives FilterExact
PROPERTIES MssEnds
