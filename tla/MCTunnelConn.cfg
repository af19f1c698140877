\* Both services of the client and the server's receiver, two packets up, one
\* datagram lost; the client's handshake may fail, and it may call Close.
SPECIFICATION FairSpec
CONSTANTS
  c = c
  s = s
  Client = c
  Server = s
  Calls <- CallsFatun
  MaxData <- Uplink
  MaxLoss = 1
  PendCap = 1
  Failing = {c}
  MayClose = {c}
  None = None
CHECK_DEADLOCK FALSE
INVARIANTS TypeOK NoDataBeforeKeys RecvInOrder EarlyDataKept
PROPERTIES CallsReturn
