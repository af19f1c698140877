\* One tunnel of a client, which stops reading after a failed write.
SPECIFICATION FairSpec
CONSTANTS
  r1 = r1
  r2 = r2
  d1 = d1
  d2 = d2
  Writers = {w1}
  Readers = {r1}
  Dsts = {d1}
  Filter <- FilterClient
  Cancels = {}
  Buff = 8
  MaxPkts = 3
  None = None
PROPERTY SynCloseTimesOut
