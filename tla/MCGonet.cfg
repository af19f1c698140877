\* A write does not fit into the send buffer.
SPECIFICATION Spec
CONSTANTS
  r1 = r1
  r2 = r2
  w1 = w1
  w2 = w2
  a1 = a1
  a2 = a2
  p1 = p1
  p2 = p2
  None = None
  Readers = {r1, r2}
  Writers = {w1, w2}
  Acceptors = {a1, a2}
  Peers = {p1, p2}
  Size = 3
  SndCap = 2
  Uses <- UsesAll
CHECK_DEADLOCK FALSE
INVARIANTS DeadlineExact SleepersCancellable WrittenOnce NoLostWakeUp
