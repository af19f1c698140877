\* Two tunnels of a server, two goroutines of the stack; the queue has room for four
\* packets of five.
SPECIFICATION Spec
CONSTANTS
  r1 = r1
  r2 = r2
  d1 = d1
  d2 = d2
  Writers = {w1, w2}
  Readers = {r1, r2}
  Dsts = {d1, d2}
  Filter <- FilterServer
  Cancels = {r1}
  Buff = 2
  MaxPkts = 5
  None = None
INVARIANTS TypeOK RefsBalanced AsleepOnlyInTheGap
PROPERTY OldestLeavesFirst
