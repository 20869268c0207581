SPECIFICATION Spec
CONSTANTS
  p1 = p1
  p2 = p2
  p3 = p3
  nil = nil
  Proc = {p1, p2, p3}
  NRpc = 3
  NFlush = 1
  MaxCall = 3
  MaxIntr = 2
SYMMETRY Symmetric
INVARIANTS TypeOK OwnReply QueueExact NobodyStuck
CHECK_DEADLOCK FALSE
