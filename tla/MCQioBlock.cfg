SPECIFICATION Spec
CONSTANTS
  r1 = r1
  w1 = w1
  NoProc = NoProc
  Reader = {r1}
  Writer = {w1}
  Dev = {}
  Limit = 4
  Size = {1, 5}
  Want = {1, 2}
  MaxByte = 12
INVARIANT FlowRestarts
