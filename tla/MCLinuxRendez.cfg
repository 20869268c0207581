SPECIFICATION FairSpec
CONSTANTS
  p1 = p1
  p2 = p2
  p3 = p3
  k1 = k1
  k2 = k2
  v1 = v1
  v2 = v2
  None = None
  Proc = {p1, p2, p3}
  Key = {k1, k2}
  Val = {v1, v2}
  NTag = 3
INVARIANTS TypeOK TagsOwned PostComes
PROPERTIES ImplementsRendez MetReturns
