SPECIFICATION FairSpec
CONSTANTS
  N = 3
  r1 = r1
  Root = {r1}
  Field = {1}
  tmp = tmp
  Quanta = 2
  MaxRef = 4
CONSTRAINT Bound
PROPERTY Collected
CHECK_DEADLOCK FALSE
