SPECIFICATION Spec
CONSTANTS
  N = 3
  r1 = r1
  r2 = r2
  Root = {r1, r2}
  Field = {1}
  tmp = tmp
  Quanta = 2
  MaxRef = 4
CONSTRAINT Bound
SYMMETRY Symmetry
INVARIANTS TypeOK NoDangling RefsCover
CHECK_DEADLOCK FALSE
