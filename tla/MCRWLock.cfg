SPECIFICATION FairSpec
CONSTANTS
  p1 = p1
  p2 = p2
  p3 = p3
  p4 = p4
  NoProc = NoProc
  Proc = {p1, p2, p3, p4}
INVARIANTS TypeOK Exclusion ReadersCounted WritersKeptOut
PROPERTY Served
