SPECIFICATION FairSpec
CONSTANTS
  r1 = r1
  r2 = r2
  w1 = w1
  w2 = w2
  d1 = d1
  d2 = d2
  NoProc = NoProc
  Reader = {r1, r2}
  Writer = {w1, w2}
  Dev = {d1, d2}
  Limit = 2
  Size = {1, 3}
  Want = {1, 2}
  MaxByte = 6
INVARIANTS TypeOK InOrder ReaderWoken WriterWoken
PROPERTY HangupReleases
