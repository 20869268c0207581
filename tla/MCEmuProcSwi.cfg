SPECIFICATION FairSleepSpec
CONSTANTS
  r1 = r1
  r2 = r2
  w1 = w1
  w2 = w2
  NoRend = NoRend
  NoProc = NoProc
  VM = VM
  Rend = {r1, r2}
  Waker = {w1, w2}
PROPERTIES PulledOut
CHECK_DEADLOCK FALSE
