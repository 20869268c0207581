SPECIFICATION FairSpec
CONSTANTS
  i1 = i1
  i2 = i2
  i3 = i3
  k1 = k1
  k2 = k2
  NoProc = NoProc
  Interp = {i1, i2, i3}
  Kproc = {k1, k2}
  NProg = 2
  MaxYield = 5
INVARIANTS TypeOK OneOwner NobodyForgotten NoLostWakeup
PROPERTY AcquireServed
