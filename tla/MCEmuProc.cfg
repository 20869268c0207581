SPECIFICATION FairSleepSpec
CONSTANTS
  r1 = r1
  r2 = r2
  w1 = w1
  w2 = w2
  NoRend = NoRend
  NoProc = NoProc
  VM = VM
  Rend = {r1, r2}
  Waker = {w1, w2}
INVARIANTS SleepTypeOK NoLostWakeup OneWaker NoStraySignal
CHECK_DEADLOCK FALSE
PROPERTY Woken
