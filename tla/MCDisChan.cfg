SPECIFICATION Spec
CONSTANTS
  p1 = p1
  p2 = p2
  p3 = p3
  c1 = c1
  c2 = c2
  NoProg = NoProg
  NoChan = NoChan
  Prog = {p1, p2, p3}
  Chan = {c1, c2}
  Lim = 2
  QChan = {c1}
  MaxAlt = 2
SYMMETRY Sym
CHECK_DEADLOCK FALSE
INVARIANTS TypeOK RunqConsistent NoMissedMeeting WaitConsistent AltMarksExact
PROPERTY ImplementsChannels
