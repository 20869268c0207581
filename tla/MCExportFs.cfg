SPECIFICATION Spec
CONSTANTS
  s1 = s1
  s2 = s2
  s3 = s3
  nil = nil
  Slave = {s1, s2, s3}
  MaxReq = 3
  NFid = 2
SYMMETRY Symmetric
INVARIANTS TypeOK OneReply RefsExact FidAgree WorkTaken
CHECK_DEADLOCK FALSE
