SPECIFICATION FairSpec
CONSTANTS
  u1 = u1
  s1 = s1
  Sockets = {s1}
  Updates = {u1}
  MaxChanges = 2
  Buffer = 1
  Push = TRUE
  Clock = TRUE
INVARIANTS
  AtMostOneLateAct
PROPERTIES
  RevokedIsClosed
  ExpiredIsClosed
