SPECIFICATION FairSpec
CONSTANTS
  u1 = u1
  s2 = s2
  s1 = s1
  Sockets = {s1,s2}
  Updates = {u1}
  MaxChanges = 0
  Buffer = 1
  Push = TRUE
  Clock = FALSE
INVARIANTS
  NothingIsMissed
PROPERTIES
  UpdatesReachEverybody
