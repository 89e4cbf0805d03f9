SPECIFICATION SpecLossAtInsert
CONSTANTS
  Editors = {a}
  a = a
  w1 = w1
  w2 = w2
  w0 = w0
  Words = {w1, w2}
  FirstWords = {w0}
  History = {{w0}}
  MaxRooms = 2
  Cap = 2
  Nobody = Nobody
  Janitor = Janitor
  Events = {}
INVARIANTS
  NoEditIsLost
