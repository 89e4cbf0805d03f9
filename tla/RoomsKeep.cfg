SPECIFICATION Spec
CONSTANTS
  Editors = {a,b}
  a = a
  b = b
  w1 = w1
  w2 = w2
  w0 = w0
  Words = {w1,w2}
  FirstWords = {w0}
  History = {{w0}}
  MaxRooms = 2
  Cap = 2
  Nobody = Nobody
  Janitor = Janitor
  Events = {"crash", "store", "restore"}
SYMMETRY Symmetry
INVARIANTS
  RoomHoldsStored
  EntryMatchesRoom
  OneCopy
PROPERTIES
  SavesNeverForget
  ImplementsPage
