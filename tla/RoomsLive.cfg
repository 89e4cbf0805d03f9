SPECIFICATION FairSpec
CONSTANTS
  Editors = {a}
  a = a
  w1 = w1
  w0 = w0
  Words = {w1}
  FirstWords = {w0}
  History = {{w0}}
  MaxRooms = 2
  Cap = 1
  Nobody = Nobody
  Janitor = Janitor
  Events = {"store","access","publish","reconnect"}
PROPERTIES
  IdleRoomsAreDropped
  JoinersAreServed
