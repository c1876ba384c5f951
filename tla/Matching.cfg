CONSTANTS
  a = a
  b = b
  c = c
  d = d
  NoUser = NoUser
  MaxHandlers = 2
  Users = {a, b, c, d}
  Bounds <- SomeBounds
SYMMETRY Symmetry
SPECIFICATION Spec
INVARIANTS TypeOK RoomForTwo RoomsFindPairs PairsMatchRooms SameRoomSamePair
CHECK_DEADLOCK FALSE
