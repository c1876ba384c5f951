CONSTANTS
  a = a
  b = b
  c = c
  Users = {a, b, c}
  RoomMaxCount = 2
  Capacity = 3
  MaxRequests = 3
SYMMETRY AnyUser
SPECIFICATION Spec
INVARIANTS TypeOK DequeueFindsRoom RoomInOnePlace
