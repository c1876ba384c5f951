CONSTANTS
  s1 = s1
  s2 = s2
  s3 = s3
  Sessions = {s1, s2, s3}
  Users = {s1, s2, s3}
  UserOf <- ThreeUsers
  MaxUserCount = 2
  MaxTurnOverCnt = 2
  RoomMaxCount = 2
  CheckRoomCount = 1
  MaxStones = 1
  Reach <- TwoRooms
  Late = {s2}
SPECIFICATION FairSpec
INVARIANTS TypeOK StartedGameIsLive EmptyRoomIsIdle RoomNumberIsMember BoundToOneRoom
PROPERTIES GameEndsWithVerdict ResultIsFair GameEnds
