CONSTANTS
  s1 = s1
  s2 = s2
  s3 = s3
  NoSession = NoSession
  Sessions = {s1, s2, s3}
  MaxUserCount = 2
  CheckUserCount = 1
  MaxConnectionNumber = 3
  RoomThrows = {s1}
  Bounds <- SomeBounds
  MaxLogins = 1
SPECIFICATION FairSpec
INVARIANTS TypeOK SlotIsOwn
PROPERTIES SilentIsClosed SlotsAreFreed
