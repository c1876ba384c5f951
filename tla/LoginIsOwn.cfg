CONSTANTS
  s1 = s1
  s2 = s2
  s3 = s3
  NoSession = NoSession
  Sessions = {s1, s2}
  MaxUserCount = 1
  CheckUserCount = 1
  MaxConnectionNumber = 1
  RoomThrows = {}
  Bounds <- OneLogsIn
  MaxLogins = 1
SPECIFICATION Spec
INVARIANTS LoginIsOwn
