CONSTANTS
  a = a
  b = b
  NoUser = NoUser
  Users = {a, b}
  MaxUserCount = 2
  ThreadCounts = {1, 2}
  WinExp = 2
  LoseExp = 1
  LevelExp = 3
  MaxLogins = 3
  MaxGames = 2
SYMMETRY AnyUser
SPECIFICATION Spec
INVARIANTS TypeOK LevelsAreEarned OneThreadKeepsRecords NothingInvented
