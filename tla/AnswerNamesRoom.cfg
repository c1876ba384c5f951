CONSTANTS
  a = a
  b = b
  c = c
  d = d
  NoUser = NoUser
  MaxHandlers = 2
  Users = {a, b}
  Bounds <- TwoUsers
SPECIFICATION Spec
INVARIANTS AnswerNamesRoom
CHECK_DEADLOCK FALSE
