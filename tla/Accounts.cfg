CONSTANTS
  r1 = r1
  r2 = r2
  r3 = r3
  r4 = r4
  x = x
  y = y
  p = p
  q = q
  NoPassword = NoPassword
  Calls = {r1, r2, r3, r4}
  Ids = {x, y}
  Passwords = {p, q}
SYMMETRY AnyCall
SPECIFICATION Spec
INVARIANTS TypeOK OneCreator TokenFromHive TokenMeansData LoginHasData
CHECK_DEADLOCK FALSE
