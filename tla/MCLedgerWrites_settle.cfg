CONSTANTS
  a = a
  b = b
  c = c
  x = x
  y = y
  z = z
  Nobody = Nobody
  Item = {x, y, z}
  Tx = {a, b, c}
  News <- Contested
  Early = {a, c}
SPECIFICATION FairSpec
CHECK_DEADLOCK FALSE
INVARIANTS
  TypeOK
  NothingIsLeft
  CommitIsWhole
PROPERTIES
  AllSettle
