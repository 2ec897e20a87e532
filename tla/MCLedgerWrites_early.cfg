CONSTANTS
  a = a
  b = b
  c = c
  x = x
  y = y
  z = z
  Nobody = Nobody
  Item = {x}
  Tx = {a, b}
  News <- Shared
  Early = {b}
SPECIFICATION FairSpec
CHECK_DEADLOCK FALSE
PROPERTIES
  ChecksReturn
