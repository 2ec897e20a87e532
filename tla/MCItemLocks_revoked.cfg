CONSTANTS
  a = a
  b = b
  c = c
  v = v
  x = x
  y = y
  Nobody = Nobody
  Item = {x, y}
  Existing = {x}
  Tx = {a, c}
  Revokes <- Revoked
  News <- Created
  Contrary = {a}
  Expiring = {}
SPECIFICATION Spec
CHECK_DEADLOCK FALSE
INVARIANTS
  ApprovedStands
