CONSTANTS
  a = a
  b = b
  c = c
  v = v
  x = x
  y = y
  Nobody = Nobody
  Item = {x, y}
  Existing = {x}
  Tx = {a, b, c, v}
  Revokes <- Revoked
  News <- Created
  Contrary = {a}
  Expiring = {c}
SPECIFICATION Spec
CHECK_DEADLOCK FALSE
INVARIANTS
  TypeOK
  PromptApprovalStands
  LocksAreReleased
  VotesAreLocked
  ApprovedIsCommitted
  VotesExclude
  SpendingIsApproved
