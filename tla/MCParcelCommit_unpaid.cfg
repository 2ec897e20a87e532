CONSTANTS
  Expiring = {"payload"}
  GivingUp = {}
  Known = {}
  TxMayFail = FALSE
SPECIFICATION Spec
CHECK_DEADLOCK FALSE
INVARIANTS
  PayloadIsPaid
