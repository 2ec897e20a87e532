CONSTANTS
  Expiring = {"payment", "payload"}
  GivingUp = {"payment", "payload"}
  Known = {"payment", "payload"}
  TxMayFail = TRUE
SPECIFICATION FairSpec
CHECK_DEADLOCK FALSE
INVARIANTS
  ExpiredIsNotCharged
  SettledAsVoted
PROPERTIES
  ParcelsEnd
  ItemsLeave
