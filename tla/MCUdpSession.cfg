CONSTANTS
  p = p
  q = q
  Payload = {p, q}
  MaxRetransmit = 1
  MaxQueue = 1
  Scenario <- Scenarios
SPECIFICATION FairSpec
INVARIANTS
  TypeOK
  KeysAgree
  NothingVanishes
  HandedOnce
PROPERTIES
  Drains
