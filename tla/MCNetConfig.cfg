CONSTANT MaxNodes = 400
SPECIFICATION Spec
INVARIANTS
  VerdictsExclude
  ApprovalsIntersect
  TurnoutDecides
\* the network stops growing at MaxNodes
CHECK_DEADLOCK FALSE
