CONSTANTS
  Task <- Tasks
  Core = 1
  Max = 3
  Client = {c, d}
  Worker = {w}
  MaxCalls = 1
  Limited = {c}
SPECIFICATION FairSpec
CHECK_DEADLOCK FALSE
INVARIANTS
  TypeOK
  SomeoneIsFree
  OneOwner
  OwnAnswers
PROPERTY Served
