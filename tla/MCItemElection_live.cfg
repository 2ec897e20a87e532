CONSTANTS
  n1 = n1
  n2 = n2
  n3 = n3
  Node = {n1, n2, n3}
  Entry = {n1}
  Quitter = {}
  Failing = {}
  Lossy = {n1}
SPECIFICATION FairSpec
INVARIANTS
  TypeOK
  Agreement
PROPERTIES
  ImplementsItemVerdict
  ElectionsDecide
  ProcessorsLeave
