CONSTANTS
  n1 = n1
  n2 = n2
  n3 = n3
  Node = {n1, n2, n3}
  Entry = {n1}
  Quitter = {n1}
  Failing = {n1}
  Lossy = {}
SPECIFICATION Spec
SYMMETRY Symmetry
INVARIANTS
  VerdictsAreBacked
PROPERTIES
  VerdictsAreFinal
