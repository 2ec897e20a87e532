CONSTANTS
  n1 = n1
  n2 = n2
  n3 = n3
  t = t
  x = x
  Node = {n1, n2, n3}
  Me = n1
  Root = {t}
  Part = {x}
  Owner <- OwnerOf
  Astray = {n3}
  Electing = {t}
  MaxSanitating = 1
  MaxDisturbed = 1
  MaxStops = 1
SPECIFICATION FairSpec
CHECK_DEADLOCK FALSE
INVARIANTS
  TypeOK
  SavedIsNetworks
  LocksAreSettled
PROPERTIES
  RefusedIsUndone
  SanitationEnds
