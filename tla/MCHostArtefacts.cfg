SPECIFICATION Spec
CONSTANTS
  Rules = {r1, r2}
  Paths = {p1, p2}
  Content <- Same
  Policies <- Some
  KeepScans = 1
  RunIds = {1, 2}
  MaxFaults = 1
SYMMETRY Alike
CHECK_DEADLOCK FALSE
INVARIANTS EvidenceIsComplete EveryAlertHasItsRow
PROPERTIES OnlyExpectedRemoved
