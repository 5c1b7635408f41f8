SPECIFICATION Spec
CONSTANTS
  Scans <- FleetScans
  RowCount <- FleetRows
  Rulesets = {1}
  RulesetOf <- OneRuleset
  Bounds = {0, 1}
  ReadCap = 3
  WriteBatch = 2
  MaxPasses = 2
  MaxFaults = 1
INVARIANTS NoDoubles CleanPassRepairs
PROPERTY OnlySupersededRemoved
CHECK_DEADLOCK FALSE
