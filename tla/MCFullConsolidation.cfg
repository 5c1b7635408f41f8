SPECIFICATION FairSpec
CONSTANTS
  Scans <- FleetScans
  RowCount <- FleetRows
  Rulesets = {1}
  RulesetOf <- OneRuleset
  Bounds = {0}
  RowBudget = 9
  RowCeiling = 9
  ReadLimit = 1
  FaninCap = 3
  WriteBatch = 2
  Retiring = TRUE
  MaxFaults = 1
INVARIANTS NothingElseLost
PROPERTIES OnlySupersededRemoved EventuallyGrouped
