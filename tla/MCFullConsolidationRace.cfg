SPECIFICATION Spec
CONSTANTS
  Scans <- HostScans
  RowCount <- HostRows
  Rulesets = {1}
  RulesetOf <- HostRuleset
  Bounds = {0}
  RowBudget = 9
  RowCeiling = 9
  ReadLimit = 9
  FaninCap = 9
  WriteBatch = 2
  Retiring = TRUE
  MaxFaults = 0
PROPERTIES RetiredIsProven
