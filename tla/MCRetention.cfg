SPECIFICATION Spec
CONSTANTS
  NoScan = NoScan
  NoWindow = NoWindow
  Shards <- OneShard
  Others <- OldNames
  Scans <- OneScan
  ShardOf <- ToShards
  MaxRows = 2
  Windows <- Negative
  Ages = {0, 1}
  QuietHours = {0}
  Versions = {2, 3}
  MaxDeletes = {1}
  MaxMonth = 2
  MaxPasses = 1
  MaxWipes = 1
  MaxFaults = 1
INVARIANTS Accounted
PROPERTY OnlyCopySurvives
