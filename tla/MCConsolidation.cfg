SPECIFICATION Spec
CONSTANTS
    Scans <- MCScans
    Shards <- MCShards
    Rows <- MCRows
    KindOf <- MCKindOf
    ScanOf <- MCScanOf
    ShardOf <- MCShardOf
    TerminalRows <- MCTerminalRows
    Skippable = {2}
    RowCeiling = 3
    WriteBatch = 1
    PullLimit = 2
    MaxScans = 0
    MaxAborts = 1
    MaxFailures = 1
INVARIANTS NoRowLost
PROPERTIES RunningScanUntouched ImplementsStore
