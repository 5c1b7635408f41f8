SPECIFICATION FairSpec
CONSTANTS
    Scans <- MCScans
    Shards <- SmallShards
    Rows <- SmallRows
    KindOf <- SmallKindOf
    ScanOf <- SmallScanOf
    ShardOf <- SmallShardOf
    TerminalRows <- SmallTerminalRows
    Skippable = {}
    RowCeiling = 3
    WriteBatch = 1
    PullLimit = 2
    MaxScans = 2
    MaxAborts = 0
    MaxFailures = 1
PROPERTIES EventuallyDelivered ShardsEventuallyGone
