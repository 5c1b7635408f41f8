SPECIFICATION FairSpec
CONSTANTS
  Findings <- Found
  Cap = 1
  BatchSize = 2
  Retries = 2
  Threshold = 1
  Unbuildable <- Malformed
  Orphans = FALSE
INVARIANTS TypeOK BooksBalance StormIsTold OnlyCopyIsKept
PROPERTIES StopReturns
