SPECIFICATION FairSpec
CONSTANTS
  Files = {plain, locked, listed}
  Excluded = {listed}
  Unreadable = {locked}
  Workers = {w1, w2}
  QueueSize = 1
  Endless = TRUE
  MaxCancels = 1
  MaxFaults = 1
INVARIANTS DrainedIsComplete SummaryNeverRosier
PROPERTIES OldFlagIgnored StopEnds
