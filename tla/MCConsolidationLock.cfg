SPECIFICATION LockFairSpec
CONSTANTS
    a = a
    b = b
    c = c
    Runners <- MCRunners
    Careful <- Careful2
    Bounded <- MCRunners
    StaleAfter <- MCStaleAfter
    TaskTimeout = 2
    Horizon = 6
    MaxDeaths = 3
    MaxLost = 0
INVARIANTS MutualExclusion
PROPERTIES LockRecovers
