SPECIFICATION FairSpec
CONSTANTS
    m1 = m1
    m2 = m2
    b1 = b1
    end = end
    Matches <- TwoMatches
    Beats <- OneBeat
    End = end
    Skippable = {}
    BatchSize = 2
    MaxTries = 3
    MaxTimeouts = 2
    Late = FALSE
    Slow = TRUE
INVARIANTS HonestBooks FindingSurvives
CHECK_DEADLOCK FALSE
PROPERTIES FindingsPosted
