SPECIFICATION FairSpec
CONSTANTS
    v1 = v1
    h1 = h1
    out = out
    Output = {out}
    CommandBytes = 1
    SystemBytes = 4
    LineSize = {0, 2}
    SystemLine = {1}
    MaxLine = 2
    PageSize = 2
    StoredPage = 2
    MaxPages = 2
    MaxShown = 2
    Page = {v1}
    l1 = l1
    l2 = l2
    Load = {l1, l2}
    Handler = {h1}
    PerUser = 1
    MaxBreaks = 2
CHECK_DEADLOCK FALSE
INVARIANTS
    
    LogTellsTheOutcome
PROPERTY
    FollowingEnds
