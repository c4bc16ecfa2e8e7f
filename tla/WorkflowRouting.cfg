SPECIFICATION Spec
CONSTANTS
    j1 = j1
    j2 = j2
    j3 = j3
    r1 = r1
    r2 = r2
    t1 = t1
    u1 = u1
    u2 = u2
    NoJob = NoJob
    NoRelease = NoRelease
    NoTarget = NoTarget
    NoUser = NoUser
    Job <- ThreeJobs
    Release <- TwoReleases
    Target <- OneTarget
    TargetOf <- SameTarget
    User <- TwoUsers
    AllowSelfApproval = FALSE
    MaxRev = 1
SYMMETRY Symmetric
CHECK_DEADLOCK FALSE
INVARIANTS
    OperationIsAsRequested
