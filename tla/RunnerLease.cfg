SPECIFICATION Spec
CONSTANTS
    j1 = j1
    j2 = j2
    j3 = j3
    j4 = j4
    j5 = j5
    r1 = r1
    r2 = r2
    r3 = r3
    t1 = t1
    w1 = w1
    w2 = w2
    NoJob = NoJob
    NoRelease = NoRelease
    NoTarget = NoTarget
    NoWorker = NoWorker
    Job <- ThreeJobs
    Release <- TwoReleases
    Target <- OneTarget
    TargetOf <- SameTarget
    Worker <- TwoWorkers
SYMMETRY Symmetric
CHECK_DEADLOCK FALSE
INVARIANTS
    TypeOK
    OneActivePerTarget
    LockMatchesLease
    HeadIsVerified
    FrozenBasisStaysCurrent
    ReleaseFollowsJob
PROPERTIES
    VerdictIsFinal
    SuccessIsVerified
