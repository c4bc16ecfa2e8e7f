SPECIFICATION Spec
CONSTANTS
    a1 = a1
    a2 = a2
    b = b
    t1 = t1
    d1 = d1
    d2 = d2
    n1 = n1
    n2 = n2
    NoRun = NoRun
    Run = {a1, a2}
    Target = {t1}
    Dir = {d1}
    Name = {n1, n2}
    TargetFor <- MCTargetFor
    NameOf <- MCNameOf
    UploadOf <- MCUploadOf
    Before <- MCBefore
    HomeDir <- MCHomeDir
    MaxRuns = 2
CHECK_DEADLOCK FALSE
INVARIANTS
    StagesFollowEveryPackage
