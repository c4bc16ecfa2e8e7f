SPECIFICATION Spec
CONSTANTS
    r1 = r1
    r2 = r2
    a1 = a1
    a2 = a2
    a3 = a3
    d1 = d1
    d2 = d2
    None = None
    Release = {r1, r2}
    Artifact = {a1, a2, a3}
    Root = {d1, d2}
    MaxCrashes = 1
SYMMETRY Symmetric
CHECK_DEADLOCK FALSE
INVARIANTS
    RowsHaveTheirContent
    NothingIsLeftBehind
