SPECIFICATION Spec
CONSTANTS
    g1 = g1
    g2 = g2
    g3 = g3
    f1 = f1
    f2 = f2
    f3 = f3
    pkg = pkg
    other = other
    w = w
    x = x
    y = y
    z = z
    None = None
    AddCalls = {g1, g2, g3}
    FileCalls = {}
    Paths = {pkg, other}
    PathOf <- SamePath
    NKinds = 2
    Names = {w, x, y, z}
    NamesOf <- Disjoint
    TargetOf <- MCTargets
    Schedules = {TRUE}
INVARIANTS
    MergeKeepsEveryEntry
