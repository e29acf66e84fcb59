SPECIFICATION Spec
CONSTANTS
    g1 = g1
    g2 = g2
    g3 = g3
    f1 = f1
    f2 = f2
    f3 = f3
    pkg = pkg
    other = other
    w = w
    x = x
    y = y
    z = z
    None = None
    AddCalls = {g1, g2, g3}
    FileCalls = {f1, f2, f3}
    Paths = {pkg, other}
    PathOf <- TwoPaths
    NKinds = 2
    Names = {w, x, y, z}
    NamesOf <- Clash
    TargetOf <- MCTargets
    Schedules = {FALSE, TRUE}
INVARIANTS
    OneHostPerPath
    DoneIsRecorded
    SequentialMergeKeepsEveryEntry
    OneFilePerTarget
