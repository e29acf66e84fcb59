SPECIFICATION Spec
CONSTANTS
    a = a
    b = b
    k1 = k1
    k2 = k2
    r1 = r1
    r2 = r2
    Paths = {a, b}
    Pkgs = {k1, k2}
    ClauseOf <- TwoClauses
    Origin <- MCOrigin
    InSourceDir = {a}
    NoPkg = NoPkg
    NoFile = NoFile
    Edited = Edited
    NoStamp = NoStamp
    Deployments <- EveryDeployment
INVARIANTS
    Tracked
    RunSettlesDisk
    RunRecordsAll
    PruneConverges
    CleanMeansUpToDate
PROPERTIES
    EntryLeavesOnlyWithFile
CHECK_DEADLOCK FALSE
