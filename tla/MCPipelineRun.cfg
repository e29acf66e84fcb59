SPECIFICATION Spec
CONSTANTS
    fe1 = fe1
    fe2 = fe2
    an1 = an1
    an2 = an2
    an3 = an3
    ge1 = ge1
    ge2 = ge2
    ge3 = ge3
    ge4 = ge4
    Plugins = {fe1, fe2, an1, an2, an3, ge1, ge2, ge3, ge4}
    Plan <- MCPlan
    Parallels = {{}, {"frontend", "annotator", "generator"}}
    NodesOnly = {ge1, ge2, ge3}
    Requires <- MCRequires
    Quota = 2
    MaxRuns = 2
INVARIANTS
    BucketsInOrder
    ReadersRunAlone
    EveryPluginRuns
    ReturnIsOfThisRun
    SlotsInPlanOrder
CHECK_DEADLOCK FALSE
