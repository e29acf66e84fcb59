CONSTANTS
    Plugins <- MCPlugins
    Outputs <- MCOutputs
    Origins <- MCOrigins
    TestSuffixes <- MCTestSuffixes
    Worlds <- MCWorlds
SPECIFICATION Spec
INVARIANTS
    OrderDecidesNothingSilently
    OtherPluginsAreUnaffected
    OutputsStayApart
    OutputsStayInTheirTree
    OutputPathsAreTrue
    ConflictsLoseEverySide
CHECK_DEADLOCK FALSE
