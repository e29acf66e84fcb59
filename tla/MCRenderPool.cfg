SPECIFICATION Spec
CONSTANTS
    Paths = {"a/db", "b/db", "c/db", "x/db2", "pb", "f/kit", "///"}
    Derive <- MCDerive
    Segment <- MCSegment
    Declared <- MCDeclared
    Spell <- MCSpell
    Bridge <- MCBridge
    Runs <- MCRuns
    Procs = {1, 2, 4}
INVARIANTS
    FilesNameTheirPackages
PROPERTIES
    RendersAsIfSequential
    RenderReturns
CHECK_DEADLOCK FALSE
