SPECIFICATION Spec
CONSTANTS
    Nodes = {"n1", "n2", "embed"}
    Indexed = {"n1", "n2"}
    NodeOrder <- MCNodeOrder
    Names <- MCNames
    Above <- MCAbove
    Registered <- MCRegistered
    Raws <- MCRaws
    Parse <- MCParse
    Values <- MCValues
    Plugins = {"p1", "p2"}
    Before <- MCBefore
    MaxOps = 1
    Worlds <- MCWorlds
    NoBag = NoBag
    NoEntry = NoEntry
INVARIANTS
    IndexFindsHolders
    SourceDecides
CHECK_DEADLOCK FALSE
