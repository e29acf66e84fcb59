SPECIFICATION MCSpec
CONSTANTS
    Plugins = {1, 2, 3}
    Caps = {a, b}
    Priorities = {0, 1}
    NoBucket = NoBucket
    MaxProvides = 1
    MaxRequires = 2
INVARIANTS
    ExactlyOnce
    RequiresRespected
    CycleIsReal
    LeastOrder
PROPERTIES
    Resolves
