SPECIFICATION Spec
CONSTANTS
    p1 = p1
    p2 = p2
    a = a
    b = b
    c = c
    v1 = v1
    v2 = v2
    Procs = {p1, p2}
    Kinds = {"go", "typescript", "protobuf"}
    Files = {a, b}
    Imported = {c}
    Texts = {"old", "new"}
    Malformed = {"old"}
    Prints = {v1, v2}
    Gone = "gone"
    MaxEdits = 1
    MaxRuns = 3
SYMMETRY Symmetry
INVARIANTS
    EntriesMatchTheirKey
    RunsSeeTheirSources
CHECK_DEADLOCK FALSE
