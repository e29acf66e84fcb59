SPECIFICATION FileSpec
CONSTANTS
    Paths = {"a/db", "b/db", "c/db", "x/db2", "///"}
    Derive <- MCDerive
    Spell <- MCSpell
    Own <- MCOwn
    Aliases = {"db2", "_"}
INVARIANTS
    NoNameTwice
    QualifiersHold
PROPERTIES
    LowestFreeName
