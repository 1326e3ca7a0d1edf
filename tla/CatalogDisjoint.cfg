SPECIFICATION Spec
CONSTANTS
    s1 = s1
    s2 = s2
    plain = plain
    named = named
    Session <- TwoSessions
    Name <- Names
    Type <- OneType
    NamedType <- NoNamedType
    MaxValue = 2
    SharedObjects = FALSE
    RenameUse = {"untouched"}
    Absent = Absent
    Unchanged = Unchanged
SYMMETRY SessionSymmetry
INVARIANTS ObjectsIntact
PROPERTIES StoreSpec
