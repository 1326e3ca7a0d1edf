SPECIFICATION Spec
CONSTANTS
    s1 = s1
    s2 = s2
    plain = plain
    named = named
    Session <- OneSession
    Name <- Names
    Type <- Types
    NamedType <- OneNamedType
    MaxValue = 2
    SharedObjects = FALSE
    RenameUse = {"created", "untouched", "outside"}
    Absent = Absent
    Unchanged = Unchanged
INVARIANTS TypeOK ObjectsIntact TypesExist
PROPERTIES CommitStoresObjects
