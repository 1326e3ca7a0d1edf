SPECIFICATION Spec
CONSTANTS
    s1 = s1
    s2 = s2
    plain = plain
    named = named
    Session <- OneSession
    Name <- Names
    Type <- OneType
    NamedType <- NoNamedType
    MaxValue = 2
    SharedObjects = FALSE
    RenameUse = {"touched"}
    Absent = Absent
    Unchanged = Unchanged
PROPERTIES CommitStoresObjects
