SPECIFICATION FairSpec
CONSTANTS
    s1 = s1
    s2 = s2
    plain = plain
    named = named
    Session <- TwoSessions
    Name <- Names
    Type <- OneType
    NamedType <- NoNamedType
    MaxValue = 0
    SharedObjects = TRUE
    RenameUse = {"untouched"}
    Absent = Absent
    Unchanged = Unchanged
PROPERTIES CommitsEnd
