SPECIFICATION Spec
CONSTANTS
    s1 = s1
    s2 = s2
    r1 = r1
    r2 = r2
    objects = objects
    types = types
    anonymous = anonymous
    Session <- TwoSessions
    Record <- TwoRecords
    Name = {objects}
    Anonymous = anonymous
    MaxFileId = 4
    MaxRestarts = 0
    UseTransactions = TRUE
    Deadlocks = TRUE
PROPERTY DropOnlyAfterCommit
