SPECIFICATION Spec
CONSTANTS
    s1 = s1
    s2 = s2
    r1 = r1
    r2 = r2
    objects = objects
    types = types
    anonymous = anonymous
    Session <- TwoSessions
    Record <- TwoRecords
    Name = {objects, types}
    Anonymous = anonymous
    MaxFileId = 5
    MaxRestarts = 1
    UseTransactions = TRUE
    Deadlocks = FALSE
SYMMETRY Symmetry
INVARIANTS TypeOK NoDanglingFile NoSharedFile FreshIds CounterCoversFiles
PROPERTIES NameStable DropOnlyAfterCommit
