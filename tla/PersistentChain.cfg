SPECIFICATION Spec
CONSTANTS
    f1 = f1
    f2 = f2
    f3 = f3
    v1 = v1
    v2 = v2
    Flob = {f1, f2, f3}
    HashValue <- Hash
    Writable = {f1}
    Value = {v1, v2}
    MaxCells = 4
    Mark <- Marks
    SlotSize = 2
    MaxSize = 3
    TableSize = 1
    Unwritten = Unwritten
    None = None
SYMMETRY Values
CONSTRAINT FewFlobs
INVARIANT ProcessSound
