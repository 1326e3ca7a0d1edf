SPECIFICATION Spec
CONSTANTS
    a = a
    b = b
    Flob <- TwoFlobs
    Value = {1}
    MaxCells = 4
    SlotSize = 2
    MaxSize = 3
    Reads <- ReadRanges
    Writes <- WriteRanges
    Unwritten = Unwritten
SYMMETRY Symmetry
INVARIANTS TypeOK AccountRight SlotsFit IdsExclusive
PROPERTIES StoreSpec
