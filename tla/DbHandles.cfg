SPECIFICATION Spec
CONSTANTS
    f1 = f1
    f2 = f2
    f3 = f3
    a = a
    b = b
    SmiFile <- Files
    Db <- TwoDbs
    Flags = {"byName", "byId"}
    MaxHandles = 3
    LateDestroy = FALSE
    Closed = Closed
    Unopened = Unopened
SYMMETRY Symmetry
INVARIANTS TypeOK FreeListSound OpenFilesHaveHandles
    ErasedFilesAreClosed
