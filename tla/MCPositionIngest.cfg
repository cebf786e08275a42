CONSTANTS
    Sockets = {s1, s2}
    Times = {1, NoTime}
    NoTime = NoTime
    Kinds = {"login", "alarm", "batch"}
    Batches <- BatchesOfTwo
    MaxFrames = 2
    MaxEvents = 1
SPECIFICATION Spec
CHECK_DEADLOCK FALSE
SYMMETRY SocketSymmetry
INVARIANTS
    RowsInOrder
    RowsArePublishedOnce
    NoDuplicateRows
    AckedIsStored
    SocketNeverStalls
PROPERTIES
    ArchivedStaysHidden
    ImplementsJournal
