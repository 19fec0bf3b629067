SPECIFICATION Spec
CONSTANTS
    a = a
    b = b
    Procs = {p1, p2}
    Root = p1
    MAX_FD = 5
    SCAN = 4
    FileNames = {a, b}
    Text <- MCText
    NoFile = NoFile
    Counts = {1}
    OwnCloses = TRUE
INVARIANTS ExclusiveDescriptors ReadsOwnFile
CHECK_DEADLOCK FALSE
