SPECIFICATION Spec
CONSTANTS
    p1 = p1
    p2 = p2
    p3 = p3
    Procs <- MCProcs
    Root = p1
    Handles = {h1}
    MAX_DIR = 4
    Archive <- MCArchive
    Directories <- MCDirectories
    DirPaths <- MCDirPaths
    Disciplined = TRUE
SYMMETRY MCSymmetry
INVARIANTS ListingCorrect LsAgrees
CHECK_DEADLOCK FALSE
