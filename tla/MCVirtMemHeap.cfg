SPECIFICATION Spec
CONSTANTS
    PHYS_PAGE_SIZE = 4
    MapFrames = 62
    MapBytes = 6
    LowPages = 3
    Window = 61
    physbase = 20
    physfree = 26
    Smaps <- HeapSmaps
    MaxTasks = 3
    VMA_SLOTS = 5
    SegPages = 1
    BootTables = 2
    PageUnits = 3
    ArgSize = 1
    EnvSize = 1
    Sizes = {1}
    Limits = {6}
    DEFAULT_MEM_LIMIT = 12
INVARIANTS HeapsPrivate
