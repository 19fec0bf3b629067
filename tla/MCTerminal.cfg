SPECIFICATION TerminalSpec
CONSTANTS
    N = 2
    Readers = {1}
    Keys = {14, 55, 57}
    kbdus <- MCkbdus
    shiftNums <- MCshiftNums
    BufSize = 2
    W = 5
    ROWS = 2
    TAB = 2
    CLEARED = 2
    Outputs <- MCOutputs
    Ids <- MCIds
    MaxPuts = 4
INVARIANTS WokenByEnter BufferIsLine EchoIsLine 
PROPERTIES LineDelivered ScanfReturns
