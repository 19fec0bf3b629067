SPECIFICATION Spec
CONSTANTS
    MAX_TASKS = 4
    HZ = 1
    SleepRange = 2
    TickRange = 2
    Commands <- MCCommands
    ExitCodes = {1}
    SleepTimes = {}
    WaitArgs <- MCAnyChild
PROPERTIES WaitReturnsWhenAChildEnds
