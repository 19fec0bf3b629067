SPECIFICATION Spec
CONSTANTS
    MAX_TASKS = 4
    HZ = 1
    SleepRange = 2
    TickRange = 1
    Commands <- MCCommands
    ExitCodes = {1}
    SleepTimes = {1, 2}
    WaitArgs <- MCWaitForked
PROPERTIES ReadyTaskRuns SleeperRuns WaitpidReturns
