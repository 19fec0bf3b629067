SPECIFICATION Spec
CONSTANTS
    MAX_TASKS = 4
    HZ = 1
    SleepRange = 2
    TickRange = 2
    Commands <- MCCommandsIdle
    ExitCodes = {0, 1}
    SleepTimes = {1, 2}
    WaitArgs <- MCWaitArgs
INVARIANTS TypeOK PidDiscipline SavedContext WaitResult IdleLoop AlwaysReadyTask
PROPERTIES ZombieForever NoOvertaking WaitReapsOwnChild ImplementsProcesses
