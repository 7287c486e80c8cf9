CONSTANTS
    MainOps = {"NOP", "SPAWN", "KILL"}
    ChildOps = {"NOP", "YIELD", "SLEEP", "SETPRIORITY", "EXIT", "SEGFAULT"}
    MAX_PROCESSES = 2
    default_time_slice = 1
    MAX_MESSAGES = 1
    PriorityArgs = {0}
    ExitArgs = {2}
    HandlerArgs = {"ignore"}
    HasActiveApps = FALSE
    MaxTable = 3
    MaxSleep = 2
    MaxNest = 0
SPECIFICATION FairSpec
INVARIANT TableSound
PROPERTY EveryoneRuns
