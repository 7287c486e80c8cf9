CONSTANTS
    MainOps = {"SPAWN", "WAITPID", "SIGNAL", "MSGSND", "SHUTDOWN"}
    ChildOps = {"SPAWN", "KILL", "SIGNAL", "SIGSET", "MSGRCV", "SYSCALL", "RETK", "EXIT", "SHUTDOWN"}
    MAX_PROCESSES = 2
    default_time_slice = 1
    MAX_MESSAGES = 1
    PriorityArgs = {1}
    ExitArgs = {0}
    HandlerArgs = {"ignore"}
    HasActiveApps = TRUE
    MaxTable = 2
    MaxSleep = 1
    MaxNest = 1
SPECIFICATION FairSpec
INVARIANT TypeOK
PROPERTY HaltedIsFinal
PROPERTY ShutdownStops
PROPERTY LiveLeaveWithNamesake
