CONSTANTS
    MAX_WINDOWS = 1
    MAX_WINDOWED_APPS = 2
    ProgramSizes = {1, 4}
    MaxProcesses = 2
    MaxWindows = 2
    MaxIds = 3
    MaxZ = 2
    MaxLaunches = 3
    MAX_PTY_SLOTS = 1
    BufSize = 2
    MaxTransfer = 2
    TtyInput = 1
    TtyOutput = 2
    MaxSessions = 2
    MaxBytes <- MCMaxBytes
    VmWords = 2
    CanvasWords = 2
    Vms = {0, 1, 2}
    Canvases = {0, 1, 2}
    batch_size = 1
    MaxGuests = 2
    MaxCalls = 2
    MaxDraws = 1
    MaxFrames = 1
    Parts = {"windows"}
SPECIFICATION Host
VIEW WindowsSeen
INVARIANT AppsSound
PROPERTY HaltedAppsGone
