CONSTANTS
    MAX_FDS = 4
    MAX_PIPES = 1
    PIPE_BUFFER_SIZE = 2
    MAX_PROCESSES = 2
    Ids = {i1, i2}
    NoId = NoId
    Open = {o1}
    None = None
    Word = {v, w}
    MaxLen = 2
    MaxSent = 3
SPECIFICATION Spec
SYMMETRY Anonymous
VIEW PipesSeen
INVARIANTS TablesSound FilesPrivate PipesInOrder
CHECK_DEADLOCK FALSE
