CONSTANTS
    PIPE_BUFFER_SIZE = 3
    Word = {a, b}
    NoWord = NoWord
    Size = 3
    Keys = {0, 1, 2}
SPECIFICATION Rings
INVARIANT Inv
PROPERTY ImplementsQueue
INVARIANT KeysSound
PROPERTY KeysInOrder
