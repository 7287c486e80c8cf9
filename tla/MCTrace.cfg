CONSTANTS
    TRACE_CAPACITY = 2
    FRAME_CAPACITY = 2
    PIXEL_CAPACITY = 2
    MAX_SNAPSHOTS = 1
    Pixel = {p1, p2}
    Color = {0, 1}
    Black = 0
    MaxSteps = 3
    MaxEras = 1
    dot = dot
    dotdot = dotdot
    noname = noname
    var = var
    core = core
    dump = dump
    Name = {var, core, dump}
    Dot = dot
    DotDot = dotdot
    NoName = noname
    MAX_FILE_SIZE = 2
    Sizes = {0, 1, 3}
    Dump <- MCDump
    Var = var
    Core = core
    MaxIno = 4
SYMMETRY Pixels
SPECIFICATION Vm
INVARIANTS StepsSound ScreenRebuilds TreeSound
PROPERTIES ImplementsHistory NumbersStay
