SPECIFICATION MCSpec
CONSTANTS
    TTY_SIZE = 2
    Readers = {r, s}
    Keys <- SmallKeys
    TtyLens = {2}
    MaxTtyBytes = 2
    SIZE = 3
    Writers = {v, w}
    Lens = {1, 2}
    MaxBytes = 6
INVARIANT TtyExact
INVARIANT PipeExact
PROPERTY Lines
PROPERTY WaitsEnd
