SPECIFICATION Spec
CONSTANTS
    Byte = {0, 1}
    Fd = {3, 4}
    BLOCK = 2
    MaxSize = 3
    MaxLen = 2
INVARIANT Contained
PROPERTY RefinesFile
