SPECIFICATION SpaceSpec
\* The last process may die of a page fault: nothing is left to run.
CHECK_DEADLOCK FALSE
CONSTANTS
    Procs = {p, q}
    NFRAMES = 22
    FRAMES_LIMIT = 22
    IMAGE = 1
    STACK = 2
    MMAP = 2
INVARIANT NullNeverMapped
