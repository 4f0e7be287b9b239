SPECIFICATION MCSpec
\* The last process may die of a page fault: nothing is left to run.
CHECK_DEADLOCK FALSE
CONSTANTS
    PAGE_SIZE = 2
    TOTAL_PAGES = 8
    IDENTITY_MAP_LIMIT = 12
    LOW_MEMORY = 2
    KernelStart = 4
    KernelEnd = 5
    ModuleEnds = {3, 7}
    MemoryMaps <- MCMemoryMaps
    HEAP_SIZE = 160
    Requests = {0, 9, 70}
    Procs = {p, q}
    NFRAMES = 22
    FRAMES_LIMIT = 22
    IMAGE = 1
    STACK = 2
    MMAP = 2
INVARIANT FreeCountExact
INVARIANT ReservedNeverHandedOut
INVARIANT HeapSound
INVARIANT SpacesSound
INVARIANT OnlyTablesLeak
PROPERTY FailsOnlyWhenFull
PROPERTY FreshSpaces
