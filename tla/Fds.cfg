SPECIFICATION MCSpec
CONSTANTS
    Procs = {a, b}
    MAX_FDS = 2
    FIRST_FD = 0
    NPIPES = 1
    Handles = {h}
    MaxCount = 3
    ProcHandles = {1}
    Pids = {1, 2}
    CPUS = 2
    SIZE = 3
    WORD = 16
    MaxMounts = 5
    none = none
SYMMETRY ProcSymmetry
\* When the last process has exited nothing is left to run.
CHECK_DEADLOCK FALSE
INVARIANT NoRecycling
INVARIANT CountsExact
INVARIANT HandlesLive
INVARIANT Snapshot
 
