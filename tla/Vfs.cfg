SPECIFICATION MCSpec
CONSTANTS
    Nodes = {1, 2, 3, 4, 5}
    MAX_MOUNTS = 3
    MaxOdd = 1
    FsFiles = {"1"}
    Paths <- MCPaths
    Targets <- MCTargets
    Archives <- MCArchives
    Names = {"a", "b"}
    Pids = {"1", "2"}
    Lines <- MCLines
    Disc <- MCDisc
    IsoPaths <- MCIsoPaths
    PerBlock = 2
    BLOCK = 2
    none = none
INVARIANT TreeSound
 
INVARIANT PathsMeanOneThing
INVARIANT CreatedAreFound
INVARIANT ScanComplete
 
