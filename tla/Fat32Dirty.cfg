SPECIFICATION Spec
CONSTANTS
    Resident = {FALSE}
    Files = {0, 1}
    LAST = 5
    Handles = {g, h}
    Sizes = {2, 5}
    MaxWords = 7
INVARIANT DirtyTracksMutation
