SPECIFICATION AhciSpec
CONSTANTS
    Hbas = {1}
    Ports = {0}
    SLOTS = 2
    MADE = 6
    Blocks = {0, 1}
    Values = {7}
    Junk = 8
    MAXSECTORS = 999
INVARIANT ReadMeansData
