SPECIFICATION MCSpec
CONSTANTS
    CW = 2
    CH = 2
    Screens <- MCScreens
    LIMIT = 2
    PERIOD = 2
    none = none
    MaxWire = 2
    MaxHeld = 2
    MaxOdd = 1
    PSAUX = 5
    MaxBytes = 9
    LOG = 4
    MaxLogBytes = 10
    closed = closed
    Hbas = {1, 2}
    Ports = {0, 1}
    SLOTS = 1
    MADE = 2
    Blocks = {0, 1}
    Values = {7}
    Junk = 8
    MAXSECTORS = 999
 
 
 
 
INVARIANT RingsInOrder
 
