SPECIFICATION Spec
CONSTANTS
    Rate = 250
    frequency = 100
    MaxPulses = 120
    MaxYields = 1
INVARIANT TicksPerFreqAreSeconds
CHECK_DEADLOCK FALSE
