CONSTANTS
    Inputs <- MCInputs
    Traced <- MCTraced
    MAX_ACCEPTABLE_DISTANCE = 4
    MIN_DISTANCE_BETWEEN_CLUSTERS = 3
    SIZE_VALUES = 4096
    INT_VALUES = 256
SPECIFICATION SpecBoth
INVARIANT SimpleClusters
CHECK_DEADLOCK FALSE
