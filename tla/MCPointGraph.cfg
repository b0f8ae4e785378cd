CONSTANTS
    Cols = 7
    Rows = 2
    SEED_RADIUS = 1
    START_SEED = 2
    Inputs <- MCInputs
SPECIFICATION Spec
INVARIANTS TypeOK GraphSound SeedsApart ContourIsPath
CHECK_DEADLOCK FALSE
