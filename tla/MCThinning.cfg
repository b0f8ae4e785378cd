CONSTANTS
    Rows = 6
    Cols = 6
    Inputs <- MCInputs
SPECIFICATION ThinningSpec
INVARIANTS ThinningTypes Thin
PROPERTIES PiecesStay Terminates
CHECK_DEADLOCK FALSE
