CONSTANTS
    MAX_DIFF = 2
    CONTOUR_DIFF = 3
    Sheets <- MCSheets
SPECIFICATION Spec
INVARIANT NoWrongPoints
CHECK_DEADLOCK FALSE
