CONSTANTS
    Run = {r1, r2, r3}
    NoRun = none
SYMMETRY Symmetry
SPECIFICATION Spec
INVARIANTS ShowsOwnDrawing OneDrawing
CHECK_DEADLOCK FALSE
