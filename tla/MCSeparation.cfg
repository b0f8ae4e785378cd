CONSTANTS
    Vertex = {0, 1, 3, 4, 5}
    Inputs <- MCInputs
SPECIFICATION Spec
INVARIANTS TypeOK SplitsDrawing Listed
PROPERTY TakesComponents
CHECK_DEADLOCK FALSE
