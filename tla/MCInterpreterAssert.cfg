CONSTANTS
    Vertex = {0, 1, 2, 3, 4, 5, 6}
    Inputs <- MCDrawings
    Areas = {0, 1, 2}
SPECIFICATION Spec
INVARIANT TwoProjections
CHECK_DEADLOCK FALSE
