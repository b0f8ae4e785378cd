CONSTANTS
    Vertex = {0, 1, 2, 3, 4, 5, 6}
    Inputs <- MCInputs
    Areas = {0, 1, 2, 3}
SPECIFICATION Spec
INVARIANTS LinesSurvive MergedForAReason Pruned DefinedForTwoViews
PROPERTY Returns
CHECK_DEADLOCK FALSE
