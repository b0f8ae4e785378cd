CONSTANTS
    Run = {r1, r2, r3}
    NoRun = none
SYMMETRY Symmetry
SPECIFICATION Spec
INVARIANT CrashesAfterFailure
CHECK_DEADLOCK FALSE
