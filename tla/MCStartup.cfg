CONSTANTS
    Commands <- MCCommands
    Disks <- MCDisks
    Slashed <- MCSlashed
SPECIFICATION StartupSpec
INVARIANTS Precedence EndTellsWhy
CHECK_DEADLOCK FALSE
