\* A panic ends the program.
SPECIFICATION NamesSpec
CONSTANTS
    MAX_LEN = 255
    MaxPushes = 1
    Inputs <- MCInputs
    Vectors <- MCVectors
INVARIANTS ComponentsAreNames IteratesComponents HashesLikeDebugfs
PROPERTY PushAppends
CHECK_DEADLOCK FALSE
