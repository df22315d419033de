SPECIFICATION Spec
CONSTANTS
    BlockSize = 3
    Files <- FailingFiles
    BufLens = {0, 1, 2, 5}
    Offsets <- MCOffsets
    MaxPosition = 14
INVARIANT NoPanic
