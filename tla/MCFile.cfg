SPECIFICATION Spec
CONSTANTS
    BlockSize = 3
    Files <- AllFiles
    BufLens = {0, 1, 2, 5}
    Offsets <- MCOffsets
    MaxPosition = 14
INVARIANTS ReadsFileContents CompleteFilesDoNotPanic
