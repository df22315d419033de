SPECIFICATION Spec
CONSTANTS
    MaxDepth = 5
    RootEntries = 4
    BlockEntries = 3
    HasChecksums = TRUE
    Trees <- CyclicTrees
INVARIANT AtMostMaxDepth
