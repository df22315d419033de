SPECIFICATION FairSpec
CONSTANTS
    MaxDepth = 5
    RootEntries = 4
    BlockEntries = 3
    HasChecksums = TRUE
    Trees <- MCTrees
INVARIANT YieldsLeavesInOrder
PROPERTY IterationEnds
