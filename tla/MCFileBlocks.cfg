SPECIFICATION FileBlocksSpec
CONSTANTS
    MaxBlock = 9
    Files <- MCFiles
    NumDirect = 1
    EntriesPerBlock = 2
    Maps <- MCMaps
INVARIANTS TypeOK YieldsFileBlocks OneItemPerBlock YieldsMappedBlocks
PROPERTY IterationEnds
