SPECIFICATION ReadSpec
CONSTANTS
    NumFsBlocks = 5
    NumEntries = 6
    MaxBlocksPerRead = 3
    BlockSize = 2
    Reserved = 1
    MaxByte = 7
    Zeros = 0
    Data <- MCData
    Disk <- MCDisk
    Requests <- MCRequests
    Journal <- MCJournal
    Reads <- MCReads
    NoResult = NoResult
INVARIANTS NoPanic RetainsRecentRequests
PROPERTY ReadsRecoveredBlocks
