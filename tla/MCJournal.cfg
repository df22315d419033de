SPECIFICATION RecoverySpec
CONSTANTS
    b1 = 1
    b2 = 2
    FsBlocks = {1, 2}
    JournalLen = 8
    MaxSequence = 4
    Superblocks <- AllSuperblocks
    Logs <- AllLogs
    MaxWrites = 3
    RevokeLoggedBlocks = FALSE
    WrapLog = FALSE
INVARIANTS OnlyCommitted IoErrorsPropagate RecoversCommitted JournalLoads
PROPERTY RecoveryEnds
