SPECIFICATION RecoverySpec
CONSTANTS
    b1 = 1
    b2 = 2
    FsBlocks = {1, 2}
    JournalLen = 8
    MaxSequence = 4
    Superblocks <- NoSuperblocks
    Logs <- NoLogs
    MaxWrites = 4
    RevokeLoggedBlocks = FALSE
    WrapLog = TRUE
INVARIANT RecoversCommitted
