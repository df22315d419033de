SPECIFICATION Spec
CONSTANTS
    Dirs <- OverfullDirs
    Names <- MCNames
    Hash <- MCHash
    RootEntries = 3
    NodeEntries = 4
INVARIANT NoPanic
