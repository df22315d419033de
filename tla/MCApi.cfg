SPECIFICATION ApiSpec
CONSTANTS
    Trees <- MCApiTrees
    Paths <- MCApiPaths
    Names <- MCNames
    Ops <- MCOps
    NULL = "NUL"
    None = None
    MaxSymlinks = 3
    MaxPathLen = 12
    MaxIterations = 8
INVARIANTS PrefixLeadsToInode PanicsOnlyAtLimit CanonicalIsStable EntryPathsLeadToEntries
PROPERTY ResolvesLikeWalk
