SPECIFICATION ApiSpec
CONSTANTS
    Trees <- OneTree
    Paths <- DotPaths
    Names <- MCNames
    Ops <- MCOps
    NULL = "NUL"
    None = None
    MaxSymlinks = 40
    MaxPathLen = 4096
    MaxIterations = 1000
INVARIANT NoPanic
