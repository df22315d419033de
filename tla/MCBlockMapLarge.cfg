SPECIFICATION MapSpec
CONSTANTS
    NumDirect = 1
    EntriesPerBlock = 2
    Maps <- LargeMaps
INVARIANT AlwaysOneMoreBlock
