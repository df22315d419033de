SPECIFICATION MapSpec
CONSTANTS
    NumDirect = 1
    EntriesPerBlock = 2
    Maps <- SparseMaps
INVARIANT HolesReadable
