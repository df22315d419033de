SPECIFICATION FairSpec
CONSTANTS
    Dirs <- MCDirs
    Names <- MCNames
    Hash <- MCHash
    RootEntries = 3
    NodeEntries = 4
INVARIANTS AnswersAreChecked ListsEntries LookupAgreesWithList
PROPERTY LookupReturns
