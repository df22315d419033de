SPECIFICATION Spec
CONSTANTS
    Images <- MCImages
    Inodes = {1, 2, 3, 4, 5, 6, 7, 8, 12, 13}
    MaxU32 = 5000
    MaxU64 = 20000
    None = None
INVARIANTS DescriptorsApart InodeIsOwn IntactIsReadable DescriptorsAreOwn
CHECK_DEADLOCK FALSE
