SPECIFICATION LiveSpec
CONSTANTS
    RawRecords <- MCRecords
    OldDirs <- MCOldDirs
    Keys = {1}
    MaxSeq = 1
    MaxFile = 4
INVARIANT
    NothingMissed
