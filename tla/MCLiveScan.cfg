SPECIFICATION FairLiveSpec
CONSTANTS
    RawRecords <- MCRecords
    OldDirs <- MCOldDirs
    Keys = {1}
    MaxSeq = 2
    MaxFile = 5
INVARIANTS
    TypeOK
    StableFilesSurfaced
    InPathOrder
    CompleteWhenQuiet
PROPERTIES
    Returns
    OpenSpec
