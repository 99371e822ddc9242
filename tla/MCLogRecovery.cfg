SPECIFICATION FairSpec
CONSTANTS
    Logs <- AllLogs
    MaxBatches = 3
    MaxCells = 5
    BLOCK_SIZE = 8
    REC_FULL = 1
    REC_FIRST = 2
    REC_MIDDLE = 3
    REC_LAST = 4
    OP_DELETE = 0
    OP_VALUE = 1
    MAX_SEQ = 9
INVARIANTS
    ExactRecovery
    TypeOK
    OnlyVerifiedBytes
    OnlyWellFormedRecords
    EachByteOnce
    DamageStaysInItsBlocks
    CountIsNotTrusted
    SeqNeverWraps
PROPERTIES
    Terminates
    ScanSpec
