SPECIFICATION Spec
CONSTANTS
    Logs <- HeaderDamage
    MaxBatches = 2
    MaxCells = 5
    BLOCK_SIZE = 8
    REC_FULL = 1
    REC_FIRST = 2
    REC_MIDDLE = 3
    REC_LAST = 4
    OP_DELETE = 0
    OP_VALUE = 1
    MAX_SEQ = 9
INVARIANT
    OnlyWrittenRecords
