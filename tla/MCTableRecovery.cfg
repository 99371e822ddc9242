SPECIFICATION FairSpec
CONSTANTS
    Tables <- AllTables
    MaxRecords = 3
    TABLE_MAGIC = 77
    COMPRESSION_NONE = 0
    COMPRESSION_SNAPPY = 1
    TYPE_DELETION = 0
    MAX_U32 = 40
    MAX_DECOMPRESSED_BLOCK = 60
INVARIANTS
    TypeOK
    SoundTablesRoundTrip
    AllOrNothing
    ErrorNamesTheDamage
PROPERTY
    Terminates
