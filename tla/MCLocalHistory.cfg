SPECIFICATION Spec
CONSTANTS
    Inputs <- MCInputs
    Origins <- MCOrigins
    Scripts <- MCScripts
    Times = {0, 5}
    Sizes = {0, 3}
    Stray <- MCStray
    MaxRecords = 2
    META = 11
    UNDERSCORE = 12
    BYTE = 16
    HIGH = {14}
    LOW = {15}
    REPLACEMENT = 255
INVARIANTS
    TypeOK
    EveryKeyComesOut
    EntriesComeBack
    MetadataComesBack
