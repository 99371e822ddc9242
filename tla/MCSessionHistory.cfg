SPECIFICATION Spec
CONSTANTS
    Inputs <- MCInputs
    Owner <- MCOwner
    Guids <- MCGuids
    ScriptKeys <- MCScriptKeys
    Stray <- MCStray
    MaxRecords = 3
    NAMESPACE = 11
    MAP = 12
    DASH = 13
    BAD_UTF8 = 14
    BYTE = 16
    HIGH = {14}
    LOW = {15}
    REPLACEMENT = 255
INVARIANTS
    TypeOK
    EveryKeyComesOut
    NoHostMeansOrphan
    HostIsOwner
