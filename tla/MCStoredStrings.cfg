SPECIFICATION StringSpec
CONSTANTS
    Strings <- MCStrings
    MaxUnits = 3
    BYTE = 4
    HIGH = {2}
    LOW = {3}
    REPLACEMENT = 7
INVARIANTS
    StringTypeOK
    CleanMeansExact
    LossyMeansLoss
