SPECIFICATION Spec
CONSTANTS
    CodePoint <- MCCodePoint
    Decoded <- MCDecoded
    Replacement = "U+FFFD"
INVARIANTS
    TypeOK
    JsonlComesBack
    CsvComesBack
    TextLinePerRecord
    ExitIsHonest
