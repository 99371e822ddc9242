SPECIFICATION Spec
CONSTANTS
    CodePoint <- MCCodePoint
    Decoded <- MCDecoded
    Replacement = "U+FFFD"
INVARIANT LossyShowsRaw
