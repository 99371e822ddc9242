SPECIFICATION StringSpec
CONSTANTS
    Strings <- MCStrings
    MaxUnits = 2
    BYTE = 4
    HIGH = {2}
    LOW = {3}
    REPLACEMENT = 7
INVARIANT
    NeverMistaken
