SPECIFICATION Spec
CONSTANTS
    Base = 4
    WordSize = 2
    Words <- MCWords
    Strings <- MCStrings
    MaxChunk = 3
    Bad = Bad
INVARIANT RoundTrip
CHECK_DEADLOCK FALSE
