CONSTANTS
    Data <- MCData
    MaxData = 2
    Block = 2
SPECIFICATION DecoderSpec
INVARIANTS
    Decoded
    ThrowsOnlyIfUnclosed
PROPERTY
    Terminates
\* the function returns
CHECK_DEADLOCK FALSE
