CONSTANTS
    Bytes <- MCBytes
    ByteBits = 4
    MaxLen = 4
    Delims <- MCDelims
    MallocFails = TRUE
SPECIFICATION Spec
INVARIANT TypeOK
INVARIANT IntMatchesReference
INVARIANT DelimitedMatchesReference
PROPERTY FailureLeavesCursor
CHECK_DEADLOCK FALSE
