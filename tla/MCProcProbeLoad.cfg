CONSTANTS
    RangeBits = {1, 2, 4, 8, 16, 64}
    NetBit = 64
    LoadFailures = TRUE
SPECIFICATION Spec
INVARIANT TypeOK
INVARIANT LoadedOnlyWanted
INVARIANT FailureLeavesNothing
CHECK_DEADLOCK FALSE
