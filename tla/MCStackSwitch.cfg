CONSTANTS
    oncpu = oncpu
    offcpu = offcpu
    Flames <- MCTwoFlames
    StackSize = 2
    MaxSamples = 5
    MaxSwitches = 2
SPECIFICATION Spec
INVARIANT TypeOK
INVARIANT ReadMapNotWritten
CHECK_DEADLOCK FALSE
