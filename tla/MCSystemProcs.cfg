CONSTANTS
    p1 = p1
    p2 = p2
    Pids = {p1, p2}
    MaxStart = 2
    MaxCtr = 2
    Wrap = 4
SPECIFICATION Spec
INVARIANT OutputOnlySelected
INVARIANT DeltaWithinProcess
