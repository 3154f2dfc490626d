CONSTANTS
    p1 = p1
    p2 = p2
    p3 = p3
    zero = zero
    eth0 = eth0
    eth1 = eth1
    nonic = nonic
    Params <- MCParams
    Period <- MCPeriod
    Nics <- MCNics
    Zero = zero
    NoNic = nonic
    MaxMsgs = 3
    LoadFailures = TRUE
SPECIFICATION Spec
INVARIANT ConfigInForce
CHECK_DEADLOCK FALSE
