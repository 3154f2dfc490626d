CONSTANTS
    t1 = t1
    t2 = t2
    Threads <- MCThreads
    Fds = {3}
    Syscalls <- MCSyscalls
    TracingUdp = TRUE
    MaxGen = 2
    MaxCalls = 4
SPECIFICATION Spec
INVARIANT TypeOK
INVARIANT StashBelongsToCall
PROPERTY ConnEventuallyReported
CHECK_DEADLOCK FALSE
