CONSTANTS
    p1 = p1
    p2 = p2
    nginx = nginx
    bash = bash
    noproc = noproc
    c1 = c1
    c2 = c2
    db1 = db1
    Procs <- MCProcs
    Comms <- MCComms
    Patterns <- MCPatterns
    Matches <- MCMatches
    Configs <- MCCgrpConfigs
    NoProc <- noproc
    SnooperMax = 6
    MaxStarts = 2
    MaxParses = 2
    PidReuse = FALSE
    Containers <- MCContainers
    Pods <- MCPods
    PodOf <- MCPodOf
    DBs <- MCDBs
SPECIFICATION Spec
INVARIANT TypeOK
 
INVARIANT QuiescentObjectsConfigured
CHECK_DEADLOCK FALSE
