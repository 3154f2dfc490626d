CONSTANTS
    p1 = p1
    p2 = p2
    p3 = p3
    Pids = {p1, p2, p3}
    PROC_CACHE_MAX_COUNT = 2
    MaxItems = 6
    LoadFailures = TRUE
SPECIFICATION Spec
INVARIANT TypeOK
PROPERTY CacheRefinesFifo
CHECK_DEADLOCK FALSE
