CONSTANTS
    p1 = p1
    p2 = p2
    libA = libA
    libB = libB
    nolib = nolib
    Procs <- MCProcs
    Libs <- MCLibs
    NoLib = nolib
    ElfLib <- MCElfLib
    Bodies <- MCBodies
    LibsslMax = 1
    MaxMsgs = 3
    LoadFailures = TRUE
    ProcMapPinned = TRUE
SPECIFICATION Spec
INVARIANT TypeOK
INVARIANT ProcMapMatchesBody
CHECK_DEADLOCK FALSE
