CONSTANTS
    i1 = i1
    i2 = i2
    i3 = i3
    i4 = i4
    i5 = i5
    i6 = i6
    Ids <- MCIds
    Kern <- MCKern
    User <- MCUser
    StrOf <- MCStrOf
    Strs <- MCStrs
    NSvg = 2
    MaxRaw = 3
SPECIFICATION Spec
INVARIANT FirstGraphCountsAll
INVARIANT EveryGraphShowsAll
