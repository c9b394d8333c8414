\* A replaced entry and an insertion into a full cache.
SPECIFICATION Spec
CONSTANTS
    a = a
    b = b
    c = c
    d = d
    v = v
    None = None
    Keys = {a, b, c}
    Values = {v}
    Size = 2
    MaxTime = 6
PROPERTY EvictsLeastRecentlyUsed
CHECK_DEADLOCK FALSE
