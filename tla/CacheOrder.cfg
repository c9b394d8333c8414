\* Four keys in a cache of three entries, up to eight accesses; then it stops.
SPECIFICATION Spec
CONSTANTS
    a = a
    b = b
    c = c
    d = d
    v = v
    None = None
    Keys = {a, b, c, d}
    Values = {v}
    Size = 3
    MaxTime = 8
INVARIANT HeapMatchesMap
INVARIANT FrontIsOldest
CHECK_DEADLOCK FALSE
