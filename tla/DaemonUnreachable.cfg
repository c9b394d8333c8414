\* Two nodes add each other, and one of them is stopped.
SPECIFICATION Spec
CONSTANTS
    n1 = n1
    n2 = n2
    n3 = n3
    b = b
    None = None
    Nodes = {n1, n2, n3}
    StoreIds = {b}
    MaxParallel = 2
    Scenarios <- OnlyStop
PROPERTY UnreachableIsForgotten
CHECK_DEADLOCK FALSE
