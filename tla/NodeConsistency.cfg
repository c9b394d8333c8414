\* One member is added and removed; nothing fails and every request runs.
SPECIFICATION FairSpec
CONSTANTS
    n1 = n1
    n2 = n2
    n3 = n3
    x = x
    l = l
    None = None
    Nodes = {n1, n2}
    Names = {x}
    Listeners = {}
    MaxParallel = 2
    Seeds <- Pair
    MaxAdds = 1
    MaxRemoves = 1
    MaxFaults = 0
PROPERTY EventuallyConsistent
CHECK_DEADLOCK FALSE
