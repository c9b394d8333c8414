\* Two nodes connect to each other at once; a member is added and removed,
\* callbacks come and go, and one connection or node is lost.
SPECIFICATION Spec
CONSTANTS
    n1 = n1
    n2 = n2
    n3 = n3
    x = x
    l = l
    None = None
    Nodes = {n1, n2}
    Names = {x}
    Listeners = {l}
    MaxParallel = 2
    Seeds <- Both
    MaxAdds = 1
    MaxRemoves = 1
    MaxFaults = 1
INVARIANT TypeOK
INVARIANT PeersConnected
PROPERTY ListenersFollow
CHECK_DEADLOCK FALSE
