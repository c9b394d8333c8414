\* Two of three users make an addPeer call, and one of the three an addToGroup
\* call, at any time; nothing fails.
\* The network stops once every node knows every other.
SPECIFICATION FairSpec
CONSTANTS
    n1 = n1
    n2 = n2
    n3 = n3
    x = x
    l = l
    None = None
    Nodes = {n1, n2, n3}
    Names = {x}
    Listeners = {}
    MaxParallel = 2
    Seeds <- Chain
    MaxAdds = 1
    MaxRemoves = 0
    MaxFaults = 0
INVARIANT NoSelfPeer
INVARIANT Introduced
INVARIANT MembersReachPeers
PROPERTY MeshForms
PROPERTY EveryoneLearns
CHECK_DEADLOCK FALSE
