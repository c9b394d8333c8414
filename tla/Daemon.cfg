\* Five scenarios: a chain of three nodes in which nothing fails, and nodes
\* that are stopped, lose a connection, call putBlock or are their own peer.
\* The network stops once every node knows every other.
SPECIFICATION FairSpec
CONSTANTS
    n1 = n1
    n2 = n2
    n3 = n3
    b = b
    None = None
    Nodes = {n1, n2, n3}
    StoreIds = {b}
    MaxParallel = 2
    Scenarios <- Various
INVARIANT TypeOK
INVARIANT TimerEnds
INVARIANT PeersConnected
INVARIANT OneLossSurvived
INVARIANT Introduced
PROPERTY LocalStoresStay
PROPERTY StopReturns
PROPERTY AddPeerReturns
PROPERTY MeshForms
CHECK_DEADLOCK FALSE
