------------------------------ MODULE ServiceNode -----------------------------
(***************************************************************************)
(* The full-mesh nodes of src/rpc/service_node.cc: each keeps an RPCClient *)
(* per peer (_peers) and a replica of the directory (_groups), of which    *)
(* the model follows one group.                                            *)
(*                                                                         *)
(* The RPC layer appears as RPCService promises it: a request runs at the  *)
(* other end at most once, in any order with respect to the others, and    *)
(* not at all if the connection is lost first.  Every handler runs under   *)
(* the node's _mutex and is one step, except RPCAddPeer, which looks the   *)
(* peer up and connects before it takes the mutex.                         *)
(***************************************************************************)
EXTENDS Integers, Functions, RequestBag

CONSTANTS
    Nodes,        \* the nodes, named by the address they listen on
    Names,        \* the members that may be added to the group
    Listeners,    \* the group callbacks a node's user may register
    MaxParallel,  \* how many connections one node may hold to another
    Seeds,        \* the addPeer calls that users make: pairs <<node, peer>>
    MaxAdds,      \* how many addToGroup calls users make
    MaxRemoves,   \* how many removeFromGroup calls users make
    MaxFaults,    \* how many connections fail and nodes are destroyed
    None

ASSUME NodeAssumption ==
    /\ None \notin Nodes \union (Nodes \X Nodes \X (1..MaxParallel))
    /\ Seeds \subseteq {s \in Nodes \X Nodes : s[1] # s[2]}
    /\ MaxParallel \in Nat \ {0}
    /\ MaxAdds \in Nat /\ MaxRemoves \in Nat /\ MaxFaults \in Nat

VARIABLES
    up,        \* the nodes that have not been destroyed
    peers,     \* peers[n][a]: the RPCClient of n's _peers[a], or None
    groups,    \* groups[n]: n's _groups[group], a map from name to int
    heard,     \* heard[n][l]: adds minus removes told to callback l, by name
    clients,   \* clients[c]: what has become of the connection c
    net,       \* the bag of requests that have been sent and not yet run
    local,     \* local[n]: the names that n's own user has added
    seeds, adds, removes, faults    \* what may still happen, within the bounds

dirVars  == <<groups, heard, local>>
budgets  == <<seeds, adds, removes, faults>>
vars == <<up, peers, clients, net, dirVars, budgets>>
-------------------------------------------------------------------------------
\* <<n, a, k>> is the k-th connection made by n to a.
Conns == {c \in Nodes \X Nodes \X (1..MaxParallel) : c[1] # c[2]}
From(c) == c[1]
To(c)   == c[2]

\* Connected, but RPCAddPeer has yet to take the mutex: it was called by the
\* node's own user, or a worker runs it for a peer.
Connecting == {"byUser", "byPeer"}

AddPeerReq(c, a)         == [conn |-> c, op |-> "addPeer", arg |-> a]
AddToGroupReq(c, x)      == [conn |-> c, op |-> "addToGroup", arg |-> x]
RemoveFromGroupReq(c, x) == [conn |-> c, op |-> "removeFromGroup", arg |-> x]

Requests ==
         {AddPeerReq(c, a) : c \in Conns, a \in Nodes}
  \union {AddToGroupReq(c, x) : c \in Conns, x \in Names}
  \union {RemoveFromGroupReq(c, x) : c \in Conns, x \in Names}

\* A request on a connection whose server is gone is lost at once.
Send(reqs) == AddAll(net, {r \in reqs : To(r.conn) \in up})
Done(req)  == TakeOne(net, req)

PeersOf(n) == {a \in Nodes : peers[n][a] # None}

TypeOK ==
    /\ up \subseteq Nodes
    /\ peers \in [Nodes -> [Nodes -> Conns \union {None}]]
    /\ \A n \in Nodes : DOMAIN groups[n] \subseteq Names
    /\ \A n \in Nodes, x \in Names : x \in DOMAIN groups[n] => groups[n][x] \in Int
    /\ heard \in [Nodes -> [Listeners -> {None} \union [Names -> Int]]]
    /\ clients \in [Conns -> {"none", "live"} \union Connecting]
    /\ IsRequestBag(net) /\ UnderWay(net) \subseteq Requests
    /\ local \in [Nodes -> SUBSET Names]
    /\ seeds \subseteq Seeds
    /\ adds \in 0..MaxAdds /\ removes \in 0..MaxRemoves /\ faults \in 0..MaxFaults

Init ==
    /\ up = Nodes
    /\ peers = [n \in Nodes |-> [a \in Nodes |-> None]]
    /\ groups = [n \in Nodes |-> <<>>]
    /\ heard = [n \in Nodes |-> [l \in Listeners |-> None]]
    /\ clients = [c \in Conns |-> "none"]
    /\ net = NoRequests
    /\ local = [n \in Nodes |-> {}]
    /\ seeds = Seeds
    /\ adds = MaxAdds
    /\ removes = MaxRemoves
    /\ faults = MaxFaults
-------------------------------------------------------------------------------
(***************************************************************************)
(* RPCAddPeer(host, port), called by the user or by a peer.                *)
(***************************************************************************)
\* A connection that is not in use and of which no request is left.
Free(c) == clients[c] = "none" /\ \A r \in UnderWay(net) : r.conn # c

\* The unlocked part: return if already connected, else TcpSocket::connect,
\* which fails if nobody listens.
LookupAndConnect(n, a, caller) ==
    IF peers[n][a] # None \/ a \notin up
    THEN UNCHANGED clients
    ELSE \E k \in 1..MaxParallel :
            /\ Free(<<n, a, k>>)
            /\ \A j \in 1..(k - 1) : ~Free(<<n, a, j>>)
            /\ clients' = [clients EXCEPT ![<<n, a, k>>] = caller]

\* Mistakes in it: a's own address is not left out, n's address is forgotten,
\* the other peers are forgotten, the directory is forgotten.
IntroductionOfItself(n, a, c) ==
         {AddPeerReq(c, p) : p \in PeersOf(n) \union {n}}
  \union {AddToGroupReq(c, x) : x \in DOMAIN groups[n]}

IntroductionOneWay(n, a, c) ==
         {AddPeerReq(c, p) : p \in PeersOf(n) \ {a}}
  \union {AddToGroupReq(c, x) : x \in DOMAIN groups[n]}

IntroductionOfNobody(n, a, c) ==
         {AddPeerReq(c, n)}
  \union {AddToGroupReq(c, x) : x \in DOMAIN groups[n]}

IntroductionNoGroups(n, a, c) ==
    {AddPeerReq(c, n)} \union {AddPeerReq(c, p) : p \in PeersOf(n) \ {a}}

\* What n tells its new peer a: its own address, the addresses of its other
\* peers, and every member of every group it knows of.
Introduction(n, a, c) ==
         {AddPeerReq(c, n)}
  \union {AddPeerReq(c, p) : p \in PeersOf(n) \ {a}}
  \union {AddToGroupReq(c, x) : x \in DOMAIN groups[n]}

\* The part under _mutex: the client replaces any other that the entry holds.
InsertPeer(c) ==
    LET n == From(c)
        a == To(c)
    IN /\ clients[c] \in Connecting
       /\ clients' = [clients EXCEPT ![c] = "live"]
       /\ peers' = [peers EXCEPT ![n][a] = c]
       /\ net' = Send(Introduction(n, a, c))
       /\ UNCHANGED <<up, dirVars, budgets>>

\* ServiceNode::addPeer
AddPeer(n, a) ==
    /\ <<n, a>> \in seeds
    /\ n \in up
    /\ seeds' = seeds \ {<<n, a>>}
    /\ LookupAndConnect(n, a, "byUser")
    /\ UNCHANGED <<up, peers, net, dirVars, adds, removes, faults>>

RPCAddPeer(req) ==
    /\ req.op = "addPeer"
    /\ LookupAndConnect(To(req.conn), req.arg, "byPeer")
    /\ net' = Done(req)
    /\ UNCHANGED <<up, peers, dirVars, budgets>>
-------------------------------------------------------------------------------
(***************************************************************************)
(* The directory.                                                          *)
(***************************************************************************)
\* std::map's operator[] followed by an assignment.
MapAssign(g, x, v) == [y \in DOMAIN g \union {x} |-> IF y = x THEN v ELSE g[y]]

\* A mistake in it: the new entry is left uninitialised.
IncrementUnset(g, x) == MapAssign(g, x, IF x \in DOMAIN g THEN g[x] + 1 ELSE None)

Increment(g, x) == MapAssign(g, x, IF x \in DOMAIN g THEN g[x] + 1 ELSE 1)

\* Both removals erase a count of 1 and leave a larger one alone.  For a name
\* that is not there, operator[] makes an entry: removeFromGroup leaves it at
\* 0, RPCRemoveFromGroup decrements it to -1.
Decrement(g, x, absent) ==
    IF x \notin DOMAIN g THEN MapAssign(g, x, absent)
    ELSE IF g[x] = 1 THEN Restrict(g, DOMAIN g \ {x})
    ELSE g

\* Run every registered callback with (x, TRUE) or (x, FALSE).
Fire(n, x, isAdd) ==
    heard' = [heard EXCEPT ![n] =
        [l \in Listeners |->
            IF heard[n][l] = None THEN None
            ELSE [heard[n][l] EXCEPT ![x] = IF isAdd THEN @ + 1 ELSE @ - 1]]]

\* A mistake in it: the callbacks run for every addition.
AddFiresAlways(n, x) ==
    /\ groups' = [groups EXCEPT ![n] = Increment(groups[n], x)]
    /\ Fire(n, x, TRUE)

\* The callbacks run when the name is new ...
Add(n, x) ==
    /\ groups' = [groups EXCEPT ![n] = Increment(groups[n], x)]
    /\ IF x \in DOMAIN groups[n] THEN UNCHANGED heard ELSE Fire(n, x, TRUE)

\* ... and when its entry is erased.
Remove(n, x, absent) ==
    /\ groups' = [groups EXCEPT ![n] = Decrement(groups[n], x, absent)]
    /\ IF x \in DOMAIN groups[n] /\ groups[n][x] = 1
       THEN Fire(n, x, FALSE) ELSE UNCHANGED heard

\* A mistake in it: the peers are not told.
BroadcastToNone(n, method, x) == net

\* The request that n sends to each of its peers.
Broadcast(n, method, x) ==
    Send({[conn |-> peers[n][a], op |-> method, arg |-> x] : a \in PeersOf(n)})

AddToGroup(n, x) ==
    /\ adds > 0
    /\ n \in up
    /\ adds' = adds - 1
    /\ net' = Broadcast(n, "addToGroup", x)
    /\ Add(n, x)
    /\ local' = [local EXCEPT ![n] = @ \union {x}]
    /\ UNCHANGED <<up, peers, clients, seeds, removes, faults>>

RemoveFromGroup(n, x) ==
    /\ removes > 0
    /\ n \in up
    /\ removes' = removes - 1
    /\ net' = Broadcast(n, "removeFromGroup", x)
    /\ Remove(n, x, 0)
    /\ local' = [local EXCEPT ![n] = @ \ {x}]
    /\ UNCHANGED <<up, peers, clients, seeds, adds, faults>>

RPCAddToGroup(req) ==
    /\ req.op = "addToGroup"
    /\ Add(To(req.conn), req.arg)
    /\ net' = Done(req)
    /\ UNCHANGED <<up, peers, clients, local, budgets>>

RPCRemoveFromGroup(req) ==
    /\ req.op = "removeFromGroup"
    /\ Remove(To(req.conn), req.arg, -1)
    /\ net' = Done(req)
    /\ UNCHANGED <<up, peers, clients, local, budgets>>

\* A new callback is told of every entry there is.
AddGroupCallback(n, l) ==
    /\ n \in up
    /\ heard[n][l] = None
    /\ heard' = [heard EXCEPT ![n][l] =
                    [x \in Names |-> IF x \in DOMAIN groups[n] THEN 1 ELSE 0]]
    /\ UNCHANGED <<up, peers, clients, net, groups, local, budgets>>

RemoveGroupCallback(n) ==
    /\ n \in up
    /\ \E l \in Listeners : heard[n][l] # None
    /\ heard' = [heard EXCEPT ![n] = [l \in Listeners |-> None]]
    /\ UNCHANGED <<up, peers, clients, net, groups, local, budgets>>
-------------------------------------------------------------------------------
(***************************************************************************)
(* Losing connections.                                                     *)
(***************************************************************************)
\* A client is destroyed, and disconnects, when it is no longer in _peers and
\* every call made on it has been answered (DummyFunc holds it until then).
DestroyClient(c) ==
    /\ clients[c] = "live"
    /\ peers[From(c)][To(c)] # c
    /\ \A r \in UnderWay(net) : r.conn # c
    /\ clients' = [clients EXCEPT ![c] = "none"]
    /\ UNCHANGED <<up, peers, net, dirVars, budgets>>

\* A mistake in it: the entry is looked up and not erased.
RemovePeerKeeps(n, a) == UNCHANGED peers

\* RemovePeer: erase whatever client the address has.
RemovePeer(n, a) == peers' = [peers EXCEPT ![n][a] = None]

\* The connection c fails, or its server is gone: the disconnect callback
\* runs RemovePeer.  Requests that had reached the server may still run.
ConnectionLost(c) ==
    /\ clients[c] = "live"
    /\ IF To(c) \in up THEN faults > 0 /\ faults' = faults - 1 ELSE UNCHANGED faults
    /\ clients' = [clients EXCEPT ![c] = "none"]
    /\ RemovePeer(From(c), To(c))
    /\ UNCHANGED <<up, net, dirVars, seeds, adds, removes>>

RequestLost(req) ==
    /\ clients[req.conn] = "none" \/ To(req.conn) \notin up
    /\ net' = Done(req)
    /\ UNCHANGED <<up, peers, clients, dirVars, budgets>>

\* ~ServiceNode: shutdown() clears _peers and the server stops listening.  Its
\* user is not inside addPeer, but handlers that the workers have begun, or
\* that are queued for them, still run, and they keep the Internal alive.
Destroy(n) ==
    /\ faults > 0
    /\ n \in up
    /\ \A c \in Conns : From(c) = n => clients[c] # "byUser"
    /\ faults' = faults - 1
    /\ up' = up \ {n}
    /\ peers' = [peers EXCEPT ![n] = [a \in Nodes |-> None]]
    /\ UNCHANGED <<clients, net, dirVars, seeds, adds, removes>>
-------------------------------------------------------------------------------
Handle(req) == RPCAddPeer(req) \/ RPCAddToGroup(req) \/ RPCRemoveFromGroup(req)

Next ==
    \/ \E n, a \in Nodes : AddPeer(n, a)
    \/ \E c \in Conns : InsertPeer(c) \/ DestroyClient(c) \/ ConnectionLost(c)
    \/ \E req \in UnderWay(net) : Handle(req) \/ RequestLost(req)
    \/ \E n \in Nodes, x \in Names : AddToGroup(n, x) \/ RemoveFromGroup(n, x)
    \/ \E n \in Nodes, l \in Listeners : AddGroupCallback(n, l)
    \/ \E n \in Nodes : RemoveGroupCallback(n) \/ Destroy(n)

Spec == Init /\ [][Next]_vars

\* Users make the addPeer calls of Seeds, and workers get to every handler.
Fairness ==
    /\ \A n, a \in Nodes : WF_vars(AddPeer(n, a))
    /\ \A c \in Conns : WF_vars(InsertPeer(c))
    /\ \A req \in Requests : WF_vars(req \in UnderWay(net) /\ Handle(req))

FairSpec == Spec /\ Fairness
-------------------------------------------------------------------------------
(***************************************************************************)
(* What holds.                                                             *)
(***************************************************************************)
\* A node never connects to itself, whatever addresses its peers hand to it:
\* RPCAddPeer never sends a peer its own address.
NoSelfPeer ==
    /\ \A n \in Nodes : peers[n][n] = None
    /\ \A req \in UnderWay(net) : req.op = "addPeer" => req.arg # To(req.conn)

\* Every entry of _peers holds a client whose connection is up, through
\* replaced clients, lost connections and late disconnect callbacks.
PeersConnected ==
    \A n, a \in Nodes : peers[n][a] # None =>
        /\ clients[peers[n][a]] = "live"
        /\ From(peers[n][a]) = n /\ To(peers[n][a]) = a

\* a has b among its peers, or is bound to: it is connecting to b, or it has
\* been sent b's address.
Knows(a, b) ==
    \/ peers[a][b] # None
    \/ \E c \in Conns : clients[c] \in Connecting /\ From(c) = a /\ To(c) = b
    \/ \E r \in UnderWay(net) : r.op = "addPeer" /\ To(r.conn) = a /\ r.arg = b

\* While no connection is lost, knowing a peer is mutual, and any two peers
\* of a node have been introduced to each other: the step that inserts a
\* peer sends it every other entry of _peers, under the same lock.
Introduced ==
    MaxFaults = 0 => \A n \in Nodes : \A a \in PeersOf(n) :
        /\ Knows(a, n)
        /\ \A b \in PeersOf(n) \ {a} : Knows(a, b) \/ Knows(b, a)

\* While no connection is lost and nothing is removed, a peer of n has every
\* name that n's user has added, or the request that tells it is on the way:
\* no addToGroup falls between the insertion of a peer and the snapshot of
\* the directory that the peer is sent.
MembersReachPeers ==
    (MaxFaults = 0 /\ MaxRemoves = 0) =>
        \A n \in Nodes : \A a \in PeersOf(n), x \in local[n] :
            \/ x \in DOMAIN groups[a]
            \/ \E r \in UnderWay(net) :
                  r.op = "addToGroup" /\ To(r.conn) = a /\ r.arg = x

InStep(g, h) == \A x \in Names : h[x] = IF x \in DOMAIN g THEN 1 ELSE 0

Follows(n, l) ==
    (/\ heard[n][l] # None /\ heard'[n][l] # None
     /\ InStep(groups[n], heard[n][l]))
    => \/ InStep(groups'[n], heard'[n][l])
       \/ \E x \in DOMAIN groups'[n] : groups'[n][x] < 1

\* A callback that has been told exactly the members stays so, whatever the
\* node's own user and its peers add and remove, until a name that is not in
\* the group is removed (which makes an entry and tells nobody).
ListenersFollow == [][\A n \in Nodes, l \in Listeners : Follows(n, l)]_vars

\* service_node.h: "Only a single peer is required to connect to the entire
\* network": whatever connected graph the users' addPeer calls form, every
\* node ends up with every other in _peers.
MeshForms == <>[](\A n, a \in Nodes : n # a => peers[n][a] # None)

\* A name that is added anywhere reaches the directory of every node, also of
\* those that join later and of those that were joining at the time.
EveryoneLearns ==
    \A x \in Names :
        (\E n \in Nodes : x \in local[n]) ~> (\A a \in Nodes : x \in DOMAIN groups[a])
-------------------------------------------------------------------------------
(***************************************************************************)
(* What the comments say and the code does not do.                         *)
(***************************************************************************)
\* service_node.h: "The contents of this directory are shared with all other
\* peers with eventual consistency semantics."
EventuallyConsistent ==
    <>[](\A n, a \in Nodes : DOMAIN groups[n] = DOMAIN groups[a])
===============================================================================
