-------------------------- MODULE ServiceNodeProofs ---------------------------
(***************************************************************************)
(* Proofs about ServiceNode, for any nodes, names, callbacks and addPeer   *)
(* calls, and however many requests, connections and failures there are.   *)
(***************************************************************************)
EXTENDS ServiceNode, TLAPS

(***************************************************************************)
(* The bag of requests.                                                    *)
(***************************************************************************)
LEMMA RequestFacts ==
    ASSUME NEW r \in Requests
    PROVE  /\ r.conn \in Conns
           /\ r.op \in {"addPeer", "addToGroup", "removeFromGroup"}
           /\ r.op = "addPeer" => r.arg \in Nodes
           /\ r.op # "addPeer" => r.arg \in Names
BY DEF Requests, AddPeerReq, AddToGroupReq, RemoveFromGroupReq

LEMMA ConnFacts ==
    ASSUME NEW c \in Conns
    PROVE  From(c) \in Nodes /\ To(c) \in Nodes /\ From(c) # To(c) /\ c # None
BY Zenon, NodeAssumption DEF Conns, From, To

\* Sending adds those requests whose server still listens, and no other.
LEMMA SendFacts ==
    ASSUME IsRequestBag(net), UnderWay(net) \subseteq Requests, NEW reqs \in SUBSET Requests
    PROVE  /\ IsRequestBag(Send(reqs))
           /\ UnderWay(Send(reqs)) = UnderWay(net) \union {r \in reqs : To(r.conn) \in up}
           /\ UnderWay(Send(reqs)) \subseteq Requests
BY DEF IsRequestBag, UnderWay, AddAll, Copies, Send

\* What has run is no longer under way, except for other copies of it, and
\* everything else still is.
LEMMA DoneFacts ==
    ASSUME IsRequestBag(net), NEW req
    PROVE  /\ IsRequestBag(Done(req))
           /\ UnderWay(Done(req)) \subseteq UnderWay(net)
           /\ UnderWay(net) \subseteq UnderWay(Done(req)) \union {req}
BY DEF IsRequestBag, UnderWay, TakeOne, Done

\* What InsertPeer and the two broadcasts send are requests.
LEMMA IntroductionFacts ==
    ASSUME TypeOK, NEW c \in Conns
    PROVE  Introduction(From(c), To(c), c) \subseteq Requests
BY ConnFacts DEF TypeOK, Introduction, Requests, PeersOf

LEMMA BroadcastFacts ==
    ASSUME TypeOK, NEW n \in Nodes, NEW x \in Names,
           NEW method \in {"addToGroup", "removeFromGroup"}
    PROVE  {[conn |-> peers[n][a], op |-> method, arg |-> x] : a \in PeersOf(n)}
               \subseteq Requests
BY DEF TypeOK, PeersOf, Requests, AddToGroupReq, RemoveFromGroupReq
-------------------------------------------------------------------------------
(***************************************************************************)
(* The directory.                                                          *)
(***************************************************************************)
IsGroup(g) == DOMAIN g \subseteq Names /\ \A x \in DOMAIN g : g[x] \in Int

\* Adding a name makes it a member; nothing else appears or disappears.
LEMMA IncrementFacts ==
    ASSUME NEW g, IsGroup(g), NEW x \in Names
    PROVE  IsGroup(Increment(g, x)) /\ DOMAIN Increment(g, x) = DOMAIN g \union {x}
BY DEF IsGroup, Increment, MapAssign

\* Removing a name makes an entry that is not a member's, or erases the only
\* one, or changes nothing.
LEMMA DecrementFacts ==
    ASSUME NEW g, IsGroup(g), NEW x \in Names, NEW absent \in {0, -1}
    PROVE  /\ IsGroup(Decrement(g, x, absent))
           /\ x \notin DOMAIN g => /\ DOMAIN Decrement(g, x, absent) = DOMAIN g \union {x}
                                   /\ Decrement(g, x, absent)[x] = absent
           /\ x \in DOMAIN g /\ g[x] = 1 => DOMAIN Decrement(g, x, absent) = DOMAIN g \ {x}
           /\ x \in DOMAIN g /\ g[x] # 1 => Decrement(g, x, absent) = g
BY DEF IsGroup, Decrement, MapAssign, Restrict

HeardType == heard \in [Nodes -> [Listeners -> {None} \union [Names -> Int]]]

LEMMA FireFacts ==
    ASSUME HeardType, NEW n \in Nodes, NEW x \in Names, NEW isAdd \in BOOLEAN,
           Fire(n, x, isAdd)
    PROVE  /\ HeardType'
           /\ \A m \in Nodes \ {n} : heard'[m] = heard[m]
           /\ \A l \in Listeners :
                IF heard[n][l] = None THEN heard'[n][l] = None
                ELSE heard'[n][l] = [heard[n][l] EXCEPT ![x] = IF isAdd THEN @ + 1 ELSE @ - 1]
<1>1. \A l \in Listeners : heard[n][l] \in {None} \union [Names -> Int]
  BY Zenon DEF HeardType
<1>2. ASSUME NEW l \in Listeners
      PROVE  (IF heard[n][l] = None THEN None
              ELSE [heard[n][l] EXCEPT ![x] = IF isAdd THEN @ + 1 ELSE @ - 1])
                 \in {None} \union [Names -> Int]
  <2>1. CASE heard[n][l] = None
    BY Zenon, <2>1
  <2>2. CASE heard[n][l] # None
    <3>1. heard[n][l] \in [Names -> Int] /\ heard[n][l][x] \in Int
      BY Zenon, <1>1, <2>2
    <3>. QED  BY <2>2, <3>1
  <2>. QED  BY Zenon, <2>1, <2>2
<1>3. heard' \in [Nodes -> [Listeners -> {None} \union [Names -> Int]]]
  BY Zenon, <1>2 DEF Fire, HeardType
<1>. QED  BY Zenon, <1>3 DEF Fire, HeardType
-------------------------------------------------------------------------------
(***************************************************************************)
(* Types.                                                                  *)
(***************************************************************************)
NetType  == IsRequestBag(net) /\ UnderWay(net) \subseteq Requests
DirType  == /\ DOMAIN groups = Nodes /\ \A n \in Nodes : IsGroup(groups[n])
            /\ HeardType
            /\ local \in [Nodes -> SUBSET Names]
ConnType == /\ up \subseteq Nodes
            /\ peers \in [Nodes -> [Nodes -> Conns \union {None}]]
            /\ clients \in [Conns -> {"none", "live"} \union Connecting]
Budgets  == /\ seeds \subseteq Seeds
            /\ adds \in 0..MaxAdds /\ removes \in 0..MaxRemoves /\ faults \in 0..MaxFaults

Types == NetType /\ DirType /\ ConnType /\ Budgets

LEMMA TypesImply == Types => TypeOK
BY Zenon DEF Types, NetType, DirType, IsGroup, HeardType, ConnType, Budgets, TypeOK

\* Connecting takes a client that is not in use.
LEMMA ConnectFacts ==
    ASSUME ConnType, NEW n, NEW a, NEW caller \in Connecting, LookupAndConnect(n, a, caller)
    PROVE  /\ clients' \in [Conns -> {"none", "live"} \union Connecting]
           /\ \A c \in Conns : \/ clients'[c] = clients[c]
                               \/ Free(c) /\ clients'[c] = caller
<1>1. CASE UNCHANGED clients
  BY Zenon, <1>1 DEF ConnType
<1>2. CASE ~UNCHANGED clients
  <2>1. PICK k \in 1..MaxParallel : /\ Free(<<n, a, k>>)
                                    /\ clients' = [clients EXCEPT ![<<n, a, k>>] = caller]
    BY Zenon, <1>2 DEF LookupAndConnect
  <2>. QED  BY Zenon, <2>1 DEF ConnType
<1>. QED  BY Zenon, <1>1, <1>2

\* The directory is well formed after Add and Remove, which change n's part.
LEMMA AddFacts ==
    ASSUME DirType, NEW n \in Nodes, NEW x \in Names, Add(n, x)
    PROVE  /\ DOMAIN groups' = Nodes /\ \A m \in Nodes : IsGroup(groups'[m])
           /\ HeardType'
           /\ \A m \in Nodes \ {n} : groups'[m] = groups[m]
           /\ groups'[n] = Increment(groups[n], x)
<1>1. IsGroup(Increment(groups[n], x))
  BY Zenon, IncrementFacts DEF DirType
<1>2. HeardType'
  BY Zenon, FireFacts DEF Add, DirType, HeardType
<1>. QED  BY Zenon, <1>1, <1>2 DEF Add, DirType

\* Add never takes a name out of a directory.
LEMMA AddGrows ==
    ASSUME DirType, NEW n \in Nodes, NEW x \in Names, Add(n, x)
    PROVE  /\ \A m \in Nodes : DOMAIN groups[m] \subseteq DOMAIN groups'[m]
           /\ x \in DOMAIN groups'[n]
<1>1. /\ \A m \in Nodes \ {n} : groups'[m] = groups[m]
      /\ groups'[n] = Increment(groups[n], x)
  BY Zenon, AddFacts
<1>2. DOMAIN groups'[n] = DOMAIN groups[n] \union {x}
  BY Zenon, <1>1, IncrementFacts DEF DirType
<1>. QED  BY Zenon, <1>1, <1>2

LEMMA RemoveFacts ==
    ASSUME DirType, NEW n \in Nodes, NEW x \in Names, NEW absent \in {0, -1},
           Remove(n, x, absent)
    PROVE  /\ DOMAIN groups' = Nodes /\ \A m \in Nodes : IsGroup(groups'[m])
           /\ HeardType'
           /\ \A m \in Nodes \ {n} : groups'[m] = groups[m]
           /\ groups'[n] = Decrement(groups[n], x, absent)
<1>1. IsGroup(Decrement(groups[n], x, absent))
  BY Zenon, DecrementFacts DEF DirType
<1>2. HeardType'
  BY Zenon, FireFacts DEF Remove, DirType, HeardType
<1>. QED  BY Zenon, <1>1, <1>2 DEF Remove, DirType

LEMMA TypesStep == Types /\ [Next]_vars => Types'
<1>. SUFFICES ASSUME Types, [Next]_vars PROVE Types'
  BY Zenon
<1>. USE DEF Types
<1>t. TypeOK
  BY Zenon, TypesImply
<1>1. ASSUME NEW n \in Nodes, NEW a \in Nodes, AddPeer(n, a) PROVE Types'
  <2>1. ConnType'
    BY Zenon, <1>1, ConnectFacts DEF AddPeer, ConnType, Connecting
  <2>. QED
    BY Zenon, <1>1, <2>1 DEF AddPeer, NetType, dirVars, DirType, HeardType, Budgets
<1>2. ASSUME NEW c \in Conns, InsertPeer(c) PROVE Types'
  <2>1. NetType'
    BY Zenon, <1>2, <1>t, IntroductionFacts, SendFacts DEF InsertPeer, NetType
  <2>2. ConnType'
    BY Zenon, <1>2, ConnFacts DEF InsertPeer, ConnType
  <2>. QED
    BY Zenon, <1>2, <2>1, <2>2 DEF InsertPeer, dirVars, budgets, DirType, HeardType, Budgets
<1>3. ASSUME NEW c \in Conns, DestroyClient(c) PROVE Types'
  BY Zenon, <1>3
     DEF DestroyClient, dirVars, budgets, NetType, DirType, HeardType, ConnType, Budgets
<1>4. ASSUME NEW c \in Conns, ConnectionLost(c) PROVE Types'
  <2>1. ConnType'
    BY Zenon, <1>4, ConnFacts DEF ConnectionLost, RemovePeer, ConnType
  <2>2. Budgets'
    BY <1>4, NodeAssumption DEF ConnectionLost, Budgets
  <2>. QED
    BY Zenon, <1>4, <2>1, <2>2 DEF ConnectionLost, dirVars, NetType, DirType, HeardType
<1>5. ASSUME NEW req \in UnderWay(net), RPCAddPeer(req) PROVE Types'
  <2>1. NetType'
    BY Zenon, <1>5, DoneFacts DEF RPCAddPeer, NetType
  <2>2. ConnType'
    BY Zenon, <1>5, ConnectFacts DEF RPCAddPeer, ConnType, Connecting
  <2>. QED
    BY Zenon, <1>5, <2>1, <2>2 DEF RPCAddPeer, dirVars, budgets, DirType, HeardType, Budgets
<1>6. ASSUME NEW req \in UnderWay(net), RPCAddToGroup(req) PROVE Types'
  <2>1. NetType'
    BY Zenon, <1>6, DoneFacts DEF RPCAddToGroup, NetType
  <2>2. To(req.conn) \in Nodes /\ req.arg \in Names
    BY Zenon, <1>6, RequestFacts, ConnFacts DEF RPCAddToGroup, NetType
  <2>3. DirType'
    BY Zenon, <1>6, <2>2, AddFacts DEF RPCAddToGroup, DirType
  <2>. QED
    BY Zenon, <1>6, <2>1, <2>3 DEF RPCAddToGroup, budgets, ConnType, Budgets
<1>7. ASSUME NEW req \in UnderWay(net), RPCRemoveFromGroup(req) PROVE Types'
  <2>1. NetType'
    BY Zenon, <1>7, DoneFacts DEF RPCRemoveFromGroup, NetType
  <2>2. To(req.conn) \in Nodes /\ req.arg \in Names
    BY Zenon, <1>7, RequestFacts, ConnFacts DEF RPCRemoveFromGroup, NetType
  <2>3. DirType'
    BY Zenon, <1>7, <2>2, RemoveFacts DEF RPCRemoveFromGroup, DirType
  <2>. QED
    BY Zenon, <1>7, <2>1, <2>3 DEF RPCRemoveFromGroup, budgets, ConnType, Budgets
<1>8. ASSUME NEW req \in UnderWay(net), RequestLost(req) PROVE Types'
  <2>1. NetType'
    BY Zenon, <1>8, DoneFacts DEF RequestLost, NetType
  <2>. QED
    BY Zenon, <1>8, <2>1
       DEF RequestLost, dirVars, budgets, DirType, HeardType, ConnType, Budgets
<1>9. ASSUME NEW n \in Nodes, NEW x \in Names, AddToGroup(n, x) PROVE Types'
  <2>1. NetType'
    BY Zenon, <1>9, <1>t, BroadcastFacts, SendFacts DEF AddToGroup, Broadcast, NetType
  <2>2. DirType'
    BY Zenon, <1>9, AddFacts DEF AddToGroup, DirType
  <2>3. Budgets'
    BY <1>9, NodeAssumption DEF AddToGroup, Budgets
  <2>. QED
    BY Zenon, <1>9, <2>1, <2>2, <2>3 DEF AddToGroup, ConnType
<1>10. ASSUME NEW n \in Nodes, NEW x \in Names, RemoveFromGroup(n, x) PROVE Types'
  <2>1. NetType'
    BY Zenon, <1>10, <1>t, BroadcastFacts, SendFacts DEF RemoveFromGroup, Broadcast, NetType
  <2>2. DirType'
    BY Zenon, <1>10, RemoveFacts DEF RemoveFromGroup, DirType
  <2>3. Budgets'
    BY <1>10, NodeAssumption DEF RemoveFromGroup, Budgets
  <2>. QED
    BY Zenon, <1>10, <2>1, <2>2, <2>3 DEF RemoveFromGroup, ConnType
<1>11. ASSUME NEW n \in Nodes, NEW l \in Listeners, AddGroupCallback(n, l) PROVE Types'
  <2>1. HeardType'
    BY <1>11 DEF AddGroupCallback, DirType, HeardType
  <2>. QED
    BY Zenon, <1>11, <2>1 DEF AddGroupCallback, budgets, NetType, DirType, ConnType, Budgets
<1>12. ASSUME NEW n \in Nodes, RemoveGroupCallback(n) PROVE Types'
  <2>1. HeardType'
    BY Zenon, <1>12 DEF RemoveGroupCallback, DirType, HeardType
  <2>. QED
    BY Zenon, <1>12, <2>1 DEF RemoveGroupCallback, budgets, NetType, DirType, ConnType, Budgets
<1>13. ASSUME NEW n \in Nodes, Destroy(n) PROVE Types'
  <2>1. ConnType'
    BY Zenon, <1>13 DEF Destroy, ConnType
  <2>2. Budgets'
    BY <1>13, NodeAssumption DEF Destroy, Budgets
  <2>. QED
    BY Zenon, <1>13, <2>1, <2>2 DEF Destroy, dirVars, NetType, DirType, HeardType
<1>14. CASE UNCHANGED vars
  BY Zenon, <1>14 DEF vars, dirVars, budgets, NetType, DirType, HeardType, ConnType, Budgets
<1>. QED
  BY Zenon, <1>1, <1>2, <1>3, <1>4, <1>5, <1>6, <1>7, <1>8, <1>9, <1>10, <1>11, <1>12, <1>13,
     <1>14
     DEF Next, Handle

LEMMA TypesInductive == Spec => []Types
<1>1. Init => Types
  <2>. SUFFICES ASSUME Init PROVE Types
    BY Zenon
  <2>1. NetType
    BY Zenon DEF Init, NetType, NoRequests, IsRequestBag, UnderWay
  <2>2. DirType
    BY DEF Init, DirType, IsGroup, HeardType
  <2>3. ConnType /\ Budgets
    BY NodeAssumption DEF Init, ConnType, Budgets
  <2>. QED  BY Zenon, <2>1, <2>2, <2>3 DEF Types
<1>. QED  BY <1>1, TypesStep, PTL DEF Spec

\* The types of a node's state: in particular, every count in the directory
\* is an integer, whichever end removed a name that was not there.
THEOREM TypeCorrect == Spec => []TypeOK
BY TypesInductive, TypesImply, PTL
-------------------------------------------------------------------------------
(***************************************************************************)
(* Connections.                                                            *)
(***************************************************************************)
\* No request asks a node to connect to itself.
NoSelfRequest == \A r \in UnderWay(net) : r.op = "addPeer" => r.arg # To(r.conn)

\* Without faults no node goes away, and a client that has requests under way
\* is not destroyed: no request is lost.
Calm ==
    MaxFaults = 0 => /\ up = Nodes
                     /\ \A r \in UnderWay(net) : clients[r.conn] = "live"

MeshInv == Types /\ PeersConnected /\ NoSelfRequest /\ Calm

\* What InsertPeer sends.
LEMMA InsertFacts ==
    ASSUME Types, NEW c \in Conns, InsertPeer(c)
    PROVE  UnderWay(net') = UnderWay(net) \union
                              {r \in Introduction(From(c), To(c), c) : To(c) \in up}
<1>1. UnderWay(net') = UnderWay(net) \union
                         {r \in Introduction(From(c), To(c), c) : To(r.conn) \in up}
  BY Zenon, TypesImply, IntroductionFacts, SendFacts DEF Types, NetType, InsertPeer
<1>2. \A r \in Introduction(From(c), To(c), c) : r.conn = c
  BY DEF Introduction, AddPeerReq, AddToGroupReq
<1>. QED  BY Zenon, <1>1, <1>2

\* What a broadcast sends: one request on the client of every peer.
LEMMA TellFacts ==
    ASSUME Types, NEW n \in Nodes, NEW x \in Names,
           NEW method \in {"addToGroup", "removeFromGroup"}, net' = Broadcast(n, method, x)
    PROVE  UnderWay(net') = UnderWay(net) \union
              {r \in {[conn |-> peers[n][a], op |-> method, arg |-> x] : a \in PeersOf(n)} :
                  To(r.conn) \in up}
BY TypesImply, BroadcastFacts, SendFacts DEF Types, NetType, Broadcast

\* The steps that leave the connections alone and only take requests off the
\* bag, or add requests about the directory on clients that are in _peers.
LEMMA QuietStep ==
    ASSUME MeshInv, UNCHANGED <<up, peers, clients>>,
           \A r \in UnderWay(net') \ UnderWay(net) :
              r.op # "addPeer" /\ \E n, a \in Nodes : peers[n][a] # None /\ r.conn = peers[n][a]
    PROVE  PeersConnected' /\ NoSelfRequest' /\ Calm'
<1>1. PeersConnected'
  BY Zenon DEF MeshInv, PeersConnected
<1>2. NoSelfRequest'
  BY Zenon DEF MeshInv, NoSelfRequest
<1>3. Calm'
  BY DEF MeshInv, Calm, PeersConnected
<1>. QED  BY Zenon, <1>1, <1>2, <1>3

\* The unlocked part of RPCAddPeer takes no client that an entry of _peers or
\* a request refers to.
LEMMA ConnectStep ==
    ASSUME MeshInv, UNCHANGED <<up, peers>>, UnderWay(net') \subseteq UnderWay(net),
           NEW n, NEW a, NEW caller \in Connecting, LookupAndConnect(n, a, caller)
    PROVE  PeersConnected' /\ NoSelfRequest' /\ Calm'
<1>1. \A c \in Conns : \/ clients'[c] = clients[c]
                       \/ Free(c) /\ clients'[c] = caller
  BY Zenon, ConnectFacts DEF MeshInv, Types
<1>2. PeersConnected'
  <2>. SUFFICES ASSUME NEW m \in Nodes, NEW b \in Nodes, peers[m][b] # None
                PROVE  clients'[peers[m][b]] = "live"
    BY Zenon DEF MeshInv, PeersConnected
  <2>1. peers[m][b] \in Conns /\ clients[peers[m][b]] = "live"
    BY DEF MeshInv, Types, ConnType, PeersConnected
  <2>. QED  BY Zenon, <1>1, <2>1 DEF Free
<1>3. NoSelfRequest'
  BY Zenon DEF MeshInv, NoSelfRequest
<1>4. Calm'
  <2>. SUFFICES ASSUME MaxFaults = 0, NEW r \in UnderWay(net) PROVE clients'[r.conn] = "live"
    BY Zenon DEF MeshInv, Calm
  <2>1. r.conn \in Conns /\ clients[r.conn] = "live"
    BY Zenon, RequestFacts DEF MeshInv, Types, NetType, Calm
  <2>. QED  BY Zenon, <1>1, <2>1 DEF Free
<1>. QED  BY Zenon, <1>2, <1>3, <1>4

LEMMA MeshStep == MeshInv /\ [Next]_vars => MeshInv'
<1>. SUFFICES ASSUME MeshInv, [Next]_vars PROVE PeersConnected' /\ NoSelfRequest' /\ Calm'
  BY Zenon, TypesStep DEF MeshInv
<1>. USE DEF MeshInv
<1>n. \A req : IsRequestBag(net) => UnderWay(Done(req)) \subseteq UnderWay(net)
  BY Zenon, DoneFacts
<1>1. ASSUME NEW n \in Nodes, NEW a \in Nodes, AddPeer(n, a)
      PROVE  PeersConnected' /\ NoSelfRequest' /\ Calm'
  BY Zenon, <1>1, ConnectStep DEF AddPeer, Connecting
<1>2. ASSUME NEW c \in Conns, InsertPeer(c)
      PROVE  PeersConnected' /\ NoSelfRequest' /\ Calm'
  <2>1. /\ clients' = [clients EXCEPT ![c] = "live"]
        /\ peers' = [peers EXCEPT ![From(c)][To(c)] = c]
        /\ UNCHANGED up
    BY Zenon, <1>2 DEF InsertPeer
  <2>2. From(c) \in Nodes /\ To(c) \in Nodes /\ From(c) # To(c)
    BY Zenon, ConnFacts
  <2>3. PeersConnected'
    BY <2>1, <2>2 DEF PeersConnected, Types, ConnType
  <2>4. \A r \in UnderWay(net') \ UnderWay(net) :
           r.conn = c /\ (r.op = "addPeer" => r.arg # To(c))
    <3>1. \A r \in Introduction(From(c), To(c), c) :
             r.conn = c /\ (r.op = "addPeer" => r.arg # To(c))
      BY <2>2 DEF Introduction, AddPeerReq, AddToGroupReq
    <3>. QED  BY Zenon, <1>2, <3>1, InsertFacts
  <2>5. NoSelfRequest'
    BY Zenon, <2>4 DEF NoSelfRequest
  <2>6. Calm'
    BY Zenon, <2>1, <2>4, RequestFacts DEF Calm, Types, NetType, ConnType
  <2>. QED  BY Zenon, <2>3, <2>5, <2>6
<1>3. ASSUME NEW c \in Conns, DestroyClient(c)
      PROVE  PeersConnected' /\ NoSelfRequest' /\ Calm'
  <2>1. /\ clients' = [clients EXCEPT ![c] = "none"]
        /\ peers[From(c)][To(c)] # c /\ \A r \in UnderWay(net) : r.conn # c
        /\ UNCHANGED <<up, peers, net>>
    BY Zenon, <1>3 DEF DestroyClient
  <2>2. PeersConnected'
    BY <2>1 DEF PeersConnected, Types, ConnType
  <2>3. NoSelfRequest' /\ Calm'
    BY Zenon, <2>1, RequestFacts DEF NoSelfRequest, Calm, Types, NetType, ConnType
  <2>. QED  BY Zenon, <2>2, <2>3
<1>4. ASSUME NEW c \in Conns, ConnectionLost(c)
      PROVE  PeersConnected' /\ NoSelfRequest' /\ Calm'
  <2>1. /\ clients' = [clients EXCEPT ![c] = "none"]
        /\ peers' = [peers EXCEPT ![From(c)][To(c)] = None]
        /\ UNCHANGED <<up, net>>
    BY Zenon, <1>4 DEF ConnectionLost, RemovePeer
  <2>2. From(c) \in Nodes /\ To(c) \in Nodes
    BY Zenon, ConnFacts
  <2>3. PeersConnected'
    BY <2>1, <2>2 DEF PeersConnected, Types, ConnType
  <2>4. MaxFaults # 0
    BY <1>4, <2>2 DEF ConnectionLost, Calm, Types, Budgets
  <2>. QED  BY Zenon, <2>1, <2>3, <2>4 DEF NoSelfRequest, Calm
<1>5. ASSUME NEW req \in UnderWay(net), RPCAddPeer(req)
      PROVE  PeersConnected' /\ NoSelfRequest' /\ Calm'
  BY Zenon, <1>5, <1>n, ConnectStep DEF RPCAddPeer, Connecting, Types, NetType
<1>6. ASSUME NEW req \in UnderWay(net),
             RPCAddToGroup(req) \/ RPCRemoveFromGroup(req) \/ RequestLost(req)
      PROVE  PeersConnected' /\ NoSelfRequest' /\ Calm'
  <2>1. UNCHANGED <<up, peers, clients>> /\ UnderWay(net') \subseteq UnderWay(net)
    BY Zenon, <1>6, <1>n DEF RPCAddToGroup, RPCRemoveFromGroup, RequestLost, Types, NetType
  <2>. QED  BY Zenon, <2>1, QuietStep
<1>7. ASSUME NEW n \in Nodes, NEW x \in Names, AddToGroup(n, x) \/ RemoveFromGroup(n, x)
      PROVE  PeersConnected' /\ NoSelfRequest' /\ Calm'
  <2>1. PICK method \in {"addToGroup", "removeFromGroup"} :
           UNCHANGED <<up, peers, clients>> /\ net' = Broadcast(n, method, x)
    BY Zenon, <1>7 DEF AddToGroup, RemoveFromGroup
  <2>2. \A r \in UnderWay(net') \ UnderWay(net) :
           r.op = method /\ \E a \in Nodes : peers[n][a] # None /\ r.conn = peers[n][a]
    BY <2>1, TellFacts DEF PeersOf
  <2>. QED  BY Zenon, <2>1, <2>2, QuietStep
<1>8. ASSUME NEW n \in Nodes, NEW l \in Listeners, AddGroupCallback(n, l)
      PROVE  PeersConnected' /\ NoSelfRequest' /\ Calm'
  BY Zenon, <1>8, QuietStep DEF AddGroupCallback
<1>9. ASSUME NEW n \in Nodes, RemoveGroupCallback(n)
      PROVE  PeersConnected' /\ NoSelfRequest' /\ Calm'
  BY Zenon, <1>9, QuietStep DEF RemoveGroupCallback
<1>10. ASSUME NEW n \in Nodes, Destroy(n)
       PROVE  PeersConnected' /\ NoSelfRequest' /\ Calm'
  <2>1. PeersConnected'
    BY Zenon, <1>10 DEF Destroy, PeersConnected, Types, ConnType
  <2>2. MaxFaults # 0
    BY <1>10 DEF Destroy, Types, Budgets
  <2>. QED  BY Zenon, <1>10, <2>1, <2>2 DEF Destroy, NoSelfRequest, Calm
<1>11. CASE UNCHANGED vars
  BY Zenon, <1>11, QuietStep DEF vars
<1>. QED
  BY Zenon, <1>1, <1>2, <1>3, <1>4, <1>5, <1>6, <1>7, <1>8, <1>9, <1>10, <1>11 DEF Next, Handle

LEMMA MeshInductive == Spec => []MeshInv
<1>1. Init => PeersConnected /\ NoSelfRequest /\ Calm
  BY DEF Init, PeersConnected, NoSelfRequest, Calm, NoRequests, UnderWay
<1>2. Types /\ PeersConnected /\ NoSelfRequest /\ Calm => MeshInv
  BY Zenon DEF MeshInv
<1>. QED  BY <1>1, <1>2, TypesInductive, MeshStep, PTL DEF Spec

\* Every entry of _peers holds a client whose connection is up, whatever
\* clients replace each other and whenever a disconnect callback runs.
THEOREM PeersAlwaysConnected == Spec => []PeersConnected
<1>1. MeshInv => PeersConnected
  BY Zenon DEF MeshInv
<1>. QED  BY <1>1, MeshInductive, PTL

\* No node is its own peer, or is ever asked to connect to itself.
THEOREM NeverItsOwnPeer == Spec => []NoSelfPeer
<1>1. ASSUME MeshInv PROVE NoSelfPeer
  <2>1. ASSUME NEW n \in Nodes PROVE peers[n][n] = None
    <3>. SUFFICES ASSUME peers[n][n] # None PROVE FALSE
      BY Zenon
    <3>1. peers[n][n] \in Conns /\ From(peers[n][n]) = n /\ To(peers[n][n]) = n
      BY <1>1 DEF MeshInv, Types, ConnType, PeersConnected
    <3>. QED  BY Zenon, <3>1, ConnFacts
  <2>. QED  BY Zenon, <1>1, <2>1 DEF MeshInv, NoSelfRequest, NoSelfPeer
<1>. QED  BY <1>1, MeshInductive, PTL
-------------------------------------------------------------------------------
(***************************************************************************)
(* Without faults, what a node knows of another is never lost.             *)
(***************************************************************************)
\* What a step that handles or loses requests, inserts a peer or tells the
\* peers does to them, when there are no faults.
LEMMA CalmFacts ==
    ASSUME MeshInv, MaxFaults = 0
    PROVE  /\ up = Nodes /\ faults = 0
           /\ \A r \in UnderWay(net) : ~RequestLost(r)
           /\ \A c \in Conns : ~ConnectionLost(c)
           /\ \A n \in Nodes : ~Destroy(n)
<1>1. up = Nodes /\ faults = 0
  BY DEF MeshInv, Types, Budgets, Calm
<1>2. \A r \in UnderWay(net) : ~RequestLost(r)
  BY Zenon, <1>1, RequestFacts, ConnFacts DEF MeshInv, Types, NetType, Calm, RequestLost
<1>3. \A c \in Conns : ~ConnectionLost(c)
  BY <1>1, ConnFacts DEF ConnectionLost
<1>4. \A n \in Nodes : ~Destroy(n)
  BY <1>1 DEF Destroy
<1>. QED  BY Zenon, <1>1, <1>2, <1>3, <1>4

\* b reaches a's _peers by way of a request and of a client that connects,
\* and no step drops it in between.
LEMMA KnowsStays ==
    ASSUME MeshInv, MaxFaults = 0, [Next]_vars,
           NEW a \in Nodes, NEW b \in Nodes, Knows(a, b)
    PROVE  Knows(a, b)'
<1>. USE DEF MeshInv
<1>n. \A req : UnderWay(net) \subseteq UnderWay(Done(req)) \union {req}
  BY Zenon, DoneFacts DEF Types, NetType
<1>0. ASSUME UNCHANGED <<peers, clients>>,
             \A r \in UnderWay(net) : r.op = "addPeer" => r \in UnderWay(net')
      PROVE  Knows(a, b)'
  BY Zenon, <1>0 DEF Knows
<1>c. ASSUME NEW n, NEW d, NEW caller \in Connecting, LookupAndConnect(n, d, caller)
      PROVE  \A c \in Conns : clients[c] \in Connecting => clients'[c] \in Connecting
  BY Zenon, <1>c, ConnectFacts DEF Types
<1>1. ASSUME NEW n \in Nodes, NEW d \in Nodes, AddPeer(n, d) PROVE Knows(a, b)'
  BY Zenon, <1>1, <1>c DEF AddPeer, Knows, Connecting
<1>2. ASSUME NEW c \in Conns, InsertPeer(c) PROVE Knows(a, b)'
  <2>1. /\ clients' = [clients EXCEPT ![c] = "live"]
        /\ peers' = [peers EXCEPT ![From(c)][To(c)] = c]
    BY Zenon, <1>2 DEF InsertPeer
  <2>2. From(c) \in Nodes /\ To(c) \in Nodes /\ c # None
    BY Zenon, ConnFacts
  <2>3. UnderWay(net) \subseteq UnderWay(net')
    BY Zenon, <1>2, InsertFacts
  <2>4. CASE peers[a][b] # None
    BY Zenon, <2>1, <2>2, <2>4 DEF Knows, Types, ConnType
  <2>5. CASE \E e \in Conns : clients[e] \in Connecting /\ From(e) = a /\ To(e) = b
    BY Zenon, <2>1, <2>2, <2>5 DEF Knows, Types, ConnType
  <2>6. CASE \E r \in UnderWay(net) : r.op = "addPeer" /\ To(r.conn) = a /\ r.arg = b
    BY Zenon, <2>3, <2>6 DEF Knows
  <2>. QED  BY Zenon, <2>4, <2>5, <2>6 DEF Knows
<1>3. ASSUME NEW c \in Conns, DestroyClient(c) PROVE Knows(a, b)'
  BY Zenon, <1>3 DEF DestroyClient, Knows, Connecting, Types, ConnType
<1>4. ASSUME NEW req \in UnderWay(net), RPCAddPeer(req) PROVE Knows(a, b)'
  <2>1. /\ LookupAndConnect(To(req.conn), req.arg, "byPeer")
        /\ net' = Done(req) /\ UNCHANGED peers
    BY Zenon, <1>4 DEF RPCAddPeer
  <2>2. CASE peers[a][b] # None
    BY Zenon, <2>1, <2>2 DEF Knows
  <2>3. CASE \E c \in Conns : clients[c] \in Connecting /\ From(c) = a /\ To(c) = b
    BY Zenon, <2>1, <2>3, <1>c DEF Knows, Connecting
  <2>4. CASE \E r \in UnderWay(net) \ {req} : r.op = "addPeer" /\ To(r.conn) = a /\ r.arg = b
    BY Zenon, <2>1, <2>4, <1>n DEF Knows
  <2>5. CASE peers[a][b] = None /\ To(req.conn) = a /\ req.arg = b
    <3>1. PICK k \in 1..MaxParallel : clients' = [clients EXCEPT ![<<a, b, k>>] = "byPeer"]
      BY Zenon, <2>1, <2>5, CalmFacts DEF LookupAndConnect
    <3>2. a # b
      BY Zenon, <1>4, <2>5 DEF NoSelfRequest, RPCAddPeer
    <3>3. <<a, b, k>> \in Conns /\ From(<<a, b, k>>) = a /\ To(<<a, b, k>>) = b
      BY Zenon, <3>2 DEF Conns, From, To
    <3>4. clients'[<<a, b, k>>] \in Connecting
      BY Zenon, <3>1, <3>3 DEF Types, ConnType, Connecting
    <3>. QED  BY Zenon, <3>3, <3>4 DEF Knows
  <2>. QED  BY Zenon, <2>2, <2>3, <2>4, <2>5 DEF Knows
<1>5. ASSUME NEW req \in UnderWay(net), RPCAddToGroup(req) \/ RPCRemoveFromGroup(req)
      PROVE  Knows(a, b)'
  BY Zenon, <1>5, <1>n, <1>0 DEF RPCAddToGroup, RPCRemoveFromGroup
<1>6. ASSUME NEW n \in Nodes, NEW x \in Names, AddToGroup(n, x) \/ RemoveFromGroup(n, x)
      PROVE  Knows(a, b)'
  <2>1. PICK method \in {"addToGroup", "removeFromGroup"} :
           UNCHANGED <<peers, clients>> /\ net' = Broadcast(n, method, x)
    BY Zenon, <1>6 DEF AddToGroup, RemoveFromGroup
  <2>. QED  BY Zenon, <2>1, TellFacts, <1>0
<1>7. ASSUME NEW n \in Nodes, NEW l \in Listeners, AddGroupCallback(n, l) PROVE Knows(a, b)'
  BY Zenon, <1>7, <1>0 DEF AddGroupCallback
<1>8. ASSUME NEW n \in Nodes, RemoveGroupCallback(n) PROVE Knows(a, b)'
  BY Zenon, <1>8, <1>0 DEF RemoveGroupCallback
<1>9. CASE UNCHANGED vars
  BY Zenon, <1>9, <1>0 DEF vars
<1>. QED
  BY Zenon, <1>1, <1>2, <1>3, <1>4, <1>5, <1>6, <1>7, <1>8, <1>9, CalmFacts DEF Next, Handle

\* Only InsertPeer adds to _peers, while nothing is lost.
LEMMA PeersOnlyInserted ==
    ASSUME MeshInv, MaxFaults = 0, [Next]_vars, peers' # peers
    PROVE  \E c \in Conns : InsertPeer(c)
BY Zenon, CalmFacts DEF Next, Handle, vars, AddPeer, DestroyClient, RPCAddPeer, RPCAddToGroup,
                 RPCRemoveFromGroup, AddToGroup, RemoveFromGroup, AddGroupCallback,
                 RemoveGroupCallback

\* While no connection is lost, knowing a peer is mutual, and the peers of a
\* node have been introduced to each other.
THEOREM AlwaysIntroduced == Spec => []Introduced
<1>1. Init => Introduced
  BY DEF Init, Introduced, PeersOf
<1>2. ASSUME MeshInv, Introduced, [Next]_vars PROVE Introduced'
  <2>. SUFFICES ASSUME MaxFaults = 0, NEW n \in Nodes, NEW a \in Nodes, peers'[n][a] # None
                PROVE  /\ Knows(a, n)'
                       /\ \A b \in Nodes \ {a} :
                             peers'[n][b] # None => Knows(a, b)' \/ Knows(b, a)'
    BY Zenon DEF Introduced, PeersOf
  <2>1. CASE peers' = peers
    BY Zenon, <2>1, <1>2, KnowsStays DEF Introduced, PeersOf
  <2>2. CASE peers' # peers
    <3>1. PICK c \in Conns : InsertPeer(c)
      BY Zenon, <1>2, <2>2, PeersOnlyInserted
    <3>2. /\ From(c) \in Nodes /\ To(c) \in Nodes /\ From(c) # To(c)
          /\ peers' = [peers EXCEPT ![From(c)][To(c)] = c]
      BY Zenon, <3>1, ConnFacts DEF InsertPeer
    <3>3. Introduction(From(c), To(c), c) \subseteq UnderWay(net')
      BY Zenon, <1>2, <3>1, <3>2, InsertFacts, CalmFacts DEF MeshInv
    <3>4. ASSUME NEW d \in Nodes, d = To(c), NEW b \in Nodes,
                 b = From(c) \/ (b \in PeersOf(From(c)) /\ b # d)
          PROVE  Knows(d, b)'
      <4>1. AddPeerReq(c, b) \in UnderWay(net')
        BY Zenon, <3>3, <3>4 DEF Introduction
      <4>. QED  BY Zenon, <3>4, <4>1 DEF AddPeerReq, Knows
    <3>5. CASE n # From(c)
      BY Zenon, <3>2, <3>5, <1>2, KnowsStays DEF Introduced, PeersOf, MeshInv, Types, ConnType
    <3>6. CASE n = From(c)
      <4>1. \A b \in Nodes \ {To(c)} : peers'[n][b] = peers[n][b]
        BY <3>2, <3>6 DEF MeshInv, Types, ConnType
      <4>2. CASE a = To(c)
        BY Zenon, <4>1, <4>2, <3>4, <3>6 DEF PeersOf
      <4>3. CASE a # To(c)
        <5>1. Knows(a, n)'
          BY Zenon, <4>1, <4>3, <1>2, KnowsStays DEF Introduced, PeersOf
        <5>2. ASSUME NEW b \in Nodes \ {a}, peers'[n][b] # None
              PROVE  Knows(a, b)' \/ Knows(b, a)'
          <6>1. CASE b = To(c)
            BY Zenon, <6>1, <4>1, <4>3, <3>4, <3>6 DEF PeersOf
          <6>2. CASE b # To(c)
            BY Zenon, <6>2, <5>2, <4>1, <4>3, <1>2, KnowsStays DEF Introduced, PeersOf
          <6>. QED  BY Zenon, <6>1, <6>2
        <5>. QED  BY Zenon, <5>1, <5>2
      <4>. QED  BY Zenon, <4>2, <4>3
    <3>. QED  BY Zenon, <3>5, <3>6
  <2>. QED  BY Zenon, <2>1, <2>2
<1>. QED  BY <1>1, <1>2, MeshInductive, PTL DEF Spec
-------------------------------------------------------------------------------
(***************************************************************************)
(* The directory, while nothing is lost and nothing is removed.            *)
(***************************************************************************)
\* Nobody is told to remove a name, and a node has what its user has added.
OnlyAdds ==
    MaxRemoves = 0 => /\ \A r \in UnderWay(net) : r.op # "removeFromGroup"
                      /\ \A n \in Nodes : local[n] \subseteq DOMAIN groups[n]

\* a has the name x, or the request that tells it is on the way.
Reached(a, x) ==
    \/ x \in DOMAIN groups[a]
    \/ \E r \in UnderWay(net) : r.op = "addToGroup" /\ To(r.conn) = a /\ r.arg = x

\* The step changes no directory and sends no removeFromGroup.
LEMMA SameDirectory ==
    ASSUME OnlyAdds, UNCHANGED <<groups, local>>,
           \A r \in UnderWay(net') \ UnderWay(net) : r.op # "removeFromGroup"
    PROVE  OnlyAdds'
BY Zenon DEF OnlyAdds

LEMMA OnlyAddsStep == MeshInv /\ OnlyAdds /\ [Next]_vars => OnlyAdds'
<1>. SUFFICES ASSUME MeshInv, OnlyAdds, [Next]_vars PROVE OnlyAdds'
  BY Zenon
<1>. USE DEF MeshInv
<1>n. \A req : UnderWay(Done(req)) \subseteq UnderWay(net)
  BY Zenon, DoneFacts DEF Types, NetType
<1>1. ASSUME NEW n \in Nodes, NEW a \in Nodes, AddPeer(n, a) PROVE OnlyAdds'
  BY Zenon, <1>1, SameDirectory DEF AddPeer, dirVars
<1>2. ASSUME NEW c \in Conns, InsertPeer(c) PROVE OnlyAdds'
  <2>1. \A r \in Introduction(From(c), To(c), c) : r.op # "removeFromGroup"
    BY DEF Introduction, AddPeerReq, AddToGroupReq
  <2>2. \A r \in UnderWay(net') \ UnderWay(net) : r.op # "removeFromGroup"
    BY Zenon, <1>2, <2>1, InsertFacts
  <2>. QED  BY Zenon, <1>2, <2>2, SameDirectory DEF InsertPeer, dirVars
<1>3. ASSUME NEW c \in Conns, DestroyClient(c) \/ ConnectionLost(c) PROVE OnlyAdds'
  BY Zenon, <1>3, SameDirectory DEF DestroyClient, ConnectionLost, dirVars
<1>4. ASSUME NEW req \in UnderWay(net), RPCAddPeer(req) \/ RequestLost(req) PROVE OnlyAdds'
  BY Zenon, <1>4, <1>n, SameDirectory DEF RPCAddPeer, RequestLost, dirVars
<1>5. ASSUME NEW req \in UnderWay(net), RPCAddToGroup(req) PROVE OnlyAdds'
  <2>1. To(req.conn) \in Nodes /\ req.arg \in Names
    BY Zenon, <1>5, RequestFacts, ConnFacts DEF RPCAddToGroup, Types, NetType
  <2>2. \A m \in Nodes : DOMAIN groups[m] \subseteq DOMAIN groups'[m]
    BY Zenon, <1>5, <2>1, AddGrows DEF RPCAddToGroup, Types
  <2>. QED  BY Zenon, <1>5, <1>n, <2>2 DEF RPCAddToGroup, OnlyAdds
<1>6. ASSUME NEW req \in UnderWay(net), RPCRemoveFromGroup(req) PROVE OnlyAdds'
  BY Zenon, <1>6 DEF RPCRemoveFromGroup, OnlyAdds
<1>7. ASSUME NEW n \in Nodes, NEW x \in Names, AddToGroup(n, x) PROVE OnlyAdds'
  <2>1. net' = Broadcast(n, "addToGroup", x) /\ local' = [local EXCEPT ![n] = @ \union {x}]
    BY Zenon, <1>7 DEF AddToGroup
  <2>2. \A r \in UnderWay(net') \ UnderWay(net) : r.op = "addToGroup"
    BY <2>1, TellFacts
  <2>3. \A m \in Nodes : DOMAIN groups[m] \subseteq DOMAIN groups'[m]
    BY Zenon, <1>7, AddGrows DEF AddToGroup, Types
  <2>4. x \in DOMAIN groups'[n]
    BY Zenon, <1>7, AddGrows DEF AddToGroup, Types
  <2>. QED  BY Zenon, <2>1, <2>2, <2>3, <2>4 DEF OnlyAdds, Types, DirType
<1>8. ASSUME NEW n \in Nodes, NEW x \in Names, RemoveFromGroup(n, x) PROVE OnlyAdds'
  BY <1>8 DEF RemoveFromGroup, OnlyAdds, Types, Budgets
<1>9. ASSUME NEW n \in Nodes, NEW l \in Listeners, AddGroupCallback(n, l) PROVE OnlyAdds'
  BY Zenon, <1>9, SameDirectory DEF AddGroupCallback
<1>10. ASSUME NEW n \in Nodes, RemoveGroupCallback(n) \/ Destroy(n) PROVE OnlyAdds'
  BY Zenon, <1>10, SameDirectory DEF RemoveGroupCallback, Destroy, dirVars
<1>11. CASE UNCHANGED vars
  BY Zenon, <1>11, SameDirectory DEF vars, dirVars
<1>. QED
  BY Zenon, <1>1, <1>2, <1>3, <1>4, <1>5, <1>6, <1>7, <1>8, <1>9, <1>10, <1>11 DEF Next, Handle

\* A name that has reached a node, or is on its way to it, does not get lost.
LEMMA ReachedStays ==
    ASSUME MeshInv, OnlyAdds, MaxFaults = 0, MaxRemoves = 0, [Next]_vars,
           NEW a \in Nodes, NEW x \in Names, Reached(a, x)
    PROVE  Reached(a, x)'
<1>. USE DEF MeshInv
<1>n. \A req : UnderWay(net) \subseteq UnderWay(Done(req)) \union {req}
  BY Zenon, DoneFacts DEF Types, NetType
<1>0. ASSUME \A m \in Nodes : DOMAIN groups[m] \subseteq DOMAIN groups'[m],
             \A r \in UnderWay(net) :
                r \in UnderWay(net') \/ r.op # "addToGroup"
                                     \/ r.arg \in DOMAIN groups'[To(r.conn)]
      PROVE  Reached(a, x)'
  BY Zenon, <1>0 DEF Reached
<1>1. ASSUME NEW n \in Nodes, NEW d \in Nodes, AddPeer(n, d) PROVE Reached(a, x)'
  BY Zenon, <1>1, <1>0 DEF AddPeer, dirVars
<1>2. ASSUME NEW c \in Conns, InsertPeer(c) PROVE Reached(a, x)'
  BY Zenon, <1>2, <1>0, InsertFacts DEF InsertPeer, dirVars
<1>3. ASSUME NEW c \in Conns, DestroyClient(c) PROVE Reached(a, x)'
  BY Zenon, <1>3, <1>0 DEF DestroyClient, dirVars
<1>4. ASSUME NEW req \in UnderWay(net), RPCAddPeer(req) PROVE Reached(a, x)'
  BY Zenon, <1>4, <1>0, <1>n DEF RPCAddPeer, dirVars
<1>5. ASSUME NEW req \in UnderWay(net), RPCAddToGroup(req) PROVE Reached(a, x)'
  <2>1. To(req.conn) \in Nodes /\ req.arg \in Names
    BY Zenon, <1>5, RequestFacts, ConnFacts DEF RPCAddToGroup, Types, NetType
  <2>2. \A m \in Nodes : DOMAIN groups[m] \subseteq DOMAIN groups'[m]
    BY Zenon, <1>5, <2>1, AddGrows DEF RPCAddToGroup, Types
  <2>3. req.arg \in DOMAIN groups'[To(req.conn)]
    BY Zenon, <1>5, <2>1, AddGrows DEF RPCAddToGroup, Types
  <2>. QED  BY Zenon, <1>5, <2>2, <2>3, <1>0, <1>n DEF RPCAddToGroup
<1>6. ASSUME NEW req \in UnderWay(net), RPCRemoveFromGroup(req) PROVE Reached(a, x)'
  BY Zenon, <1>6 DEF RPCRemoveFromGroup, OnlyAdds
<1>7. ASSUME NEW n \in Nodes, NEW y \in Names, AddToGroup(n, y) PROVE Reached(a, x)'
  <2>1. UnderWay(net) \subseteq UnderWay(net')
    BY Zenon, <1>7, TellFacts DEF AddToGroup
  <2>2. \A m \in Nodes : DOMAIN groups[m] \subseteq DOMAIN groups'[m]
    BY Zenon, <1>7, AddGrows DEF AddToGroup, Types
  <2>. QED  BY Zenon, <2>1, <2>2, <1>0
<1>8. ASSUME NEW n \in Nodes, NEW y \in Names, RemoveFromGroup(n, y) PROVE Reached(a, x)'
  BY <1>8 DEF RemoveFromGroup, Types, Budgets
<1>9. ASSUME NEW n \in Nodes, NEW l \in Listeners, AddGroupCallback(n, l) PROVE Reached(a, x)'
  BY Zenon, <1>9, <1>0 DEF AddGroupCallback
<1>10. ASSUME NEW n \in Nodes, RemoveGroupCallback(n) PROVE Reached(a, x)'
  BY Zenon, <1>10, <1>0 DEF RemoveGroupCallback
<1>11. CASE UNCHANGED vars
  BY Zenon, <1>11, <1>0 DEF vars, dirVars
<1>. QED
  BY Zenon, <1>1, <1>2, <1>3, <1>4, <1>5, <1>6, <1>7, <1>8, <1>9, <1>10, <1>11, CalmFacts
     DEF Next, Handle

\* Only AddToGroup changes what a node's user has added, and a step does not
\* both do that and insert a peer.
LEMMA LocalOnlyAdded ==
    ASSUME MeshInv, MaxRemoves = 0, [Next]_vars, local' # local
    PROVE  \E n \in Nodes, x \in Names : AddToGroup(n, x)
<1>1. \A n \in Nodes, x \in Names : ~RemoveFromGroup(n, x)
  BY DEF RemoveFromGroup, MeshInv, Types, Budgets
<1>. QED
  BY Zenon, <1>1
     DEF Next, Handle, vars, dirVars, AddPeer, InsertPeer, DestroyClient, ConnectionLost,
              RPCAddPeer, RPCAddToGroup, RPCRemoveFromGroup, RequestLost,
              AddGroupCallback, RemoveGroupCallback, Destroy

\* While nothing is lost or removed, the peers of a node have, or are being
\* told, every name that its user has added: before or after they joined.
THEOREM MembersAlwaysReachPeers == Spec => []MembersReachPeers
<1>1. Init => OnlyAdds /\ MembersReachPeers
  BY Zenon DEF Init, OnlyAdds, MembersReachPeers, NoRequests, UnderWay
<1>2. ASSUME MeshInv, OnlyAdds, MembersReachPeers, [Next]_vars PROVE MembersReachPeers'
  <2>. SUFFICES ASSUME MaxFaults = 0, MaxRemoves = 0, NEW n \in Nodes, NEW a \in Nodes,
                       peers'[n][a] # None, NEW x \in local'[n]
                PROVE  Reached(a, x)'
    BY Zenon DEF MembersReachPeers, Reached, PeersOf
  <2>0. x \in Names
    BY Zenon, <1>2, TypesStep DEF MeshInv, Types, DirType
  <2>1. CASE peers[n][a] # None /\ x \in local[n]
    <3>1. Reached(a, x)
      BY <1>2, <2>1 DEF MembersReachPeers, Reached, PeersOf
    <3>. QED  BY Zenon, <1>2, <2>0, <3>1, ReachedStays
  <2>2. CASE peers[n][a] = None
    <3>1. PICK c \in Conns : InsertPeer(c)
      BY Zenon, <1>2, <2>2, PeersOnlyInserted
    <3>2. From(c) = n /\ To(c) = a /\ UNCHANGED <<groups, local>>
      BY Zenon, <1>2, <3>1, <2>2, ConnFacts DEF InsertPeer, dirVars, MeshInv, Types, ConnType
    <3>3. AddToGroupReq(c, x) \in Introduction(From(c), To(c), c)
      BY Zenon, <1>2, <3>2 DEF OnlyAdds, Introduction
    <3>4. AddToGroupReq(c, x) \in UnderWay(net')
      BY Zenon, <1>2, <3>1, <3>2, <3>3, InsertFacts, CalmFacts DEF MeshInv
    <3>. QED  BY Zenon, <3>2, <3>4 DEF Reached, AddToGroupReq
  <2>3. CASE peers[n][a] # None /\ x \notin local[n]
    <3>1. PICK m \in Nodes, y \in Names : AddToGroup(m, y)
      BY Zenon, <1>2, <2>3, LocalOnlyAdded
    <3>2. m = n /\ y = x /\ net' = Broadcast(m, "addToGroup", y)
      BY Zenon, <1>2, <2>3, <3>1 DEF AddToGroup, MeshInv, Types, DirType
    <3>3. To(peers[n][a]) = a /\ up = Nodes
      BY Zenon, <1>2, <2>3, CalmFacts DEF MeshInv, PeersConnected
    <3>4. [conn |-> peers[n][a], op |-> "addToGroup", arg |-> x] \in UnderWay(net')
      BY <1>2, <2>3, <3>2, <3>3, TellFacts DEF MeshInv, PeersOf
    <3>. QED  BY Zenon, <3>3, <3>4 DEF Reached
  <2>. QED  BY Zenon, <2>1, <2>2, <2>3
<1>. QED  BY <1>1, <1>2, OnlyAddsStep, MeshInductive, PTL DEF Spec
-------------------------------------------------------------------------------
(***************************************************************************)
(* What callbacks are told.                                                *)
(***************************************************************************)
\* Add tells the callbacks of the names it makes members of, ...
LEMMA AddFollows ==
    ASSUME DirType, NEW m \in Nodes, NEW x \in Names, Add(m, x),
           NEW n \in Nodes, NEW l \in Listeners
    PROVE  Follows(n, l)
<1>. SUFFICES ASSUME heard[n][l] # None, InStep(groups[n], heard[n][l])
              PROVE  InStep(groups'[n], heard'[n][l])
  BY Zenon DEF Follows
<1>1. heard[n][l] \in [Names -> Int]
  BY Zenon DEF DirType, HeardType
<1>2. CASE n # m
  <2>1. heard'[n] = heard[n] /\ groups'[n] = groups[n]
    <3>1. groups'[n] = groups[n]
      BY Zenon, <1>2, AddFacts
    <3>2. CASE Fire(m, x, TRUE)
      <4>1. heard'[n] = heard[n]
        BY Zenon, <1>2, <3>2 DEF Fire, DirType, HeardType
      <4>. QED  BY Zenon, <3>1, <4>1
    <3>3. CASE UNCHANGED heard
      BY Zenon, <3>1, <3>3
    <3>. QED  BY Zenon, <3>2, <3>3 DEF Add
  <2>. QED  BY Zenon, <2>1
<1>3. CASE n = m /\ x \in DOMAIN groups[m]
  <2>1. heard' = heard /\ DOMAIN groups'[n] = DOMAIN groups[n]
    BY <1>3, AddFacts, IncrementFacts DEF Add, DirType
  <2>. QED  BY Zenon, <2>1 DEF InStep
<1>4. CASE n = m /\ x \notin DOMAIN groups[m]
  <2>1. DOMAIN groups'[n] = DOMAIN groups[n] \union {x}
    <3>1. groups'[m] = Increment(groups[m], x)
      BY Zenon, AddFacts
    <3>. QED  BY Zenon, <1>4, <3>1, IncrementFacts DEF DirType
  <2>2. heard'[n][l] = [heard[n][l] EXCEPT ![x] = @ + 1]
    BY <1>4 DEF Add, Fire, DirType, HeardType
  <2>. QED  BY <1>1, <1>4, <2>1, <2>2 DEF InStep
<1>. QED  BY Zenon, <1>2, <1>3, <1>4

\* ... and Remove of those it erases; it makes an entry for a stranger.
LEMMA RemoveFollows ==
    ASSUME DirType, NEW m \in Nodes, NEW x \in Names, NEW absent \in {0, -1},
           Remove(m, x, absent), NEW n \in Nodes, NEW l \in Listeners
    PROVE  Follows(n, l)
<1>. SUFFICES ASSUME heard[n][l] # None, InStep(groups[n], heard[n][l])
              PROVE  \/ InStep(groups'[n], heard'[n][l])
                     \/ \E y \in DOMAIN groups'[n] : groups'[n][y] < 1
  BY Zenon DEF Follows
<1>1. heard[n][l] \in [Names -> Int]
  BY Zenon DEF DirType, HeardType
<1>r. /\ \A k \in Nodes \ {m} : groups'[k] = groups[k]
      /\ groups'[m] = Decrement(groups[m], x, absent)
  BY Zenon, RemoveFacts
<1>d. /\ x \notin DOMAIN groups[m] => x \in DOMAIN groups'[m] /\ groups'[m][x] = absent
      /\ x \in DOMAIN groups[m] /\ groups[m][x] = 1
            => DOMAIN groups'[m] = DOMAIN groups[m] \ {x}
      /\ x \in DOMAIN groups[m] /\ groups[m][x] # 1 => groups'[m] = groups[m]
  <2>. DEFINE g == groups[m]
  <2>1. IsGroup(g)
    BY Zenon DEF DirType
  <2>. HIDE DEF g
  <2>2. /\ x \notin DOMAIN g => /\ DOMAIN Decrement(g, x, absent) = DOMAIN g \union {x}
                                /\ Decrement(g, x, absent)[x] = absent
        /\ x \in DOMAIN g /\ g[x] = 1 => DOMAIN Decrement(g, x, absent) = DOMAIN g \ {x}
        /\ x \in DOMAIN g /\ g[x] # 1 => Decrement(g, x, absent) = g
    BY Zenon, <2>1, DecrementFacts
  <2>. QED  BY Zenon, <1>r, <2>2 DEF g
<1>2. CASE n # m
  <2>1. heard'[n] = heard[n] /\ groups'[n] = groups[n]
    BY Zenon, <1>2, <1>r DEF Remove, Fire, DirType, HeardType
  <2>. QED  BY Zenon, <2>1
<1>3. CASE n = m /\ x \notin DOMAIN groups[m]
  <2>1. x \in DOMAIN groups'[n] /\ groups'[n][x] = absent
    BY Zenon, <1>3, <1>d
  <2>. QED  BY <2>1
<1>4. CASE n = m /\ x \in DOMAIN groups[m] /\ groups[m][x] # 1
  <2>1. heard' = heard /\ groups'[n] = groups[n]
    BY Zenon, <1>4, <1>d DEF Remove
  <2>. QED  BY Zenon, <2>1
<1>5. CASE n = m /\ x \in DOMAIN groups[m] /\ groups[m][x] = 1
  <2>1. DOMAIN groups'[n] = DOMAIN groups[n] \ {x}
    BY Zenon, <1>5, <1>d
  <2>2. heard'[n][l] = [heard[n][l] EXCEPT ![x] = @ - 1]
    BY <1>5 DEF Remove, Fire, DirType, HeardType
  <2>. QED  BY <1>1, <1>5, <2>1, <2>2 DEF InStep
<1>. QED  BY Zenon, <1>2, <1>3, <1>4, <1>5

LEMMA FollowStep ==
    ASSUME Types, [Next]_vars, NEW n \in Nodes, NEW l \in Listeners
    PROVE  Follows(n, l)
<1>0. ASSUME UNCHANGED <<groups, heard>> PROVE Follows(n, l)
  BY Zenon, <1>0 DEF Follows
<1>1. ASSUME NEW a \in Nodes, NEW b \in Nodes, AddPeer(a, b) PROVE Follows(n, l)
  BY Zenon, <1>1, <1>0 DEF AddPeer, dirVars
<1>2. ASSUME NEW c \in Conns, InsertPeer(c) \/ DestroyClient(c) \/ ConnectionLost(c)
      PROVE  Follows(n, l)
  BY Zenon, <1>2, <1>0 DEF InsertPeer, DestroyClient, ConnectionLost, dirVars
<1>3. ASSUME NEW req \in UnderWay(net), RPCAddPeer(req) \/ RequestLost(req)
      PROVE  Follows(n, l)
  BY Zenon, <1>3, <1>0 DEF RPCAddPeer, RequestLost, dirVars
<1>4. ASSUME NEW req \in UnderWay(net), RPCAddToGroup(req) \/ RPCRemoveFromGroup(req)
      PROVE  Follows(n, l)
  <2>1. To(req.conn) \in Nodes /\ req.arg \in Names
    BY Zenon, <1>4, RequestFacts, ConnFacts
       DEF RPCAddToGroup, RPCRemoveFromGroup, Types, NetType
  <2>. QED
    BY Zenon, <1>4, <2>1, AddFollows, RemoveFollows DEF RPCAddToGroup, RPCRemoveFromGroup, Types
<1>5. ASSUME NEW m \in Nodes, NEW x \in Names, AddToGroup(m, x) \/ RemoveFromGroup(m, x)
      PROVE  Follows(n, l)
  BY Zenon, <1>5, AddFollows, RemoveFollows DEF AddToGroup, RemoveFromGroup, Types
<1>6. ASSUME NEW m \in Nodes, NEW k \in Listeners, AddGroupCallback(m, k) PROVE Follows(n, l)
  <2>1. /\ heard[m][k] = None /\ UNCHANGED groups
        /\ heard' = [heard EXCEPT ![m][k] =
                        [x \in Names |-> IF x \in DOMAIN groups[m] THEN 1 ELSE 0]]
    BY Zenon, <1>6 DEF AddGroupCallback
  <2>. QED  BY Zenon, <2>1 DEF Follows, Types, DirType, HeardType
<1>7. ASSUME NEW m \in Nodes, RemoveGroupCallback(m) PROVE Follows(n, l)
  <2>1. UNCHANGED groups /\ heard' = [heard EXCEPT ![m] = [k \in Listeners |-> None]]
    BY Zenon, <1>7 DEF RemoveGroupCallback
  <2>. QED  BY Zenon, <2>1 DEF Follows, Types, DirType, HeardType
<1>8. ASSUME NEW m \in Nodes, Destroy(m) PROVE Follows(n, l)
  BY Zenon, <1>8, <1>0 DEF Destroy, dirVars
<1>9. CASE UNCHANGED vars
  BY Zenon, <1>9, <1>0 DEF vars, dirVars
<1>. QED
  BY Zenon, <1>1, <1>2, <1>3, <1>4, <1>5, <1>6, <1>7, <1>8, <1>9 DEF Next, Handle

\* A callback that has been told exactly the members goes on being told
\* exactly the members, until a name that is not in the group is removed.
THEOREM ListenersAlwaysFollow == Spec => ListenersFollow
<1>1. Types /\ [Next]_vars => [\A n \in Nodes, l \in Listeners : Follows(n, l)]_vars
  BY Zenon, FollowStep
<1>. QED  BY <1>1, TypesInductive, PTL DEF Spec, ListenersFollow
===============================================================================
