---------------------------- MODULE BlockStoreNode ----------------------------
(***************************************************************************)
(* The nodes of the block store daemon (src/blockstore/blockstore_daemon.h *)
(* and .cc): each runs an RPCServer, keeps a Peer per address (_peers),    *)
(* a table of block stores (_blockstores) and a timer.  The RPC layer      *)
(* appears as RPCService promises it.                                      *)
(*                                                                         *)
(* No method takes a lock.  RPCAddPeer runs in the user's thread or in a   *)
(* worker and is split where it touches _peers or its client; the map is   *)
(* otherwise accessed in one step.  A Peer is named by the connection that *)
(* its client makes.  Every node is a process of its own.                  *)
(***************************************************************************)
EXTENDS Integers, FiniteSets, RequestBag

CONSTANTS
    Nodes,        \* the nodes, named by the address they listen on
    StoreIds,     \* the ids that block stores are given
    MaxParallel,  \* the most Peers that one node may hold for another
    Scenarios,    \* what the users do, and what may go wrong: see Scenario
    None

\* Which nodes there are, the addPeer calls of their users (pairs <<node,
\* peer>>), the nodes that are stopped, those whose user calls putBlock, the
\* local stores (pairs <<node, id>>), the ids that some RPC client hands to
\* "addBlockStore", how many connections fail, and how many Peers a node may
\* hold for another at a time.
Scenario ==
    [nodes : SUBSET Nodes, seeds : SUBSET (Nodes \X Nodes), stops : SUBSET Nodes,
     puts : SUBSET Nodes, local : SUBSET (Nodes \X StoreIds),
     remote : SUBSET StoreIds, faults : Nat, parallel : 1..MaxParallel]

ASSUME NodeAssumption ==
    /\ None \notin Nodes
    /\ None \notin {"connect", "remove", "put"}
    /\ None \notin {<<"user">>, <<"local">>, <<"null">>}
    /\ None \notin Nodes \X Nodes \X (1..MaxParallel)
    /\ IsFiniteSet(Nodes)
    /\ MaxParallel \in Nat \ {0}
    /\ Scenarios \subseteq Scenario

VARIABLES
    phase,     \* phase[n]: see Phases
    timers,    \* timers[n]: how many onTimer tasks are enqueued
    signalled, \* the nodes whose _stopped has been signalled
    crashed,   \* crashed[n]: None, or what killed the process
    peers,     \* peers[n][a]: the Peer of n's _peers[a], or None
    stage,     \* stage[c]: how far the RPCAddPeer that made the Peer c has got
    wired,     \* wired[c]: the state of the connection of c's client
    waiter,    \* waiter[c]: whose request that RPCAddPeer is to answer
    answer,    \* answer[c]: the Future that it returns
    bsids,     \* bsids[c]: the Peer's _bsids
    stores,    \* stores[n][b]: n's _blockstores[b]
    net,       \* the bag of "addPeer" requests that have been sent and not run
    calling,   \* the user calls of addPeer that have not returned
    scenario, seeds, stops, puts, faults   \* what may happen, and still may

lifeVars  == <<phase, timers, signalled>>
peerVars  == <<peers, stage, wired, waiter, answer, bsids, stores>>
budgets   == <<scenario, seeds, stops, puts, faults>>
vars == <<lifeVars, crashed, peerVars, net, calling, budgets>>
-------------------------------------------------------------------------------
\* "stopping": stop() is waiting; "early": so it is, and start() was not called.
Phases == {"created", "running", "stopping", "early", "stopped"}

Conns == Nodes \X Nodes \X (1..MaxParallel)
From(c) == c[1]
To(c)   == c[2]

\* "absent": the address was looked up and not found; "inserted": the Peer is
\* in _peers; "open": connected; "hooked": the disconnect callback is set;
\* "done": RPCAddPeer has returned.
Stages == {"none", "absent", "inserted", "open", "hooked", "done"}

\* "missed": lost before the disconnect callback was set.
Wires == {"none", "up", "down", "missed"}

\* The request by which Peer::connect asks to be connected back, whose answer
\* RPCAddPeer returns, and the ones that introduce other peers.
AskReq(c)          == [conn |-> c, op |-> "ask", arg |-> From(c)]
IntroduceReq(c, a) == [conn |-> c, op |-> "introduce", arg |-> a]
Requests == {AskReq(c) : c \in Conns} \union {IntroduceReq(c, a) : c \in Conns, a \in Nodes}

\* What else an entry of waiter or stores may be: the node's own user; a local
\* store; a remote store made before its Peer had a client.
User  == <<"user">>
Local == <<"local">>
Null  == <<"null">>

Alive(n)     == crashed[n] = None
HasServer(n) == phase[n] \in {"created", "running"}     \* _rpc_server is set
Listening(n) == Alive(n) /\ n \in scenario.nodes /\ HasServer(n)

Done(req) == TakeOne(net, req)
PeersOf(n) == {a \in Nodes : peers[n][a] # None}

TypeOK ==
    /\ phase \in [Nodes -> Phases]
    /\ timers \in [Nodes -> 0..1]
    /\ signalled \subseteq Nodes
    /\ crashed \in [Nodes -> {None, "connect", "remove", "put"}]
    /\ peers \in [Nodes -> [Nodes -> Conns \union {None}]]
    /\ stage \in [Conns -> Stages]
    /\ wired \in [Conns -> Wires]
    /\ waiter \in [Conns -> Conns \union {None, User}]
    /\ answer \in [Conns -> {"none", "waiting", "true", "false"}]
    /\ bsids \in [Conns -> SUBSET StoreIds]
    /\ stores \in [Nodes -> [StoreIds -> Conns \union {None, Local, Null}]]
    /\ IsRequestBag(net) /\ UnderWay(net) \subseteq Requests
    /\ calling \subseteq scenario.seeds /\ seeds \subseteq scenario.seeds
    /\ scenario \in Scenarios
    /\ stops \subseteq Nodes /\ puts \subseteq Nodes
    /\ faults \in 0..scenario.faults

Init ==
    /\ phase = [n \in Nodes |-> "created"]
    /\ timers = [n \in Nodes |-> 0]
    /\ signalled = {}
    /\ crashed = [n \in Nodes |-> None]
    /\ peers = [n \in Nodes |-> [a \in Nodes |-> None]]
    /\ stage = [c \in Conns |-> "none"]
    /\ wired = [c \in Conns |-> "none"]
    /\ waiter = [c \in Conns |-> None]
    /\ answer = [c \in Conns |-> "none"]
    /\ bsids = [c \in Conns |-> {}]
    /\ stores = [n \in Nodes |-> [b \in StoreIds |-> None]]
    /\ net = NoRequests
    /\ calling = {}
    /\ scenario \in Scenarios
    /\ seeds = scenario.seeds /\ stops = scenario.stops
    /\ puts = scenario.puts /\ faults = scenario.faults
-------------------------------------------------------------------------------
(***************************************************************************)
(* start(), stop() and the timer.                                          *)
(***************************************************************************)
Start(n) ==
    /\ n \in scenario.nodes /\ Alive(n) /\ phase[n] = "created"
    /\ phase' = [phase EXCEPT ![n] = "running"]
    /\ timers' = [timers EXCEPT ![n] = @ + 1]
    /\ UNCHANGED <<signalled, crashed, peerVars, net, calling, budgets>>

\* Mistakes in it: it enqueues itself twice; stop() is not told.
OnTimerTwice(n) ==
    /\ Alive(n) /\ timers[n] > 0
    /\ IF HasServer(n) THEN timers' = [timers EXCEPT ![n] = @ + 1] /\ UNCHANGED signalled
       ELSE /\ timers' = [timers EXCEPT ![n] = @ - 1]
            /\ signalled' = signalled \union {n}
    /\ UNCHANGED <<phase, crashed, peerVars, net, calling, budgets>>

OnTimerSilent(n) ==
    /\ Alive(n) /\ timers[n] > 0
    /\ timers' = IF HasServer(n) THEN timers ELSE [timers EXCEPT ![n] = @ - 1]
    /\ UNCHANGED <<phase, signalled, crashed, peerVars, net, calling, budgets>>

\* onTimer enqueues itself again while there is a server.
OnTimer(n) ==
    /\ Alive(n) /\ timers[n] > 0
    /\ IF HasServer(n) THEN UNCHANGED <<timers, signalled>>
       ELSE /\ timers' = [timers EXCEPT ![n] = @ - 1]
            /\ signalled' = signalled \union {n}
    /\ UNCHANGED <<phase, crashed, peerVars, net, calling, budgets>>

\* stop() resets _rpc_server, which closes its connections and its port ...
StopBegin(n) ==
    /\ n \in stops /\ Alive(n) /\ HasServer(n)
    /\ stops' = stops \ {n}
    /\ phase' = [phase EXCEPT ![n] = IF @ = "created" THEN "early" ELSE "stopping"]
    /\ UNCHANGED <<timers, signalled, crashed, peerVars, net, calling, scenario, seeds, puts, faults>>

\* A mistake in it: stop() does not wait.
StopReturnAtOnce(n) ==
    /\ Alive(n) /\ phase[n] \in {"stopping", "early"}
    /\ phase' = [phase EXCEPT ![n] = "stopped"]
    /\ UNCHANGED <<timers, signalled, crashed, peerVars, net, calling, budgets>>

\* ... and waits for _stopped.
StopReturn(n) ==
    /\ Alive(n) /\ phase[n] \in {"stopping", "early"} /\ n \in signalled
    /\ phase' = [phase EXCEPT ![n] = "stopped"]
    /\ UNCHANGED <<timers, signalled, crashed, peerVars, net, calling, budgets>>
-------------------------------------------------------------------------------
(***************************************************************************)
(* Peers and the clients they own.                                         *)
(***************************************************************************)
\* The process of n dies: its connections close, and nothing that was sent to
\* it runs.
Die(n, why) ==
    LET Of(f, gone) == [c \in Conns |-> IF From(c) = n THEN gone ELSE f[c]]
        left        == {r \in UnderWay(net) : To(r.conn) # n}
    IN /\ crashed' = [crashed EXCEPT ![n] = why]
       /\ peers' = [peers EXCEPT ![n] = [a \in Nodes |-> None]]
       /\ stores' = [stores EXCEPT ![n] = [b \in StoreIds |-> None]]
       /\ stage' = Of(stage, "none") /\ wired' = Of(wired, "none")
       /\ waiter' = Of(waiter, None) /\ answer' = Of(answer, "none")
       /\ bsids' = Of(bsids, {})
       /\ net' = [r \in left |-> net[r]]
       /\ calling' = {s \in calling : s[1] # n}

\* The clients that neither a Peer nor a store holds any more, when the Peers
\* are p, their RPCAddPeer has got to s, and the stores are b.
Unheld(p, s, b) ==
    {c \in Conns : /\ s[c] = "done"
                   /\ p[From(c)][To(c)] # c
                   /\ \A i \in StoreIds : b[From(c)][i] # c}

\* Mistakes in it: ~RPCClient leaves the disconnect callback set, so that it
\* runs RemovePeer; it forgets the calls that have no answer.
BecomeNotifying(p, s, w, b) ==
    LET gone == Unheld(p, s, b)
    IN /\ peers' = [n \in Nodes |-> [a \in Nodes |->
                       IF \E c \in gone : From(c) = n /\ To(c) = a THEN None ELSE p[n][a]]]
       /\ stores' = b
       /\ stage' = [c \in Conns |-> IF c \in gone THEN "none" ELSE s[c]]
       /\ wired' = [c \in Conns |-> IF c \in gone THEN "none" ELSE w[c]]
       /\ bsids' = [c \in Conns |-> IF c \in gone THEN {} ELSE bsids[c]]
       /\ answer' = [c \in Conns |->
                        IF c \in gone /\ answer[c] = "waiting" THEN "false" ELSE answer[c]]
       /\ UNCHANGED waiter

BecomeForgetting(p, s, w, b) ==
    LET gone == Unheld(p, s, b)
    IN /\ peers' = p
       /\ stores' = b
       /\ stage' = [c \in Conns |-> IF c \in gone THEN "none" ELSE s[c]]
       /\ wired' = [c \in Conns |-> IF c \in gone THEN "none" ELSE w[c]]
       /\ bsids' = [c \in Conns |-> IF c \in gone THEN {} ELSE bsids[c]]
       /\ UNCHANGED <<answer, waiter>>

\* The Peers become p, with their RPCAddPeer at s and their connections as in
\* w, and the stores become b.  A client that nobody holds is destroyed: it
\* disconnects, and a call that has no answer yet gets the default, false.
Become(p, s, w, b) ==
    LET gone == Unheld(p, s, b)
    IN /\ peers' = p
       /\ stores' = b
       /\ stage' = [c \in Conns |-> IF c \in gone THEN "none" ELSE s[c]]
       /\ wired' = [c \in Conns |-> IF c \in gone THEN "none" ELSE w[c]]
       /\ bsids' = [c \in Conns |-> IF c \in gone THEN {} ELSE bsids[c]]
       /\ answer' = [c \in Conns |->
                        IF c \in gone /\ answer[c] = "waiting" THEN "false" ELSE answer[c]]
       /\ UNCHANGED waiter
-------------------------------------------------------------------------------
(***************************************************************************)
(* RPCAddPeer(host, port), called by the user or by a peer.                *)
(***************************************************************************)
\* A name for a Peer that nothing refers to.
Free(c) ==
    /\ stage[c] = "none" /\ answer[c] = "none"
    /\ \A r \in UnderWay(net) : r.conn # c
    /\ \A d \in Conns : waiter[d] # c

\* The address is not in _peers: make a Peer.
NewPeer(n, a, who) ==
    \E k \in 1..scenario.parallel :
        LET c == <<n, a, k>>
        IN /\ Free(c)
           /\ \A j \in 1..(k - 1) : ~Free(<<n, a, j>>)
           /\ stage' = [stage EXCEPT ![c] = "absent"]
           /\ waiter' = [waiter EXCEPT ![c] = who]

\* addPeer: the user waits for the Future.
AddPeer(n, a) ==
    /\ <<n, a>> \in seeds /\ Alive(n) /\ phase[n] = "running"
    /\ seeds' = seeds \ {<<n, a>>}
    /\ IF peers[n][a] # None
       THEN UNCHANGED <<stage, waiter, calling>>
       ELSE NewPeer(n, a, User) /\ calling' = calling \union {<<n, a>>}
    /\ UNCHANGED <<lifeVars, crashed, peers, wired, answer, bsids, stores, net,
                   scenario, stops, puts, faults>>

\* A response reaches the client c, if it is still there.
Respond(c, v) ==
    IF answer[c] = "waiting" /\ wired[c] = "up" THEN [answer EXCEPT ![c] = v] ELSE answer

\* A worker begins to run RPCAddPeer for a request.  An address that is known
\* is answered at once.  (Only the answer to an "ask" is ever looked at.)
RPCAddPeer(req) ==
    LET n == To(req.conn)
        a == req.arg
    IN /\ Alive(n) /\ phase[n] # "created"
       /\ net' = Done(req)
       /\ IF peers[n][a] # None
          THEN /\ answer' = IF req.op = "ask" THEN Respond(req.conn, "true") ELSE answer
               /\ UNCHANGED <<stage, waiter>>
          ELSE /\ NewPeer(n, a, IF req.op = "ask" THEN req.conn ELSE None)
               /\ UNCHANGED answer
       /\ UNCHANGED <<lifeVars, crashed, peers, wired, bsids, stores, calling, budgets>>

\* _peers[addr] = peer, which replaces any other.
InsertPeer(c) ==
    /\ stage[c] = "absent"
    /\ Become([peers EXCEPT ![From(c)][To(c)] = c], [stage EXCEPT ![c] = "inserted"],
              wired, stores)
    /\ UNCHANGED <<lifeVars, crashed, net, calling, budgets>>

\* A mistake in it: the client does not ask.
ConnectSilent(c) ==
    /\ stage[c] = "inserted" /\ Listening(To(c))
    /\ stage' = [stage EXCEPT ![c] = "open"]
    /\ wired' = [wired EXCEPT ![c] = "up"]
    /\ answer' = [answer EXCEPT ![c] = "true"]
    /\ UNCHANGED <<lifeVars, crashed, peers, waiter, bsids, stores, net, calling, budgets>>

\* Peer::connect: the client is started, and asks to be connected back.
Connect(c) ==
    /\ stage[c] = "inserted" /\ Listening(To(c))
    /\ stage' = [stage EXCEPT ![c] = "open"]
    /\ wired' = [wired EXCEPT ![c] = "up"]
    /\ answer' = [answer EXCEPT ![c] = "waiting"]
    /\ net' = AddAll(net, {AskReq(c)})
    /\ UNCHANGED <<lifeVars, crashed, peers, waiter, bsids, stores, calling, budgets>>

\* If there is no connection, connect returns before it makes a client, and
\* setDisconnectCallback goes through the null pointer.
ConnectFails(c) ==
    /\ stage[c] = "inserted"
    /\ IF Listening(To(c)) THEN faults > 0 /\ faults' = faults - 1 ELSE UNCHANGED faults
    /\ Die(From(c), "connect")
    /\ UNCHANGED <<lifeVars, scenario, seeds, stops, puts>>

\* setDisconnectCallback
Hook(c) ==
    /\ stage[c] = "open"
    /\ stage' = [stage EXCEPT ![c] = "hooked"]
    /\ UNCHANGED <<lifeVars, crashed, peers, wired, waiter, answer, bsids, stores,
                   net, calling, budgets>>

\* A mistake in it: the comparison of the addresses is the wrong way round.
OthersNone(n, a) == PeersOf(n) \intersect {a}

Others(n, a) == PeersOf(n) \ {a}

\* The new peer is told of every other; then RPCAddPeer returns.
Introduce(c) ==
    LET reqs == {IntroduceReq(c, p) : p \in Others(From(c), To(c))}
    IN /\ stage[c] = "hooked"
       /\ net' = IF wired[c] = "up" THEN AddAll(net, reqs) ELSE net
       /\ Become(peers, [stage EXCEPT ![c] = "done"], wired, stores)
       /\ UNCHANGED <<lifeVars, crashed, calling, budgets>>

\* The Future that RPCAddPeer returned is set, which answers its caller.
Return(c) ==
    /\ answer[c] \in {"true", "false"} /\ stage[c] \in {"done", "none"}
    /\ LET w == waiter[c]
       IN /\ calling' = IF w = User THEN calling \ {<<From(c), To(c)>>} ELSE calling
          /\ answer' = [IF w \in Conns THEN Respond(w, answer[c]) ELSE answer
                          EXCEPT ![c] = "none"]
    /\ waiter' = [waiter EXCEPT ![c] = None]
    /\ UNCHANGED <<lifeVars, crashed, peers, stage, wired, bsids, stores, net, budgets>>
-------------------------------------------------------------------------------
(***************************************************************************)
(* Losing connections.                                                     *)
(***************************************************************************)
\* Mistakes in it: the peer's entry is not erased; every store is.
RemovePeerKeeps(n, a, w) ==
    Become(peers, stage, w,
           [stores EXCEPT ![n] = [b \in StoreIds |->
               IF b \in bsids[peers[n][a]] THEN None ELSE @[b]]])

RemovePeerAllStores(n, a, w) ==
    Become([peers EXCEPT ![n][a] = None], stage, w,
           [stores EXCEPT ![n] = [b \in StoreIds |-> None]])

\* RemovePeer erases the entry of the address, whichever Peer it holds, and
\* the stores that this Peer has registered.
RemovePeer(n, a, w) ==
    Become([peers EXCEPT ![n][a] = None], stage, w,
           [stores EXCEPT ![n] = [b \in StoreIds |->
               IF b \in bsids[peers[n][a]] THEN None ELSE @[b]]])

\* The connection of c fails, or its server is gone.  The callback, if it has
\* been set, runs RemovePeer, which dies if there is no entry.
ConnectionLost(c) ==
    LET n == From(c)
        a == To(c)
    IN /\ wired[c] = "up"
       /\ IF Listening(a) THEN faults > 0 /\ faults' = faults - 1 ELSE UNCHANGED faults
       /\ \/ /\ stage[c] = "open"
             /\ wired' = [wired EXCEPT ![c] = "missed"]
             /\ UNCHANGED <<peers, stage, waiter, answer, bsids, stores, net, calling, crashed>>
          \/ /\ stage[c] # "open" /\ peers[n][a] # None
             /\ RemovePeer(n, a, [wired EXCEPT ![c] = "down"])
             /\ UNCHANGED <<net, calling, crashed>>
          \/ /\ stage[c] # "open" /\ peers[n][a] = None
             /\ Die(n, "remove")
       /\ UNCHANGED <<lifeVars, scenario, seeds, stops, puts>>

RequestLost(req) ==
    /\ wired[req.conn] # "up" \/ ~Listening(To(req.conn))
    /\ net' = Done(req)
    /\ UNCHANGED <<lifeVars, crashed, peerVars, calling, budgets>>
-------------------------------------------------------------------------------
(***************************************************************************)
(* Block stores.                                                           *)
(***************************************************************************)
\* addBlockStore
AddBlockStore(n, b) ==
    /\ <<n, b>> \in scenario.local /\ Alive(n) /\ stores[n][b] # Local
    /\ Become(peers, stage, wired, [stores EXCEPT ![n][b] = Local])
    /\ UNCHANGED <<lifeVars, crashed, net, calling, budgets>>

\* "addBlockStore", called by any RPC client, is bound to the node's own
\* address: it succeeds only for a node that is its own peer.
RPCAddBlockStore(n, b) ==
    LET c == peers[n][n]
    IN /\ b \in scenario.remote /\ Alive(n) /\ phase[n] = "running"
       /\ c # None /\ stores[n][b] = None
       /\ bsids' = [bsids EXCEPT ![c] = @ \union {b}]
       /\ stores' = [stores EXCEPT ![n][b] = IF stage[c] = "inserted" THEN Null ELSE c]
       /\ UNCHANGED <<lifeVars, crashed, peers, stage, wired, waiter, answer,
                      net, calling, budgets>>

\* putBlock calls the two stores that the location functions return, NULL.
PutBlock(n) ==
    /\ n \in puts /\ Alive(n)
    /\ puts' = puts \ {n}
    /\ Die(n, "put")
    /\ UNCHANGED <<lifeVars, scenario, seeds, stops, faults>>
-------------------------------------------------------------------------------
Next ==
    \/ \E n \in Nodes : Start(n) \/ OnTimer(n) \/ StopBegin(n) \/ StopReturn(n) \/ PutBlock(n)
    \/ \E n, a \in Nodes : AddPeer(n, a)
    \/ \E req \in UnderWay(net) : RPCAddPeer(req) \/ RequestLost(req)
    \/ \E c \in Conns : InsertPeer(c) \/ Connect(c) \/ ConnectFails(c) \/ Hook(c)
                        \/ Introduce(c) \/ Return(c) \/ ConnectionLost(c)
    \/ \E n \in Nodes, b \in StoreIds : AddBlockStore(n, b) \/ RPCAddBlockStore(n, b)

Spec == Init /\ [][Next]_vars

\* What users, workers and sockets do of themselves: start nodes and make the
\* calls, run handlers and timers, and notice that a server is gone.
Work ==
    \/ \E n \in Nodes : Start(n) \/ OnTimer(n) \/ StopReturn(n)
    \/ \E n, a \in Nodes : AddPeer(n, a)
    \/ \E req \in UnderWay(net) : RPCAddPeer(req)
    \/ \E c \in Conns :
          \/ InsertPeer(c) \/ Connect(c) \/ Hook(c) \/ Introduce(c) \/ Return(c)
          \/ ~Listening(To(c)) /\ (ConnectFails(c) \/ ConnectionLost(c))

\* There is never work and nobody who does it.
Fairness == WF_vars(Work)

FairSpec == Spec /\ Fairness
-------------------------------------------------------------------------------
(***************************************************************************)
(* What holds.                                                             *)
(***************************************************************************)
\* Once stop() has returned, onTimer, which is bound to the node by a raw
\* pointer, neither runs nor is enqueued.
TimerEnds == \A n \in Nodes : phase[n] = "stopped" => timers[n] = 0

\* Every entry of _peers whose callback has been set holds a client whose
\* connection is up, or was lost before the callback was set: through Peers
\* that replace each other, and callbacks that erase another Peer's entry.
PeersConnected ==
    \A n, a \in Nodes :
        (peers[n][a] # None /\ stage[peers[n][a]] \in {"hooked", "done"})
            => wired[peers[n][a]] \in {"up", "missed"}

\* No node dies in RemovePeer while nobody stops or dies and at most one
\* connection fails: a Peer that has been replaced never runs its callback
\* when it is destroyed.
OneLossSurvived ==
    ((\A n \in Nodes : HasServer(n) /\ crashed[n] \in {None, "remove"})
        /\ faults + 1 >= scenario.faults)
            => \A n \in Nodes : crashed[n] # "remove"

\* Nothing fails, nobody is stopped, and whoever is called for is there.
Calm ==
    /\ scenario.faults = 0 /\ scenario.stops = {} /\ scenario.puts = {}
    /\ scenario.seeds \subseteq scenario.nodes \X scenario.nodes

\* a has b among its peers, or is bound to.
Knows(a, b) ==
    \/ peers[a][b] # None
    \/ \E c \in Conns : From(c) = a /\ To(c) = b /\ stage[c] = "absent"
    \/ \E r \in UnderWay(net) : To(r.conn) = a /\ r.arg = b

\* While nothing fails, any two peers of a node have been introduced by the
\* time RPCAddPeer has returned for both, although no lock is taken: each is
\* inserted before the others are looked up.
Introduced ==
    Calm => \A n \in Nodes : \A a, b \in PeersOf(n) :
        (a # b /\ stage[peers[n][a]] = "done" /\ stage[peers[n][b]] = "done")
            => Knows(a, b) \/ Knows(b, a)

\* A local store never leaves _blockstores, unless a Peer has registered the
\* same id: RemovePeer erases stores by their id.
LocalStoresStay ==
    [][\A n \in Nodes, b \in StoreIds :
        (stores[n][b] = Local /\ crashed'[n] = None)
            => stores'[n][b] = Local \/ b \in scenario.remote]_vars

\* blockstore_daemon.cc: "Our timer will stop firing after _rpc_server is
\* reset": stop() returns if the node was started.
StopReturns ==
    <>[](\A n \in Nodes : phase[n] = "stopping" => ~Alive(n))

\* Two nodes that add each other do not wait for each other for ever: the
\* Future of every addPeer is set, also when the connections that its answer
\* depends on are lost, unless one is lost before its callback is set.
AddPeerReturns ==
    <>[](calling = {} \/ \E c \in Conns : wired[c] = "missed")

\* blockstore_daemon.h: "this need be done for only a single node on the
\* current network.  Peer discovery will then kick in to find all other
\* nodes."
MeshForms ==
    <>[](Calm => \A n, a \in scenario.nodes : n # a => peers[n][a] # None)
-------------------------------------------------------------------------------
(***************************************************************************)
(* What the comments say and the code does not do.                         *)
(***************************************************************************)
\* blockstore_daemon.h: "If not, false is returned and the Peer is forgotten":
\* a connection that cannot be made leaves no entry, and the node running.
UnreachableIsForgotten ==
    [][\A c \in Conns : ConnectFails(c) =>
        /\ crashed'[From(c)] = None
        /\ peers'[From(c)][To(c)] # c]_vars
===============================================================================
