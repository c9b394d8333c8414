------------------------- MODULE BlockStoreNodeProofs --------------------------
(***************************************************************************)
(* Proofs about BlockStoreNode, for any nodes, stores and scenarios.       *)
(***************************************************************************)
EXTENDS BlockStoreNode, TLAPS

(***************************************************************************)
(* The timer.                                                              *)
(***************************************************************************)
\* The timer is enqueued from start() until it finds the server gone, when it
\* signals _stopped; only then can stop() return.
TimerInv ==
    /\ phase \in [Nodes -> Phases]
    /\ timers \in [Nodes -> 0..1]
    /\ \A n \in Nodes :
          /\ phase[n] \in {"created", "early"} => timers[n] = 0 /\ n \notin signalled
          /\ phase[n] = "running" => n \notin signalled
          /\ n \in signalled => timers[n] = 0
          /\ phase[n] = "stopped" => n \in signalled

\* Everything but start(), the timer and stop() leaves their variables alone.
LEMMA OtherSteps ==
    ASSUME [Next]_vars
    PROVE  \/ \E n \in Nodes : Start(n) \/ OnTimer(n) \/ StopBegin(n) \/ StopReturn(n)
           \/ UNCHANGED lifeVars
<1>1. ASSUME NEW n \in Nodes, PutBlock(n) PROVE UNCHANGED lifeVars
  BY Zenon, <1>1 DEF PutBlock
<1>2. ASSUME NEW n \in Nodes, NEW a \in Nodes, AddPeer(n, a) PROVE UNCHANGED lifeVars
  BY Zenon, <1>2 DEF AddPeer
<1>3. ASSUME NEW req, RPCAddPeer(req) \/ RequestLost(req) PROVE UNCHANGED lifeVars
  BY Zenon, <1>3 DEF RPCAddPeer, RequestLost
<1>4. ASSUME NEW c \in Conns, InsertPeer(c) \/ Connect(c) \/ ConnectFails(c) PROVE UNCHANGED lifeVars
  BY Zenon, <1>4 DEF InsertPeer, Connect, ConnectFails
<1>5. ASSUME NEW c \in Conns, Hook(c) \/ Introduce(c) \/ Return(c) \/ ConnectionLost(c)
      PROVE  UNCHANGED lifeVars
  BY Zenon, <1>5 DEF Hook, Introduce, Return, ConnectionLost
<1>6. ASSUME NEW n \in Nodes, NEW b \in StoreIds, AddBlockStore(n, b) \/ RPCAddBlockStore(n, b)
      PROVE  UNCHANGED lifeVars
  BY Zenon, <1>6 DEF AddBlockStore, RPCAddBlockStore
<1>7. CASE UNCHANGED vars
  BY Zenon, <1>7 DEF vars
<1>. QED  BY Zenon, <1>1, <1>2, <1>3, <1>4, <1>5, <1>6, <1>7 DEF Next

\* The timer's invariant is inductive.
LEMMA TimerStep == TimerInv /\ [Next]_vars => TimerInv'
<1>. SUFFICES ASSUME TimerInv, [Next]_vars PROVE TimerInv'
  BY Zenon
<1>. USE DEF TimerInv, Phases
<1>1. ASSUME NEW n \in Nodes, Start(n) PROVE TimerInv'
  BY <1>1 DEF Start
<1>2. ASSUME NEW n \in Nodes, OnTimer(n) PROVE TimerInv'
  BY <1>2 DEF OnTimer, HasServer
<1>3. ASSUME NEW n \in Nodes, StopBegin(n) PROVE TimerInv'
  BY Zenon, <1>3 DEF StopBegin, HasServer
<1>4. ASSUME NEW n \in Nodes, StopReturn(n) PROVE TimerInv'
  BY Zenon, <1>4 DEF StopReturn
<1>5. CASE UNCHANGED lifeVars
  BY Zenon, <1>5 DEF lifeVars
<1>. QED  BY Zenon, <1>1, <1>2, <1>3, <1>4, <1>5, OtherSteps

\* However many nodes there are and whatever they do, no timer of a node is
\* enqueued once its stop() has returned and it may be destroyed.
THEOREM TimerAlwaysEnds == Spec => []TimerEnds
<1>1. Init => TimerInv
  BY DEF Init, TimerInv, Phases
<1>2. TimerInv => TimerEnds
  BY Zenon DEF TimerInv, TimerEnds
<1>. QED  BY <1>1, <1>2, TimerStep, PTL DEF Spec

(***************************************************************************)
(* Peers and their connections.                                            *)
(***************************************************************************)
PeersType  == [Nodes -> [Nodes -> Conns \union {None}]]
StagesType == [Conns -> Stages]
WiresType  == [Conns -> Wires]
StoresType == [Nodes -> [StoreIds -> Conns \union {None, Local, Null}]]

PeerTypes ==
    /\ peers \in PeersType /\ stage \in StagesType /\ wired \in WiresType
    /\ stores \in StoresType
    /\ crashed \in [Nodes -> {None, "connect", "remove", "put"}]
    /\ bsids \in [Conns -> SUBSET scenario.remote]
    /\ scenario \in Scenario

\* The Peer that an entry holds is one that was made for that address and put
\* there; its client, if it has one, is connected or was lost unnoticed.
EntryOk(p, s, w, n, a) ==
    p[n][a] # None =>
        /\ From(p[n][a]) = n /\ To(p[n][a]) = a
        /\ s[p[n][a]] \in {"inserted", "open", "hooked", "done"}
        /\ s[p[n][a]] # "inserted" => w[p[n][a]] \in {"up", "missed"}

EntriesOk == \A n, a \in Nodes : EntryOk(peers, stage, wired, n, a)

\* The ends of a connection are nodes.
LEMMA Ends == \A c \in Conns : From(c) \in Nodes /\ To(c) \in Nodes
  BY Zenon DEF Conns, From, To

\* Destroying the clients that nobody holds concerns no entry.
LEMMA BecomeFacts ==
    ASSUME PeerTypes, NEW p \in PeersType, NEW s \in StagesType, NEW w \in WiresType,
           NEW b \in StoresType, Become(p, s, w, b),
           \A n, a \in Nodes : EntryOk(p, s, w, n, a)
    PROVE  /\ peers' \in PeersType /\ stage' \in StagesType /\ wired' \in WiresType
           /\ stores' = b
           /\ \A c \in Conns : bsids'[c] \subseteq bsids[c]
           /\ bsids' = [c \in Conns |-> bsids'[c]]
           /\ EntriesOk'
<1>. DEFINE gone == Unheld(p, s, b)
<1>1. /\ peers' = p /\ stores' = b
      /\ stage' = [c \in Conns |-> IF c \in gone THEN "none" ELSE s[c]]
      /\ wired' = [c \in Conns |-> IF c \in gone THEN "none" ELSE w[c]]
      /\ bsids' = [c \in Conns |-> IF c \in gone THEN {} ELSE bsids[c]]
  BY Zenon DEF Become
<1>2. \A n, a \in Nodes : p[n][a] # None =>
          /\ p[n][a] \in Conns
          /\ p[n][a] \notin gone
  <2>. SUFFICES ASSUME NEW n \in Nodes, NEW a \in Nodes, p[n][a] # None
                PROVE  p[n][a] \in Conns /\ p[n][a] \notin gone
    BY Zenon
  <2>1. p[n][a] \in Conns
    BY Zenon DEF PeersType
  <2>2. From(p[n][a]) = n /\ To(p[n][a]) = a
    BY Zenon DEF EntryOk
  <2>. QED  BY Zenon, <2>1, <2>2 DEF Unheld
<1>. HIDE DEF gone
<1>3. stage' \in StagesType
  BY Zenon, <1>1 DEF StagesType, Stages
<1>4. wired' \in WiresType
  BY Zenon, <1>1 DEF WiresType, Wires
<1>5. \A n, a \in Nodes : p[n][a] # None => stage'[p[n][a]] = s[p[n][a]] /\ wired'[p[n][a]] = w[p[n][a]]
  BY Zenon, <1>1, <1>2
<1>6. EntriesOk'
  BY <1>1, <1>5 DEF EntriesOk, EntryOk
<1>7. \A c \in Conns : bsids'[c] \subseteq bsids[c]
  BY Zenon, <1>1
<1>. QED  BY Zenon, <1>1, <1>3, <1>4, <1>6, <1>7

\* A process that dies takes its entries along.
LEMMA DieFacts ==
    ASSUME PeerTypes, EntriesOk, NEW n \in Nodes, NEW why \in {"connect", "remove", "put"},
           Die(n, why)
    PROVE  /\ peers' \in PeersType /\ stage' \in StagesType /\ wired' \in WiresType
           /\ stores' \in StoresType
           /\ crashed' \in [Nodes -> {None, "connect", "remove", "put"}]
           /\ crashed'[n] # None
           /\ \A m \in Nodes \ {n} : stores'[m] = stores[m]
           /\ \A c \in Conns : bsids'[c] \subseteq bsids[c]
           /\ bsids' = [c \in Conns |-> bsids'[c]]
           /\ EntriesOk'
<1>1. /\ crashed' = [crashed EXCEPT ![n] = why]
      /\ peers' = [peers EXCEPT ![n] = [a \in Nodes |-> None]]
      /\ stores' = [stores EXCEPT ![n] = [b \in StoreIds |-> None]]
      /\ stage' = [c \in Conns |-> IF From(c) = n THEN "none" ELSE stage[c]]
      /\ wired' = [c \in Conns |-> IF From(c) = n THEN "none" ELSE wired[c]]
      /\ bsids' = [c \in Conns |-> IF From(c) = n THEN {} ELSE bsids[c]]
  BY Zenon DEF Die
<1>2. peers' \in PeersType
  BY Zenon, <1>1 DEF PeerTypes, PeersType
<1>3. stage' \in StagesType
  BY Zenon, <1>1 DEF PeerTypes, StagesType, Stages
<1>4. wired' \in WiresType
  BY Zenon, <1>1 DEF PeerTypes, WiresType, Wires
<1>5. stores' \in StoresType
  BY Zenon, <1>1 DEF PeerTypes, StoresType
<1>6. /\ crashed' \in [Nodes -> {None, "connect", "remove", "put"}]
      /\ crashed'[n] # None
  BY Zenon, <1>1, NodeAssumption DEF PeerTypes
<1>7. \A m \in Nodes \ {n} : stores'[m] = stores[m]
  BY Zenon, <1>1 DEF PeerTypes, StoresType
<1>8. \A c \in Conns : bsids'[c] \subseteq bsids[c]
  BY Zenon, <1>1
<1>9. EntriesOk'
  <2>. SUFFICES ASSUME NEW m \in Nodes, NEW a \in Nodes, peers'[m][a] # None
                PROVE  /\ From(peers'[m][a]) = m /\ To(peers'[m][a]) = a
                       /\ stage'[peers'[m][a]] \in {"inserted", "open", "hooked", "done"}
                       /\ stage'[peers'[m][a]] # "inserted" =>
                             wired'[peers'[m][a]] \in {"up", "missed"}
    BY Zenon DEF EntriesOk, EntryOk
  <2>1. m # n /\ peers'[m][a] = peers[m][a]
    BY Zenon, <1>1 DEF PeerTypes, PeersType
  <2>2. peers[m][a] \in Conns /\ EntryOk(peers, stage, wired, m, a)
    BY <2>1 DEF PeerTypes, PeersType, EntriesOk
  <2>3. From(peers[m][a]) # n
    BY Zenon, <2>1, <2>2 DEF EntryOk
  <2>. QED  BY SMTT(30), <1>1, <2>1, <2>2, <2>3 DEF EntryOk
<1>. QED  BY SMTT(30), <1>1, <1>2, <1>3, <1>4, <1>5, <1>6, <1>7, <1>8, <1>9

PeerInv == PeerTypes /\ EntriesOk

\* A step keeps the local stores of the nodes that live, but for those whose
\* ids Peers may register.
StoresStep ==
    \A n \in Nodes, b \in StoreIds :
        (stores[n][b] = Local /\ crashed'[n] = None)
            => stores'[n][b] = Local \/ b \in scenario.remote

PeerStep == PeerInv' /\ StoresStep

\* What is left to show of a step that goes through Become.
LEMMA ByBecoming ==
    ASSUME PeerInv, NEW p \in PeersType, NEW s \in StagesType, NEW w \in WiresType,
           NEW b \in StoresType, Become(p, s, w, b),
           \A n, a \in Nodes : EntryOk(p, s, w, n, a),
           \A n \in Nodes, i \in StoreIds :
              stores[n][i] = Local => b[n][i] = Local \/ i \in scenario.remote,
           crashed' = crashed, scenario' = scenario
    PROVE  PeerStep
<1>1. PeerTypes /\ EntriesOk
  BY Zenon DEF PeerInv
<1>2. /\ peers' \in PeersType /\ stage' \in StagesType /\ wired' \in WiresType
      /\ stores' = b
      /\ \A c \in Conns : bsids'[c] \subseteq bsids[c]
      /\ bsids' = [c \in Conns |-> bsids'[c]]
      /\ EntriesOk'
  BY Zenon, <1>1, BecomeFacts
<1>3. bsids' \in [Conns -> SUBSET scenario'.remote]
  BY Zenon, <1>1, <1>2 DEF PeerTypes
<1>4. PeerTypes'
  BY Zenon, <1>1, <1>2, <1>3 DEF PeerTypes
<1>5. StoresStep
  BY Zenon, <1>2 DEF StoresStep
<1>. QED  BY Zenon, <1>2, <1>4, <1>5 DEF PeerStep, PeerInv

\* What is left to show of a step in which a process dies.
LEMMA ByDying ==
    ASSUME PeerInv, NEW n \in Nodes, NEW why \in {"connect", "remove", "put"}, Die(n, why),
           scenario' = scenario
    PROVE  PeerStep
<1>1. PeerTypes /\ EntriesOk
  BY Zenon DEF PeerInv
<1>2. /\ peers' \in PeersType /\ stage' \in StagesType /\ wired' \in WiresType
      /\ stores' \in StoresType
      /\ crashed' \in [Nodes -> {None, "connect", "remove", "put"}]
      /\ crashed'[n] # None
      /\ \A m \in Nodes \ {n} : stores'[m] = stores[m]
      /\ \A c \in Conns : bsids'[c] \subseteq bsids[c]
      /\ bsids' = [c \in Conns |-> bsids'[c]]
      /\ EntriesOk'
  BY Zenon, <1>1, DieFacts
<1>3. bsids' \in [Conns -> SUBSET scenario'.remote]
  BY Zenon, <1>1, <1>2 DEF PeerTypes
<1>4. PeerTypes'
  BY Zenon, <1>1, <1>2, <1>3 DEF PeerTypes
<1>5. StoresStep
  BY Zenon, <1>2 DEF StoresStep
<1>. QED  BY Zenon, <1>2, <1>4, <1>5 DEF PeerStep, PeerInv

\* What is left to show of a step that changes stages and connections only.
LEMMA ByMoving ==
    ASSUME PeerInv, stage' \in StagesType, wired' \in WiresType,
           \A n, a \in Nodes : EntryOk(peers, stage', wired', n, a),
           UNCHANGED <<peers, stores, crashed, bsids, scenario>>
    PROVE  PeerStep
<1>1. PeerTypes'
  BY Zenon DEF PeerTypes, PeerInv
<1>2. EntriesOk'
  BY Zenon DEF EntriesOk, EntryOk
<1>3. StoresStep
  BY Zenon DEF StoresStep
<1>. QED  BY Zenon, <1>1, <1>2, <1>3 DEF PeerStep, PeerInv

\* A Peer that an entry holds is a connection, and not a free name.
LEMMA EntryFacts ==
    ASSUME PeerInv, NEW n \in Nodes, NEW a \in Nodes, peers[n][a] # None
    PROVE  /\ peers[n][a] \in Conns
           /\ From(peers[n][a]) = n /\ To(peers[n][a]) = a
           /\ stage[peers[n][a]] \in {"inserted", "open", "hooked", "done"}
           /\ stage[peers[n][a]] # "inserted" => wired[peers[n][a]] \in {"up", "missed"}
  BY DEF PeerInv, PeerTypes, PeersType, EntriesOk, EntryOk

LEMMA NewPeerStep ==
    ASSUME PeerInv, NEW n, NEW a, NEW who, NewPeer(n, a, who),
           UNCHANGED <<peers, wired, stores, crashed, bsids, scenario>>
    PROVE  PeerStep
<1>1. PICK c : stage[c] = "none" /\ stage' = [stage EXCEPT ![c] = "absent"]
  BY Zenon DEF NewPeer, Free
<1>2. stage' \in StagesType /\ wired' \in WiresType
  BY Zenon, <1>1 DEF PeerInv, PeerTypes, StagesType, Stages
<1>3. ASSUME NEW m \in Nodes, NEW b \in Nodes, peers[m][b] # None
      PROVE  stage'[peers[m][b]] = stage[peers[m][b]]
  BY Zenon, <1>1, <1>3, EntryFacts DEF PeerInv, PeerTypes, StagesType
<1>4. \A m, b \in Nodes : EntryOk(peers, stage', wired', m, b)
  BY <1>3, EntryFacts DEF EntryOk
<1>. QED  BY Zenon, <1>2, <1>4, ByMoving

LEMMA InsertStep ==
    ASSUME PeerInv, NEW c \in Conns, InsertPeer(c)
    PROVE  PeerStep
<1>. DEFINE p == [peers EXCEPT ![From(c)][To(c)] = c]
            s == [stage EXCEPT ![c] = "inserted"]
<1>1. /\ stage[c] = "absent" /\ Become(p, s, wired, stores)
      /\ crashed' = crashed /\ scenario' = scenario
  BY Zenon DEF InsertPeer, budgets
<1>2. From(c) \in Nodes /\ To(c) \in Nodes
  BY Zenon, Ends
<1>3. p \in PeersType
  BY Zenon, <1>2 DEF PeerInv, PeerTypes, PeersType
<1>4. s \in StagesType
  BY Zenon DEF PeerInv, PeerTypes, StagesType, Stages
<1>5. wired \in WiresType /\ stores \in StoresType
  BY Zenon DEF PeerInv, PeerTypes
<1>6. ASSUME NEW n \in Nodes, NEW a \in Nodes PROVE EntryOk(p, s, wired, n, a)
  <2>1. CASE n = From(c) /\ a = To(c)
    <3>1. p[n][a] = c /\ s[c] = "inserted"
      BY Zenon, <1>2, <2>1 DEF PeerInv, PeerTypes, PeersType, StagesType
    <3>. QED  BY Zenon, <2>1, <3>1 DEF EntryOk
  <2>2. CASE ~(n = From(c) /\ a = To(c))
    <3>1. p[n][a] = peers[n][a]
      BY Zenon, <1>2, <2>2 DEF PeerInv, PeerTypes, PeersType
    <3>2. peers[n][a] # None => s[peers[n][a]] = stage[peers[n][a]]
      BY <2>2, EntryFacts DEF PeerInv, PeerTypes, StagesType
    <3>. HIDE DEF p, s
    <3>. QED  BY <3>1, <3>2, EntryFacts DEF EntryOk
  <2>. QED  BY Zenon, <2>1, <2>2
<1>. HIDE DEF p, s
<1>. QED  BY SMTT(30), <1>1, <1>3, <1>4, <1>5, <1>6, ByBecoming

LEMMA ConnectStep ==
    ASSUME PeerInv, NEW c \in Conns, Connect(c) \/ Hook(c)
    PROVE  PeerStep
<1>1. /\ stage[c] \in {"inserted", "open"} /\ stage[c] = "open" => wired' = wired
      /\ \E t \in {"open", "hooked"} : stage' = [stage EXCEPT ![c] = t]
      /\ wired' = wired \/ wired' = [wired EXCEPT ![c] = "up"]
      /\ stage[c] = "inserted" => wired' = [wired EXCEPT ![c] = "up"]
      /\ UNCHANGED <<peers, stores, crashed, bsids, scenario>>
  BY Zenon DEF Connect, Hook, budgets
<1>2. stage' \in StagesType /\ wired' \in WiresType
  BY <1>1 DEF PeerInv, PeerTypes, StagesType, Stages, WiresType, Wires
<1>3. ASSUME NEW n \in Nodes, NEW a \in Nodes PROVE EntryOk(peers, stage', wired', n, a)
  <2>1. CASE peers[n][a] = c
    BY Zenon, <1>1, <2>1, EntryFacts DEF PeerInv, PeerTypes, StagesType, WiresType, EntryOk
  <2>2. CASE peers[n][a] # c
    <3>. SUFFICES ASSUME peers[n][a] # None PROVE EntryOk(peers, stage', wired', n, a)
      BY Zenon DEF EntryOk
    <3>1. /\ stage'[peers[n][a]] = stage[peers[n][a]]
          /\ wired'[peers[n][a]] = wired[peers[n][a]]
      BY Zenon, <1>1, <2>2, EntryFacts DEF PeerInv, PeerTypes, StagesType, WiresType
    <3>. QED  BY Zenon, <3>1, EntryFacts DEF EntryOk
  <2>. QED  BY Zenon, <2>1, <2>2
<1>. QED  BY Zenon, <1>1, <1>2, <1>3, ByMoving

LEMMA IntroduceStep ==
    ASSUME PeerInv, NEW c \in Conns, Introduce(c)
    PROVE  PeerStep
<1>. DEFINE s == [stage EXCEPT ![c] = "done"]
<1>1. /\ stage[c] = "hooked" /\ Become(peers, s, wired, stores)
      /\ crashed' = crashed /\ scenario' = scenario
  BY Zenon DEF Introduce, budgets
<1>2. s \in StagesType
  BY Zenon DEF PeerInv, PeerTypes, StagesType, Stages
<1>3. peers \in PeersType /\ wired \in WiresType /\ stores \in StoresType
  BY Zenon DEF PeerInv, PeerTypes
<1>4. ASSUME NEW n \in Nodes, NEW a \in Nodes PROVE EntryOk(peers, s, wired, n, a)
  <2>. SUFFICES ASSUME peers[n][a] # None PROVE EntryOk(peers, s, wired, n, a)
    BY Zenon DEF EntryOk
  <2>1. s[peers[n][a]] = IF peers[n][a] = c THEN "done" ELSE stage[peers[n][a]]
    BY Zenon, EntryFacts DEF PeerInv, PeerTypes, StagesType
  <2>. HIDE DEF s
  <2>. QED  BY Zenon, <1>1, <2>1, EntryFacts DEF EntryOk
<1>. HIDE DEF s
<1>. QED  BY Zenon, <1>1, <1>2, <1>3, <1>4, ByBecoming

LEMMA LostStep ==
    ASSUME PeerInv, NEW c \in Conns, ConnectionLost(c)
    PROVE  PeerStep
<1>. DEFINE n == From(c)
            a == To(c)
<1>1. n \in Nodes /\ a \in Nodes /\ scenario' = scenario
  BY Zenon, Ends DEF ConnectionLost
<1>2. CASE /\ stage[c] = "open" /\ wired' = [wired EXCEPT ![c] = "missed"]
           /\ UNCHANGED <<peers, stage, stores, crashed, bsids>>
  <2>1. stage' \in StagesType /\ wired' \in WiresType
    BY Zenon, <1>2 DEF PeerInv, PeerTypes, WiresType, Wires
  <2>2. ASSUME NEW m \in Nodes, NEW b \in Nodes PROVE EntryOk(peers, stage', wired', m, b)
    <3>. SUFFICES ASSUME peers[m][b] # None PROVE EntryOk(peers, stage', wired', m, b)
      BY Zenon DEF EntryOk
    <3>1. wired'[peers[m][b]] = IF peers[m][b] = c THEN "missed" ELSE wired[peers[m][b]]
      BY Zenon, <1>2, EntryFacts DEF PeerInv, PeerTypes, WiresType
    <3>. QED  BY Zenon, <1>2, <3>1, EntryFacts DEF EntryOk
  <2>. QED  BY Zenon, <1>1, <1>2, <2>1, <2>2, ByMoving
<1>3. CASE /\ peers[n][a] # None /\ crashed' = crashed
           /\ RemovePeer(n, a, [wired EXCEPT ![c] = "down"])
  <2>. DEFINE p == [peers EXCEPT ![n][a] = None]
              w == [wired EXCEPT ![c] = "down"]
              b == [stores EXCEPT ![n] = [i \in StoreIds |->
                       IF i \in bsids[peers[n][a]] THEN None ELSE @[i]]]
  <2>1. Become(p, stage, w, b)
    BY Zenon, <1>3 DEF RemovePeer
  <2>2. p \in PeersType
    BY Zenon, <1>1 DEF PeerInv, PeerTypes, PeersType
  <2>3. stage \in StagesType
    BY Zenon DEF PeerInv, PeerTypes
  <2>4. w \in WiresType
    BY Zenon DEF PeerInv, PeerTypes, WiresType, Wires
  <2>5. b \in StoresType
    BY Zenon, <1>1 DEF PeerInv, PeerTypes, StoresType
  <2>6. ASSUME NEW m \in Nodes, NEW d \in Nodes PROVE EntryOk(p, stage, w, m, d)
    <3>1. CASE m = n /\ d = a
      <4>1. p[m][d] = None
        BY Zenon, <1>1, <3>1 DEF PeerInv, PeerTypes, PeersType
      <4>. QED  BY Zenon, <4>1 DEF EntryOk
    <3>2. CASE ~(m = n /\ d = a)
      <4>1. p[m][d] = peers[m][d]
        BY Zenon, <1>1, <3>2 DEF PeerInv, PeerTypes, PeersType
      <4>2. peers[m][d] # None => w[peers[m][d]] = wired[peers[m][d]]
        BY <3>2, EntryFacts DEF PeerInv, PeerTypes, WiresType
      <4>. HIDE DEF p, w
      <4>. QED  BY <4>1, <4>2, EntryFacts DEF EntryOk
    <3>. QED  BY Zenon, <3>1, <3>2
  <2>7. bsids[peers[n][a]] \subseteq scenario.remote
    BY Zenon, <1>1, <1>3, EntryFacts DEF PeerInv, PeerTypes
  <2>8. \A m \in Nodes, i \in StoreIds :
           stores[m][i] = Local => b[m][i] = Local \/ i \in scenario.remote
    BY Zenon, <1>1, <2>7 DEF PeerInv, PeerTypes, StoresType
  <2>. HIDE DEF p, w, b
  <2>. QED  BY SMTT(30), <1>1, <1>3, <2>1, <2>2, <2>3, <2>4, <2>5, <2>6, <2>8, ByBecoming
<1>4. CASE Die(n, "remove")
  BY Zenon, <1>1, <1>4, ByDying
<1>. QED  BY Zenon, <1>2, <1>3, <1>4 DEF ConnectionLost

LEMMA StoreSteps ==
    ASSUME PeerInv, NEW n \in Nodes, NEW b \in StoreIds,
           AddBlockStore(n, b) \/ RPCAddBlockStore(n, b)
    PROVE  PeerStep
<1>1. CASE AddBlockStore(n, b)
  <2>. DEFINE t == [stores EXCEPT ![n][b] = Local]
  <2>1. Become(peers, stage, wired, t) /\ crashed' = crashed /\ scenario' = scenario
    BY Zenon, <1>1 DEF AddBlockStore, budgets
  <2>2. t \in StoresType
    BY Zenon DEF PeerInv, PeerTypes, StoresType
  <2>3. peers \in PeersType /\ stage \in StagesType /\ wired \in WiresType
    BY Zenon DEF PeerInv, PeerTypes
  <2>4. \A m, a \in Nodes : EntryOk(peers, stage, wired, m, a)
    BY Zenon DEF PeerInv, EntriesOk
  <2>5. \A m \in Nodes, i \in StoreIds :
           stores[m][i] = Local => t[m][i] = Local \/ i \in scenario.remote
    BY Zenon DEF PeerInv, PeerTypes, StoresType
  <2>. HIDE DEF t
  <2>. QED  BY Zenon, <2>1, <2>2, <2>3, <2>4, <2>5, ByBecoming
<1>2. CASE RPCAddBlockStore(n, b)
  <2>1. /\ b \in scenario.remote /\ peers[n][n] # None /\ stores[n][b] = None
        /\ bsids' = [bsids EXCEPT ![peers[n][n]] = @ \union {b}]
        /\ stores' = [stores EXCEPT ![n][b] =
                         IF stage[peers[n][n]] = "inserted" THEN Null ELSE peers[n][n]]
        /\ UNCHANGED <<peers, stage, wired, crashed, scenario>>
    BY Zenon, <1>2 DEF RPCAddBlockStore, budgets
  <2>2. peers[n][n] \in Conns
    BY Zenon, <2>1, EntryFacts
  <2>3. bsids' \in [Conns -> SUBSET scenario'.remote]
    BY Zenon, <2>1, <2>2 DEF PeerInv, PeerTypes
  <2>4. stores' \in StoresType
    BY Zenon, <2>1, <2>2 DEF PeerInv, PeerTypes, StoresType
  <2>5. PeerTypes'
    BY Zenon, <2>1, <2>3, <2>4 DEF PeerInv, PeerTypes
  <2>6. EntriesOk'
    BY Zenon, <2>1 DEF PeerInv, EntriesOk, EntryOk
  <2>7. StoresStep
    BY Zenon, <2>1 DEF PeerInv, PeerTypes, StoresType, StoresStep
  <2>. QED  BY Zenon, <2>5, <2>6, <2>7 DEF PeerStep, PeerInv
<1>. QED  BY Zenon, <1>1, <1>2

\* The invariant is inductive, and every step keeps the local stores.
LEMMA PeersStep == PeerInv /\ [Next]_vars => PeerStep
<1>. SUFFICES ASSUME PeerInv, [Next]_vars PROVE PeerStep
  BY Zenon
<1>1. ASSUME UNCHANGED <<peers, stage, wired, stores, crashed, bsids, scenario>> PROVE PeerStep
  <2>1. stage' \in StagesType /\ wired' \in WiresType
    BY Zenon, <1>1 DEF PeerInv, PeerTypes
  <2>2. \A n, a \in Nodes : EntryOk(peers, stage', wired', n, a)
    BY Zenon, <1>1 DEF PeerInv, EntriesOk
  <2>. QED  BY Zenon, <1>1, <2>1, <2>2, ByMoving
<1>2. ASSUME NEW n \in Nodes, Start(n) \/ OnTimer(n) \/ StopBegin(n) \/ StopReturn(n)
      PROVE  PeerStep
  BY Zenon, <1>1, <1>2 DEF Start, OnTimer, StopBegin, StopReturn, peerVars, budgets
<1>3. ASSUME NEW n \in Nodes, PutBlock(n) PROVE PeerStep
  BY SMTT(30), <1>3, ByDying DEF PutBlock
<1>4. ASSUME NEW n \in Nodes, NEW a \in Nodes, AddPeer(n, a) PROVE PeerStep
  BY Zenon, <1>1, <1>4, NewPeerStep DEF AddPeer
<1>5. ASSUME NEW req, RPCAddPeer(req) PROVE PeerStep
  <2>1. UNCHANGED <<peers, wired, stores, crashed, bsids, scenario>>
    BY Zenon, <1>5 DEF RPCAddPeer, budgets
  <2>2. UNCHANGED stage \/ \E n, a, who : NewPeer(n, a, who)
    BY Zenon, <1>5 DEF RPCAddPeer
  <2>. QED  BY Zenon, <1>1, <2>1, <2>2, NewPeerStep
<1>6. ASSUME NEW req, RequestLost(req) PROVE PeerStep
  BY Zenon, <1>1, <1>6 DEF RequestLost, peerVars, budgets
<1>7. ASSUME NEW c \in Conns, ConnectFails(c) PROVE PeerStep
  BY Zenon, <1>7, Ends, ByDying DEF ConnectFails
<1>8. ASSUME NEW c \in Conns, Return(c) PROVE PeerStep
  BY Zenon, <1>1, <1>8 DEF Return, budgets
<1>9. CASE UNCHANGED vars
  BY Zenon, <1>1, <1>9 DEF vars, peerVars, budgets
<1>. QED  BY SMTT(30), <1>2, <1>3, <1>4, <1>5, <1>6, <1>7, <1>8, <1>9, InsertStep, ConnectStep,
             IntroduceStep, LostStep, StoreSteps DEF Next

LEMMA PeersInductive == Spec => []PeerInv
<1>1. Init => PeerInv
  <2>. SUFFICES ASSUME Init PROVE PeerInv
    BY Zenon
  <2>1. PeerTypes
    BY Zenon, NodeAssumption
       DEF Init, PeerTypes, PeersType, StagesType, Stages, WiresType, Wires, StoresType
  <2>2. EntriesOk
    BY Zenon DEF Init, EntriesOk, EntryOk
  <2>. QED  BY Zenon, <2>1, <2>2 DEF PeerInv
<1>2. PeerInv /\ [Next]_vars => PeerInv'
  BY Zenon, PeersStep DEF PeerStep
<1>. QED  BY <1>1, <1>2, PTL DEF Spec

\* However many nodes there are, however many Peers a node makes for one
\* address at a time and whichever connections fail, no entry of _peers whose
\* callback has been set holds a client that lost its connection afterwards.
THEOREM PeersAlwaysConnected == Spec => []PeersConnected
<1>1. PeerInv => PeersConnected
  BY Zenon, EntryFacts DEF PeersConnected
<1>. QED  BY <1>1, PeersInductive, PTL

\* RemovePeer never erases a local store that is known by an id that no Peer
\* registers, whatever else happens.
THEOREM LocalStoresAlwaysStay == Spec => LocalStoresStay
<1>1. PeerInv /\ [Next]_vars => StoresStep
  BY SMTT(30), PeersStep DEF PeerStep
<1>2. StoresStep =>
         [\A n \in Nodes, b \in StoreIds :
            (stores[n][b] = Local /\ crashed'[n] = None)
                => stores'[n][b] = Local \/ b \in scenario.remote]_vars
  BY Zenon DEF StoresStep
<1>. QED  BY <1>1, <1>2, PeersInductive, PTL DEF Spec, LocalStoresStay

(***************************************************************************)
(* The other types.                                                        *)
(***************************************************************************)
CallTypes ==
    /\ waiter \in [Conns -> Conns \union {None, User}]
    /\ answer \in [Conns -> {"none", "waiting", "true", "false"}]

NetTypes == IsRequestBag(net) /\ UnderWay(net) \subseteq Requests

BudgetTypes ==
    /\ signalled \subseteq Nodes
    /\ scenario \in Scenarios
    /\ calling \subseteq scenario.seeds /\ seeds \subseteq scenario.seeds
    /\ stops \subseteq scenario.stops /\ puts \subseteq scenario.puts
    /\ faults \in 0..scenario.faults

\* Adding requests puts just these under way; what has run may still be under
\* way if there was another copy, and everything else still is.
LEMMA BagFacts ==
    ASSUME NEW B, IsRequestBag(B)
    PROVE  /\ \A S : IsRequestBag(AddAll(B, S)) /\ UnderWay(AddAll(B, S)) = UnderWay(B) \union S
           /\ \A r : /\ IsRequestBag(TakeOne(B, r))
                    /\ UnderWay(TakeOne(B, r)) \subseteq UnderWay(B)
                    /\ UnderWay(B) \subseteq UnderWay(TakeOne(B, r)) \union {r}
<1>1. \A S : IsRequestBag(AddAll(B, S)) /\ UnderWay(AddAll(B, S)) = UnderWay(B) \union S
  BY DEF IsRequestBag, UnderWay, AddAll, Copies
<1>2. \A r : /\ IsRequestBag(TakeOne(B, r))
            /\ UnderWay(TakeOne(B, r)) \subseteq UnderWay(B)
            /\ UnderWay(B) \subseteq UnderWay(TakeOne(B, r)) \union {r}
  BY DEF IsRequestBag, UnderWay, TakeOne
<1>. QED  BY Zenon, <1>1, <1>2

\* The requests that are sent are requests.
LEMMA RequestFacts ==
    ASSUME NEW c \in Conns
    PROVE  /\ AskReq(c) \in Requests
           /\ \A n, a \in Nodes : {IntroduceReq(c, p) : p \in Others(n, a)} \subseteq Requests
  BY DEF Requests, Others, PeersOf

\* The ends of a request and the address it carries.
LEMMA RequestEnds ==
    ASSUME NEW r \in Requests
    PROVE  r.conn \in Conns /\ To(r.conn) \in Nodes /\ r.arg \in Nodes /\ r.op \in {"ask", "introduce"}
  BY Ends DEF Requests, AskReq, IntroduceReq

\* How a step changes the requests under way.
LEMMA NetMoves ==
    ASSUME PeerTypes, [Next]_vars
    PROVE  \/ UNCHANGED net
           \/ \E req \in UnderWay(net) : (RPCAddPeer(req) \/ RequestLost(req)) /\ net' = Done(req)
           \/ \E c \in Conns : Connect(c) /\ net' = AddAll(net, {AskReq(c)})
           \/ \E c \in Conns : /\ Introduce(c) /\ wired[c] = "up"
                              /\ net' = AddAll(net, {IntroduceReq(c, p) : p \in Others(From(c), To(c))})
           \/ \E n \in Nodes : /\ crashed'[n] # None
                              /\ net' = [r \in {q \in UnderWay(net) : To(q.conn) # n} |-> net[r]]
<1>d. ASSUME NEW n \in Nodes, NEW why \in {"connect", "remove", "put"}, Die(n, why)
      PROVE  /\ crashed'[n] # None
             /\ net' = [r \in {q \in UnderWay(net) : To(q.conn) # n} |-> net[r]]
  BY Zenon, <1>d, NodeAssumption DEF Die, PeerTypes
<1>1. ASSUME NEW n \in Nodes, Start(n) \/ OnTimer(n) \/ StopBegin(n) \/ StopReturn(n)
      PROVE  UNCHANGED net
  BY Zenon, <1>1 DEF Start, OnTimer, StopBegin, StopReturn
<1>2. ASSUME NEW n \in Nodes, PutBlock(n) PROVE Die(n, "put")
  BY Zenon, <1>2 DEF PutBlock
<1>3. ASSUME NEW n \in Nodes, NEW a \in Nodes, AddPeer(n, a) PROVE UNCHANGED net
  BY Zenon, <1>3 DEF AddPeer
<1>4. ASSUME NEW req, RPCAddPeer(req) \/ RequestLost(req) PROVE net' = Done(req)
  BY Zenon, <1>4 DEF RPCAddPeer, RequestLost
<1>5. ASSUME NEW c \in Conns, InsertPeer(c) \/ Hook(c) \/ Return(c) PROVE UNCHANGED net
  BY Zenon, <1>5 DEF InsertPeer, Hook, Return
<1>6. ASSUME NEW c \in Conns, Connect(c) PROVE net' = AddAll(net, {AskReq(c)})
  BY Zenon, <1>6 DEF Connect
<1>7. ASSUME NEW c \in Conns, Introduce(c)
      PROVE  \/ UNCHANGED net
             \/ /\ wired[c] = "up"
                /\ net' = AddAll(net, {IntroduceReq(c, p) : p \in Others(From(c), To(c))})
  BY Zenon, <1>7 DEF Introduce
<1>8. ASSUME NEW c \in Conns, ConnectFails(c) \/ ConnectionLost(c)
      PROVE  UNCHANGED net \/ \E why \in {"connect", "remove"} : Die(From(c), why)
  BY Zenon, <1>8 DEF ConnectFails, ConnectionLost
<1>9. ASSUME NEW n \in Nodes, NEW b \in StoreIds, AddBlockStore(n, b) \/ RPCAddBlockStore(n, b)
      PROVE  UNCHANGED net
  BY Zenon, <1>9 DEF AddBlockStore, RPCAddBlockStore
<1>10. CASE UNCHANGED vars
  BY Zenon, <1>10 DEF vars
<1>. QED  BY Zenon, <1>d, <1>1, <1>2, <1>3, <1>4, <1>5, <1>6, <1>7, <1>8, <1>9, <1>10, Ends
             DEF Next

LEMMA NetStep == PeerInv /\ NetTypes /\ [Next]_vars => NetTypes'
<1>. SUFFICES ASSUME PeerInv, NetTypes, [Next]_vars PROVE NetTypes'
  BY Zenon
<1>1. CASE UNCHANGED net
  BY Zenon, <1>1 DEF NetTypes
<1>2. ASSUME NEW req, net' = Done(req) PROVE NetTypes'
  BY Zenon, <1>2, BagFacts DEF NetTypes, Done
<1>3. ASSUME NEW c \in Conns, net' = AddAll(net, {AskReq(c)}) PROVE NetTypes'
  BY <1>3, BagFacts, RequestFacts DEF NetTypes
<1>4. ASSUME NEW c \in Conns,
             net' = AddAll(net, {IntroduceReq(c, p) : p \in Others(From(c), To(c))})
      PROVE  NetTypes'
  <2>. DEFINE S == {IntroduceReq(c, p) : p \in Others(From(c), To(c))}
  <2>1. S \subseteq Requests
    BY Zenon, Ends, RequestFacts
  <2>. HIDE DEF S
  <2>. QED  BY <1>4, <2>1, BagFacts DEF NetTypes, S
<1>5. ASSUME NEW n, net' = [r \in {q \in UnderWay(net) : To(q.conn) # n} |-> net[r]]
      PROVE  NetTypes'
  BY Zenon, <1>5 DEF NetTypes, IsRequestBag, UnderWay
<1>. QED  BY Zenon, <1>1, <1>2, <1>3, <1>4, <1>5, NetMoves DEF PeerInv

\* Whom a new Peer's RPCAddPeer answers.
LEMMA NewPeerCall ==
    ASSUME CallTypes, NEW n, NEW a, NEW who \in Conns \union {None, User}, NewPeer(n, a, who)
    PROVE  waiter' \in [Conns -> Conns \union {None, User}]
<1>1. PICK c : waiter' = [waiter EXCEPT ![c] = who]
  BY Zenon DEF NewPeer
<1>. QED  BY Zenon, <1>1 DEF CallTypes

LEMMA RespondFacts ==
    ASSUME CallTypes, NEW c, NEW v \in {"true", "false"}
    PROVE  Respond(c, v) \in [Conns -> {"none", "waiting", "true", "false"}]
  BY Zenon DEF CallTypes, Respond

LEMMA DieCall ==
    ASSUME CallTypes, NEW n, NEW why, Die(n, why)
    PROVE  CallTypes'
<1>1. /\ waiter' = [c \in Conns |-> IF From(c) = n THEN None ELSE waiter[c]]
      /\ answer' = [c \in Conns |-> IF From(c) = n THEN "none" ELSE answer[c]]
  BY Zenon DEF Die
<1>. QED  BY Zenon, <1>1 DEF CallTypes

LEMMA BecomeCall ==
    ASSUME CallTypes, NEW p, NEW s, NEW w, NEW b, Become(p, s, w, b)
    PROVE  CallTypes'
<1>. DEFINE gone == Unheld(p, s, b)
<1>1. /\ UNCHANGED waiter
      /\ answer' = [c \in Conns |->
                       IF c \in gone /\ answer[c] = "waiting" THEN "false" ELSE answer[c]]
  BY Zenon DEF Become
<1>. HIDE DEF gone
<1>. QED  BY Zenon, <1>1 DEF CallTypes

LEMMA CallStep == CallTypes /\ NetTypes /\ [Next]_vars => CallTypes'
<1>. SUFFICES ASSUME CallTypes, NetTypes, [Next]_vars PROVE CallTypes'
  BY Zenon
<1>1. ASSUME UNCHANGED <<waiter, answer>> PROVE CallTypes'
  BY Zenon, <1>1 DEF CallTypes
<1>2. ASSUME NEW n \in Nodes, Start(n) \/ OnTimer(n) \/ StopBegin(n) \/ StopReturn(n)
      PROVE  CallTypes'
  BY Zenon, <1>1, <1>2 DEF Start, OnTimer, StopBegin, StopReturn, peerVars
<1>3. ASSUME NEW n \in Nodes, PutBlock(n) PROVE CallTypes'
  BY Zenon, <1>3, DieCall DEF PutBlock
<1>4. ASSUME NEW n \in Nodes, NEW a \in Nodes, AddPeer(n, a) PROVE CallTypes'
  <2>1. UNCHANGED answer /\ (UNCHANGED waiter \/ NewPeer(n, a, User))
    BY Zenon, <1>4 DEF AddPeer
  <2>. QED  BY Zenon, <2>1, NewPeerCall DEF CallTypes
<1>5. ASSUME NEW req \in UnderWay(net), RPCAddPeer(req) PROVE CallTypes'
  <2>1. req.conn \in Conns
    BY Zenon, RequestEnds DEF NetTypes
  <2>2. \/ UNCHANGED waiter /\ answer' \in {answer, Respond(req.conn, "true")}
        \/ UNCHANGED answer /\ \E n, a : \E who \in {req.conn, None} : NewPeer(n, a, who)
    BY Zenon, <1>5 DEF RPCAddPeer
  <2>3. CASE UNCHANGED waiter /\ answer' \in {answer, Respond(req.conn, "true")}
    BY Zenon, <2>3, RespondFacts DEF CallTypes
  <2>4. CASE UNCHANGED answer /\ \E n, a : \E who \in {req.conn, None} : NewPeer(n, a, who)
    BY Zenon, <2>1, <2>4, NewPeerCall DEF CallTypes
  <2>. QED  BY Zenon, <2>2, <2>3, <2>4
<1>6. ASSUME NEW req, RequestLost(req) PROVE CallTypes'
  BY Zenon, <1>1, <1>6 DEF RequestLost, peerVars
<1>7. ASSUME NEW c \in Conns, InsertPeer(c) \/ Introduce(c) PROVE CallTypes'
  <2>1. \E p, s, w, b : Become(p, s, w, b)
    BY Zenon, <1>7 DEF InsertPeer, Introduce
  <2>. QED  BY Zenon, <2>1, BecomeCall
<1>8. ASSUME NEW c \in Conns, Connect(c) \/ Hook(c) PROVE CallTypes'
  BY Zenon, <1>8 DEF Connect, Hook, CallTypes
<1>9. ASSUME NEW c \in Conns, ConnectFails(c) \/ ConnectionLost(c) PROVE CallTypes'
  <2>1. \/ UNCHANGED <<waiter, answer>>
        \/ \E p, s, w, b : Become(p, s, w, b)
        \/ \E n, why : Die(n, why)
    BY Zenon, <1>9 DEF ConnectFails, ConnectionLost, RemovePeer
  <2>. QED  BY Zenon, <1>1, <2>1, BecomeCall, DieCall
<1>10. ASSUME NEW c \in Conns, Return(c) PROVE CallTypes'
  <2>1. answer[c] \in {"true", "false"}
    BY Zenon, <1>10 DEF Return
  <2>2. PICK f \in {answer, Respond(waiter[c], answer[c])} : answer' = [f EXCEPT ![c] = "none"]
    BY Zenon, <1>10 DEF Return
  <2>3. f \in [Conns -> {"none", "waiting", "true", "false"}]
    BY <2>1, RespondFacts DEF CallTypes
  <2>4. waiter' = [waiter EXCEPT ![c] = None]
    BY Zenon, <1>10 DEF Return
  <2>. QED  BY Zenon, <2>2, <2>3, <2>4 DEF CallTypes
<1>11. ASSUME NEW n \in Nodes, NEW b \in StoreIds, AddBlockStore(n, b) \/ RPCAddBlockStore(n, b)
       PROVE  CallTypes'
  <2>1. UNCHANGED <<waiter, answer>> \/ \E p, s, w, t : Become(p, s, w, t)
    BY Zenon, <1>11 DEF AddBlockStore, RPCAddBlockStore
  <2>. QED  BY Zenon, <1>1, <2>1, BecomeCall
<1>12. CASE UNCHANGED vars
  BY Zenon, <1>1, <1>12 DEF vars, peerVars
<1>. QED  BY Zenon, <1>2, <1>3, <1>4, <1>5, <1>6, <1>7, <1>8, <1>9, <1>10, <1>11, <1>12 DEF Next

\* What may still happen only shrinks, and faults happen one at a time.
Spent ==
    /\ scenario' = scenario
    /\ seeds' \subseteq seeds /\ stops' \subseteq stops /\ puts' \subseteq puts
    /\ calling' \subseteq calling \union seeds
    /\ faults' = faults \/ (faults > 0 /\ faults' = faults - 1)

LEMMA BudgetMoves ==
    ASSUME [Next]_vars
    PROVE  Spent
<1>1. ASSUME NEW n \in Nodes, Start(n) \/ OnTimer(n) \/ StopBegin(n) \/ StopReturn(n) PROVE Spent
  BY Zenon, <1>1 DEF Start, OnTimer, StopBegin, StopReturn, budgets, Spent
<1>2. ASSUME NEW n \in Nodes, PutBlock(n) PROVE Spent
  BY Zenon, <1>2 DEF PutBlock, Die, Spent
<1>3. ASSUME NEW n \in Nodes, NEW a \in Nodes, AddPeer(n, a) PROVE Spent
  BY Zenon, <1>3 DEF AddPeer, Spent
<1>4. ASSUME NEW req, RPCAddPeer(req) \/ RequestLost(req) PROVE Spent
  BY Zenon, <1>4 DEF RPCAddPeer, RequestLost, budgets, Spent
<1>5. ASSUME NEW c \in Conns, InsertPeer(c) \/ Connect(c) \/ Hook(c) \/ Introduce(c) PROVE Spent
  BY Zenon, <1>5 DEF InsertPeer, Connect, Hook, Introduce, budgets, Spent
<1>6. ASSUME NEW c \in Conns, Return(c) PROVE Spent
  BY Zenon, <1>6 DEF Return, budgets, Spent
<1>7. ASSUME NEW c \in Conns, ConnectFails(c) PROVE Spent
  BY Zenon, <1>7 DEF ConnectFails, Die, Spent
<1>8. ASSUME NEW c \in Conns, ConnectionLost(c) PROVE Spent
  BY Zenon, <1>8 DEF ConnectionLost, Die, Spent
<1>9. ASSUME NEW n \in Nodes, NEW b \in StoreIds, AddBlockStore(n, b) \/ RPCAddBlockStore(n, b)
      PROVE  Spent
  BY Zenon, <1>9 DEF AddBlockStore, RPCAddBlockStore, budgets, Spent
<1>10. CASE UNCHANGED vars
  BY Zenon, <1>10 DEF vars, budgets, Spent
<1>. QED  BY Zenon, <1>1, <1>2, <1>3, <1>4, <1>5, <1>6, <1>7, <1>8, <1>9, <1>10 DEF Next

LEMMA BudgetStep == BudgetTypes /\ [Next]_vars => BudgetTypes'
<1>. SUFFICES ASSUME BudgetTypes, [Next]_vars PROVE BudgetTypes'
  BY Zenon
<1>1. Spent
  BY Zenon, BudgetMoves
<1>2. signalled' \subseteq Nodes
  <2>1. ASSUME NEW n \in Nodes, Start(n) \/ OnTimer(n) \/ StopBegin(n) \/ StopReturn(n)
        PROVE  signalled' \subseteq Nodes
    BY Zenon, <2>1 DEF Start, OnTimer, StopBegin, StopReturn, BudgetTypes
  <2>. QED  BY Zenon, <2>1, OtherSteps DEF lifeVars, BudgetTypes
<1>3. scenario.faults \in Nat
  BY Zenon, NodeAssumption DEF BudgetTypes, Scenario
<1>. QED  BY <1>1, <1>2, <1>3 DEF BudgetTypes, Spent

NodeInv == PeerInv /\ TimerInv /\ CallTypes /\ NetTypes /\ BudgetTypes

LEMMA NodeInductive == Spec => []NodeInv
<1>1. Init => CallTypes /\ NetTypes /\ BudgetTypes
  <2>. SUFFICES ASSUME Init PROVE CallTypes /\ NetTypes /\ BudgetTypes
    BY Zenon
  <2>1. CallTypes
    BY Zenon DEF Init, CallTypes
  <2>2. NetTypes
    BY Zenon DEF Init, NetTypes, NoRequests, IsRequestBag, UnderWay
  <2>3. scenario.faults \in Nat
    BY Zenon, NodeAssumption DEF Init, Scenario
  <2>4. BudgetTypes
    BY <2>3 DEF Init, BudgetTypes
  <2>. QED  BY Zenon, <2>1, <2>2, <2>4
<1>2. Init => TimerInv
  BY DEF Init, TimerInv, Phases
<1>. QED  BY <1>1, <1>2, TimerStep, CallStep, NetStep, BudgetStep, PeersInductive, PTL DEF Spec, NodeInv

\* Whatever nodes, users and connections do, every variable keeps its type:
\* no entry of _peers or _blockstores is anything but a Peer or a store of the
\* node's own, no timer is enqueued twice and no budget is overdrawn.
THEOREM TypeCorrect == Spec => []TypeOK
<1>1. NodeInv => TypeOK
  <2>. SUFFICES ASSUME NodeInv PROVE TypeOK
    BY Zenon
  <2>1. scenario \in Scenario
    BY Zenon DEF NodeInv, PeerInv, PeerTypes
  <2>2. /\ scenario.remote \subseteq StoreIds
        /\ scenario.stops \subseteq Nodes /\ scenario.puts \subseteq Nodes
    BY Zenon, <2>1 DEF Scenario
  <2>3. bsids \in [Conns -> SUBSET StoreIds]
    BY Zenon, <2>2 DEF NodeInv, PeerInv, PeerTypes
  <2>. QED  BY Zenon, <2>2, <2>3
               DEF NodeInv, PeerInv, PeerTypes, PeersType, StagesType, WiresType,
                  StoresType, TimerInv, CallTypes, NetTypes, BudgetTypes, TypeOK
<1>. QED  BY <1>1, NodeInductive, PTL

(***************************************************************************)
(* How RPCAddPeer and its connections move.                                *)
(***************************************************************************)
\* A client is connected only to a node that there is, and after its Peer has
\* been inserted; RPCAddPeer runs in a process that lives.
LinkOk(c) ==
    /\ stage[c] \in {"none", "absent", "inserted"} => wired[c] = "none"
    /\ wired[c] = "up" => To(c) \in scenario.nodes
    /\ stage[c] # "none" => Alive(From(c))

LinksOk == \A c \in Conns : LinkOk(c)

\* The user of n, or a request, asks for a.
CalledFor(n, a) ==
    <<n, a>> \in seeds \/ \E r \in UnderWay(net) : To(r.conn) = n /\ r.arg = a

\* RPCAddPeer moves from stage to stage, a connection that is up may be lost,
\* and a client that is destroyed, or whose process dies, starts over.
Move(c) ==
    \/ stage'[c] = stage[c] /\ wired'[c] = wired[c]
    \/ /\ stage[c] = "none" /\ stage'[c] = "absent" /\ wired'[c] = wired[c]
       /\ Alive(From(c)) /\ CalledFor(From(c), To(c))
    \/ stage[c] = "absent" /\ stage'[c] = "inserted" /\ wired'[c] = wired[c] /\ InsertPeer(c)
    \/ stage[c] = "inserted" /\ stage'[c] = "open" /\ wired'[c] = "up" /\ Listening(To(c))
    \/ stage[c] = "open" /\ stage'[c] = "hooked" /\ wired'[c] = wired[c]
    \/ stage[c] = "hooked" /\ stage'[c] = "done" /\ wired'[c] = wired[c] /\ Introduce(c)
    \/ stage'[c] = stage[c] /\ wired[c] = "up" /\ ConnectionLost(c)
    \/ /\ stage[c] \in {"hooked", "done"} \/ crashed'[From(c)] # None
       /\ stage'[c] = "none" /\ wired'[c] = "none"

\* A process dies once, and nothing of it is left.
Death(n) ==
    \/ crashed'[n] = crashed[n]
    \/ crashed[n] = None /\ \A c \in Conns : From(c) = n => stage'[c] = "none"

Moves == (\A c \in Conns : Move(c)) /\ (\A n \in Nodes : Death(n))

LEMMA BecomeMoves ==
    ASSUME NEW p, NEW s, NEW w, NEW b, Become(p, s, w, b), NEW c \in Conns
    PROVE  \/ stage'[c] = s[c] /\ wired'[c] = w[c]
           \/ s[c] = "done" /\ stage'[c] = "none" /\ wired'[c] = "none"
<1>. DEFINE gone == Unheld(p, s, b)
<1>0. \A d \in gone : s[d] = "done"
  BY Zenon DEF Unheld
<1>1. /\ stage' = [d \in Conns |-> IF d \in gone THEN "none" ELSE s[d]]
      /\ wired' = [d \in Conns |-> IF d \in gone THEN "none" ELSE w[d]]
  BY Zenon DEF Become
<1>. HIDE DEF gone
<1>. QED  BY Zenon, <1>0, <1>1

LEMMA DieMoves ==
    ASSUME NEW n \in Nodes, NEW why \in {"connect", "remove", "put"}, Die(n, why), Alive(n), PeerTypes
    PROVE  Moves
<1>1. /\ crashed' = [crashed EXCEPT ![n] = why]
      /\ stage' = [c \in Conns |-> IF From(c) = n THEN "none" ELSE stage[c]]
      /\ wired' = [c \in Conns |-> IF From(c) = n THEN "none" ELSE wired[c]]
  BY Zenon DEF Die
<1>2. \A c \in Conns : Move(c)
  BY Zenon, <1>1, NodeAssumption DEF Move, PeerTypes
<1>3. \A m \in Nodes : Death(m)
  BY Zenon, <1>1 DEF Death, Alive, PeerTypes
<1>. QED  BY Zenon, <1>2, <1>3 DEF Moves

LEMMA NewPeerMoves ==
    ASSUME PeerTypes, NEW n \in Nodes, NEW a \in Nodes, NEW who, NewPeer(n, a, who), Alive(n),
           CalledFor(n, a), UNCHANGED <<wired, crashed>>
    PROVE  Moves
<1>1. PICK k : /\ stage[<<n, a, k>>] = "none"
               /\ stage' = [stage EXCEPT ![<<n, a, k>>] = "absent"]
  BY Zenon DEF NewPeer, Free
<1>2. \A c \in Conns : Move(c)
  BY <1>1 DEF Move, From, To, PeerTypes, StagesType
<1>. QED  BY Zenon, <1>2 DEF Moves, Death

\* What is left to show of a step that kills no process.
LEMMA AllLive ==
    ASSUME UNCHANGED crashed, \A c \in Conns : Move(c)
    PROVE  Moves
  BY Zenon DEF Moves, Death

LEMMA MoveStep ==
    ASSUME NodeInv, LinksOk, [Next]_vars
    PROVE  Moves
<1>. PeerTypes
  BY Zenon DEF NodeInv, PeerInv
<1>1. ASSUME UNCHANGED <<stage, wired, crashed>> PROVE Moves
  BY Zenon, <1>1 DEF Moves, Move, Death
<1>2. ASSUME NEW n \in Nodes, Start(n) \/ OnTimer(n) \/ StopBegin(n) \/ StopReturn(n)
      PROVE  Moves
  BY Zenon, <1>1, <1>2 DEF Start, OnTimer, StopBegin, StopReturn, peerVars
<1>3. ASSUME NEW n \in Nodes, PutBlock(n) PROVE Moves
  BY Zenon, <1>3, DieMoves DEF PutBlock
<1>4. ASSUME NEW n \in Nodes, NEW a \in Nodes, AddPeer(n, a) PROVE Moves
  <2>1. /\ Alive(n) /\ CalledFor(n, a) /\ UNCHANGED <<wired, crashed>>
        /\ UNCHANGED stage \/ NewPeer(n, a, User)
    BY Zenon, <1>4 DEF AddPeer, CalledFor
  <2>. QED  BY Zenon, <1>1, <2>1, NewPeerMoves
<1>5. ASSUME NEW req \in UnderWay(net), RPCAddPeer(req) PROVE Moves
  <2>1. To(req.conn) \in Nodes /\ req.arg \in Nodes
    BY Zenon, RequestEnds DEF NodeInv, NetTypes
  <2>2. /\ Alive(To(req.conn)) /\ CalledFor(To(req.conn), req.arg)
        /\ UNCHANGED <<wired, crashed>>
        /\ UNCHANGED stage \/ \E who : NewPeer(To(req.conn), req.arg, who)
    BY Zenon, <1>5 DEF RPCAddPeer, CalledFor
  <2>. QED  BY Zenon, <1>1, <2>1, <2>2, NewPeerMoves
<1>6. ASSUME NEW req, RequestLost(req) PROVE Moves
  BY Zenon, <1>1, <1>6 DEF RequestLost, peerVars
<1>7. ASSUME NEW c \in Conns, InsertPeer(c) PROVE Moves
  <2>. DEFINE s == [stage EXCEPT ![c] = "inserted"]
              p == [peers EXCEPT ![From(c)][To(c)] = c]
  <2>1. stage[c] = "absent" /\ Become(p, s, wired, stores) /\ UNCHANGED crashed
    BY Zenon, <1>7 DEF InsertPeer
  <2>2. \A d \in Conns : s[d] = IF d = c THEN "inserted" ELSE stage[d]
    BY Zenon DEF PeerTypes, StagesType
  <2>. HIDE DEF s, p
  <2>3. \A d \in Conns : Move(d)
    BY <1>7, <2>1, <2>2, BecomeMoves DEF Move
  <2>. QED  BY Zenon, <2>1, <2>3, AllLive
<1>8. ASSUME NEW c \in Conns, Connect(c) PROVE Moves
  <2>1. /\ stage[c] = "inserted" /\ Listening(To(c)) /\ UNCHANGED crashed
        /\ stage' = [stage EXCEPT ![c] = "open"] /\ wired' = [wired EXCEPT ![c] = "up"]
    BY Zenon, <1>8 DEF Connect
  <2>2. \A d \in Conns : Move(d)
    BY Zenon, <2>1 DEF Move, PeerTypes, StagesType, WiresType
  <2>. QED  BY Zenon, <2>1, <2>2, AllLive
<1>9. ASSUME NEW c \in Conns, Hook(c) PROVE Moves
  <2>1. /\ stage[c] = "open" /\ UNCHANGED <<wired, crashed>>
        /\ stage' = [stage EXCEPT ![c] = "hooked"]
    BY Zenon, <1>9 DEF Hook
  <2>2. \A d \in Conns : Move(d)
    BY Zenon, <2>1 DEF Move, PeerTypes, StagesType
  <2>. QED  BY Zenon, <2>1, <2>2, AllLive
<1>10. ASSUME NEW c \in Conns, Introduce(c) PROVE Moves
  <2>. DEFINE s == [stage EXCEPT ![c] = "done"]
  <2>1. stage[c] = "hooked" /\ Become(peers, s, wired, stores) /\ UNCHANGED crashed
    BY Zenon, <1>10 DEF Introduce
  <2>2. \A d \in Conns : s[d] = IF d = c THEN "done" ELSE stage[d]
    BY Zenon DEF PeerTypes, StagesType
  <2>. HIDE DEF s
  <2>3. \A d \in Conns : Move(d)
    BY <1>10, <2>1, <2>2, BecomeMoves DEF Move
  <2>. QED  BY Zenon, <2>1, <2>3, AllLive
<1>11. ASSUME NEW c \in Conns, ConnectFails(c) PROVE Moves
  <2>1. stage[c] = "inserted" /\ Die(From(c), "connect")
    BY Zenon, <1>11 DEF ConnectFails
  <2>2. From(c) \in Nodes /\ Alive(From(c))
    BY Zenon, <2>1, Ends DEF LinksOk, LinkOk
  <2>. QED  BY Zenon, <2>1, <2>2, DieMoves
<1>12. ASSUME NEW c \in Conns, ConnectionLost(c) PROVE Moves
  <2>1. wired[c] = "up"
    BY Zenon, <1>12 DEF ConnectionLost
  <2>2. From(c) \in Nodes /\ Alive(From(c))
    BY Zenon, <2>1, Ends DEF LinksOk, LinkOk
  <2>3. CASE UNCHANGED <<stage, crashed>> /\ wired' = [wired EXCEPT ![c] = "missed"]
    <3>1. \A d \in Conns : Move(d)
      BY Zenon, <1>12, <2>1, <2>3 DEF Move, PeerTypes, WiresType
    <3>. QED  BY Zenon, <2>3, <3>1, AllLive
  <2>4. CASE UNCHANGED crashed /\ RemovePeer(From(c), To(c), [wired EXCEPT ![c] = "down"])
    <3>. DEFINE w == [wired EXCEPT ![c] = "down"]
    <3>1. \E p, b : Become(p, stage, w, b)
      BY Zenon, <2>4 DEF RemovePeer
    <3>2. \A d \in Conns : w[d] = IF d = c THEN "down" ELSE wired[d]
      BY Zenon DEF PeerTypes, WiresType
    <3>. HIDE DEF w
    <3>3. \A d \in Conns : Move(d)
      BY <1>12, <2>1, <3>1, <3>2, BecomeMoves DEF Move
    <3>. QED  BY Zenon, <2>4, <3>3, AllLive
  <2>5. CASE Die(From(c), "remove")
    BY Zenon, <2>2, <2>5, DieMoves
  <2>. QED  BY Zenon, <1>12, <2>3, <2>4, <2>5 DEF ConnectionLost
<1>13. ASSUME NEW c \in Conns, Return(c) PROVE Moves
  BY Zenon, <1>1, <1>13 DEF Return
<1>14. ASSUME NEW n \in Nodes, NEW b \in StoreIds, AddBlockStore(n, b) \/ RPCAddBlockStore(n, b)
       PROVE  Moves
  <2>1. \/ UNCHANGED <<stage, wired, crashed>>
        \/ UNCHANGED crashed /\ \E t : Become(peers, stage, wired, t)
    BY Zenon, <1>14 DEF AddBlockStore, RPCAddBlockStore
  <2>2. ASSUME NEW t, UNCHANGED crashed, Become(peers, stage, wired, t) PROVE Moves
    <3>1. \A d \in Conns : Move(d)
      BY <2>2, BecomeMoves DEF Move
    <3>. QED  BY Zenon, <2>2, <3>1, AllLive
  <2>. QED  BY Zenon, <1>1, <2>1, <2>2
<1>15. CASE UNCHANGED vars
  BY Zenon, <1>1, <1>15 DEF vars, peerVars
<1>. QED  BY Zenon, <1>2, <1>3, <1>4, <1>5, <1>6, <1>7, <1>8, <1>9, <1>10, <1>11, <1>12,
             <1>13, <1>14,
             <1>15 DEF Next

LEMMA LinksStep == NodeInv /\ LinksOk /\ [Next]_vars => LinksOk'
<1>. SUFFICES ASSUME NodeInv, LinksOk, [Next]_vars, NEW c \in Conns PROVE LinkOk(c)'
  BY Zenon DEF LinksOk
<1>1. Move(c) /\ Death(From(c)) /\ LinkOk(c) /\ scenario' = scenario
  BY Zenon, MoveStep, Ends, BudgetMoves DEF Moves, LinksOk, Spent
<1>2. stage[c] # "none" /\ stage'[c] # "none" => Alive(From(c))'
  BY Zenon, <1>1 DEF Death, LinkOk, Alive
<1>3. stage'[c] # "none" => Alive(From(c))'
  BY Zenon, <1>1, <1>2 DEF Move, Death, Alive
<1>4. stage'[c] \in {"none", "absent", "inserted"} => wired'[c] = "none"
  <2>1. CASE ConnectionLost(c) /\ stage'[c] = stage[c] /\ wired[c] = "up"
    BY Zenon, <1>1, <2>1 DEF LinkOk
  <2>. QED  BY Zenon, <1>1, <2>1 DEF Move, LinkOk
<1>5. wired'[c] = "up" => To(c) \in scenario'.nodes
  BY Zenon, <1>1 DEF Move, LinkOk, Listening
<1>. QED  BY Zenon, <1>3, <1>4, <1>5 DEF LinkOk

\* What kills a process.
LEMMA Deaths ==
    ASSUME PeerTypes, [Next]_vars, NEW n \in Nodes, crashed'[n] # crashed[n]
    PROVE  \/ PutBlock(n) /\ crashed'[n] = "put"
           \/ \E c \in Conns : ConnectFails(c) /\ From(c) = n /\ crashed'[n] = "connect"
           \/ \E c \in Conns : /\ ConnectionLost(c) /\ From(c) = n
                               /\ peers[n][To(c)] = None /\ stage[c] # "open"
<1>0. ~UNCHANGED crashed
  BY Zenon
<1>d. \A m, why : Die(m, why) => n = m /\ crashed'[n] = why
  BY Zenon DEF Die, PeerTypes
<1>1. ASSUME NEW m \in Nodes, Start(m) \/ OnTimer(m) \/ StopBegin(m) \/ StopReturn(m) PROVE FALSE
  BY Zenon, <1>0, <1>1 DEF Start, OnTimer, StopBegin, StopReturn
<1>2. ASSUME NEW m \in Nodes, NEW a \in Nodes, AddPeer(m, a) PROVE FALSE
  BY Zenon, <1>0, <1>2 DEF AddPeer
<1>3. ASSUME NEW req, RPCAddPeer(req) \/ RequestLost(req) PROVE FALSE
  BY Zenon, <1>0, <1>3 DEF RPCAddPeer, RequestLost
<1>4. ASSUME NEW c \in Conns, InsertPeer(c) \/ Connect(c) \/ Hook(c) \/ Introduce(c) \/ Return(c)
      PROVE  FALSE
  BY Zenon, <1>0, <1>4 DEF InsertPeer, Connect, Hook, Introduce, Return
<1>5. ASSUME NEW m \in Nodes, NEW b \in StoreIds, AddBlockStore(m, b) \/ RPCAddBlockStore(m, b)
      PROVE  FALSE
  BY Zenon, <1>0, <1>5 DEF AddBlockStore, RPCAddBlockStore
<1>6. ~UNCHANGED vars
  BY Zenon, <1>0 DEF vars
<1>7. ASSUME NEW m \in Nodes, PutBlock(m) PROVE PutBlock(n) /\ crashed'[n] = "put"
  <2>1. Die(m, "put")
    BY Zenon, <1>7 DEF PutBlock
  <2>. QED  BY Zenon, <1>7, <1>d, <2>1
<1>8. ASSUME NEW c \in Conns, ConnectFails(c) PROVE From(c) = n /\ crashed'[n] = "connect"
  <2>1. Die(From(c), "connect")
    BY Zenon, <1>8 DEF ConnectFails
  <2>. QED  BY <1>d, <2>1
<1>9. ASSUME NEW c \in Conns, ConnectionLost(c)
      PROVE  From(c) = n /\ peers[n][To(c)] = None /\ stage[c] # "open"
  <2>1. Die(From(c), "remove") /\ peers[From(c)][To(c)] = None /\ stage[c] # "open"
    BY Zenon, <1>0, <1>9 DEF ConnectionLost
  <2>. QED  BY <1>d, <2>1
<1>. QED  BY Zenon, <1>1, <1>2, <1>3, <1>4, <1>5, <1>6, <1>7, <1>8, <1>9 DEF Next

\* An entry changes when a Peer is inserted, when a connection is lost and
\* when its process dies.
LEMMA EntryMoves ==
    ASSUME NodeInv, [Next]_vars, NEW n \in Nodes, NEW a \in Nodes
    PROVE  \/ peers'[n][a] = peers[n][a]
           \/ \E c \in Conns : InsertPeer(c) /\ From(c) = n /\ To(c) = a /\ peers'[n][a] = c
           \/ \E c \in Conns : ConnectionLost(c)
           \/ crashed'[n] \in {"put", "connect"}
<1>. PeerTypes
  BY Zenon DEF NodeInv, PeerInv
<1>d. ASSUME NEW m, NEW why, Die(m, why) PROVE peers'[n][a] = peers[n][a] \/ crashed'[n] = why
  BY Zenon, <1>d DEF Die, PeerTypes, PeersType
<1>1. ASSUME NEW m \in Nodes, Start(m) \/ OnTimer(m) \/ StopBegin(m) \/ StopReturn(m)
      PROVE  UNCHANGED peers
  BY Zenon, <1>1 DEF Start, OnTimer, StopBegin, StopReturn, peerVars
<1>2. ASSUME NEW m \in Nodes, NEW b \in Nodes, AddPeer(m, b) PROVE UNCHANGED peers
  BY Zenon, <1>2 DEF AddPeer
<1>3. ASSUME NEW req, RPCAddPeer(req) \/ RequestLost(req) PROVE UNCHANGED peers
  BY Zenon, <1>3 DEF RPCAddPeer, RequestLost, peerVars
<1>4. ASSUME NEW c \in Conns, Connect(c) \/ Hook(c) \/ Introduce(c) \/ Return(c)
      PROVE  UNCHANGED peers
  BY Zenon, <1>4 DEF Connect, Hook, Introduce, Become, Return
<1>5. ASSUME NEW m \in Nodes, NEW b \in StoreIds, AddBlockStore(m, b) \/ RPCAddBlockStore(m, b)
      PROVE  UNCHANGED peers
  BY Zenon, <1>5 DEF AddBlockStore, RPCAddBlockStore, Become
<1>6. CASE UNCHANGED vars
  BY Zenon, <1>6 DEF vars, peerVars
<1>7. ASSUME NEW c \in Conns, InsertPeer(c)
      PROVE  \/ peers'[n][a] = peers[n][a]
             \/ From(c) = n /\ To(c) = a /\ peers'[n][a] = c
  <2>1. peers' = [peers EXCEPT ![From(c)][To(c)] = c]
    BY Zenon, <1>7 DEF InsertPeer, Become
  <2>. QED  BY Zenon, <2>1, Ends DEF PeerTypes, PeersType
<1>8. ASSUME NEW m \in Nodes, PutBlock(m)
      PROVE  peers'[n][a] = peers[n][a] \/ crashed'[n] = "put"
  BY Zenon, <1>8, <1>d DEF PutBlock
<1>9. ASSUME NEW c \in Conns, ConnectFails(c)
      PROVE  peers'[n][a] = peers[n][a] \/ crashed'[n] = "connect"
  BY Zenon, <1>9, <1>d DEF ConnectFails
<1>. QED  BY Zenon, <1>1, <1>2, <1>3, <1>4, <1>5, <1>6, <1>7, <1>8, <1>9 DEF Next

(***************************************************************************)
(* One lost connection.                                                    *)
(***************************************************************************)
\* Nobody stops or dies but in RemovePeer, and at most one connection fails.
AtMostOneLoss ==
    /\ \A n \in Nodes : HasServer(n) /\ crashed[n] \in {None, "remove"}
    /\ faults + 1 >= scenario.faults

\* Before the first loss every Peer that was inserted, or one that replaced
\* it, is in _peers.
NothingRemoved ==
    \A c \in Conns : stage[c] \notin {"none", "absent"} => peers[From(c)][To(c)] # None

LossInv ==
    AtMostOneLoss => /\ \A n \in Nodes : Alive(n)
                     /\ faults = scenario.faults => NothingRemoved

\* A server that is there was there before.
LEMMA ServersStay ==
    ASSUME TimerInv, [Next]_vars, NEW n \in Nodes, HasServer(n)'
    PROVE  HasServer(n)
<1>1. ASSUME NEW m \in Nodes, Start(m) \/ OnTimer(m) \/ StopBegin(m) \/ StopReturn(m)
      PROVE  HasServer(n)
  BY Zenon, <1>1 DEF Start, OnTimer, StopBegin, StopReturn, HasServer, TimerInv
<1>2. CASE UNCHANGED lifeVars
  BY Zenon, <1>2 DEF lifeVars, HasServer
<1>. QED  BY Zenon, <1>1, <1>2, OtherSteps

LEMMA LossStep == NodeInv /\ LinksOk /\ LossInv /\ [Next]_vars => LossInv'
<1>. SUFFICES ASSUME NodeInv, LinksOk, LossInv, [Next]_vars, AtMostOneLoss'
              PROVE  /\ \A n \in Nodes : Alive(n)'
                     /\ faults' = scenario'.faults => NothingRemoved'
  BY Zenon DEF LossInv
<1>. PeerTypes /\ TimerInv /\ BudgetTypes
  BY Zenon DEF NodeInv, PeerInv
<1>1. Moves /\ Spent
  BY Zenon, MoveStep, BudgetMoves
<1>2. faults \in Nat /\ scenario.faults \in Nat /\ faults <= scenario.faults
  BY NodeAssumption DEF BudgetTypes, Scenario
<1>3. AtMostOneLoss
  <2>1. \A n \in Nodes : HasServer(n)
    BY Zenon, ServersStay DEF AtMostOneLoss
  <2>2. \A n \in Nodes : crashed[n] \in {None, "remove"}
    BY Zenon, <1>1 DEF AtMostOneLoss, Moves, Death
  <2>3. faults + 1 >= scenario.faults
    BY <1>1, <1>2 DEF AtMostOneLoss, Spent
  <2>. QED  BY Zenon, <2>1, <2>2, <2>3 DEF AtMostOneLoss
<1>4. /\ \A n \in Nodes : Alive(n)
      /\ faults = scenario.faults => NothingRemoved
  BY Zenon, <1>3 DEF LossInv
<1>5. ASSUME NEW c \in Conns, ConnectionLost(c)
      PROVE  faults' = faults - 1 /\ faults = scenario.faults
  <2>1. wired[c] = "up"
    BY Zenon, <1>5 DEF ConnectionLost
  <2>2. Listening(To(c))
    BY Zenon, <1>3, <1>4, <2>1, Ends DEF LinksOk, LinkOk, Listening, AtMostOneLoss
  <2>3. faults' = faults - 1
    BY Zenon, <1>5, <2>2 DEF ConnectionLost
  <2>. QED  BY <1>1, <1>2, <2>3 DEF AtMostOneLoss, Spent
<1>6. \A n \in Nodes : crashed'[n] = crashed[n]
  <2>. SUFFICES ASSUME NEW n \in Nodes, crashed'[n] # crashed[n] PROVE FALSE
    BY Zenon
  <2>1. crashed'[n] \in {None, "remove"}
    BY Zenon DEF AtMostOneLoss
  <2>2. PICK c \in Conns : /\ ConnectionLost(c) /\ From(c) = n
                           /\ peers[n][To(c)] = None /\ stage[c] # "open"
    BY Zenon, <2>1, Deaths, NodeAssumption
  <2>3. wired[c] = "up"
    BY Zenon, <2>2 DEF ConnectionLost
  <2>4. stage[c] \notin {"none", "absent"}
    BY Zenon, <2>3 DEF LinksOk, LinkOk
  <2>. QED  BY Zenon, <1>4, <1>5, <2>2, <2>4 DEF NothingRemoved
<1>7. \A n \in Nodes : Alive(n)'
  BY Zenon, <1>4, <1>6 DEF Alive
<1>8. ASSUME faults' = scenario'.faults, NEW c \in Conns, stage'[c] \notin {"none", "absent"}
      PROVE  peers'[From(c)][To(c)] # None
  <2>1. faults = scenario.faults /\ faults' = faults
    BY <1>1, <1>2, <1>8 DEF Spent
  <2>2. ~ \E d \in Conns : ConnectionLost(d)
    BY <1>2, <1>5, <2>1
  <2>3. From(c) \in Nodes /\ To(c) \in Nodes /\ crashed'[From(c)] = None
    BY Zenon, <1>7, Ends DEF Alive
  <2>4. CASE stage[c] \notin {"none", "absent"}
    <3>1. peers[From(c)][To(c)] # None
      BY Zenon, <1>4, <2>1, <2>4 DEF NothingRemoved
    <3>2. \A d \in Conns : d # None
      BY Zenon, NodeAssumption DEF Conns
    <3>. QED  BY Zenon, <2>2, <2>3, <3>1, <3>2, EntryMoves, NodeAssumption
  <2>5. CASE stage[c] \in {"none", "absent"}
    <3>1. InsertPeer(c)
      BY Zenon, <1>1, <1>8, <2>2, <2>5 DEF Moves, Move
    <3>2. peers' = [peers EXCEPT ![From(c)][To(c)] = c]
      BY Zenon, <3>1 DEF InsertPeer, Become
    <3>3. peers'[From(c)][To(c)] = c
      BY Zenon, <2>3, <3>2 DEF PeerTypes, PeersType
    <3>. QED  BY Zenon, <3>3, NodeAssumption DEF Conns
  <2>. QED  BY Zenon, <2>4, <2>5
<1>. QED  BY Zenon, <1>7, <1>8 DEF NothingRemoved

\* While nobody stops and nobody dies of something else, one lost connection
\* kills no node, however many nodes and Peers there are: the callback of the
\* first connection that fails finds its address in _peers, also when its Peer
\* has been replaced.
THEOREM OneLossAlwaysSurvived == Spec => []OneLossSurvived
<1>1. Init => LinksOk /\ LossInv
  <2>. SUFFICES ASSUME Init PROVE LinksOk /\ LossInv
    BY Zenon
  <2>1. LinksOk
    BY Zenon DEF Init, LinksOk, LinkOk
  <2>2. LossInv
    BY Zenon DEF Init, LossInv, NothingRemoved, Alive
  <2>. QED  BY Zenon, <2>1, <2>2
<1>2. LossInv => OneLossSurvived
  BY Zenon, NodeAssumption DEF LossInv, AtMostOneLoss, OneLossSurvived, Alive
<1>. QED  BY <1>1, <1>2, LinksStep, LossStep, NodeInductive, PTL DEF Spec

(***************************************************************************)
(* Introductions.                                                          *)
(***************************************************************************)
\* a has b among its peers, or is about to insert it.
Settled(a, b) ==
    \/ peers[a][b] # None
    \/ \E c \in Conns : From(c) = a /\ To(c) = b /\ stage[c] = "absent"

\* Whoever is called, and whoever's address is sent, is there, and a client
\* that was connected and not destroyed still is.
NodesThere == \A n \in Nodes : Alive(n) /\ HasServer(n)

PeersThere ==
    \A c \in Conns :
        /\ stage[c] # "none" => From(c) \in scenario.nodes /\ To(c) \in scenario.nodes
        /\ wired[c] \in {"none", "up"}
        /\ stage[c] \in {"open", "hooked", "done"} => wired[c] = "up"

RequestsThere ==
    \A r \in UnderWay(net) : To(r.conn) \in scenario.nodes /\ r.arg \in scenario.nodes

AllThere == NodesThere /\ PeersThere /\ RequestsThere

\* One of two nodes knows the other, or n's introduction is on its way on the
\* very client that the entry holds.
Met(n, a, b) ==
    \/ Settled(a, b) \/ Settled(b, a)
    \/ IntroduceReq(peers[n][a], b) \in UnderWay(net)
    \/ IntroduceReq(peers[n][b], a) \in UnderWay(net)

BothDone(n, a, b) ==
    /\ peers[n][a] # None /\ peers[n][b] # None /\ a # b
    /\ stage[peers[n][a]] = "done" /\ stage[peers[n][b]] = "done"

AllMet == \A n, a, b \in Nodes : BothDone(n, a, b) => Met(n, a, b)

CalmInv == Calm => AllThere /\ AllMet

\* When nothing fails, no process dies, no server is stopped, no connection is
\* lost, and no request of a client that is still there.
LEMMA CalmFacts ==
    ASSUME NodeInv, LinksOk, Calm, AllThere, [Next]_vars
    PROVE  /\ NodesThere'
           /\ \A c \in Conns : ~ConnectionLost(c)
           /\ \A r \in UnderWay(net) : RequestLost(r) => wired[r.conn] # "up"
           /\ Calm'
<1>. PeerTypes /\ BudgetTypes /\ NetTypes /\ Spent
  BY Zenon, BudgetMoves DEF NodeInv, PeerInv
<1>1. faults = 0 /\ puts = {} /\ stops = {}
  BY DEF Calm, BudgetTypes
<1>2. \A c \in Conns : stage[c] # "none" => Listening(To(c))
  BY Zenon, Ends DEF AllThere, NodesThere, PeersThere, Listening
<1>3. \A c \in Conns : ~ConnectFails(c)
  BY <1>1, <1>2 DEF ConnectFails
<1>4. \A c \in Conns : ~ConnectionLost(c)
  <2>. SUFFICES ASSUME NEW c \in Conns, ConnectionLost(c) PROVE FALSE
    BY Zenon
  <2>1. stage[c] # "none"
    BY Zenon DEF ConnectionLost, LinksOk, LinkOk
  <2>. QED  BY <1>1, <1>2, <2>1 DEF ConnectionLost
<1>5. \A n \in Nodes : ~PutBlock(n) /\ ~StopBegin(n)
  BY Zenon, <1>1 DEF PutBlock, StopBegin
<1>6. \A n \in Nodes : crashed'[n] = crashed[n]
  BY Zenon, <1>3, <1>4, <1>5, Deaths
<1>7. \A n \in Nodes : HasServer(n)'
  <2>1. ASSUME NEW m \in Nodes, Start(m) \/ OnTimer(m) \/ StopReturn(m), NEW n \in Nodes
        PROVE  HasServer(n)'
    BY Zenon, <2>1
       DEF Start, OnTimer, StopReturn, HasServer, NodeInv, TimerInv, AllThere, NodesThere
  <2>2. CASE UNCHANGED lifeVars
    BY Zenon, <2>2 DEF lifeVars, HasServer, AllThere, NodesThere
  <2>. QED  BY Zenon, <1>5, <2>1, <2>2, OtherSteps
<1>8. NodesThere'
  BY Zenon, <1>6, <1>7 DEF NodesThere, AllThere, Alive
<1>9. \A r \in UnderWay(net) : RequestLost(r) => wired[r.conn] # "up"
  BY Zenon, RequestEnds
     DEF RequestLost, Listening, AllThere, NodesThere, RequestsThere, NetTypes
<1>10. Calm'
  BY Zenon DEF Calm, Spent
<1>. QED  BY Zenon, <1>4, <1>8, <1>9, <1>10

LEMMA PeersThereStep ==
    ASSUME NodeInv, LinksOk, Calm, AllThere, [Next]_vars
    PROVE  PeersThere'
<1>. SUFFICES ASSUME NEW c \in Conns
              PROVE  /\ stage'[c] # "none" => From(c) \in scenario.nodes /\ To(c) \in scenario.nodes
                     /\ wired'[c] \in {"none", "up"}
                     /\ stage'[c] \in {"open", "hooked", "done"} => wired'[c] = "up"
  BY Zenon, BudgetMoves DEF PeersThere, Spent
<1>1. Move(c) /\ ~ConnectionLost(c)
  BY Zenon, MoveStep, CalmFacts DEF Moves
<1>2. CalledFor(From(c), To(c)) => From(c) \in scenario.nodes /\ To(c) \in scenario.nodes
  BY Zenon DEF CalledFor, Calm, NodeInv, BudgetTypes, AllThere, RequestsThere
<1>3. /\ stage[c] # "none" => From(c) \in scenario.nodes /\ To(c) \in scenario.nodes
      /\ wired[c] \in {"none", "up"}
      /\ stage[c] \in {"open", "hooked", "done"} => wired[c] = "up"
  BY Zenon DEF AllThere, PeersThere
<1>. QED  BY Zenon, <1>1, <1>2, <1>3 DEF Move

LEMMA RequestsThereStep ==
    ASSUME NodeInv, LinksOk, Calm, AllThere, [Next]_vars
    PROVE  RequestsThere'
<1>. PeerTypes /\ PeerInv /\ NetTypes /\ IsRequestBag(net) /\ scenario' = scenario
  BY Zenon, BudgetMoves DEF NodeInv, PeerInv, NetTypes, Spent
<1>1. ASSUME UnderWay(net') \subseteq UnderWay(net) PROVE RequestsThere'
  BY Zenon, <1>1 DEF AllThere, RequestsThere
<1>2. ASSUME NEW req, net' = Done(req) PROVE UnderWay(net') \subseteq UnderWay(net)
  BY Zenon, <1>2, BagFacts DEF Done
<1>3. ASSUME NEW c \in Conns, Connect(c), net' = AddAll(net, {AskReq(c)}) PROVE RequestsThere'
  <2>1. UnderWay(net') = UnderWay(net) \union {AskReq(c)}
    BY Zenon, <1>3, BagFacts
  <2>2. From(c) \in scenario.nodes /\ To(c) \in scenario.nodes
    BY Zenon, <1>3 DEF Connect, AllThere, PeersThere
  <2>. QED  BY <2>1, <2>2 DEF AllThere, RequestsThere, AskReq
<1>4. ASSUME NEW c \in Conns, Introduce(c),
             net' = AddAll(net, {IntroduceReq(c, p) : p \in Others(From(c), To(c))})
      PROVE  RequestsThere'
  <2>1. UnderWay(net') = UnderWay(net) \union {IntroduceReq(c, p) : p \in Others(From(c), To(c))}
    BY Zenon, <1>4, BagFacts
  <2>2. To(c) \in scenario.nodes
    BY Zenon, <1>4 DEF Introduce, AllThere, PeersThere
  <2>3. ASSUME NEW p \in Others(From(c), To(c)) PROVE p \in scenario.nodes
    <3>1. p \in Nodes /\ From(c) \in Nodes /\ peers[From(c)][p] # None
      BY Zenon, <2>3, Ends DEF Others, PeersOf
    <3>2. /\ peers[From(c)][p] \in Conns /\ To(peers[From(c)][p]) = p
          /\ stage[peers[From(c)][p]] # "none"
      BY Zenon, <3>1, EntryFacts
    <3>. QED  BY Zenon, <3>2 DEF AllThere, PeersThere
  <2>. QED  BY <2>1, <2>2, <2>3 DEF AllThere, RequestsThere, IntroduceReq
<1>5. \A n \in Nodes : crashed'[n] = None
  BY Zenon, CalmFacts DEF NodesThere, Alive
<1>. QED  BY Zenon, <1>1, <1>2, <1>3, <1>4, <1>5, NetMoves

\* Without losses, who is among the peers stays there, and who is about to be
\* inserted will be.
LEMMA SettledStays ==
    ASSUME NodeInv, LinksOk, Calm, AllThere, [Next]_vars, NEW a \in Nodes, NEW b \in Nodes,
           Settled(a, b)
    PROVE  Settled(a, b)'
<1>. PeerTypes
  BY Zenon DEF NodeInv, PeerInv
<1>1. /\ \A n \in Nodes : crashed'[n] = None
      /\ \A c \in Conns : ~ConnectionLost(c)
  BY Zenon, CalmFacts DEF NodesThere, Alive
<1>2. \A c \in Conns : c # None
  BY Zenon, NodeAssumption DEF Conns
<1>3. CASE peers[a][b] # None
  BY Zenon, <1>1, <1>2, <1>3, EntryMoves, NodeAssumption DEF Settled
<1>4. ASSUME NEW c \in Conns, From(c) = a, To(c) = b, stage[c] = "absent" PROVE Settled(a, b)'
  <2>1. stage'[c] = "absent" \/ InsertPeer(c)
    BY Zenon, <1>1, <1>4, MoveStep DEF Moves, Move
  <2>2. CASE InsertPeer(c)
    <3>1. peers' = [peers EXCEPT ![a][b] = c]
      BY Zenon, <1>4, <2>2 DEF InsertPeer, Become
    <3>. QED  BY Zenon, <1>2, <3>1 DEF Settled, PeerTypes, PeersType
  <2>. QED  BY Zenon, <1>4, <2>1, <2>2 DEF Settled
<1>. QED  BY Zenon, <1>3, <1>4 DEF Settled

\* An introduction that is handled is settled.
LEMMA HandledSettles ==
    ASSUME NodeInv, NEW a \in Nodes, NEW b \in Nodes, NEW req, RPCAddPeer(req),
           To(req.conn) = a, req.arg = b
    PROVE  Settled(a, b)'
<1>. PeerTypes
  BY Zenon DEF NodeInv, PeerInv
<1>1. CASE peers[a][b] # None
  BY Zenon, <1>1 DEF RPCAddPeer, Settled
<1>2. CASE peers[a][b] = None
  <2>1. \E who : NewPeer(a, b, who)
    BY Zenon, <1>2 DEF RPCAddPeer
  <2>2. PICK k \in 1..scenario.parallel : stage' = [stage EXCEPT ![<<a, b, k>>] = "absent"]
    BY Zenon, <2>1 DEF NewPeer
  <2>3. scenario.parallel \in 1..MaxParallel
    BY Zenon DEF PeerTypes, Scenario
  <2>4. <<a, b, k>> \in Conns
    BY <2>2, <2>3, NodeAssumption DEF Conns
  <2>5. stage'[<<a, b, k>>] = "absent"
    BY Zenon, <2>2, <2>4 DEF PeerTypes, StagesType
  <2>. QED  BY Zenon, <2>4, <2>5 DEF Settled, From, To
<1>. QED  BY Zenon, <1>1, <1>2

\* An introduction stays under way on a client that an entry holds, until it
\* is handled.
LEMMA IntroductionStays ==
    ASSUME NodeInv, LinksOk, Calm, AllThere, [Next]_vars,
           NEW n \in Nodes, NEW a \in Nodes, NEW b \in Nodes, NEW e,
           e = peers[n][a], e # None, stage[e] = "done", IntroduceReq(e, b) \in UnderWay(net)
    PROVE  IntroduceReq(e, b) \in UnderWay(net') \/ Settled(a, b)'
<1>. PeerTypes /\ PeerInv /\ IsRequestBag(net)
  BY Zenon DEF NodeInv, PeerInv, NetTypes
<1>1. e \in Conns /\ To(e) = a
  BY Zenon, EntryFacts
<1>2. wired[e] = "up"
  BY Zenon, <1>1 DEF AllThere, PeersThere
<1>. DEFINE q == IntroduceReq(e, b)
<1>3. q.conn = e /\ q.arg = b
  BY Zenon DEF IntroduceReq
<1>. HIDE DEF q
<1>4. ASSUME NEW req \in UnderWay(net), RPCAddPeer(req) \/ RequestLost(req), net' = Done(req)
      PROVE  q \in UnderWay(net') \/ Settled(a, b)'
  <2>1. CASE req # q
    BY <1>4, <2>1, BagFacts DEF Done, q
  <2>2. CASE req = q
    <3>1. RPCAddPeer(q)
      BY Zenon, <1>2, <1>3, <1>4, <2>2, CalmFacts
    <3>. QED  BY Zenon, <1>1, <1>3, <3>1, HandledSettles
  <2>. QED  BY Zenon, <2>1, <2>2
<1>5. ASSUME NEW S, net' = AddAll(net, S) PROVE q \in UnderWay(net')
  BY <1>5, BagFacts DEF q
<1>6. \A m \in Nodes : crashed'[m] = None
  BY Zenon, CalmFacts DEF NodesThere, Alive
<1>. QED  BY Zenon, <1>4, <1>5, <1>6, NetMoves DEF q

\* The RPCAddPeer that returns last introduces the two.
LEMMA LastIntroduces ==
    ASSUME NodeInv, AllThere, NEW n \in Nodes, NEW a \in Nodes, NEW b \in Nodes, NEW e,
           e = peers[n][a], e # None, peers[n][b] # None, a # b, Introduce(e)
    PROVE  IntroduceReq(e, b) \in UnderWay(net')
<1>. PeerInv /\ IsRequestBag(net)
  BY Zenon DEF NodeInv, NetTypes
<1>1. e \in Conns /\ From(e) = n /\ To(e) = a
  BY Zenon, EntryFacts
<1>2. stage[e] = "hooked"
  BY Zenon DEF Introduce
<1>3. wired[e] = "up"
  BY Zenon, <1>1, <1>2 DEF AllThere, PeersThere
<1>4. net' = AddAll(net, {IntroduceReq(e, p) : p \in Others(n, a)})
  BY Zenon, <1>1, <1>3 DEF Introduce
<1>5. b \in Others(n, a)
  BY Zenon DEF Others, PeersOf
<1>. QED  BY <1>4, <1>5, BagFacts

LEMMA AllMetStep ==
    ASSUME NodeInv, LinksOk, Calm, AllThere, AllMet, [Next]_vars
    PROVE  AllMet'
<1>. SUFFICES ASSUME NEW n \in Nodes, NEW a \in Nodes, NEW b \in Nodes, BothDone(n, a, b)'
              PROVE  Met(n, a, b)'
  BY Zenon DEF AllMet
<1>. PeerInv /\ Moves
  BY Zenon, MoveStep DEF NodeInv
<1>1. /\ \A m \in Nodes : crashed'[m] = None
      /\ \A c \in Conns : ~ConnectionLost(c)
  BY Zenon, CalmFacts DEF NodesThere, Alive
<1>2. ASSUME NEW d \in Nodes, peers'[n][d] # None, stage'[peers'[n][d]] = "done"
      PROVE  /\ peers'[n][d] = peers[n][d]
             /\ stage[peers[n][d]] = "done" \/ Introduce(peers[n][d])
  <2>1. ASSUME NEW c \in Conns, InsertPeer(c) PROVE stage'[c] # "done"
    <3>1. stage[c] = "absent"
      BY Zenon, <2>1 DEF InsertPeer
    <3>. QED  BY Zenon, <3>1 DEF Moves, Move
  <2>2. peers'[n][d] = peers[n][d]
    BY <1>1, <1>2, <2>1, EntryMoves, NodeAssumption
  <2>3. peers[n][d] \in Conns
    BY Zenon, <1>2, <2>2, EntryFacts
  <2>. QED  BY Zenon, <1>2, <2>2, <2>3 DEF Moves, Move
<1>. DEFINE e == peers[n][a]
            f == peers[n][b]
<1>3. /\ peers'[n][a] = e /\ peers'[n][b] = f /\ e # None /\ f # None /\ a # b
      /\ stage[e] = "done" \/ Introduce(e)
      /\ stage[f] = "done" \/ Introduce(f)
  BY Zenon, <1>2 DEF BothDone
<1>4. CASE Introduce(e)
  BY Zenon, <1>3, <1>4, LastIntroduces DEF Met
<1>5. CASE Introduce(f)
  BY Zenon, <1>3, <1>5, LastIntroduces DEF Met
<1>6. CASE stage[e] = "done" /\ stage[f] = "done"
  <2>1. Met(n, a, b)
    BY Zenon, <1>3, <1>6 DEF AllMet, BothDone
  <2>2. CASE Settled(a, b) \/ Settled(b, a)
    BY Zenon, <2>2, SettledStays DEF Met
  <2>3. CASE IntroduceReq(e, b) \in UnderWay(net)
    BY Zenon, <1>3, <1>6, <2>3, IntroductionStays DEF Met
  <2>4. CASE IntroduceReq(f, a) \in UnderWay(net)
    BY Zenon, <1>3, <1>6, <2>4, IntroductionStays DEF Met
  <2>. QED  BY Zenon, <2>1, <2>2, <2>3, <2>4 DEF Met
<1>. QED  BY Zenon, <1>3, <1>4, <1>5, <1>6

\* While nothing fails, no pair of peers of a node is ever left out by the
\* introductions that interleave, for any nodes, users' calls and number of
\* Peers made for an address at a time.
THEOREM AlwaysIntroduced == Spec => []Introduced
<1>1. Init => LinksOk /\ CalmInv
  <2>. SUFFICES ASSUME Init PROVE LinksOk /\ CalmInv
    BY Zenon
  <2>1. LinksOk
    BY Zenon DEF Init, LinksOk, LinkOk
  <2>2. NodesThere /\ PeersThere
    BY Zenon DEF Init, NodesThere, Alive, HasServer, PeersThere
  <2>3. RequestsThere
    BY Zenon DEF Init, RequestsThere, NoRequests, UnderWay
  <2>4. AllMet
    BY Zenon DEF Init, AllMet, BothDone
  <2>. QED  BY Zenon, <2>1, <2>2, <2>3, <2>4 DEF CalmInv, AllThere
<1>2. NodeInv /\ LinksOk /\ CalmInv /\ [Next]_vars => CalmInv'
  <2>. SUFFICES ASSUME NodeInv, LinksOk, CalmInv, [Next]_vars, Calm' PROVE AllThere' /\ AllMet'
    BY Zenon DEF CalmInv
  <2>1. Calm
    BY Zenon, BudgetMoves DEF Calm, Spent
  <2>. QED  BY Zenon, <2>1, CalmFacts, PeersThereStep, RequestsThereStep, AllMetStep
               DEF CalmInv, AllThere
<1>3. NodeInv /\ CalmInv => Introduced
  <2>. SUFFICES ASSUME NodeInv, Calm, CalmInv, NEW n \in Nodes, NEW a \in PeersOf(n), NEW b \in PeersOf(n),
                       a # b, stage[peers[n][a]] = "done", stage[peers[n][b]] = "done"
                PROVE  Knows(a, b) \/ Knows(b, a)
    BY Zenon DEF Introduced
  <2>1. a \in Nodes /\ b \in Nodes /\ peers[n][a] # None /\ peers[n][b] # None
    BY Zenon DEF PeersOf
  <2>2. Met(n, a, b)
    BY Zenon, <2>1 DEF CalmInv, AllMet, BothDone
  <2>3. To(peers[n][a]) = a /\ To(peers[n][b]) = b
    BY Zenon, <2>1, EntryFacts DEF NodeInv
  <2>4. IntroduceReq(peers[n][a], b).conn = peers[n][a] /\ IntroduceReq(peers[n][a], b).arg = b
    BY Zenon DEF IntroduceReq
  <2>5. IntroduceReq(peers[n][b], a).conn = peers[n][b] /\ IntroduceReq(peers[n][b], a).arg = a
    BY Zenon DEF IntroduceReq
  <2>6. Settled(a, b) => Knows(a, b)
    BY Zenon DEF Settled, Knows
  <2>7. Settled(b, a) => Knows(b, a)
    BY Zenon DEF Settled, Knows
  <2>. QED  BY Zenon, <2>2, <2>3, <2>4, <2>5, <2>6, <2>7 DEF Met, Knows
<1>. QED  BY <1>1, <1>2, <1>3, LinksStep, NodeInductive, PTL DEF Spec
================================================================================
