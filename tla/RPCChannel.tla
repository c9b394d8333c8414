------------------------------ MODULE RPCChannel ------------------------------
(***************************************************************************)
(* One RPCClient talking to one RPCServer::Connection over a TcpSocket     *)
(* (src/rpc/rpc.h, src/rpc/rpc.cc).                                        *)
(*                                                                         *)
(* Who takes the steps:                                                    *)
(*   Threads            user threads in call(), disconnect(), ~RPCClient   *)
(*   the client socket  RPCClient::Internal::onReceive / onDisconnect      *)
(*   the server socket  Connection::Internal::onReceive / onDisconnect     *)
(*   the worker pool    tasks enqueued on the EventManager, in any order   *)
(* A std::map operation is one step.  The socket runs one callback at a    *)
(* time, and disconnect() does not overlap a callback of its own socket.   *)
(* A request's arguments and its answer are named by the call (the Future  *)
(* that call() returned) they belong to.                                   *)
(***************************************************************************)
EXTENDS Naturals, Sequences, Functions

CONSTANTS
    Calls,      \* the Futures returned by call(), one per call made
    MethodOf,   \* MethodOf[f]: the method name that call f names
    Exported,   \* the methods the server registers at some point
    Threads,    \* the threads that call into the RPCClient
    Locked,     \* do users hold one mutex around call() and disconnect()?
    None        \* "no call", "no id", and the NULL buffer of an aborted call

ASSUME ChannelAssumption ==
    /\ Locked \in BOOLEAN
    /\ None \notin Calls
    /\ None \notin Nat

VARIABLES
    \* RPCClient::Internal
    reqId,            \* _reqId, the id of the next request
    respCallbacks,    \* _respCallbacks, a map from id to Future
    client,           \* how far the client's life has come
    iter,             \* iter[t]: the iterator of the disconnect() that t is in,
                      \* which is past the ids below it, or None
    discCallback,     \* is a user _disconnectCallback set?
    notified,         \* has it been called?
    pc,               \* pc[t]: where thread t is in call()
    key,              \* key[f]: the id under which f's callback was stored
    sets,             \* sets[f]: the values Future f was set to, in order
    overlapped,       \* history: have two disconnect() calls overlapped?
    \* RPCServer and its Connection::Internal
    funcs,            \* _funcs, the registered methods
    conn,             \* "none" before accept, "started", "closed" by us
    running,          \* requests whose function has not set its Future yet
    executed,         \* executed[f]: how often the function ran for call f
    \* epoll_threadpool: sockets and the EventManager's queue
    csock, ssock,     \* the two ends of the connection
    broken,           \* has the network lost the connection?
    toServer,         \* requests written by the client and not yet read
    toClient,         \* responses written by the server and not yet read
    workQ,            \* tasks enqueued by the server's onReceive
    doneQ             \* tasks enqueued by the client's onReceive

clientVars == <<reqId, respCallbacks, client, iter, discCallback, notified,
                pc, key, sets, overlapped>>
serverVars == <<funcs, conn, running, executed>>
socketVars == <<csock, ssock, broken, toServer, toClient, workQ, doneQ>>
vars == <<clientVars, serverVars, socketVars>>
-------------------------------------------------------------------------------
ClientPhase == {"created", "started", "disconnected", "destroying", "destroyed"}
Entry       == [id : Nat, fut : Calls]    \* a request, a response, a callback
Idle        == [at |-> "idle", fut |-> None, id |-> None]
CallState   == {Idle} \union [at : {"registered"}, fut : Calls, id : {None}]
                      \union [at : {"loaded"}, fut : Calls, id : Nat]

\* The task that the server enqueues for an unknown method.
DisconnectTask == [id |-> None, fut |-> None]

ClientTypeOK ==
    /\ reqId \in Nat
    /\ respCallbacks \subseteq Entry
    /\ client \in ClientPhase
    /\ iter \in [Threads -> Nat \union {None}]
    /\ discCallback \in BOOLEAN
    /\ notified \in BOOLEAN
    /\ pc \in [Threads -> CallState]
    /\ key \in [Calls -> Nat \union {None}]
    /\ sets \in [Calls -> Seq(Calls \union {None})]
    /\ overlapped \in BOOLEAN

ServerTypeOK ==
    /\ funcs \subseteq Exported
    /\ conn \in {"none", "started", "closed"}
    /\ running \subseteq Entry
    /\ executed \in [Calls -> Nat]

SocketTypeOK ==
    /\ csock \in {"open", "closed"}
    /\ ssock \in {"open", "closed"}
    /\ broken \in BOOLEAN
    /\ toServer \in Seq(Entry)
    /\ toClient \in Seq(Entry)
    /\ workQ \subseteq Entry \union {DisconnectTask}
    /\ doneQ \subseteq [fut : Calls, val : Calls]

\* Every variable of the client, the server and the sockets has its type; in
\* particular no callback, request or task ever names a Future that does not
\* exist (an empty callback in _respCallbacks).
TypeOK == ClientTypeOK /\ ServerTypeOK /\ SocketTypeOK

Init ==
    /\ reqId = 0
    /\ respCallbacks = {}
    /\ client = "created"
    /\ iter = [t \in Threads |-> None]
    /\ discCallback = FALSE
    /\ notified = FALSE
    /\ pc = [t \in Threads |-> Idle]
    /\ key = [f \in Calls |-> None]
    /\ sets = [f \in Calls |-> <<>>]
    /\ overlapped = FALSE
    /\ funcs = {}
    /\ conn = "none"
    /\ running = {}
    /\ executed = [f \in Calls |-> 0]
    /\ csock = "open"
    /\ ssock = "open"
    /\ broken = FALSE
    /\ toServer = <<>>
    /\ toClient = <<>>
    /\ workQ = {}
    /\ doneQ = {}
-------------------------------------------------------------------------------
(***************************************************************************)
(* The socket.  write() on an end that is closed drops the data.  An end   *)
(* learns of a close or of a failure by its disconnect callback, which may *)
(* overtake data that was still on its way.                                *)
(***************************************************************************)
ClientWrite(req) ==
    toServer' = IF csock = "open" /\ ~broken THEN Append(toServer, req)
                                             ELSE toServer

ServerWrite(resp) ==
    toClient' = IF ssock = "open" /\ ~broken THEN Append(toClient, resp)
                                             ELSE toClient

LinkFails ==
    /\ ~broken
    /\ broken' = TRUE
    /\ UNCHANGED <<clientVars, serverVars, csock, ssock, toServer, toClient,
                   workQ, doneQ>>
-------------------------------------------------------------------------------
(***************************************************************************)
(* RPCClient::call, in the three steps in which it touches shared state:   *)
(*   _respCallbacks[_reqId] = bind(&deserializeFuture<A>, ret, _1)         *)
(*   the load of _reqId by _reqId++                                        *)
(*   the store by _reqId++, then the write of the request                  *)
(***************************************************************************)
\* t is neither in call() nor in disconnect().
Outside(t) == pc[t] = Idle /\ iter[t] = None
Quiet == \A t \in Threads : Outside(t)

\* map::operator[] then assignment: replaces the value stored at id, if any.
MapAssign(map, id, f) == {e \in map : e.id # id} \union {[id |-> id, fut |-> f]}

\* A mistake in it: the request carries the id of the next call.
SerializeArgsNext(id, f) == [id |-> id + 1, fut |-> f]

SerializeArgs(id, f) == [id |-> id, fut |-> f]

CallRegister(t, f) ==
    /\ client \in {"started", "disconnected"}
    /\ Locked => Quiet
    /\ Outside(t)
    /\ key[f] = None
    /\ respCallbacks' = MapAssign(respCallbacks, reqId, f)
    /\ key' = [key EXCEPT ![f] = reqId]
    /\ pc' = [pc EXCEPT ![t] = [at |-> "registered", fut |-> f, id |-> None]]
    /\ UNCHANGED <<reqId, client, iter, discCallback, notified, sets, overlapped,
                   serverVars, socketVars>>

CallLoadId(t) ==
    /\ pc[t].at = "registered"
    /\ pc' = [pc EXCEPT ![t] = [at |-> "loaded", fut |-> pc[t].fut, id |-> reqId]]
    /\ UNCHANGED <<reqId, respCallbacks, client, iter, discCallback, notified,
                   key, sets, overlapped, serverVars, socketVars>>

CallWrite(t) ==
    /\ pc[t].at = "loaded"
    /\ reqId' = pc[t].id + 1
    /\ ClientWrite(SerializeArgs(pc[t].id, pc[t].fut))
    /\ pc' = [pc EXCEPT ![t] = Idle]
    /\ UNCHANGED <<respCallbacks, client, iter, discCallback, notified, key,
                   sets, overlapped, serverVars, csock, ssock, broken, toClient,
                   workQ, doneQ>>
-------------------------------------------------------------------------------
(***************************************************************************)
(* The rest of RPCClient.                                                  *)
(***************************************************************************)
SetDisconnectCallback ==
    /\ client \notin {"destroying", "destroyed"}
    /\ ~discCallback
    /\ discCallback' = TRUE
    /\ UNCHANGED <<reqId, respCallbacks, client, iter, notified, pc, key, sets,
                   overlapped, serverVars, socketVars>>

ClientStart ==
    /\ client = "created"
    /\ client' = "started"
    /\ UNCHANGED <<reqId, respCallbacks, iter, discCallback, notified, pc, key,
                   sets, overlapped, serverVars, socketVars>>

\* A mistake in it: the id 0 is taken for "no id".
FoundNonZero(id) == {e \in respCallbacks : e.id = id /\ id # 0}

\* _respCallbacks.find(id)
Found(id) == {e \in respCallbacks : e.id = id}

\* Internal::onReceive for one complete response in the unpacker.
ClientOnReceive ==
    /\ client = "started"
    /\ csock = "open"
    /\ toClient # <<>>
    /\ toClient' = Tail(toClient)
    /\ LET resp == Head(toClient)
       IN /\ doneQ' = doneQ \union
                      {[fut |-> e.fut, val |-> resp.fut] : e \in Found(resp.id)}
          /\ respCallbacks' = respCallbacks \ Found(resp.id)
    /\ UNCHANGED <<reqId, client, iter, discCallback, notified, pc, key, sets,
                   overlapped, serverVars, csock, ssock, broken, toServer, workQ>>

\* deserializeFuture: a NULL buffer sets the default value of the type.
DeserializeFuture(f, val) == sets' = [sets EXCEPT ![f] = Append(@, val)]

RunCallback(d) ==
    /\ d \in doneQ
    /\ doneQ' = doneQ \ {d}
    /\ DeserializeFuture(d.fut, d.val)
    /\ UNCHANGED <<reqId, respCallbacks, client, iter, discCallback, notified,
                   pc, key, overlapped, serverVars, csock, ssock, broken,
                   toServer, toClient, workQ>>

\* The event is delivered only while start()'s callbacks are installed.
ClientOnDisconnect ==
    /\ client = "started"
    /\ csock = "open"
    /\ broken \/ ssock = "closed"
    /\ csock' = "closed"
    /\ toClient' = <<>>
    /\ notified' = (notified \/ discCallback)
    /\ UNCHANGED <<reqId, respCallbacks, client, iter, discCallback, pc, key,
                   sets, overlapped, serverVars, ssock, broken, toServer, workQ,
                   doneQ>>

\* Internal::disconnect: uninstall the callbacks and close the socket ...
DisconnectBegin(t) ==
    /\ client \in {"started", "disconnected"}
    /\ Locked => Quiet
    /\ Outside(t)
    /\ client' = "disconnected"
    /\ iter' = [iter EXCEPT ![t] = 0]
    /\ overlapped' = (overlapped \/ \E u \in Threads : iter[u] # None)
    /\ csock' = "closed"
    /\ toClient' = <<>>
    /\ UNCHANGED <<reqId, respCallbacks, discCallback, notified, pc, key, sets,
                   serverVars, ssock, broken, toServer, workQ, doneQ>>

\* ~RPCClient: nobody else holds a reference, so nobody is in the client.
ClientDestroy(t) ==
    /\ client \in {"created", "started", "disconnected"}
    /\ Quiet
    /\ client' = "destroying"
    /\ discCallback' = FALSE
    /\ iter' = [iter EXCEPT ![t] = 0]
    /\ csock' = "closed"
    /\ toClient' = <<>>
    /\ UNCHANGED <<reqId, respCallbacks, notified, pc, key, sets, overlapped,
                   serverVars, ssock, broken, toServer, workQ, doneQ>>

\* A mistake in it: the first callback is passed over.
UnabortedButFirst(t) == {e \in respCallbacks : e.id > iter[t]}

\* ... call the pending callbacks with NULL, in the order of their ids ...
Unaborted(t) == {e \in respCallbacks : e.id >= iter[t]}

AbortOne(t, e) ==
    /\ iter[t] # None
    /\ e \in Unaborted(t)
    /\ \A d \in Unaborted(t) : e.id <= d.id
    /\ DeserializeFuture(e.fut, None)
    /\ iter' = [iter EXCEPT ![t] = e.id + 1]
    /\ UNCHANGED <<reqId, respCallbacks, client, discCallback, notified, pc,
                   key, overlapped, serverVars, socketVars>>

\* A mistake in it: the map is not cleared.
DisconnectEndKeeps(t) ==
    /\ iter[t] # None
    /\ Unaborted(t) = {}
    /\ iter' = [iter EXCEPT ![t] = None]
    /\ client' = IF client = "destroying" THEN "destroyed" ELSE client
    /\ UNCHANGED <<reqId, respCallbacks, discCallback, notified, pc, key, sets,
                   overlapped, serverVars, socketVars>>

\* ... and clear the map.  An iterator that another thread has in it is then
\* invalid; the model takes it to be at the end.
DisconnectEnd(t) ==
    /\ iter[t] # None
    /\ Unaborted(t) = {}
    /\ respCallbacks' = {}
    /\ iter' = [iter EXCEPT ![t] = None]
    /\ client' = IF client = "destroying" THEN "destroyed" ELSE client
    /\ UNCHANGED <<reqId, discCallback, notified, pc, key, sets, overlapped,
                   serverVars, socketVars>>
-------------------------------------------------------------------------------
(***************************************************************************)
(* RPCServer and RPCServer::Connection.                                    *)
(***************************************************************************)
RegisterFunction(m) ==
    /\ m \in Exported \ funcs
    /\ funcs' = funcs \union {m}
    /\ UNCHANGED <<clientVars, conn, running, executed, socketVars>>

\* RPCServer::onAccept: keep the connection and start it, or hand it to an
\* accept callback, which may start it and keep no reference to it.
OnAccept(keep) ==
    /\ conn = "none"
    /\ conn' = IF keep THEN "started" ELSE "closed"
    /\ ssock' = IF keep THEN ssock ELSE "closed"
    /\ UNCHANGED <<clientVars, funcs, running, executed, csock, broken,
                   toServer, toClient, workQ, doneQ>>

\* A mistake in it: a request for an unknown method is ignored.
TaskForKnown(req) == IF MethodOf[req.fut] \in funcs THEN {req} ELSE {}

\* What onReceive enqueues: the call, or a disconnect if nobody registered
\* the method.  It goes on with the requests behind it in either case.
TaskFor(req) == {IF MethodOf[req.fut] \in funcs THEN req ELSE DisconnectTask}

\* Connection::Internal::onReceive for one complete request in the unpacker.
ServerOnReceive ==
    /\ conn = "started"
    /\ ssock = "open"
    /\ toServer # <<>>
    /\ toServer' = Tail(toServer)
    /\ workQ' = workQ \union TaskFor(Head(toServer))
    /\ UNCHANGED <<clientVars, serverVars, csock, ssock, broken, toClient, doneQ>>

\* A worker runs the function; deserializeArgs gives it the arguments.
DeferredRPCCall(req) ==
    /\ req \in workQ \ {DisconnectTask}
    /\ workQ' = workQ \ {req}
    /\ executed' = [executed EXCEPT ![req.fut] = @ + 1]
    /\ running' = running \union {req}
    /\ UNCHANGED <<clientVars, funcs, conn, csock, ssock, broken, toServer,
                   toClient, doneQ>>

\* The function's Future is set: serializeFuture, then responseCallback.
ResponseCallback(req) ==
    /\ req \in running
    /\ running' = running \ {req}
    /\ ServerWrite([id |-> req.id, fut |-> req.fut])
    /\ UNCHANGED <<clientVars, funcs, conn, executed, csock, ssock, broken,
                   toServer, workQ, doneQ>>

\* Connection::Internal::disconnect, as the task enqueued for an unknown
\* method ...
RunDisconnectTask ==
    /\ DisconnectTask \in workQ
    /\ workQ' = workQ \ {DisconnectTask}
    /\ conn' = "closed"
    /\ ssock' = "closed"
    /\ UNCHANGED <<clientVars, funcs, running, executed, csock, broken,
                   toServer, toClient, doneQ>>

\* ... and as called by ~Connection, when ~RPCServer or setAcceptCallback
\* drops the connection.  The tasks it has enqueued keep their references.
DropConnection ==
    /\ conn = "started"
    /\ conn' = "closed"
    /\ ssock' = "closed"
    /\ UNCHANGED <<clientVars, funcs, running, executed, csock, broken,
                   toServer, toClient, workQ, doneQ>>

ServerOnDisconnect ==
    /\ conn = "started"
    /\ ssock = "open"
    /\ broken \/ csock = "closed"
    /\ ssock' = "closed"
    /\ toServer' = <<>>
    /\ UNCHANGED <<clientVars, serverVars, csock, broken, toClient, workQ, doneQ>>
-------------------------------------------------------------------------------
CallStep(t) == (\E f \in Calls : CallRegister(t, f)) \/ CallLoadId(t) \/ CallWrite(t)

Abort(t) == \E e \in respCallbacks : AbortOne(t, e)

Disconnect(t) == DisconnectBegin(t) \/ ClientDestroy(t) \/ Abort(t) \/ DisconnectEnd(t)

Next ==
    \/ LinkFails
    \/ \E t \in Threads : CallStep(t) \/ Disconnect(t)
    \/ SetDisconnectCallback
    \/ ClientStart
    \/ ClientOnReceive
    \/ \E d \in doneQ : RunCallback(d)
    \/ ClientOnDisconnect
    \/ \E m \in Exported : RegisterFunction(m)
    \/ \E keep \in BOOLEAN : OnAccept(keep)
    \/ ServerOnReceive
    \/ \E req \in workQ : DeferredRPCCall(req)
    \/ \E req \in running : ResponseCallback(req)
    \/ RunDisconnectTask
    \/ DropConnection
    \/ ServerOnDisconnect

Spec == Init /\ [][Next]_vars

(***************************************************************************)
(* The scheduler runs every thread and every enqueued task, the sockets    *)
(* deliver, the listener accepts and the registered functions set their    *)
(* Futures.  Nothing forces a user to call, register, disconnect or        *)
(* destroy, or the network to fail.                                        *)
(***************************************************************************)
Fairness ==
    /\ \A t \in Threads : WF_vars(CallLoadId(t)) /\ WF_vars(CallWrite(t))
    /\ \A t \in Threads : WF_vars(Abort(t)) /\ WF_vars(DisconnectEnd(t))
    /\ WF_vars(ClientOnReceive)
    /\ WF_vars(\E d \in doneQ : RunCallback(d))
    /\ WF_vars(ClientOnDisconnect)
    /\ WF_vars(\E keep \in BOOLEAN : OnAccept(keep))
    /\ WF_vars(ServerOnReceive)
    /\ WF_vars(\E req \in workQ : DeferredRPCCall(req))
    /\ WF_vars(\E req \in running : ResponseCallback(req))
    /\ WF_vars(RunDisconnectTask)
    /\ WF_vars(ServerOnDisconnect)

FairSpec == Spec /\ Fairness
-------------------------------------------------------------------------------
(***************************************************************************)
(* The channel as its user sees it, for the refinement of RPCService.      *)
(***************************************************************************)
ResultOf(f) ==
    IF key[f] = None THEN "idle"
    ELSE CASE sets[f] = <<>>     -> "pending"
           [] sets[f] = <<f>>    -> "answered"
           [] sets[f] = <<None>> -> "failed"
           [] OTHER              -> "corrupt"

Service == INSTANCE RPCService WITH
    ran    <- {f \in Calls : executed[f] > 0},
    result <- [f \in Calls |-> ResultOf(f)]

\* Users that serialise call() and disconnect() get what RPCService promises:
\* every Future is set at most once, to the answer to its own request or to
\* the default value, whatever the order in which the server's workers run
\* the requests and write the responses.
ImplementsService == Service!SSpec

\* A response that reaches RPCClient's onReceive finds its own callback in
\* _respCallbacks: "Unknown RPC response" is never logged, because call()
\* stores the callback before it writes the request.
ResponseFindsCallback ==
    client = "started" =>
        \A i \in 1..Len(toClient) : Found(toClient[i].id) = {toClient[i]}

SetAtMostOnce == \A f \in Calls : Len(sets[f]) <= 1

\* Some disconnect() has called the callback e.
Passed(e) == \E t \in Threads : iter[t] # None /\ e.id < iter[t]

\* A Future is in at most one place from which it can be set, and that place is
\* left when it is set.
OnceEach ==
    /\ SetAtMostOnce
    /\ \A t, u \in Threads : iter[t] # None /\ iter[u] # None => t = u
    /\ client \in {"created", "started"} => \A t \in Threads : iter[t] = None
    /\ \A f \in Calls : key[f] = None => sets[f] = <<>>
    /\ \A e \in respCallbacks : key[e.fut] # None /\ (sets[e.fut] = <<>> \/ Passed(e))
    /\ \A d, e \in respCallbacks : d.fut = e.fut => d = e
    /\ \A d \in doneQ :
          /\ key[d.fut] # None
          /\ sets[d.fut] = <<>>
          /\ \A e \in respCallbacks : e.fut # d.fut
    /\ \A c, d \in doneQ : c.fut = d.fut => c = d

\* No Future is set twice, with the mutex or without it: threads may race in
\* call(), and with one that is in disconnect(), and answers may arrive meanwhile.
\* Two disconnect() calls that overlap can set the same Future; nothing is said
\* from then on.
OnceInv == ~overlapped => OnceEach

\* ~RPCClient leaves nobody waiting: the Future of every call ever made of a
\* method that the server exports is set, or the task that sets it is in the
\* worker queue.  (Of other methods rpc_test.cc says that the Future's callback
\* "should never get called"; disconnect() calls it too.)
DestroyCompletesAll ==
    client = "destroyed" =>
        \A f \in Calls : MethodOf[f] \in Exported =>
            \/ key[f] = None
            \/ sets[f] # <<>>
            \/ \E d \in doneQ : d.fut = f

\* A call of a registered method is answered unless somebody closes the
\* connection, it fails, or another call on it names an unknown method.
Torn == broken \/ csock = "closed" \/ ssock = "closed"

EventuallyAnswered ==
    \A f \in Calls : (key[f] # None /\ ~Torn) ~> (sets[f] # <<>> \/ Torn)

\* A call of a method that the server does not know makes the client's
\* disconnect callback run (rpc_test.cc, ConstructionConnectBadCall), unless
\* the client itself disconnects first.
UnknownMethodNotifies ==
    \A f \in Calls :
        (/\ key[f] # None /\ MethodOf[f] \notin Exported
         /\ discCallback /\ csock = "open")
            ~> (notified \/ client # "started")

(***************************************************************************)
(* Why serialised users get this: the inductive invariant.                 *)
(***************************************************************************)
Enqueued == workQ \ {DisconnectTask}
InFlight == Range(toServer) \union Enqueued \union running \union Range(toClient)

\* One thread at a time is in the client, in call() or in disconnect().
LockInv ==
    /\ \A t, u \in Threads : ~Outside(t) /\ ~Outside(u) => t = u
    /\ \A t \in Threads : pc[t] # Idle =>
          iter[t] = None /\ client \in {"started", "disconnected"}
    /\ \A t \in Threads : iter[t] # None => client \in {"disconnected", "destroying"}

\* The call being made has the id that _reqId holds; all others are older.
IdInv ==
    /\ \A t \in Threads : pc[t] # Idle => key[pc[t].fut] = reqId
    /\ \A t \in Threads : pc[t].at = "loaded" => pc[t].id = reqId
    /\ \A f \in Calls : key[f] # None =>
          \/ key[f] < reqId
          \/ \E t \in Threads : pc[t] # Idle /\ pc[t].fut = f
    /\ \A f, g \in Calls : key[f] # None /\ key[f] = key[g] => f = g

\* Wherever an id travels it stands for the call it was given to.
KeyInv == \A e \in respCallbacks \union InFlight : key[e.fut] = e.id

\* A request is in one place, and runs when it leaves the worker queue.
ExecInv ==
    /\ IsInjective(toServer)
    /\ IsInjective(toClient)
    /\ Range(toServer) \intersect workQ = {}
    /\ running \intersect Range(toClient) = {}
    /\ \A e \in Range(toServer) \union Enqueued : executed[e.fut] = 0
    /\ \A e \in running \union Range(toClient) : executed[e.fut] = 1
    /\ \A t \in Threads : pc[t] # Idle =>
          executed[pc[t].fut] = 0 /\ \A e \in InFlight : e.fut # pc[t].fut
    /\ \A f \in Calls : executed[f] \in {0, 1}
    /\ \A f \in Calls : key[f] = None => executed[f] = 0

\* While the client listens, whatever can still be answered is registered.
FlightInv ==
    /\ client = "created" => InFlight = {}
    /\ client = "started" => InFlight \subseteq respCallbacks
    /\ client = "started" => \A t \in Threads : pc[t] # Idle =>
          [id |-> reqId, fut |-> pc[t].fut] \in respCallbacks

\* A registered or queued Future is unset; a queued answer is the right one.
SetInv ==
    /\ \A f \in Calls : sets[f] \in {<<>>, <<f>>, <<None>>}
    /\ \A f \in Calls : key[f] = None => sets[f] = <<>>
    /\ \A f \in Calls : sets[f] = <<f>> => executed[f] = 1
    /\ \A e \in respCallbacks : sets[e.fut] # <<>> <=> Passed(e)
    /\ \A d \in doneQ :
          /\ d.val = d.fut
          /\ sets[d.fut] = <<>>
          /\ executed[d.fut] = 1
          /\ key[d.fut] # None
          /\ \A e \in respCallbacks \union Range(toClient) \union running :
                e.fut # d.fut

\* No Future is forgotten.
KeptInv ==
    /\ client \in {"created", "destroyed"} => respCallbacks = {}
    /\ \A f \in Calls : key[f] # None /\ sets[f] = <<>> =>
          \/ \E e \in respCallbacks : e.fut = f
          \/ \E d \in doneQ : d.fut = f

\* With serialised users, every id in _respCallbacks, in a request, in a task
\* or in a response belongs to one call, which is in exactly one of the places
\* between call() and Future::set, and whose callback is stored until then.
ChannelInv == LockInv /\ IdInv /\ KeyInv /\ ExecInv /\ FlightInv /\ SetInv /\ KeptInv
===============================================================================
