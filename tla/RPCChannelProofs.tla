--------------------------- MODULE RPCChannelProofs ---------------------------
(***************************************************************************)
(* Proofs about RPCChannel, for any set of calls, methods and threads: the *)
(* types, and that no Future is set twice until two disconnect() calls     *)
(* overlap, which need no lock; then, when                                 *)
(* users serialise call() and disconnect() (Locked), the inductive         *)
(* invariant, what follows from it, and that the channel implements        *)
(* RPCService.                                                             *)
(***************************************************************************)
EXTENDS RPCChannel, TLAPS

(***************************************************************************)
(* The sockets' FIFOs: what write() and reading a message do to the set of *)
(* messages under way, and to the absence of duplicates.                   *)
(***************************************************************************)

\* A message appended by write() is the only one added, and a new message
\* introduces no duplicate.
LEMMA AppendFacts ==
    ASSUME NEW S, NEW s \in Seq(S), NEW x \in S
    PROVE  /\ Append(s, x) \in Seq(S)
           /\ Range(Append(s, x)) = Range(s) \union {x}
           /\ IsInjective(s) /\ x \notin Range(s) => IsInjective(Append(s, x))
<1>1. Append(s, x) \in Seq(S) /\ Len(Append(s, x)) = Len(s) + 1
  OBVIOUS
<1>2. \A i \in 1..Len(s) : Append(s, x)[i] = s[i]
  OBVIOUS
<1>3. Append(s, x)[Len(s) + 1] = x
  OBVIOUS
<1>4. DOMAIN s = 1..Len(s) /\ DOMAIN Append(s, x) = 1..(Len(s) + 1)
  BY <1>1
<1>5. Range(Append(s, x)) = Range(s) \union {x}
  BY <1>1, <1>2, <1>3, <1>4 DEF Range
<1>6. IsInjective(s) /\ x \notin Range(s) => IsInjective(Append(s, x))
  BY <1>1, <1>2, <1>3, <1>4 DEF Range, IsInjective
<1>. QED  BY Zenon, <1>1, <1>5, <1>6

\* Reading the first message of a stream removes that message and no other.
LEMMA TailFacts ==
    ASSUME NEW S, NEW s \in Seq(S), s # <<>>
    PROVE  /\ Head(s) \in S
           /\ Tail(s) \in Seq(S)
           /\ Range(s) = Range(Tail(s)) \union {Head(s)}
           /\ IsInjective(s) => IsInjective(Tail(s)) /\ Head(s) \notin Range(Tail(s))
<1>1. /\ Len(s) \in Nat \ {0}
      /\ Tail(s) \in Seq(S)
      /\ Len(Tail(s)) = Len(s) - 1
      /\ Head(s) = s[1]
      /\ Head(s) \in S
  OBVIOUS
<1>2. \A i \in 1..(Len(s) - 1) : Tail(s)[i] = s[i + 1]
  OBVIOUS
<1>3. DOMAIN s = 1..Len(s) /\ DOMAIN Tail(s) = 1..(Len(s) - 1)
  BY <1>1
<1>4. ASSUME NEW i \in 1..Len(s)
      PROVE  s[i] = Head(s) \/ \E j \in 1..(Len(s) - 1) : Tail(s)[j] = s[i]
  <2>1. CASE i = 1
    BY Zenon, <2>1, <1>1
  <2>2. CASE i # 1
    <3>1. i - 1 \in 1..(Len(s) - 1) /\ (i - 1) + 1 = i
      BY <2>2, <1>1
    <3>. QED  BY Zenon, <3>1, <1>2
  <2>. QED  BY Zenon, <2>1, <2>2
<1>5. \A j \in 1..(Len(s) - 1) : j + 1 \in 1..Len(s)
  BY <1>1
<1>6. Range(s) = Range(Tail(s)) \union {Head(s)}
  <2>1. Range(s) \subseteq Range(Tail(s)) \union {Head(s)}
    BY Zenon, <1>3, <1>4 DEF Range
  <2>2. Range(Tail(s)) \subseteq Range(s)
    BY Zenon, <1>2, <1>3, <1>5 DEF Range
  <2>3. Head(s) \in Range(s)
    BY <1>1, <1>3 DEF Range
  <2>. QED  BY Zenon, <2>1, <2>2, <2>3
<1>7. IsInjective(s) => IsInjective(Tail(s)) /\ Head(s) \notin Range(Tail(s))
  BY <1>1, <1>2, <1>3, <1>5 DEF Range, IsInjective
<1>. QED  BY Zenon, <1>1, <1>6, <1>7
-------------------------------------------------------------------------------
(***************************************************************************)
(* Type correctness.                                                       *)
(***************************************************************************)
USE DEF vars, clientVars, serverVars, socketVars

\* Every step of the client, the server, the sockets and the workers keeps
\* every variable in its type.
LEMMA TypeStep == TypeOK /\ [Next]_vars => TypeOK'
<1>. SUFFICES ASSUME ClientTypeOK, ServerTypeOK, SocketTypeOK, [Next]_vars
              PROVE  TypeOK'
  BY Zenon DEF TypeOK
<1>1. /\ UNCHANGED clientVars => ClientTypeOK'
      /\ UNCHANGED serverVars => ServerTypeOK'
      /\ UNCHANGED socketVars => SocketTypeOK'
  BY Zenon DEF ClientTypeOK, ServerTypeOK, SocketTypeOK
<1>2. ASSUME NEW t \in Threads, NEW f \in Calls, CallRegister(t, f)
      PROVE  TypeOK'
  <2>1. ClientTypeOK'
    BY <1>2 DEF CallRegister, MapAssign, CallState, Entry, ClientTypeOK
  <2>. QED  BY Zenon, <1>1, <1>2, <2>1 DEF TypeOK, CallRegister
<1>3. ASSUME NEW t \in Threads, CallLoadId(t)
      PROVE  TypeOK'
  <2>1. ClientTypeOK'
    BY <1>3 DEF CallLoadId, CallState, Idle, ClientTypeOK
  <2>. QED  BY Zenon, <1>1, <1>3, <2>1 DEF TypeOK, CallLoadId
<1>4. ASSUME NEW t \in Threads, CallWrite(t)
      PROVE  TypeOK'
  <2>1. ClientTypeOK'
    BY <1>4 DEF CallWrite, CallState, Idle, ClientTypeOK
  <2>2. SocketTypeOK'
    <3>1. SerializeArgs(pc[t].id, pc[t].fut) \in Entry
      BY <1>4 DEF CallWrite, SerializeArgs, Entry, ClientTypeOK, CallState, Idle
    <3>2. toServer' \in Seq(Entry)
      BY <1>4, <3>1 DEF CallWrite, ClientWrite, SocketTypeOK
    <3>. QED  BY Zenon, <1>4, <3>2 DEF CallWrite, SocketTypeOK
  <2>. QED  BY Zenon, <1>1, <1>4, <2>1, <2>2 DEF TypeOK, CallWrite
<1>5. CASE ClientOnReceive
  <2>1. ClientTypeOK'
    BY Zenon, <1>5 DEF ClientOnReceive, ClientTypeOK
  <2>2. SocketTypeOK'
    <3>1. Head(toClient) \in Entry /\ Tail(toClient) \in Seq(Entry)
      BY Zenon, <1>5, TailFacts DEF ClientOnReceive, SocketTypeOK
    <3>. QED  BY <1>5, <3>1
        DEF ClientOnReceive, Found, ClientTypeOK, Entry, SocketTypeOK
  <2>. QED  BY Zenon, <1>1, <1>5, <2>1, <2>2 DEF TypeOK, ClientOnReceive
<1>6. ASSUME NEW d \in doneQ, RunCallback(d)
      PROVE  TypeOK'
  <2>1. ClientTypeOK'
    BY <1>6 DEF RunCallback, SocketTypeOK, DeserializeFuture, ClientTypeOK
  <2>2. SocketTypeOK'
    BY Zenon, <1>6 DEF RunCallback, SocketTypeOK
  <2>. QED  BY Zenon, <1>1, <1>6, <2>1, <2>2 DEF TypeOK, RunCallback
<1>7. ASSUME NEW t \in Threads, NEW e \in respCallbacks, AbortOne(t, e)
      PROVE  TypeOK'
  <2>1. ClientTypeOK'
    BY <1>7 DEF AbortOne, Entry, DeserializeFuture, ClientTypeOK
  <2>. QED  BY Zenon, <1>1, <1>7, <2>1 DEF TypeOK, AbortOne
<1>8. ASSUME NEW t \in Threads, DisconnectEnd(t)
      PROVE  TypeOK'
  <2>1. ClientTypeOK'
    BY <1>8 DEF DisconnectEnd, ClientPhase, ClientTypeOK
  <2>. QED  BY Zenon, <1>1, <1>8, <2>1 DEF TypeOK, DisconnectEnd
<1>9. CASE ServerOnReceive
  <2>1. SocketTypeOK'
    <3>1. Head(toServer) \in Entry /\ Tail(toServer) \in Seq(Entry)
      BY Zenon, <1>9, TailFacts DEF ServerOnReceive, SocketTypeOK
    <3>. QED  BY Zenon, <1>9, <3>1 DEF ServerOnReceive, TaskFor, SocketTypeOK
  <2>. QED  BY Zenon, <1>1, <1>9, <2>1 DEF TypeOK, ServerOnReceive
<1>10. ASSUME NEW req \in workQ, DeferredRPCCall(req)
      PROVE  TypeOK'
  <2>1. ServerTypeOK'
    BY <1>10 DEF DeferredRPCCall, SocketTypeOK, Entry, ServerTypeOK
  <2>2. SocketTypeOK'
    BY Zenon, <1>10 DEF DeferredRPCCall, SocketTypeOK
  <2>. QED  BY Zenon, <1>1, <1>10, <2>1, <2>2 DEF TypeOK, DeferredRPCCall
<1>11. ASSUME NEW req \in running, ResponseCallback(req)
      PROVE  TypeOK'
  <2>1. ServerTypeOK'
    BY Zenon, <1>11 DEF ResponseCallback, ServerTypeOK
  <2>2. SocketTypeOK'
    <3>1. [id |-> req.id, fut |-> req.fut] \in Entry
      BY Zenon DEF ServerTypeOK, Entry
    <3>2. toClient' \in Seq(Entry)
      BY <1>11, <3>1 DEF ResponseCallback, ServerWrite, SocketTypeOK
    <3>. QED  BY Zenon, <1>11, <3>2 DEF ResponseCallback, SocketTypeOK
  <2>. QED  BY Zenon, <1>1, <1>11, <2>1, <2>2 DEF TypeOK, ResponseCallback
<1>12. CASE LinkFails
  <2>1. SocketTypeOK'
    BY Zenon, <1>12 DEF LinkFails, SocketTypeOK
  <2>. QED  BY Zenon, <1>1, <1>12, <2>1 DEF TypeOK, LinkFails
<1>13. CASE SetDisconnectCallback
  <2>1. ClientTypeOK'
    BY Zenon, <1>13 DEF SetDisconnectCallback, ClientTypeOK
  <2>. QED  BY Zenon, <1>1, <1>13, <2>1 DEF TypeOK, SetDisconnectCallback
<1>14. CASE ClientStart
  <2>1. ClientTypeOK'
    BY Zenon, <1>14 DEF ClientStart, ClientPhase, ClientTypeOK
  <2>. QED  BY Zenon, <1>1, <1>14, <2>1 DEF TypeOK, ClientStart
<1>15. CASE ClientOnDisconnect
  <2>1. ClientTypeOK'
    BY Zenon, <1>15 DEF ClientOnDisconnect, ClientTypeOK
  <2>2. SocketTypeOK'
    BY <1>15 DEF ClientOnDisconnect, SocketTypeOK
  <2>. QED  BY Zenon, <1>1, <1>15, <2>1, <2>2 DEF TypeOK, ClientOnDisconnect
<1>16. ASSUME NEW t \in Threads, DisconnectBegin(t)
      PROVE  TypeOK'
  <2>1. ClientTypeOK'
    BY <1>16 DEF DisconnectBegin, ClientPhase, ClientTypeOK
  <2>2. SocketTypeOK'
    BY <1>16 DEF DisconnectBegin, SocketTypeOK
  <2>. QED  BY Zenon, <1>1, <1>16, <2>1, <2>2 DEF TypeOK, DisconnectBegin
<1>17. ASSUME NEW t \in Threads, ClientDestroy(t)
      PROVE  TypeOK'
  <2>1. ClientTypeOK'
    BY <1>17 DEF ClientDestroy, ClientPhase, ClientTypeOK
  <2>2. SocketTypeOK'
    BY <1>17 DEF ClientDestroy, SocketTypeOK
  <2>. QED  BY Zenon, <1>1, <1>17, <2>1, <2>2 DEF TypeOK, ClientDestroy
<1>18. ASSUME NEW m \in Exported, RegisterFunction(m)
      PROVE  TypeOK'
  <2>1. ServerTypeOK'
    BY Zenon, <1>18 DEF RegisterFunction, ServerTypeOK
  <2>. QED  BY Zenon, <1>1, <1>18, <2>1 DEF TypeOK, RegisterFunction
<1>19. ASSUME NEW keep \in BOOLEAN, OnAccept(keep)
      PROVE  TypeOK'
  <2>1. ServerTypeOK'
    BY Zenon, <1>19 DEF OnAccept, ServerTypeOK
  <2>2. SocketTypeOK'
    BY Zenon, <1>19 DEF OnAccept, SocketTypeOK
  <2>. QED  BY Zenon, <1>1, <1>19, <2>1, <2>2 DEF TypeOK, OnAccept
<1>20. CASE RunDisconnectTask
  <2>1. ServerTypeOK'
    BY Zenon, <1>20 DEF RunDisconnectTask, ServerTypeOK
  <2>2. SocketTypeOK'
    BY Zenon, <1>20 DEF RunDisconnectTask, SocketTypeOK
  <2>. QED  BY Zenon, <1>1, <1>20, <2>1, <2>2 DEF TypeOK, RunDisconnectTask
<1>21. CASE DropConnection
  <2>1. ServerTypeOK'
    BY Zenon, <1>21 DEF DropConnection, ServerTypeOK
  <2>2. SocketTypeOK'
    BY Zenon, <1>21 DEF DropConnection, SocketTypeOK
  <2>. QED  BY Zenon, <1>1, <1>21, <2>1, <2>2 DEF TypeOK, DropConnection
<1>22. CASE ServerOnDisconnect
  <2>1. SocketTypeOK'
    BY <1>22 DEF ServerOnDisconnect, SocketTypeOK
  <2>. QED  BY Zenon, <1>1, <1>22, <2>1 DEF TypeOK, ServerOnDisconnect
<1>23. CASE UNCHANGED vars
  BY Zenon, <1>1, <1>23 DEF TypeOK
<1>. QED
  BY Zenon, <1>2, <1>3, <1>4, <1>5, <1>6, <1>7, <1>8, <1>9, <1>10, <1>11, <1>12,
     <1>13, <1>14, <1>15, <1>16, <1>17, <1>18, <1>19, <1>20, <1>21, <1>22, <1>23
     DEF Next, CallStep, Disconnect, Abort

\* Whatever users, network and scheduler do, the client's, the server's and
\* the sockets' state stays well formed.
THEOREM TypeCorrect == Spec => []TypeOK
<1>1. Init => TypeOK
  <2>. SUFFICES ASSUME Init PROVE TypeOK
    BY Zenon
  <2>1. ClientTypeOK
    <3>1. pc \in [Threads -> CallState]
      BY Zenon DEF Init, CallState
    <3>2. sets \in [Calls -> Seq(Calls \union {None})]
      BY DEF Init
    <3>3. key \in [Calls -> Nat \union {None}]
      BY Zenon DEF Init
    <3>4. iter \in [Threads -> Nat \union {None}]
      BY Zenon DEF Init
    <3>. QED  BY Zenon, <3>1, <3>2, <3>3, <3>4 DEF Init, ClientTypeOK, ClientPhase
  <2>2. ServerTypeOK
    BY Zenon DEF Init, ServerTypeOK
  <2>3. SocketTypeOK
    <3>1. toServer \in Seq(Entry) /\ toClient \in Seq(Entry)
      BY DEF Init
    <3>. QED  BY Zenon, <3>1 DEF Init, SocketTypeOK
  <2>. QED  BY Zenon, <2>1, <2>2, <2>3 DEF TypeOK
<1>. QED  BY <1>1, TypeStep, PTL DEF Spec

\* The types that the proofs use.
LEMMA Typing ==
    ASSUME TypeOK
    PROVE  /\ reqId \in Nat /\ iter \in [Threads -> Nat \union {None}]
           /\ client \in ClientPhase
           /\ pc \in [Threads -> CallState]
           /\ key \in [Calls -> Nat \union {None}]
           /\ sets \in [Calls -> Seq(Calls \union {None})]
           /\ executed \in [Calls -> Nat]
           /\ respCallbacks \subseteq Entry
           /\ InFlight \subseteq Entry
           /\ toServer \in Seq(Entry) /\ toClient \in Seq(Entry)
           /\ workQ \subseteq Entry \union {DisconnectTask}
           /\ running \subseteq Entry
           /\ doneQ \subseteq [fut : Calls, val : Calls]
<1>1. Range(toServer) \subseteq Entry /\ Range(toClient) \subseteq Entry
  BY DEF TypeOK, SocketTypeOK, Range
<1>. QED
  BY Zenon, <1>1 DEF TypeOK, ClientTypeOK, ServerTypeOK, SocketTypeOK, InFlight, Enqueued
-------------------------------------------------------------------------------
(***************************************************************************)
(* What holds without any lock: no Future is set twice until two           *)
(* disconnect() calls overlap.                                             *)
(***************************************************************************)

\* Setting one Future that was unset keeps all Futures set at most once.
LEMMA SetOne ==
    ASSUME TypeOK, SetAtMostOnce,
           NEW f \in Calls, NEW v \in Calls \union {None},
           sets[f] = <<>>, DeserializeFuture(f, v)
    PROVE  /\ SetAtMostOnce'
           /\ \A g \in Calls : g # f => sets'[g] = sets[g]
<1>1. sets' = [sets EXCEPT ![f] = <<v>>]
  BY DEF DeserializeFuture
<1>2. Len(sets'[f]) <= 1 /\ \A g \in Calls : g # f => sets'[g] = sets[g]
  BY <1>1, Typing
<1>3. \A g \in Calls : Len(sets'[g]) <= 1
  <2>. TAKE g \in Calls
  <2>1. CASE g = f
    BY Zenon, <1>2, <2>1
  <2>2. CASE g # f
    BY Zenon, <1>2, <2>2 DEF SetAtMostOnce
  <2>. QED  BY Zenon, <2>1, <2>2
<1>. QED  BY Zenon, <1>2, <1>3 DEF SetAtMostOnce

\* A disconnect() that is alone calls one callback more, which it had not called.
LEMMA AbortPasses ==
    ASSUME TypeOK, NEW t \in Threads, NEW e \in respCallbacks, AbortOne(t, e),
           \A u \in Threads : iter[u] # None => u = t
    PROVE  /\ ~Passed(e)
           /\ \A d \in respCallbacks : Passed(d)' <=> Passed(d) \/ d.id = e.id
<1>1. /\ iter[t] \in Nat /\ e.id \in Nat /\ e.id >= iter[t]
      /\ iter'[t] = e.id + 1 /\ e.id + 1 # None
      /\ \A u \in Threads : u # t => iter'[u] = None /\ iter[u] = None
      /\ \A d \in respCallbacks : d.id \in Nat /\ (d.id >= iter[t] => e.id <= d.id)
  BY Typing, ChannelAssumption DEF AbortOne, Unaborted, Entry
<1>2. \A d \in respCallbacks : Passed(d) <=> d.id < iter[t]
  BY Zenon, <1>1, ChannelAssumption DEF Passed
<1>3. \A d \in respCallbacks : Passed(d)' <=> d.id < e.id + 1
  BY Zenon, <1>1 DEF Passed
<1>. QED  BY <1>1, <1>2, <1>3

\* A step without overlapping disconnect() calls keeps every Future in at most
\* one place.
LEMMA OnceStep == TypeOK /\ OnceInv /\ [Next]_vars => OnceInv'
<1>. SUFFICES ASSUME TypeOK, OnceInv, [Next]_vars, ~overlapped'
              PROVE  OnceEach'
  BY Zenon DEF OnceInv
<1>a. ~overlapped
  BY Zenon DEF Next, CallStep, Disconnect, Abort, CallRegister, CallLoadId, CallWrite,
     DisconnectBegin, ClientDestroy, AbortOne, DisconnectEnd, LinkFails,
     SetDisconnectCallback, ClientStart, ClientOnReceive, RunCallback,
     ClientOnDisconnect, RegisterFunction, OnAccept, ServerOnReceive, DeferredRPCCall,
     ResponseCallback, RunDisconnectTask, DropConnection, ServerOnDisconnect
<1>b. OnceEach
  BY Zenon, <1>a DEF OnceInv
<1>0. \A e \in respCallbacks \union doneQ : e.fut \in Calls
  BY Zenon, Typing DEF Entry
<1>1. ASSUME NEW t \in Threads, NEW f \in Calls, CallRegister(t, f)
      PROVE  OnceEach'
  <2>1. /\ key[f] = None /\ key'[f] # None
        /\ \A g \in Calls : g # f => key'[g] = key[g]
        /\ UNCHANGED <<sets, doneQ, client, iter>>
    BY Zenon, <1>1, Typing, ChannelAssumption DEF CallRegister
  <2>2. /\ \A e \in respCallbacks' :
              e \in respCallbacks \/ e = [id |-> reqId, fut |-> f]
        /\ \A e \in respCallbacks \union doneQ : e.fut # f
        /\ sets[f] = <<>>
    BY Zenon, <1>b, <1>1, <2>1 DEF CallRegister, MapAssign, OnceEach
  <2>3. /\ SetAtMostOnce'
        /\ \A g \in Calls : key'[g] = None => sets'[g] = <<>>
    BY SMTT(30), <1>b, <2>1 DEF OnceEach, SetAtMostOnce
  <2>4. \A e \in respCallbacks' : key'[e.fut] # None
                                /\ (sets'[e.fut] = <<>> \/ Passed(e)')
    BY SMTT(30), <1>b, <1>0, <2>1, <2>2 DEF OnceEach, Passed
  <2>5. \A d, e \in respCallbacks' : d.fut = e.fut => d = e
    BY <1>b, <2>2 DEF OnceEach
  <2>6. \A d \in doneQ' : /\ key'[d.fut] # None /\ sets'[d.fut] = <<>>
                          /\ \A e \in respCallbacks' : e.fut # d.fut
    BY <1>b, <1>0, <2>1, <2>2 DEF OnceEach
  <2>. QED  BY Zenon, <1>b, <2>1, <2>3, <2>4, <2>5, <2>6 DEF OnceEach
<1>2. CASE ClientOnReceive
  <2>. DEFINE resp == Head(toClient)
              new  == {[fut |-> e.fut, val |-> resp.fut] : e \in Found(resp.id)}
  <2>1. /\ doneQ' = doneQ \union new
        /\ respCallbacks' = respCallbacks \ Found(resp.id)
        /\ client = "started"
        /\ UNCHANGED <<sets, key, client, iter>>
    BY Zenon, <1>2 DEF ClientOnReceive
  <2>2. \A d \in new : /\ \E e \in Found(resp.id) : e.fut = d.fut
                       /\ d.val = resp.fut
    OBVIOUS
  <2>3. \A d \in new : /\ d.fut \in Calls /\ key[d.fut] # None /\ sets[d.fut] = <<>>
                       /\ \A e \in respCallbacks' : e.fut # d.fut
                       /\ \A c \in doneQ : c.fut # d.fut
    BY <1>b, <1>0, <2>1, <2>2 DEF Found, OnceEach, Passed
  <2>4. \A c, d \in new : c.fut = d.fut => c = d
    OBVIOUS
  <2>5. \A c, d \in doneQ' : c.fut = d.fut => c = d
    BY <1>b, <2>1, <2>3, <2>4 DEF OnceEach
  <2>6. \A d \in doneQ' : /\ key'[d.fut] # None /\ sets'[d.fut] = <<>>
                          /\ \A e \in respCallbacks' : e.fut # d.fut
    BY Zenon, <1>b, <2>1, <2>3 DEF OnceEach
  <2>. QED  BY Zenon, <1>b, <2>1, <2>5, <2>6 DEF OnceEach, SetAtMostOnce, Passed
<1>3. ASSUME NEW d \in doneQ, RunCallback(d)
      PROVE  OnceEach'
  <2>1. /\ d.fut \in Calls /\ d.val \in Calls \union {None} /\ sets[d.fut] = <<>>
        /\ key[d.fut] # None
    BY Zenon, <1>b, Typing DEF OnceEach
  <2>2. /\ doneQ' = doneQ \ {d} /\ DeserializeFuture(d.fut, d.val)
        /\ UNCHANGED <<key, respCallbacks, client, iter>>
    BY Zenon, <1>3 DEF RunCallback
  <2>3. SetAtMostOnce' /\ \A g \in Calls : g # d.fut => sets'[g] = sets[g]
    BY Zenon, <1>b, <2>1, <2>2, SetOne DEF OnceEach
  <2>4. \A e \in respCallbacks \union doneQ' : e.fut # d.fut
    BY Zenon, <1>b, <2>2 DEF OnceEach
  <2>5. \A g \in Calls : key'[g] = None => sets'[g] = <<>>
    BY Zenon, <1>b, <2>1, <2>2, <2>3 DEF OnceEach
  <2>6. \A e \in respCallbacks' : sets'[e.fut] = sets[e.fut]
    BY Zenon, <1>0, <2>2, <2>3, <2>4
  <2>7. \A c \in doneQ' : sets'[c.fut] = sets[c.fut]
    BY Zenon, <1>0, <2>2, <2>3, <2>4
  <2>. QED  BY Zenon, <1>b, <2>2, <2>3, <2>5, <2>6, <2>7 DEF OnceEach, Passed
<1>4. ASSUME NEW t \in Threads, NEW e \in respCallbacks, AbortOne(t, e)
      PROVE  OnceEach'
  <2>1. /\ DeserializeFuture(e.fut, None)
        /\ iter[t] # None /\ e.fut \in Calls
        /\ \A u \in Threads : u # t => iter'[u] = iter[u]
        /\ UNCHANGED <<key, respCallbacks, doneQ, client>>
    BY Zenon, <1>0, <1>4, Typing DEF AbortOne
  <2>2. \A u \in Threads : iter[u] # None => u = t
    BY Zenon, <1>b, <2>1 DEF OnceEach
  <2>3. /\ ~Passed(e)
        /\ \A d \in respCallbacks : Passed(d)' <=> Passed(d) \/ d.id = e.id
    BY Zenon, <1>4, <2>2, AbortPasses
  <2>4. sets[e.fut] = <<>> /\ key[e.fut] # None
    BY Zenon, <1>b, <2>3 DEF OnceEach
  <2>5. SetAtMostOnce' /\ \A g \in Calls : g # e.fut => sets'[g] = sets[g]
    BY Zenon, <1>b, <2>1, <2>4, SetOne DEF OnceEach
  <2>6. \A d \in respCallbacks' : /\ key'[d.fut] # None
                                  /\ sets'[d.fut] = <<>> \/ Passed(d)'
    <3>. SUFFICES ASSUME NEW d \in respCallbacks
                  PROVE  sets'[d.fut] = <<>> \/ Passed(d)'
      BY Zenon, <1>b, <2>1 DEF OnceEach
    <3>1. CASE d = e
      BY Zenon, <2>3, <3>1
    <3>2. CASE d # e
      <4>1. sets'[d.fut] = sets[d.fut]
        BY Zenon, <1>0, <1>b, <2>5, <3>2 DEF OnceEach
      <4>. QED  BY Zenon, <1>b, <2>3, <4>1 DEF OnceEach
    <3>. QED  BY Zenon, <3>1, <3>2
  <2>7. \A g \in Calls : key'[g] = None => sets'[g] = <<>>
    BY Zenon, <1>b, <2>1, <2>4, <2>5 DEF OnceEach
  <2>8. \A c \in doneQ' : sets'[c.fut] = <<>>
    BY Zenon, <1>0, <1>b, <2>1, <2>5 DEF OnceEach
  <2>9. /\ \A u, v \in Threads : iter'[u] # None /\ iter'[v] # None => u = v
        /\ client' \in {"created", "started"} => \A u \in Threads : iter'[u] = None
    BY Zenon, <1>b, <2>1, <2>2 DEF OnceEach
  <2>. QED  BY Zenon, <1>b, <2>1, <2>5, <2>6, <2>7, <2>8, <2>9 DEF OnceEach
<1>5. ASSUME NEW t \in Threads, DisconnectEnd(t)
      PROVE  OnceEach'
  <2>1. /\ respCallbacks' = {} /\ UNCHANGED <<sets, key, doneQ>>
        /\ \A u \in Threads : iter'[u] # None => iter[u] # None
        /\ iter[t] # None
        /\ client' = client \/ client' = "destroyed"
    BY Zenon, <1>5, Typing DEF DisconnectEnd
  <2>. QED  BY Zenon, <1>b, <2>1 DEF OnceEach, SetAtMostOnce
<1>6. ASSUME NEW t \in Threads, DisconnectBegin(t) \/ ClientDestroy(t)
      PROVE  OnceEach'
  <2>1. /\ UNCHANGED <<sets, key, respCallbacks, doneQ>>
        /\ \A u \in Threads : iter[u] = None
        /\ \A u \in Threads : u # t => iter'[u] = None
        /\ client' \in {"disconnected", "destroying"}
    BY Zenon, <1>6, Typing DEF DisconnectBegin, ClientDestroy, Quiet, Outside
  <2>2. \A e \in respCallbacks : sets[e.fut] = <<>>
    BY Zenon, <1>b, <2>1 DEF OnceEach, Passed
  <2>. QED  BY Zenon, <1>b, <2>1, <2>2 DEF OnceEach, SetAtMostOnce
<1>7. CASE ClientStart
  <2>1. UNCHANGED <<sets, key, respCallbacks, doneQ, iter>> /\ client = "created"
    BY Zenon, <1>7 DEF ClientStart
  <2>. QED  BY Zenon, <1>b, <2>1 DEF OnceEach, SetAtMostOnce, Passed
<1>8. ASSUME UNCHANGED <<sets, key, respCallbacks, doneQ, client, iter>>
      PROVE  OnceEach'
  BY Zenon, <1>b, <1>8 DEF OnceEach, SetAtMostOnce, Passed
<1>9. CASE \/ \E t \in Threads : CallLoadId(t) \/ CallWrite(t)
           \/ LinkFails \/ SetDisconnectCallback \/ ClientOnDisconnect
  BY Zenon, <1>8, <1>9 DEF CallLoadId, CallWrite, LinkFails, SetDisconnectCallback,
     ClientOnDisconnect
<1>10. CASE \/ \E m \in Exported : RegisterFunction(m)
            \/ \E keep \in BOOLEAN : OnAccept(keep)
            \/ \E req \in workQ : DeferredRPCCall(req)
            \/ \E req \in running : ResponseCallback(req)
            \/ ServerOnReceive \/ RunDisconnectTask \/ DropConnection
            \/ ServerOnDisconnect
  BY Zenon, <1>8, <1>10 DEF RegisterFunction, OnAccept, DeferredRPCCall, ResponseCallback,
     ServerOnReceive, RunDisconnectTask, DropConnection, ServerOnDisconnect
<1>11. CASE UNCHANGED vars
  BY Zenon, <1>8, <1>11
<1>. QED
  BY Zenon, <1>1, <1>2, <1>3, <1>4, <1>5, <1>6, <1>7, <1>9, <1>10, <1>11
  DEF Next, CallStep, Disconnect, Abort

\* However many threads race in call(), and with a thread that disconnects, no
\* Future is set twice, as long as disconnect() calls do not overlap.
THEOREM FuturesSetAtMostOnce == Spec => []OnceInv
<1>1. Init => OnceInv
  BY DEF Init, OnceInv, OnceEach, SetAtMostOnce
<1>. QED  BY <1>1, OnceStep, TypeCorrect, PTL DEF Spec

USE DEF vars, clientVars, serverVars, socketVars

\* An entry is determined by its Future, and by its id.
LEMMA Entries ==
    ASSUME TypeOK, ChannelInv
    PROVE  \A d, e \in respCallbacks \union InFlight :
             /\ e.fut \in Calls /\ e.id \in Nat /\ key[e.fut] = e.id /\ e.id # None
             /\ d.fut = e.fut => d = e
             /\ d.id = e.id => d = e
<1>. SUFFICES ASSUME NEW d \in respCallbacks \union InFlight,
                     NEW e \in respCallbacks \union InFlight
              PROVE  /\ e.fut \in Calls /\ e.id \in Nat /\ key[e.fut] = e.id /\ e.id # None
                     /\ d.fut = e.fut => d = e
                     /\ d.id = e.id => d = e
  BY Zenon
<1>1. d \in Entry /\ e \in Entry
  BY Zenon, Typing
<1>2. /\ e.fut \in Calls /\ e.id \in Nat /\ d.fut \in Calls /\ d.id \in Nat
      /\ d = [id |-> d.id, fut |-> d.fut] /\ e = [id |-> e.id, fut |-> e.fut]
  BY Zenon, <1>1 DEF Entry
<1>3. key[d.fut] = d.id /\ key[e.fut] = e.id
  BY Zenon DEF ChannelInv, KeyInv
<1>4. e.id # None /\ d.id # None
  BY Zenon, <1>2, ChannelAssumption
<1>5. d.id = e.id => d.fut = e.fut
  BY Zenon, <1>2, <1>3, <1>4 DEF ChannelInv, IdInv
<1>. QED  BY Zenon, <1>2, <1>3, <1>4, <1>5

LEMMA Frame ==
    ASSUME ChannelInv
    PROVE  /\ UNCHANGED <<pc, iter, client>> => LockInv'
           /\ UNCHANGED <<pc, key, reqId>> => IdInv'
           /\ UNCHANGED <<respCallbacks, key, toServer, workQ, running, toClient>>
                => KeyInv'
           /\ UNCHANGED <<toServer, workQ, running, toClient, executed, pc, key>>
                => ExecInv'
           /\ UNCHANGED <<client, respCallbacks, pc, reqId, toServer, workQ,
                          running, toClient>> => FlightInv'
           /\ UNCHANGED <<sets, key, executed, respCallbacks, iter, doneQ,
                          toClient, running>> => SetInv'
           /\ UNCHANGED <<client, respCallbacks, key, sets, doneQ>> => KeptInv'
<1>. USE DEF ChannelInv
<1>1. UNCHANGED <<pc, iter, client>> => LockInv'
  BY Zenon DEF LockInv, Outside
<1>2. UNCHANGED <<pc, key, reqId>> => IdInv'
  BY Zenon DEF IdInv
<1>3. UNCHANGED <<respCallbacks, key, toServer, workQ, running, toClient>> => KeyInv'
  BY Zenon DEF KeyInv, InFlight, Enqueued
<1>4. UNCHANGED <<toServer, workQ, running, toClient, executed, pc, key>> => ExecInv'
  BY Zenon DEF ExecInv, InFlight, Enqueued
<1>5. UNCHANGED <<client, respCallbacks, pc, reqId, toServer, workQ, running, toClient>>
        => FlightInv'
  BY Zenon DEF FlightInv, InFlight, Enqueued
<1>6. UNCHANGED <<sets, key, executed, respCallbacks, iter, doneQ,
                  toClient, running>> => SetInv'
  BY Zenon DEF SetInv, Passed
<1>7. UNCHANGED <<client, respCallbacks, key, sets, doneQ>> => KeptInv'
  BY Zenon DEF KeptInv
<1>. QED  BY Zenon, <1>1, <1>2, <1>3, <1>4, <1>5, <1>6, <1>7

\* What call(), the responses, their callbacks and disconnect() do keeps the
\* invariant.
CallingStep ==
    \/ \E t \in Threads : CallStep(t)
    \/ ClientOnReceive
    \/ \E d \in doneQ : RunCallback(d)
    \/ \E t \in Threads : Abort(t) \/ DisconnectEnd(t)

LEMMA CallingKeepsInv ==
    ASSUME Locked, TypeOK, ChannelInv, CallingStep
    PROVE  ChannelInv'
<1>1. ASSUME NEW t \in Threads, NEW f \in Calls, CallRegister(t, f)
      PROVE  ChannelInv'
  <2>. DEFINE new == [id |-> reqId, fut |-> f]
  <2>1. /\ Quiet /\ key[f] = None /\ client \in {"started", "disconnected"}
        /\ key' = [key EXCEPT ![f] = reqId]
        /\ UNCHANGED <<reqId, client, iter, sets, toServer, toClient, workQ,
                       running, doneQ, executed>>
    BY Zenon, <1>1 DEF CallRegister
  <2>2. /\ reqId \in Nat /\ reqId # None /\ key'[f] = reqId
        /\ \A g \in Calls : g # f => key'[g] = key[g]
    BY Zenon, <2>1, Typing, ChannelAssumption
  <2>3. \A u \in Threads : IF u = t THEN /\ pc'[u].fut = f /\ pc'[u].at = "registered"
                                         /\ pc'[u] # Idle
                                    ELSE pc'[u] = Idle /\ pc'[u].at = "idle"
    BY <1>1, <2>1, Typing DEF CallRegister, Quiet, Outside, Idle
  <2>4. \A g \in Calls : key[g] # None => key[g] < reqId
    BY Zenon, <2>1 DEF ChannelInv, IdInv, Quiet, Outside
  <2>5. \A e \in respCallbacks \union InFlight : e.fut # f /\ e.id # reqId
    BY <2>1, <2>2, <2>4, Entries
  <2>6. respCallbacks' = respCallbacks \union {new}
    BY Zenon, <1>1, <2>5 DEF CallRegister, MapAssign
  <2>7. InFlight' = InFlight
    BY Zenon, <2>1 DEF InFlight, Enqueued
  <2>8. LockInv'
    BY Zenon, <2>1, <2>3 DEF LockInv, Quiet, Outside
  <2>9. IdInv'
    <3>1. \A g \in Calls : key'[g] # None => key'[g] < reqId' \/ g = f
      BY Zenon, <2>1, <2>2, <2>4
    <3>2. \A g, h \in Calls : key'[g] # None /\ key'[g] = key'[h] => g = h
      <4>1. \A g \in Calls : key[g] # reqId
        BY <2>2, <2>4
      <4>. QED  BY <2>2, <4>1 DEF ChannelInv, IdInv
    <3>. QED  BY Zenon, <2>1, <2>2, <2>3, <3>1, <3>2 DEF IdInv
  <2>10. KeyInv'
    BY <2>2, <2>5, <2>6, <2>7, Typing DEF ChannelInv, KeyInv, Entry
  <2>11. ExecInv'
    <3>1. executed[f] = 0
      BY Zenon, <2>1 DEF ChannelInv, ExecInv
    <3>. QED
      BY Zenon, <2>1, <2>2, <2>3, <2>5, <2>7, <3>1 DEF ChannelInv, ExecInv, Enqueued
  <2>12. FlightInv'
    BY Zenon, <2>1, <2>3, <2>6, <2>7 DEF ChannelInv, FlightInv
  <2>13. SetInv'
    <3>1. sets[f] = <<>> /\ \A d \in doneQ : d.fut # f
      BY Zenon, <2>1 DEF ChannelInv, SetInv
    <3>2. \A e \in respCallbacks' : ~Passed(e) /\ ~Passed(e)'
      BY Zenon, <2>1 DEF Passed, Quiet, Outside
    <3>3. \A g \in Calls : key'[g] = None => key[g] = None
      BY Zenon, <2>1, <2>2
    <3>4. \A d \in doneQ : key'[d.fut] # None
      BY Zenon, <2>2, <3>1, Typing DEF ChannelInv, SetInv
    <3>. QED
      BY <2>1, <2>6, <3>1, <3>2, <3>3, <3>4 DEF ChannelInv, SetInv
  <2>14. KeptInv'
    <3>1. new \in respCallbacks' /\ new.fut = f
      BY Zenon, <2>6
    <3>2. ASSUME NEW g \in Calls, key'[g] # None, sets'[g] = <<>>
          PROVE  (\E e \in respCallbacks' : e.fut = g) \/ (\E d \in doneQ' : d.fut = g)
      <4>1. CASE g = f
        BY Zenon, <3>1, <4>1
      <4>2. CASE g # f
        BY Zenon, <2>1, <2>2, <2>6, <3>2, <4>2 DEF ChannelInv, KeptInv
      <4>. QED  BY Zenon, <4>1, <4>2
    <3>. QED  BY Zenon, <2>1, <3>2 DEF KeptInv
  <2>. QED  BY Zenon, <2>8, <2>9, <2>10, <2>11, <2>12, <2>13, <2>14 DEF ChannelInv
<1>2. ASSUME NEW t \in Threads, CallLoadId(t)
      PROVE  ChannelInv'
  <2>1. /\ \A u \in Threads : (pc'[u] # Idle <=> pc[u] # Idle) /\ pc'[u].fut = pc[u].fut
        /\ \A u \in Threads : u # t => pc'[u] = pc[u]
        /\ pc'[t].id = reqId /\ pc[t] # Idle
    BY <1>2, Typing DEF CallLoadId, CallState, Idle
  <2>2. UNCHANGED <<client, iter, key, reqId, respCallbacks, executed, InFlight, Enqueued,
                    toServer, toClient, workQ, running>>
    BY Zenon, <1>2 DEF CallLoadId, InFlight, Enqueued
  <2>3. LockInv'
    BY Zenon, <2>1, <2>2 DEF ChannelInv, LockInv, Outside
  <2>4. IdInv'
    BY <2>1, <2>2 DEF ChannelInv, IdInv
  <2>5. ExecInv'
    BY <2>1, <2>2 DEF ChannelInv, ExecInv
  <2>6. FlightInv'
    BY Zenon, <2>1, <2>2 DEF ChannelInv, FlightInv
  <2>. QED  BY Zenon, <1>2, Frame, <2>3, <2>4, <2>5, <2>6 DEF ChannelInv, CallLoadId
<1>3. ASSUME NEW t \in Threads, CallWrite(t)
      PROVE  ChannelInv'
  <2>. DEFINE f   == pc[t].fut
              req == [id |-> reqId, fut |-> f]
  <2>1. pc[t] # Idle /\ pc[t].at = "loaded" /\ \A u \in Threads : u # t => pc[u] = Idle
    BY <1>3 DEF CallWrite, ChannelInv, LockInv, Outside, Idle
  <2>2. \A u \in Threads : pc'[u] = Idle /\ pc'[u].at = "idle"
    BY <1>3, <2>1, Typing DEF CallWrite, Idle
  <2>3. pc[t].id = reqId /\ key[f] = reqId /\ f \in Calls /\ reqId \in Nat
    BY Zenon, <2>1, Typing DEF ChannelInv, IdInv, CallState, Idle
  <2>4. /\ reqId' = reqId + 1
        /\ UNCHANGED <<client, key, respCallbacks, executed, toClient, workQ, running,
                       Enqueued>>
    BY Zenon, <1>3, <2>3 DEF CallWrite, Enqueued
  <2>5. req \in Entry /\ req.fut = f /\ req.id = reqId /\ req # DisconnectTask
    BY Zenon, <2>3, ChannelAssumption DEF Entry, DisconnectTask
  <2>6. executed[f] = 0 /\ \A e \in InFlight : e.fut # f
    BY Zenon, <2>1 DEF ChannelInv, ExecInv
  <2>7. req \notin Range(toServer) /\ req \notin workQ
    BY Zenon, <2>5, <2>6 DEF InFlight, Enqueued
  <2>8. /\ Range(toServer') = Range(toServer) \/ Range(toServer') = Range(toServer) \union {req}
        /\ IsInjective(toServer')
    <3>1. CASE toServer' = toServer
      BY Zenon, <3>1 DEF ChannelInv, ExecInv
    <3>2. CASE toServer' = Append(toServer, req)
      BY <3>2, <2>5, <2>7, Typing, AppendFacts DEF ChannelInv, ExecInv
    <3>. QED  BY Zenon, <1>3, <2>3, <3>1, <3>2 DEF CallWrite, ClientWrite, SerializeArgs
  <2>9. InFlight' = InFlight \/ InFlight' = InFlight \union {req}
    BY Zenon, <2>4, <2>8 DEF InFlight
  <2>10. LockInv'
    BY Zenon, <1>3, <2>2 DEF ChannelInv, CallWrite, LockInv, Outside
  <2>11. IdInv'
    <3>1. \A g \in Calls : key[g] # None => key[g] < reqId \/ g = f
      BY Zenon, <2>1 DEF ChannelInv, IdInv
    <3>2. \A g \in Calls : key'[g] # None => key'[g] < reqId'
      <4>. TAKE g \in Calls
      <4>1. key[g] \in Nat \union {None} /\ key'[g] = key[g]
        BY Zenon, <2>4, Typing
      <4>. QED  BY <2>3, <2>4, <3>1, <4>1
    <3>. QED  BY Zenon, <2>2, <2>4, <3>2 DEF ChannelInv, IdInv
  <2>12. KeyInv'
    BY Zenon, <2>3, <2>4, <2>5, <2>9 DEF ChannelInv, KeyInv
  <2>13. ExecInv'
    <3>1. Range(toServer') \intersect workQ' = {}
      BY Zenon, <2>4, <2>7, <2>8 DEF ChannelInv, ExecInv
    <3>2. \A e \in Range(toServer') \union Enqueued' : executed'[e.fut] = 0
      BY Zenon, <2>4, <2>5, <2>6, <2>8 DEF ChannelInv, ExecInv
    <3>. QED  BY Zenon, <2>2, <2>4, <2>8, <3>1, <3>2 DEF ChannelInv, ExecInv
  <2>14. FlightInv'
    <3>1. client = "started" => req \in respCallbacks
      BY Zenon, <2>1 DEF ChannelInv, FlightInv
    <3>2. client # "created"
      BY Zenon, <2>1 DEF ChannelInv, LockInv
    <3>. QED  BY Zenon, <2>2, <2>4, <2>9, <3>1, <3>2 DEF ChannelInv, FlightInv
  <2>. QED
    BY Zenon, <1>3, Frame, <2>10, <2>11, <2>12, <2>13, <2>14 DEF ChannelInv, CallWrite
<1>4. CASE ClientOnReceive
  <2>. DEFINE resp == Head(toClient)
              done == [fut |-> resp.fut, val |-> resp.fut]
  <2>1. /\ Range(toClient) = Range(toClient') \union {resp}
        /\ IsInjective(toClient') /\ resp \notin Range(toClient')
        /\ resp \in Entry
    BY Zenon, <1>4, Typing, TailFacts DEF ClientOnReceive, ChannelInv, ExecInv
  <2>2. resp \in respCallbacks /\ resp \in InFlight /\ client = "started"
    BY Zenon, <1>4, <2>1 DEF ClientOnReceive, ChannelInv, FlightInv, InFlight
  <2>3. Found(resp.id) = {resp}
    BY SMTT(30), <2>2, Entries DEF Found
  <2>4. /\ respCallbacks' = respCallbacks \ {resp}
        /\ doneQ' = doneQ \union {done}
        /\ UNCHANGED <<reqId, client, iter, pc, key, sets, executed, running,
                       toServer, workQ, Enqueued>>
    BY Zenon, <1>4, <2>3 DEF ClientOnReceive, Enqueued
  <2>5. /\ resp \notin running /\ resp \notin Range(toServer) \union Enqueued
        /\ executed[resp.fut] = 1
    BY <2>1, Typing DEF ChannelInv, ExecInv
  <2>6. /\ InFlight' = InFlight \ {resp}
        /\ \A e \in respCallbacks' \union InFlight' : e.fut # resp.fut
    <3>1. InFlight' = InFlight \ {resp}
      BY Zenon, <2>1, <2>4, <2>5 DEF InFlight
    <3>. QED  BY Zenon, <2>2, <2>4, <3>1, Entries
  <2>7. KeyInv'
    BY Zenon, <2>4, <2>6 DEF ChannelInv, KeyInv
  <2>8. ExecInv'
    BY Zenon, <2>1, <2>4, <2>6 DEF ChannelInv, ExecInv
  <2>9. FlightInv'
    <3>1. \A u \in Threads : pc[u] # Idle => [id |-> reqId, fut |-> pc[u].fut] # resp
      BY <2>2 DEF ChannelInv, ExecInv
    <3>. QED  BY Zenon, <2>2, <2>4, <2>6, <3>1 DEF ChannelInv, FlightInv
  <2>10. SetInv'
    <3>1. sets[resp.fut] = <<>> /\ key[resp.fut] # None /\ resp.fut \in Calls
      BY Zenon, <2>2, Entries DEF ChannelInv, SetInv, LockInv, Passed
    <3>2. done.fut = resp.fut /\ done.val = resp.fut
      BY Zenon
    <3>3. ASSUME NEW d \in doneQ'
          PROVE  /\ d.val = d.fut /\ sets'[d.fut] = <<>> /\ executed'[d.fut] = 1
                 /\ key'[d.fut] # None
                 /\ \A e \in respCallbacks' \union Range(toClient') \union running' :
                       e.fut # d.fut
      <4>1. CASE d = done
        BY Zenon, <4>1, <2>4, <2>5, <2>6, <3>1, <3>2 DEF InFlight
      <4>2. CASE d \in doneQ
        BY Zenon, <4>2, <2>1, <2>4 DEF ChannelInv, SetInv
      <4>. QED  BY Zenon, <2>4, <4>1, <4>2
    <3>. QED  BY Zenon, <2>4, <3>3 DEF ChannelInv, SetInv, Passed
  <2>11. KeptInv'
    <3>1. ASSUME NEW g \in Calls, key'[g] # None, sets'[g] = <<>>
          PROVE  (\E e \in respCallbacks' : e.fut = g) \/ (\E d \in doneQ' : d.fut = g)
      <4>1. CASE g = resp.fut
        <5>1. done \in doneQ' /\ done.fut = resp.fut
          BY Zenon, <2>4
        <5>. QED  BY Zenon, <4>1, <5>1
      <4>2. CASE g # resp.fut
        BY Zenon, <2>4, <3>1, <4>2 DEF ChannelInv, KeptInv
      <4>. QED  BY Zenon, <4>1, <4>2
    <3>. QED  BY Zenon, <2>2, <2>4, <3>1 DEF KeptInv
  <2>. QED
    BY Zenon, <1>4, Frame, <2>7, <2>8, <2>9, <2>10, <2>11 DEF ChannelInv, ClientOnReceive
<1>5. ASSUME NEW d \in doneQ, RunCallback(d)
      PROVE  ChannelInv'
  <2>1. /\ d.fut \in Calls
        /\ d.val = d.fut
        /\ sets[d.fut] = <<>>
        /\ executed[d.fut] = 1
    BY Zenon, Typing DEF ChannelInv, SetInv
  <2>2. /\ sets' = [sets EXCEPT ![d.fut] = <<d.fut>>]
        /\ doneQ' = doneQ \ {d}
        /\ UNCHANGED <<client, iter, key, executed, respCallbacks, toClient, running>>
    BY <1>5, <2>1 DEF RunCallback, DeserializeFuture
  <2>3. /\ sets'[d.fut] = <<d.fut>> /\ sets'[d.fut] # <<>>
        /\ \A g \in Calls : g # d.fut => sets'[g] = sets[g]
    BY Zenon, <2>1, <2>2, Typing
  <2>4. \A c \in doneQ' : c.fut # d.fut
    <3>. TAKE c \in doneQ'
    <3>1. c \in doneQ /\ c # d
      BY Zenon, <2>2
    <3>2. c.val = c.fut
      BY Zenon, <3>1 DEF ChannelInv, SetInv
    <3>3. c = [fut |-> c.fut, val |-> c.val] /\ d = [fut |-> d.fut, val |-> d.val]
      BY Zenon, <3>1, Typing
    <3>. QED  BY Zenon, <2>1, <3>1, <3>2, <3>3
  <2>5. SetInv'
    <3>1. d.fut # None /\ key[d.fut] # None
      BY Zenon, <2>1, ChannelAssumption DEF ChannelInv, SetInv
    <3>2. \A g \in Calls : /\ sets'[g] \in {<<>>, <<g>>, <<None>>}
                           /\ key'[g] = None => sets'[g] = <<>>
                           /\ sets'[g] = <<g>> => executed'[g] = 1
      BY <2>1, <2>2, <2>3, <3>1 DEF ChannelInv, SetInv
    <3>3. \A e \in respCallbacks' : sets'[e.fut] # <<>> <=> Passed(e)'
      BY <2>2, <2>3, Entries DEF ChannelInv, SetInv, Passed
    <3>4. \A c \in doneQ' : sets'[c.fut] = <<>>
      BY Zenon, <2>2, <2>3, <2>4, Typing DEF ChannelInv, SetInv
    <3>. QED  BY Zenon, <2>2, <3>2, <3>3, <3>4 DEF ChannelInv, SetInv
  <2>6. KeptInv'
    BY Zenon, <2>2, <2>3 DEF ChannelInv, KeptInv
  <2>. QED  BY Zenon, <1>5, Frame, <2>5, <2>6 DEF ChannelInv, RunCallback
<1>6. ASSUME NEW t \in Threads, NEW e \in respCallbacks, AbortOne(t, e)
      PROVE  ChannelInv'
  <2>1. /\ iter[t] # None
        /\ \A u \in Threads : u # t => iter'[u] = iter[u]
        /\ UNCHANGED <<client, pc, key, executed, respCallbacks, toClient, running, doneQ>>
    BY Zenon, <1>6, Typing DEF AbortOne
  <2>2. e.fut \in Calls /\ e.id \in Nat /\ key[e.fut] # None
    BY Zenon, Typing, Entries
  <2>a. \A u \in Threads : iter[u] # None => u = t
    BY Zenon, <2>1 DEF ChannelInv, LockInv, Outside
  <2>b. /\ ~Passed(e)
        /\ \A d \in respCallbacks : Passed(d)' <=> Passed(d) \/ d.id = e.id
    BY Zenon, <1>6, <2>a, AbortPasses
  <2>3. sets[e.fut] = <<>>
    BY Zenon, <2>b DEF ChannelInv, SetInv
  <2>4. sets' = [sets EXCEPT ![e.fut] = <<None>>]
    BY <1>6, <2>3 DEF AbortOne, DeserializeFuture
  <2>5. /\ sets'[e.fut] = <<None>> /\ sets'[e.fut] # <<>>
        /\ \A g \in Calls : g # e.fut => sets'[g] = sets[g]
    BY Zenon, <2>2, <2>4, Typing
  <2>6. LockInv'
    BY Zenon, <2>1, <2>a DEF ChannelInv, LockInv, Outside
  <2>7. SetInv'
    <3>1. e.fut # None
      BY Zenon, <2>2, ChannelAssumption
    <3>2. \A g \in Calls : /\ sets'[g] \in {<<>>, <<g>>, <<None>>}
                           /\ key'[g] = None => sets'[g] = <<>>
                           /\ sets'[g] = <<g>> => executed'[g] = 1
      <4>. TAKE g \in Calls
      <4>1. CASE g = e.fut
        <5>1. <<None>> # <<g>>
          BY Zenon, <3>1, <4>1
        <5>2. sets'[g] = <<None>>
          BY Zenon, <2>5, <4>1
        <5>3. key'[g] # None
          BY Zenon, <2>1, <2>2, <4>1
        <5>. QED  BY Zenon, <5>1, <5>2, <5>3
      <4>2. CASE g # e.fut
        BY Zenon, <2>1, <2>5, <4>2 DEF ChannelInv, SetInv
      <4>. QED  BY Zenon, <4>1, <4>2
    <3>3. \A d \in respCallbacks' : sets'[d.fut] # <<>> <=> Passed(d)'
      <4>. TAKE d \in respCallbacks'
      <4>1. /\ d \in respCallbacks /\ d.fut \in Calls
            /\ (d.fut = e.fut \/ d.id = e.id => d = e)
        BY Zenon, <2>1, Entries
      <4>2. CASE d = e
        <5>1. sets'[d.fut] # <<>>
          BY Zenon, <2>5, <4>2
        <5>. QED  BY Zenon, <2>b, <4>1, <4>2, <5>1
      <4>3. CASE d # e
        <5>1. sets'[d.fut] = sets[d.fut]
          BY Zenon, <2>5, <4>1, <4>3
        <5>. QED  BY Zenon, <2>b, <4>1, <4>3, <5>1 DEF ChannelInv, SetInv
      <4>. QED  BY Zenon, <4>2, <4>3
    <3>4. \A c \in doneQ' : sets'[c.fut] = <<>>
      BY Zenon, <2>1, <2>5, Typing DEF ChannelInv, SetInv
    <3>. QED  BY Zenon, <2>1, <3>2, <3>3, <3>4 DEF ChannelInv, SetInv
  <2>8. KeptInv'
    BY Zenon, <2>1, <2>5 DEF ChannelInv, KeptInv
  <2>. QED  BY Zenon, <1>6, Frame, <2>6, <2>7, <2>8 DEF ChannelInv, AbortOne
<1>7. ASSUME NEW t \in Threads, DisconnectEnd(t)
      PROVE  ChannelInv'
  <2>a. /\ iter[t] # None
        /\ \A u \in Threads : iter[u] # None => u = t
        /\ \A u \in Threads : iter'[u] = None
        /\ client \in {"disconnected", "destroying"}
        /\ client' \in {"disconnected", "destroyed"}
    <3>1. iter[t] # None /\ iter' = [iter EXCEPT ![t] = None]
      BY Zenon, <1>7 DEF DisconnectEnd
    <3>2. \A u \in Threads : iter[u] # None => u = t
      BY Zenon, <3>1 DEF ChannelInv, LockInv, Outside
    <3>3. \A u \in Threads : iter'[u] = None
      BY Zenon, <3>1, <3>2, Typing
    <3>4. client \in {"disconnected", "destroying"}
      BY Zenon, <3>1 DEF ChannelInv, LockInv
    <3>. QED  BY Zenon, <1>7, <3>1, <3>2, <3>3, <3>4 DEF DisconnectEnd
  <2>1. \A e \in respCallbacks : sets[e.fut] # <<>>
    <3>. TAKE e \in respCallbacks
    <3>1. e.id \in Nat /\ iter[t] \in Nat /\ ~(e.id >= iter[t])
      BY Zenon, <1>7, <2>a, Typing DEF DisconnectEnd, Unaborted, Entry
    <3>2. e.id < iter[t]
      BY <3>1
    <3>. QED  BY Zenon, <2>a, <3>2 DEF ChannelInv, SetInv, Passed
  <2>2. LockInv'
    BY Zenon, <1>7, <2>a DEF ChannelInv, DisconnectEnd, LockInv, Outside
  <2>3. KeyInv'
    BY Zenon, <1>7, Entries DEF DisconnectEnd, KeyInv, InFlight, Enqueued
  <2>4. FlightInv'
    BY Zenon, <2>a DEF FlightInv
  <2>5. SetInv'
    BY SMTT(30), <1>7 DEF ChannelInv, DisconnectEnd, SetInv
  <2>6. KeptInv'
    BY Zenon, <1>7, <2>1 DEF ChannelInv, DisconnectEnd, KeptInv
  <2>. QED  BY Zenon, <1>7, Frame, <2>2, <2>3, <2>4, <2>5, <2>6
      DEF ChannelInv, DisconnectEnd
<1>. QED
  BY Zenon, <1>1, <1>2, <1>3, <1>4, <1>5, <1>6, <1>7 DEF CallingStep, CallStep, Abort
-------------------------------------------------------------------------------
(***************************************************************************)
(* What holds when call() and disconnect() are serialised.                 *)
(***************************************************************************)
\* Every step of a channel whose users serialise their calls keeps the
\* invariant.
LEMMA InvStep == Locked /\ TypeOK /\ ChannelInv /\ [Next]_vars => ChannelInv'
<1>. SUFFICES ASSUME Locked, TypeOK, ChannelInv, [Next]_vars
              PROVE  ChannelInv'
  BY Zenon
<1>1. CASE ServerOnReceive
  <2>1. /\ Range(toServer) = Range(toServer') \union {Head(toServer)}
        /\ IsInjective(toServer') /\ Head(toServer) \notin Range(toServer')
        /\ Head(toServer) \in Entry
    BY Zenon, <1>1, Typing, TailFacts DEF ChannelInv, ServerOnReceive, ExecInv
  <2>2. workQ' \in {workQ \union {Head(toServer)}, workQ \union {DisconnectTask}}
    BY Zenon, <1>1 DEF ServerOnReceive, TaskFor
  <2>3. /\ Enqueued' \subseteq Enqueued \union {Head(toServer)}
        /\ workQ' \subseteq workQ \union {Head(toServer), DisconnectTask}
        /\ DisconnectTask \notin Entry
    BY Zenon, <2>2, ChannelAssumption DEF Enqueued, DisconnectTask, Entry
  <2>4. InFlight' \subseteq InFlight
    BY Zenon, <1>1, <2>1, <2>3 DEF ServerOnReceive, InFlight
  <2>5. KeyInv'
    BY Zenon, <1>1, Entries, <2>4 DEF ServerOnReceive, KeyInv
  <2>6. ExecInv'
    BY <1>1, Typing, <2>1, <2>2, <2>3
    DEF ChannelInv, ServerOnReceive, ExecInv, InFlight, Enqueued
  <2>7. FlightInv'
    BY Zenon, <1>1, <2>4 DEF ChannelInv, ServerOnReceive, FlightInv
  <2>. QED  BY Zenon, <1>1, Frame, <2>5, <2>6, <2>7 DEF ChannelInv, ServerOnReceive
<1>2. ASSUME NEW req \in workQ, DeferredRPCCall(req)
      PROVE  ChannelInv'
  <2>1. req \in Entry /\ req \in Enqueued
    BY Zenon, <1>2, Typing DEF DeferredRPCCall, Enqueued
  <2>2. /\ InFlight' = InFlight
        /\ Enqueued' = Enqueued \ {req}
        /\ running' = running \union {req}
    BY Zenon, <1>2 DEF DeferredRPCCall, InFlight, Enqueued
  <2>3. \A e \in InFlight : e.fut = req.fut => e = req
    BY Zenon, Entries, <2>1 DEF InFlight
  <2>4. /\ executed[req.fut] = 0
        /\ executed' = [executed EXCEPT ![req.fut] = 1]
        /\ req.fut \in Calls
    <3>1. req.fut \in Calls /\ executed[req.fut] = 0
      BY Zenon, <2>1 DEF ChannelInv, ExecInv, Entry
    <3>. QED  BY <1>2, <3>1 DEF DeferredRPCCall
  <2>5. KeyInv'
    BY Zenon, <1>2, Entries, <2>2 DEF DeferredRPCCall, KeyInv
  <2>6. ExecInv'
    <3>1. UNCHANGED <<toServer, toClient, pc, key>> /\ workQ' = workQ \ {req}
      BY Zenon, <1>2 DEF DeferredRPCCall
    <3>2. /\ IsInjective(toServer) /\ IsInjective(toClient)
          /\ Range(toServer) \intersect workQ = {}
          /\ running \intersect Range(toClient) = {}
          /\ \A e \in Range(toServer) \union Enqueued : executed[e.fut] = 0
          /\ \A e \in running \union Range(toClient) : executed[e.fut] = 1
          /\ \A f \in Calls : executed[f] \in {0, 1}
          /\ \A f \in Calls : key[f] = None => executed[f] = 0
      BY Zenon DEF ChannelInv, ExecInv
    <3>3. \A t \in Threads : pc[t] # Idle =>
             executed[pc[t].fut] = 0 /\ \A e \in InFlight : e.fut # pc[t].fut
      BY Zenon DEF ChannelInv, ExecInv
    <3>4. /\ executed'[req.fut] = 1
          /\ \A f \in Calls : f # req.fut => executed'[f] = executed[f]
      BY Zenon, <2>4, Typing
    <3>5. req \in InFlight /\ key[req.fut] # None
      BY Zenon, <2>1, Entries DEF InFlight
    <3>6. \A e \in InFlight : e.fut \in Calls
      BY Zenon, Entries
    <3>7. \A e \in Range(toServer) \union Enqueued' : executed'[e.fut] = 0
      <4>1. \A e \in Range(toServer) \union Enqueued' :
               e # req /\ e \in InFlight /\ executed[e.fut] = 0
        BY Zenon, <1>2, <2>2, <3>2 DEF InFlight
      <4>. QED  BY Zenon, <4>1, <2>3, <3>4, <3>6
    <3>8. \A e \in running' \union Range(toClient) : executed'[e.fut] = 1
      <4>1. \A e \in running \union Range(toClient) :
               e \in InFlight /\ executed[e.fut] = 1
        BY Zenon, <3>2 DEF InFlight
      <4>. QED  BY Zenon, <4>1, <2>2, <3>4, <3>6
    <3>9. running' \intersect Range(toClient) = {}
      BY <2>2, <2>4, <3>2
    <3>10. \A t \in Threads : pc[t] # Idle => executed'[pc[t].fut] = 0
      <4>1. \A t \in Threads : pc[t] # Idle => pc[t].fut \in Calls
        BY Zenon, Typing DEF CallState
      <4>. QED  BY Zenon, <4>1, <3>3, <3>4, <3>5
    <3>11. /\ \A f \in Calls : executed'[f] \in {0, 1}
           /\ \A f \in Calls : key[f] = None => executed'[f] = 0
      BY Zenon, <3>2, <3>4, <3>5
    <3>. QED  BY Zenon, <2>2, <3>1, <3>2, <3>3, <3>7, <3>8, <3>9, <3>10, <3>11 DEF ExecInv
  <2>7. FlightInv'
    BY Zenon, <1>2, <2>2 DEF ChannelInv, DeferredRPCCall, FlightInv
  <2>8. SetInv'
    BY <1>2, <2>4 DEF ChannelInv, DeferredRPCCall, SetInv, Passed
  <2>. QED  BY Zenon, <1>2, Frame, <2>5, <2>6, <2>7, <2>8 DEF ChannelInv, DeferredRPCCall
<1>3. ASSUME NEW req \in running, ResponseCallback(req)
      PROVE  ChannelInv'
  <2>1. req \in Entry /\ req = [id |-> req.id, fut |-> req.fut]
    BY Zenon, Typing DEF Entry
  <2>2. \/ toClient' = toClient
           \/ /\ Range(toClient') = Range(toClient) \union {req}
              /\ IsInjective(toClient')
    BY <1>3, Typing, <2>1, AppendFacts
    DEF ChannelInv, ResponseCallback, ServerWrite, ExecInv
  <2>3. /\ InFlight' \subseteq InFlight
        /\ Range(toClient') \union running' \subseteq Range(toClient) \union running
    BY Zenon, <1>3, <2>2 DEF ResponseCallback, InFlight, Enqueued
  <2>4. KeyInv'
    BY Zenon, <1>3, Entries, <2>3 DEF ResponseCallback, KeyInv
  <2>5. ExecInv'
    BY Zenon, <1>3, <2>2, <2>3 DEF ChannelInv, ResponseCallback, ExecInv, Enqueued
  <2>6. FlightInv'
    BY Zenon, <1>3, <2>3 DEF ChannelInv, ResponseCallback, FlightInv
  <2>7. SetInv'
    BY Zenon, <1>3, <2>3 DEF ChannelInv, ResponseCallback, SetInv, Passed
  <2>. QED  BY Zenon, <1>3, Frame, <2>4, <2>5, <2>6, <2>7
      DEF ChannelInv, ResponseCallback
<1>4. CASE ClientStart
  <2>1. LockInv'
    BY Zenon, <1>4 DEF ChannelInv, ClientStart, LockInv, Outside
  <2>2. FlightInv'
    BY Zenon, <1>4
    DEF ChannelInv, ClientStart, FlightInv, InFlight, Enqueued, LockInv
  <2>3. SetInv'
    BY Zenon, <1>4 DEF ChannelInv, ClientStart, SetInv, Passed
  <2>4. KeptInv'
    BY Zenon, <1>4 DEF ChannelInv, ClientStart, KeptInv
  <2>. QED  BY Zenon, <1>4, Frame, <2>1, <2>2, <2>3, <2>4 DEF ChannelInv, ClientStart
<1>5. CASE ClientOnDisconnect
  <2>1. Range(toClient') = {} /\ IsInjective(toClient')
    BY <1>5 DEF ClientOnDisconnect, Range, IsInjective
  <2>2. InFlight' \subseteq InFlight
    BY Zenon, <1>5, <2>1 DEF ClientOnDisconnect, InFlight, Enqueued
  <2>3. KeyInv'
    BY Zenon, <1>5, Entries, <2>2 DEF ClientOnDisconnect, KeyInv
  <2>4. ExecInv'
    BY Zenon, <1>5, <2>1, <2>2 DEF ChannelInv, ClientOnDisconnect, ExecInv, Enqueued
  <2>5. FlightInv'
    BY Zenon, <1>5, <2>2 DEF ChannelInv, ClientOnDisconnect, FlightInv
  <2>6. SetInv'
    BY Zenon, <1>5, <2>1 DEF ChannelInv, ClientOnDisconnect, SetInv, Passed
  <2>. QED  BY Zenon, <1>5, Frame, <2>3, <2>4, <2>5, <2>6
      DEF ChannelInv, ClientOnDisconnect
<1>6. ASSUME NEW t \in Threads, DisconnectBegin(t)
      PROVE  ChannelInv'
  <2>a. /\ \A u \in Threads : pc[u] = Idle /\ iter[u] = None /\ pc'[u] = Idle
        /\ \A u \in Threads : u # t => iter'[u] = None
        /\ iter'[t] = 0 /\ client' = "disconnected"
    BY Zenon, <1>6, Typing DEF DisconnectBegin, Quiet, Outside
  <2>1. Range(toClient') = {} /\ IsInjective(toClient')
    BY <1>6 DEF DisconnectBegin, Range, IsInjective
  <2>2. InFlight' \subseteq InFlight
    BY Zenon, <1>6, <2>1 DEF DisconnectBegin, InFlight, Enqueued
  <2>3. LockInv'
    BY Zenon, <2>a DEF LockInv, Outside
  <2>4. KeyInv'
    BY Zenon, <1>6, Entries, <2>2 DEF DisconnectBegin, KeyInv
  <2>5. ExecInv'
    BY Zenon, <1>6, <2>1, <2>2 DEF ChannelInv, DisconnectBegin, ExecInv, Enqueued
  <2>6. FlightInv'
    BY Zenon, <2>a DEF FlightInv
  <2>7. SetInv'
    <3>1. \A e \in respCallbacks : ~Passed(e) /\ ~Passed(e)'
      <4>. TAKE e \in respCallbacks
      <4>1. e.id \in Nat /\ ~(e.id < 0)
        BY Entries
      <4>. QED  BY Zenon, <2>a, <4>1 DEF Passed
    <3>. QED  BY Zenon, <1>6, <2>1, <3>1 DEF ChannelInv, DisconnectBegin, SetInv
  <2>8. KeptInv'
    BY Zenon, <1>6 DEF ChannelInv, DisconnectBegin, KeptInv
  <2>. QED  BY Zenon, <1>6, Frame, <2>3, <2>4, <2>5, <2>6, <2>7, <2>8
      DEF ChannelInv, DisconnectBegin
<1>7. ASSUME NEW t \in Threads, ClientDestroy(t)
      PROVE  ChannelInv'
  <2>a. /\ \A u \in Threads : pc[u] = Idle /\ iter[u] = None /\ pc'[u] = Idle
        /\ \A u \in Threads : u # t => iter'[u] = None
        /\ iter'[t] = 0 /\ client' = "destroying"
    BY Zenon, <1>7, Typing DEF ClientDestroy, Quiet, Outside
  <2>1. Range(toClient') = {} /\ IsInjective(toClient')
    BY <1>7 DEF ClientDestroy, Range, IsInjective
  <2>2. InFlight' \subseteq InFlight
    BY Zenon, <1>7, <2>1 DEF ClientDestroy, InFlight, Enqueued
  <2>3. LockInv'
    BY Zenon, <2>a DEF LockInv, Outside
  <2>4. KeyInv'
    BY Zenon, <1>7, Entries, <2>2 DEF ClientDestroy, KeyInv
  <2>5. ExecInv'
    BY Zenon, <1>7, <2>1, <2>2 DEF ChannelInv, ClientDestroy, ExecInv, Enqueued
  <2>6. FlightInv'
    BY Zenon, <2>a DEF FlightInv
  <2>7. SetInv'
    <3>1. \A e \in respCallbacks : ~Passed(e) /\ ~Passed(e)'
      <4>. TAKE e \in respCallbacks
      <4>1. e.id \in Nat /\ ~(e.id < 0)
        BY Entries
      <4>. QED  BY Zenon, <2>a, <4>1 DEF Passed
    <3>. QED  BY Zenon, <1>7, <2>1, <3>1 DEF ChannelInv, ClientDestroy, SetInv
  <2>8. KeptInv'
    BY Zenon, <1>7 DEF ChannelInv, ClientDestroy, KeptInv
  <2>. QED  BY Zenon, <1>7, Frame, <2>3, <2>4, <2>5, <2>6, <2>7, <2>8
      DEF ChannelInv, ClientDestroy
<1>8. CASE RunDisconnectTask
  <2>1. Enqueued' = Enqueued /\ InFlight' = InFlight
    BY Zenon, <1>8 DEF RunDisconnectTask, InFlight, Enqueued
  <2>2. KeyInv'
    BY SMTT(30), <1>8, Entries, <2>1 DEF RunDisconnectTask, KeyInv
  <2>3. ExecInv'
    BY Zenon, <1>8, <2>1 DEF ChannelInv, RunDisconnectTask, ExecInv
  <2>4. FlightInv'
    BY Zenon, <1>8, <2>1 DEF ChannelInv, RunDisconnectTask, FlightInv
  <2>. QED  BY Zenon, <1>8, Frame, <2>2, <2>3, <2>4 DEF ChannelInv, RunDisconnectTask
<1>9. CASE ServerOnDisconnect
  <2>1. Range(toServer') = {} /\ IsInjective(toServer')
    BY <1>9 DEF ServerOnDisconnect, Range, IsInjective
  <2>2. InFlight' \subseteq InFlight
    BY Zenon, <1>9, <2>1 DEF ServerOnDisconnect, InFlight, Enqueued
  <2>3. KeyInv'
    BY Zenon, <1>9, Entries, <2>2 DEF ServerOnDisconnect, KeyInv
  <2>4. ExecInv'
    BY Zenon, <1>9, <2>1, <2>2 DEF ChannelInv, ServerOnDisconnect, ExecInv, Enqueued
  <2>5. FlightInv'
    BY Zenon, <1>9, <2>2 DEF ChannelInv, ServerOnDisconnect, FlightInv
  <2>. QED  BY Zenon, <1>9, Frame, <2>3, <2>4, <2>5 DEF ChannelInv, ServerOnDisconnect
<1>10. CASE \/ LinkFails \/ SetDisconnectCallback \/ DropConnection
            \/ (\E m \in Exported : RegisterFunction(m))
            \/ (\E keep \in BOOLEAN : OnAccept(keep))
  <2>1. UNCHANGED <<pc, client, key, reqId, respCallbacks, toServer, workQ, running,
                    toClient, executed, sets, iter, doneQ>>
    BY Zenon, <1>10
       DEF LinkFails, SetDisconnectCallback, DropConnection, RegisterFunction, OnAccept
  <2>. QED  BY Zenon, <2>1, Frame DEF ChannelInv
<1>11. CASE UNCHANGED vars
  BY Zenon, <1>11, Frame DEF ChannelInv
<1>. QED
  BY Zenon, CallingKeepsInv, <1>1, <1>2, <1>3, <1>4, <1>5, <1>6, <1>7, <1>8, <1>9, <1>10, <1>11
  DEF Next, CallingStep, Disconnect

\* With serialised users the channel's invariant always holds.
THEOREM ChannelInvariant == Locked => (Spec => []ChannelInv)
<1>. SUFFICES ASSUME Locked PROVE Spec => []ChannelInv
  BY Zenon
<1>1. Init => ChannelInv
  <2>. SUFFICES ASSUME Init PROVE ChannelInv
    BY Zenon
  <2>1. /\ InFlight = {} /\ Enqueued = {} /\ Quiet
        /\ Range(toServer) = {} /\ Range(toClient) = {}
        /\ IsInjective(toServer) /\ IsInjective(toClient)
    BY DEF Init, InFlight, Enqueued, Quiet, Outside, Range, IsInjective
  <2>2. LockInv /\ IdInv /\ KeyInv
    BY Zenon, <2>1 DEF Init, LockInv, IdInv, KeyInv, Quiet, Outside, Idle
  <2>3. ExecInv /\ FlightInv
    BY Zenon, <2>1 DEF Init, ExecInv, FlightInv, Quiet, Outside
  <2>4. SetInv /\ KeptInv
    BY Zenon, <2>1 DEF Init, SetInv, KeptInv
  <2>. QED  BY Zenon, <2>2, <2>3, <2>4 DEF ChannelInv
<1>2. TypeOK /\ ChannelInv /\ [Next]_vars => ChannelInv'
  BY Zenon, InvStep
<1>. QED  BY <1>1, <1>2, TypeCorrect, PTL DEF Spec

\* With serialised users, whatever the order of the responses, RPCClient's
\* onReceive finds the callback of each of them under its id.
THEOREM ResponsesFindCallbacks == Locked => (Spec => []ResponseFindsCallback)
<1>. SUFFICES ASSUME Locked PROVE Spec => []ResponseFindsCallback
  BY Zenon
<1>1. TypeOK /\ ChannelInv => ResponseFindsCallback
  <2>. SUFFICES ASSUME TypeOK, ChannelInv, client = "started",
                       NEW i \in 1..Len(toClient)
                PROVE  Found(toClient[i].id) = {toClient[i]}
    BY Zenon DEF ResponseFindsCallback
  <2>1. toClient[i] \in Range(toClient)
    BY Typing DEF Range
  <2>2. toClient[i] \in respCallbacks
    BY Zenon, <2>1 DEF ChannelInv, FlightInv, InFlight
  <2>. QED  BY Zenon, <2>2, Entries DEF Found
<1>. QED  BY <1>1, TypeCorrect, ChannelInvariant, PTL

\* With serialised users, once ~RPCClient has run no Future of a call of an
\* exported method is left that nobody will set.
THEOREM NobodyLeftWaiting == Locked => (Spec => []DestroyCompletesAll)
<1>. SUFFICES ASSUME Locked PROVE Spec => []DestroyCompletesAll
  BY Zenon
<1>1. ChannelInv => DestroyCompletesAll
  BY Zenon DEF ChannelInv, KeptInv, DestroyCompletesAll
<1>. QED  BY <1>1, ChannelInvariant, PTL
-------------------------------------------------------------------------------
(***************************************************************************)
(* The channel implements RPCService.                                      *)
(***************************************************************************)

\* What the user sees changes only when a call is made, its function runs,
\* or its Future is set.
LEMMA ServiceStutter ==
    UNCHANGED <<executed, key, sets>> => UNCHANGED Service!svars
  BY DEF Service!svars, ResultOf

\* Setting the key or the values of one Future changes its result alone.
LEMMA OneResult ==
    ASSUME NEW f \in Calls,
           \A g \in Calls : g # f => key'[g] = key[g] /\ sets'[g] = sets[g]
    PROVE  [g \in Calls |-> ResultOf(g)]'
              = [[g \in Calls |-> ResultOf(g)] EXCEPT ![f] = ResultOf(f)']
<1>1. \A g \in Calls : g # f => ResultOf(g)' = ResultOf(g)
  BY DEF ResultOf
<1>. QED  BY Zenon, <1>1

\* Every step of the channel is a step of the service, or invisible.
LEMMA ServiceStep ==
    ASSUME Locked, TypeOK, ChannelInv, [Next]_vars
    PROVE  [Service!SNext]_Service!svars
<1>1. ASSUME NEW t \in Threads, NEW f \in Calls, CallRegister(t, f)
      PROVE  Service!Issue(f)
  <2>1. /\ key[f] = None /\ sets[f] = <<>> /\ key'[f] # None
        /\ \A g \in Calls : g # f => key'[g] = key[g]
        /\ UNCHANGED <<sets, executed>>
    BY Zenon, <1>1, Typing, ChannelAssumption DEF CallRegister, ChannelInv, SetInv
  <2>2. ResultOf(f) = "idle" /\ ResultOf(f)' = "pending"
    <3>1. sets'[f] = <<>> /\ <<>> # <<f>> /\ <<>> # <<None>>
      BY Zenon, <2>1
    <3>. QED  BY Zenon, <2>1, <3>1 DEF ResultOf
  <2>. QED  BY Zenon, <2>1, <2>2, OneResult DEF Service!Issue
<1>2. ASSUME NEW req \in workQ, DeferredRPCCall(req)
      PROVE  Service!Run(req.fut) /\ req.fut \in Calls
  <2>1. req \in Enqueued /\ req \in InFlight
    BY Zenon, <1>2 DEF DeferredRPCCall, Enqueued, InFlight
  <2>2. req.fut \in Calls /\ key[req.fut] # None
    BY Zenon, <2>1, Entries
  <2>3. executed[req.fut] = 0
    BY Zenon, <2>1 DEF ChannelInv, ExecInv
  <2>4. executed' = [executed EXCEPT ![req.fut] = 1] /\ UNCHANGED <<key, sets>>
    BY <1>2, <2>3 DEF DeferredRPCCall
  <2>5. \A f \in Calls : executed'[f] > 0 <=> executed[f] > 0 \/ f = req.fut
    BY <2>2, <2>3, <2>4, Typing
  <2>6. ResultOf(req.fut) # "idle"
    BY Zenon, <2>2 DEF ResultOf
  <2>7. \A f \in Calls : ResultOf(f)' = ResultOf(f)
    BY <2>4 DEF ResultOf
  <2>. QED  BY <2>2, <2>3, <2>5, <2>6, <2>7 DEF Service!Run
<1>3. ASSUME NEW d \in doneQ, RunCallback(d)
      PROVE  Service!Answer(d.fut) /\ d.fut \in Calls
  <2>1. /\ d.fut \in Calls /\ d.val = d.fut /\ sets[d.fut] = <<>>
        /\ executed[d.fut] = 1 /\ key[d.fut] # None
    BY Zenon, Typing DEF ChannelInv, SetInv
  <2>2. sets' = [sets EXCEPT ![d.fut] = <<d.fut>>] /\ UNCHANGED <<key, executed>>
    <3>1. Append(sets[d.fut], d.val) = <<d.fut>>
      BY <2>1
    <3>2. /\ sets' = [sets EXCEPT ![d.fut] = Append(sets[d.fut], d.val)]
          /\ UNCHANGED <<key, executed>>
      BY Zenon, <1>3 DEF RunCallback, DeserializeFuture, serverVars
    <3>. QED  BY Zenon, <3>1, <3>2
  <2>3. /\ sets'[d.fut] = <<d.fut>> /\ <<d.fut>> # <<>>
        /\ \A g \in Calls : g # d.fut => sets'[g] = sets[g]
    BY Zenon, <2>1, <2>2, Typing
  <2>4. ResultOf(d.fut) = "pending" /\ ResultOf(d.fut)' = "answered"
    BY <2>1, <2>2, <2>3, ChannelAssumption DEF ResultOf
  <2>. QED  BY <2>1, <2>2, <2>3, <2>4, OneResult DEF Service!Answer
<1>4. ASSUME NEW t \in Threads, NEW e \in respCallbacks, AbortOne(t, e)
      PROVE  Service!Fail(e.fut) /\ e.fut \in Calls
  <2>1. e.fut \in Calls /\ key[e.fut] # None
    BY Zenon, Typing, Entries
  <2>2. sets[e.fut] = <<>>
    <3>1. \A u \in Threads : iter[u] # None => u = t
      BY Zenon, <1>4 DEF AbortOne, ChannelInv, LockInv, Outside
    <3>2. ~Passed(e)
      BY Zenon, <1>4, <3>1, AbortPasses
    <3>. QED  BY Zenon, <3>2 DEF ChannelInv, SetInv
  <2>3. sets' = [sets EXCEPT ![e.fut] = <<None>>] /\ UNCHANGED <<key, executed>>
    <3>1. Append(sets[e.fut], None) = <<None>>
      BY <2>2
    <3>2. /\ sets' = [sets EXCEPT ![e.fut] = Append(sets[e.fut], None)]
          /\ UNCHANGED <<key, executed>>
      BY Zenon, <1>4 DEF AbortOne, DeserializeFuture, serverVars
    <3>. QED  BY Zenon, <3>1, <3>2
  <2>4. /\ sets'[e.fut] = <<None>> /\ <<None>> # <<>> /\ <<None>> # <<e.fut>>
        /\ \A g \in Calls : g # e.fut => sets'[g] = sets[g]
    <3>1. e.fut # None
      BY Zenon, <2>1, ChannelAssumption
    <3>. QED  BY Zenon, <2>1, <2>3, <3>1, Typing
  <2>5. ResultOf(e.fut) = "pending" /\ ResultOf(e.fut)' = "failed"
    BY SMTT(30), <2>1, <2>2, <2>3, <2>4 DEF ResultOf
  <2>. QED  BY SMTT(30), <2>1, <2>3, <2>4, <2>5, OneResult DEF Service!Fail
<1>5. CASE \/ \E t \in Threads : CallLoadId(t) \/ CallWrite(t)
           \/ \E t \in Threads : DisconnectBegin(t) \/ ClientDestroy(t) \/ DisconnectEnd(t)
           \/ LinkFails \/ SetDisconnectCallback \/ ClientStart
           \/ ClientOnReceive \/ ClientOnDisconnect
  BY Zenon, <1>5, ServiceStutter DEF CallLoadId, CallWrite, LinkFails,
     SetDisconnectCallback, ClientStart, ClientOnReceive, ClientOnDisconnect,
     DisconnectBegin, ClientDestroy, DisconnectEnd
<1>6. CASE \/ \E m \in Exported : RegisterFunction(m)
           \/ \E keep \in BOOLEAN : OnAccept(keep)
           \/ \E req \in running : ResponseCallback(req)
           \/ ServerOnReceive \/ RunDisconnectTask \/ DropConnection
           \/ ServerOnDisconnect
  BY Zenon, <1>6, ServiceStutter DEF RegisterFunction, OnAccept, ResponseCallback,
     ServerOnReceive, RunDisconnectTask, DropConnection, ServerOnDisconnect
<1>7. CASE UNCHANGED vars
  BY Zenon, <1>7, ServiceStutter
<1>. QED
  BY Zenon, <1>1, <1>2, <1>3, <1>4, <1>5, <1>6, <1>7
  DEF Next, CallStep, Disconnect, Abort, Service!SNext

\* Users that serialise call() and disconnect() see a service that runs each
\* call at most once and sets its Future at most once, to the answer to that
\* call or to the default value.
THEOREM ChannelImplementsService == Locked => (Spec => ImplementsService)
<1>. SUFFICES ASSUME Locked PROVE Spec => ImplementsService
  BY Zenon
<1>1. Init => Service!SInit
  BY DEF Init, Service!SInit, ResultOf
<1>2. TypeOK /\ ChannelInv /\ [Next]_vars => [Service!SNext]_Service!svars
  BY Zenon, ServiceStep
<1>. QED
  BY <1>1, <1>2, TypeCorrect, ChannelInvariant, PTL
  DEF Spec, ImplementsService, Service!SSpec
===============================================================================
