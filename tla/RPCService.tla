------------------------------ MODULE RPCService ------------------------------
(***************************************************************************)
(* What an RPC channel promises its user, independently of sockets, ids,   *)
(* callbacks and threads.  A call is issued once.  The remote function     *)
(* runs at most once for it, in any order with respect to other calls.     *)
(* The call's Future is set at most once: to what the function returned    *)
(* for this very call, after it ran, or to the default value of its type,  *)
(* which stands for failure; the function may then still run, or have run. *)
(***************************************************************************)
CONSTANT Calls

VARIABLES
    ran,      \* the calls whose remote function has run
    result    \* result[f]: "idle", "pending", "answered" or "failed"

svars == <<ran, result>>

SInit ==
    /\ ran = {}
    /\ result = [f \in Calls |-> "idle"]

Issue(f) ==
    /\ result[f] = "idle"
    /\ result' = [result EXCEPT ![f] = "pending"]
    /\ UNCHANGED ran

Run(f) ==
    /\ result[f] # "idle"
    /\ f \notin ran
    /\ ran' = ran \union {f}
    /\ UNCHANGED result

Answer(f) ==
    /\ result[f] = "pending"
    /\ f \in ran
    /\ result' = [result EXCEPT ![f] = "answered"]
    /\ UNCHANGED ran

Fail(f) ==
    /\ result[f] = "pending"
    /\ result' = [result EXCEPT ![f] = "failed"]
    /\ UNCHANGED ran

SNext == \E f \in Calls : Issue(f) \/ Run(f) \/ Answer(f) \/ Fail(f)

SSpec == SInit /\ [][SNext]_svars
===============================================================================
