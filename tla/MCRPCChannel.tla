----------------------------- MODULE MCRPCChannel -----------------------------
(* Instances of RPCChannel for TLC: two calls race for the ids, the worker
   pool and the connection. *)
EXTENDS RPCChannel, TLC

CONSTANTS f1, f2, t1, t2, good, bad

\* One of the calls names a method that nobody registers.
OneBad == (f1 :> good) @@ (f2 :> bad)
===============================================================================
