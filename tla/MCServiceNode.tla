---------------------------- MODULE MCServiceNode -----------------------------
(* Instances of ServiceNode for TLC. *)
EXTENDS ServiceNode

CONSTANTS n1, n2, n3, x, l

\* The addPeer calls that the users make.
Pair  == {<<n1, n2>>}
Both  == {<<n1, n2>>, <<n2, n1>>}
Chain == {<<n1, n2>>, <<n2, n3>>}
===============================================================================
