------------------------------ MODULE MCLRUCache ------------------------------
(* Instances of LRUCache for TLC. *)
EXTENDS LRUCache

CONSTANTS a, b, c, d, v
===============================================================================
