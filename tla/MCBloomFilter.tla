---------------------------- MODULE MCBloomFilter -----------------------------
(* An instance of BloomFilter for TLC. *)
EXTENDS BloomFilter

CONSTANTS a, b

\* Seven probes from either seed; the keys collide in some positions.
SomeHash ==
    [k \in {a, b} |-> [n \in 0..8 |-> IF k = a THEN n * n + 1 ELSE 5 * n]]
===============================================================================
