--------------------------- MODULE MCBlockStoreNode ---------------------------
(* Instances of BlockStoreNode for TLC: what users do and what goes wrong. *)
EXTENDS BlockStoreNode

CONSTANTS n1, n2, n3, b

Quiet == [nodes |-> {n1, n2}, seeds |-> {<<n1, n2>>, <<n2, n1>>}, stops |-> {},
          puts |-> {}, local |-> {}, remote |-> {}, faults |-> 0, parallel |-> 2]

\* Three nodes; one is stopped; a connection fails; a node with a store calls
\* putBlock; a node is its own peer.
Chain == [Quiet EXCEPT !.nodes = {n1, n2, n3}, !.seeds = {<<n1, n2>>, <<n2, n3>>},
                       !.parallel = 1]
Stop  == [Quiet EXCEPT !.stops = {n2}]
Lossy == [Quiet EXCEPT !.faults = 1]
Store == [Quiet EXCEPT !.seeds = {<<n1, n2>>}, !.puts = {n1}, !.local = {<<n1, b>>},
                       !.faults = 1]
Own   == [Quiet EXCEPT !.nodes = {n1}, !.seeds = {<<n1, n1>>}, !.stops = {n1},
                       !.local = {<<n1, b>>}, !.remote = {b}, !.faults = 1]

Various  == {Chain, Stop, Lossy, Store, Own}
OnlyStop == {Stop}
===============================================================================
