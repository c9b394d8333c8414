-------------------------- MODULE MCRemoteBlockStore --------------------------
(* Instances of RemoteBlockStore for TLC. *)
EXTENDS RemoteBlockStore, FiniteSets, TLC

CONSTANTS c1, c2, c3, c4, c5, c6, c7, k, MaxMade

Op(method, bsid, data) == [method |-> method, bsid |-> bsid, key |-> k, data |-> data]

\* Two stores; in the first a block is put twice, read and removed; what is put
\* into the second is too long.
Mixed == c1 :> Op("putBlock", 1, <<1, 1>>)
      @@ c2 :> Op("putBlock", 1, <<2, 2>>)
      @@ c3 :> Op("getBlock", 1, <<>>)
      @@ c4 :> Op("removeBlock", 1, <<>>)
      @@ c5 :> Op("putBlock", 2, <<3, 3, 3>>)
      @@ c6 :> Op("bloomfilter", 1, <<>>)
      @@ c7 :> Op("numFreeBlocks", 2, <<>>)

\* Some of all the calls are made, in any order, and each may fail; or the four
\* on the first store's block are, and none fails.
FewCalls ==
    LET made == {f \in Calls : result'[f] # "idle"}
    IN \/ result' = result
       \/ Cardinality(made) <= MaxMade
       \/ made = {c1, c2, c3, c4} /\ \A f \in made : result'[f] # "failed"
===============================================================================
