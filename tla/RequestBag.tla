----------------------------- MODULE RequestBag -----------------------------
(***************************************************************************)
(* The requests under way between nodes, as a bag: the same request can be *)
(* sent twice and is then handled twice.  ServiceNode and BlockStoreNode   *)
(* add requests by the set and take them out one by one.  These few        *)
(* operators stand for the ones of the library's Bags so that the proofs   *)
(* about the nodes carry no more definitions than they use.                *)
(***************************************************************************)
EXTENDS Integers

IsRequestBag(B) == B \in [DOMAIN B -> Nat \ {0}]

\* The requests of which at least one copy is under way.
UnderWay(B) == DOMAIN B

NoRequests == [r \in {} |-> 0]

Copies(B, r) == IF r \in DOMAIN B THEN B[r] ELSE 0

\* One more copy of each request of S.
AddAll(B, S) ==
    [r \in DOMAIN B \union S |-> Copies(B, r) + IF r \in S THEN 1 ELSE 0]

\* One copy less of req.
TakeOne(B, req) ==
    [r \in {s \in DOMAIN B : s = req => B[s] > 1} |->
        IF r = req THEN B[r] - 1 ELSE B[r]]

=============================================================================
