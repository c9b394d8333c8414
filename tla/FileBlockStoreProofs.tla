-------------------------- MODULE FileBlockStoreProofs -------------------------
(***************************************************************************)
(* Proofs about FileBlockStore, for any keys, blocks, threads and limits:  *)
(* its types, its descriptors and its counters.                            *)
(***************************************************************************)
EXTENDS FileBlockStore, FiniteSetTheorems, TLAPS

(***************************************************************************)
(* What a thread is doing.                                                 *)
(***************************************************************************)
PutRec ==
    [at : {"open", "write", "count", "store"}, key : Keys, data : Data,
     alone : BOOLEAN, linked : BOOLEAN, free : Int, used : Int]
ListRec == [must : SUBSET Keys, may : SUBSET Keys]
ScanRec == [at : {"scan"}, must : SUBSET Keys, may : SUBSET Keys]
OpRec == {Idle, Unlinked} \union PutRec \union ScanRec
GetRec == [key : Keys, block : Data \union {None}]

TypeInv ==
    /\ files = [k \in Keys |-> files[k]]
    /\ op \in [Threads -> OpRec]
    /\ get \in [Threads -> GetRec \union {None}]
    /\ dir # None => dir \in ListRec
    /\ acked \in [Keys -> Data \union {None}]
    /\ known \subseteq Keys
    /\ free \in Int /\ used \in Int
    /\ fds \in Int /\ leaked \in Int

\* The state a thread is in tells which fields it has.
LEMMA OpCases ==
    ASSUME NEW x \in OpRec
    PROVE  /\ x.at \in {"idle", "unlinked", "open", "write", "count", "store", "scan"}
           /\ x.at \in {"open", "write", "count", "store"} => x \in PutRec
           /\ x.at = "scan" => x \in ScanRec
           /\ x.at = "idle" <=> x = Idle
           /\ x.at = "unlinked" <=> x = Unlinked
<1>1. CASE x = Idle
  BY Zenon, <1>1 DEF Idle, Unlinked
<1>2. CASE x = Unlinked
  BY Zenon, <1>2 DEF Idle, Unlinked
<1>3. CASE x \in PutRec
  BY <1>3 DEF PutRec, Idle, Unlinked
<1>4. CASE x \in ScanRec
  BY <1>4 DEF ScanRec, Idle, Unlinked
<1>. QED  BY Zenon, <1>1, <1>2, <1>3, <1>4 DEF OpRec

\* A thread that has the file open, and the key it is putting.
Opens(t, k) == op[t].at \in Putting /\ op[t].key = k

\* What open, write and unlink do to the state of another thread u.
Elsewhere(u, k, how) ==
    /\ op'[u].at = op[u].at
    /\ op[u].at \in Putting \union {"open"} =>
          /\ op'[u].key = op[u].key /\ op'[u].data = op[u].data
          /\ op'[u].free = op[u].free
          /\ op'[u].linked => op[u].linked /\ ~(Opens(u, k) /\ how = "unlink")
          /\ Opens(u, k) => ~op'[u].alone
          /\ ~Opens(u, k) => op'[u] = op[u]
    /\ op[u].at = "scan" =>
          op'[u].must = IF how = "unlink" THEN op[u].must \ {k} ELSE op[u].must

\* The states of the threads and the listing of next(), after one of them.
LEMMA DisturbFacts ==
    ASSUME TypeInv, NEW t \in Threads, NEW k \in Keys, NEW next \in OpRec,
           NEW how \in {"make", "write", "unlink"}, Disturb(t, k, next, how)
    PROVE  /\ op' \in [Threads -> OpRec]
           /\ dir' # None => dir' \in ListRec
           /\ dir' = None <=> dir = None
           /\ op'[t] = next
           /\ \A u \in Threads \ {t} : Elsewhere(u, k, how)
<1>1. op' = [u \in Threads |->
                IF u = t THEN next
                ELSE IF u \in Others(t, k)
                THEN [op[u] EXCEPT !.alone = FALSE, !.linked = @ /\ how # "unlink"]
                ELSE IF op[u].at = "scan" THEN Changed(op[u], k, how)
                ELSE op[u]]
  BY Zenon DEF Disturb
<1>2. dir' = IF dir = None THEN None ELSE Changed(dir, k, how)
  BY Zenon DEF Disturb
<1>3. ASSUME NEW s \in ListRec
      PROVE  Changed(s, k, how) \in ListRec
  BY Zenon DEF Changed, ListRec
<1>4. ASSUME NEW s \in ScanRec
      PROVE  /\ Changed(s, k, how) \in ScanRec
             /\ Changed(s, k, how).must = IF how = "unlink" THEN s.must \ {k} ELSE s.must
  BY Zenon DEF Changed, ScanRec
<1>5. /\ dir' # None => dir' \in ListRec
      /\ dir' = None <=> dir = None
  BY SMTT(30), <1>2, <1>3, StoreAssumption DEF TypeInv, ListRec
<1>6. op'[t] = next
  BY Zenon, <1>1
<1>7. ASSUME NEW u \in Threads \ {t}
      PROVE  op'[u] \in OpRec /\ Elsewhere(u, k, how)
  <2>0. op[u] \in OpRec
    BY Zenon DEF TypeInv
  <2>1. CASE Opens(u, k)
    <3>1. op[u] \in PutRec /\ op[u].at # "scan" /\ u \in Others(t, k)
      BY SMTT(30), <2>0, <2>1, OpCases DEF Opens, Putting, Others
    <3>2. op'[u] = [op[u] EXCEPT !.alone = FALSE, !.linked = @ /\ how # "unlink"]
      BY Zenon, <1>1, <3>1
    <3>3. /\ op'[u] \in PutRec /\ op'[u].at = op[u].at /\ op'[u].alone = FALSE
          /\ op'[u].key = op[u].key /\ op'[u].data = op[u].data
          /\ op'[u].free = op[u].free
          /\ op'[u].linked => op[u].linked /\ how # "unlink"
      BY Zenon, <3>1, <3>2 DEF PutRec
    <3>. QED  BY Zenon, <2>1, <3>1, <3>3 DEF OpRec, Elsewhere
  <2>2. CASE ~Opens(u, k) /\ op[u].at = "scan"
    <3>1. op[u] \in ScanRec /\ u \notin Others(t, k)
      BY Zenon, <2>0, <2>2, OpCases DEF Opens, Others
    <3>2. op'[u] = Changed(op[u], k, how)
      BY Zenon, <1>1, <2>2, <3>1
    <3>3. op'[u] \in ScanRec /\ op'[u].at = "scan"
      BY Zenon, <1>4, <3>1, <3>2 DEF ScanRec
    <3>. QED  BY Zenon, <1>4, <2>2, <3>1, <3>2, <3>3 DEF OpRec, Putting, Elsewhere
  <2>3. CASE ~Opens(u, k) /\ op[u].at # "scan"
    <3>1. op'[u] = op[u]
      BY Zenon, <1>1, <2>3 DEF Opens, Others
    <3>. QED  BY Zenon, <2>0, <2>3, <3>1 DEF Elsewhere
  <2>. QED  BY Zenon, <2>1, <2>2, <2>3
<1>8. op' \in [Threads -> OpRec]
  <2>1. op' = [u \in Threads |-> op'[u]]
    BY Zenon, <1>1
  <2>2. \A u \in Threads : op'[u] \in OpRec
    BY Zenon, <1>6, <1>7
  <2>. QED  BY Zenon, <2>1, <2>2
<1>. QED  BY SMTT(30), <1>5, <1>6, <1>7, <1>8

\* The threads that have a file open to read it.
Readers == {t \in Threads : get[t] # None}

\* A get whose block is no longer certain still has the file open.
LEMMA ForgetFacts ==
    ASSUME TypeInv, NEW k \in Keys, Forget(k)
    PROVE  /\ get' \in [Threads -> GetRec \union {None}]
           /\ Readers' = Readers
           /\ \A u \in Threads : get'[u] # None /\ get'[u].block # None =>
                 get'[u] = get[u] /\ get[u].key # k
<1>1. get' = [u \in Threads |->
                IF get[u] # None /\ get[u].key = k THEN [get[u] EXCEPT !.block = None]
                ELSE get[u]]
  BY Zenon DEF Forget
<1>2. \A g \in GetRec : /\ [g EXCEPT !.block = None] \in GetRec
                       /\ [g EXCEPT !.block = None].block = None
  BY Zenon DEF GetRec
<1>3. None \notin GetRec
  BY Zenon, StoreAssumption DEF GetRec
<1>4. ASSUME NEW u \in Threads
      PROVE  /\ get'[u] \in GetRec \union {None}
             /\ get'[u] # None <=> get[u] # None
             /\ get'[u] # None /\ get'[u].block # None => get'[u] = get[u] /\ get[u].key # k
  <2>1. get[u] \in GetRec \union {None}
    BY Zenon DEF TypeInv
  <2>. QED  BY Zenon, <1>1, <1>2, <1>3, <2>1
<1>5. get' \in [Threads -> GetRec \union {None}]
  BY Zenon, <1>1, <1>4
<1>6. Readers' = Readers
  BY Zenon, <1>4 DEF Readers
<1>. QED  BY Zenon, <1>4, <1>5, <1>6

\* getBlock changes nothing but who reads, and the descriptors.
LEMMA GetKeeps ==
    ASSUME NEW t \in Threads, GetBlock(t)
    PROVE  UNCHANGED <<files, free, used, known, op, dir, puts, crashes, acked, overlapped,
                       leaked, blind>>
  BY Zenon DEF GetBlock, GetOpen, GetRead, history

\* What a thread that puts is in after room was found, and after open.
LEMMA PutStateType ==
    ASSUME NEW at \in {"open", "write", "count", "store"}, NEW k \in Keys,
           NEW d \in Data, NEW b \in BOOLEAN
    PROVE  PutState(at, k, d, b) \in PutRec /\ PutState(at, k, d, b) \in OpRec
  BY DEF PutState, PutRec, OpRec

\* What opendir finds.
LEMMA ListingType == Listing \in ListRec /\ ScanState(Listing) \in ScanRec
  BY Zenon DEF Listing, Visible, ListRec, ScanState, ScanRec

\* readdir takes the name that it returns off the listing.
LEMMA ReadType ==
    ASSUME NEW k
    PROVE  /\ \A s \in ListRec : Read(s, k) \in ListRec /\ Read(s, k) # None
           /\ \A s \in ScanRec : /\ Read(s, k) \in ScanRec
                                 /\ Read(s, k).at = "scan"
                                 /\ Read(s, k).must = s.must \ {k}
                                 /\ Read(s, k).may = s.may \ {k}
<1>1. \A s \in ListRec : Read(s, k) \in ListRec
  BY Zenon DEF Read, ListRec
<1>2. \A s \in ScanRec : /\ Read(s, k) \in ScanRec
                         /\ Read(s, k).must = s.must \ {k} /\ Read(s, k).may = s.may \ {k}
  BY Zenon DEF Read, ScanRec
<1>3. \A s \in ListRec : s # None
  BY Zenon, StoreAssumption DEF ListRec
<1>4. \A s \in ScanRec : s.at = "scan"
  BY Zenon DEF ScanRec
<1>. QED  BY Zenon, <1>1, <1>2, <1>3, <1>4

\* The counters are unsigned.
LEMMA Unsigned ==
    ASSUME NEW x \in Int
    PROVE  /\ x % Modulus \in 0..(Modulus - 1) /\ x % Modulus \in Int
           /\ x \in 0..MaxFree => x % Modulus = x
<1>1. Modulus \in Nat /\ Modulus > 0 /\ Modulus > MaxFree /\ MaxFree \in Nat
  BY StoreAssumption
<1>2. x % Modulus \in 0..(Modulus - 1)
  BY <1>1
<1>3. x \in 0..MaxFree => x % Modulus = x
  BY <1>1
<1>. QED  BY <1>1, <1>2, <1>3

LEMMA Fits ==
    ASSUME NEW x \in Nat, x < Modulus
    PROVE  x % Modulus = x
<1>1. Modulus \in Nat /\ Modulus > 0
  BY StoreAssumption
<1>. QED  BY <1>1

\* Every variable keeps its type.
LEMMA TypeStep == TypeInv /\ [Next]_vars => TypeInv'
<1>. SUFFICES ASSUME TypeInv, [Next]_vars PROVE TypeInv'
  BY Zenon
<1>. USE DEF TypeInv
<1>1. Idle \in OpRec /\ Unlinked \in OpRec
  BY Zenon DEF OpRec
<1>2. ASSUME NEW t \in Threads, NEW k \in Keys, NEW d \in Data, PutBegin(t, k, d)
      PROVE  TypeInv'
  BY Zenon, <1>2, PutStateType DEF PutBegin
<1>3. ASSUME NEW t \in Threads, PutOpen(t)
      PROVE  TypeInv'
  <2>1. op[t] \in PutRec
    BY Zenon, <1>3, OpCases DEF PutOpen
  <2>2. op[t].key \in Keys /\ op[t].data \in Data
    BY Zenon, <2>1 DEF PutRec
  <2>3. CASE fds = MaxFds
    BY Zenon, <1>1, <1>3, <2>3 DEF PutOpen
  <2>4. CASE fds # MaxFds
    <3>. DEFINE next == IF Len(op[t].data) > BlockSize THEN Idle
                        ELSE PutState("write", op[t].key, op[t].data, Others(t, op[t].key) = {})
                how == IF files[op[t].key] = None THEN "make" ELSE "write"
    <3>1. next \in OpRec
      BY Zenon, <1>1, <2>2, PutStateType
    <3>2. /\ Disturb(t, op[t].key, next, how)
          /\ files' = [files EXCEPT ![op[t].key] = <<>>]
          /\ fds' = fds + 1
          /\ leaked' \in {leaked, leaked + 1}
          /\ acked' = [acked EXCEPT ![op[t].key] = None]
          /\ Forget(op[t].key)
          /\ UNCHANGED <<free, used, known>>
      BY Zenon, <1>3, <2>4 DEF PutOpen
    <3>4. get' \in [Threads -> GetRec \union {None}]
      BY Zenon, <2>2, <3>2, ForgetFacts
    <3>3. op' \in [Threads -> OpRec] /\ (dir' # None => dir' \in ListRec)
      <4>. HIDE DEF next
      <4>. QED  BY Zenon, <2>2, <3>1, <3>2, DisturbFacts
    <3>. QED  BY <2>2, <3>2, <3>3, <3>4
  <2>. QED  BY Zenon, <2>3, <2>4
<1>4. ASSUME NEW t \in Threads, NEW n \in 0..BlockSize, PutWrite(t, n)
      PROVE  TypeInv'
  <2>1. op[t] \in PutRec
    BY Zenon, <1>4, OpCases DEF PutWrite
  <2>2. op[t].key \in Keys
    BY Zenon, <2>1 DEF PutRec
  <2>. DEFINE next == IF WriteOk(n) THEN [op[t] EXCEPT !.at = "count"] ELSE Idle
  <2>3. next \in OpRec
    BY Zenon, <1>1, <2>1 DEF PutRec, OpRec
  <2>4. /\ Disturb(t, op[t].key, next, "write")
        /\ files' = IF op[t].linked
                    THEN [files EXCEPT ![op[t].key] = Overlay(@, op[t].data, n)]
                    ELSE files
        /\ fds' \in {fds, fds - 1} /\ leaked' \in {leaked, leaked + 1}
        /\ UNCHANGED <<free, used, known, acked, get>>
    BY Zenon, <1>4 DEF PutWrite
  <2>5. op' \in [Threads -> OpRec] /\ (dir' # None => dir' \in ListRec)
    <3>. HIDE DEF next
    <3>. QED  BY Zenon, <2>2, <2>3, <2>4, DisturbFacts
  <2>6. files' = [k \in Keys |-> files'[k]]
    BY Zenon, <2>4
  <2>. QED  BY <2>4, <2>5, <2>6
<1>5. ASSUME NEW t \in Threads, PutCount(t)
      PROVE  TypeInv'
  <2>1. op[t] \in PutRec
    BY Zenon, <1>5, OpCases DEF PutCount
  <2>2. op' = [op EXCEPT ![t] = [op[t] EXCEPT !.at = "store", !.free = free, !.used = used]]
    BY Zenon, <1>5 DEF PutCount
  <2>3. [op[t] EXCEPT !.at = "store", !.free = free, !.used = used] \in OpRec
    BY Zenon, <2>1 DEF PutRec, OpRec
  <2>. QED  BY <1>5, <2>2, <2>3 DEF PutCount, history
<1>6. ASSUME NEW t \in Threads, PutStore(t)
      PROVE  TypeInv'
  <2>1. op[t] \in PutRec
    BY Zenon, <1>6, OpCases DEF PutStore
  <2>2. op[t].key \in Keys /\ op[t].data \in Data /\ op[t].free \in Int /\ op[t].used \in Int
    BY Zenon, <2>1 DEF PutRec
  <2>3. free' \in Int /\ used' \in Int
    <3>1. op[t].free - 1 \in Int /\ op[t].used + 1 \in Int
      BY <2>2
    <3>. QED  BY Zenon, <1>6, <3>1, Unsigned DEF PutStore
  <2>. QED  BY Zenon, <1>1, <1>6, <2>2, <2>3 DEF PutStore
<1>7. ASSUME NEW t \in Threads, NEW k \in Keys, RemoveBlock(t, k)
      PROVE  TypeInv'
  <2>1. op' \in [Threads -> OpRec] /\ (dir' # None => dir' \in ListRec)
    BY Zenon, <1>1, <1>7, DisturbFacts DEF RemoveBlock
  <2>2. get' \in [Threads -> GetRec \union {None}]
    BY Zenon, <1>7, ForgetFacts DEF RemoveBlock
  <2>. QED  BY Zenon, <1>7, <2>1, <2>2 DEF RemoveBlock
<1>8. ASSUME NEW t \in Threads, RegenerateBegin(t)
      PROVE  TypeInv'
  <2>1. free' \in Int
    BY <1>8, StoreAssumption DEF RegenerateBegin
  <2>2. op' \in [Threads -> OpRec]
    BY Zenon, <1>1, <1>8, ListingType DEF RegenerateBegin, OpRec
  <2>. QED  BY <1>8, <2>1, <2>2 DEF RegenerateBegin
<1>9. ASSUME NEW t \in Threads, NEW k \in Keys, RegenerateEntry(t, k)
      PROVE  TypeInv'
  <2>1. op[t] \in ScanRec
    BY Zenon, <1>9, OpCases DEF RegenerateEntry
  <2>2. Read(op[t], k) \in OpRec
    BY Zenon, <2>1, ReadType DEF OpRec
  <2>3. used' \in Int
    BY <1>9, StoreAssumption DEF RegenerateEntry
  <2>. QED  BY Zenon, <1>9, <2>2, <2>3 DEF RegenerateEntry, history
<1>10. ASSUME NEW t \in Threads, RegenerateEnd(t)
       PROVE  TypeInv'
  BY <1>1, <1>10 DEF RegenerateEnd, history
<1>11. ASSUME NEW open \in Int, NEW lost \in Int, Construct(open, lost)
       PROVE  TypeInv'
  <2>1. known' \subseteq Keys
    BY Zenon, <1>11 DEF Construct, Visible
  <2>2. used' \in Int
    <3>1. Cardinality(known') \in Int
      BY <2>1, StoreAssumption, FS_Subset, FS_CardinalityType
    <3>. QED  BY Zenon, <1>11, <3>1, Unsigned DEF Construct
  <2>3. free' \in Int
    BY <1>11, StoreAssumption DEF Construct
  <2>. QED  BY Zenon, <1>1, <1>11, <2>1, <2>2, <2>3 DEF Construct
<1>12. CASE Restart \/ Reconstruct \/ NextFails
  <2>1. 0 \in Int /\ fds - 1 \in Int
    OBVIOUS
  <2>2. CASE Restart
    BY Zenon, <1>11, <2>1, <2>2 DEF Restart
  <2>3. CASE Reconstruct
    BY Zenon, <1>11, <2>1, <2>3 DEF Reconstruct
  <2>4. CASE NextFails
    BY Zenon, <1>11, <2>1, <2>4 DEF NextFails
  <2>. QED  BY Zenon, <1>12, <2>2, <2>3, <2>4
<1>13. ASSUME NEW k \in Keys, NextBlock(k)
       PROVE  TypeInv'
  <2>1. NextListing \in ListRec
    BY Zenon, ListingType DEF NextListing
  <2>2. dir' \in ListRec
    BY Zenon, <1>13, <2>1, ReadType DEF NextBlock
  <2>. QED  BY <1>13, <2>2 DEF NextBlock, history
<1>14. CASE NextEnd
  BY <1>14 DEF NextEnd, history
<1>15. CASE UNCHANGED vars
  BY Zenon, <1>15 DEF vars, history
<1>16. ASSUME NEW t \in Threads, GetBlock(t)
       PROVE  TypeInv'
  <2>1. ASSUME NEW k \in Keys
        PROVE  [key |-> k, block |-> acked[k]] \in GetRec
    BY Zenon DEF GetRec
  <2>2. get' \in [Threads -> GetRec \union {None}]
    BY Zenon, <1>16, <2>1 DEF GetBlock, GetOpen, GetRead
  <2>3. fds' \in Int
    BY <1>16 DEF GetBlock, GetOpen, GetRead
  <2>. QED  BY Zenon, <1>16, <2>2, <2>3, GetKeeps
<1>. QED  BY Zenon, <1>2, <1>3, <1>4, <1>5, <1>6, <1>7, <1>8, <1>9, <1>10, <1>12, <1>13,
             <1>14, <1>15, <1>16 DEF Next

\* A store that has just been made in an empty directory.
LEMMA TypeInit == Init => TypeInv
<1>. SUFFICES ASSUME Init PROVE TypeInv
  BY Zenon
<1>1. op \in [Threads -> OpRec]
  BY Zenon DEF Init, OpRec
<1>2. free \in Int
  BY StoreAssumption DEF Init
<1>. QED  BY <1>1, <1>2 DEF Init, TypeInv

(***************************************************************************)
(* Descriptors and counters.                                               *)
(***************************************************************************)
\* The threads that have a file or the directory open.
Holders == {t \in Threads : op[t].at \in {"write", "scan"}}

\* How many descriptors next() and the gets have.
Listed == Cardinality(Readers) + IF dir = None THEN 0 ELSE 1

\* Two sets of threads that differ in t at most.
LEMMA OneThread ==
    ASSUME NEW S, NEW R, S \subseteq Threads, NEW t \in Threads, R \ {t} = S \ {t}
    PROVE  /\ Cardinality(S) \in Nat
           /\ t \notin S /\ t \in R => Cardinality(R) = Cardinality(S) + 1
           /\ t \in S /\ t \notin R => Cardinality(R) = Cardinality(S) - 1
           /\ (t \in S <=> t \in R) => R = S /\ Cardinality(R) = Cardinality(S)
<1>1. IsFiniteSet(S)
  BY Zenon, FS_Subset, StoreAssumption
<1>2. t \notin S /\ t \in R => R = S \union {t}
  BY Zenon
<1>3. t \in S /\ t \notin R => R = S \ {t}
  BY Zenon
<1>4. (t \in S <=> t \in R) => R = S
  OBVIOUS
<1>5. Cardinality(S) \in Nat
  BY Zenon, <1>1, FS_CardinalityType
<1>6. t \notin S => Cardinality(S \union {t}) = Cardinality(S) + 1
  BY Zenon, <1>1, FS_AddElement
<1>7. t \in S => Cardinality(S \ {t}) = Cardinality(S) - 1
  BY Zenon, <1>1, FS_RemoveElement
<1>. QED  BY Zenon, <1>2, <1>3, <1>4, <1>5, <1>6, <1>7

\* What a step of t alone does to the number of those threads.
LEMMA HoldersStep ==
    ASSUME NEW t \in Threads, \A u \in Threads \ {t} : op'[u].at = op[u].at
    PROVE  /\ Cardinality(Holders) \in Nat
           /\ t \notin Holders /\ op'[t].at \in {"write", "scan"} =>
                 Cardinality(Holders') = Cardinality(Holders) + 1
           /\ t \in Holders /\ op'[t].at \notin {"write", "scan"} =>
                 Cardinality(Holders') = Cardinality(Holders) - 1
           /\ (t \in Holders <=> op'[t].at \in {"write", "scan"}) =>
                 Cardinality(Holders') = Cardinality(Holders)
<1>1. /\ Holders \subseteq Threads /\ Holders' \ {t} = Holders \ {t}
      /\ t \in Holders' <=> op'[t].at \in {"write", "scan"}
  BY Zenon DEF Holders
<1>. QED  BY Zenon, <1>1, OneThread

\* Every open and every close is paired, but for the puts that fail.
LEMMA DescriptorStep == TypeInv /\ DescriptorsAccounted /\ [Next]_vars => DescriptorsAccounted'
<1>. SUFFICES ASSUME TypeInv, fds = leaked + Cardinality(Holders) + Listed, [Next]_vars
              PROVE  fds' = leaked' + Cardinality(Holders') + Listed'
  <2>1. Cardinality(Holders) \in Nat /\ Cardinality(Readers) \in Nat
    BY Zenon, FS_Subset, FS_CardinalityType, StoreAssumption DEF Holders, Readers
  <2>2. TypeInv' => Cardinality(Holders') \in Nat /\ Cardinality(Readers') \in Nat
    BY Zenon, FS_Subset, FS_CardinalityType, StoreAssumption DEF Holders, Readers
  <2>. QED  BY <2>1, <2>2, TypeStep DEF TypeInv, DescriptorsAccounted, Holders, Readers, Listed
<1>0. /\ fds \in Int /\ leaked \in Int /\ Listed \in Int
      /\ Listed = Cardinality(Readers) + IF dir = None THEN 0 ELSE 1
      /\ Listed' = Cardinality(Readers') + IF dir' = None THEN 0 ELSE 1
      /\ Cardinality(Readers) \in Nat
  <2>1. Cardinality(Readers) \in Nat
    BY Zenon, FS_Subset, FS_CardinalityType, StoreAssumption DEF Readers
  <2>. QED  BY <2>1 DEF TypeInv, Listed
<1>1. ASSUME NEW t \in Threads, NEW k \in Keys, NEW d \in Data, PutBegin(t, k, d)
      PROVE  fds' = leaked' + Cardinality(Holders') + Listed'
  <2>1. \A u \in Threads \ {t} : op'[u].at = op[u].at
    BY Zenon, <1>1 DEF PutBegin, TypeInv
  <2>2. t \notin Holders /\ op'[t].at \in {"idle", "open"}
    BY <1>1 DEF PutBegin, Begin, Outside, TypeInv, Idle, Holders, PutState
  <2>3. fds' = fds /\ leaked' = leaked /\ dir' = dir /\ Readers' = Readers
    BY Zenon, <1>1 DEF PutBegin, Readers
  <2>4. Cardinality(Holders') = Cardinality(Holders)
    BY Zenon, <2>1, <2>2, HoldersStep
  <2>. QED  BY Zenon, <1>0, <2>3, <2>4
<1>2. ASSUME NEW t \in Threads, PutOpen(t)
      PROVE  fds' = leaked' + Cardinality(Holders') + Listed'
  <2>1. op[t] \in PutRec /\ op[t].at = "open" /\ t \notin Holders
    BY Zenon, <1>2, OpCases DEF PutOpen, TypeInv, Holders
  <2>2. op[t].key \in Keys /\ op[t].data \in Data
    BY Zenon, <2>1 DEF PutRec
  <2>3. CASE fds = MaxFds
    <3>1. op'[t].at = "idle" /\ \A u \in Threads \ {t} : op'[u].at = op[u].at
      BY <1>2, <2>3 DEF PutOpen, TypeInv, Idle
    <3>2. fds' = fds /\ leaked' = leaked /\ dir' = dir /\ Readers' = Readers
      BY Zenon, <1>2, <2>3 DEF PutOpen, Readers
    <3>3. Cardinality(Holders') = Cardinality(Holders)
      BY Zenon, <2>1, <3>1, HoldersStep
    <3>. QED  BY Zenon, <1>0, <3>2, <3>3
  <2>4. CASE fds # MaxFds
    <3>. DEFINE tooBig == Len(op[t].data) > BlockSize
                next == IF tooBig THEN Idle
                        ELSE PutState("write", op[t].key, op[t].data, Others(t, op[t].key) = {})
                how == IF files[op[t].key] = None THEN "make" ELSE "write"
    <3>1. /\ Disturb(t, op[t].key, next, how)
          /\ fds' = fds + 1
          /\ leaked' = IF tooBig THEN leaked + 1 ELSE leaked
          /\ Forget(op[t].key)
      BY Zenon, <1>2, <2>4 DEF PutOpen
    <3>6. Readers' = Readers
      BY Zenon, <2>2, <3>1, ForgetFacts
    <3>2. next \in OpRec /\ next.at = IF tooBig THEN "idle" ELSE "write"
      BY Zenon, <2>2, PutStateType DEF OpRec, Idle, PutState
    <3>3. /\ op'[t] = next /\ (dir' = None <=> dir = None)
          /\ \A u \in Threads \ {t} : op'[u].at = op[u].at
      <4>. HIDE DEF next
      <4>. QED  BY <2>2, <3>1, <3>2, DisturbFacts DEF Elsewhere
    <3>. HIDE DEF next, tooBig
    <3>4. CASE tooBig
      <4>1. Cardinality(Holders') = Cardinality(Holders) /\ Cardinality(Holders) \in Nat
        BY Zenon, <2>1, <3>2, <3>3, <3>4, HoldersStep
      <4>. QED  BY <1>0, <3>1, <3>3, <3>4, <3>6, <4>1
    <3>5. CASE ~tooBig
      <4>1. Cardinality(Holders') = Cardinality(Holders) + 1 /\ Cardinality(Holders) \in Nat
        BY Zenon, <2>1, <3>2, <3>3, <3>5, HoldersStep
      <4>. QED  BY <1>0, <3>1, <3>3, <3>5, <3>6, <4>1
    <3>. QED  BY Zenon, <3>4, <3>5
  <2>. QED  BY Zenon, <2>3, <2>4
<1>3. ASSUME NEW t \in Threads, NEW n \in 0..BlockSize, PutWrite(t, n)
      PROVE  fds' = leaked' + Cardinality(Holders') + Listed'
  <2>1. op[t] \in PutRec /\ op[t].at = "write" /\ t \in Holders
    BY Zenon, <1>3, OpCases DEF PutWrite, TypeInv, Holders
  <2>2. op[t].key \in Keys
    BY Zenon, <2>1 DEF PutRec
  <2>. DEFINE next == IF WriteOk(n) THEN [op[t] EXCEPT !.at = "count"] ELSE Idle
  <2>3. next \in OpRec /\ next.at \in {"idle", "count"}
    BY Zenon, <2>1 DEF PutRec, OpRec, Idle
  <2>4. /\ Disturb(t, op[t].key, next, "write")
        /\ \/ fds' = fds - 1 /\ leaked' = leaked
           \/ fds' = fds /\ leaked' = leaked + 1
        /\ Readers' = Readers
    BY Zenon, <1>3 DEF PutWrite, Readers
  <2>. HIDE DEF next
  <2>5. /\ op'[t] = next /\ (dir' = None <=> dir = None)
        /\ \A u \in Threads \ {t} : op'[u].at = op[u].at
    BY <2>2, <2>3, <2>4, DisturbFacts DEF Elsewhere
  <2>6. Cardinality(Holders') = Cardinality(Holders) - 1 /\ Cardinality(Holders) \in Nat
    BY Zenon, <2>1, <2>3, <2>5, HoldersStep
  <2>. QED  BY <1>0, <2>4, <2>5, <2>6
<1>4. ASSUME NEW t \in Threads, PutCount(t) \/ PutStore(t)
      PROVE  fds' = leaked' + Cardinality(Holders') + Listed'
  <2>1. op[t] \in PutRec /\ t \notin Holders
    BY Zenon, <1>4, OpCases DEF PutCount, PutStore, TypeInv, Holders
  <2>2. op'[t].at \in {"store", "idle"} /\ \A u \in Threads \ {t} : op'[u].at = op[u].at
    BY <1>4, <2>1 DEF PutCount, PutStore, TypeInv, Idle, PutRec
  <2>3. fds' = fds /\ leaked' = leaked /\ dir' = dir /\ Readers' = Readers
    BY Zenon, <1>4 DEF PutCount, PutStore, history, Readers
  <2>4. Cardinality(Holders') = Cardinality(Holders)
    BY Zenon, <2>1, <2>2, HoldersStep
  <2>. QED  BY Zenon, <1>0, <2>3, <2>4
<1>5. ASSUME NEW t \in Threads, NEW k \in Keys, RemoveBlock(t, k)
      PROVE  fds' = leaked' + Cardinality(Holders') + Listed'
  <2>1. Unlinked \in OpRec /\ Unlinked.at = "unlinked" /\ t \notin Holders
    BY <1>5 DEF RemoveBlock, Begin, Outside, OpRec, Unlinked, Holders, Idle
  <2>2. /\ op'[t] = Unlinked /\ (dir' = None <=> dir = None)
        /\ \A u \in Threads \ {t} : op'[u].at = op[u].at
    BY <1>5, <2>1, DisturbFacts DEF Elsewhere, RemoveBlock
  <2>3. fds' = fds /\ leaked' = leaked /\ Readers' = Readers
    BY Zenon, <1>5, ForgetFacts DEF RemoveBlock
  <2>4. Cardinality(Holders') = Cardinality(Holders)
    BY Zenon, <2>1, <2>2, HoldersStep
  <2>. QED  BY Zenon, <1>0, <2>2, <2>3, <2>4
<1>6. ASSUME NEW t \in Threads, RegenerateBegin(t)
      PROVE  fds' = leaked' + Cardinality(Holders') + Listed'
  <2>1. /\ t \notin Holders /\ leaked' = leaked /\ dir' = dir /\ Readers' = Readers
        /\ \A u \in Threads \ {t} : op'[u].at = op[u].at
    BY Zenon, <1>6 DEF RegenerateBegin, Holders, Readers, TypeInv
  <2>2. CASE fds = MaxFds
    <3>1. op'[t].at = "idle" /\ fds' = fds
      BY <1>6, <2>2 DEF RegenerateBegin, TypeInv, Idle
    <3>2. Cardinality(Holders') = Cardinality(Holders)
      BY Zenon, <2>1, <3>1, HoldersStep
    <3>. QED  BY Zenon, <1>0, <2>1, <3>1, <3>2
  <2>3. CASE fds # MaxFds
    <3>1. op'[t].at = "scan" /\ fds' = fds + 1
      BY <1>6, <2>3 DEF RegenerateBegin, TypeInv, ScanState
    <3>2. Cardinality(Holders') = Cardinality(Holders) + 1 /\ Cardinality(Holders) \in Nat
      BY Zenon, <2>1, <3>1, HoldersStep
    <3>. QED  BY <1>0, <2>1, <3>1, <3>2
  <2>. QED  BY Zenon, <2>2, <2>3
<1>7. ASSUME NEW t \in Threads, NEW k \in Keys, RegenerateEntry(t, k)
      PROVE  fds' = leaked' + Cardinality(Holders') + Listed'
  <2>1. op[t] \in ScanRec /\ t \in Holders
    BY Zenon, <1>7, OpCases DEF RegenerateEntry, TypeInv, Holders
  <2>2. op'[t].at = "scan" /\ \A u \in Threads \ {t} : op'[u].at = op[u].at
    BY Zenon, <1>7, <2>1, ReadType DEF RegenerateEntry, TypeInv
  <2>3. fds' = fds /\ leaked' = leaked /\ dir' = dir /\ Readers' = Readers
    BY Zenon, <1>7 DEF RegenerateEntry, history, Readers
  <2>4. Cardinality(Holders') = Cardinality(Holders)
    BY Zenon, <2>1, <2>2, HoldersStep
  <2>. QED  BY Zenon, <1>0, <2>3, <2>4
<1>8. ASSUME NEW t \in Threads, RegenerateEnd(t)
      PROVE  fds' = leaked' + Cardinality(Holders') + Listed'
  <2>1. /\ t \in Holders /\ op'[t].at = "idle"
        /\ \A u \in Threads \ {t} : op'[u].at = op[u].at
    BY Zenon, <1>8 DEF RegenerateEnd, TypeInv, Holders, Idle
  <2>2. fds' = fds - 1 /\ leaked' = leaked /\ dir' = dir /\ Readers' = Readers
    BY Zenon, <1>8 DEF RegenerateEnd, history, Readers
  <2>3. Cardinality(Holders') = Cardinality(Holders) - 1 /\ Cardinality(Holders) \in Nat
    BY Zenon, <2>1, HoldersStep
  <2>. QED  BY <1>0, <2>2, <2>3
<1>9. ASSUME NEW n \in Int, Construct(n, n)
      PROVE  fds' = leaked' + Cardinality(Holders') + Listed'
  <2>1. /\ fds' = n /\ leaked' = n /\ dir' = None
        /\ \A t \in Threads : op'[t].at = "idle" /\ get'[t] = None
    BY Zenon, <1>9 DEF Construct, Idle
  <2>2. Holders' = {} /\ Readers' = {}
    BY Zenon, <2>1 DEF Holders, Readers
  <2>3. Cardinality(Holders') = 0 /\ Cardinality(Readers') = 0
    BY Zenon, <2>2, FS_EmptySet
  <2>. QED  BY <1>0, <2>1, <2>3
<1>10. CASE Restart \/ NextFails
  BY <1>9, <1>10 DEF Restart, NextFails
<1>11. CASE Reconstruct
  <2>1. Holders = {} /\ Readers = {} /\ dir # None /\ Construct(fds - 1, leaked)
    BY <1>11 DEF Reconstruct, Outside, Holders, Readers, Idle
  <2>2. Cardinality(Holders) = 0 /\ Cardinality(Readers) = 0
    BY Zenon, <2>1, FS_EmptySet
  <2>3. fds - 1 = leaked
    BY <1>0, <2>1, <2>2
  <2>4. Construct(leaked, leaked)
    BY Zenon, <2>1, <2>3
  <2>. QED  BY Zenon, <1>0, <1>9, <2>4
<1>12. ASSUME NEW k \in Keys, NextBlock(k)
       PROVE  fds' = leaked' + Cardinality(Holders') + Listed'
  <2>1. /\ Holders' = Holders /\ Readers' = Readers /\ leaked' = leaked
        /\ fds' = IF dir = None THEN fds + 1 ELSE fds
    BY Zenon, <1>12 DEF NextBlock, Holders, Readers, history
  <2>2. NextListing \in ListRec
    BY Zenon, ListingType DEF NextListing, TypeInv
  <2>3. dir' # None
    BY Zenon, <1>12, <2>2, ReadType DEF NextBlock
  <2>4. Cardinality(Holders) \in Nat
    BY Zenon, FS_Subset, FS_CardinalityType, StoreAssumption DEF Holders
  <2>. QED  BY <1>0, <2>1, <2>3, <2>4
<1>13. CASE NextEnd
  <2>1. /\ Holders' = Holders /\ Readers' = Readers /\ leaked' = leaked /\ dir' = None
        /\ fds' = IF dir = None THEN fds ELSE fds - 1
    BY Zenon, <1>13 DEF NextEnd, Holders, Readers, history
  <2>2. Cardinality(Holders) \in Nat
    BY Zenon, FS_Subset, FS_CardinalityType, StoreAssumption DEF Holders
  <2>. QED  BY <1>0, <2>1, <2>2
<1>14. CASE UNCHANGED vars
  BY Zenon, <1>14 DEF vars, history, Holders, Readers, Listed
<1>15. ASSUME NEW t \in Threads, GetBlock(t)
       PROVE  fds' = leaked' + Cardinality(Holders') + Listed'
  <2>1. Holders' = Holders /\ leaked' = leaked /\ dir' = dir
    BY Zenon, <1>15, GetKeeps DEF Holders
  <2>2. Readers \subseteq Threads /\ Readers' \ {t} = Readers \ {t}
    BY Zenon, <1>15 DEF GetBlock, GetOpen, GetRead, Readers, TypeInv
  <2>3. Cardinality(Holders) \in Nat
    BY Zenon, FS_Subset, FS_CardinalityType, StoreAssumption DEF Holders
  <2>4. ASSUME NEW k \in Keys, GetOpen(t, k)
        PROVE  fds' = leaked' + Cardinality(Holders') + Listed'
    <3>1. [key |-> k, block |-> acked[k]] # None
      <4>1. [key |-> k, block |-> acked[k]] \in GetRec
        BY Zenon DEF TypeInv, GetRec
      <4>. QED  BY Zenon, <4>1, StoreAssumption DEF GetRec
    <3>2. t \notin Readers /\ t \in Readers' /\ fds' = fds + 1
      BY Zenon, <2>4, <3>1 DEF GetOpen, Outside, Readers, TypeInv
    <3>3. Cardinality(Readers') = Cardinality(Readers) + 1
      BY Zenon, <2>2, <3>2, OneThread
    <3>. QED  BY <1>0, <2>1, <2>3, <3>2, <3>3
  <2>5. CASE GetRead(t)
    <3>1. t \in Readers /\ t \notin Readers' /\ fds' = fds - 1
      BY Zenon, <2>5 DEF GetRead, Readers, TypeInv
    <3>2. Cardinality(Readers') = Cardinality(Readers) - 1
      BY Zenon, <2>2, <3>1, OneThread
    <3>. QED  BY <1>0, <2>1, <2>3, <3>1, <3>2
  <2>. QED  BY Zenon, <1>15, <2>4, <2>5 DEF GetBlock
<1>. QED  BY Zenon, <1>1, <1>2, <1>3, <1>4, <1>5, <1>6, <1>7, <1>8, <1>10, <1>11, <1>12, <1>13,
             <1>14, <1>15 DEF Next

\* For any limit and any number of threads, no path of the code leaks a
\* descriptor but the two early returns of putBlock.
THEOREM DescriptorsAlwaysAccounted == Spec => []DescriptorsAccounted
<1>1. Init => DescriptorsAccounted
  <2>. SUFFICES ASSUME Init PROVE DescriptorsAccounted
    BY Zenon
  <2>1. Holders = {} /\ Readers = {}
    BY Zenon DEF Init, Idle, Holders, Readers
  <2>2. Cardinality(Holders) = 0 /\ Cardinality(Readers) = 0
    BY Zenon, <2>1, FS_EmptySet
  <2>3. fds = leaked + Cardinality(Holders) + Cardinality(Readers) + (IF dir = None THEN 0 ELSE 1)
    BY <2>2 DEF Init
  <2>. QED  BY Zenon, <2>3 DEF DescriptorsAccounted, Holders, Readers
<1>. QED  BY <1>1, TypeInit, TypeStep, DescriptorStep, PTL DEF Spec

\* Until two calls overlap one thread at most is in a call, and a put that found
\* room still has it when it counts its block.
CountInv ==
    ~overlapped =>
        /\ free \in 0..MaxFree
        /\ \A t, u \in Threads : op[t].at # "idle" /\ op[u].at # "idle" => t = u
        /\ \A t \in Threads : op[t].at \in {"open", "write", "count"} => free >= 1
        /\ \A t \in Threads : op[t].at = "store" => op[t].free = free /\ free >= 1

\* A step of the thread t, from one state of its call to another, or out of it.
LEMMA InsideStep ==
    ASSUME CountInv, NEW t \in Threads, op[t].at # "idle", overlapped' = overlapped,
           \A u \in Threads \ {t} : op'[u].at = op[u].at,
           ~overlapped => free' \in 0..MaxFree,
           ~overlapped /\ op'[t].at \in {"open", "write", "count", "store"} => free' >= 1,
           op'[t].at = "store" => op'[t].free = free'
    PROVE  CountInv'
<1>. SUFFICES ASSUME ~overlapped' PROVE CountInv'
  BY Zenon DEF CountInv
<1>1. \A u \in Threads \ {t} : op'[u].at = "idle"
  BY Zenon DEF CountInv
<1>. QED  BY Zenon, <1>1 DEF CountInv

\* Where open and write leave the thread that makes the call.
LEMMA OpenTo ==
    ASSUME TypeInv, NEW t \in Threads, PutOpen(t)
    PROVE  op'[t].at \in {"idle", "write"} /\ \A u \in Threads \ {t} : op'[u].at = op[u].at
<1>1. op[t] \in PutRec
  BY Zenon, OpCases DEF PutOpen, TypeInv
<1>2. op[t].key \in Keys /\ op[t].data \in Data
  BY Zenon, <1>1 DEF PutRec
<1>3. CASE fds = MaxFds
  BY <1>3 DEF PutOpen, TypeInv, Idle
<1>4. CASE fds # MaxFds
  <2>. DEFINE next == IF Len(op[t].data) > BlockSize THEN Idle
                      ELSE PutState("write", op[t].key, op[t].data, Others(t, op[t].key) = {})
              how == IF files[op[t].key] = None THEN "make" ELSE "write"
  <2>1. Disturb(t, op[t].key, next, how)
    BY Zenon, <1>4 DEF PutOpen
  <2>2. next \in OpRec /\ next.at \in {"idle", "write"}
    BY Zenon, <1>2, PutStateType DEF OpRec, Idle, PutState
  <2>. HIDE DEF next
  <2>. QED  BY <1>2, <2>1, <2>2, DisturbFacts DEF Elsewhere
<1>. QED  BY Zenon, <1>3, <1>4

LEMMA WriteTo ==
    ASSUME TypeInv, NEW t \in Threads, NEW n \in 0..BlockSize, PutWrite(t, n)
    PROVE  op'[t].at \in {"idle", "count"} /\ \A u \in Threads \ {t} : op'[u].at = op[u].at
<1>1. op[t] \in PutRec
  BY Zenon, OpCases DEF PutWrite, TypeInv
<1>. DEFINE next == IF WriteOk(n) THEN [op[t] EXCEPT !.at = "count"] ELSE Idle
<1>2. next \in OpRec /\ next.at \in {"idle", "count"} /\ op[t].key \in Keys
  BY Zenon, <1>1 DEF PutRec, OpRec, Idle
<1>3. Disturb(t, op[t].key, next, "write")
  BY Zenon DEF PutWrite
<1>. HIDE DEF next
<1>. QED  BY <1>2, <1>3, DisturbFacts DEF Elsewhere

\* The counter goes down only in a put that found it above zero.
LEMMA CountersStep == TypeInv /\ CountInv /\ [Next]_vars => CountInv'
<1>. SUFFICES ASSUME TypeInv, CountInv, [Next]_vars PROVE CountInv'
  BY Zenon
<1>0. \A t \in Threads : op[t] \in OpRec /\ (op[t].at = "idle" <=> op[t] = Idle)
  BY Zenon, OpCases DEF TypeInv
<1>1. ASSUME NEW t \in Threads, NEW k \in Keys, NEW d \in Data, PutBegin(t, k, d)
      PROVE  CountInv'
  <2>. SUFFICES ASSUME ~overlapped' PROVE CountInv'
    BY Zenon DEF CountInv
  <2>1. ~overlapped /\ (\A u \in Threads : op[u].at = "idle") /\ free' = free
    BY Zenon, <1>0, <1>1 DEF PutBegin, Begin
  <2>2. \A u \in Threads \ {t} : op'[u].at = "idle"
    BY Zenon, <1>1, <2>1 DEF PutBegin, TypeInv
  <2>3. op'[t].at = "idle" \/ (op'[t].at = "open" /\ ~NoRoom)
    BY Zenon, <1>1, <2>1 DEF PutBegin, TypeInv, PutState
  <2>4. free \in 0..MaxFree /\ (~NoRoom => free >= 1)
    BY <2>1, StoreAssumption DEF CountInv, NoRoom
  <2>. QED  BY Zenon, <2>1, <2>2, <2>3, <2>4 DEF CountInv
<1>2. ASSUME NEW t \in Threads, PutOpen(t)
      PROVE  CountInv'
  <2>1. op[t] \in PutRec /\ op[t].at = "open" /\ free' = free /\ overlapped' = overlapped
    BY Zenon, <1>2, OpCases DEF PutOpen, TypeInv
  <2>2. op'[t].at \in {"idle", "write"} /\ \A u \in Threads \ {t} : op'[u].at = op[u].at
    BY Zenon, <1>2, OpenTo
  <2>. QED  BY Zenon, <2>1, <2>2, InsideStep DEF CountInv
<1>3. ASSUME NEW t \in Threads, NEW n \in 0..BlockSize, PutWrite(t, n)
      PROVE  CountInv'
  <2>1. op[t] \in PutRec /\ op[t].at = "write" /\ free' = free /\ overlapped' = overlapped
    BY Zenon, <1>3, OpCases DEF PutWrite, TypeInv
  <2>2. op'[t].at \in {"idle", "count"} /\ \A u \in Threads \ {t} : op'[u].at = op[u].at
    BY Zenon, <1>3, WriteTo
  <2>. QED  BY Zenon, <2>1, <2>2, InsideStep DEF CountInv
<1>4. ASSUME NEW t \in Threads, PutCount(t)
      PROVE  CountInv'
  <2>1. op[t] \in PutRec /\ op[t].at = "count" /\ free' = free /\ overlapped' = overlapped
    BY Zenon, <1>4, OpCases DEF PutCount, TypeInv, history
  <2>2. op' = [op EXCEPT ![t] = [op[t] EXCEPT !.at = "store", !.free = free, !.used = used]]
    BY Zenon, <1>4 DEF PutCount
  <2>3. op'[t].at = "store" /\ op'[t].free = free /\ \A u \in Threads \ {t} : op'[u].at = op[u].at
    BY Zenon, <2>1, <2>2 DEF PutRec, TypeInv
  <2>. QED  BY Zenon, <2>1, <2>3, InsideStep DEF CountInv
<1>5. ASSUME NEW t \in Threads, PutStore(t)
      PROVE  CountInv'
  <2>1. /\ op[t].at = "store" /\ overlapped' = overlapped
        /\ free' = (op[t].free - 1) % Modulus
        /\ op'[t].at = "idle" /\ \A u \in Threads \ {t} : op'[u].at = op[u].at
    BY Zenon, <1>5 DEF PutStore, TypeInv, Idle
  <2>2. ~overlapped => op[t].free - 1 \in 0..MaxFree
    BY <2>1, StoreAssumption DEF CountInv
  <2>3. ~overlapped => free' \in 0..MaxFree
    BY <2>1, <2>2, Unsigned
  <2>. QED  BY Zenon, <2>1, <2>3, InsideStep
<1>6. ASSUME NEW t \in Threads, NEW k \in Keys, RemoveBlock(t, k)
      PROVE  CountInv'
  <2>. SUFFICES ASSUME ~overlapped' PROVE CountInv'
    BY Zenon DEF CountInv
  <2>1. ~overlapped /\ (\A u \in Threads : op[u].at = "idle") /\ free' = free
    BY Zenon, <1>0, <1>6 DEF RemoveBlock, Begin
  <2>2. Unlinked \in OpRec /\ Unlinked.at = "unlinked"
    BY Zenon DEF OpRec, Unlinked
  <2>3. op'[t].at = "unlinked" /\ \A u \in Threads \ {t} : op'[u].at = "idle"
    BY <1>6, <2>1, <2>2, DisturbFacts DEF RemoveBlock, Elsewhere
  <2>. QED  BY Zenon, <2>1, <2>3 DEF CountInv
<1>7. ASSUME NEW t \in Threads, RegenerateBegin(t)
      PROVE  CountInv'
  <2>1. /\ op[t].at = "unlinked" /\ overlapped' = overlapped /\ free' \in 0..MaxFree
        /\ op'[t].at \in {"idle", "scan"} /\ \A u \in Threads \ {t} : op'[u].at = op[u].at
    BY <1>7 DEF RegenerateBegin, TypeInv, Idle, ScanState
  <2>. QED  BY Zenon, <2>1, InsideStep
<1>8. ASSUME NEW t \in Threads, NEW k \in Keys, RegenerateEntry(t, k)
      PROVE  CountInv'
  <2>1. op[t] \in ScanRec /\ op[t].at = "scan" /\ overlapped' = overlapped /\ free' = free
    BY Zenon, <1>8, OpCases DEF RegenerateEntry, TypeInv, history
  <2>2. op'[t].at = "scan" /\ \A u \in Threads \ {t} : op'[u].at = op[u].at
    BY Zenon, <1>8, <2>1, ReadType DEF RegenerateEntry, TypeInv
  <2>. QED  BY Zenon, <2>1, <2>2, InsideStep DEF CountInv
<1>9. ASSUME NEW t \in Threads, RegenerateEnd(t)
      PROVE  CountInv'
  <2>1. /\ op[t].at = "scan" /\ overlapped' = overlapped /\ free' = free
        /\ op'[t].at = "idle" /\ \A u \in Threads \ {t} : op'[u].at = op[u].at
    BY Zenon, <1>9 DEF RegenerateEnd, TypeInv, history, Idle
  <2>. QED  BY Zenon, <2>1, InsideStep DEF CountInv
<1>10. ASSUME NEW open, NEW lost, Construct(open, lost)
       PROVE  CountInv'
  <2>1. free' \in 0..MaxFree /\ \A t \in Threads : op'[t].at = "idle"
    BY Zenon, <1>10 DEF Construct, Idle
  <2>. QED  BY Zenon, <2>1 DEF CountInv
<1>11. CASE Restart \/ Reconstruct \/ NextFails
  BY Zenon, <1>10, <1>11 DEF Restart, Reconstruct, NextFails
<1>12. CASE \/ (\E k \in Keys : NextBlock(k)) \/ NextEnd \/ UNCHANGED vars
            \/ \E t \in Threads : GetBlock(t)
  <2>1. op' = op /\ free' = free /\ overlapped' = overlapped
    BY Zenon, GetKeeps, <1>12 DEF NextBlock, NextEnd, vars, history
  <2>. QED  BY Zenon, <2>1 DEF CountInv
<1>. QED  BY Zenon, <1>1, <1>2, <1>3, <1>4, <1>5, <1>6, <1>7, <1>8, <1>9, <1>11, <1>12 DEF Next

\* Calls made one at a time never count below zero free blocks, whatever statfs
\* reports and however many are made.
THEOREM FreeNeverWraps == Spec => []FreeDoesNotWrap
<1>1. Init => CountInv
  BY DEF Init, CountInv, Idle
<1>2. CountInv => FreeDoesNotWrap
  BY StoreAssumption DEF CountInv, FreeDoesNotWrap, NumFreeBlocks
<1>. QED  BY <1>1, <1>2, TypeInit, TypeStep, CountersStep, PTL DEF Spec

(***************************************************************************)
(* Blocks that are counted: until two calls overlap, the count is at least *)
(* the number of keys, and stays below what the directory can hold and the *)
(* puts that were made.                                                    *)
(***************************************************************************)
\* The counter is wide enough for the files and for the puts.
CountersFit == Cardinality(Keys) + MaxPuts < Modulus

UseInv ==
    ~overlapped =>
        /\ Cardinality(known) <= used
        /\ used <= Cardinality(Keys) + puts
        /\ \A t \in Threads : op[t].at \in {"open", "write", "count", "store"} =>
              used < Cardinality(Keys) + puts
        /\ \A t \in Threads : op[t].at = "store" => op[t].used = used
        /\ \A t \in Threads : op[t].at = "scan" =>
              used + Cardinality(op[t].may) <= Cardinality(Keys)

PutsInv == puts \in 0..MaxPuts /\ crashes \in 0..MaxCrashes

\* The calls of putBlock and the crashes are limited.
LEMMA PutsStep == PutsInv /\ [Next]_vars => PutsInv'
<1>. SUFFICES ASSUME PutsInv, [Next]_vars PROVE PutsInv'
  BY Zenon
<1>0. MaxPuts \in Nat /\ MaxCrashes \in Nat
  BY Zenon, StoreAssumption
<1>1. \/ puts' = puts
      \/ puts < MaxPuts /\ puts' = puts + 1
  BY Zenon, GetKeeps DEF Next, vars, PutBegin, PutOpen, PutCount, PutStore, PutWrite, RemoveBlock,
               RegenerateEntry, RegenerateBegin, RegenerateEnd, NextBlock, NextEnd, NextFails,
               Reconstruct, Restart, Construct
<1>2. \/ crashes' = crashes
      \/ crashes < MaxCrashes /\ crashes' = crashes + 1
  BY Zenon, GetKeeps DEF Next, vars, PutBegin, PutOpen, PutCount, PutStore, PutWrite, RemoveBlock,
               RegenerateEntry, RegenerateBegin, RegenerateEnd, NextBlock, NextEnd, NextFails,
               Reconstruct, Restart
<1>. QED  BY <1>0, <1>1, <1>2 DEF PutsInv

\* Sets of keys are finite.
LEMMA KeySets ==
    ASSUME NEW S, S \subseteq Keys
    PROVE  /\ Cardinality(Keys) \in Nat /\ Cardinality(S) \in Nat
           /\ Cardinality(S) <= Cardinality(Keys)
           /\ \A k \in Keys : /\ Cardinality(S \union {k}) \in Nat
                              /\ Cardinality(S \union {k}) <= Cardinality(S) + 1
           /\ \A k \in S : Cardinality(S \ {k}) = Cardinality(S) - 1
<1>1. IsFiniteSet(Keys) /\ IsFiniteSet(S)
  BY Zenon, FS_Subset, StoreAssumption
<1>2. Cardinality(Keys) \in Nat /\ Cardinality(S) \in Nat
  BY Zenon, <1>1, FS_CardinalityType
<1>3. Cardinality(S) <= Cardinality(Keys)
  BY Zenon, <1>1, FS_Subset
<1>4. ASSUME NEW k \in Keys
      PROVE  Cardinality(S \union {k}) \in {Cardinality(S), Cardinality(S) + 1}
  BY Zenon, <1>1, FS_AddElement
<1>5. \A k \in S : Cardinality(S \ {k}) = Cardinality(S) - 1
  BY Zenon, <1>1, FS_RemoveElement
<1>. QED  BY <1>2, <1>3, <1>4, <1>5

\* What UseInv says of the thread t.
UseOf(t) ==
    /\ op[t].at \in {"open", "write", "count", "store"} => used < Cardinality(Keys) + puts
    /\ op[t].at = "store" => op[t].used = used
    /\ op[t].at = "scan" => used + Cardinality(op[t].may) <= Cardinality(Keys)

\* A step of the only thread that is in a call.
LEMMA UseInside ==
    ASSUME CountInv, UseInv, NEW t \in Threads, op[t].at # "idle", overlapped' = overlapped,
           \A u \in Threads \ {t} : op'[u].at = op[u].at,
           ~overlapped => Cardinality(known') <= used' /\ used' <= Cardinality(Keys) + puts',
           ~overlapped => UseOf(t)'
    PROVE  UseInv'
<1>. SUFFICES ASSUME ~overlapped' PROVE UseInv'
  BY Zenon DEF UseInv
<1>1. \A u \in Threads \ {t} : op'[u].at = "idle"
  BY Zenon DEF CountInv
<1>2. \A u \in Threads \ {t} : UseOf(u)'
  BY Zenon, <1>1 DEF UseOf
<1>3. \A u \in Threads : UseOf(u)'
  BY Zenon, <1>2
<1>. QED  BY Zenon, <1>3 DEF UseInv, UseOf

\* putBlock counts the block that it writes, in a call of its own.
LEMMA UsePut ==
    ASSUME TypeInv, PutsInv, CountInv, UseInv, CountersFit, NEW t \in Threads,
           \/ PutOpen(t) \/ PutCount(t) \/ PutStore(t)
           \/ \E n \in 0..BlockSize : PutWrite(t, n)
    PROVE  UseInv'
<1>0. op[t] \in PutRec /\ op[t].at \in {"open", "write", "count", "store"}
  BY Zenon, OpCases DEF TypeInv, PutOpen, PutCount, PutStore, PutWrite
<1>1. overlapped' = overlapped /\ puts' = puts /\ op[t].at # "idle"
  BY Zenon, <1>0 DEF PutOpen, PutCount, PutStore, PutWrite, history
<1>2. /\ Cardinality(Keys) \in Nat /\ Cardinality(known) \in Nat /\ puts \in Nat
      /\ puts <= MaxPuts /\ MaxPuts \in Nat
  BY KeySets, StoreAssumption DEF TypeInv, PutsInv
<1>3. op[t].key \in Keys /\ op[t].data \in Data
  BY Zenon, <1>0 DEF PutRec
<1>4. ~overlapped =>
         /\ Cardinality(known) <= used /\ used < Cardinality(Keys) + puts
         /\ op[t].at = "store" => op[t].used = used
  BY Zenon, <1>0 DEF UseInv
<1>5. used \in Int
  BY Zenon DEF TypeInv
<1>6. CASE PutOpen(t)
  <2>1. used' = used /\ known' = known
    BY Zenon, <1>6 DEF PutOpen
  <2>2. op'[t].at \in {"idle", "write"} /\ \A u \in Threads \ {t} : op'[u].at = op[u].at
    BY Zenon, <1>3, <1>6, OpenTo
  <2>3. ~overlapped => UseOf(t)'
    BY Zenon, <1>1, <1>4, <2>1, <2>2 DEF UseOf
  <2>4. ~overlapped => Cardinality(known') <= used' /\ used' <= Cardinality(Keys) + puts'
    BY <1>1, <1>2, <1>4, <1>5, <2>1
  <2>. QED  BY Zenon, <1>1, <2>2, <2>3, <2>4, UseInside
<1>7. ASSUME NEW n \in 0..BlockSize, PutWrite(t, n)
      PROVE  UseInv'
  <2>1. used' = used /\ known' = known
    BY Zenon, <1>7 DEF PutWrite
  <2>2. op'[t].at \in {"idle", "count"} /\ \A u \in Threads \ {t} : op'[u].at = op[u].at
    BY Zenon, <1>7, WriteTo
  <2>3. ~overlapped => UseOf(t)'
    BY Zenon, <1>1, <1>4, <2>1, <2>2 DEF UseOf
  <2>4. ~overlapped => Cardinality(known') <= used' /\ used' <= Cardinality(Keys) + puts'
    BY <1>1, <1>2, <1>4, <1>5, <2>1
  <2>. QED  BY Zenon, <1>1, <2>2, <2>3, <2>4, UseInside
<1>8. CASE PutCount(t)
  <2>1. /\ used' = used /\ known' = known
        /\ op' = [op EXCEPT ![t] = [op[t] EXCEPT !.at = "store", !.free = free, !.used = used]]
    BY Zenon, <1>8 DEF PutCount
  <2>2. op'[t].at = "store" /\ op'[t].used = used /\ \A u \in Threads \ {t} : op'[u].at = op[u].at
    BY Zenon, <1>0, <2>1 DEF PutRec, TypeInv
  <2>3. ~overlapped => UseOf(t)'
    BY Zenon, <1>1, <1>4, <2>1, <2>2 DEF UseOf
  <2>4. ~overlapped => Cardinality(known') <= used' /\ used' <= Cardinality(Keys) + puts'
    BY <1>1, <1>2, <1>4, <1>5, <2>1
  <2>. QED  BY Zenon, <1>1, <2>2, <2>3, <2>4, UseInside
<1>9. CASE PutStore(t)
  <2>1. /\ used' = (op[t].used + 1) % Modulus /\ known' = known \union {op[t].key}
        /\ op[t].at = "store"
        /\ op'[t].at = "idle" /\ \A u \in Threads \ {t} : op'[u].at = op[u].at
    BY Zenon, <1>9 DEF PutStore, TypeInv, Idle
  <2>2. ~overlapped => UseOf(t)'
    BY Zenon, <2>1 DEF UseOf
  <2>3. /\ Cardinality(known \union {op[t].key}) <= Cardinality(known) + 1
        /\ Cardinality(known \union {op[t].key}) \in Nat
    BY Zenon, <1>3, KeySets DEF TypeInv
  <2>4. ASSUME ~overlapped PROVE used' = used + 1
    <3>1. used' = (used + 1) % Modulus
      BY Zenon, <1>4, <2>1, <2>4
    <3>2. used + 1 \in Nat /\ used + 1 < Modulus
      BY <1>2, <1>4, <1>5, <2>4, StoreAssumption DEF CountersFit
    <3>. QED  BY Zenon, <3>1, <3>2, Fits
  <2>5. ~overlapped => Cardinality(known') <= used' /\ used' <= Cardinality(Keys) + puts'
    BY <1>1, <1>2, <1>4, <1>5, <2>1, <2>3, <2>4
  <2>. QED  BY Zenon, <1>1, <2>1, <2>2, <2>5, UseInside
<1>. QED  BY Zenon, <1>6, <1>7, <1>8, <1>9

\* A rebuild counts every name that it reads, and reads none twice.
LEMMA UseRebuild ==
    ASSUME TypeInv, PutsInv, CountInv, UseInv, CountersFit, NEW t \in Threads,
           \/ RegenerateBegin(t) \/ RegenerateEnd(t)
           \/ \E k \in Keys : RegenerateEntry(t, k)
    PROVE  UseInv'
<1>1. overlapped' = overlapped /\ puts' = puts /\ op[t].at # "idle"
  BY Zenon DEF RegenerateBegin, RegenerateEnd, RegenerateEntry, history
<1>2. /\ Cardinality(Keys) \in Nat /\ Cardinality(known) \in Nat /\ puts \in Nat
      /\ puts <= MaxPuts /\ MaxPuts \in Nat /\ used \in Int
  BY KeySets, StoreAssumption DEF TypeInv, PutsInv
<1>3. CASE RegenerateBegin(t)
  <2>1. /\ used' = 0 /\ known' = {}
        /\ op'[t] \in {Idle, ScanState(Listing)}
        /\ \A u \in Threads \ {t} : op'[u].at = op[u].at
    BY Zenon, <1>3 DEF RegenerateBegin, TypeInv
  <2>2. Cardinality({}) = 0
    BY Zenon, FS_EmptySet
  <2>3. Visible \subseteq Keys
    BY Zenon DEF Visible
  <2>4. 0 + Cardinality(Visible) <= Cardinality(Keys)
    BY <2>3, KeySets
  <2>5. op'[t].at = "idle" \/ (op'[t].at = "scan" /\ op'[t].may = Visible)
    BY <2>1 DEF Idle, ScanState, Listing
  <2>6. UseOf(t)'
    BY Zenon, <2>1, <2>4, <2>5 DEF UseOf
  <2>7. Cardinality(known') <= used' /\ used' <= Cardinality(Keys) + puts'
    BY <1>1, <1>2, <2>1, <2>2
  <2>. QED  BY Zenon, <1>1, <2>1, <2>6, <2>7, UseInside
<1>4. ASSUME NEW k \in Keys, RegenerateEntry(t, k)
      PROVE  UseInv'
  <2>1. /\ op[t].at = "scan" /\ k \in op[t].may /\ known' = known \union {k}
        /\ used' = (used + 1) % Modulus
        /\ op' = [op EXCEPT ![t] = Read(op[t], k)]
    BY Zenon, <1>4 DEF RegenerateEntry
  <2>2. op[t] \in ScanRec
    BY Zenon, <2>1, OpCases DEF TypeInv
  <2>3. op[t].may \subseteq Keys
    BY Zenon, <2>2 DEF ScanRec
  <2>4. /\ op'[t].at = "scan" /\ op'[t].may = op[t].may \ {k}
        /\ \A u \in Threads \ {t} : op'[u].at = op[u].at
    BY Zenon, <2>1, <2>2, ReadType DEF TypeInv
  <2>5. /\ Cardinality(op[t].may) \in Nat
        /\ Cardinality(op[t].may \ {k}) = Cardinality(op[t].may) - 1
    BY Zenon, <2>1, <2>3, KeySets
  <2>6. Cardinality(op[t].may \ {k}) \in Nat
    BY Zenon, <2>3, KeySets
  <2>7. /\ Cardinality(known \union {k}) <= Cardinality(known) + 1
        /\ Cardinality(known \union {k}) \in Nat
    BY Zenon, KeySets DEF TypeInv
  <2>8. ASSUME ~overlapped
        PROVE  /\ Cardinality(known') <= used' /\ used' <= Cardinality(Keys) + puts'
               /\ UseOf(t)'
    <3>1. Cardinality(known) <= used /\ used + Cardinality(op[t].may) <= Cardinality(Keys)
      BY Zenon, <2>1, <2>8 DEF UseInv
    <3>2. used + 1 \in Nat /\ used + 1 < Modulus
      BY <1>2, <2>5, <2>6, <3>1, StoreAssumption DEF CountersFit
    <3>3. used' = used + 1
      BY Zenon, <2>1, <3>2, Fits
    <3>4. used' + Cardinality(op'[t].may) <= Cardinality(Keys)
      BY <1>2, <2>4, <2>5, <3>1, <3>3
    <3>5. UseOf(t)'
      BY Zenon, <2>4, <3>4 DEF UseOf
    <3>. QED  BY <1>1, <1>2, <2>1, <2>5, <2>6, <2>7, <3>1, <3>3, <3>5
  <2>. QED  BY Zenon, <1>1, <2>4, <2>8, UseInside
<1>5. CASE RegenerateEnd(t)
  <2>1. /\ used' = used /\ known' = known
        /\ op'[t].at = "idle" /\ \A u \in Threads \ {t} : op'[u].at = op[u].at
    BY Zenon, <1>5 DEF RegenerateEnd, TypeInv, Idle
  <2>2. UseOf(t)'
    BY Zenon, <2>1 DEF UseOf
  <2>. QED  BY Zenon, <1>1, <2>1, <2>2, UseInside DEF UseInv
<1>. QED  BY Zenon, <1>3, <1>4, <1>5

\* A call begins when no other is under way, or two have overlapped.
LEMMA UseBegin ==
    ASSUME TypeInv, PutsInv, UseInv, NEW t \in Threads, NEW k \in Keys,
           RemoveBlock(t, k) \/ \E d \in Data : PutBegin(t, k, d)
    PROVE  UseInv'
<1>. SUFFICES ASSUME ~overlapped' PROVE UseInv'
  BY Zenon DEF UseInv
<1>1. /\ ~overlapped /\ used' = used /\ known' = known
      /\ \A u \in Threads : op[u] = Idle
  BY Zenon DEF RemoveBlock, PutBegin, Begin
<1>0. \A u \in Threads : op[u].at = "idle"
  <2>1. Idle.at = "idle"
    BY Zenon DEF Idle
  <2>. QED  BY Zenon, <1>1, <2>1
<1>2. /\ Cardinality(Keys) \in Nat /\ Cardinality(known) \in Nat
      /\ puts \in Nat /\ used \in Int
  BY KeySets, StoreAssumption DEF TypeInv, PutsInv
<1>3. Cardinality(known) <= used /\ used <= Cardinality(Keys) + puts
  BY Zenon, <1>1 DEF UseInv
<1>4. CASE RemoveBlock(t, k)
  <2>1. Unlinked \in OpRec /\ Unlinked.at = "unlinked"
    BY Zenon DEF OpRec, Unlinked
  <2>2. op'[t].at = "unlinked" /\ \A u \in Threads \ {t} : op'[u].at = "idle"
    BY <1>0, <1>4, <2>1, DisturbFacts DEF RemoveBlock, Elsewhere
  <2>3. puts' = puts
    BY Zenon, <1>4 DEF RemoveBlock
  <2>4. \A u \in Threads : UseOf(u)'
    BY Zenon, <2>2 DEF UseOf
  <2>. QED  BY Zenon, <1>1, <1>3, <2>3, <2>4 DEF UseInv, UseOf
<1>5. ASSUME NEW d \in Data, PutBegin(t, k, d)
      PROVE  UseInv'
  <2>1. op'[t].at \in {"idle", "open"} /\ \A u \in Threads \ {t} : op'[u].at = "idle"
    BY Zenon, <1>0, <1>5 DEF PutBegin, TypeInv, PutState
  <2>2. used' < Cardinality(Keys) + puts' /\ used' <= Cardinality(Keys) + puts'
    BY <1>1, <1>2, <1>3, <1>5 DEF PutBegin
  <2>3. \A u \in Threads : UseOf(u)'
    BY Zenon, <2>1, <2>2 DEF UseOf
  <2>. QED  BY Zenon, <1>1, <1>3, <2>2, <2>3 DEF UseInv, UseOf
<1>. QED  BY Zenon, <1>4, <1>5

\* Every step of every thread, of next() and of the process keeps it.
LEMMA UseStep ==
    ASSUME CountersFit
    PROVE  TypeInv /\ PutsInv /\ CountInv /\ UseInv /\ [Next]_vars => UseInv'
<1>. SUFFICES ASSUME TypeInv, PutsInv, CountInv, UseInv, [Next]_vars PROVE UseInv'
  BY Zenon
<1>1. ASSUME NEW open, NEW lost, Construct(open, lost)
      PROVE  UseInv'
  <2>1. known' \subseteq Keys /\ used' = Cardinality(known') % Modulus /\ puts' = puts
    BY Zenon, <1>1 DEF Construct, Visible
  <2>2. \A t \in Threads : op'[t].at = "idle"
    BY Zenon, <1>1 DEF Construct, Idle
  <2>3. /\ Cardinality(Keys) \in Nat /\ Cardinality(known') \in Nat
        /\ Cardinality(known') <= Cardinality(Keys)
    BY Zenon, <2>1, KeySets
  <2>4. puts \in Nat /\ MaxPuts \in Nat
    BY StoreAssumption DEF PutsInv
  <2>5. Cardinality(known') < Modulus
    BY <2>3, <2>4, StoreAssumption DEF CountersFit
  <2>6. used' = Cardinality(known')
    BY Zenon, <2>1, <2>3, <2>5, Fits
  <2>7. Cardinality(known') <= used' /\ used' <= Cardinality(Keys) + puts'
    BY <2>1, <2>3, <2>4, <2>6
  <2>8. \A t \in Threads : UseOf(t)'
    BY Zenon, <2>2 DEF UseOf
  <2>. QED  BY Zenon, <2>7, <2>8 DEF UseInv, UseOf
<1>2. CASE Restart \/ Reconstruct \/ NextFails
  BY Zenon, <1>1, <1>2 DEF Restart, Reconstruct, NextFails
<1>3. CASE \/ (\E k \in Keys : NextBlock(k)) \/ NextEnd \/ UNCHANGED vars
           \/ \E t \in Threads : GetBlock(t)
  <2>1. op' = op /\ known' = known /\ used' = used /\ puts' = puts /\ overlapped' = overlapped
    BY Zenon, GetKeeps, <1>3 DEF NextBlock, NextEnd, vars, history
  <2>. QED  BY Zenon, <2>1 DEF UseInv
<1>. QED  BY Zenon, <1>2, <1>3, UsePut, UseRebuild, UseBegin DEF Next

\* Calls made one at a time never count fewer blocks than there are keys, as
\* long as the files and the puts are fewer than the counter can count.
THEOREM UsedAlwaysCoversKnown ==
    ASSUME CountersFit
    PROVE  Spec => []UsedCoversKnown
<1>1. Init => PutsInv /\ CountInv /\ UseInv
  <2>. SUFFICES ASSUME Init PROVE PutsInv /\ CountInv /\ UseInv
    BY Zenon
  <2>1. \A t \in Threads : op[t].at = "idle"
    BY Zenon DEF Init, Idle
  <2>2. PutsInv /\ CountInv
    BY <2>1, StoreAssumption DEF Init, PutsInv, CountInv
  <2>3. Cardinality(known) = 0 /\ Cardinality(Keys) \in Nat
    BY Zenon, FS_EmptySet, FS_CardinalityType, StoreAssumption DEF Init
  <2>4. UseInv
    BY <2>1, <2>3 DEF Init, UseInv
  <2>. QED  BY Zenon, <2>2, <2>4
<1>2. TypeInv /\ UseInv => UsedCoversKnown
  <2>. SUFFICES ASSUME TypeInv, ~overlapped, Cardinality(known) <= used
                PROVE  used >= Cardinality(known)
    BY Zenon DEF UseInv, UsedCoversKnown
  <2>1. Cardinality(known) \in Nat /\ used \in Int
    BY Zenon, KeySets DEF TypeInv
  <2>. QED  BY <2>1
<1>. QED  BY <1>1, <1>2, TypeInit, TypeStep, PutsStep, CountersStep, UseStep, PTL DEF Spec

(***************************************************************************)
(* The ranges of the variables.                                            *)
(***************************************************************************)
WidthInv == free \in 0..(Modulus - 1) /\ used \in 0..(Modulus - 1)

\* Whatever is stored in a counter is reduced to its width.
LEMMA WidthStep == TypeInv /\ WidthInv /\ [Next]_vars => WidthInv'
<1>. SUFFICES ASSUME TypeInv, WidthInv, [Next]_vars PROVE WidthInv'
  BY Zenon
<1>0. 0..MaxFree \subseteq 0..(Modulus - 1) /\ 0 \in 0..(Modulus - 1)
  BY StoreAssumption
<1>1. ASSUME NEW t \in Threads, PutStore(t)
      PROVE  WidthInv'
  <2>1. op[t] \in PutRec
    BY Zenon, <1>1, OpCases DEF PutStore, TypeInv
  <2>2. op[t].free \in Int /\ op[t].used \in Int
    BY Zenon, <2>1 DEF PutRec
  <2>3. op[t].free - 1 \in Int /\ op[t].used + 1 \in Int
    BY <2>2
  <2>. QED  BY Zenon, <1>1, <2>3, Unsigned DEF PutStore, WidthInv
<1>2. ASSUME NEW t \in Threads, NEW k \in Keys, RegenerateEntry(t, k)
      PROVE  WidthInv'
  <2>1. used + 1 \in Int
    BY DEF TypeInv
  <2>. QED  BY Zenon, <1>2, <2>1, Unsigned DEF RegenerateEntry, WidthInv
<1>3. ASSUME NEW open, NEW lost, Construct(open, lost)
      PROVE  WidthInv'
  <2>1. known' \subseteq Keys
    BY Zenon, <1>3 DEF Construct, Visible
  <2>2. Cardinality(known') \in Int
    BY <2>1, KeySets
  <2>. QED  BY Zenon, <1>0, <1>3, <2>2, Unsigned DEF Construct, WidthInv
<1>4. CASE Restart \/ Reconstruct \/ NextFails
  BY Zenon, <1>3, <1>4 DEF Restart, Reconstruct, NextFails
<1>5. ASSUME NEW t \in Threads, RegenerateBegin(t)
      PROVE  WidthInv'
  BY Zenon, <1>0, <1>5 DEF RegenerateBegin, WidthInv
<1>6. CASE free' = free /\ used' = used
  BY Zenon, <1>6 DEF WidthInv
<1>. QED  BY Zenon, <1>1, <1>2, <1>4, <1>5, <1>6, GetKeeps
             DEF Next, vars, PutBegin, PutOpen, PutCount, PutWrite, RemoveBlock, RegenerateEnd,
                 NextBlock, NextEnd

\* A descriptor is opened only if the process may have one more.
LEMMA LimitStep ==
    TypeInv /\ fds <= MaxFds /\ [Next]_vars => (fds <= MaxFds)'
<1>. SUFFICES ASSUME TypeInv, fds <= MaxFds, [Next]_vars PROVE fds' <= MaxFds
  BY Zenon
<1>1. fds \in Int /\ MaxFds \in Nat
  BY Zenon, StoreAssumption DEF TypeInv
<1>2. CASE \/ \E t \in Threads : PutOpen(t) \/ RegenerateBegin(t)
           \/ \E k \in Keys : NextBlock(k)
           \/ \E t \in Threads, k \in Keys : GetOpen(t, k)
  <2>1. fds' = fds \/ (fds # MaxFds /\ fds' = fds + 1)
    BY <1>1, <1>2 DEF PutOpen, RegenerateBegin, NextBlock, GetOpen
  <2>. QED  BY <1>1, <2>1
<1>3. CASE fds' \in {fds, fds - 1, 0}
  BY <1>1, <1>3
<1>. QED  BY Zenon, <1>2, <1>3
             DEF Next, vars, PutBegin, PutCount, PutStore, PutWrite, RemoveBlock,
                 RegenerateEntry, RegenerateEnd, NextEnd, NextFails, Reconstruct, Restart,
                 Construct, GetBlock, GetRead, history

FlagInv == overlapped \in BOOLEAN /\ blind \in BOOLEAN

\* Two of the histories are flags.
LEMMA FlagStep == FlagInv /\ [Next]_vars => FlagInv'
<1>. SUFFICES ASSUME FlagInv, [Next]_vars PROVE FlagInv'
  BY Zenon
<1>1. overlapped' \in BOOLEAN
  BY Zenon, GetKeeps DEF FlagInv, Next, vars, Begin, PutBegin, PutOpen, PutCount, PutStore, PutWrite,
               RemoveBlock, RegenerateEntry, RegenerateBegin, RegenerateEnd, NextBlock, NextEnd,
               NextFails, Reconstruct, Restart, Construct, history
<1>2. blind' \in BOOLEAN
  BY Zenon, GetKeeps DEF FlagInv, Next, vars, PutBegin, PutOpen, PutCount, PutStore, PutWrite,
               RemoveBlock, RegenerateEntry, RegenerateBegin, RegenerateEnd, NextBlock, NextEnd,
               NextFails, Reconstruct, Restart, Construct, history
<1>. QED  BY Zenon, <1>1, <1>2 DEF FlagInv

ListInv == dir # None => dir.must \subseteq dir.may

\* The names that readdir must return are among those that it may.
LEMMA ListStep == TypeInv /\ ListInv /\ [Next]_vars => ListInv'
<1>. SUFFICES ASSUME TypeInv, ListInv, [Next]_vars PROVE ListInv'
  BY Zenon
<1>1. ASSUME NEW s \in ListRec, s.must \subseteq s.may, NEW k, NEW how
      PROVE  /\ Changed(s, k, how).must \subseteq Changed(s, k, how).may
             /\ Read(s, k).must \subseteq Read(s, k).may
  BY Zenon, <1>1 DEF Changed, Read, ListRec
<1>2. ASSUME NEW t, NEW k, NEW next, NEW how, Disturb(t, k, next, how)
      PROVE  ListInv'
  <2>1. dir' = IF dir = None THEN None ELSE Changed(dir, k, how)
    BY Zenon, <1>2 DEF Disturb
  <2>. QED  BY Zenon, <1>1, <2>1 DEF ListInv, TypeInv
<1>3. ASSUME NEW t \in Threads, PutOpen(t)
      PROVE  ListInv'
  <2>1. CASE fds = MaxFds
    BY Zenon, <1>3, <2>1 DEF PutOpen, ListInv
  <2>2. CASE fds # MaxFds
    BY Zenon, <1>2, <1>3, <2>2 DEF PutOpen
  <2>. QED  BY Zenon, <2>1, <2>2
<1>4. ASSUME NEW t \in Threads, NEW n \in 0..BlockSize, PutWrite(t, n)
      PROVE  ListInv'
  BY Zenon, <1>2, <1>4 DEF PutWrite
<1>5. ASSUME NEW t \in Threads, NEW k \in Keys, RemoveBlock(t, k)
      PROVE  ListInv'
  BY Zenon, <1>2, <1>5 DEF RemoveBlock
<1>6. ASSUME NEW k \in Keys, NextBlock(k)
      PROVE  ListInv'
  <2>1. NextListing \in ListRec
    BY Zenon, ListingType DEF NextListing, TypeInv
  <2>2. Listing.must \subseteq Listing.may
    BY Zenon DEF Listing
  <2>3. NextListing.must \subseteq NextListing.may
    BY Zenon, <2>2 DEF NextListing, ListInv
  <2>4. dir' = Read(NextListing, k)
    BY Zenon, <1>6 DEF NextBlock
  <2>. QED  BY Zenon, <1>1, <2>1, <2>3, <2>4 DEF ListInv
<1>7. CASE dir' \in {dir, None}
  BY Zenon, <1>7 DEF ListInv
<1>. QED  BY Zenon, <1>3, <1>4, <1>5, <1>6, <1>7, GetKeeps
             DEF Next, vars, PutBegin, PutCount, PutStore, RegenerateEntry, RegenerateBegin,
                 RegenerateEnd, NextEnd, NextFails, Reconstruct, Restart, Construct

\* The puts that may yet fail with the file open: with those that have failed so,
\* they are no more than the puts that were made.
Pending == {t \in Threads : op[t].at \in {"open", "write"}}

LeakInv == leaked >= 0 /\ leaked + Cardinality(Pending) <= puts

\* A step of t alone, that loses a descriptor only by ending such a put.
LEMMA LeakBy ==
    ASSUME TypeInv, PutsInv, LeakInv, NEW t \in Threads,
           \A u \in Threads \ {t} : op'[u].at = op[u].at,
           \/ leaked' = leaked /\ puts' = puts /\ (t \in Pending' => t \in Pending)
           \/ leaked' = leaked + 1 /\ puts' = puts /\ t \in Pending /\ t \notin Pending'
           \/ leaked' = leaked /\ puts' = puts + 1
    PROVE  LeakInv'
<1>1. Pending \subseteq Threads /\ Pending' \ {t} = Pending \ {t}
  BY Zenon DEF Pending
<1>2. /\ Cardinality(Pending) \in Nat
      /\ t \notin Pending /\ t \in Pending' => Cardinality(Pending') = Cardinality(Pending) + 1
      /\ t \in Pending /\ t \notin Pending' => Cardinality(Pending') = Cardinality(Pending) - 1
      /\ (t \in Pending <=> t \in Pending') => Cardinality(Pending') = Cardinality(Pending)
  BY Zenon, <1>1, OneThread
<1>3. leaked \in Int /\ puts \in Int
  BY DEF TypeInv, PutsInv
<1>. QED  BY <1>2, <1>3 DEF LeakInv

\* Only a put that found the file too long, or wrote it in part, leaks.
LEMMA LeakStep == TypeInv /\ PutsInv /\ LeakInv /\ [Next]_vars => LeakInv'
<1>. SUFFICES ASSUME TypeInv, PutsInv, LeakInv, [Next]_vars PROVE LeakInv'
  BY Zenon
<1>1. ASSUME NEW t \in Threads, PutOpen(t)
      PROVE  LeakInv'
  <2>1. puts' = puts /\ t \in Pending
    BY Zenon, <1>1 DEF PutOpen, Pending
  <2>2. \A u \in Threads \ {t} : op'[u].at = op[u].at
    BY Zenon, <1>1, OpenTo
  <2>3. leaked' = leaked \/ (leaked' = leaked + 1 /\ t \notin Pending')
    <3>1. CASE fds = MaxFds \/ ~(Len(op[t].data) > BlockSize)
      BY Zenon, <1>1, <3>1 DEF PutOpen
    <3>2. CASE fds # MaxFds /\ Len(op[t].data) > BlockSize
      <4>1. leaked' = leaked + 1 /\ op'[t] = Idle
        BY Zenon, <1>1, <3>2 DEF PutOpen, Disturb
      <4>2. Idle.at = "idle"
        BY Zenon DEF Idle
      <4>. QED  BY Zenon, <4>1, <4>2 DEF Pending
    <3>. QED  BY Zenon, <3>1, <3>2
  <2>. QED  BY Zenon, <2>1, <2>2, <2>3, LeakBy
<1>2. ASSUME NEW t \in Threads, NEW n \in 0..BlockSize, PutWrite(t, n)
      PROVE  LeakInv'
  <2>1. puts' = puts /\ t \in Pending /\ leaked' \in {leaked, leaked + 1}
    BY Zenon, <1>2 DEF PutWrite, Pending
  <2>2. op'[t].at \in {"idle", "count"} /\ \A u \in Threads \ {t} : op'[u].at = op[u].at
    BY Zenon, <1>2, WriteTo
  <2>3. t \notin Pending'
    BY Zenon, <2>2 DEF Pending
  <2>. QED  BY Zenon, <2>1, <2>2, <2>3, LeakBy
<1>3. ASSUME NEW t \in Threads, NEW k \in Keys, NEW d \in Data, PutBegin(t, k, d)
      PROVE  LeakInv'
  <2>1. leaked' = leaked /\ puts' = puts + 1 /\ \A u \in Threads \ {t} : op'[u].at = op[u].at
    BY Zenon, <1>3 DEF PutBegin, TypeInv
  <2>. QED  BY Zenon, <2>1, LeakBy
<1>4. ASSUME NEW t \in Threads,
             \/ PutCount(t) \/ PutStore(t) \/ RegenerateBegin(t) \/ RegenerateEnd(t)
             \/ \E k \in Keys : RemoveBlock(t, k) \/ RegenerateEntry(t, k)
      PROVE  LeakInv'
  <2>1. leaked' = leaked /\ puts' = puts
    BY Zenon, <1>4 DEF PutCount, PutStore, RegenerateBegin, RegenerateEnd, RemoveBlock,
                       RegenerateEntry, history
  <2>2. (\A u \in Threads \ {t} : op'[u].at = op[u].at) /\ op'[t].at \notin {"open", "write"}
    <3>0. Unlinked \in OpRec /\ Unlinked.at = "unlinked" /\ Idle.at = "idle"
      BY Zenon DEF OpRec, Unlinked, Idle
    <3>1. ASSUME NEW k \in Keys, RemoveBlock(t, k)
          PROVE  op'[t] = Unlinked /\ \A u \in Threads \ {t} : op'[u].at = op[u].at
      BY <3>0, <3>1, DisturbFacts DEF Elsewhere, RemoveBlock
    <3>2. ASSUME NEW k \in Keys, RegenerateEntry(t, k)
          PROVE  op'[t].at = "scan" /\ \A u \in Threads \ {t} : op'[u].at = op[u].at
      <4>1. op[t] \in ScanRec
        BY Zenon, <3>2, OpCases DEF RegenerateEntry, TypeInv
      <4>. QED  BY Zenon, <3>2, <4>1, ReadType DEF RegenerateEntry, TypeInv
    <3>3. CASE PutCount(t)
      <4>1. op[t] \in PutRec
        BY Zenon, <3>3, OpCases DEF PutCount, TypeInv
      <4>2. op' = [op EXCEPT ![t] = [op[t] EXCEPT !.at = "store", !.free = free, !.used = used]]
        BY Zenon, <3>3 DEF PutCount
      <4>. QED  BY Zenon, <4>1, <4>2 DEF PutRec, TypeInv
    <3>4. CASE PutStore(t) \/ RegenerateBegin(t) \/ RegenerateEnd(t)
      <4>1. ScanState(Listing).at = "scan"
        BY Zenon DEF ScanState
      <4>2. /\ op'[t] \in {Idle, ScanState(Listing)}
            /\ \A u \in Threads \ {t} : op'[u].at = op[u].at
        BY Zenon, <3>4 DEF PutStore, RegenerateBegin, RegenerateEnd, TypeInv
      <4>. QED  BY Zenon, <3>0, <4>1, <4>2
    <3>. QED  BY Zenon, <1>4, <3>0, <3>1, <3>2, <3>3, <3>4
  <2>3. t \notin Pending'
    BY Zenon, <2>2 DEF Pending
  <2>. QED  BY Zenon, <2>1, <2>2, <2>3, LeakBy
<1>5. ASSUME NEW open, NEW lost \in {0, leaked}, Construct(open, lost)
      PROVE  LeakInv'
  <2>1. leaked' = lost /\ puts' = puts /\ \A t \in Threads : op'[t].at = "idle"
    BY Zenon, <1>5 DEF Construct, Idle
  <2>2. Pending' = {}
    BY Zenon, <2>1 DEF Pending
  <2>3. Cardinality(Pending') = 0 /\ Cardinality(Pending) \in Nat
    BY Zenon, <2>2, FS_EmptySet, FS_Subset, FS_CardinalityType, StoreAssumption DEF Pending
  <2>. QED  BY <2>1, <2>3 DEF LeakInv, TypeInv, PutsInv
<1>6. CASE Restart \/ Reconstruct \/ NextFails
  BY Zenon, <1>5, <1>6 DEF Restart, Reconstruct, NextFails
<1>7. CASE \/ (\E k \in Keys : NextBlock(k)) \/ NextEnd \/ UNCHANGED vars
           \/ \E t \in Threads : GetBlock(t)
  <2>1. op' = op /\ leaked' = leaked /\ puts' = puts
    BY Zenon, GetKeeps, <1>7 DEF NextBlock, NextEnd, vars, history
  <2>. QED  BY Zenon, <2>1 DEF LeakInv, Pending
<1>. QED  BY Zenon, <1>1, <1>2, <1>3, <1>4, <1>6, <1>7 DEF Next

\* What the files hold; the file that a put is writing is there, unless it has
\* been unlinked since.
HeldInv ==
    /\ \A k \in Keys : files[k] # None => Contents(files[k])
    /\ \A t \in Threads : op[t].at = "write" /\ op[t].linked => Contents(files[op[t].key])

LEMMA Concat ==
    ASSUME NEW a \in Seq(Nat), NEW b \in Seq(Nat)
    PROVE  /\ a \o b \in Seq(Nat) /\ Len(a \o b) = Len(a) + Len(b)
           /\ \A i \in 1..(Len(a) + Len(b)) :
                 (a \o b)[i] = IF i <= Len(a) THEN a[i] ELSE b[i - Len(a)]
  OBVIOUS

\* A write puts bytes of one block over bytes of others.
LEMMA OverlayContents ==
    ASSUME NEW c, Contents(c), NEW d \in Data, NEW n \in Nat, n <= Len(d)
    PROVE  Contents(Overlay(c, d, n))
<1>1. c \in Seq(Nat) /\ d \in Seq(Nat)
  BY Zenon, StoreAssumption DEF Contents
<1>2. Len(c) \in Nat /\ Len(d) \in Nat /\ DOMAIN c = 1..Len(c) /\ DOMAIN d = 1..Len(d)
  BY <1>1
<1>. DEFINE a == SubSeq(d, 1, n)
            b == SubSeq(c, n + 1, Len(c))
            rest == IF n < Len(c) THEN Len(c) - n ELSE 0
<1>3. a \in Seq(Nat) /\ Len(a) = n /\ \A i \in 1..n : a[i] = d[i]
  BY <1>1, <1>2
<1>4. b \in Seq(Nat) /\ Len(b) = rest /\ \A i \in 1..rest : b[i] = c[n + i]
  BY <1>1, <1>2
<1>. HIDE DEF a, b
<1>5. /\ a \o b \in Seq(Nat) /\ Len(a \o b) = n + rest
      /\ \A i \in 1..(n + rest) : (a \o b)[i] = IF i <= n THEN a[i] ELSE b[i - n]
  <2>. HIDE DEF rest
  <2>1. /\ a \o b \in Seq(Nat) /\ Len(a \o b) = Len(a) + Len(b)
        /\ \A i \in 1..(Len(a) + Len(b)) :
              (a \o b)[i] = IF i <= Len(a) THEN a[i] ELSE b[i - Len(a)]
    BY Zenon, <1>3, <1>4, Concat
  <2>. QED  BY Zenon, <1>3, <1>4, <2>1
<1>6. \E e \in Data : Len(a \o b) <= Len(e)
  <2>1. PICK e \in Data : Len(c) <= Len(e)
    BY Zenon DEF Contents
  <2>2. Len(e) \in Nat
    BY StoreAssumption
  <2>. QED  BY <1>2, <1>5, <2>1, <2>2
<1>7. ASSUME NEW i \in 1..(n + rest)
      PROVE  \E e \in Data : \E j \in DOMAIN e : (a \o b)[i] = e[j]
  <2>1. CASE i <= n
    <3>1. (a \o b)[i] = d[i] /\ i \in DOMAIN d
      BY <1>2, <1>3, <1>5, <2>1
    <3>. QED  BY Zenon, <3>1
  <2>2. CASE ~(i <= n)
    <3>1. i - n \in 1..rest /\ n + (i - n) = i
      BY <1>2, <2>2
    <3>2. (a \o b)[i] = b[i - n] /\ b[i - n] = c[n + (i - n)]
      BY Zenon, <1>4, <1>5, <2>2, <3>1
    <3>3. i \in DOMAIN c
      BY <1>2, <3>1
    <3>. QED  BY Zenon, <3>1, <3>2, <3>3 DEF Contents
  <2>. QED  BY Zenon, <2>1, <2>2
<1>8. DOMAIN (a \o b) = 1..(n + rest)
  BY <1>2, <1>5
<1>. QED  BY Zenon, <1>5, <1>6, <1>7, <1>8 DEF Contents, Overlay, a, b

\* open, write and unlink: the file k has good contents, or is gone and nobody
\* else who has it open has it linked.
LEMMA HeldDisturbed ==
    ASSUME TypeInv, HeldInv, NEW t \in Threads, NEW k \in Keys, NEW next \in OpRec,
           NEW how \in {"make", "write", "unlink"}, Disturb(t, k, next, how),
           next.at = "write" => next.key = k /\ how # "unlink",
           \A j \in Keys \ {k} : files'[j] = files[j],
           \/ files'[k] = files[k] /\ next.at # "write"
           \/ how # "unlink" /\ Contents(files'[k])
           \/ how = "unlink" /\ files'[k] = None
    PROVE  HeldInv'
<1>1. op'[t] = next /\ \A u \in Threads \ {t} : Elsewhere(u, k, how)
  BY DisturbFacts
<1>2. \A j \in Keys : files'[j] # None => Contents(files'[j])
  BY Zenon DEF HeldInv
<1>3. ASSUME NEW u \in Threads \ {t}, op'[u].at = "write", op'[u].linked
      PROVE  Contents(files'[op'[u].key])
  <2>1. op[u].at = "write" /\ op[u] \in PutRec
    BY Zenon, <1>1, <1>3, OpCases DEF Elsewhere, TypeInv
  <2>2. /\ op'[u].key = op[u].key /\ op[u].linked /\ op[u].key \in Keys
        /\ op[u].key = k => how # "unlink"
    BY Zenon, <1>1, <1>3, <2>1 DEF Elsewhere, Putting, Opens, PutRec
  <2>3. Contents(files[op[u].key])
    BY Zenon, <2>1, <2>2 DEF HeldInv
  <2>. QED  BY Zenon, <2>2, <2>3
<1>4. op'[t].at = "write" /\ op'[t].linked => Contents(files'[op'[t].key])
  BY Zenon, <1>1
<1>. QED  BY Zenon, <1>2, <1>3, <1>4 DEF HeldInv

\* A step that leaves the files alone and begins no write.
LEMMA HeldQuiet ==
    ASSUME HeldInv, files' = files,
           \A t \in Threads : op'[t].at = "write" => op'[t] = op[t]
    PROVE  HeldInv'
  BY Zenon DEF HeldInv

\* Every step of every thread, of next() and of the process keeps it.
LEMMA HeldStep == TypeInv /\ HeldInv /\ [Next]_vars => HeldInv'
<1>. SUFFICES ASSUME TypeInv, HeldInv, [Next]_vars PROVE HeldInv'
  BY Zenon
<1>0. Idle \in OpRec /\ Unlinked \in OpRec /\ Idle.at = "idle" /\ Unlinked.at = "unlinked"
  BY Zenon DEF OpRec, Idle, Unlinked
<1>1. ASSUME NEW t \in Threads, PutOpen(t)
      PROVE  HeldInv'
  <2>1. op[t] \in PutRec
    BY Zenon, <1>1, OpCases DEF PutOpen, TypeInv
  <2>. SUFFICES ASSUME NEW k \in Keys, NEW d \in Data, op[t].key = k, op[t].data = d
                PROVE  HeldInv'
    BY Zenon, <2>1 DEF PutRec
  <2>2. CASE fds = MaxFds
    <3>1. files' = files /\ op' = [op EXCEPT ![t] = Idle]
      BY Zenon, <1>1, <2>2 DEF PutOpen
    <3>2. \A u \in Threads : op'[u].at = "write" => op'[u] = op[u]
      BY Zenon, <1>0, <3>1 DEF TypeInv
    <3>. QED  BY Zenon, <3>1, <3>2, HeldQuiet
  <2>3. CASE fds # MaxFds
    <3>. DEFINE next == IF Len(d) > BlockSize THEN Idle
                        ELSE PutState("write", k, d, Others(t, k) = {})
                how == IF files[k] = None THEN "make" ELSE "write"
    <3>1. Disturb(t, k, next, how) /\ files' = [files EXCEPT ![k] = <<>>]
      BY Zenon, <1>1, <2>3 DEF PutOpen
    <3>2. next \in OpRec /\ (next.at = "write" => next.key = k)
      BY Zenon, <1>0, PutStateType DEF PutState
    <3>3. how \in {"make", "write", "unlink"} /\ how # "unlink"
      BY Zenon
    <3>. HIDE DEF next, how
    <3>4. files'[k] = <<>> /\ \A j \in Keys \ {k} : files'[j] = files[j]
      BY Zenon, <3>1 DEF TypeInv
    <3>5. Contents(<<>>)
      <4>1. d \in Seq(Nat)
        BY Zenon, StoreAssumption
      <4>2. <<>> \in Seq(Nat) /\ Len(<<>>) <= Len(d) /\ DOMAIN <<>> = {}
        BY <4>1
      <4>. QED  BY Zenon, <4>2 DEF Contents
    <3>. QED  BY Zenon, <3>1, <3>2, <3>3, <3>4, <3>5, HeldDisturbed
  <2>. QED  BY Zenon, <2>2, <2>3
<1>2. ASSUME NEW t \in Threads, NEW n \in 0..BlockSize, PutWrite(t, n)
      PROVE  HeldInv'
  <2>1. op[t] \in PutRec /\ op[t].at = "write"
    BY Zenon, <1>2, OpCases DEF PutWrite, TypeInv
  <2>. SUFFICES ASSUME NEW k \in Keys, NEW d \in Data, op[t].key = k, op[t].data = d
                PROVE  HeldInv'
    BY Zenon, <2>1 DEF PutRec
  <2>. DEFINE next == IF WriteOk(n) THEN [op[t] EXCEPT !.at = "count"] ELSE Idle
  <2>2. next \in OpRec /\ next.at \in {"idle", "count"}
    BY Zenon, <2>1 DEF PutRec, OpRec, Idle
  <2>3. /\ Disturb(t, k, next, "write") /\ n <= Len(d)
        /\ files' = IF op[t].linked THEN [files EXCEPT ![k] = Overlay(@, d, n)] ELSE files
    BY Zenon, <1>2 DEF PutWrite
  <2>. HIDE DEF next
  <2>4. n \in Nat
    BY StoreAssumption
  <2>5. CASE op[t].linked
    <3>1. Contents(files[k])
      BY Zenon, <2>1, <2>5 DEF HeldInv
    <3>2. Contents(Overlay(files[k], d, n))
      BY Zenon, <2>3, <2>4, <3>1, OverlayContents
    <3>3. files'[k] = Overlay(files[k], d, n) /\ \A j \in Keys \ {k} : files'[j] = files[j]
      BY Zenon, <2>3, <2>5 DEF TypeInv
    <3>. QED  BY Zenon, <2>2, <2>3, <3>2, <3>3, HeldDisturbed
  <2>6. CASE ~op[t].linked
    BY Zenon, <2>2, <2>3, <2>6, HeldDisturbed
  <2>. QED  BY Zenon, <2>5, <2>6
<1>3. ASSUME NEW t \in Threads, NEW k \in Keys, RemoveBlock(t, k)
      PROVE  HeldInv'
  <2>1. Disturb(t, k, Unlinked, "unlink") /\ files' = [files EXCEPT ![k] = None]
    BY Zenon, <1>3 DEF RemoveBlock
  <2>2. files'[k] = None /\ \A j \in Keys \ {k} : files'[j] = files[j]
    BY Zenon, <2>1 DEF TypeInv
  <2>. QED  BY Zenon, <1>0, <2>1, <2>2, HeldDisturbed
<1>4. ASSUME NEW t \in Threads, NEW next, op' = [op EXCEPT ![t] = next], next.at # "write",
             files' = files
      PROVE  HeldInv'
  <2>1. \A u \in Threads : op'[u].at = "write" => op'[u] = op[u]
    BY Zenon, <1>4 DEF TypeInv
  <2>. QED  BY Zenon, <1>4, <2>1, HeldQuiet
<1>5. ASSUME NEW t \in Threads, NEW k \in Keys, NEW d \in Data, PutBegin(t, k, d)
      PROVE  HeldInv'
  <2>1. PutState("open", k, d, TRUE).at = "open"
    BY Zenon DEF PutState
  <2>2. CASE NoRoom
    BY Zenon, <1>5, <2>2, HeldQuiet DEF PutBegin
  <2>3. CASE ~NoRoom
    BY Zenon, <1>4, <1>5, <2>1, <2>3 DEF PutBegin
  <2>. QED  BY Zenon, <2>2, <2>3
<1>6. ASSUME NEW t \in Threads, PutCount(t)
      PROVE  HeldInv'
  <2>1. op[t] \in PutRec
    BY Zenon, <1>6, OpCases DEF PutCount, TypeInv
  <2>2. op' = [op EXCEPT ![t] = [op[t] EXCEPT !.at = "store", !.free = free, !.used = used]]
    BY Zenon, <1>6 DEF PutCount
  <2>3. [op[t] EXCEPT !.at = "store", !.free = free, !.used = used].at = "store"
    BY Zenon, <2>1 DEF PutRec
  <2>. QED  BY Zenon, <1>4, <1>6, <2>2, <2>3 DEF PutCount
<1>7. ASSUME NEW t \in Threads, PutStore(t) \/ RegenerateBegin(t) \/ RegenerateEnd(t)
      PROVE  HeldInv'
  <2>1. ScanState(Listing).at = "scan"
    BY Zenon DEF ScanState
  <2>. QED  BY Zenon, <1>0, <1>4, <1>7, <2>1 DEF PutStore, RegenerateBegin, RegenerateEnd
<1>8. ASSUME NEW t \in Threads, NEW k \in Keys, RegenerateEntry(t, k)
      PROVE  HeldInv'
  <2>1. op[t] \in ScanRec
    BY Zenon, <1>8, OpCases DEF RegenerateEntry, TypeInv
  <2>2. Read(op[t], k).at # "write"
    BY Zenon, <2>1, ReadType
  <2>. QED  BY Zenon, <1>4, <1>8, <2>2 DEF RegenerateEntry
<1>9. CASE Restart \/ Reconstruct \/ NextFails
  <2>1. files' = files /\ \A t \in Threads : op'[t] = Idle
    BY Zenon, <1>9 DEF Restart, Reconstruct, NextFails, Construct
  <2>. QED  BY Zenon, <1>0, <2>1, HeldQuiet
<1>10. CASE \/ (\E k \in Keys : NextBlock(k)) \/ NextEnd \/ UNCHANGED vars
            \/ \E t \in Threads : GetBlock(t)
  BY Zenon, <1>10, HeldQuiet, GetKeeps DEF NextBlock, NextEnd, vars
<1>. QED  BY Zenon, <1>1, <1>2, <1>3, <1>5, <1>6, <1>7, <1>8, <1>9, <1>10 DEF Next

\* Files hold bytes that were put, the counters and the descriptors stay within
\* their limits, and each put leaks one descriptor at most.
THEOREM TypeCorrect == Spec => []TypeOK
<1>. DEFINE Limit == fds <= MaxFds
            Inv == /\ TypeInv /\ PutsInv /\ WidthInv /\ Limit /\ FlagInv /\ ListInv
                   /\ LeakInv /\ HeldInv
<1>1. Init => Inv
  <2>. SUFFICES ASSUME Init PROVE Inv
    BY Zenon
  <2>1. TypeInv
    BY Zenon, TypeInit
  <2>2. PutsInv /\ WidthInv /\ Limit
    BY StoreAssumption DEF Init, PutsInv, WidthInv
  <2>3. FlagInv /\ ListInv
    BY Zenon DEF Init, FlagInv, ListInv
  <2>4. \A t \in Threads : op[t].at = "idle"
    BY Zenon DEF Init, Idle
  <2>5. Pending = {}
    BY Zenon, <2>4 DEF Pending
  <2>6. LeakInv
    BY <2>5, FS_EmptySet DEF Init, LeakInv
  <2>7. HeldInv
    BY Zenon, <2>4 DEF Init, HeldInv
  <2>. QED  BY Zenon, <2>1, <2>2, <2>3, <2>6, <2>7
<1>2. Inv /\ DescriptorsAccounted => TypeOK
  <2>. SUFFICES ASSUME Inv, DescriptorsAccounted PROVE TypeOK
    BY Zenon
  <2>1. \A t \in Threads :
           op[t].at \in {"idle", "open", "write", "count", "store", "unlinked", "scan"}
    BY Zenon, OpCases DEF TypeInv
  <2>2. Cardinality(Pending) \in Nat /\ Cardinality(Holders) \in Nat
    BY Zenon, FS_Subset, FS_CardinalityType, StoreAssumption DEF Pending, Holders
  <2>3. leaked \in 0..MaxPuts
    BY <2>2, StoreAssumption DEF TypeInv, PutsInv, LeakInv
  <2>4. fds = leaked + Cardinality(Holders) + Listed /\ Listed \in Nat
    <3>1. Cardinality(Readers) \in Nat
      BY Zenon, FS_Subset, FS_CardinalityType, StoreAssumption DEF Readers
    <3>. QED  BY <2>2, <2>3, <3>1 DEF DescriptorsAccounted, Holders, Readers, Listed
  <2>5. fds \in 0..MaxFds
    BY <2>2, <2>3, <2>4, StoreAssumption DEF TypeInv
  <2>6. dir # None => dir.must \subseteq dir.may /\ dir.may \subseteq Keys
    BY Zenon DEF TypeInv, ListInv, ListRec
  <2>. QED  BY Zenon, <2>1, <2>3, <2>5, <2>6
               DEF TypeOK, TypeInv, GetRec, PutsInv, WidthInv, FlagInv, HeldInv
<1>3. Inv /\ [Next]_vars => Inv'
  BY Zenon, TypeStep, PutsStep, WidthStep, LimitStep, FlagStep, ListStep, LeakStep, HeldStep
<1>. HIDE DEF Inv
<1>. QED  BY <1>1, <1>2, <1>3, DescriptorsAlwaysAccounted, PTL DEF Spec

(***************************************************************************)
(* Blocks.  A put that is alone with its file knows what is in it; a block *)
(* that was acknowledged is in a file that nobody has open; and the filter *)
(* has it, or a rebuild that is going on is bound to read its name.        *)
(***************************************************************************)
Aloneness ==
    \A t \in Threads : op[t].at \in Putting /\ op[t].alone =>
        /\ \A u \in Threads \ {t} : ~Opens(u, op[t].key)
        /\ op[t].linked
        /\ files[op[t].key] = IF op[t].at = "write" THEN <<>> ELSE op[t].data

WholeBlocks ==
    \A t \in Threads :
        /\ op[t].at = "write" => Len(op[t].data) <= BlockSize
        /\ op[t].at \in {"count", "store"} => Len(op[t].data) = BlockSize

AckedOnDisk ==
    \A k \in Keys : acked[k] # None =>
        /\ files[k] = acked[k] /\ Len(acked[k]) = BlockSize
        /\ \A t \in Threads : ~Opens(t, k)

Scanned(k) == \E t \in Threads : op[t].at = "scan" /\ k \in op[t].must

Covered ==
    ~blind => \A k \in Keys \ Hidden : acked[k] # None => k \in known \/ Scanned(k)

FileInv == Aloneness /\ WholeBlocks /\ AckedOnDisk /\ Covered

\* What a thread does that only changes its own state, from one in which it has
\* no file open to another such: nobody's file is affected.
LEMMA Unopened ==
    ASSUME TypeInv, FileInv, NEW t \in Threads, NEW next \in OpRec,
           op[t].at \notin Putting, next.at \notin Putting,
           op' = [op EXCEPT ![t] = next], files' = files, acked' = acked
    PROVE  (Aloneness /\ WholeBlocks /\ AckedOnDisk)'
<1>1. op'[t] = next /\ \A u \in Threads \ {t} : op'[u] = op[u]
  BY Zenon DEF TypeInv
<1>2. \A u \in Threads, k \in Keys : Opens(u, k)' => Opens(u, k)
  BY Zenon, <1>1 DEF Opens
<1>3. ASSUME NEW u \in Threads, op'[u].at \in Putting
      PROVE  op'[u] = op[u] /\ op[u].key \in Keys
  <2>1. op'[u] = op[u]
    BY Zenon, <1>1, <1>3
  <2>2. op[u] \in PutRec
    BY Zenon, <1>3, <2>1, OpCases DEF TypeInv, Putting
  <2>. QED  BY Zenon, <2>1, <2>2 DEF PutRec
<1>4. Aloneness'
  BY <1>2, <1>3 DEF FileInv, Aloneness
<1>5. WholeBlocks'
  BY Zenon, <1>3 DEF FileInv, WholeBlocks, Putting
<1>6. AckedOnDisk'
  BY Zenon, <1>2 DEF FileInv, AckedOnDisk
<1>. QED  BY Zenon, <1>4, <1>5, <1>6

\* What the other threads know of their files holds after t's step, if it did.
OthersKept(t, k) ==
    /\ \A u \in Threads \ {t} : op'[u].at \in Putting /\ op'[u].alone =>
          /\ \A v \in Threads \ {u} : ~Opens(v, op[u].key)'
          /\ op'[u].linked
          /\ files'[op'[u].key] = IF op'[u].at = "write" THEN <<>> ELSE op'[u].data
    /\ \A u \in Threads \ {t} : Opens(u, k)' <=> Opens(u, k)
    /\ \A u \in Threads \ {t} :
          /\ op'[u].at = "write" => Len(op'[u].data) <= BlockSize
          /\ op'[u].at \in {"count", "store"} => Len(op'[u].data) = BlockSize
    /\ AckedOnDisk'
    /\ (known' = known /\ blind' = blind /\ op[t].at # "scan") => Covered'

\* A thread opens, writes or unlinks the file k, and goes on to a state in which
\* it has at most that file open: what the others know of other files stays, and
\* nobody else is alone with k.
LEMMA Disturbed ==
    ASSUME TypeInv, FileInv, NEW t \in Threads, NEW k \in Keys, NEW next \in OpRec,
           NEW how \in {"make", "write", "unlink"}, Disturb(t, k, next, how),
           next.at \in Putting => next.key = k,
           \A j \in Keys \ {k} : files'[j] = files[j],
           \A j \in Keys \ {k} : acked'[j] = acked[j],
           acked'[k] = None
    PROVE  OthersKept(t, k) /\ op'[t] = next
<1>1. op'[t] = next /\ \A u \in Threads \ {t} : Elsewhere(u, k, how)
  BY DisturbFacts
<1>2. \A u \in Threads \ {t}, j \in Keys : Opens(u, j)' <=> Opens(u, j)
  BY Zenon, <1>1 DEF Opens, Elsewhere
<1>3. \A j \in Keys \ {k} : ~Opens(t, j)'
  BY Zenon, <1>1 DEF Opens
<1>4. ASSUME NEW u \in Threads \ {t}, op'[u].at \in Putting, op'[u].alone
      PROVE  /\ \A v \in Threads \ {u} : ~Opens(v, op[u].key)'
             /\ op'[u].linked
             /\ files'[op'[u].key] = IF op'[u].at = "write" THEN <<>> ELSE op'[u].data
  <2>1. op[u].at \in Putting /\ ~Opens(u, k) /\ op'[u] = op[u]
    BY Zenon, <1>1, <1>4 DEF Elsewhere
  <2>2. op[u] \in PutRec
    BY Zenon, <2>1, OpCases DEF TypeInv, Putting
  <2>3. op[u].key \in Keys \ {k}
    BY Zenon, <2>1, <2>2 DEF PutRec, Opens
  <2>4. /\ \A v \in Threads \ {u} : ~Opens(v, op[u].key)
        /\ op[u].linked
        /\ files[op[u].key] = IF op[u].at = "write" THEN <<>> ELSE op[u].data
    BY Zenon, <1>4, <2>1 DEF FileInv, Aloneness
  <2>. QED  BY Zenon, <1>2, <1>3, <2>1, <2>3, <2>4
<1>5. ASSUME NEW u \in Threads \ {t}
      PROVE  /\ op'[u].at = "write" => Len(op'[u].data) <= BlockSize
             /\ op'[u].at \in {"count", "store"} => Len(op'[u].data) = BlockSize
  BY Zenon, <1>1 DEF FileInv, WholeBlocks, Putting, Elsewhere
<1>6. AckedOnDisk'
  <2>. SUFFICES ASSUME NEW j \in Keys, acked'[j] # None
                PROVE  /\ files'[j] = acked'[j] /\ Len(acked'[j]) = BlockSize
                       /\ \A u \in Threads : ~Opens(u, j)'
    BY Zenon DEF AckedOnDisk
  <2>1. j # k /\ acked'[j] = acked[j]
    BY Zenon
  <2>. QED  BY Zenon, <1>2, <1>3, <2>1 DEF FileInv, AckedOnDisk
<1>7. ASSUME known' = known, blind' = blind, op[t].at # "scan"
      PROVE  Covered'
  <2>. SUFFICES ASSUME ~blind', NEW j \in Keys \ Hidden, acked'[j] # None
                PROVE  j \in known' \/ Scanned(j)'
    BY Zenon DEF Covered
  <2>1. j # k /\ acked[j] # None /\ ~blind
    BY Zenon, <1>7
  <2>2. j \in known \/ Scanned(j)
    BY Zenon, <2>1 DEF FileInv, Covered
  <2>3. ASSUME Scanned(j) PROVE Scanned(j)'
    <3>1. PICK u \in Threads : op[u].at = "scan" /\ j \in op[u].must
      BY Zenon, <2>3 DEF Scanned
    <3>2. u # t
      BY Zenon, <1>7, <3>1
    <3>3. op'[u].at = "scan" /\ j \in op'[u].must
      BY Zenon, <1>1, <2>1, <3>1, <3>2 DEF Elsewhere
    <3>. QED  BY Zenon, <3>3 DEF Scanned
  <2>. QED  BY Zenon, <1>7, <2>2, <2>3
<1>. QED  BY Zenon, <1>1, <1>2, <1>4, <1>5, <1>6, <1>7 DEF OthersKept

\* What remains to be shown of t itself.
LEMMA Combine ==
    ASSUME NEW t \in Threads, NEW k \in Keys, OthersKept(t, k),
           op'[t].at \in Putting /\ op'[t].alone =>
              /\ op'[t].key = k /\ op'[t].linked
              /\ \A v \in Threads \ {t} : ~Opens(v, k)
              /\ files'[k] = IF op'[t].at = "write" THEN <<>> ELSE op'[t].data,
           op'[t].at = "write" => Len(op'[t].data) <= BlockSize,
           op'[t].at \in {"count", "store"} => Len(op'[t].data) = BlockSize,
           known' = known, blind' = blind, op[t].at # "scan"
    PROVE  FileInv'
<1>1. Aloneness'
  <2>. SUFFICES ASSUME NEW u \in Threads, op'[u].at \in Putting, op'[u].alone
                PROVE  /\ \A v \in Threads \ {u} : ~Opens(v, op[u].key)'
                       /\ op'[u].linked
                       /\ files'[op'[u].key] = IF op'[u].at = "write" THEN <<>> ELSE op'[u].data
    BY Zenon DEF Aloneness
  <2>1. CASE u = t
    <3>1. \A v \in Threads \ {t} : ~Opens(v, k)'
      BY Zenon, <2>1 DEF OthersKept
    <3>2. \A v \in Threads \ {t} : ~Opens(v, op[t].key)'
      BY Zenon, <2>1, <3>1 DEF Opens
    <3>. QED  BY Zenon, <2>1, <3>2
  <2>2. CASE u # t
    BY Zenon, <2>2 DEF OthersKept
  <2>. QED  BY Zenon, <2>1, <2>2
<1>2. WholeBlocks'
  BY Zenon DEF WholeBlocks, OthersKept
<1>3. AckedOnDisk' /\ Covered'
  BY Zenon DEF OthersKept
<1>. QED  BY Zenon, <1>1, <1>2, <1>3 DEF FileInv

\* A whole block written into an empty file is what the file then holds.
LEMMA WholeOverlay ==
    ASSUME NEW d \in Seq(Nat), Len(d) = BlockSize
    PROVE  Overlay(<<>>, d, BlockSize) = d
<1>1. BlockSize \in Nat
  BY Zenon, StoreAssumption
<1>2. SubSeq(d, 1, BlockSize) = d
  BY <1>1
<1>3. SubSeq(<<>>, BlockSize + 1, Len(<<>>)) = <<>>
  BY <1>1
<1>4. d \o <<>> = d
  OBVIOUS
<1>. QED  BY Zenon, <1>2, <1>3, <1>4 DEF Overlay

\* putBlock opens the file: the thread is alone with it if nobody else has it
\* open, and it is empty.
LEMMA OpenStep ==
    ASSUME TypeInv, FileInv, NEW t \in Threads, PutOpen(t)
    PROVE  FileInv'
<1>1. op[t] \in PutRec /\ op[t].at = "open"
  BY Zenon, OpCases DEF PutOpen, TypeInv
<1>. SUFFICES ASSUME NEW k \in Keys, NEW d \in Data, op[t].key = k, op[t].data = d
              PROVE  FileInv'
  BY Zenon, <1>1 DEF PutRec
<1>. DEFINE next == IF Len(d) > BlockSize THEN Idle
                    ELSE PutState("write", k, d, Others(t, k) = {})
            how == IF files[k] = None THEN "make" ELSE "write"
<1>2. d \in Seq(Nat) /\ BlockSize \in Nat
  BY Zenon, StoreAssumption
<1>3. CASE fds = MaxFds
  <2>1. op' = [op EXCEPT ![t] = Idle] /\ files' = files /\ acked' = acked
    BY Zenon, <1>3 DEF PutOpen
  <2>2. Idle \in OpRec /\ Idle.at \notin Putting /\ op[t].at \notin Putting
    BY Zenon, <1>1 DEF OpRec, Idle, Putting
  <2>3. (Aloneness /\ WholeBlocks /\ AckedOnDisk)'
    BY Zenon, <2>1, <2>2, Unopened
  <2>4. Covered'
    BY Zenon, <1>1, <1>3, <2>1 DEF FileInv, Covered, Scanned, PutOpen, TypeInv
  <2>. QED  BY Zenon, <2>3, <2>4 DEF FileInv
<1>4. CASE fds # MaxFds
  <2>1. /\ Disturb(t, k, next, how)
        /\ files' = [files EXCEPT ![k] = <<>>]
        /\ acked' = [acked EXCEPT ![k] = None]
        /\ known' = known /\ blind' = blind
    BY Zenon, <1>4 DEF PutOpen
  <2>2. /\ next \in OpRec
        /\ next.at \in {"idle", "write"}
        /\ next.at = "write" =>
              /\ next.key = k /\ next.data = d /\ next.linked
              /\ next.alone => Others(t, k) = {}
              /\ Len(d) <= BlockSize
    <3>1. CASE Len(d) > BlockSize
      BY Zenon, <3>1 DEF OpRec, Idle
    <3>2. CASE ~(Len(d) > BlockSize)
      <4>. DEFINE b == Others(t, k) = {}
      <4>1. next = PutState("write", k, d, b) /\ Len(d) <= BlockSize
        BY <1>2, <3>2
      <4>. HIDE DEF next
      <4>2. next \in OpRec
        BY Zenon, <1>2, <4>1, PutStateType
      <4>3. /\ next.at = "write" /\ next.key = k /\ next.data = d
            /\ next.linked = TRUE /\ next.alone = b
        BY Zenon, <4>1 DEF PutState
      <4>. QED  BY Zenon, <4>1, <4>2, <4>3
    <3>. QED  BY Zenon, <3>1, <3>2
  <2>. HIDE DEF next, how
  <2>3. how \in {"make", "write", "unlink"}
    BY Zenon DEF how
  <2>4. /\ \A j \in Keys \ {k} : files'[j] = files[j]
        /\ \A j \in Keys \ {k} : acked'[j] = acked[j]
        /\ acked'[k] = None /\ files'[k] = <<>>
    BY Zenon, <1>2, <2>1 DEF TypeInv
  <2>5. next.at \in Putting => next.key = k
    BY Zenon, <2>2 DEF Putting
  <2>6. OthersKept(t, k) /\ op'[t] = next
    BY <1>2, <2>1, <2>2, <2>3, <2>4, <2>5, Disturbed
  <2>7. op'[t].at \in Putting /\ op'[t].alone =>
           /\ op'[t].key = k /\ op'[t].linked
           /\ \A v \in Threads \ {t} : ~Opens(v, k)
           /\ files'[k] = IF op'[t].at = "write" THEN <<>> ELSE op'[t].data
    BY Zenon, <2>2, <2>4, <2>6 DEF Putting, Others, Opens
  <2>8. /\ op'[t].at = "write" => Len(op'[t].data) <= BlockSize
        /\ op'[t].at \in {"count", "store"} => Len(op'[t].data) = BlockSize
    BY Zenon, <2>2, <2>6
  <2>9. op[t].at # "scan"
    BY Zenon, <1>1
  <2>. QED  BY Zenon, <2>1, <2>6, <2>7, <2>8, <2>9, Combine
<1>. QED  BY Zenon, <1>3, <1>4

\* putBlock writes: if it is alone and the whole block is written, that is what
\* the file holds.
LEMMA WriteStep ==
    ASSUME TypeInv, FileInv, NEW t \in Threads, NEW n \in 0..BlockSize, PutWrite(t, n)
    PROVE  FileInv'
<1>1. op[t] \in PutRec /\ op[t].at = "write"
  BY Zenon, OpCases DEF PutWrite, TypeInv
<1>. SUFFICES ASSUME NEW k \in Keys, NEW d \in Data, op[t].key = k, op[t].data = d
              PROVE  FileInv'
  BY Zenon, <1>1 DEF PutRec
<1>. DEFINE next == IF WriteOk(n) THEN [op[t] EXCEPT !.at = "count"] ELSE Idle
<1>2. d \in Seq(Nat) /\ BlockSize \in Nat /\ Opens(t, k)
  BY Zenon, <1>1, StoreAssumption DEF Opens, Putting
<1>3. /\ Disturb(t, k, next, "write")
      /\ files' = IF op[t].linked THEN [files EXCEPT ![k] = Overlay(@, d, n)] ELSE files
      /\ n <= Len(d)
      /\ acked' = acked /\ known' = known /\ blind' = blind
  BY Zenon DEF PutWrite
<1>4. acked[k] = None
  BY Zenon, <1>2 DEF FileInv, AckedOnDisk
<1>5. /\ next \in OpRec
      /\ next.at \in {"idle", "count"}
      /\ next.at = "count" => /\ WriteOk(n) /\ next.key = k /\ next.data = d
                              /\ next.linked = op[t].linked /\ next.alone = op[t].alone
  BY Zenon, <1>1 DEF PutRec, OpRec, Idle
<1>. HIDE DEF next
<1>6. next.at \in Putting => next.key = k
  BY Zenon, <1>5 DEF Putting
<1>7. /\ \A j \in Keys \ {k} : files'[j] = files[j]
      /\ \A j \in Keys \ {k} : acked'[j] = acked[j]
      /\ acked'[k] = None
  BY Zenon, <1>3, <1>4 DEF TypeInv
<1>8. OthersKept(t, k) /\ op'[t] = next
  BY Zenon, <1>3, <1>5, <1>6, <1>7, Disturbed
<1>9. op'[t].at = "count" => Len(d) = BlockSize /\ n = BlockSize
  <2>1. Len(d) <= BlockSize /\ Len(d) \in Nat
    BY <1>1, <1>2 DEF FileInv, WholeBlocks
  <2>. QED  BY <1>3, <1>5, <1>8, <2>1, StoreAssumption DEF WriteOk
<1>10. ASSUME op'[t].at \in Putting, op'[t].alone
       PROVE  /\ op'[t].key = k /\ op'[t].linked
              /\ \A v \in Threads \ {t} : ~Opens(v, k)
              /\ files'[k] = op'[t].data /\ op'[t].at # "write"
  <2>1. next.at = "count" /\ op[t].alone
    BY Zenon, <1>5, <1>8, <1>10 DEF Putting
  <2>2. /\ \A v \in Threads \ {t} : ~Opens(v, k)
        /\ op[t].linked /\ files[k] = <<>>
    BY Zenon, <1>1, <2>1 DEF FileInv, Aloneness, Putting
  <2>3. files'[k] = Overlay(<<>>, d, BlockSize)
    BY Zenon, <1>3, <1>8, <1>9, <2>1, <2>2 DEF TypeInv
  <2>4. files'[k] = d
    BY Zenon, <1>2, <1>8, <1>9, <2>1, <2>3, WholeOverlay
  <2>. QED  BY Zenon, <1>5, <1>8, <2>1, <2>2, <2>4
<1>11. /\ op'[t].at = "write" => Len(op'[t].data) <= BlockSize
       /\ op'[t].at \in {"count", "store"} => Len(op'[t].data) = BlockSize
  BY Zenon, <1>5, <1>8, <1>9
<1>12. op[t].at # "scan"
  BY Zenon, <1>1
<1>. QED  BY Zenon, <1>3, <1>8, <1>10, <1>11, <1>12, Combine

\* removeBlock unlinks the file: no put of it is alone any more.
LEMMA RemoveStep ==
    ASSUME TypeInv, FileInv, NEW t \in Threads, NEW k \in Keys, RemoveBlock(t, k)
    PROVE  FileInv'
<1>1. /\ Disturb(t, k, Unlinked, "unlink") /\ op[t] = Idle
      /\ files' = [files EXCEPT ![k] = None]
      /\ acked' = [acked EXCEPT ![k] = None]
      /\ known' = known /\ blind' = blind
  BY Zenon DEF RemoveBlock, Begin, Outside
<1>2. Unlinked \in OpRec /\ Unlinked.at = "unlinked" /\ op[t].at # "scan"
  BY <1>1 DEF OpRec, Unlinked, Idle
<1>3. Unlinked.at \in Putting => Unlinked.key = k
  BY Zenon, <1>2 DEF Putting
<1>4. /\ \A j \in Keys \ {k} : files'[j] = files[j]
      /\ \A j \in Keys \ {k} : acked'[j] = acked[j]
      /\ acked'[k] = None
  BY Zenon, <1>1 DEF TypeInv
<1>5. OthersKept(t, k) /\ op'[t] = Unlinked
  BY Zenon, <1>1, <1>2, <1>3, <1>4, Disturbed
<1>6. op'[t].at \notin Putting /\ op'[t].at \notin {"write", "count", "store"}
  BY Zenon, <1>2, <1>5 DEF Putting
<1>. QED  BY Zenon, <1>1, <1>2, <1>5, <1>6, Combine

\* putBlock loads the counters: nothing that it knows of its file changes.
LEMMA CountStep ==
    ASSUME TypeInv, FileInv, NEW t \in Threads, PutCount(t)
    PROVE  FileInv'
<1>1. op[t] \in PutRec /\ op[t].at = "count"
  BY Zenon, OpCases DEF PutCount, TypeInv
<1>2. /\ op' = [op EXCEPT ![t] = [op[t] EXCEPT !.at = "store", !.free = free, !.used = used]]
      /\ files' = files /\ acked' = acked /\ known' = known /\ blind' = blind
  BY Zenon DEF PutCount, history
<1>3. /\ op'[t].at = "store" /\ op'[t].key = op[t].key /\ op'[t].data = op[t].data
      /\ op'[t].alone = op[t].alone /\ op'[t].linked = op[t].linked
  BY Zenon, <1>1, <1>2 DEF PutRec, TypeInv
<1>4. \A u \in Threads \ {t} : op'[u] = op[u]
  BY Zenon, <1>2 DEF TypeInv
<1>5. \A u \in Threads, k \in Keys : Opens(u, k)' <=> Opens(u, k)
  BY Zenon, <1>1, <1>3, <1>4 DEF Opens, Putting
<1>6. ASSUME NEW u \in Threads, op'[u].at \in Putting
      PROVE  /\ op[u].at \in Putting /\ op[u].key \in Keys
             /\ op'[u].key = op[u].key /\ op'[u].data = op[u].data
             /\ op'[u].alone = op[u].alone /\ op'[u].linked = op[u].linked
             /\ op'[u].at = "write" <=> op[u].at = "write"
             /\ op'[u].at \in {"count", "store"} <=> op[u].at \in {"count", "store"}
  <2>1. CASE u = t
    BY Zenon, <1>1, <1>3, <2>1 DEF PutRec, Putting
  <2>2. CASE u # t
    <3>1. op'[u] = op[u]
      BY Zenon, <1>4, <2>2
    <3>2. op[u] \in PutRec
      BY Zenon, <1>6, <3>1, OpCases DEF TypeInv, Putting
    <3>. QED  BY Zenon, <1>6, <3>1, <3>2 DEF PutRec
  <2>. QED  BY Zenon, <2>1, <2>2
<1>7. Aloneness'
  BY <1>2, <1>5, <1>6 DEF FileInv, Aloneness
<1>8. WholeBlocks'
  BY Zenon, <1>6 DEF FileInv, WholeBlocks, Putting
<1>9. AckedOnDisk'
  BY Zenon, <1>2, <1>5 DEF FileInv, AckedOnDisk
<1>10. Covered'
  <2>1. \A u \in Threads : op[u].at = "scan" => op'[u] = op[u]
    BY Zenon, <1>1, <1>4
  <2>. QED  BY Zenon, <1>2, <2>1 DEF FileInv, Covered, Scanned
<1>. QED  BY Zenon, <1>7, <1>8, <1>9, <1>10 DEF FileInv

\* putBlock returns true: if it was alone, the block is in the file, nobody else
\* has it open, and the key is entered.
LEMMA StoreStep ==
    ASSUME TypeInv, FileInv, NEW t \in Threads, PutStore(t)
    PROVE  FileInv'
<1>1. op[t] \in PutRec /\ op[t].at = "store"
  BY Zenon, OpCases DEF PutStore, TypeInv
<1>. SUFFICES ASSUME NEW k \in Keys, NEW d \in Data, op[t].key = k, op[t].data = d
              PROVE  FileInv'
  BY Zenon, <1>1 DEF PutRec
<1>2. /\ op' = [op EXCEPT ![t] = Idle] /\ files' = files
      /\ acked' = IF op[t].alone THEN [acked EXCEPT ![k] = d] ELSE acked
      /\ known' = known \union {k} /\ blind' = blind
  BY Zenon DEF PutStore
<1>3. op'[t] = Idle /\ op'[t].at = "idle" /\ \A u \in Threads \ {t} : op'[u] = op[u]
  BY Zenon, <1>2 DEF TypeInv, Idle
<1>4. \A u \in Threads, j \in Keys : Opens(u, j)' <=> u # t /\ Opens(u, j)
  BY Zenon, <1>3 DEF Opens, Putting
<1>5. ASSUME NEW u \in Threads, op'[u].at \in Putting
      PROVE  op'[u] = op[u] /\ op[u].key \in Keys
  <2>1. op'[u] = op[u]
    BY Zenon, <1>3, <1>5 DEF Putting
  <2>2. op[u] \in PutRec
    BY Zenon, <1>5, <2>1, OpCases DEF TypeInv, Putting
  <2>. QED  BY Zenon, <2>1, <2>2 DEF PutRec
<1>6. Aloneness'
  BY <1>2, <1>4, <1>5 DEF FileInv, Aloneness
<1>7. WholeBlocks'
  BY Zenon, <1>5 DEF FileInv, WholeBlocks, Putting
<1>8. AckedOnDisk'
  <2>. SUFFICES ASSUME NEW j \in Keys, acked'[j] # None
                PROVE  /\ files'[j] = acked'[j] /\ Len(acked'[j]) = BlockSize
                       /\ \A u \in Threads : ~Opens(u, j)'
    BY Zenon DEF AckedOnDisk
  <2>1. CASE op[t].alone /\ j = k
    <3>1. acked'[j] = d
      BY Zenon, <1>2, <2>1 DEF TypeInv
    <3>2. files[k] = d /\ \A u \in Threads \ {t} : ~Opens(u, k)
      BY Zenon, <1>1, <2>1 DEF FileInv, Aloneness, Putting
    <3>3. Len(d) = BlockSize
      BY Zenon, <1>1 DEF FileInv, WholeBlocks
    <3>. QED  BY Zenon, <1>2, <1>4, <2>1, <3>1, <3>2, <3>3
  <2>2. CASE ~(op[t].alone /\ j = k)
    <3>1. acked'[j] = acked[j]
      BY Zenon, <1>2, <2>2 DEF TypeInv
    <3>. QED  BY Zenon, <1>2, <1>4, <3>1 DEF FileInv, AckedOnDisk
  <2>. QED  BY Zenon, <2>1, <2>2
<1>9. Covered'
  <2>. SUFFICES ASSUME ~blind', NEW j \in Keys \ Hidden, acked'[j] # None
                PROVE  j \in known' \/ Scanned(j)'
    BY Zenon DEF Covered
  <2>1. CASE j = k
    BY Zenon, <1>2, <2>1
  <2>2. CASE j # k
    <3>1. acked[j] # None
      BY Zenon, <1>2, <2>2 DEF TypeInv
    <3>2. j \in known \/ Scanned(j)
      BY Zenon, <1>2, <3>1 DEF FileInv, Covered
    <3>3. \A u \in Threads : op[u].at = "scan" => op'[u] = op[u]
      BY Zenon, <1>1, <1>3
    <3>. QED  BY Zenon, <1>2, <3>2, <3>3 DEF Scanned
  <2>. QED  BY Zenon, <2>1, <2>2
<1>. QED  BY Zenon, <1>6, <1>7, <1>8, <1>9 DEF FileInv

\* The filter is cleared: unless the directory cannot be opened, the listing has
\* the name of every block that was acknowledged.
LEMMA RebuildStep ==
    ASSUME TypeInv, FileInv, NEW t \in Threads, RegenerateBegin(t)
    PROVE  FileInv'
<1>1. op[t].at = "unlinked" /\ files' = files /\ acked' = acked
  BY Zenon DEF RegenerateBegin
<1>. DEFINE next == IF fds = MaxFds THEN Idle ELSE ScanState(Listing)
<1>2. op' = [op EXCEPT ![t] = next] /\ blind' = (fds = MaxFds)
  BY Zenon DEF RegenerateBegin
<1>3. next \in OpRec /\ next.at \notin Putting /\ op[t].at \notin Putting
  BY Zenon, <1>1, ListingType DEF OpRec, ScanRec, Idle, Putting
<1>4. (Aloneness /\ WholeBlocks /\ AckedOnDisk)'
  <2>. HIDE DEF next
  <2>. QED  BY Zenon, <1>1, <1>2, <1>3, Unopened
<1>5. Covered'
  <2>. SUFFICES ASSUME ~blind', NEW j \in Keys \ Hidden, acked'[j] # None
                PROVE  Scanned(j)'
    BY Zenon DEF Covered
  <2>1. op'[t] = ScanState(Listing)
    BY Zenon, <1>2 DEF TypeInv
  <2>2. files[j] # None
    BY Zenon, <1>1 DEF FileInv, AckedOnDisk
  <2>3. op'[t].at = "scan" /\ j \in op'[t].must
    BY <2>1, <2>2 DEF ScanState, Listing, Visible
  <2>. QED  BY Zenon, <2>3 DEF Scanned
<1>. QED  BY Zenon, <1>4, <1>5 DEF FileInv

\* A name that is read off the listing is entered.
LEMMA EntryStep ==
    ASSUME TypeInv, FileInv, NEW t \in Threads, NEW k \in Keys, RegenerateEntry(t, k)
    PROVE  FileInv'
<1>1. /\ op[t].at = "scan" /\ files' = files /\ acked' = acked /\ blind' = blind
      /\ known' = known \union {k}
      /\ op' = [op EXCEPT ![t] = Read(op[t], k)]
  BY Zenon DEF RegenerateEntry, history
<1>2. op[t] \in ScanRec
  BY Zenon, <1>1, OpCases DEF TypeInv
<1>3. /\ Read(op[t], k) \in OpRec /\ Read(op[t], k).at = "scan"
      /\ Read(op[t], k).must = op[t].must \ {k}
  BY Zenon, <1>2, ReadType DEF OpRec
<1>4. Read(op[t], k).at \notin Putting /\ op[t].at \notin Putting
  BY Zenon, <1>1, <1>3 DEF Putting
<1>5. (Aloneness /\ WholeBlocks /\ AckedOnDisk)'
  BY Zenon, <1>1, <1>3, <1>4, Unopened
<1>6. Covered'
  <2>. SUFFICES ASSUME ~blind', NEW j \in Keys \ Hidden, acked'[j] # None, j # k
                PROVE  j \in known' \/ Scanned(j)'
    BY Zenon, <1>1 DEF Covered
  <2>1. j \in known \/ Scanned(j)
    BY Zenon, <1>1 DEF FileInv, Covered
  <2>2. ASSUME NEW u \in Threads, op[u].at = "scan", j \in op[u].must
        PROVE  op'[u].at = "scan" /\ j \in op'[u].must
    BY Zenon, <1>1, <1>3, <2>2 DEF TypeInv
  <2>. QED  BY Zenon, <1>1, <2>1, <2>2 DEF Scanned
<1>. QED  BY Zenon, <1>5, <1>6 DEF FileInv

\* The directory is closed when no name is left that had to be read.
LEMMA EndStep ==
    ASSUME TypeInv, FileInv, NEW t \in Threads, RegenerateEnd(t)
    PROVE  FileInv'
<1>1. /\ op[t].at = "scan" /\ op[t].must = {} /\ op' = [op EXCEPT ![t] = Idle]
      /\ files' = files /\ acked' = acked /\ known' = known /\ blind' = blind
  BY Zenon DEF RegenerateEnd, history
<1>2. Idle \in OpRec /\ Idle.at \notin Putting /\ op[t].at \notin Putting
  BY Zenon, <1>1 DEF OpRec, Idle, Putting
<1>3. (Aloneness /\ WholeBlocks /\ AckedOnDisk)'
  BY Zenon, <1>1, <1>2, Unopened
<1>4. \A u \in Threads \ {t} : op'[u] = op[u]
  BY Zenon, <1>1 DEF TypeInv
<1>5. Covered'
  BY Zenon, <1>1, <1>4 DEF FileInv, Covered, Scanned
<1>. QED  BY Zenon, <1>3, <1>5 DEF FileInv

\* The constructor: nothing is open, and every name is read.
LEMMA ConstructStep ==
    ASSUME TypeInv, FileInv, NEW open, NEW lost, Construct(open, lost)
    PROVE  FileInv'
<1>1. /\ op' = [t \in Threads |-> Idle] /\ files' = files /\ acked' = acked
      /\ blind' = (open = MaxFds)
      /\ known' = IF open = MaxFds THEN {} ELSE Visible
  BY Zenon DEF Construct
<1>2. \A t \in Threads : op'[t].at = "idle"
  BY Zenon, <1>1 DEF Idle
<1>3. \A t \in Threads, k \in Keys : ~Opens(t, k)'
  BY Zenon, <1>2 DEF Opens, Putting
<1>4. Aloneness' /\ WholeBlocks'
  BY Zenon, <1>2 DEF Aloneness, WholeBlocks, Putting
<1>5. AckedOnDisk'
  BY Zenon, <1>1, <1>3 DEF FileInv, AckedOnDisk
<1>6. Covered'
  BY Zenon, <1>1 DEF FileInv, AckedOnDisk, Covered, Visible
<1>. QED  BY Zenon, <1>4, <1>5, <1>6 DEF FileInv

\* PutBegin, getBlock and next() touch no file, filter or acknowledgement.
LEMMA QuietStep ==
    ASSUME TypeInv, FileInv,
           \/ \E t \in Threads, k \in Keys, d \in Data : PutBegin(t, k, d)
           \/ \E t \in Threads : GetBlock(t)
           \/ \E k \in Keys : NextBlock(k)
           \/ NextEnd
           \/ UNCHANGED vars
    PROVE  FileInv'
<1>1. ASSUME NEW t \in Threads, NEW k \in Keys, NEW d \in Data, PutBegin(t, k, d)
      PROVE  FileInv'
  <2>. DEFINE next == IF NoRoom THEN Idle ELSE PutState("open", k, d, TRUE)
  <2>1. /\ op[t] = Idle /\ files' = files /\ acked' = acked
        /\ known' = known /\ blind' = blind
    BY Zenon, <1>1 DEF PutBegin, Begin, Outside
  <2>2. op' = [op EXCEPT ![t] = next]
    BY Zenon, <1>1 DEF PutBegin, Begin, Outside, TypeInv
  <2>3. next \in OpRec /\ next.at \in {"idle", "open"}
    BY Zenon, PutStateType DEF OpRec, Idle, PutState
  <2>. HIDE DEF next
  <2>4. next.at \notin Putting /\ op[t].at \notin Putting /\ op[t].at # "scan"
    BY <2>1, <2>3 DEF Putting, Idle
  <2>5. (Aloneness /\ WholeBlocks /\ AckedOnDisk)'
    BY Zenon, <2>1, <2>2, <2>3, <2>4, Unopened
  <2>6. \A u \in Threads : op[u].at = "scan" => op'[u] = op[u]
    BY Zenon, <2>2, <2>4 DEF TypeInv
  <2>7. Covered'
    BY Zenon, <2>1, <2>6 DEF FileInv, Covered, Scanned
  <2>. QED  BY Zenon, <2>5, <2>7 DEF FileInv
<1>2. CASE \/ \E t \in Threads : GetBlock(t)
           \/ \E k \in Keys : NextBlock(k)
           \/ NextEnd
           \/ UNCHANGED vars
  <2>1. /\ op' = op /\ files' = files /\ acked' = acked
        /\ known' = known /\ blind' = blind
    BY Zenon, <1>2, GetKeeps DEF NextBlock, NextEnd, vars, history
  <2>. QED  BY Zenon, <2>1
               DEF FileInv, Aloneness, WholeBlocks, AckedOnDisk, Covered, Scanned, Opens
<1>. QED  BY Zenon, <1>1, <1>2

\* Every step of every thread, of next() and of the process keeps it.
LEMMA FileStep == TypeInv /\ FileInv /\ [Next]_vars => FileInv'
<1>. SUFFICES ASSUME TypeInv, FileInv, [Next]_vars PROVE FileInv'
  BY Zenon
<1>1. CASE Restart \/ Reconstruct \/ NextFails
  BY Zenon, <1>1, ConstructStep DEF Restart, Reconstruct, NextFails
<1>. QED  BY SMTT(30), <1>1, QuietStep, OpenStep, WriteStep, CountStep, StoreStep, RemoveStep,
             RebuildStep, EntryStep, EndStep DEF Next

\* What a get found in its file is still what the block must hold, unless it has
\* been put or removed since.
Reading ==
    \A t \in Threads : get[t] # None /\ get[t].block # None =>
        acked[get[t].key] = get[t].block

\* Whoever may change what the block must hold has opened or unlinked the file,
\* and the gets have forgotten what they found.
LEMMA ReadingStep == TypeInv /\ FileInv /\ Reading /\ [Next]_vars => Reading'
<1>. SUFFICES ASSUME TypeInv, FileInv, Reading, [Next]_vars PROVE Reading'
  BY Zenon
<1>0. /\ None \notin GetRec
      /\ \A t \in Threads : get[t] # None => get[t] \in GetRec /\ get[t].key \in Keys
  <2>1. None \notin GetRec
    BY Zenon, StoreAssumption DEF GetRec
  <2>2. \A g \in GetRec : g.key \in Keys
    BY Zenon DEF GetRec
  <2>. QED  BY Zenon, <2>1, <2>2 DEF TypeInv
<1>1. CASE get' = get /\ acked' = acked
  BY Zenon, <1>1 DEF Reading
<1>2. ASSUME NEW k \in Keys, Forget(k), acked' = [acked EXCEPT ![k] = None]
      PROVE  Reading'
  <2>. SUFFICES ASSUME NEW u \in Threads, get'[u] # None, get'[u].block # None
                PROVE  acked'[get'[u].key] = get'[u].block
    BY Zenon DEF Reading
  <2>1. get'[u] = get[u] /\ get[u].key # k
    BY Zenon, <1>2, ForgetFacts
  <2>2. acked[get[u].key] = get[u].block /\ get[u].key \in Keys
    BY Zenon, <1>0, <2>1 DEF Reading
  <2>3. acked'[get[u].key] = acked[get[u].key]
    BY Zenon, <1>2, <2>1, <2>2 DEF TypeInv
  <2>. QED  BY Zenon, <2>1, <2>2, <2>3
<1>3. ASSUME NEW t \in Threads, PutOpen(t)
      PROVE  Reading'
  <2>1. op[t] \in PutRec
    BY Zenon, <1>3, OpCases DEF PutOpen, TypeInv
  <2>2. op[t].key \in Keys
    BY Zenon, <2>1 DEF PutRec
  <2>. QED  BY Zenon, <1>1, <1>2, <1>3, <2>2 DEF PutOpen
<1>4. ASSUME NEW t \in Threads, PutStore(t)
      PROVE  Reading'
  <2>1. op[t] \in PutRec /\ op[t].at = "store"
    BY Zenon, <1>4, OpCases DEF PutStore, TypeInv
  <2>2. op[t].key \in Keys /\ Opens(t, op[t].key)
    BY Zenon, <2>1 DEF PutRec, Opens, Putting
  <2>3. acked[op[t].key] = None
    BY Zenon, <2>2 DEF FileInv, AckedOnDisk
  <2>4. ASSUME NEW k \in Keys, acked[k] # None
        PROVE  acked'[k] = acked[k]
    BY Zenon, <1>4, <2>2, <2>3, <2>4 DEF PutStore, TypeInv
  <2>5. get' = get
    BY Zenon, <1>4 DEF PutStore
  <2>. QED  BY Zenon, <1>0, <2>4, <2>5 DEF Reading
<1>5. CASE Restart \/ Reconstruct \/ NextFails
  BY Zenon, <1>5 DEF Restart, Reconstruct, NextFails, Construct, Reading
<1>6. ASSUME NEW t \in Threads, GetBlock(t)
      PROVE  Reading'
  <2>1. acked' = acked
    BY Zenon, <1>6, GetKeeps
  <2>2. ASSUME NEW k \in Keys, get' = [get EXCEPT ![t] = [key |-> k, block |-> acked[k]]]
        PROVE  Reading'
    BY Zenon, <2>1, <2>2 DEF Reading, TypeInv
  <2>3. CASE get' = [get EXCEPT ![t] = None]
    BY Zenon, <2>1, <2>3 DEF Reading, TypeInv
  <2>. QED  BY Zenon, <1>6, <2>2, <2>3 DEF GetBlock, GetOpen, GetRead
<1>7. ASSUME NEW t \in Threads, NEW k \in Keys, RemoveBlock(t, k)
      PROVE  Reading'
  BY Zenon, <1>2, <1>7 DEF RemoveBlock
<1>. QED  BY Zenon, <1>1, <1>3, <1>4, <1>5, <1>6, <1>7
             DEF Next, vars, history, PutBegin, PutCount, PutWrite, RegenerateBegin,
                 RegenerateEntry, RegenerateEnd, NextBlock, NextEnd

\* A store that has just been made in an empty directory.
LEMMA StoreInit == Init => TypeInv /\ FileInv /\ Reading
<1>. SUFFICES ASSUME Init PROVE TypeInv /\ FileInv /\ Reading
  BY Zenon
<1>1. \A t \in Threads : op[t] = Idle /\ op[t].at = "idle"
  BY Zenon DEF Init, Idle
<1>2. (\A k \in Keys : acked[k] = None) /\ (\A t \in Threads : get[t] = None)
  BY Zenon DEF Init
<1>3. TypeInv
  BY Zenon, TypeInit
<1>4. FileInv
  BY Zenon, <1>1, <1>2 DEF FileInv, Aloneness, WholeBlocks, AckedOnDisk, Covered, Putting
<1>. QED  BY Zenon, <1>2, <1>3, <1>4 DEF Reading

\* The invariant holds in every state.
LEMMA FileInductive == Spec => [](TypeInv /\ FileInv /\ Reading)
  BY StoreInit, TypeStep, FileStep, ReadingStep, PTL DEF Spec

\* getBlock reads the whole of a block that is on disk.
LEMMA ReadsBack == TypeInv /\ FileInv /\ Reading => AckedReadsBack
<1>. SUFFICES ASSUME TypeInv, FileInv, Reading PROVE AckedReadsBack
  BY Zenon
<1>1. ASSUME NEW k \in Keys, acked[k] # None
      PROVE  ReadBlock(files[k]) = acked[k]
  <2>1. acked[k] \in Data /\ acked[k] \in Seq(Nat)
    BY Zenon, <1>1, StoreAssumption DEF TypeInv
  <2>2. files[k] = acked[k] /\ Len(acked[k]) = BlockSize
    BY Zenon, <1>1 DEF FileInv, AckedOnDisk
  <2>3. BlockSize \in Nat /\ BlockSize > 0
    BY StoreAssumption
  <2>4. acked[k] # <<>>
    BY <2>2, <2>3
  <2>5. Min({BlockSize, BlockSize}) = BlockSize
    BY <2>3 DEF Min
  <2>6. SubSeq(acked[k], 1, BlockSize) = acked[k]
    BY <2>1, <2>2
  <2>. QED  BY Zenon, <1>1, <2>2, <2>4, <2>5, <2>6 DEF ReadBlock
<1>2. ASSUME NEW t \in Threads, get[t] # None, get[t].block # None
      PROVE  ReadBlock(files[get[t].key]) = get[t].block
  <2>1. acked[get[t].key] = get[t].block
    BY Zenon, <1>2 DEF Reading
  <2>2. get[t].key \in Keys
    BY Zenon, <1>2 DEF TypeInv, GetRec
  <2>. QED  BY Zenon, <1>1, <1>2, <2>1, <2>2
<1>. QED  BY Zenon, <1>1, <1>2 DEF AckedReadsBack

\* For every block size, number of threads and limit: what putBlock acknowledged
\* is what getBlock returns, until somebody puts or removes the block again.
THEOREM AckedBlocksReadBack == Spec => []AckedReadsBack
  BY FileInductive, ReadsBack, PTL

\* Outside a rebuild, the filter and the set of keys have every block that was
\* acknowledged, however rebuilds, puts and removals overlapped.
THEOREM FilterAlwaysCoversAcked == Spec => []FilterCoversAcked
<1>1. TypeInv /\ FileInv => FilterCoversAcked
  BY Zenon DEF FileInv, Covered, Scanned, FilterCoversAcked, Regenerating
<1>. QED  BY <1>1, FileInductive, PTL
===============================================================================
