------------------------------- MODULE LRUCache -------------------------------
(***************************************************************************)
(* util::LRUCache (src/util/lrucache.h): a map from keys to entries and a  *)
(* vector of the same entries that the standard heap algorithms keep       *)
(* ordered by access time.  Only the entry at the front of the vector is   *)
(* ever used, so the vector is its set of entries and its front; ordered   *)
(* tells whether it is known to satisfy the heap property.  put() changes  *)
(* the access time of an entry that is present and does not restore it.    *)
(***************************************************************************)
EXTENDS Integers, FiniteSets, Functions

CONSTANTS
    Keys,
    Values,
    Size,       \* how many entries the cache holds
    MaxTime,    \* how often atimes are drawn
    None

ASSUME CacheAssumption ==
    /\ Size \in Nat \ {0} /\ MaxTime \in Nat
    /\ None \notin Keys /\ None \notin Values
    /\ IsFiniteSet(Keys)

VARIABLES
    map,        \* _map: the value cached for a key, or None
    heap,       \* _heap: the keys of its entries
    front,      \* the key of _heap[0], or None
    ordered,    \* does _heap satisfy the heap property?
    atime,      \* atime[k]: of the entry of k
    timeCnt     \* _timeCnt

vars == <<map, heap, front, ordered, atime, timeCnt>>

TypeOK ==
    /\ map \in [Keys -> Values \union {None}]
    /\ heap \subseteq Keys
    /\ front \in Keys \union {None}
    /\ ordered \in BOOLEAN
    /\ atime \in [Keys -> 0..MaxTime]
    /\ timeCnt \in 1..(MaxTime + 1)

Init ==
    /\ map = [k \in Keys |-> None]
    /\ heap = {} /\ front = None /\ ordered = TRUE
    /\ atime = [k \in Keys |-> 0]
    /\ timeCnt = 1

Cached == {k \in Keys : map[k] # None}
-------------------------------------------------------------------------------
\* Compare puts the entries with the smallest atime first.
Oldest(h, at) == {k \in h : \A j \in h : at[k] <= at[j]}

\* make_heap: some oldest entry comes to the front.
MakeHeap(at) ==
    /\ ordered' = TRUE
    /\ front' \in Oldest(heap, at)

\* pop_heap and pop_back take the entry at the front away.  What comes to the
\* front then is an oldest entry if the vector was a heap, else any.
PopHeap(h, f, isHeap, at) ==
    /\ heap' = h \ {f}
    /\ front' \in IF heap' = {} THEN {None}
                  ELSE IF isHeap THEN Oldest(heap', at) ELSE heap'

Tick == timeCnt <= MaxTime /\ timeCnt' = timeCnt + 1

\* A mistake in it: the heap is not made again.
GetNoHeap(k) ==
    /\ k \in Cached
    /\ Tick
    /\ atime' = [atime EXCEPT ![k] = timeCnt]
    /\ UNCHANGED <<map, heap, front, ordered>>

Get(k) ==
    /\ k \in Cached
    /\ Tick
    /\ atime' = [atime EXCEPT ![k] = timeCnt]
    /\ MakeHeap(atime')
    /\ UNCHANGED <<map, heap>>

\* make_heap brings the entry, whose atime is now 0, to the front.
Invalidate(k) ==
    /\ k \in Cached
    /\ map' = [map EXCEPT ![k] = None]
    /\ atime' = [atime EXCEPT ![k] = 0]
    /\ \E f \in Oldest(heap, atime') : PopHeap(heap, f, TRUE, atime')
    /\ ordered' = TRUE
    /\ UNCHANGED timeCnt

Replace(k, v) ==
    /\ k \in Cached
    /\ Tick
    /\ atime' = [atime EXCEPT ![k] = timeCnt]
    /\ map' = [map EXCEPT ![k] = v]
    /\ ordered' = (heap = {k})
    /\ UNCHANGED <<heap, front>>

\* A mistake in it: an entry of the vector is deleted and stays in the map.
InsertKeepsMap(k, v) ==
    /\ k \notin Cached
    /\ Tick
    /\ atime' = [atime EXCEPT ![k] = timeCnt]
    /\ map' = [map EXCEPT ![k] = v]
    /\ LET h == heap \union {k}
           f == IF heap = {} THEN k ELSE front
       IN IF Cardinality(h) > Size THEN PopHeap(h, f, ordered, atime')
          ELSE heap' = h /\ front' = f
    /\ UNCHANGED ordered

\* push_heap leaves the new entry, the youngest, behind the front.  If there
\* are too many entries, the one at the front goes.
Insert(k, v) ==
    /\ k \notin Cached
    /\ Tick
    /\ atime' = [atime EXCEPT ![k] = timeCnt]
    /\ LET h == heap \union {k}
           f == IF heap = {} THEN k ELSE front
           entered == [map EXCEPT ![k] = v]
       IN IF Cardinality(h) > Size
          THEN PopHeap(h, f, ordered, atime') /\ map' = [entered EXCEPT ![f] = None]
          ELSE heap' = h /\ front' = f /\ map' = entered
    /\ UNCHANGED ordered

Next ==
    \E k \in Keys :
        Get(k) \/ Invalidate(k) \/ \E v \in Values : Replace(k, v) \/ Insert(k, v)

Spec == Init /\ [][Next]_vars
-------------------------------------------------------------------------------
\* The vector and the map hold the same entries, at most Size of them: no
\* entry that invalidate() or an eviction deletes is left in either.
HeapMatchesMap ==
    /\ heap = Cached
    /\ Cardinality(heap) <= Size
    /\ front = None <=> heap = {}

\* While no entry has been replaced since the heap was last made, the front,
\* which is what the next eviction takes, is the least recently used entry.
FrontIsOldest == (ordered /\ heap # {}) => front \in Oldest(heap, atime)

\* lrucache.h: "LRU cache", put: "potentially invalidating an older item in
\* the process": what is evicted is no younger than anything that stays.
EvictsLeastRecentlyUsed ==
    [][\A k \in Keys, v \in Values : Insert(k, v) =>
          \A gone \in Cached \ Cached', kept \in Cached' : atime[gone] <= atime'[kept]]_vars
===============================================================================
