---------------------------- MODULE LRUCacheProofs -----------------------------
(***************************************************************************)
(* Proofs about LRUCache, for any keys, values and size.                   *)
(***************************************************************************)
EXTENDS LRUCache, FiniteSetTheorems, TLAPS

\* The strengthening: the front is an entry; an entry that is alive was
\* accessed, at some time other than the 0 that invalidate() marks it with, and
\* before the time that the next access will draw.
Times == \A k \in heap : 1 <= atime[k] /\ atime[k] < timeCnt

CacheInv ==
    /\ TypeOK
    /\ HeapMatchesMap
    /\ heap # {} => front \in heap
    /\ Times
    /\ FrontIsOldest

\* An oldest entry is one of the entries.
LEMMA OldestIsEntry ==
    ASSUME NEW h, NEW at, NEW f \in Oldest(h, at)
    PROVE  f \in h /\ \A j \in h : at[f] <= at[j]
  BY DEF Oldest

\* What the vector's size becomes when an entry comes or goes.
LEMMA HeapSizes ==
    ASSUME NEW h \in SUBSET Keys, NEW k \in Keys
    PROVE  /\ IsFiniteSet(h)
           /\ Cardinality(h) \in Nat
           /\ Cardinality(h \ {k}) = IF k \in h THEN Cardinality(h) - 1 ELSE Cardinality(h)
           /\ Cardinality(h \union {k}) = IF k \in h THEN Cardinality(h) ELSE Cardinality(h) + 1
<1>1. IsFiniteSet(h)
  BY FS_Subset, CacheAssumption
<1>. QED  BY <1>1, FS_CardinalityType, FS_AddElement, FS_RemoveElement

\* get(): the entry becomes the youngest, and the heap is made again.
LEMMA GetStep ==
    ASSUME CacheInv, NEW k \in Keys, Get(k)
    PROVE  CacheInv'
<1>. USE DEF CacheInv, TypeOK, HeapMatchesMap
<1>1. /\ k \in heap /\ timeCnt <= MaxTime /\ timeCnt' = timeCnt + 1
      /\ atime' = [atime EXCEPT ![k] = timeCnt]
      /\ ordered' = TRUE /\ front' \in Oldest(heap, atime')
      /\ map' = map /\ heap' = heap
  BY DEF Get, Tick, MakeHeap
<1>2. front' \in heap
  BY <1>1, OldestIsEntry
<1>3. TypeOK'
  BY <1>1, <1>2, CacheAssumption
<1>4. HeapMatchesMap'
  BY <1>1, <1>2, CacheAssumption DEF Cached
<1>5. Times'
  BY <1>1, CacheAssumption DEF Times
<1>6. FrontIsOldest'
  BY <1>1 DEF FrontIsOldest
<1>. QED  BY <1>1, <1>2, <1>3, <1>4, <1>5, <1>6

\* invalidate(): the entry that pop_heap takes away is the one that was marked.
LEMMA InvalidateStep ==
    ASSUME CacheInv, NEW k \in Keys, Invalidate(k)
    PROVE  CacheInv'
<1>. USE DEF CacheInv, TypeOK, HeapMatchesMap
<1>1. /\ k \in heap /\ timeCnt' = timeCnt /\ ordered' = TRUE
      /\ atime' = [atime EXCEPT ![k] = 0]
      /\ map' = [map EXCEPT ![k] = None]
  BY DEF Invalidate
<1>2. PICK f \in Oldest(heap, atime') : PopHeap(heap, f, TRUE, atime')
  BY DEF Invalidate
<1>3. f = k
  <2>1. f \in heap /\ atime'[f] <= atime'[k]
    BY <1>1, <1>2, OldestIsEntry
  <2>. QED  BY <1>1, <2>1 DEF Times
<1>4. /\ heap' = heap \ {k}
      /\ heap' = {} => front' = None
      /\ heap' # {} => front' \in Oldest(heap', atime')
  BY <1>2, <1>3 DEF PopHeap
<1>5. heap' # {} => front' \in heap'
  BY <1>4, OldestIsEntry
<1>6. TypeOK'
  BY <1>1, <1>4, <1>5, CacheAssumption
<1>7. Cardinality(heap') <= Size
  BY <1>1, <1>4, HeapSizes, CacheAssumption
<1>8. HeapMatchesMap'
  BY <1>1, <1>4, <1>5, <1>7, CacheAssumption DEF Cached
<1>9. Times'
  BY <1>1, <1>4, CacheAssumption DEF Times
<1>10. FrontIsOldest'
  BY <1>4 DEF FrontIsOldest
<1>. QED  BY <1>5, <1>6, <1>8, <1>9, <1>10

\* put() of a key that is present: the heap is ordered only if it has one entry.
LEMMA ReplaceStep ==
    ASSUME CacheInv, NEW k \in Keys, NEW v \in Values, Replace(k, v)
    PROVE  CacheInv'
<1>. USE DEF CacheInv, TypeOK, HeapMatchesMap
<1>1. /\ k \in heap /\ timeCnt <= MaxTime /\ timeCnt' = timeCnt + 1
      /\ atime' = [atime EXCEPT ![k] = timeCnt]
      /\ map' = [map EXCEPT ![k] = v]
      /\ ordered' = (heap = {k})
      /\ heap' = heap /\ front' = front
  BY DEF Replace, Tick
<1>2. TypeOK'
  BY <1>1, CacheAssumption
<1>3. HeapMatchesMap'
  BY <1>1, CacheAssumption DEF Cached
<1>4. Times'
  BY <1>1, CacheAssumption DEF Times
<1>5. FrontIsOldest'
  <2>. SUFFICES ASSUME heap = {k} PROVE front \in Oldest(heap, atime')
    BY <1>1 DEF FrontIsOldest
  <2>1. front = k /\ atime'[k] = timeCnt
    BY <1>1
  <2>. QED  BY <2>1, CacheAssumption DEF Oldest
<1>. QED  BY <1>1, <1>2, <1>3, <1>4, <1>5

\* put() of a new key: the entry at the front makes room.
LEMMA InsertStep ==
    ASSUME CacheInv, NEW k \in Keys, NEW v \in Values, Insert(k, v)
    PROVE  CacheInv'
<1>. USE DEF CacheInv, TypeOK, HeapMatchesMap
<1>. DEFINE h == heap \union {k}
            f == IF heap = {} THEN k ELSE front
            entered == [map EXCEPT ![k] = v]
<1>1. /\ k \notin heap /\ timeCnt <= MaxTime /\ timeCnt' = timeCnt + 1
      /\ atime' = [atime EXCEPT ![k] = timeCnt]
      /\ ordered' = ordered
  BY DEF Insert, Tick
<1>2. f \in h /\ h \subseteq Keys /\ Cardinality(h) = Cardinality(heap) + 1
  BY <1>1, HeapSizes
<1>3. \A j \in h : 1 <= atime'[j] /\ atime'[j] < timeCnt'
  BY <1>1, CacheAssumption DEF Times
<1>4. ordered => \A j \in h : atime'[f] <= atime'[j]
  BY <1>1, <1>2 DEF FrontIsOldest, Oldest, Times
<1>5. CASE Cardinality(h) > Size
  <2>1. PopHeap(h, f, ordered, atime') /\ map' = [entered EXCEPT ![f] = None]
    BY <1>5 DEF Insert
  <2>2. /\ heap' = h \ {f}
        /\ heap' = {} => front' = None
        /\ heap' # {} /\ ordered => front' \in Oldest(heap', atime')
        /\ heap' # {} /\ ~ordered => front' \in heap'
    BY <2>1 DEF PopHeap
  <2>3. heap' # {} => front' \in heap'
    BY <2>2, OldestIsEntry
  <2>4. Cardinality(heap') = Cardinality(heap)
    BY <1>2, <2>2, HeapSizes
  <2>5. TypeOK'
    BY <1>1, <1>2, <2>1, <2>2, <2>3, CacheAssumption
  <2>6. heap' = Cached'
    BY <1>1, <1>2, <2>1, <2>2, CacheAssumption DEF Cached
  <2>7. HeapMatchesMap'
    BY <2>2, <2>3, <2>4, <2>5, <2>6, CacheAssumption
  <2>8. Times'
    BY <1>3, <2>2 DEF Times
  <2>9. FrontIsOldest'
    BY <1>1, <2>2 DEF FrontIsOldest
  <2>. QED  BY <2>3, <2>5, <2>7, <2>8, <2>9
<1>6. CASE ~(Cardinality(h) > Size)
  <2>1. heap' = h /\ front' = f /\ map' = entered
    BY <1>6 DEF Insert
  <2>2. TypeOK'
    BY <1>1, <1>2, <2>1, CacheAssumption
  <2>3. heap' = Cached'
    BY <1>1, <1>2, <2>1, CacheAssumption DEF Cached
  <2>4. Cardinality(heap') <= Size
    <3>1. Cardinality(h) \in Nat /\ Size \in Nat
      BY <1>2, HeapSizes, CacheAssumption
    <3>. HIDE DEF h
    <3>. QED  BY <1>6, <2>1, <3>1
  <2>5. HeapMatchesMap'
    BY <1>2, <2>1, <2>2, <2>3, <2>4, CacheAssumption
  <2>6. Times'
    BY <1>3, <2>1 DEF Times
  <2>7. FrontIsOldest'
    <3>. HIDE DEF f, h
    <3>1. ordered => f \in Oldest(h, atime')
      BY <1>2, <1>4 DEF Oldest
    <3>. QED  BY <1>1, <2>1, <3>1 DEF FrontIsOldest
  <2>. QED  BY <1>2, <2>1, <2>2, <2>5, <2>6, <2>7
<1>. QED  BY <1>5, <1>6

\* The invariant holds of the empty cache and every call keeps it.
LEMMA CacheInductive == Spec => []CacheInv
<1>1. Init => CacheInv
  <2>. SUFFICES ASSUME Init PROVE CacheInv
    OBVIOUS
  <2>1. TypeOK /\ heap = {} /\ front = None /\ Cached = {}
    BY CacheAssumption DEF Init, TypeOK, Cached
  <2>. QED  BY <2>1, FS_EmptySet, CacheAssumption
              DEF CacheInv, HeapMatchesMap, Times, FrontIsOldest
<1>2. CacheInv /\ [Next]_vars => CacheInv'
  <2>. SUFFICES ASSUME CacheInv, [Next]_vars PROVE CacheInv'
    OBVIOUS
  <2>1. CASE UNCHANGED vars
    BY <2>1 DEF vars, CacheInv, TypeOK, HeapMatchesMap, Times, FrontIsOldest, Oldest, Cached
  <2>. QED  BY <2>1, GetStep, InvalidateStep, ReplaceStep, InsertStep DEF Next
<1>. QED  BY <1>1, <1>2, PTL DEF Spec

\* For every size of the cache, the vector and the map hold the same entries
\* and no more than the cache was made for.
THEOREM HeapAlwaysMatchesMap == Spec => []HeapMatchesMap
<1>1. CacheInv => HeapMatchesMap
  BY DEF CacheInv
<1>. QED  BY <1>1, CacheInductive, PTL

\* Until an entry is replaced, what the next eviction takes is the entry whose
\* last access is the oldest.
THEOREM FrontAlwaysOldest == Spec => []FrontIsOldest
<1>1. CacheInv => FrontIsOldest
  BY DEF CacheInv
<1>. QED  BY <1>1, CacheInductive, PTL
================================================================================
