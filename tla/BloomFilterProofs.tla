--------------------------- MODULE BloomFilterProofs ---------------------------
(***************************************************************************)
(* Proofs about BloomFilter, for any keys, sizes, seeds and hash function. *)
(* The inductive invariant follows the bits: what holds of the owner's     *)
(* filter holds of the vector on its way and of the copy made from it.     *)
(***************************************************************************)
EXTENDS BloomFilter, TLAPS

\* A filter: every bit that is set lies within its size.
IsFilter(f) ==
    /\ f = [seed |-> f.seed, size |-> f.size, bits |-> f.bits]
    /\ f.seed \in Seeds /\ f.size \in Sizes
    /\ \A p \in f.bits : p \in 0..(f.size - 1)

\* A serialised filter, of which only the length may have been cut.
IsVector(w) ==
    /\ w = [seed |-> w.seed, size |-> w.size, bits |-> w.bits, length |-> w.length]
    /\ w.seed \in Seeds /\ w.size \in Sizes
    /\ \A p \in w.bits : p \in 0..(w.size - 1)

\* TypeOK, the shape of the records, and the same of the vector on its way.
TypeInv ==
    /\ TypeOK
    /\ IsFilter(filter) /\ IsFilter(copy)
    /\ wire # None => IsVector(wire)

\* The vector still has the bits of every key it was sent with.
WireCovers == wire # None => \A k \in sent : MayContain(wire, k)

FilterInv == NoFalseNegatives /\ WireCovers /\ NoFalseNegativesInCopy

\* The array of bytes that reset() and the copy constructor allocate.
LEMMA BytesFacts ==
    ASSUME NEW size \in Sizes
    PROVE  Bytes(size) \in Nat /\ Bytes(size) <= size
<1>1. size \in Nat /\ size >= 1
  BY FilterAssumption
<1>2. ((size + 7) \div 8) \in Nat /\ ((size + 7) \div 8) <= size
  BY <1>1, Z3
<1>. QED  BY <1>2 DEF Bytes

\* The positions that set() writes lie within the filter.
LEMMA ProbesInRange ==
    ASSUME NEW f, IsFilter(f), NEW k \in Keys
    PROVE  \A p \in Probes(f, k, 6) : p \in 0..(f.size - 1)
<1>. SUFFICES ASSUME NEW i \in 0..5
              PROVE  Hash[k][f.seed + i] % f.size \in 0..(f.size - 1)
  BY DEF Probes
<1>1. Hash[k][f.seed + i] \in Nat
  BY FilterAssumption DEF IsFilter
<1>2. f.size \in Nat /\ f.size > 0
  BY FilterAssumption DEF IsFilter
<1>. QED  BY <1>1, <1>2

\* Filters of the same seed and size make the same probes, so that more bits
\* never lose a key.
LEMMA MoreBits ==
    ASSUME NEW f, NEW g, NEW k,
           f.seed = g.seed, f.size = g.size, f.bits \subseteq g.bits, MayContain(f, k)
    PROVE  MayContain(g, k)
  BY DEF MayContain, Probes

\* A filter that fits is copied whole.
LEMMA FittingVector ==
    ASSUME NEW w, w.size \in Sizes, NEW bytes \in Nat, Bytes(w.size) <= bytes
    PROVE  Beyond(w, bytes) = {}
<1>1. w.size \in Nat
  BY FilterAssumption
<1>2. w.size <= 8 * ((w.size + 7) \div 8)
  BY <1>1, Z3
<1>3. w.size <= 8 * bytes
  BY <1>1, <1>2 DEF Bytes
<1>. QED  BY <1>1, <1>3 DEF Beyond

\* Every step keeps the bits of each filter within its size.
LEMMA TypeStep == TypeInv /\ [Next]_vars => TypeInv'
<1>. SUFFICES ASSUME TypeInv, [Next]_vars PROVE TypeInv'
  OBVIOUS
<1>. USE DEF TypeInv, TypeOK
<1>1. ASSUME NEW size \in Sizes, NEW seed \in Seeds, Reset(size, seed)
      PROVE  TypeInv'
  BY <1>1 DEF Reset, EmptyFilter, IsFilter
<1>2. ASSUME NEW key \in Keys, Set(key)
      PROVE  TypeInv'
  <2>1. /\ filter' = [filter EXCEPT !.bits = @ \union Probes(filter, key, 6)]
        /\ added' = added \union {key}
        /\ UNCHANGED <<copy, room, wire, sent, received>>
    BY <1>2 DEF Set
  <2>2. filter' = [seed |-> filter.seed, size |-> filter.size,
                   bits |-> filter.bits \union Probes(filter, key, 6)]
    BY <2>1 DEF IsFilter
  <2>3. IsFilter(filter')
    BY <2>2, ProbesInRange DEF IsFilter
  <2>. QED  BY <2>1, <2>3 DEF IsFilter
<1>3. CASE Send
  <2>1. IsVector(wire')
    BY <1>3 DEF Send, Serialize, IsVector, IsFilter
  <2>. QED  BY <1>3, <2>1 DEF Send
<1>4. ASSUME NEW length, Truncate(length)
      PROVE  TypeInv'
  <2>1. IsVector(wire')
    BY <1>4 DEF Truncate, IsVector
  <2>. QED  BY <1>4, <2>1 DEF Truncate
<1>5. CASE Receive
  <2>1. CASE Accepts(wire)
    <3>1. PICK stray \in SUBSET Beyond(wire, room) :
              copy' = [seed |-> wire.seed, size |-> wire.size,
                       bits |-> (wire.bits \ Beyond(wire, room)) \union stray]
      BY <1>5, <2>1 DEF Receive, Deserialize
    <3>2. IsVector(wire)
      BY <1>5 DEF Receive
    <3>3. \A q \in (wire.bits \ Beyond(wire, room)) \union stray : q \in 0..(wire.size - 1)
      BY <3>2 DEF IsVector, Beyond
    <3>4. IsFilter(copy')
      BY <3>1, <3>2, <3>3 DEF IsFilter, IsVector
    <3>. QED  BY <1>5, <2>1, <3>4 DEF Receive, IsFilter
  <2>2. CASE ~Accepts(wire)
    BY <1>5, <2>2 DEF Receive, Deserialize
  <2>. QED  BY <2>1, <2>2
<1>6. CASE Copy
  <2>1. filter.size \in Nat
    BY FilterAssumption DEF IsFilter
  <2>. QED  BY <1>6, <2>1 DEF Copy
<1>7. CASE UNCHANGED vars
  BY <1>7 DEF vars
<1>. QED  BY <1>1, <1>2, <1>3, <1>4, <1>5, <1>6, <1>7 DEF Next

\* Every step of the owner, the network and the other host keeps the keys.
LEMMA FilterStep == TypeInv /\ FilterInv /\ [Next]_vars => FilterInv'
<1>. SUFFICES ASSUME TypeInv, FilterInv, [Next]_vars PROVE FilterInv'
  OBVIOUS
<1>. USE DEF FilterInv, NoFalseNegatives, WireCovers, NoFalseNegativesInCopy
<1>1. ASSUME NEW size \in Sizes, NEW seed \in Seeds, Reset(size, seed)
      PROVE  FilterInv'
  BY <1>1 DEF Reset, Fits
<1>2. ASSUME NEW key \in Keys, Set(key)
      PROVE  FilterInv'
  <2>1. filter' = [seed |-> filter.seed, size |-> filter.size,
                   bits |-> filter.bits \union Probes(filter, key, 6)]
    BY <1>2 DEF Set, TypeInv, IsFilter
  <2>2. \A k \in added : MayContain(filter', k)
    BY <2>1, MoreBits
  <2>3. MayContain(filter', key)
    BY <2>1 DEF MayContain, Probes
  <2>. QED  BY <1>2, <2>2, <2>3 DEF Set, Fits
<1>3. CASE Send
  <2>1. /\ wire'.seed = filter.seed /\ wire'.size = filter.size
        /\ wire'.bits = filter.bits
    BY <1>3 DEF Send, Serialize
  <2>2. \A k \in added : MayContain(wire', k)
    BY <2>1, MoreBits
  <2>. QED  BY <1>3, <2>2 DEF Send, Fits
<1>4. ASSUME NEW length, Truncate(length)
      PROVE  FilterInv'
  <2>1. /\ wire'.seed = wire.seed /\ wire'.size = wire.size
        /\ wire'.bits = wire.bits
    BY <1>4 DEF Truncate, TypeInv, IsVector
  <2>2. \A k \in sent : MayContain(wire', k)
    BY <1>4, <2>1, MoreBits DEF Truncate
  <2>. QED  BY <1>4, <2>2 DEF Truncate, Fits
<1>5. CASE Receive
  <2>1. CASE Accepts(wire)
    <3>1. PICK stray \in SUBSET Beyond(wire, room) :
              copy' = [seed |-> wire.seed, size |-> wire.size,
                       bits |-> (wire.bits \ Beyond(wire, room)) \union stray]
      BY <1>5, <2>1 DEF Receive, Deserialize
    <3>2. Fits' => Beyond(wire, room) = {}
      BY <1>5, <3>1, FittingVector DEF Receive, Fits, TypeInv, TypeOK, IsVector
    <3>3. Fits' => \A k \in sent : MayContain(copy', k)
      BY <1>5, <3>1, <3>2, MoreBits DEF Receive
    <3>. QED  BY <1>5, <2>1, <3>3 DEF Receive
  <2>2. CASE ~Accepts(wire)
    BY <1>5, <2>2 DEF Receive, Deserialize, Fits
  <2>. QED  BY <2>1, <2>2
<1>6. CASE Copy
  BY <1>6 DEF Copy
<1>7. CASE UNCHANGED vars
  BY <1>7 DEF vars, Fits
<1>. QED  BY <1>1, <1>2, <1>3, <1>4, <1>5, <1>6, <1>7 DEF Next

\* The constructor's empty filters satisfy both.
LEMMA FilterInit == Init => TypeInv /\ FilterInv
<1>. SUFFICES ASSUME Init PROVE TypeInv /\ FilterInv
  OBVIOUS
<1>1. PICK size \in Sizes, seed \in Seeds :
          /\ filter = EmptyFilter(size, seed)
          /\ copy = EmptyFilter(size, seed)
          /\ room = Bytes(size)
  BY DEF Init
<1>2. IsFilter(filter) /\ IsFilter(copy) /\ copy.size = size
  BY <1>1 DEF EmptyFilter, IsFilter
<1>3. room \in Nat
  BY <1>1, BytesFacts
<1>4. wire = None /\ added = {} /\ sent = {} /\ received = {}
  BY DEF Init
<1>. QED  BY <1>2, <1>3, <1>4 DEF TypeInv, TypeOK, IsFilter, FilterInv,
              NoFalseNegatives, WireCovers, NoFalseNegativesInCopy

\* For every hash function, every size and every seed, mayContain() is true of
\* the keys that were set: in the owner's filter ...
THEOREM FilterHasNoFalseNegatives == Spec => []NoFalseNegatives
<1>1. Init => TypeInv /\ FilterInv
  BY FilterInit
<1>2. TypeInv /\ FilterInv /\ [Next]_vars => (TypeInv /\ FilterInv)'
  BY TypeStep, FilterStep
<1>3. FilterInv => NoFalseNegatives
  BY DEF FilterInv
<1>. QED  BY <1>1, <1>2, <1>3, PTL DEF Spec

\* ... and in the copy that deserialize(), operator= or the copy constructor
\* made, through vectors cut short, resets and changes of seed and size, unless
\* deserialize() has written past the array that the copy has.
THEOREM CopyHasNoFalseNegatives == Spec => []NoFalseNegativesInCopy
<1>1. Init => TypeInv /\ FilterInv
  BY FilterInit
<1>2. TypeInv /\ FilterInv /\ [Next]_vars => (TypeInv /\ FilterInv)'
  BY TypeStep, FilterStep
<1>3. FilterInv => NoFalseNegativesInCopy
  BY DEF FilterInv
<1>. QED  BY <1>1, <1>2, <1>3, PTL DEF Spec

\* Where every filter has one size, as it has outside the tests, no step takes
\* the copy beyond its array.
LEMMA FitsStep ==
    ASSUME \A m, n \in Sizes : m = n, TypeInv, Fits, [Next]_vars
    PROVE  Fits'
<1>. USE DEF Fits
<1>1. ASSUME NEW size \in Sizes, NEW seed \in Seeds, Reset(size, seed)
      PROVE  Fits'
  BY <1>1 DEF Reset
<1>2. ASSUME NEW key \in Keys, Set(key)
      PROVE  Fits'
  BY <1>2 DEF Set
<1>3. CASE Send
  BY <1>3 DEF Send
<1>4. ASSUME NEW length, Truncate(length)
      PROVE  Fits'
  BY <1>4 DEF Truncate
<1>5. CASE Receive
  <2>1. copy'.size \in Sizes /\ copy.size \in Sizes
    BY TypeStep DEF TypeInv, TypeOK
  <2>2. copy'.size = copy.size
    BY <2>1
  <2>. QED  BY <1>5, <2>2 DEF Receive
<1>6. CASE Copy
  <2>1. filter.size \in Sizes
    BY DEF TypeInv, TypeOK
  <2>2. Bytes(filter.size) <= filter.size
    BY <2>1, BytesFacts
  <2>. QED  BY <1>6, <2>2 DEF Copy
<1>7. CASE UNCHANGED vars
  BY <1>7 DEF vars
<1>. QED  BY <1>1, <1>2, <1>3, <1>4, <1>5, <1>6, <1>7 DEF Next

\* deserialize() never writes past the array of the copy as long as the hosts
\* use filters of one size, however that array was allocated: reset() and the
\* constructor allocate a byte for eight bits, the copies one for every bit.
THEOREM OneSizeAlwaysFits ==
    ASSUME \A m, n \in Sizes : m = n
    PROVE  Spec => []Fits
<1>1. Init => TypeInv /\ Fits
  <2>. SUFFICES ASSUME Init PROVE Fits
    BY FilterInit
  <2>1. PICK size \in Sizes, seed \in Seeds :
            copy = EmptyFilter(size, seed) /\ room = Bytes(size)
    BY DEF Init
  <2>2. copy.size = size
    BY <2>1 DEF EmptyFilter
  <2>3. Bytes(size) \in Nat
    BY BytesFacts
  <2>. QED  BY <2>1, <2>2, <2>3 DEF Fits
<1>2. TypeInv /\ Fits /\ [Next]_vars => (TypeInv /\ Fits)'
  BY TypeStep, FitsStep
<1>. QED  BY <1>1, <1>2, PTL DEF Spec
================================================================================
