----------------------------- MODULE BloomFilter ------------------------------
(***************************************************************************)
(* util::BloomFilter (src/util/bloomfilter.cc): a filter that its owner    *)
(* fills and resets, and the copy that another host makes of it from its   *)
(* serialised form.  The array of bits is the set of positions that are 1; *)
(* Hash stands for the seeded FNV-1a hash, of which nothing is assumed.    *)
(***************************************************************************)
EXTENDS Integers, FiniteSets

CONSTANTS
    Keys,
    Sizes,      \* the sizes, in bits, that reset() is called with
    MaxSize,    \* the largest size that deserialize() takes: 100 * 2^20
    Seeds,      \* the seeds that reset() is called with
    Hash,       \* Hash[k][n]: the hash of the key k with the seed n
    None

ASSUME FilterAssumption ==
    /\ Sizes \subseteq Nat \ {0}
    /\ MaxSize \in Nat
    /\ Seeds \subseteq Nat
    /\ \A k \in Keys, s \in Seeds, i \in 0..5 : Hash[k][s + i] \in Nat

VARIABLES
    filter,     \* the owner's filter
    copy,       \* the other host's
    room,       \* the bytes of the array that copy has
    wire,       \* a serialised filter on its way, or None
    added,      \* the keys that have been set since reset()
    sent,       \* the keys that had been set when wire was serialised
    received    \* the keys that copy must have

vars == <<filter, copy, room, wire, added, sent, received>>
-------------------------------------------------------------------------------
Bytes(size) == (size + 7) \div 8
Header == 8     \* two uint32_t

\* The positions that set() sets for a key, and those that mayContain() tests.
Probes(f, k, count) == {Hash[k][f.seed + i] % f.size : i \in 0..(count - 1)}

\* A mistake in it: one probe too many is made.
MayContainSeven(f, k) == Probes(f, k, 7) \subseteq f.bits

MayContain(f, k) == Probes(f, k, 6) \subseteq f.bits

EmptyFilter(size, seed) == [seed |-> seed, size |-> size, bits |-> {}]

Serialize(f) ==
    [seed |-> f.seed, size |-> f.size, bits |-> f.bits, length |-> Header + Bytes(f.size)]

Accepts(w) ==
    w.length >= Header /\ w.size <= MaxSize /\ w.length = Header + Bytes(w.size)

\* The positions of w's bits that an array of so many bytes does not have.
Beyond(w, bytes) == {p \in 0..(w.size - 1) : p >= 8 * bytes}

\* A mistake in it: the length is not compared with the size, and the bits that
\* are missing are 0.
DeserializeAnyLength(f, w, bytes, stray) ==
    IF w.length < Header THEN f
    ELSE [seed |-> w.seed, size |-> w.size,
          bits |-> ({p \in w.bits : Header + Bytes(p + 1) <= w.length}
                        \ Beyond(w, bytes)) \union stray]

\* A vector that is too long, too short or too large changes nothing.  The bits
\* are copied into the array that is there, whatever its size: those beyond it
\* fall into memory that is not the filter's, and stray is what is read there.
Deserialize(f, w, bytes, stray) ==
    IF Accepts(w) THEN [seed |-> w.seed, size |-> w.size,
                        bits |-> (w.bits \ Beyond(w, bytes)) \union stray]
                  ELSE f
-------------------------------------------------------------------------------
Init ==
    /\ \E size \in Sizes, seed \in Seeds :
          /\ filter = EmptyFilter(size, seed)
          /\ copy = EmptyFilter(size, seed)
          /\ room = Bytes(size)
    /\ wire = None
    /\ added = {} /\ sent = {} /\ received = {}

TypeOK ==
    /\ \A f \in {filter, copy} :
          /\ f.seed \in Seeds /\ f.size \in Sizes
          /\ \A p \in f.bits : p \in 0..(f.size - 1)
    /\ room \in Nat
    /\ added \subseteq Keys /\ sent \subseteq Keys /\ received \subseteq Keys

Reset(size, seed) ==
    /\ filter' = EmptyFilter(size, seed)
    /\ added' = {}
    /\ UNCHANGED <<copy, room, wire, sent, received>>

Set(k) ==
    /\ filter' = [filter EXCEPT !.bits = @ \union Probes(filter, k, 6)]
    /\ added' = added \union {k}
    /\ UNCHANGED <<copy, room, wire, sent, received>>

Send ==
    /\ wire' = Serialize(filter)
    /\ sent' = added
    /\ UNCHANGED <<filter, copy, room, added, received>>

\* The vector loses its tail.
Truncate(length) ==
    /\ wire # None
    /\ length < wire.length
    /\ wire' = [wire EXCEPT !.length = length]
    /\ UNCHANGED <<filter, copy, room, added, sent, received>>

\* What other memory a filter that is too large overwrites is left out.
Receive ==
    /\ wire # None
    /\ \E stray \in IF Accepts(wire) THEN SUBSET Beyond(wire, room) ELSE {{}} :
          copy' = Deserialize(copy, wire, room, stray)
    /\ received' = IF Accepts(wire) THEN sent ELSE received
    /\ wire' = None
    /\ UNCHANGED <<filter, room, added, sent>>

\* The copy constructor and operator=, which allocate a byte for every bit.
Copy ==
    /\ copy' = filter
    /\ room' = filter.size
    /\ received' = added
    /\ UNCHANGED <<filter, wire, added, sent>>

Next ==
    \/ \E size \in Sizes, seed \in Seeds : Reset(size, seed)
    \/ \E k \in Keys : Set(k)
    \/ Send
    \/ wire # None /\ \E length \in 0..(wire.length - 1) : Truncate(length)
    \/ Receive
    \/ Copy

Spec == Init /\ [][Next]_vars
-------------------------------------------------------------------------------
\* There are no false negatives: mayContain() is true of every key that has
\* been set since the last reset(), whatever the hash and the sizes.
NoFalseNegatives == \A k \in added : MayContain(filter, k)

\* The copy's bits lie in the array that it has: nothing was written past it.
Fits == Bytes(copy.size) <= room

\* Neither are there in the copy that another host has, of the keys that were
\* set when the filter it last received whole was serialised: a filter of
\* another seed or size replaces its own in every respect, as long as the array
\* has room for it, and one that has lost its tail changes nothing.
NoFalseNegativesInCopy == Fits => \A k \in received : MayContain(copy, k)
===============================================================================
