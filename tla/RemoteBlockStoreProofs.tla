------------------------ MODULE RemoteBlockStoreProofs ------------------------
(***************************************************************************)
(* Proofs about RemoteBlockStore, for any stores, keys, calls and block    *)
(* size: a getBlock invents nothing, and returns what was put.             *)
(***************************************************************************)
EXTENDS RemoteBlockStore, TLAPS

Shape ==
    /\ ran \subseteq Calls
    /\ result \in [Calls -> {"idle", "pending", "answered", "failed"}]
    /\ dir \in [Stores -> [Keys -> Calls \union {None}]]
    /\ content \in [Calls -> Seq(Nat)]
    /\ opened \in [Calls -> Calls \union {None}]
    /\ DOMAIN returned = Calls /\ DOMAIN value = Calls
    /\ before \in [Calls -> SUBSET Calls]

\* A function runs after its call was issued, and returns after it has begun; a
\* Future is set by the response, which follows the return, or by a failure.
Stage(f) ==
    /\ f \in ran => result[f] # "idle"
    /\ f \notin ran => returned[f] = Unset /\ opened[f] = None
    /\ result[f] \in {"idle", "pending"} => value[f] = Unset
    /\ result[f] = "answered" => /\ f \in ran /\ returned[f] # Unset
                                 /\ value[f] = Convert(f, returned[f])
    /\ result[f] = "failed" => /\ IsPut(f) => value[f] = FALSE
                               /\ IsGet(f) => value[f] = None
Stages == \A f \in Calls : Stage(f)

\* The files that are found and opened are files of the block.
Places ==
    \A f \in Calls : /\ FileOf(f) # None => SameBlock(FileOf(f), f)
                     /\ opened[f] # None => SameBlock(opened[f], f)

\* v is made of bytes of the puts in S; v is a part of one of their blocks.
Bytes(S, v) ==
    \A i \in DOMAIN v : \E h \in S : i \in DOMAIN OpOf[h].data /\ OpOf[h].data[i] = v[i]
Part(S, v) == v = <<>> \/ \E h \in S : v \in Prefixes(OpOf[h].data)

\* A put that has the file open has no more data than a block; unless puts have
\* raced there, it is alone and the file is empty.
Writing ==
    /\ \A f \in Calls : IsPut(f) /\ opened[f] # None /\ returned[f] = Unset =>
          Len(OpOf[f].data) <= BlockSize
    /\ \A c \in Calls \ raced : \A u, w \in Writers(c) : u = w /\ content[c] = <<>>

Genuine ==
    \A c \in Calls : /\ Bytes(Sources(c), content[c])
                     /\ c \notin raced => Part(Sources(c), content[c])

\* v is what a get may have read.
IsRead(g, v) ==
    /\ Bytes(Sources(g), v)
    /\ opened[g] \notin raced => Part(Sources(g), v)

\* What getBlock's helper sends, and what getBlock's Future is set to.
Sent ==
    \A g \in Calls : IsGet(g) =>
        /\ returned[g] # Unset => IsRead(g, returned[g])
        /\ value[g] \notin {Unset, None} => value[g] # <<>> /\ IsRead(g, value[g])

\* Who had been answered when a call was made has been answered.
Order == \A g \in Calls : \A f \in before[g] : Rival(f, g) /\ result[f] = "answered"

\* The block of a put stays as the put leaves it, until another call touches it.
Kept ==
    \A f \in Calls : IsPut(f) /\ Undisturbed(f) =>
        /\ opened[f] # None /\ returned[f] = Unset =>
              FileOf(f) = opened[f] /\ content[opened[f]] = <<>>
        /\ returned[f] = TRUE =>
              /\ opened[f] # None /\ FileOf(f) = opened[f]
              /\ content[opened[f]] = OpOf[f].data /\ Len(OpOf[f].data) = BlockSize

\* A getBlock that is called after such a put opens its file and finds its block.
Found ==
    \A g, f \in Calls : Stored(g, f) =>
        /\ g \in ran => opened[g] = opened[f]
        /\ returned[g] # Unset => returned[g] = OpOf[f].data

IInv == Shape /\ Stages /\ Places /\ Writing /\ Genuine /\ Sent /\ Order /\ Kept /\ Found
-------------------------------------------------------------------------------
(***************************************************************************)
(* Blocks and bytes.                                                       *)
(***************************************************************************)
LEMMA OpFacts ==
    ASSUME NEW f \in Calls
    PROVE  /\ OpOf[f].bsid \in Stores /\ OpOf[f].key \in Keys
           /\ OpOf[f].data \in Seq(Nat) /\ Len(OpOf[f].data) \in Nat
           /\ BlockSize \in Nat /\ BlockSize > 0
           /\ None \notin Calls /\ Unset # TRUE /\ Unset # FALSE
<1>1. OpOf[f].data \in Seq(Nat)
  BY Zenon, RemoteAssumption
<1>2. Len(OpOf[f].data) \in Nat
  BY <1>1
<1>3. BlockSize \in Nat /\ BlockSize > 0
  BY RemoteAssumption
<1>. QED  BY Zenon, <1>1, <1>2, <1>3, RemoteAssumption

\* What is so of few puts is so of more of them.
LEMMA More ==
    ASSUME NEW S, NEW T, S \subseteq T, NEW v
    PROVE  (Bytes(S, v) => Bytes(T, v)) /\ (Part(S, v) => Part(T, v))
  BY Zenon DEF Bytes, Part

LEMMA Grown ==
    ASSUME ran \subseteq ran'
    PROVE  \A f \in Calls : Sources(f) \subseteq Sources(f)'
  BY Zenon DEF Sources

\* Calls on the same block have the same sources.
LEMMA SameSources ==
    ASSUME NEW f \in Calls, NEW g \in Calls, SameBlock(f, g)
    PROVE  Sources(f) = Sources(g)
  BY Zenon DEF Sources, SameBlock

LEMMA LinkFacts ==
    ASSUME Shape, NEW f \in Calls, NEW c \in Calls \union {None}, Link(f, c)
    PROVE  /\ dir' \in [Stores -> [Keys -> Calls \union {None}]]
           /\ \A g \in Calls : FileOf(g)' = IF SameBlock(f, g) THEN c ELSE FileOf(g)
<1>1. OpOf[f].bsid \in Stores /\ OpOf[f].key \in Keys
  BY Zenon, OpFacts
<1>2. dir' = [dir EXCEPT ![OpOf[f].bsid][OpOf[f].key] = c]
  BY Zenon DEF Link
<1>3. dir' \in [Stores -> [Keys -> Calls \union {None}]]
  BY Zenon, <1>1, <1>2 DEF Shape
<1>4. ASSUME NEW g \in Calls
      PROVE  FileOf(g)' = IF SameBlock(f, g) THEN c ELSE FileOf(g)
  <2>1. OpOf[g].bsid \in Stores /\ OpOf[g].key \in Keys
    BY Zenon, OpFacts
  <2>. QED  BY Zenon, <1>1, <1>2, <2>1 DEF Shape, FileOf, SameBlock
<1>. QED  BY Zenon, <1>3, <1>4

LEMMA FileType ==
    ASSUME Shape, NEW f \in Calls
    PROVE  FileOf(f) \in Calls \union {None} /\ opened[f] \in Calls \union {None}
<1>1. OpOf[f].bsid \in Stores /\ OpOf[f].key \in Keys
  BY Zenon, OpFacts
<1>2. dir[OpOf[f].bsid] \in [Keys -> Calls \union {None}]
  BY Zenon, <1>1 DEF Shape
<1>3. dir[OpOf[f].bsid][OpOf[f].key] \in Calls \union {None}
  BY Zenon, <1>1, <1>2
<1>4. opened[f] \in Calls \union {None}
  BY Zenon DEF Shape
<1>. QED  BY Zenon, <1>3, <1>4 DEF FileOf

LEMMA Concat ==
    ASSUME NEW a \in Seq(Nat), NEW b \in Seq(Nat)
    PROVE  /\ a \o b \in Seq(Nat) /\ Len(a \o b) = Len(a) + Len(b)
           /\ Len(a) \in Nat /\ Len(b) \in Nat
           /\ \A i \in 1..(Len(a) + Len(b)) :
                 (a \o b)[i] = IF i <= Len(a) THEN a[i] ELSE b[i - Len(a)]
  OBVIOUS

\* A write puts a part of one block over what is there.
LEMMA OverlayFacts ==
    ASSUME NEW b \in Seq(Nat), NEW d \in Seq(Nat), NEW n \in 0..Len(d)
    PROVE  /\ Overlay(b, d, n) \in Seq(Nat)
           /\ \A i \in DOMAIN Overlay(b, d, n) :
                 \/ i \in DOMAIN d /\ Overlay(b, d, n)[i] = d[i]
                 \/ i \in DOMAIN b /\ Overlay(b, d, n)[i] = b[i]
           /\ b = <<>> => Overlay(b, d, n) \in Prefixes(d)
           /\ b = <<>> /\ n = Len(d) => Overlay(b, d, n) = d
<1>. DEFINE a == SubSeq(d, 1, n)
            r == SubSeq(b, n + 1, Len(b))
<1>1. Len(b) \in Nat /\ Len(d) \in Nat /\ n \in Nat /\ n <= Len(d)
      /\ DOMAIN b = 1..Len(b) /\ DOMAIN d = 1..Len(d)
  OBVIOUS
<1>2. a \in Seq(Nat) /\ Len(a) = n /\ \A i \in 1..n : a[i] = d[i]
  BY <1>1
<1>3. r \in Seq(Nat) /\ Len(r) = IF n < Len(b) THEN Len(b) - n ELSE 0
  BY <1>1
<1>4. \A i \in 1..Len(r) : r[i] = b[n + i]
  BY <1>1, <1>3
<1>5. Overlay(b, d, n) = a \o r
  BY Zenon DEF Overlay
<1>. HIDE DEF a, r
<1>6. /\ a \o r \in Seq(Nat) /\ Len(a \o r) = n + Len(r) /\ Len(r) \in Nat
      /\ \A i \in 1..(n + Len(r)) : (a \o r)[i] = IF i <= n THEN a[i] ELSE r[i - n]
  BY Zenon, <1>2, <1>3, Concat
<1>10. DOMAIN (a \o r) = 1..(n + Len(r))
  BY <1>6
<1>7. ASSUME NEW i \in DOMAIN (a \o r)
      PROVE  \/ i \in DOMAIN d /\ (a \o r)[i] = d[i]
             \/ i \in DOMAIN b /\ (a \o r)[i] = b[i]
  <2>1. i \in 1..(n + Len(r))
    BY Zenon, <1>10
  <2>2. CASE i <= n
    <3>1. i \in 1..n /\ i \in 1..Len(d)
      BY <1>1, <1>6, <2>1, <2>2
    <3>. QED  BY <1>1, <1>2, <1>6, <2>1, <2>2, <3>1
  <2>3. CASE ~(i <= n)
    <3>0. i \in Int /\ n \in Nat /\ i > n /\ i <= n + Len(r)
      BY <1>1, <1>6, <2>1, <2>3
    <3>1. i - n \in 1..Len(r) /\ n + (i - n) = i /\ i \in 1..Len(b)
      <4>2. n < Len(b)
        <5>1. CASE ~(n < Len(b))
          <6>1. Len(r) = 0
            BY Zenon, <1>3, <5>1
          <6>. QED  BY <3>0, <6>1
        <5>. QED  BY Zenon, <5>1
      <4>1. n < Len(b) /\ Len(r) = Len(b) - n
        BY Zenon, <1>3, <4>2
      <4>3. Len(r) \in Nat /\ Len(b) \in Nat
        BY <1>1, <1>6
      <4>. QED  BY SMTT(60), <3>0, <4>1, <4>3
    <3>2. (a \o r)[i] = r[i - n]
      BY <1>6, <2>1, <2>3
    <3>3. r[i - n] = b[i]
      BY <1>4, <3>1
    <3>. QED  BY <1>1, <3>1, <3>2, <3>3
  <2>. QED  BY Zenon, <2>2, <2>3
<1>8. ASSUME b = <<>>
      PROVE  a \o r = a
  <2>1. r = <<>>
    BY <1>1, <1>3, <1>8
  <2>. QED  BY <1>2, <2>1
<1>9. a \in Prefixes(d) /\ (n = Len(d) => a = d)
  <2>1. a \in Prefixes(d)
    BY Zenon DEF a, Prefixes
  <2>2. SubSeq(d, 1, Len(d)) = d
    OBVIOUS
  <2>. QED  BY Zenon, <2>1, <2>2 DEF a
<1>. QED  BY Zenon, <1>5, <1>6, <1>7, <1>8, <1>9

\* A read returns a part of what is there, and all of a block.
LEMMA ReadFacts ==
    ASSUME NEW b \in Seq(Nat)
    PROVE  /\ \A i \in DOMAIN ReadBlock(b) : i \in DOMAIN b /\ ReadBlock(b)[i] = b[i]
           /\ \A d \in Seq(Nat) : b \in Prefixes(d) => ReadBlock(b) \in Prefixes(d)
           /\ b = <<>> => ReadBlock(b) = <<>>
           /\ Len(b) = BlockSize => ReadBlock(b) = b
<1>. DEFINE m == Min({BlockSize, Len(b)})
<1>1. BlockSize \in Nat /\ BlockSize > 0 /\ Len(b) \in Nat
  BY RemoteAssumption
<1>2. m \in 0..Len(b) /\ (Len(b) = BlockSize => m = Len(b))
  BY <1>1 DEF Min
<1>3. ReadBlock(b) = SubSeq(b, 1, m)
  BY Zenon DEF ReadBlock
<1>. HIDE DEF m
<1>4. \A i \in DOMAIN SubSeq(b, 1, m) : i \in DOMAIN b /\ SubSeq(b, 1, m)[i] = b[i]
  BY <1>1, <1>2
<1>5. ASSUME NEW d \in Seq(Nat), b \in Prefixes(d)
      PROVE  SubSeq(b, 1, m) \in Prefixes(d)
  <2>1. PICK n \in 0..Len(d) : b = SubSeq(d, 1, n)
    BY Zenon, <1>5 DEF Prefixes
  <2>2. Len(b) = n /\ m \in 0..Len(d)
    BY <1>2, <2>1
  <2>3. SubSeq(b, 1, m) = SubSeq(d, 1, m)
    BY <1>2, <2>1, <2>2
  <2>. QED  BY Zenon, <2>2, <2>3 DEF Prefixes
<1>6. b = <<>> => SubSeq(b, 1, m) = <<>>
  BY <1>2
<1>7. Len(b) = BlockSize => SubSeq(b, 1, m) = b
  BY <1>1, <1>2
<1>. QED  BY Zenon, <1>3, <1>4, <1>5, <1>6, <1>7
-------------------------------------------------------------------------------
(***************************************************************************)
(* The steps.                                                              *)
(***************************************************************************)
LEMMA InitIInv == Init => IInv
<1>. SUFFICES ASSUME Init PROVE IInv
  BY Zenon
<1>. USE DEF Init, SInit
<1>0. <<>> \in Seq(Nat) /\ DOMAIN <<>> = {}
  OBVIOUS
<1>1. Shape
  BY Zenon, <1>0 DEF Shape
<1>2. Stages
  BY Zenon DEF Stages, Stage
<1>3. Places
  <2>1. \A f \in Calls : FileOf(f) = None
    BY Zenon, OpFacts DEF FileOf
  <2>. QED  BY Zenon, <2>1 DEF Places
<1>4. Writing
  BY Zenon, OpFacts DEF Writing, Writers
<1>5. Genuine
  BY Zenon, <1>0 DEF Genuine, Bytes, Part
<1>6. Sent /\ Order
  BY Zenon DEF Sent, Order
<1>7. Kept /\ Found
  BY Zenon, OpFacts DEF Kept, Found
<1>. QED  BY Zenon, <1>1, <1>2, <1>3, <1>4, <1>5, <1>6, <1>7 DEF IInv

\* A call that may touch f's block, but has been answered, has no step left.
LEMMA Settled ==
    ASSUME IInv, NEW f \in Calls, Undisturbed(f),
           NEW h \in Calls, Rival(h, f), result[h] # "idle"
    PROVE  h \in ran /\ returned[h] # Unset
  BY Zenon DEF IInv, Undisturbed, Order, Stages, Stage

\* Nothing that the server does tells the client anything.
LEMMA ServerFrame ==
    ASSUME IInv, UNCHANGED <<result, value, before>>
    PROVE  /\ \A f \in Calls : Undisturbed(f)' <=> Undisturbed(f)
           /\ \A g, f \in Calls : Stored(g, f)' <=> Stored(g, f)
           /\ Order'
  BY Zenon DEF IInv, Undisturbed, Stored, Order

LEMMA ServerStages ==
    ASSUME Stages, UNCHANGED <<result, value>>, NEW f \in Calls,
           ran' = ran \union {f}, result[f] # "idle", returned[f] = Unset,
           \A h \in Calls \ {f} : returned'[h] = returned[h] /\ opened'[h] = opened[h]
    PROVE  Stages'
<1>1. ASSUME NEW h \in Calls
      PROVE  Stage(h)'
  <2>1. Stage(h)
    BY Zenon DEF Stages
  <2>2. CASE h = f
    <3>1. result[f] # "answered" /\ f \in ran'
      BY Zenon, <2>1, <2>2 DEF Stage
    <3>. QED  BY Zenon, <2>1, <2>2, <3>1 DEF Stage
  <2>3. CASE h # f
    <3>1. returned'[h] = returned[h] /\ opened'[h] = opened[h] /\ (h \in ran' <=> h \in ran)
      BY Zenon, <2>3
    <3>. QED  BY Zenon, <2>1, <3>1 DEF Stage, Convert
  <2>. QED  BY Zenon, <2>2, <2>3
<1>. QED  BY Zenon, <1>1 DEF Stages

\* What was read stays so, unless the file is found to have been raced for.
LEMMA StillRead ==
    ASSUME NEW g \in Calls, NEW v, IsRead(g, v), ran \subseteq ran', raced \subseteq raced',
           opened'[g] = opened[g]
    PROVE  IsRead(g, v)'
<1>1. Sources(g) \subseteq Sources(g)'
  BY Zenon, Grown
<1>. QED  BY Zenon, <1>1, More DEF IsRead

\* A put that is refused, a removal and the functions that only look.
LEMMA ReplyStep ==
    ASSUME IInv, NEW f \in Calls, ~IsGet(f), Run(f), NEW v, Return(f, v),
           IsPut(f) => v = FALSE,
           dir' = dir \/ (OpOf[f].method = "removeBlock" /\ Link(f, None)),
           UNCHANGED <<content, opened, value, before, raced>>
    PROVE  IInv'
<1>. USE DEF IInv
<1>1. /\ result[f] # "idle" /\ f \notin ran /\ ran' = ran \union {f} /\ result' = result
      /\ returned' = [returned EXCEPT ![f] = v]
      /\ opened[f] = None /\ returned[f] = Unset
  BY Zenon DEF Run, Return, Stages, Stage
<1>2. /\ dir' \in [Stores -> [Keys -> Calls \union {None}]]
      /\ \A g \in Calls : \/ FileOf(g)' = FileOf(g)
                          \/ /\ OpOf[f].method = "removeBlock" /\ SameBlock(f, g)
                             /\ FileOf(g)' = None
  <2>1. CASE dir' = dir
    BY Zenon, <2>1 DEF Shape, FileOf
  <2>2. CASE OpOf[f].method = "removeBlock" /\ Link(f, None)
    BY Zenon, <2>2, LinkFacts
  <2>. QED  BY Zenon, <2>1, <2>2
<1>3. Shape'
  BY Zenon, <1>1, <1>2 DEF Shape
<1>4. Stages'
  <2>1. \A h \in Calls \ {f} : returned'[h] = returned[h] /\ opened'[h] = opened[h]
    BY Zenon, <1>1 DEF Shape
  <2>. QED  BY Zenon, <1>1, <2>1, ServerStages
<1>5. Places'
  BY Zenon, <1>2 DEF Places
<1>6. /\ \A h \in Calls \ {f} : returned'[h] = returned[h]
      /\ returned'[f] = v /\ (IsPut(f) => returned'[f] # TRUE)
  BY <1>1 DEF Shape
<1>7. Writing'
  <2>1. \A c \in Calls : Writers(c)' \subseteq Writers(c)
    BY Zenon, <1>1, <1>6, OpFacts DEF Writers
  <2>2. \A h \in Calls : opened'[h] # None /\ returned'[h] = Unset => returned[h] = Unset
    BY Zenon, <1>1, <1>6
  <2>. QED  BY ZenonT(60), <2>1, <2>2 DEF Writing
<1>8. ran \subseteq ran' /\ raced \subseteq raced'
  BY Zenon, <1>1
<1>9. Genuine'
  BY Zenon, <1>8, Grown, More DEF Genuine
<1>10. Sent'
  BY Zenon, <1>6, <1>8, StillRead DEF Sent
<1>11. Order' /\ (\A h \in Calls : Undisturbed(h)' <=> Undisturbed(h))
              /\ \A g, h \in Calls : Stored(g, h)' <=> Stored(g, h)
  BY Zenon, <1>1, ServerFrame
<1>12. Kept'
  <2>. SUFFICES ASSUME NEW h \in Calls, IsPut(h), Undisturbed(h), h # f
                PROVE  FileOf(h)' = FileOf(h)
    BY Zenon, <1>1, <1>6, <1>11 DEF Kept
  <2>1. ~(OpOf[f].method = "removeBlock" /\ SameBlock(f, h))
    BY Zenon, <1>1, Settled DEF Rival
  <2>. QED  BY Zenon, <1>2, <2>1
<1>13. Found'
  <2>. SUFFICES ASSUME NEW g \in Calls, NEW h \in Calls, Stored(g, h)
                PROVE  /\ g \in ran' => opened[g] = opened[h]
                       /\ returned'[g] # Unset => returned'[g] = OpOf[h].data
    BY Zenon, <1>11 DEF Found
  <2>1. g # f
    BY Zenon DEF Stored
  <2>. QED  BY Zenon, <1>1, <1>6, <2>1 DEF Found
<1>. QED  BY Zenon, <1>3, <1>4, <1>5, <1>7, <1>9, <1>10, <1>11, <1>12, <1>13

\* A put opens its file: it is empty then, and no other put is undisturbed.
LEMMA PutOpenStep == ASSUME IInv, NEW f \in Calls, PutOpen(f) PROVE IInv'
<1>. USE DEF IInv
<1>. DEFINE file == IF FileOf(f) = None THEN f ELSE FileOf(f)
            tooBig == Len(OpOf[f].data) > BlockSize
<1>0. /\ IsPut(f) /\ result[f] # "idle" /\ f \notin ran /\ ran' = ran \union {f}
      /\ UNCHANGED <<result, value, before>>
      /\ Link(f, file) /\ content' = [content EXCEPT ![file] = <<>>]
      /\ opened' = [opened EXCEPT ![f] = file]
      /\ returned' = IF tooBig THEN [returned EXCEPT ![f] = FALSE] ELSE returned
      /\ raced' = IF tooBig \/ Writers(file) = {} THEN raced ELSE raced \union {file}
  BY Zenon DEF PutOpen, Run, Truncated
<1>1. PICK c \in Calls : c = file /\ SameBlock(c, f)
  <2>1. FileOf(f) \in Calls \union {None}
    BY Zenon, FileType
  <2>. QED  BY Zenon, <2>1 DEF Places, SameBlock
<1>. HIDE DEF file
<1>2. opened[f] = None /\ returned[f] = Unset /\ None \notin Calls /\ <<>> \in Seq(Nat)
  <2>1. <<>> \in Seq(Nat)
    OBVIOUS
  <2>. QED  BY Zenon, <1>0, <2>1, OpFacts DEF Stages, Stage
<1>3. /\ dir' \in [Stores -> [Keys -> Calls \union {None}]]
      /\ \A g \in Calls : FileOf(g)' = IF SameBlock(f, g) THEN c ELSE FileOf(g)
  BY Zenon, <1>0, <1>1, LinkFacts
<1>4. /\ content'[c] = <<>> /\ \A h \in Calls \ {c} : content'[h] = content[h]
      /\ opened'[f] = c /\ \A h \in Calls \ {f} : opened'[h] = opened[h]
      /\ returned'[f] = IF tooBig THEN FALSE ELSE Unset
      /\ \A h \in Calls \ {f} : returned'[h] = returned[h]
  BY Zenon, <1>0, <1>1, <1>2 DEF Shape
<1>5. Shape'
  BY Zenon, <1>0, <1>1, <1>2, <1>3 DEF Shape
<1>6. Stages'
  BY Zenon, <1>0, <1>2, <1>4, ServerStages
<1>7. Places'
  <2>. SUFFICES ASSUME NEW g \in Calls
                PROVE  /\ FileOf(g)' # None => SameBlock(FileOf(g)', g)
                       /\ opened'[g] # None => SameBlock(opened'[g], g)
    BY Zenon DEF Places, SameBlock
  <2>1. CASE SameBlock(f, g)
    <3>1. FileOf(g)' = c /\ SameBlock(c, g)
      BY Zenon, <1>1, <1>3, <2>1 DEF SameBlock
    <3>. QED  BY Zenon, <1>4, <3>1 DEF Places
  <2>2. CASE ~SameBlock(f, g)
    <3>1. FileOf(g)' = FileOf(g) /\ g # f
      BY Zenon, <1>3, <2>2 DEF SameBlock
    <3>. QED  BY Zenon, <1>4, <3>1 DEF Places
  <2>. QED  BY Zenon, <2>1, <2>2
<1>8. ran \subseteq ran' /\ raced \subseteq raced'
  BY Zenon, <1>0
<1>9. Writing'
  <2>1. ASSUME NEW h \in Calls, IsPut(h), opened'[h] # None, returned'[h] = Unset
        PROVE  Len(OpOf[h].data) <= BlockSize
    <3>1. CASE h = f
      <4>1. ~tooBig
        BY Zenon, <1>4, <2>1, <3>1, OpFacts
      <4>2. Len(OpOf[f].data) \in Nat /\ BlockSize \in Nat
        BY Zenon, OpFacts
      <4>. QED  BY <3>1, <4>1, <4>2
    <3>2. CASE h # f
      BY Zenon, <1>4, <2>1, <3>2 DEF Writing
    <3>. QED  BY Zenon, <3>1, <3>2
  <2>2. ASSUME NEW e \in Calls \ raced', NEW u \in Writers(e)', NEW w \in Writers(e)'
        PROVE  u = w /\ content'[e] = <<>>
    <3>1. CASE e = c
      <4>1. CASE tooBig
        <5>1. u # f /\ w # f
          BY Zenon, <1>4, <4>1, OpFacts DEF Writers
        <5>2. u \in Writers(c) /\ w \in Writers(c) /\ c \in Calls \ raced
          BY Zenon, <1>4, <1>8, <2>2, <3>1, <5>1 DEF Writers
        <5>3. u = w
          BY Zenon, <5>2 DEF Writing
        <5>. QED  BY Zenon, <1>4, <3>1, <5>3
      <4>2. CASE ~tooBig
        <5>1. Writers(c) = {}
          BY Zenon, <1>0, <1>1, <2>2, <3>1, <4>2
        <5>2. u = f /\ w = f
          BY Zenon, <1>4, <3>1, <5>1 DEF Writers
        <5>. QED  BY Zenon, <1>4, <3>1, <5>2
      <4>. QED  BY Zenon, <4>1, <4>2
    <3>2. CASE e # c
      <4>1. u \in Writers(e) /\ w \in Writers(e) /\ e \notin raced
        BY Zenon, <1>4, <1>8, <2>2, <3>2 DEF Writers
      <4>. QED  BY Zenon, <1>4, <3>2, <4>1 DEF Writing
    <3>. QED  BY Zenon, <3>1, <3>2
  <2>. QED  BY Zenon, <2>1, <2>2 DEF Writing
<1>10. Genuine'
  <2>. SUFFICES ASSUME NEW e \in Calls
                PROVE  /\ Bytes(Sources(e)', content'[e])
                       /\ e \notin raced' => Part(Sources(e)', content'[e])
    BY Zenon DEF Genuine
  <2>1. CASE e = c
    <3>1. DOMAIN <<>> = {}
      OBVIOUS
    <3>. QED  BY Zenon, <1>4, <2>1, <3>1 DEF Bytes, Part
  <2>2. CASE e # c
    BY Zenon, <1>4, <1>8, <2>2, Grown, More DEF Genuine
  <2>. QED  BY Zenon, <2>1, <2>2
<1>11. Sent'
  <2>. SUFFICES ASSUME NEW g \in Calls, IsGet(g)
                PROVE  g # f
    BY Zenon, <1>0, <1>4, <1>8, StillRead DEF Sent
  <2>. QED  BY Zenon, <1>0 DEF IsGet, IsPut
<1>12. Order' /\ (\A h \in Calls : Undisturbed(h)' <=> Undisturbed(h))
              /\ \A g, h \in Calls : Stored(g, h)' <=> Stored(g, h)
  BY Zenon, <1>0, ServerFrame
<1>13. ASSUME NEW h \in Calls, IsPut(h), Undisturbed(h), h # f
       PROVE  FileOf(h)' = FileOf(h) /\ opened[h] # c
  <2>1. ~SameBlock(f, h)
    BY Zenon, <1>0, <1>13, Settled DEF Rival, IsPut
  <2>. QED  BY Zenon, <1>1, <1>2, <1>3, <2>1 DEF Places, SameBlock
<1>14. Kept'
  <2>1. /\ FileOf(f)' = opened'[f] /\ content'[opened'[f]] = <<>>
        /\ returned'[f] # TRUE
    BY Zenon, <1>3, <1>4, OpFacts DEF SameBlock
  <2>2. ASSUME NEW h \in Calls, IsPut(h), Undisturbed(h), h # f
        PROVE  /\ FileOf(h)' = FileOf(h) /\ opened'[h] = opened[h] /\ returned'[h] = returned[h]
               /\ opened[h] # None => content'[opened[h]] = content[opened[h]]
    <3>1. opened[h] \in Calls \union {None}
      BY Zenon, FileType
    <3>. QED  BY Zenon, <1>4, <1>13, <2>2, <3>1
  <2>. QED  BY Zenon, <1>12, <2>1, <2>2 DEF Kept
<1>15. Found'
  <2>. SUFFICES ASSUME NEW g \in Calls, NEW h \in Calls, Stored(g, h)
                PROVE  /\ g \in ran' => opened'[g] = opened'[h]
                       /\ returned'[g] # Unset => returned'[g] = OpOf[h].data
    BY Zenon, <1>12 DEF Found
  <2>1. g # f /\ h # f
    BY Zenon, <1>0 DEF Stored, IsGet, IsPut, Order, Stages, Stage
  <2>2. /\ opened'[g] = opened[g] /\ opened'[h] = opened[h] /\ returned'[g] = returned[g]
        /\ g \in ran' => g \in ran
    BY Zenon, <1>0, <1>4, <2>1
  <2>3. /\ g \in ran => opened[g] = opened[h]
        /\ returned[g] # Unset => returned[g] = OpOf[h].data
    BY Zenon DEF Found
  <2>. QED  BY Zenon, <2>2, <2>3
<1>. QED  BY Zenon, <1>5, <1>6, <1>7, <1>9, <1>10, <1>11, <1>12, <1>14, <1>15

\* A put writes: a part of its block if the file was empty, and else over what
\* another has written there.
LEMMA PutWriteStep == ASSUME IInv, NEW f \in Calls, PutWrite(f) PROVE IInv'
<1>. USE DEF IInv
<1>1. /\ IsPut(f) /\ opened[f] # None /\ returned[f] = Unset /\ f \in Writers(opened[f])
      /\ UNCHANGED <<ran, result, dir, opened, value, before, raced>>
  BY Zenon DEF PutWrite, Writers
<1>2. PICK n \in 0..Len(OpOf[f].data) :
         /\ content' = [content EXCEPT ![opened[f]] = Overlay(@, OpOf[f].data, n)]
         /\ returned' = [returned EXCEPT ![f] = (n = BlockSize)]
  BY Zenon DEF PutWrite, Return
<1>3. PICK c \in Calls : c = opened[f] /\ SameBlock(c, f)
  BY Zenon, <1>1, FileType DEF Places
<1>4. f \in ran /\ result[f] # "idle" /\ Len(OpOf[f].data) <= BlockSize
  BY Zenon, <1>1 DEF Stages, Stage, Writing
<1>. DEFINE new == Overlay(content[c], OpOf[f].data, n)
<1>5. /\ content'[c] = new /\ \A h \in Calls \ {c} : content'[h] = content[h]
      /\ returned'[f] = (n = BlockSize) /\ returned'[f] # Unset
      /\ \A h \in Calls \ {f} : returned'[h] = returned[h]
  <2>1. (n = BlockSize) \in BOOLEAN
    BY Zenon
  <2>. QED  BY Zenon, <1>2, <1>3, <2>1, RemoteAssumption DEF Shape
<1>6. content[c] \in Seq(Nat) /\ OpOf[f].data \in Seq(Nat)
  BY Zenon, OpFacts DEF Shape
<1>7. /\ new \in Seq(Nat)
      /\ \A i \in DOMAIN new : \/ i \in DOMAIN OpOf[f].data /\ new[i] = OpOf[f].data[i]
                               \/ i \in DOMAIN content[c] /\ new[i] = content[c][i]
      /\ content[c] = <<>> => new \in Prefixes(OpOf[f].data)
      /\ content[c] = <<>> /\ n = Len(OpOf[f].data) => new = OpOf[f].data
  BY Zenon, <1>6, OverlayFacts
<1>. HIDE DEF new
<1>8. Shape'
  BY Zenon, <1>1, <1>2, <1>3, <1>7 DEF Shape, new
<1>9. Stages'
  <2>1. ran' = ran \union {f}
    BY <1>1, <1>4
  <2>. QED  BY Zenon, <1>1, <1>4, <1>5, <2>1, ServerStages
<1>10. Places'
  BY Zenon, <1>1 DEF Places, FileOf
<1>11. Writing'
  <2>1. \A e \in Calls : Writers(e)' \subseteq Writers(e) /\ f \notin Writers(e)'
    BY Zenon, <1>1, <1>5 DEF Writers
  <2>2. \A h \in Calls : returned'[h] = Unset => returned[h] = Unset
    BY Zenon, <1>5
  <2>3. ASSUME NEW e \in Calls \ raced', NEW u \in Writers(e)', NEW w \in Writers(e)'
        PROVE  u = w /\ content'[e] = <<>>
    <3>1. u \in Writers(e) /\ w \in Writers(e) /\ u # f /\ e \notin raced
      BY Zenon, <1>1, <2>1
    <3>2. e # c
      BY Zenon, <1>1, <1>3, <3>1 DEF Writing
    <3>. QED  BY Zenon, <1>5, <3>1, <3>2 DEF Writing
  <2>. QED  BY Zenon, <1>1, <2>2, <2>3 DEF Writing
<1>12. Genuine'
  <2>1. f \in Sources(c)
    BY Zenon, <1>1, <1>3, <1>4 DEF Sources, SameBlock
  <2>2. \A e \in Calls : Sources(e)' = Sources(e)
    BY Zenon, <1>1 DEF Sources
  <2>3. Bytes(Sources(c), new)
    BY Zenon, <1>7, <2>1 DEF Genuine, Bytes
  <2>4. c \notin raced => Part(Sources(c), new)
    <3>1. c \notin raced => content[c] = <<>>
      BY Zenon, <1>1, <1>3 DEF Writing
    <3>. QED  BY Zenon, <1>7, <2>1, <3>1 DEF Part
  <2>. QED  BY Zenon, <1>1, <1>5, <2>2, <2>3, <2>4 DEF Genuine
<1>13. Sent'
  <2>. SUFFICES ASSUME NEW g \in Calls, IsGet(g)
                PROVE  g # f
    BY Zenon, <1>1, <1>5, StillRead DEF Sent
  <2>. QED  BY Zenon, <1>1 DEF IsGet, IsPut
<1>14. Order' /\ (\A h \in Calls : Undisturbed(h)' <=> Undisturbed(h))
              /\ \A g, h \in Calls : Stored(g, h)' <=> Stored(g, h)
  BY Zenon, <1>1, ServerFrame
<1>15. Kept'
  <2>1. ASSUME Undisturbed(f), returned'[f] = TRUE
        PROVE  /\ FileOf(f)' = opened'[f] /\ content'[opened'[f]] = OpOf[f].data
               /\ Len(OpOf[f].data) = BlockSize
    <3>1. n = BlockSize
      BY Zenon, <1>5, <2>1
    <3>2. n = Len(OpOf[f].data) /\ Len(OpOf[f].data) = BlockSize
      BY <1>4, <3>1, OpFacts
    <3>3. FileOf(f) = c /\ content[c] = <<>>
      BY Zenon, <1>1, <1>3, <2>1 DEF Kept
    <3>. QED  BY Zenon, <1>1, <1>3, <1>5, <1>7, <3>2, <3>3 DEF FileOf
  <2>2. ASSUME NEW h \in Calls, IsPut(h), Undisturbed(h), h # f
        PROVE  /\ FileOf(h)' = FileOf(h) /\ opened'[h] = opened[h] /\ returned'[h] = returned[h]
               /\ opened[h] # None => content'[opened[h]] = content[opened[h]]
    <3>1. opened[h] \in Calls \union {None}
      BY Zenon, FileType
    <3>2. ~SameBlock(f, h)
      BY Zenon, <1>1, <1>4, <2>2, Settled DEF Rival, IsPut
    <3>3. opened[h] # c
      BY Zenon, <1>1, <1>3, <3>2 DEF Places, SameBlock
    <3>. QED  BY Zenon, <1>1, <1>5, <2>2, <3>1, <3>3 DEF FileOf
  <2>3. ASSUME NEW h \in Calls, IsPut(h), Undisturbed(h)
        PROVE  /\ opened'[h] # None /\ returned'[h] = Unset =>
                     FileOf(h)' = opened'[h] /\ content'[opened'[h]] = <<>>
               /\ returned'[h] = TRUE =>
                     /\ opened'[h] # None /\ FileOf(h)' = opened'[h]
                     /\ content'[opened'[h]] = OpOf[h].data
                     /\ Len(OpOf[h].data) = BlockSize
    <3>1. CASE h = f
      BY Zenon, <1>1, <1>5, <2>1, <2>3, <3>1
    <3>2. CASE h # f
      BY Zenon, <2>2, <2>3, <3>2 DEF Kept
    <3>. QED  BY Zenon, <3>1, <3>2
  <2>. QED  BY Zenon, <1>14, <2>3 DEF Kept
<1>16. Found'
  <2>. SUFFICES ASSUME NEW g \in Calls, NEW h \in Calls, Stored(g, h)
                PROVE  /\ g \in ran' => opened'[g] = opened'[h]
                       /\ returned'[g] # Unset => returned'[g] = OpOf[h].data
    BY Zenon, <1>14 DEF Found
  <2>1. g # f
    BY Zenon, <1>1 DEF Stored, IsGet, IsPut
  <2>2. /\ opened'[g] = opened[g] /\ opened'[h] = opened[h] /\ returned'[g] = returned[g]
        /\ g \in ran' => g \in ran
    BY Zenon, <1>1, <1>5, <2>1
  <2>3. /\ g \in ran => opened[g] = opened[h]
        /\ returned[g] # Unset => returned[g] = OpOf[h].data
    BY Zenon DEF Found
  <2>. QED  BY Zenon, <2>2, <2>3
<1>. QED  BY Zenon, <1>8, <1>9, <1>10, <1>11, <1>12, <1>13, <1>14, <1>15, <1>16

\* What a put that a getBlock follows has left there.
LEMMA StoredFacts ==
    ASSUME IInv, NEW g \in Calls, NEW f \in Calls, Stored(g, f)
    PROVE  /\ opened[f] \in Calls /\ FileOf(g) = opened[f]
           /\ content[opened[f]] = OpOf[f].data /\ Len(OpOf[f].data) = BlockSize
<1>. USE DEF IInv
<1>1. IsPut(f) /\ value[f] = TRUE /\ Undisturbed(f) /\ SameBlock(f, g) /\ result[f] = "answered"
  BY Zenon DEF Stored, Order, Rival
<1>2. TRUE = Convert(f, returned[f])
  BY Zenon, <1>1 DEF Stages, Stage
<1>3. returned[f] = TRUE
  <2>1. OpOf[f].method # "getBlock" /\ OpOf[f].method # "bloomfilter"
    BY Zenon, <1>1 DEF IsPut
  <2>. QED  BY Zenon, <1>2, <2>1 DEF Convert
<1>4. /\ opened[f] # None /\ FileOf(f) = opened[f]
      /\ content[opened[f]] = OpOf[f].data /\ Len(OpOf[f].data) = BlockSize
  BY Zenon, <1>1, <1>3 DEF Kept
<1>. QED  BY Zenon, <1>1, <1>4, FileType DEF FileOf, SameBlock

\* A getBlock opens the file, if there is one.
LEMMA GetOpenStep == ASSUME IInv, NEW f \in Calls, GetOpen(f) PROVE IInv'
<1>. USE DEF IInv
<1>1. /\ IsGet(f) /\ result[f] # "idle" /\ f \notin ran /\ ran' = ran \union {f}
      /\ UNCHANGED <<result, dir, content, value, before, raced>>
      /\ opened' = [opened EXCEPT ![f] = FileOf(f)]
      /\ returned' = IF FileOf(f) = None THEN [returned EXCEPT ![f] = <<>>] ELSE returned
  BY Zenon DEF GetOpen, Run, Files
<1>2. opened[f] = None /\ returned[f] = Unset /\ result[f] # "answered"
  BY Zenon, <1>1 DEF Stages, Stage
<1>3. /\ opened'[f] = FileOf(f) /\ \A h \in Calls \ {f} : opened'[h] = opened[h]
      /\ returned'[f] = IF FileOf(f) = None THEN <<>> ELSE Unset
      /\ \A h \in Calls \ {f} : returned'[h] = returned[h]
      /\ \A h \in Calls : FileOf(h)' = FileOf(h)
  BY Zenon, <1>1, <1>2 DEF Shape, FileOf
<1>4. Shape'
  BY Zenon, <1>1, FileType DEF Shape
<1>5. Stages'
  BY Zenon, <1>1, <1>2, <1>3, ServerStages
<1>6. Places'
  BY Zenon, <1>3 DEF Places
<1>7. Writing'
  <2>1. \A h \in Calls : IsPut(h) => h # f
    BY Zenon, <1>1 DEF IsPut, IsGet
  <2>2. \A c \in Calls : Writers(c)' \subseteq Writers(c)
    BY Zenon, <1>3, <2>1 DEF Writers
  <2>. QED  BY Zenon, <1>1, <1>3, <2>1, <2>2 DEF Writing
<1>8. ran \subseteq ran' /\ raced \subseteq raced'
  BY Zenon, <1>1
<1>9. Genuine'
  BY Zenon, <1>1, <1>8, Grown, More DEF Genuine
<1>10. Sent'
  <2>1. value[f] \in {Unset, None}
    BY Zenon, <1>1, <1>2 DEF Shape, Stages, Stage
  <2>2. returned[f]' # Unset => IsRead(f, returned[f])'
    <3>1. DOMAIN <<>> = {}
      OBVIOUS
    <3>. QED  BY Zenon, <1>3, <3>1 DEF IsRead, Bytes, Part
  <2>. QED  BY Zenon, <1>1, <1>3, <1>8, <2>1, <2>2, StillRead DEF Sent
<1>11. Order' /\ (\A h \in Calls : Undisturbed(h)' <=> Undisturbed(h))
              /\ \A g, h \in Calls : Stored(g, h)' <=> Stored(g, h)
  BY Zenon, <1>1, ServerFrame
<1>12. Kept'
  <2>1. \A h \in Calls : IsPut(h) => h # f
    BY Zenon, <1>1 DEF IsPut, IsGet
  <2>2. \A h \in Calls : IsPut(h) => opened'[h] = opened[h] /\ returned'[h] = returned[h]
    BY Zenon, <1>3, <2>1
  <2>3. ASSUME NEW h \in Calls, IsPut(h), Undisturbed(h)
        PROVE  /\ opened'[h] # None /\ returned'[h] = Unset =>
                     FileOf(h)' = opened'[h] /\ content'[opened'[h]] = <<>>
               /\ returned'[h] = TRUE =>
                     /\ opened'[h] # None /\ FileOf(h)' = opened'[h]
                     /\ content'[opened'[h]] = OpOf[h].data
                     /\ Len(OpOf[h].data) = BlockSize
    <3>1. /\ opened'[h] = opened[h] /\ returned'[h] = returned[h]
          /\ FileOf(h)' = FileOf(h) /\ content' = content
      BY Zenon, <1>1, <1>3, <2>2, <2>3
    <3>. QED  BY Zenon, <2>3, <3>1 DEF Kept
  <2>. QED  BY Zenon, <1>11, <2>3 DEF Kept
<1>13. Found'
  <2>. SUFFICES ASSUME NEW g \in Calls, NEW h \in Calls, Stored(g, h)
                PROVE  /\ g \in ran' => opened'[g] = opened'[h]
                       /\ returned'[g] # Unset => returned'[g] = OpOf[h].data
    BY Zenon, <1>11 DEF Found
  <2>1. opened'[h] = opened[h]
    BY Zenon, <1>1, <1>3 DEF Stored, IsPut, IsGet
  <2>2. CASE g = f
    <3>0. FileOf(g) = opened[h] /\ opened[h] \in Calls
      BY Zenon, StoredFacts
    <3>1. FileOf(f) = opened[h] /\ FileOf(f) # None
      BY Zenon, <2>2, <3>0, OpFacts
    <3>. QED  BY Zenon, <1>3, <2>1, <2>2, <3>1
  <2>3. CASE g # f
    <3>1. /\ opened'[g] = opened[g] /\ returned'[g] = returned[g]
          /\ g \in ran' => g \in ran
      BY Zenon, <1>1, <1>3, <2>3
    <3>2. /\ g \in ran => opened[g] = opened[h]
          /\ returned[g] # Unset => returned[g] = OpOf[h].data
      BY Zenon DEF Found
    <3>. QED  BY Zenon, <2>1, <3>1, <3>2
  <2>. QED  BY Zenon, <2>2, <2>3
<1>. QED  BY Zenon, <1>4, <1>5, <1>6, <1>7, <1>9, <1>10, <1>11, <1>12, <1>13

\* A getBlock reads what is in the file.
LEMMA GetReadStep == ASSUME IInv, NEW f \in Calls, GetRead(f) PROVE IInv'
<1>. USE DEF IInv
<1>0. PICK v : v = ReadBlock(content[opened[f]])
  BY Zenon
<1>1. /\ IsGet(f) /\ opened[f] # None /\ returned[f] = Unset
      /\ returned' = [returned EXCEPT ![f] = v]
      /\ UNCHANGED <<ran, result, dir, content, opened, value, before, raced>>
  BY Zenon, <1>0 DEF GetRead, Return
<1>2. PICK c \in Calls : c = opened[f] /\ SameBlock(c, f) /\ content[c] \in Seq(Nat)
  BY Zenon, <1>1, FileType DEF Places, Shape
<1>3. /\ \A i \in DOMAIN v : i \in DOMAIN content[c] /\ v[i] = content[c][i]
      /\ \A d \in Seq(Nat) : content[c] \in Prefixes(d) => v \in Prefixes(d)
      /\ content[c] = <<>> => v = <<>>
      /\ Len(content[c]) = BlockSize => v = content[c]
  BY Zenon, <1>0, <1>2, ReadFacts
<1>4. f \in ran /\ result[f] # "idle"
  BY Zenon, <1>1 DEF Stages, Stage
<1>5. returned'[f] = v /\ \A h \in Calls \ {f} : returned'[h] = returned[h]
  BY Zenon, <1>1 DEF Shape
<1>6. Shape'
  BY Zenon, <1>1 DEF Shape
<1>7. Stages'
  <2>1. ran' = ran \union {f}
    BY <1>1, <1>4
  <2>. QED  BY Zenon, <1>1, <1>4, <1>5, <2>1, ServerStages
<1>8. Places'
  BY Zenon, <1>1 DEF Places, FileOf
<1>9. \A h \in Calls : IsPut(h) => h # f /\ returned'[h] = returned[h]
  BY Zenon, <1>1, <1>5 DEF IsPut, IsGet
<1>10. Writing'
  <2>1. \A e \in Calls : Writers(e)' \subseteq Writers(e)
    BY Zenon, <1>1, <1>9 DEF Writers
  <2>. QED  BY Zenon, <1>1, <1>9, <2>1 DEF Writing
<1>11. ran \subseteq ran' /\ raced \subseteq raced'
  BY Zenon, <1>1
<1>12. Genuine'
  BY Zenon, <1>1, <1>11, Grown, More DEF Genuine
<1>13. Sent'
  <2>1. Sources(c) = Sources(f)
    BY Zenon, <1>2, SameSources
  <2>2. Bytes(Sources(f), v)
    BY Zenon, <1>3, <2>1 DEF Genuine, Bytes
  <2>3. opened[f] \notin raced => Part(Sources(f), v)
    <3>1. \A h \in Sources(c) : OpOf[h].data \in Seq(Nat)
      BY Zenon, OpFacts DEF Sources, Shape
    <3>. QED  BY Zenon, <1>2, <1>3, <2>1, <3>1 DEF Genuine, Part
  <2>4. IsRead(f, v)'
    BY Zenon, <1>1, <1>11, <2>2, <2>3, StillRead DEF IsRead
  <2>. QED  BY Zenon, <1>1, <1>5, <1>11, <2>4, StillRead DEF Sent
<1>14. Order' /\ (\A h \in Calls : Undisturbed(h)' <=> Undisturbed(h))
              /\ \A g, h \in Calls : Stored(g, h)' <=> Stored(g, h)
  BY Zenon, <1>1, ServerFrame
<1>15. Kept'
  BY Zenon, <1>1, <1>9, <1>14 DEF Kept, FileOf
<1>16. Found'
  <2>. SUFFICES ASSUME NEW g \in Calls, NEW h \in Calls, Stored(g, h)
                PROVE  /\ g \in ran => opened[g] = opened[h]
                       /\ returned'[g] # Unset => returned'[g] = OpOf[h].data
    BY Zenon, <1>1, <1>14 DEF Found
  <2>1. /\ g \in ran => opened[g] = opened[h]
        /\ returned[g] # Unset => returned[g] = OpOf[h].data
    BY Zenon DEF Found
  <2>2. CASE g = f
    <3>0. content[opened[h]] = OpOf[h].data /\ Len(OpOf[h].data) = BlockSize
      BY Zenon, StoredFacts
    <3>1. content[c] = OpOf[h].data /\ Len(content[c]) = BlockSize
      BY Zenon, <1>2, <1>4, <2>1, <2>2, <3>0
    <3>. QED  BY Zenon, <1>3, <1>5, <2>1, <2>2, <3>1
  <2>3. CASE g # f
    BY Zenon, <1>5, <2>1, <2>3
  <2>. QED  BY Zenon, <2>2, <2>3
<1>. QED  BY Zenon, <1>6, <1>7, <1>8, <1>10, <1>12, <1>13, <1>14, <1>15, <1>16

\* The client's steps leave the server as it is, and what was disturbed stays so.
LEMMA ClientStep ==
    ASSUME IInv, UNCHANGED <<ran, dir, content, opened, returned, raced>>,
           Shape', Stages', Order', Sent',
           \A h \in ran : Undisturbed(h)' => Undisturbed(h),
           \A g \in ran : \A h \in Calls : Stored(g, h)' => Stored(g, h)
    PROVE  IInv'
<1>. USE DEF IInv
<1>1. Places' /\ Writing' /\ Genuine'
  <2>1. Places'
    BY Zenon DEF Places, FileOf
  <2>2. Writing'
    <3>1. \A c \in Calls : Writers(c)' = Writers(c)
      BY Zenon DEF Writers
    <3>. QED  BY Zenon, <3>1 DEF Writing
  <2>3. Genuine'
    BY Zenon DEF Genuine, Sources
  <2>. QED  BY Zenon, <2>1, <2>2, <2>3
<1>2. \A h \in Calls \ ran : opened[h] = None /\ returned[h] = Unset
  BY Zenon DEF Stages, Stage
<1>3. Kept'
  <2>. SUFFICES ASSUME NEW h \in Calls, IsPut(h), Undisturbed(h)'
                PROVE  /\ opened[h] # None /\ returned[h] = Unset =>
                             FileOf(h) = opened[h] /\ content[opened[h]] = <<>>
                       /\ returned[h] = TRUE =>
                             /\ opened[h] # None /\ FileOf(h) = opened[h]
                             /\ content[opened[h]] = OpOf[h].data
                             /\ Len(OpOf[h].data) = BlockSize
    BY Zenon DEF Kept, FileOf
  <2>1. CASE h \in ran
    BY Zenon, <2>1 DEF Kept
  <2>2. CASE h \notin ran
    BY Zenon, <1>2, <2>2, OpFacts
  <2>. QED  BY Zenon, <2>1, <2>2
<1>4. Found'
  <2>. SUFFICES ASSUME NEW g \in Calls, NEW h \in Calls, Stored(g, h)'
                PROVE  /\ g \in ran => opened[g] = opened[h]
                       /\ returned[g] # Unset => returned[g] = OpOf[h].data
    BY Zenon DEF Found
  <2>1. CASE g \in ran
    BY Zenon, <2>1 DEF Found
  <2>2. CASE g \notin ran
    BY Zenon, <1>2, <2>2
  <2>. QED  BY Zenon, <2>1, <2>2
<1>. QED  BY Zenon, <1>1, <1>3, <1>4

LEMMA CallStep == ASSUME IInv, NEW f \in Calls, Call(f) PROVE IInv'
<1>. USE DEF IInv
<1>1. /\ result[f] = "idle" /\ result' = [result EXCEPT ![f] = "pending"]
      /\ before' = [before EXCEPT ![f] = {h \in Calls : Rival(h, f) /\ result[h] = "answered"}]
      /\ UNCHANGED <<ran, dir, content, opened, returned, value, raced>>
  BY Zenon DEF Call, Issue
<1>2. /\ result'[f] = "pending" /\ \A h \in Calls \ {f} : result'[h] = result[h]
      /\ before'[f] = {h \in Calls : Rival(h, f) /\ result[h] = "answered"}
      /\ \A h \in Calls \ {f} : before'[h] = before[h]
      /\ f \notin ran
  BY Zenon, <1>1 DEF Shape, Stages, Stage
<1>3. Shape'
  BY Zenon, <1>1 DEF Shape
<1>4. Stages'
  <2>. SUFFICES ASSUME NEW h \in Calls PROVE Stage(h)'
    BY Zenon DEF Stages
  <2>1. Stage(h)
    BY Zenon DEF Stages
  <2>2. CASE h = f
    BY Zenon, <1>1, <1>2, <2>1, <2>2 DEF Stage
  <2>3. CASE h # f
    BY Zenon, <1>1, <1>2, <2>1, <2>3 DEF Stage, Convert
  <2>. QED  BY Zenon, <2>2, <2>3
<1>5. Order'
  <2>. SUFFICES ASSUME NEW g \in Calls, NEW h \in before'[g]
                PROVE  Rival(h, g) /\ result'[h] = "answered"
    BY Zenon DEF Order
  <2>1. Rival(h, g) /\ result[h] = "answered" /\ h \in Calls
    <3>1. CASE g = f
      BY Zenon, <1>2, <3>1
    <3>2. CASE g # f
      BY Zenon, <1>2, <3>2 DEF Order, Shape
    <3>. QED  BY Zenon, <3>1, <3>2
  <2>. QED  BY Zenon, <1>1, <1>2, <2>1
<1>6. Sent'
  BY Zenon, <1>1 DEF Sent, IsRead, Sources
<1>7. \A h \in Calls : h # f /\ Undisturbed(h)' => Undisturbed(h)
  BY Zenon, <1>1, <1>2 DEF Undisturbed
<1>8. ASSUME NEW g \in ran, NEW h \in Calls, Stored(g, h)'
      PROVE  Stored(g, h)
  <2>1. g \in Calls /\ g # f
    BY Zenon, <1>2 DEF Shape
  <2>2. h \in before[g] /\ value[h] = TRUE /\ IsGet(g) /\ IsPut(h) /\ Undisturbed(h)'
    BY Zenon, <1>1, <1>2, <1>8, <2>1 DEF Stored
  <2>3. h # f
    BY Zenon, <1>1, <2>1, <2>2 DEF Order
  <2>. QED  BY Zenon, <1>7, <2>2, <2>3 DEF Stored
<1>9. \A h \in ran : Undisturbed(h)' => Undisturbed(h)
  BY Zenon, <1>2, <1>7 DEF Shape
<1>. QED  BY Zenon, <1>1, <1>3, <1>4, <1>5, <1>6, <1>8, <1>9, ClientStep

\* The Future is set, by the response or because the channel is closed.
LEMMA SetStep ==
    ASSUME IInv, NEW f \in Calls, result[f] = "pending",
           NEW r \in {"answered", "failed"}, result' = [result EXCEPT ![f] = r],
           NEW v, value' = [value EXCEPT ![f] = v],
           r = "answered" => f \in ran /\ returned[f] # Unset /\ v = Convert(f, returned[f]),
           r = "failed" => (IsPut(f) => v = FALSE) /\ (IsGet(f) => v = None),
           UNCHANGED <<ran, dir, content, opened, returned, before, raced>>
    PROVE  IInv'
<1>. USE DEF IInv
<1>1. /\ result'[f] = r /\ \A h \in Calls \ {f} : result'[h] = result[h]
      /\ value'[f] = v /\ \A h \in Calls \ {f} : value'[h] = value[h]
  BY Zenon DEF Shape
<1>2. Shape'
  BY Zenon DEF Shape
<1>3. Stages'
  <2>. SUFFICES ASSUME NEW h \in Calls PROVE Stage(h)'
    BY Zenon DEF Stages
  <2>1. Stage(h)
    BY Zenon DEF Stages
  <2>2. CASE h = f
    BY Zenon, <1>1, <2>1, <2>2 DEF Stage, Convert
  <2>3. CASE h # f
    BY Zenon, <1>1, <2>1, <2>3 DEF Stage, Convert
  <2>. QED  BY Zenon, <2>2, <2>3
<1>4. Order'
  <2>. SUFFICES ASSUME NEW g \in Calls, NEW h \in before[g]
                PROVE  Rival(h, g) /\ result'[h] = "answered"
    BY Zenon DEF Order
  <2>1. Rival(h, g) /\ result[h] = "answered" /\ h \in Calls
    BY Zenon DEF Order, Shape
  <2>. QED  BY Zenon, <1>1, <2>1
<1>5. Sent'
  <2>. SUFFICES ASSUME NEW g \in Calls, IsGet(g)
                PROVE  /\ returned[g] # Unset => IsRead(g, returned[g])
                       /\ value'[g] \notin {Unset, None} =>
                             value'[g] # <<>> /\ IsRead(g, value'[g])
    BY Zenon DEF Sent, IsRead, Sources
  <2>0. /\ returned[g] # Unset => IsRead(g, returned[g])
        /\ value[g] \notin {Unset, None} => value[g] # <<>> /\ IsRead(g, value[g])
    BY Zenon DEF Sent
  <2>1. CASE g = f
    <3>1. CASE r = "answered"
      <4>1. v = GetBlockResult(returned[f]) /\ returned[f] # Unset
        BY Zenon, <2>1, <3>1 DEF Convert, IsGet
      <4>. QED  BY Zenon, <1>1, <2>0, <2>1, <4>1 DEF GetBlockResult
    <3>2. CASE r = "failed"
      BY Zenon, <1>1, <2>0, <2>1, <3>2
    <3>. QED  BY Zenon, <3>1, <3>2
  <2>2. CASE g # f
    BY Zenon, <1>1, <2>0, <2>2
  <2>. QED  BY Zenon, <2>1, <2>2
<1>6. \A h \in Calls : Undisturbed(h)' => Undisturbed(h)
  BY Zenon, <1>1 DEF Undisturbed
<1>7. ASSUME NEW g \in ran, NEW h \in Calls, Stored(g, h)'
      PROVE  Stored(g, h)
  <2>1. h \in before[g] /\ IsGet(g) /\ IsPut(h) /\ value'[h] = TRUE /\ Undisturbed(h)'
    BY Zenon, <1>7 DEF Stored
  <2>2. h # f
    BY Zenon, <2>1 DEF Order, Shape
  <2>. QED  BY Zenon, <1>1, <1>6, <2>1, <2>2 DEF Stored
<1>8. \A h \in ran : Undisturbed(h)' => Undisturbed(h)
  BY Zenon, <1>6 DEF Shape
<1>. QED  BY Zenon, <1>2, <1>3, <1>4, <1>5, <1>7, <1>8, ClientStep

LEMMA ResponseStep == ASSUME IInv, NEW f \in Calls, Response(f) PROVE IInv'
<1>1. PICK v : v = Convert(f, returned[f])
  BY Zenon
<1>. QED  BY Zenon, <1>1, SetStep DEF Response, Answer

LEMMA AbortStep == ASSUME IInv, NEW f \in Calls, Abort(f) PROVE IInv'
<1>1. PICK v : v = Convert(f, Default(f))
  BY Zenon
<1>2. IsPut(f) => v = FALSE
  BY <1>1 DEF IsPut, Convert, Default
<1>3. IsGet(f) => v = None
  <2>. SUFFICES ASSUME OpOf[f].method = "getBlock" PROVE v = None
    BY Zenon DEF IsGet
  <2>1. Default(f) = <<>>
    BY DEF Default
  <2>. QED  BY Zenon, <1>1, <2>1 DEF Convert, GetBlockResult
<1>. QED  BY Zenon, <1>1, <1>2, <1>3, SetStep DEF Abort, Fail

LEMMA StutterStep == ASSUME IInv, UNCHANGED vars PROVE IInv'
<1>. USE DEF IInv, vars
<1>1. Shape' /\ Stages' /\ Order' /\ Sent'
  <2>1. Shape' /\ Order'
    BY Zenon DEF Shape, Order
  <2>2. Stages'
    BY Zenon DEF Stages, Stage, Convert
  <2>3. Sent'
    BY Zenon DEF Sent, IsRead, Sources
  <2>. QED  BY Zenon, <2>1, <2>2, <2>3
<1>2. \A h \in ran : Undisturbed(h)' => Undisturbed(h)
  BY Zenon DEF Undisturbed
<1>3. \A g \in ran : \A h \in Calls : Stored(g, h)' => Stored(g, h)
  BY Zenon DEF Stored, Undisturbed
<1>. QED  BY Zenon, <1>1, <1>2, <1>3, ClientStep

LEMMA NextIInv == IInv /\ [Next]_vars => IInv'
<1>. SUFFICES ASSUME IInv, [Next]_vars PROVE IInv'
  BY Zenon
<1>1. ASSUME NEW f \in Calls, Call(f) PROVE IInv'
  BY Zenon, <1>1, CallStep
<1>2. ASSUME NEW f \in Calls, Response(f) \/ Abort(f) PROVE IInv'
  BY Zenon, <1>2, ResponseStep, AbortStep
<1>3. ASSUME NEW f \in Calls, PutRefused(f) PROVE IInv'
  <2>1. ~IsGet(f)
    BY Zenon, <1>3 DEF PutRefused, IsPut, IsGet
  <2>. QED  BY Zenon, <1>3, <2>1, ReplyStep DEF PutRefused
<1>4. ASSUME NEW f \in Calls, PutOpen(f) \/ PutWrite(f) PROVE IInv'
  BY Zenon, <1>4, PutOpenStep, PutWriteStep
<1>5. ASSUME NEW f \in Calls, GetOpen(f) \/ GetRead(f) PROVE IInv'
  BY Zenon, <1>5, GetOpenStep, GetReadStep
<1>6. ASSUME NEW f \in Calls, RemoveBlock(f) PROVE IInv'
  <2>1. ~IsGet(f) /\ ~IsPut(f)
    BY Zenon, <1>6 DEF RemoveBlock, IsPut, IsGet
  <2>2. PICK v : v = (FileOf(f) # None)
    BY Zenon
  <2>. QED  BY Zenon, <1>6, <2>1, <2>2, ReplyStep DEF RemoveBlock
<1>7. ASSUME NEW f \in Calls, Look(f) PROVE IInv'
  <2>1. ~IsGet(f) /\ ~IsPut(f)
    BY Zenon, <1>7 DEF Look, IsPut, IsGet
  <2>2. PICK v : Return(f, v)
    BY Zenon, <1>7 DEF Look
  <2>. QED  BY Zenon, <1>7, <2>1, <2>2, ReplyStep DEF Look
<1>8. CASE UNCHANGED vars
  BY Zenon, <1>8, StutterStep
<1>. QED  BY Zenon, <1>1, <1>2, <1>3, <1>4, <1>5, <1>6, <1>7, <1>8 DEF Next, Serve

THEOREM AlwaysIInv == Spec => []IInv
<1>1. QED
  BY InitIInv, NextIInv, PTL DEF Spec
-------------------------------------------------------------------------------
(***************************************************************************)
(* What getBlock returns.                                                  *)
(***************************************************************************)
\* Each byte that RemoteBlockStore::getBlock returns was put there by one of
\* the puts of that block, however the calls overlap; unless two of them were
\* writing the file at once, all of them by the same one.
THEOREM NothingIsInvented == Spec => []NothingInvented
<1>1. IInv => NothingInvented
  <2>. SUFFICES ASSUME IInv, NEW g \in Calls, IsGet(g), value[g] \notin {Unset, None}
                PROVE  /\ value[g] # <<>>
                       /\ \A i \in DOMAIN value[g] : \E h \in Sources(g) :
                             i \in DOMAIN OpOf[h].data /\ OpOf[h].data[i] = value[g][i]
                       /\ opened[g] \notin raced =>
                             \E h \in Sources(g) : value[g] \in Prefixes(OpOf[h].data)
    BY Zenon DEF NothingInvented
  <2>1. value[g] # <<>> /\ IsRead(g, value[g])
    BY Zenon DEF IInv, Sent
  <2>. QED  BY Zenon, <2>1 DEF IsRead, Bytes, Part
<1>. QED  BY <1>1, AlwaysIInv, PTL

\* A getBlock that is called after a putBlock of its block has returned true,
\* and no call that could change the block since, returns what was put.
THEOREM ReadsAreCurrent == Spec => []ReadsWhatWasPut
<1>1. IInv => ReadsWhatWasPut
  <2>. SUFFICES ASSUME IInv, NEW g \in Calls, result[g] = "answered",
                       NEW f \in Calls, Stored(g, f)
                PROVE  value[g] = OpOf[f].data
    BY Zenon DEF ReadsWhatWasPut
  <2>1. returned[g] # Unset /\ value[g] = Convert(g, returned[g])
    BY Zenon DEF IInv, Stages, Stage
  <2>2. returned[g] = OpOf[f].data
    BY Zenon, <2>1 DEF IInv, Found
  <2>3. Convert(g, returned[g]) = GetBlockResult(returned[g])
    BY Zenon DEF Convert, Stored, IsGet
  <2>4. Len(OpOf[f].data) = BlockSize
    BY Zenon, StoredFacts
  <2>5. OpOf[f].data # <<>>
    <3>1. BlockSize \in Nat /\ BlockSize > 0
      BY Zenon, OpFacts
    <3>2. Len(<<>>) = 0
      OBVIOUS
    <3>3. BlockSize # 0
      BY <3>1
    <3>. QED  BY Zenon, <2>4, <3>2, <3>3
  <2>. QED  BY Zenon, <2>1, <2>2, <2>3, <2>5 DEF GetBlockResult
<1>. QED  BY <1>1, AlwaysIInv, PTL
===============================================================================
