---------------------------- MODULE FileBlockStore ----------------------------
(***************************************************************************)
(* FileBlockStore (src/blockstore/fileblockstore.cc): blocks as files of a *)
(* directory, with counters, a bloom filter and a set of keys in memory.   *)
(* The methods take no lock, and the RPC server's workers call them        *)
(* concurrently; a step here is a system call or an access to a counter.   *)
(* The bloom filter and _blockset are always changed together: known is    *)
(* the set of keys put into them since they were last cleared.             *)
(***************************************************************************)
EXTENDS Integers, Sequences, FiniteSets, FiniteSetsExt

CONSTANTS
    Keys,
    Hidden,     \* the keys that begin with '.'
    Data,       \* what callers put: sequences of bytes
    BlockSize,
    Threads,    \* the threads that call the store
    MaxFree,    \* the most blocks that statfs says are available
    MaxFds,     \* the descriptors that the process may hold
    MaxPuts,    \* how many putBlock calls are made
    MaxCrashes, \* how often the process dies and is restarted
    Modulus,    \* the counters are unsigned: 2^32
    None

ASSUME StoreAssumption ==
    /\ Hidden \subseteq Keys
    /\ IsFiniteSet(Keys) /\ IsFiniteSet(Threads)
    /\ BlockSize \in Nat \ {0}
    /\ \A d \in Data : d \in Seq(Nat)
    /\ None \notin Data /\ None \notin [must : SUBSET Keys, may : SUBSET Keys]
    /\ None \notin [key : Keys, block : Data \union {None}]
    /\ MaxFree \in Nat /\ MaxFds \in Nat /\ MaxPuts \in Nat /\ MaxCrashes \in Nat
    /\ Modulus \in Nat /\ Modulus > MaxFree

VARIABLES
    files,     \* files[k]: the contents of the file k, or None
    free,      \* _freeBlocks
    used,      \* _usedBlocks
    known,     \* _bloomfilter and _blockset
    op,        \* op[t]: where thread t is in putBlock or removeBlock
    get,       \* get[t]: the getBlock in which t has a file open, or None
    fds,       \* the descriptors that are open
    dir,       \* _dir: what next() may still return, or None
    puts, crashes,
    acked,     \* history: the block that k must hold, if that is certain
    overlapped,\* history: have two puts or removals overlapped in this store?
    leaked,    \* history: how many puts have failed with the file open
    blind      \* history: was the directory unreadable at the last rebuild?

history == <<acked, overlapped, leaked, blind>>
vars == <<files, free, used, known, op, get, fds, dir, puts, crashes, history>>
-------------------------------------------------------------------------------
Idle == [at |-> "idle"]

\* A thread in putBlock.  "open": room was found; "write": the file is open;
\* "count": the block is written; "store": the counters are loaded, into free
\* and used.  alone: has no other thread opened, written or removed the file
\* since this one opened it?  linked: does the directory still have that file?
PutState(at, k, d, alone) ==
    [at |-> at, key |-> k, data |-> d, alone |-> alone, linked |-> TRUE,
     free |-> 0, used |-> 0]

Putting == {"write", "count", "store"}

\* "unlinked": the file is gone; "scan": regenerate is reading the directory.
Unlinked == [at |-> "unlinked"]
ScanState(s) == [at |-> "scan", must |-> s.must, may |-> s.may]

Visible == {k \in Keys \ Hidden : files[k] # None}

\* What readdir will return, after opendir: the files in must, and none or some
\* of the others in may.
Listing == [must |-> Visible, may |-> Visible]

\* The listing s after readdir has returned k, and after k was made, written
\* or unlinked: a file that comes or goes is returned or not.
Read(s, k) == [s EXCEPT !.must = @ \ {k}, !.may = @ \ {k}]
Changed(s, k, how) ==
    CASE how = "make"   -> [s EXCEPT !.may = @ \union ({k} \ Hidden)]
      [] how = "unlink" -> [s EXCEPT !.must = @ \ {k}]
      [] OTHER          -> s

Regenerating == \E t \in Threads : op[t].at \in {"unlinked", "scan"}

\* What a file may hold: bytes that callers have put, and no more of them than
\* the longest of their blocks has.
Contents(c) ==
    /\ c \in Seq(Nat)
    /\ \E d \in Data : Len(c) <= Len(d)
    /\ \A i \in DOMAIN c : \E d \in Data : \E j \in DOMAIN d : c[i] = d[j]

TypeOK ==
    /\ \A k \in Keys : files[k] # None => Contents(files[k])
    /\ free \in 0..(Modulus - 1)
    /\ used \in 0..(Modulus - 1)
    /\ known \subseteq Keys
    /\ \A t \in Threads :
          op[t].at \in {"idle", "open", "write", "count", "store", "unlinked", "scan"}
    /\ get \in [Threads -> [key : Keys, block : Data \union {None}] \union {None}]
    /\ fds \in 0..MaxFds
    /\ dir # None => dir.must \subseteq dir.may /\ dir.may \subseteq Keys
    /\ acked \in [Keys -> Data \union {None}]
    /\ overlapped \in BOOLEAN /\ blind \in BOOLEAN
    /\ leaked \in 0..MaxPuts
    /\ puts \in 0..MaxPuts /\ crashes \in 0..MaxCrashes

Init ==
    /\ files = [k \in Keys |-> None]
    /\ free \in 0..MaxFree
    /\ used = 0
    /\ known = {}
    /\ op = [t \in Threads |-> Idle]
    /\ get = [t \in Threads |-> None]
    /\ fds = 0
    /\ dir = None
    /\ puts = 0 /\ crashes = 0
    /\ acked = [k \in Keys |-> None]
    /\ overlapped = FALSE
    /\ leaked = 0
    /\ blind = FALSE
-------------------------------------------------------------------------------
(***************************************************************************)
(* putBlock                                                                *)
(***************************************************************************)
Outside(t) == op[t] = Idle /\ get[t] = None

Begin(t) ==
    /\ Outside(t)
    /\ overlapped' = (overlapped \/ \E u \in Threads : op[u] # Idle)

\* The other threads that have the file k open.
Others(t, k) == {u \in Threads \ {t} : op[u].at \in Putting /\ op[u].key = k}

\* t makes, writes or unlinks k and goes on to next: the other threads that
\* are putting k are not alone, and the listings change.
Disturb(t, k, next, how) ==
    /\ op' = [u \in Threads |->
                IF u = t THEN next
                ELSE IF u \in Others(t, k)
                THEN [op[u] EXCEPT !.alone = FALSE, !.linked = @ /\ how # "unlink"]
                ELSE IF op[u].at = "scan" THEN Changed(op[u], k, how)
                ELSE op[u]]
    /\ dir' = IF dir = None THEN None ELSE Changed(dir, k, how)

\* The block that a get found in the file k is no longer certain to be there.
Forget(k) ==
    get' = [u \in Threads |->
              IF get[u] # None /\ get[u].key = k THEN [get[u] EXCEPT !.block = None]
              ELSE get[u]]

\* A mistake in it: an unsigned number is compared with "< 0".
NoRoomNegative == free < 0

\* _freeBlocks is unsigned: "<= 0" holds of zero alone.
NoRoom == free <= 0

PutBegin(t, k, d) ==
    /\ Begin(t)
    /\ puts < MaxPuts
    /\ puts' = puts + 1
    /\ op' = IF NoRoom THEN op
             ELSE [op EXCEPT ![t] = PutState("open", k, d, TRUE)]
    /\ UNCHANGED <<files, free, used, known, get, fds, dir, crashes, acked, leaked,
                   blind>>

\* open(O_CREAT|O_TRUNC), then the check of the size, which returns without
\* closing the descriptor.
PutOpen(t) ==
    /\ op[t].at = "open"
    /\ LET k == op[t].key
           d == op[t].data
           tooBig == Len(d) > BlockSize
       IN IF fds = MaxFds
          THEN /\ op' = [op EXCEPT ![t] = Idle]
               /\ UNCHANGED <<files, get, fds, dir, acked, leaked>>
          ELSE /\ files' = [files EXCEPT ![k] = <<>>]
               /\ fds' = fds + 1
               /\ leaked' = IF tooBig THEN leaked + 1 ELSE leaked
               /\ acked' = [acked EXCEPT ![k] = None]
               /\ Forget(k)
               /\ Disturb(t, k, IF tooBig THEN Idle
                                ELSE PutState("write", k, d, Others(t, k) = {}),
                          IF files[k] = None THEN "make" ELSE "write")
    /\ UNCHANGED <<free, used, known, puts, crashes, overlapped, blind>>

\* What write(2) leaves in a file of contents c when it writes the first n
\* bytes of d at offset 0.
Overlay(c, d, n) == SubSeq(d, 1, n) \o SubSeq(c, n + 1, Len(c))

\* A mistake in it: only a failed call is told apart.
WriteNotFailed(n) == n > 0

WriteOk(n) == n = BlockSize

\* write(2) writes some or all of the data; anything but a whole block is a
\* failure, which returns without closing the descriptor.
PutWrite(t, n) ==
    /\ op[t].at = "write"
    /\ n <= Len(op[t].data)
    /\ LET k == op[t].key
       IN /\ files' = IF op[t].linked
                      THEN [files EXCEPT ![k] = Overlay(@, op[t].data, n)]
                      ELSE files
          /\ IF WriteOk(n)
             THEN /\ Disturb(t, k, [op[t] EXCEPT !.at = "count"], "write")
                  /\ fds' = fds - 1 /\ UNCHANGED leaked
             ELSE /\ Disturb(t, k, Idle, "write")
                  /\ leaked' = leaked + 1 /\ UNCHANGED fds
    /\ UNCHANGED <<free, used, known, get, puts, crashes, acked, overlapped, blind>>

\* _freeBlocks-- and _usedBlocks++ load the counters ...
PutCount(t) ==
    /\ op[t].at = "count"
    /\ op' = [op EXCEPT ![t].at = "store", ![t].free = free, ![t].used = used]
    /\ UNCHANGED <<files, free, used, known, get, fds, dir, puts, crashes, history>>

\* Mistakes in it: the key is not entered; the use is not counted.
PutStoreUnknown(t) ==
    /\ op[t].at = "store"
    /\ free' = (op[t].free - 1) % Modulus
    /\ used' = (op[t].used + 1) % Modulus
    /\ acked' = IF op[t].alone THEN [acked EXCEPT ![op[t].key] = op[t].data] ELSE acked
    /\ op' = [op EXCEPT ![t] = Idle]
    /\ UNCHANGED <<files, known, get, fds, dir, puts, crashes, overlapped, leaked,
                   blind>>

PutStoreUncounted(t) ==
    /\ op[t].at = "store"
    /\ free' = (op[t].free - 1) % Modulus
    /\ known' = known \union {op[t].key}
    /\ acked' = IF op[t].alone THEN [acked EXCEPT ![op[t].key] = op[t].data] ELSE acked
    /\ op' = [op EXCEPT ![t] = Idle]
    /\ UNCHANGED <<files, used, get, fds, dir, puts, crashes, overlapped, leaked,
                   blind>>

\* ... and store them; then the key is entered.
PutStore(t) ==
    /\ op[t].at = "store"
    /\ free' = (op[t].free - 1) % Modulus
    /\ used' = (op[t].used + 1) % Modulus
    /\ known' = known \union {op[t].key}
    /\ acked' = IF op[t].alone THEN [acked EXCEPT ![op[t].key] = op[t].data] ELSE acked
    /\ op' = [op EXCEPT ![t] = Idle]
    /\ UNCHANGED <<files, get, fds, dir, puts, crashes, overlapped, leaked, blind>>
-------------------------------------------------------------------------------
(***************************************************************************)
(* removeBlock and regenerateBloomFilterAndBlockSet                        *)
(***************************************************************************)
RemoveBlock(t, k) ==
    /\ Begin(t)
    /\ files[k] # None
    /\ files' = [files EXCEPT ![k] = None]
    /\ acked' = [acked EXCEPT ![k] = None]
    /\ Forget(k)
    /\ Disturb(t, k, Unlinked, "unlink")
    /\ UNCHANGED <<free, used, known, fds, puts, crashes, leaked, blind>>

\* Clear everything, ask statfs (which may fail) how much room there is, and
\* open the directory.
RegenerateBegin(t) ==
    /\ op[t].at = "unlinked"
    /\ known' = {}
    /\ used' = 0
    /\ free' \in 0..MaxFree
    /\ blind' = (fds = MaxFds)
    /\ IF fds = MaxFds
       THEN op' = [op EXCEPT ![t] = Idle] /\ UNCHANGED fds
       ELSE op' = [op EXCEPT ![t] = ScanState(Listing)] /\ fds' = fds + 1
    /\ UNCHANGED <<files, get, dir, puts, crashes, acked, overlapped, leaked>>

RegenerateEntry(t, k) ==
    /\ op[t].at = "scan"
    /\ k \in op[t].may
    /\ known' = known \union {k}
    /\ used' = (used + 1) % Modulus
    /\ op' = [op EXCEPT ![t] = Read(@, k)]
    /\ UNCHANGED <<files, free, get, fds, dir, puts, crashes, history>>

\* A mistake in it: the directory is closed twice.
RegenerateEndTwice(t) ==
    /\ op[t].at = "scan"
    /\ op[t].must = {}
    /\ op' = [op EXCEPT ![t] = Idle]
    /\ fds' = fds - 2
    /\ UNCHANGED <<files, free, used, known, get, dir, puts, crashes, history>>

RegenerateEnd(t) ==
    /\ op[t].at = "scan"
    /\ op[t].must = {}
    /\ op' = [op EXCEPT ![t] = Idle]
    /\ fds' = fds - 1
    /\ UNCHANGED <<files, free, used, known, get, dir, puts, crashes, history>>
-------------------------------------------------------------------------------
(***************************************************************************)
(* Making and destroying the store.                                        *)
(***************************************************************************)
\* The constructor reads the directory, if it can be opened, before anybody
\* can call the store; a process that has just begun has no descriptors.
Construct(open, lost) ==
    /\ op' = [t \in Threads |-> Idle]
    /\ get' = [t \in Threads |-> None]
    /\ dir' = None
    /\ fds' = open
    /\ leaked' = lost
    /\ blind' = (open = MaxFds)
    /\ known' = IF open = MaxFds THEN {} ELSE Visible
    /\ used' = Cardinality(known') % Modulus
    /\ free' \in 0..MaxFree
    /\ overlapped' = FALSE
    /\ UNCHANGED <<files, acked, puts>>

\* The process dies at any point, and is started again.
Restart ==
    /\ crashes < MaxCrashes
    /\ crashes' = crashes + 1
    /\ Construct(0, 0)

\* ~FileBlockStore closes what next() has open; a new store is made.
Reconstruct ==
    /\ \A t \in Threads : Outside(t)
    /\ dir # None
    /\ Construct(fds - 1, leaked)
    /\ UNCHANGED crashes
-------------------------------------------------------------------------------
(***************************************************************************)
(* next(), which one thread calls at a time.                               *)
(***************************************************************************)
NextListing == IF dir = None THEN Listing ELSE dir

\* It returns the name of a block, opening the directory if need be, ...
NextBlock(k) ==
    /\ dir # None \/ fds < MaxFds
    /\ k \in NextListing.may
    /\ dir' = Read(NextListing, k)
    /\ fds' = IF dir = None THEN fds + 1 ELSE fds
    /\ UNCHANGED <<files, free, used, known, get, op, puts, crashes, history>>

\* ... or the empty string, and closes it.
NextEnd ==
    /\ dir # None \/ fds < MaxFds
    /\ NextListing.must = {}
    /\ dir' = None
    /\ fds' = IF dir = None THEN fds ELSE fds - 1
    /\ UNCHANGED <<files, free, used, known, get, op, puts, crashes, history>>

\* If the directory cannot be opened, readdir(NULL) kills the process.
NextFails ==
    /\ dir = None /\ fds = MaxFds
    /\ Construct(0, 0)
    /\ UNCHANGED crashes
-------------------------------------------------------------------------------
(***************************************************************************)
(* getBlock                                                                *)
(***************************************************************************)
\* What read(2) and the code after it make of a file of contents c.
ReadBlock(c) ==
    IF c = None \/ c = <<>> THEN None
    ELSE SubSeq(c, 1, Min({BlockSize, Len(c)}))

\* open(O_RDONLY).  If it fails getBlock returns NULL, having done nothing.
GetOpen(t, k) ==
    /\ Outside(t)
    /\ files[k] # None /\ fds < MaxFds
    /\ get' = [get EXCEPT ![t] = [key |-> k, block |-> acked[k]]]
    /\ fds' = fds + 1
    /\ UNCHANGED <<files, free, used, known, op, dir, puts, crashes, history>>

\* A mistake in it: the descriptor is closed only if something was read.
GetReadLeaks(t) ==
    /\ get[t] # None
    /\ get' = [get EXCEPT ![t] = None]
    /\ fds' = IF ReadBlock(files[get[t].key]) = None THEN fds ELSE fds - 1
    /\ UNCHANGED <<files, free, used, known, op, dir, puts, crashes, history>>

\* read, and close: also when nothing was read and NULL is returned.
GetRead(t) ==
    /\ get[t] # None
    /\ get' = [get EXCEPT ![t] = None]
    /\ fds' = fds - 1
    /\ UNCHANGED <<files, free, used, known, op, dir, puts, crashes, history>>

GetBlock(t) == (\E k \in Keys : GetOpen(t, k)) \/ GetRead(t)

NumFreeBlocks == free

Next ==
    \/ \E t \in Threads, k \in Keys, d \in Data : PutBegin(t, k, d)
    \/ \E t \in Threads : PutOpen(t) \/ PutCount(t) \/ PutStore(t)
    \/ \E t \in Threads : \E n \in 0..BlockSize : PutWrite(t, n)
    \/ \E t \in Threads, k \in Keys : RemoveBlock(t, k) \/ RegenerateEntry(t, k)
    \/ \E t \in Threads : RegenerateBegin(t) \/ RegenerateEnd(t)
    \/ \E t \in Threads : GetBlock(t)
    \/ \E k \in Keys : NextBlock(k)
    \/ NextEnd \/ NextFails \/ Reconstruct \/ Restart

Spec == Init /\ [][Next]_vars
-------------------------------------------------------------------------------
(***************************************************************************)
(* What holds.                                                             *)
(***************************************************************************)
\* A block whose putBlock returned true, and that nobody has put or removed
\* since, is what getBlock returns if it can open the file: through writes that
\* the disk cuts short, failed puts, concurrent puts of other keys and of the
\* same one, crashes and restarts.  That goes for a get that has the file open,
\* too: what it found there is there when it reads.
AckedReadsBack ==
    /\ \A k \in Keys : acked[k] # None => ReadBlock(files[k]) = acked[k]
    /\ \A t \in Threads : get[t] # None /\ get[t].block # None =>
          ReadBlock(files[get[t].key]) = get[t].block

\* Such a block is in the bloom filter, whatever is removed concurrently and
\* however the rebuilds of the filter overlap, except while one is going on
\* and after one that could not open the directory: the host's own filter has
\* no false negatives.
FilterCoversAcked ==
    (~Regenerating /\ ~blind) => {k \in Keys \ Hidden : acked[k] # None} \subseteq known

\* Until two puts or removals have overlapped, the store never counts below zero free
\* blocks (which would be 2^32 - 1 of them) ...
FreeDoesNotWrap == ~overlapped => NumFreeBlocks <= MaxFree

\* ... and never counts fewer blocks than it has.
UsedCoversKnown ==
    (~overlapped /\ \A t \in Threads : op[t] = Idle) => used >= Cardinality(known)

\* The descriptors that are open are those of the puts that are writing, of
\* the gets that are reading, of the rebuilds, of a pass of next() that has not
\* ended, and one for each put that found its block too long or wrote it in
\* part: nothing else leaks one, and these are never closed.
DescriptorsAccounted ==
    fds = leaked + Cardinality({t \in Threads : op[t].at \in {"write", "scan"}})
          + Cardinality({t \in Threads : get[t] # None})
          + (IF dir = None THEN 0 ELSE 1)
===============================================================================
