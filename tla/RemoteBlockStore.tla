--------------------------- MODULE RemoteBlockStore ---------------------------
(***************************************************************************)
(* RemoteBlockStore (src/blockstore/remoteblockstore.h): the BlockStore    *)
(* interface of one host's FileBlockStores, used from another over an RPC  *)
(* channel that keeps RPCService's promise.  The functions registered with *)
(* the server run in its worker threads, so that they overlap: a step of   *)
(* one is a system call, and a call has run, for RPCService, when its      *)
(* function has begun.  A file is named after the put that created it: who *)
(* has it open reads or writes that file, unlinked or not.                 *)
(***************************************************************************)
EXTENDS RPCService, Integers, Sequences, FiniteSetsExt

CONSTANTS
    Stores,     \* the bsids of the stores that share the channel
    Keys,
    BlockSize,
    FreeCounts, \* what numFreeBlocks may return
    OpOf,       \* OpOf[f]: the method that call f calls, and its arguments
    None,       \* NULL, or no file
    Unset       \* what a Future holds before it is set

Methods == {"putBlock", "getBlock", "removeBlock", "numFreeBlocks", "bloomfilter"}

ASSUME RemoteAssumption ==
    /\ BlockSize \in Nat \ {0}
    /\ FreeCounts \subseteq Nat
    /\ \A f \in Calls : /\ OpOf[f].method \in Methods
                        /\ OpOf[f].bsid \in Stores /\ OpOf[f].key \in Keys
                        /\ OpOf[f].data \in Seq(Nat)
    /\ None \notin Calls
    /\ Unset \notin BOOLEAN /\ Unset \notin Seq(Nat) /\ Unset # None

VARIABLES
    dir,        \* dir[s][k]: the file that the store s has under k, or None
    content,    \* content[c]: what is in the file that the put c created
    opened,     \* opened[f]: the file that call f has opened, or None
    returned,   \* returned[f]: what the registered function returned
    value,      \* value[f]: what the Future of the RemoteBlockStore holds
    before,     \* history: the puts and removals of f's block that had been
                \* answered when f was called
    raced       \* history: the files that two puts have had open to write

vars == <<ran, result, dir, content, opened, returned, value, before, raced>>

Init ==
    /\ SInit
    /\ dir = [s \in Stores |-> [k \in Keys |-> None]]
    /\ content = [c \in Calls |-> <<>>]
    /\ opened = [f \in Calls |-> None]
    /\ returned = [f \in Calls |-> Unset]
    /\ value = [f \in Calls |-> Unset]
    /\ before = [f \in Calls |-> {}]
    /\ raced = {}
-------------------------------------------------------------------------------
(***************************************************************************)
(* The server: the functions of RegisterRemoteBlockStore, each bound to    *)
(* its own store by the bsid in the method's name, and what they do there. *)
(***************************************************************************)
IsPut(f) == OpOf[f].method = "putBlock"
IsGet(f) == OpOf[f].method = "getBlock"

SameBlock(f, g) == OpOf[f].bsid = OpOf[g].bsid /\ OpOf[f].key = OpOf[g].key

FileOf(f) == dir[OpOf[f].bsid][OpOf[f].key]
Link(f, c) == dir' = [dir EXCEPT ![OpOf[f].bsid][OpOf[f].key] = c]

Return(f, v) == returned' = [returned EXCEPT ![f] = v]

\* The puts that have the file c open to write.
Writers(c) == {f \in Calls : IsPut(f) /\ opened[f] = c /\ returned[f] = Unset}

\* A mistake in it: O_TRUNC is missing.
Untruncated(c) == content

Truncated(c) == [content EXCEPT ![c] = <<>>]

\* FileBlockStore::putBlock finds no room, or cannot open the file, ...
PutRefused(f) ==
    /\ IsPut(f) /\ Run(f)
    /\ Return(f, FALSE)
    /\ UNCHANGED <<dir, content, opened, value, before, raced>>

\* ... or opens the file, makes it if need be, and truncates it, before it looks
\* at the size of the data; ...
PutOpen(f) ==
    /\ IsPut(f) /\ Run(f)
    /\ LET c == IF FileOf(f) = None THEN f ELSE FileOf(f)
           tooBig == Len(OpOf[f].data) > BlockSize
       IN /\ Link(f, c)
          /\ content' = Truncated(c)
          /\ opened' = [opened EXCEPT ![f] = c]
          /\ returned' = IF tooBig THEN [returned EXCEPT ![f] = FALSE] ELSE returned
          /\ raced' = IF tooBig \/ Writers(c) = {} THEN raced ELSE raced \union {c}
    /\ UNCHANGED <<value, before>>

\* What write(2) leaves in a file of contents b when it writes the first n
\* bytes of d at offset 0.
Overlay(b, d, n) == SubSeq(d, 1, n) \o SubSeq(b, n + 1, Len(b))

\* ... and writes some or all of them, of which only a whole block is a success.
PutWrite(f) ==
    /\ opened[f] # None /\ f \in Writers(opened[f])
    /\ \E n \in 0..Len(OpOf[f].data) :
          /\ content' = [content EXCEPT ![opened[f]] = Overlay(@, OpOf[f].data, n)]
          /\ Return(f, n = BlockSize)
    /\ UNCHANGED <<ran, result, dir, opened, value, before, raced>>

\* A mistake in it: the function is bound to whichever store has the block.
FilesAnywhere(f) == {dir[s][OpOf[f].key] : s \in Stores}

Files(f) == {FileOf(f)}

\* FileBlockStore::getBlock opens the file, if there is one (FileBlockStore
\* models what happens when the process has no descriptor left); the helper
\* sends an empty vector for NULL.
GetOpen(f) ==
    /\ IsGet(f) /\ Run(f)
    /\ \E c \in Files(f) :
          /\ opened' = [opened EXCEPT ![f] = c]
          /\ returned' = IF c = None THEN [returned EXCEPT ![f] = <<>>] ELSE returned
    /\ UNCHANGED <<dir, content, value, before, raced>>

\* It reads a block at most.
ReadBlock(b) == SubSeq(b, 1, Min({BlockSize, Len(b)}))

GetRead(f) ==
    /\ IsGet(f) /\ opened[f] # None /\ returned[f] = Unset
    /\ Return(f, ReadBlock(content[opened[f]]))
    /\ UNCHANGED <<ran, result, dir, content, opened, value, before, raced>>

RemoveBlock(f) ==
    /\ OpOf[f].method = "removeBlock" /\ Run(f)
    /\ Link(f, None)
    /\ Return(f, FileOf(f) # None)
    /\ UNCHANGED <<content, opened, value, before, raced>>

\* The other functions touch no file: the filter that is sent, made of keys,
\* is one that the client never looks at.
Look(f) ==
    /\ Run(f)
    /\ \/ OpOf[f].method = "numFreeBlocks" /\ \E n \in FreeCounts : Return(f, n)
       \/ OpOf[f].method = "bloomfilter" /\ \E filter \in SUBSET Keys : Return(f, filter)
    /\ UNCHANGED <<dir, content, opened, value, before, raced>>

Serve(f) ==
    \/ PutRefused(f) \/ PutOpen(f) \/ PutWrite(f)
    \/ GetOpen(f) \/ GetRead(f)
    \/ RemoveBlock(f)
    \/ Look(f)
-------------------------------------------------------------------------------
(***************************************************************************)
(* The client.                                                             *)
(***************************************************************************)
\* The default value of the call's type, to which its Future is set when the
\* channel is closed.
Default(f) ==
    CASE OpOf[f].method \in {"putBlock", "removeBlock"} -> FALSE
      [] OpOf[f].method = "getBlock"      -> <<>>
      [] OpOf[f].method = "numFreeBlocks" -> 0
      [] OpOf[f].method = "bloomfilter"   -> {}

\* getBlockHelper: an empty vector means NULL.
GetBlockResult(v) == IF v = <<>> THEN None ELSE v

\* bloomfilterHelper sets an empty filter before it looks at the response.
BloomfilterResult(v) == {}

Convert(f, v) ==
    CASE OpOf[f].method = "getBlock"    -> GetBlockResult(v)
      [] OpOf[f].method = "bloomfilter" -> BloomfilterResult(v)
      [] OTHER                          -> v

\* Another call that may change f's block.
Rival(h, f) ==
    h # f /\ SameBlock(h, f) /\ OpOf[h].method \in {"putBlock", "removeBlock"}

Call(f) ==
    /\ Issue(f)
    /\ before' = [before EXCEPT ![f] =
                     {h \in Calls : Rival(h, f) /\ result[h] = "answered"}]
    /\ UNCHANGED <<dir, content, opened, returned, value, raced>>

\* A response is sent when the function has returned.
Response(f) ==
    /\ Answer(f)
    /\ returned[f] # Unset
    /\ value' = [value EXCEPT ![f] = Convert(f, returned[f])]
    /\ UNCHANGED <<dir, content, opened, returned, before, raced>>

Abort(f) ==
    /\ Fail(f)
    /\ value' = [value EXCEPT ![f] = Convert(f, Default(f))]
    /\ UNCHANGED <<dir, content, opened, returned, before, raced>>

Next == \E f \in Calls : Call(f) \/ Serve(f) \/ Response(f) \/ Abort(f)

Spec == Init /\ [][Next]_vars
-------------------------------------------------------------------------------
\* Every call that may have changed f's block, but for those that had been
\* answered before f was called, has not been made.
Undisturbed(f) ==
    \A h \in Calls : Rival(h, f) /\ result[h] # "idle" => h \in before[f]

\* f put the block that g asks for, had returned true when g was called, and
\* is the last to have touched the block.
Stored(g, f) ==
    IsGet(g) /\ f \in before[g] /\ IsPut(f) /\ value[f] = TRUE /\ Undisturbed(f)

\* A getBlock that is called after a putBlock of the same block has returned
\* true, and that is answered, returns that block: although the server's
\* workers run calls in any order and overlap, the block was put and removed
\* before, and several stores share the channel.
ReadsWhatWasPut ==
    \A g \in Calls : result[g] = "answered" =>
        \A f \in Calls : Stored(g, f) => value[g] = OpOf[f].data

\* The puts that may have written f's block.
Sources(f) == {h \in ran : IsPut(h) /\ SameBlock(h, f) /\ Len(OpOf[h].data) <= BlockSize}

Prefixes(d) == {SubSeq(d, 1, n) : n \in 0..Len(d)}

\* What getBlock returns is not empty, and each of its bytes was put in that
\* place, under that key, into that store.  Unless two puts were writing the file
\* at once, it is one block, or what one put has written of its block: nothing
\* of an older block shows behind a short write.
NothingInvented ==
    \A g \in Calls : IsGet(g) /\ value[g] \notin {Unset, None} =>
        /\ value[g] # <<>>
        /\ \A i \in DOMAIN value[g] : \E h \in Sources(g) :
              i \in DOMAIN OpOf[h].data /\ OpOf[h].data[i] = value[g][i]
        /\ opened[g] \notin raced => \E h \in Sources(g) : value[g] \in Prefixes(OpOf[h].data)
===============================================================================
