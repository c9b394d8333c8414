# A TLA+ verification of rawdishfs

rawdishfs is a distributed block store in C++: an asynchronous RPC layer, nodes
that form a full mesh over it and share a directory, and stores of fixed-size
blocks that are used locally or over RPC. This directory holds TLA+ models of
these parts, their TLC configurations, and machine-checked proofs about most of
them. Source paths below are relative to `src/src/`.

## The system: inventory

| part | state | operations | what makes it hard |
|---|---|---|---|
| RPC channel, `rpc/rpc.h`, `rpc/rpc.cc` | client: `_reqId`, `_respCallbacks`, disconnect callback; server: `_funcs`, connection; two sockets; the worker queue | `call`, `start`, `disconnect`, `~RPCClient`, `setDisconnectCallback`, `onReceive`, `onDisconnect`; `registerFunction`, `onAccept`, `deferredRPCCall`, `responseCallback`, `~Connection` | user threads, socket threads and workers share state without a lock; requests run out of order; connections fail or are closed at either end |
| Service node, `rpc/service_node.*` | `_peers`, `_groups`, `_group_callbacks` | `addPeer`, `addToGroup`, `removeFromGroup`, group callbacks, the three RPC handlers, `RemovePeer`, `shutdown` | handlers of several nodes interleave; `RPCAddPeer` looks up and connects before it locks; requests are reordered; nodes and connections go away |
| File block store, `blockstore/fileblockstore.*` | files; `_freeBlocks`, `_usedBlocks`, `_bloomfilter`, `_blockset`; descriptors | `putBlock`, `getBlock`, `removeBlock`, `next`, the rebuild of filter and counters | workers call it concurrently without a lock; short writes; leaked descriptors; the process dies; 32-bit counters |
| Remote block store, `blockstore/remoteblockstore.h` | `_client`, `_bsid` | the `BlockStore` methods over RPC, and the functions registered for them | reordered and aborted calls; several stores on one channel |
| Daemon, `blockstore/blockstore_daemon.*` | `_peers`, `_blockstores`, timer | `RPCAddPeer`, `RPCAddBlockStore`, `putBlock`, `onTimer`, `start`, `stop` | as the service node, without its mutex |
| LRU cache, `util/lrucache.h` | `_map`, `_heap`, `_timeCnt` | `get`, `put`, `invalidate` | two structures and a heap order to keep in step |
| Bloom filter, `util/bloomfilter.*` | bits, size, seed | `set`, `mayContain`, `reset`, copies, `serialize`, `deserialize` | filters of other sizes and seeds, damaged vectors |
| URL, `util/url.h` | the parts of a URL and `_valid` | `parse`, `toString`, comparison, assignment, setters | conversion there and back; a flag that goes stale |
| `rpc/fileutil.cc`, `rpc/rpc_benchmark.cc` | none | command-line drivers | nothing of their own |

The service node and the remote block store use the RPC channel. The remote
block store calls a file block store at the other end, which has a bloom filter.
The daemon combines them all. The LRU cache and the URL class are not used by
other code yet.

## The modules

| module | models | how it is used |
|---|---|---|
| `RPCService` | what the channel promises: a call is issued, runs at most once, and its Future is set at most once, to its answer or to the default | abstract specification |
| `RPCChannel` | one `RPCClient` and one `RPCServer::Connection` | refines `RPCService` |
| `ServiceNode` | the mesh of nodes and the directory | over the channel as `RPCService` describes it |
| `FileBlockStore` | one store, its files and its callers | |
| `RemoteBlockStore` | proxy and registered functions | EXTENDS `RPCService`: each step is one of its steps |
| `BlockStoreNode` | the daemons: peers, stores, timer | over the channel as `RPCService` describes it |
| `LRUCache`, `BloomFilter`, `URL` | the utility classes | |
| `RequestBag` | the requests under way between nodes, sent and not yet handled | EXTENDed by `ServiceNode` and `BlockStoreNode` |
| `*Proofs` | theorems about the module they are named after, and their proofs | TLAPS |
| `MC*` | values of the constants | TLC |

Definitions keep the names of the code (`reqId` is `_reqId`). An operator that
is introduced by "A mistake in it" is not part of any specification. It is the
definition after it with a plausible bug, and the property it is paired with in
`PROJECT.json` must notice.

**RPCChannel.** `call()` is three steps, the accesses to `_respCallbacks` and
`_reqId` that another thread can come between. `onReceive` is one step per
message. `disconnect()` is a step to close, one per aborted callback, and one to
clear the map; each thread that is in it has an iterator of its own (`iter`), so
that without the mutex two `disconnect()` calls overlap and set a Future twice
(`overlapped`). Worker queues are sets, since any worker may take any task. A
request, its arguments and its answer are named by the Future they belong to, so
a wrong answer shows as another call's name. Taken from the library: a socket
runs one callback at a time (the code says so at `rpc.cc:137`), `disconnect()`
does not overlap a callback of its own socket, and a write to a closed socket is
dropped. A `std::map` operation is one step. In the code `call()` and `onReceive`
may touch the map at the same instant, which is undefined and not modelled.

Users call `start()` before `call()`, as all code in the repository does, and
nobody is inside `call()` when the client is destroyed.

`Locked` says whether the users hold one mutex around `call()` and
`disconnect()`. `ServiceNode` makes its calls under its mutex. `RemoteBlockStore`
leaves it to its user.

**ServiceNode.** A handler that runs under `_mutex` is one step. `RPCAddPeer` is
two: look up and connect, then insert and introduce. Requests in flight are a
bag from which any may run next. One group stands for all: groups do not
interact. `_groups` keeps its integer counts, with the entries of 0 and -1 that
`operator[]` makes.

**FileBlockStore.** A step is a system call or an access to a counter. In
`putBlock` the updates of the counters are a load and a store, so that concurrent
ones can be lost. In the rebuild they are one step, which matters to no property:
those about counters are for serial callers. A thread that reads the directory
has a set of names that it must still see and a set that it may see: a file made
or unlinked meanwhile may or may not be shown, as POSIX says of `readdir`. The
same holds of a pass of `next()`, which keeps its directory open between calls;
one thread at a time calls it. `Restart` is the death of the process; files
survive it. The loss of unwritten data when the machine dies (there is no
`fsync`) is not modelled. `Reconstruct` is the destructor, which closes what
`next()` left open, and a new store. `getBlock` is two steps, the open and then
the read and the close. Its open succeeds if the file is there and a descriptor is
left; a get that has its file open remembers the block that must be there
(`get[t].block`) until somebody opens that file to write or unlinks it. What a
read of an unlinked file returns is `RemoteBlockStore`'s subject.
`acked` is a history variable: the block that a key must hold, when no other
call has interfered. `overlapped`, `leaked` and `blind` are history too: have two
puts or removals overlapped, how many descriptors were never closed, and could the last
rebuild not open the directory.

**RemoteBlockStore.** The functions that are registered with the server run in its
workers, and a step of one is a system call of the store behind it: a put is
refused, or opens and truncates the file and later writes some or all of its
data; a get opens the file and later reads it; a remove unlinks it. So the calls
overlap: two puts may write into one file, and a get may read between them or
from a file that is unlinked. A file is named after the put that created it, and
`raced` are the files that two puts have had open at once. One `write` and one
`read` are each one step. A call has run, for `RPCService`, when its function has
begun; its answer can be sent when the function has returned. `getBlock` can open
the file if it is there: what happens without descriptors is `FileBlockStore`'s
subject, and so are the counters and the filter. `blockSize` and
`numTotalBlocks` are the same code as `numFreeBlocks`.

**LRUCache.** Only the front of the heap vector is ever used, so the vector is
its set of entries, its front, and whether it is known to be a heap. The
standard heap algorithms are modelled by what they guarantee.

**BloomFilter.** The hash is an arbitrary function. `room` is the size of the
array, which differs from the size of the filter after a copy (a byte per bit)
or after `deserialize()`. `deserialize()` copies a filter into the array that is
there, whatever its size. The bits beyond the array are lost, and what is read in
their place later is arbitrary (`stray`); what other memory is overwritten is left
out. `Fits` says that this has not happened.

**BlockStoreNode.** No method takes a lock, so `RPCAddPeer` is split wherever it
touches `_peers` or its client: look up, insert, connect, set the disconnect
callback, introduce. A `Peer` is named by the connection its client makes, so
that two Peers for one address can be told apart. `Become` is what
`shared_ptr` does: a client that neither `_peers` nor a remote store holds is
destroyed, and `~RPCClient` sets the Futures of its pending calls to false. A
null pointer that is dereferenced kills the process (`Die`). Every node is a
process of its own. A connection that is lost before the callback is set is
`"missed"`: nobody will notice. What users do is a `Scenario`, chosen at the
start. The body of the timer is commented out in the code.

**URL.** An object is parsed from a text, copied, and changed through the
references that the setters return. A text is a sequence of the characters that
`parse()` and `atoi` tell apart; `"http"` is one of them, and the blank stands for
all white space. `atoi` skips white space, takes a sign, and of a number beyond an
`int`, which is undefined, returns what glibc does: `strtol`, whose result is
clipped to a `long`, cast to `int`. Of what `URL()` leaves
uninitialised, the flag is either value and the port 0 or 80. Before `parse()` has
set them, only `EqualMeansSame` speaks of them, of an object and its copy.

## The runs

| run | instance | checks |
|---|---|---|
| `RPCLocked` | 2 calls, one of an unknown method, 2 threads, mutex | no Future is set twice; the refinement of `RPCService`; the inductive invariant; responses find their callback; `~RPCClient` leaves nobody who called a known method waiting; calls are answered; an unknown method is noticed |
| `NodeMesh` | 3 nodes in a chain of `addPeer` calls, one `addToGroup` | no self-connection; introductions; the mesh forms; members reach every directory |
| `NodeFaults` | 2 nodes connecting to each other, one add, one remove, one fault | types; entries of `_peers` are connected; callbacks follow the directory |
| `NodeConsistency` | 2 nodes, one add, one remove | **violated**: directories converge |
| `StoreCalls` | 2 keys, one of them a dot name, 2 threads, blocks of 0 to 3 bytes where a block has 2, 3 puts, 3 descriptors, one crash | types; acknowledged blocks read back, also in a get that is under way, and are in the filter; counters do not wrap or undercount until calls overlap; descriptors are accounted for |
| `RemoteMixed` | 7 calls on 2 stores, of which any 3 are made, and each may fail, or the 4 on one block, and none fails | gets return what was put, and only bytes that were |
| `CacheOrder` | 4 keys, 3 entries, 8 accesses | map and heap agree; the front is the oldest while the heap is intact |
| `CacheEviction` | 3 keys, 2 entries | **violated**: evictions take the least recently used |
| `FilterCopy` | 2 keys, 2 seeds, 3 sizes | no false negatives, also in deserialised copies that fit |
| `Daemon` | five scenarios: 3 nodes in a chain; 2 nodes that add each other, while one is stopped or a connection fails; a node with a store that calls `putBlock`; a node that is its own peer | types; no timer outlives `stop()`; `stop()` and `addPeer` return; entries of `_peers` are connected; one lost connection kills nobody; introductions; the mesh forms; local stores stay |
| `DaemonUnreachable` | 2 nodes that add each other, one is stopped | **violated**: a peer that cannot be reached is forgotten |
| `URL` | 5 beginnings, then at most 3 of 9 characters; 2 changes | `valid()` says whether the parts can be spelled; the round trip; equality; parsing cuts the text without loss, but for what `atoi` makes of the port |

*Bounds.* Two calls suffice for every pair of calls to race for an id, and the
proofs cover any number. Three nodes are the fewest that need an introduction by
a third, and two parallel connections the fewest in which one client replaces
another; the chain of daemons has one connection at a time for each pair, and the
pairs have two. Three puts and a crash let two puts of one key race with a third
around a restart, and three descriptors are few enough to run out. `Modulus` is
16 in place of 2^32: a wrap shows as a value above `MaxFree`. The greatest port
is 8 in place of 65535, an `int` has 5 bits and a `long` 7, so that two digits
reach beyond each of them; three characters after a scheme and a host hold a port
of two digits, one with a sign or a blank, two colons, or a colon and a slash. Two
puts, a get and a remove of one block, each of which may be under way with all the
others, are the fewest that can mix two blocks in a file while it is read or
unlinked; any three of the calls are enough for each pair of methods, both stores
and the failures, which change nothing at the server.

*Sizes.* `StoreCalls` has 1,876,034 distinct states, `FilterCopy` 1,453,632,
`URL` 348,710, `RemoteMixed` 150,681 and `RPCLocked` 20,873.

*Types.* `RPCChannel` is proved type correct (`TypeCorrect`), and so are
`BloomFilter`, `RemoteBlockStore` and `LRUCache` as a part of their inductive
invariants (`TypeInv`, `Shape`, `CacheInv`); their runs do not check it again.

*Unlocked calls.* What holds when users do not serialise `call()` is proved for
all constants (`TypeCorrect`, `FuturesSetAtMostOnce`), so no run is spent on it.

*Deadlock* is not checked except in `FilterCopy`: users make boundedly many
calls and then the system rests, or everything has been destroyed.

*Fairness.* In `RPCChannel`: every thread inside `call()`, every queued task,
the sockets and the listener make progress, and functions set their Futures.
That is what the worker pool and epoll provide. Nobody is obliged to call,
register, disconnect or destroy. In `ServiceNode`: users make the `addPeer` calls
of `Seeds`, and handlers that can run do. In `BlockStoreNode`: nodes are started,
users make the `addPeer` calls of the scenario, handlers and timers run, and a
socket notices that its server is gone. One condition covers all of this
work: when there is some to do, some is done, in whatever order. All of it is weak
fairness.

## What the violation runs show

* `NodeConsistency`: a `removeFromGroup` that overtakes the `addToGroup` before
  it makes an entry of -1 (`service_node.cc:279`). The addition raises it to 0,
  and the name stays in that directory for ever. `service_node.h:45-46` promises
  eventual consistency.
* `DaemonUnreachable`: when `TcpSocket::connect` fails, `Peer::connect` returns
  before it makes a client, and `RPCAddPeer` calls `setDisconnectCallback` through
  the null pointer (`blockstore_daemon.h:336`). The process dies;
  `blockstore_daemon.h:82-83` says that false is returned and the Peer is forgotten.
* `CacheEviction`: `put()` of a present key changes its access time and does not
  restore the heap (`lrucache.h:101`). The next eviction may take the entry that
  was used last.

Other places where code and comments differ, met while modelling. The models do
what the code does; no run is spent on these:

* `call()` after `disconnect()` is accepted (`rpc.h:482`; the comment at 437 says
  that no further calls are possible).
* `disconnect()` and `~RPCClient` set the Future of every pending call to the
  default value (`rpc.cc:228-234`, `rpc.h:96-98`), also of a call of an unknown
  method. The test `ConstructionConnectBadCall` makes such a call and then calls
  `disconnect()` (`rpc_test.cc:223`), and says of the callback "This should never
  get called." (195). The model does what the code does; `DestroyCompletesAll` is
  about the methods that the server exports, and promises nothing of the others.
* Two `disconnect()` calls that overlap can set a Future twice; two threads in
  `call()` without a mutex can share an id, and one of the calls is lost or gets
  the other's answer. No text promises that `RPCClient` may be used that way.
* Removing an absent name makes an entry (`service_node.cc:161`;
  `service_node.h:89`). A count above 1 is never lowered (`service_node.cc:150`;
  the comment at 122). Members of a lost peer stay (`service_node.cc:193`;
  `service_node.h:90`). A handler can insert a peer after `shutdown()`
  (`service_node.cc:214`; `service_node.h:130`).
* A block shorter than a full one is written and reported as a failure
  (`fileblockstore.cc:78`; `blockstore.h:61`). Keys that begin with a dot drop
  out of the filter at a rebuild (`fileblockstore.cc:159`).
* A `putBlock` that fails after the open does not close its descriptor
  (`fileblockstore.cc:73-81`). When none is left, `getBlock` returns NULL for
  stored blocks (`blockstore.h:71` says "NULL if data not found"), a rebuild
  forgets every block, and `next()` hands `readdir` a NULL directory.
  `DescriptorsAccounted` says that nothing else leaks one.
* With concurrent callers `_freeBlocks` can pass below zero
  (`fileblockstore.cc:61` and 86), and of two puts of one block that overlap,
  one can write a whole block and return true, and the other, cut short, write over
  the beginning of it: what is left is a mixture of the two (78).
* An aborted `numFreeBlocks` returns 0, not -1 (`rpc.h:98`;
  `remoteblockstore.h:213`); an aborted `getBlock` returns NULL
  (`remoteblockstore.h:250`); `bloomfilter()` always returns an empty filter
  (`remoteblockstore.h:265`).
* In the daemon: `putBlock` dereferences the NULL that the location functions
  return (`blockstore_daemon.cc:147`). `putBlockHelper`, which therefore never
  runs, picks the store with fewer free blocks (80; the comment at 71 says the
  most). "addBlockStore" is bound to the node's own address (`cc:102`), so a
  peer's store is never registered (`blockstore_daemon.h:85-89`). `stop()` before
  `start()` waits for ever. Two lost connections between the same nodes can make
  `RemovePeer` run without an entry, which dereferences an empty pointer (312). A
  connection that is lost before the callback is set is never noticed, and an
  `addPeer` that depends on it never returns. `RemovePeer` erases stores by id,
  also a local one of the same id (317).
* `BloomFilter::deserialize` writes past an array that is too small
  (`bloomfilter.cc:145`). With filters of one size, as in all code but the tests,
  it cannot happen (`OneSizeAlwaysFits`).
* A port such as `"8x"` is read as 8 and is valid, since `atoi` stops at the first
  character that is no digit (`url.h:89`).
* The setters of `URL` leave `_valid` as it was (`url.h:115-121`).

## What is proved

For every value of the constants:

| module | theorem | statement |
|---|---|---|
| `RPCChannelProofs` | `TypeCorrect` | `Spec => []TypeOK` |
| | `FuturesSetAtMostOnce` | `Spec => []OnceInv`, with or without the mutex, until two `disconnect()` calls overlap |
| | `ChannelInvariant` | `Locked => (Spec => []ChannelInv)` |
| | `ResponsesFindCallbacks` | `Locked => (Spec => []ResponseFindsCallback)` |
| | `NobodyLeftWaiting` | `Locked => (Spec => []DestroyCompletesAll)` |
| | `ChannelImplementsService` | `Locked => (Spec => ImplementsService)` |
| `ServiceNodeProofs` | `TypeCorrect` | `Spec => []TypeOK` |
| | `PeersAlwaysConnected` | `Spec => []PeersConnected` |
| | `NeverItsOwnPeer` | `Spec => []NoSelfPeer` |
| | `AlwaysIntroduced` | `Spec => []Introduced` |
| | `MembersAlwaysReachPeers` | `Spec => []MembersReachPeers` |
| | `ListenersAlwaysFollow` | `Spec => ListenersFollow`, an action property |
| `FileBlockStoreProofs` | `TypeCorrect` | `Spec => []TypeOK` |
| | `DescriptorsAlwaysAccounted` | `Spec => []DescriptorsAccounted` |
| | `FreeNeverWraps` | `Spec => []FreeDoesNotWrap` |
| | `UsedAlwaysCoversKnown` | `Spec => []UsedCoversKnown`, if `CountersFit` |
| | `AckedBlocksReadBack` | `Spec => []AckedReadsBack` |
| | `FilterAlwaysCoversAcked` | `Spec => []FilterCoversAcked` |
| `RemoteBlockStoreProofs` | `NothingIsInvented` | `Spec => []NothingInvented` |
| | `ReadsAreCurrent` | `Spec => []ReadsWhatWasPut` |
| `BlockStoreNodeProofs` | `TypeCorrect` | `Spec => []TypeOK` |
| | `TimerAlwaysEnds` | `Spec => []TimerEnds` |
| | `PeersAlwaysConnected` | `Spec => []PeersConnected` |
| | `LocalStoresAlwaysStay` | `Spec => LocalStoresStay`, an action property |
| | `OneLossAlwaysSurvived` | `Spec => []OneLossSurvived` |
| | `AlwaysIntroduced` | `Spec => []Introduced` |
| `BloomFilterProofs` | `OneSizeAlwaysFits` | `Spec => []Fits`, if all of `Sizes` are one |
| | `FilterHasNoFalseNegatives` | `Spec => []NoFalseNegatives` |
| | `CopyHasNoFalseNegatives` | `Spec => []NoFalseNegativesInCopy` |
| `URLProofs` | `ValidAlwaysMeansSound` | `Spec => []ValidMeansSound` |
| | `ParseAlwaysKeepsText` | `Spec => []ParseKeepsText` |
| | `AlwaysRoundTrips` | `Spec => []RoundTrip` |
| | `EqualAlwaysMeansSame` | `Spec => []EqualMeansSame` |
| `LRUCacheProofs` | `HeapAlwaysMatchesMap` | `Spec => []HeapMatchesMap` |
| | `FrontAlwaysOldest` | `Spec => []FrontIsOldest` |

The assumptions are the named `ASSUME`s of the modules: `None` is nothing else,
bounds are natural numbers, sizes are positive, sets whose members are counted
are finite, and a counter of the file store can hold the room of the disk
(`Modulus > MaxFree`). Users of a service node do not name it as its own peer
(`Seeds`). The hash of the bloom filter is any function to the
natural numbers. A port fits an `int`, and an `int` a `long`. Texts are sequences over any set of characters that has those the
code names. TLC evaluates each of them.

One theorem has a hypothesis of its own, `CountersFit`: the files of the directory
and the puts together are fewer than `Modulus`, which is 2^32 in the code. It is
needed: `putBlock` of a block that is there counts it again, so `_usedBlocks` grows
with the puts until it wraps. With `Modulus = 3` instead of 16 in `StoreCalls.cfg`
TLC finds two blocks and a count of 0 after the third put.

In the six longer modules most leaves name `Zenon`, which is faster where it is
enough; the others are for SMT.

**The channel.** `ImplementsService` is not inductive: it does not say why a
response meets its own callback. `ChannelInv` does. One thread at a time is in `call()` (`LockInv`),
so the id under which a callback is stored is the id that the request carries
(`IdInv`). An id keeps its meaning wherever it travels (`KeyInv`). A request is
in one place at a time and runs when it leaves the worker queue (`ExecInv`).
While the client listens, whatever can still be answered is registered
(`FlightInv`). A Future that is registered or queued is unset (`SetInv`), and one
that is unset is registered or queued (`KeptInv`). The proof takes each conjunct
through each action. The refinement then follows step by step: `CallRegister`
issues, `DeferredRPCCall` runs, `RunCallback` answers, `AbortOne` fails, and all
other steps stutter.

`OnceInv` is separate because it needs no lock: a Future is in at most one place
from which it can be set, and leaves it when it is set (`OnceEach`). Without the
mutex it lasts until two `disconnect()` calls overlap, each of which walks over the
same callbacks.

**The file store.** `AckedReadsBack` says nothing of the puts that are under way.
`FileInv` does: a put that is alone with its file knows what is in it
(`Aloneness`), what it is about to acknowledge has the length of a block
(`WholeBlocks`), and nobody has the file of an acknowledged block open
(`AckedOnDisk`). The block that a get expects is the one that is acknowledged still
(`Reading`): whoever changes that has opened or unlinked the file first. For the
filter, a block that is acknowledged is in the filter or
in the names that some rebuild must still see (`Covered`): that is why rebuilds
that overlap, each of which clears the filter, end with all of them. The room
does not wrap because, until calls overlap, a put that found room still has it
when it counts its block (`CountInv`). The use covers the keys because a rebuild
counts every name it enters, and the names it has yet to read bound what it can
still count (`UseInv`). The descriptors are counted by the set of
threads that hold one, in a put or a rebuild (`Holders`) or in a get (`Readers`),
which each step changes by the thread that takes it; the
puts that may yet leak one are counted in the same way (`LeakInv`), which bounds
`leaked` by the puts that were made. That a file holds only bytes that were put
needs one more fact: a put that writes into a linked file writes into one that is
there (`HeldInv`).

**The service node.** `MeshInv` adds to the types and to `PeersConnected` that no
request asks a node to connect to itself, and that without faults every request is
on a live client: so none is lost. `Introduced` is then inductive, because
`InsertPeer` sends the new peer all other entries of `_peers` in the step that
inserts it, and every step that takes a request out of the bag leaves behind what
it asked for. `MembersReachPeers` also needs that nothing removes: what a user has
added stays in the node's own directory (`OnlyAdds`), from which the snapshot for
a new peer is taken. `ListenersFollow` needs the types alone: it is a statement
about one step.

**The remote block store.** What `getBlock` returns is traced backwards, from the
Future to what the registered function returned (`Stages`, `Sent`), to what was in
the file it had open when it read (`Genuine`). That file is one of the block's
(`Places`), whatever has been linked under the name since, and every byte in it is
from a put of that block that has begun to run. That the bytes are all of one put
needs `Writing`: unless two puts have had the file open at once, a put that is
about to write is alone there and the file is empty, because it was truncated at
the open and nobody has written since. For `ReadsWhatWasPut`, a put that returned
true has left its block in the file that is linked, where it stays as long as no
other put or remove of it has been called (`Kept`); a get that was called
afterwards has opened that file, and if it has read while that is so, has found
the block (`Found`).

**The daemon.** The timer is queued from `start()` until it finds the server gone,
when it signals; only then does `stop()` return (`TimerInv`). An entry of `_peers`
is a Peer for that address whose handler has got to a client that is up or was
lost unnoticed, or has just inserted it (`EntriesOk`). It survives `Become` because
only clients that `_peers` does not hold are destroyed, and `RemovePeer` because
this erases the entry of the address whichever Peer it holds.

The other two rest on what each step can do to a handler of `RPCAddPeer` and its
connection (`Move`, lemma `MoveStep`), stated once. `OneLossSurvived`: before the
first loss every address for which a Peer was inserted has an entry
(`NothingRemoved`), so the first disconnect callback finds one; the property does
not speak of a second loss. `Introduced`: of two Peers whose handlers have ended,
the handler that ended last found the other's address in `_peers` and sent it, on
the client that its entry holds; the request is under way, or was handled and one
of the two knows the other (`AllMet`). When a Peer is replaced, the handler of the
new one has yet to introduce it. In a calm scenario all nodes are there and every
client that an ended handler uses is up (`AllThere`), so no such request is lost.

**The bloom filter.** The bits of every key set are in the filter, then in the
vector on its way (`WireCovers`), then in the copy if its array has room for them: a vector that is
accepted is as long as its size says, and the same probes are computed from its
seed and size. With one size there always is room, since a copy has a byte for
every bit and a new filter the bytes that its size needs.

**The cache.** An entry that is alive has an access time above the 0 with which
`invalidate()` marks one, and below the next (`Times`): so what `pop_heap` takes
is the entry that was marked, and a new entry is never the oldest.

**The URL.** What `atoi` and `snprintf` compute is recursive, and no induction
theorem can be used. Instead a function that satisfies the recursion is built, up
to any bound, and shown to be the only one, each time by looking at the least
number for which that would fail (`LeastExists`). So `atoi` returns an integer
(`AtoiFacts`), whatever it does with numbers that are no `int`, and reads back what
`snprintf` writes of those that are (`AtoiItoa`). The other half is about
positions: where each step of `parse()` cuts the text (`SchemeIsCut`, `PathIsCut`,
`PortIsCut`), and that parts which are sound are cut where `toString()` has joined
them (`SchemeFound`, `PathFound`, `PortFound`): no separator can straddle the end
of the scheme, since its second and third characters differ from its first.
`EqualMeansSame` follows from the round trip. The invariant (`URLInv`) only says
that an object just parsed has the parts of its text.

Only model-checked: liveness (`EventuallyAnswered`, `UnknownMethodNotifies`,
`MeshForms`, `EveryoneLearns`, and that the daemons' `stop()`, `addPeer` and mesh
get done), which is out of the prover's reach. Every invariant and action property
that a passing run checks is also proved.

## Not modelled

* A server with several connections: `_connections` only grows, and connections
  share nothing but `_funcs`, which is fixed before they are accepted.
* Data races inside `std::map` and the bit arrays: their outcome is undefined, and
  a map operation is one step of the models.
* Handlers that run on a node after its destructor, through the raw `this` that
  they are bound to: what they would read is undefined.
* Whether a `Notification` can be waited for twice, as the destructor of a daemon
  that was stopped does: the class is not in the repository.
* `BlockStoreNode::getBlock`, which returns NULL; `putBlockHelper`, which no
  execution reaches; the body of `onTimer`, which is commented out.
* The rounds of FNV-1a: the filter's properties hold for any hash.
* `fileutil.cc`, which no target builds and which no longer compiles against
  `RPCClient`, and `rpc_benchmark.cc`: drivers without behaviour of their own.
* msgpack and epoll_threadpool, which are not part of the repository, beyond what
  the code uses of them; and the features that the repository's own README
  describes and the code does not have.
