# A verification of the Ada Web Server

AWS is an HTTP server, and more, as an Ada library. This directory holds TLA+
modules translated from its source, TLC configurations that check them on small
instances and TLAPS proofs for instances of every size. Paths below are relative
to the repository's `src/core` (AWS) or `include/zlib` (the copy of zlib 1.2.11
that AWS builds and links) unless they say otherwise.

1. [The system](#the-system)
2. [Modules and plan](#modules-and-plan)
3. [Module Server](#module-server)
4. [Module Acceptor](#module-acceptor)
5. [The zlib modules](#the-zlib-modules)
6. [Runs](#runs)
7. [Bounds and fairness](#bounds-and-fairness)
8. [Proofs](#proofs)
9. [Where code and documentation disagree](#where-code-and-documentation-disagree)
10. [What is not modelled](#what-is-not-modelled)

## The system

A server is an `HTTP` object: an acceptor, a protected object `Slots` with one
slot per `Line` task, the tasks, a session database shared by all servers, logs
and a dispatcher. A connection lives through

    kernel -> acceptor -> line (in its slot) -> acceptor -> ... -> freed
                            \-> taken over (WebSocket, server push)

and almost every hard behaviour is about who owns the socket object at which
moment.

| Component | State | Operations | Interacts with |
|---|---|---|---|
| **Server core** (`aws-server.adb`) | `Slots`: per slot phase, socket, `Socket_Taken`, time stamp; `Count`, `Shutdown_Count`. Per server the `Shutdown` flag | `Line` loop, `Set`, `Release` (entry), `Mark_Phase`, `Abort_On_Timeout`, `Get_For_Shutdown`, `Shutdown_Done`, `Prepare_Back`, `Get_Wait_For_Data`, `Socket_Taken`, `Force_Clean`, `Shutdown` | acceptor (`Get`, `Give_Back`, `Shutdown`), protocol handlers |
| **HTTP/1 handler** (`aws-server-protocol_handler.adb`, `-http_utils.adb`) | the request loop of one line | read request, header and body, call back, answer, next request or give back; exception handlers | `Slots`, user's callback, WebSocket registry |
| **Acceptor** (`aws-net-acceptors.adb`, `-generic_sets.adb`, `-poll_events.adb`) | socket set and poll array, `Index`, `Last`, box of sockets given back, signalling pair, list of listening sockets, semaphore | `Get`, `Give_Back`, `Add_Listening`, `Shutdown` | lines, kernel |
| **HTTP/2 handler** (`-protocol_handler_v2.adb`, `src/http2`) | streams, windows, settings, HPACK tables | frames in and out, give back with the context | `Slots`, acceptor |
| **Sessions** (`aws-session.adb`, `-control.adb`) | map of sessions, `Lock_Counter`, `Remove_Mark`, the cleaner task | create, touch, get, set, lock, delete, clean, start and stop | lines, cleaner task |
| **WebSocket registry** (`aws-net-websocket-registry.adb`) | registered sockets, watched set, message queue, readers | register, watch, receive, send, close, shutdown | lines, `Socket_Taken` |
| **Utils** (`aws-utils.adb`) | `Semaphore`, `RW_Semaphore`, `Mailbox_G` | seize and release, read and write, add and get | everything |
| **Transient pages, server push, hotplug** | registries with a cleaner or waiter task | register, get, clean; subscribe, send; filter | lines |
| **zlib: deflate** (`deflate.c`, `trees.c`) | `deflate_state`: window, hash chains, pending buffer, status; the `z_stream` | `deflateInit2`, `deflate`, `Reset`, `Params`, `SetDictionary`, ... | the application's buffers; `gzwrite.c`, `AWS.Resources.Streams.ZLib` |
| **zlib: inflate** (`inflate.c`, `inffast.c`) | `inflate_state`: mode, bit accumulator, circular window | `inflateInit2`, `inflate`, `inflate_fast`, `Sync`, `SetDictionary`, ... | the application's buffers; `gzread.c` |
| **zlib: Huffman codes** (`trees.c`, `inflate.c`, `inftrees.c`) | frequencies, heap, code lengths, decoding table | `build_tree`, `send_all_trees`, `inflate_table` | deflate, inflate |
| **zlib: gzip files** (`gzlib.c`, `gzread.c`, `gzwrite.c`) | `gz_state`: buffers, position, pending seek, error | `gzopen` ... `gzclose` | the descriptor, deflate, inflate |
| log, dispatchers, client, sockets, SSL, request and answer data, configuration, resources, SMTP/POP/Jabber, SOAP, LDAP, tools | | | |

Hard behaviours. *Server core*: a line that is short of slots runs `Force_Clean`
and shuts down the socket of a neighbour in two protected calls with a system
call between them; the neighbour meanwhile may answer, wait, give its socket
back, have it taken over, die, or release its slot; `Release` is a guarded entry;
`Shutdown` walks through the slots while the lines run. *Acceptor*: one task at a
time is in `Get`, sockets come in through a mailbox announced by bytes in a
socket pair, the set is compacted in the middle of a scan whose position survives
from one caller to the next, and two tasks race to do the shutdown. *Sessions*:
collection and deletion are different critical sections. *HTTP/2*: windows and
identifiers at their limits, failures in exception handlers. *zlib*: every
function may be called with any amount of input and room and must resume where it
stopped, inside a header field, a code, a match or a check value; memory is moved
under positions that other state refers to; the fast decoder checks its limits
once per symbol; gzip files are read while they grow, cut off and damaged, and
written through calls that fail half-way.

What makes them correct. *Server core*: `Count` is the number of free slots; no
line frees a socket another task is using; an aborted slot serves no further
request; a line that wants to release its slot eventually does; `Shutdown` ends.
*Acceptor*: a socket has one owner; `Get` examines what poll reported; it never
blocks on the mailbox; after `Shutdown` nothing is left; it implements the
interface the server core relies on. *Sessions*: a live session is not deleted,
a pointer is not used after it was freed. *RW_Semaphore*: readers exclude the
writer, neither starves as documented. *HTTP/2*: no window is exceeded, stream
states follow the standard's diagram, HPACK decodes what was encoded. *zlib*: the
stream stands for the input, and the output for the stream, however both were cut
into pieces; no access outside a buffer or to memory never written; every call
and every stream comes to an end; what was acknowledged is in the file.

The hazards found while reading, with the line where each one bites and the
properties aimed at it, are in `PROJECT.json`; those of parts that are not
modelled yet say so.

## Modules and plan

| Module | What it is |
|---|---|
| `Server`, `MCServer` | slots, lines, HTTP/1 handler, `Force_Clean`, `Shutdown` |
| `ServerProofs` | proofs about `Server` |
| `Acceptor`, `MCAcceptor` | `AWS.Net.Acceptors` with the socket set and poll array under it |
| `AcceptorAbs` | what the acceptor promises; `Acceptor` implements it |
| `AcceptorProofs` | proofs about `Acceptor`: the semaphore, the box and the scan; then who owns each socket, and the refinement |
| `Deflate`, `MCDeflate` | the compressor |
| `Inflate`, `MCInflate` | the decompressor |
| `InflateProofs` | proofs about `Inflate` |
| `GzLib`, `GzRead`, `GzWrite`, `MCGzRead`, `MCGzWrite` | gzip files |
| `GzLibProofs` | lemmas for both kinds of gzip file: what `FlattenSeq` makes of a sequence, the modes `gz_open` accepts |
| `GzReadProofs` | proofs about `GzRead` |
| `GzWriteLemmas`, `GzWriteSteps`, `GzWriteProofs` | proofs about `GzWrite`: the invariant and the lemmas about sequences, then the steps, the calls first, and the theorems |
| `CanonCode`, `HuffTree`, `TreeCode`, `InfTable` | the reference meaning of code lengths; building a code, sending it, tabulating it |
| `DynBlock`, `MCDynBlock` | the composition of those three: a dynamic block on its way |

Next, in this order:

1. `Session`: database, lock counter, cleaner, `Session.Control` (two lines, one
   cleaner, two sessions). Transient pages have the same form.
2. `RW_Semaphore` and `Mailbox`: small modules, each with an abstract
   specification (mutual exclusion; bounded FIFO), refinement checked and proved.
3. `WebSocketRegistry`: registration, watcher, readers, send, close and shutdown,
   composed with `Socket_Taken` of `Server`.
4. `HTTP2Connection`: stream states, flow-control windows, settings and GOAWAY;
   `HPACKTable` as functions against a reference definition.
5. `ServerPush`, `Hotplug`, the retry loop of the client.

Theorems to come: that what `GzRead` delivers is what its buffer held; the window as
history (`WindowIsHistory`, the half of it that needs no induction over data); mutual exclusion of `RW_Semaphore`; the session lock.

## Module Server

`Server.tla` models the protected object `Slots`, the `N` line tasks with the
HTTP/1 handler, `Force_Clean` and `AWS.Server.Shutdown`. Start-up is `Init`: all
lines at the top of their loop.

| Variable | Source |
|---|---|
| `phase`, `sock`, `taken` | `Slots.Table (l).Phase`, `.Sock`, `.Socket_Taken` |
| `count`, `shutdownCount` | `Slots.Count`, `Slots.Shutdown_Count` |
| `pc`, `lsock` | control point and local `Socket` of each `Line` |
| `target`, `held` | the slot a task is shutting down, the pointer it got for it |
| `where` | who holds each socket object; `"lost"`: shut down, never freed |
| `overwritten` | history: slots that `Get_Wait_For_Data` marked while they were `In_Shutdown` |
| `main`, `index`, `shutdown` | `Shutdown`: position, loop parameter, `HTTP.Shutdown` |

A protected operation is one atomic step: so are the pieces of task code between
two of them. `Mark_Phase` is the operator through which every phase change of
the handler goes, with its two ways to raise: the slot was shut down meanwhile
(`Socket_Error`), or it has no socket any more, and with the control points each
exception leads to at that call. `Release` is an action of its own because it is
a guarded entry. `Force_Clean` has two halves, `Abort_On_Timeout` and
`ForceCleanDone`, around the call of `Net.Shutdown`. `Connect`, `AcceptorClose`
and `ForeignClose` stand for the acceptor and for the code that took a socket
over.

Abstractions: requests, headers and answers are reduced to the outcomes that
decide the next control point. Time is a choice: whenever the code compares an
age with a time-out, both outcomes are possible, so every slot in an abortable
phase may be aborted at any time.

## Module Acceptor

`Acceptor.tla` models `AWS.Net.Acceptors` with the socket set and the poll array
under it. `set` is the sequence of sockets (slot 1 the signalling socket, slot 2
the first listening socket); `rev` the `REvents` of every slot of the poll array,
kept as the code keeps them when slots are vacated and reused; `index` and `last`
belong to the acceptor and outlive a call of `Get`; `oldest`, `todo` and
`toClose` are locals of it. `box`, `open`, `bytes` and `wsig` are the mailbox and
the signalling pair; `servers` and `adding` the listening sockets; `main` and
`tries` are `Shutdown`. `alive` says which socket objects are allocated and
`kern` what the kernel knows of each.

`Get` is one action per kind of socket the `Read_Ready` loop meets (`ListenError`,
`Accept`, `NoAccept`, `ClientCloses`, `ClientReady`, `ClientStays`), then `ScanEnds`,
the outcomes of `Wait` (`WaitQuiet`, `WaitSignal`, `WaitShutdown`, `WaitClose`,
`WaitFails`), `Fetch` for each socket of the box and `Flush` for the list of
sockets to close, which is freed outside the semaphore. What poll reports on a
signalling socket whose other end is closed depends on the platform: both
outcomes are modelled.

`AcceptorAbs.tla` is the promise: connections are free, with the acceptor or with
a task; `Get` hands one over, `Give_Back` takes it back until `Shutdown` was
called, shutdown goes one way. `Implements` in `Acceptor` is the refinement, with
`Where` and `State` as the mapping.

`Too_Many_FD` and `Force_Length` only choose between time-outs, and time-outs are
choices; `Close_Length` is a constant.

## The zlib modules

An application calls a stream or a file in any order its *use* allows. A use (a
member of the constant `Uses`, listed in the MC module) says which functions it
calls, with which sizes, levels, flush values, failures and how often; `Init`
picks one, so that one run covers several kinds of application without their
product.

*`Deflate`* keeps the whole `deflate_state` and `z_stream` in one record `s`. A
byte of input is its index in `data`, so every memory move can be followed and
`Uninit` shows memory never written; an output byte is the sequence of marks whose
last bit it carries. `Decoded` reads the output back and gives the history it
stands for. The match finders, the three block functions, the flushes, the header
and trailer states and `read_buf` are actions; how many bits a compressed block
takes is a choice.

*`Inflate`* decodes a stream given as a sequence of elements (header, block type,
code, extra bits, stored byte, check value), each of so many bits. Values of bits
are left out, their number is not: every `NEEDBITS`, `PULLBYTE`, `DROPBITS` and
`BYTEBITS` is there, and a decoder that loses a bit finds no element where it
looks. Every mode of `inflate` is an action; so is every turn of the loop of
`inflate_fast`.

*`GzRead`* and *`GzWrite`* extend `GzLib`, which holds the operators both use.
Each turn of a loop, with at most one system call, is a step. `inflate` and
`deflate` are external in these two: what `gz_decomp` and `gz_comp` see of them. In
`GzRead` a byte of data is its position, in `GzWrite` one more than it, so that a
byte in the wrong place is seen, and a zero of a gap is 0; what `malloc` leaves in a
buffer is 0 or a negative number (`malloc` of a use). `c.pc = "wild"` in `GzRead` is the
state after `gzungetc` has written through the output buffer before there is one: nothing
is defined after it. `full` remembers that `inflate` filled its room exactly with the last
of the input, `ret.over` how much of a pending seek a call has passed over.

*`DynBlock`* composes `HuffTree` (from frequencies to a code), `TreeCode` (the
lengths sent and read back) and `InfTable` (the decoding table). A behaviour is one
block through all three, or one part alone with inputs a small block cannot give
it. `CanonCode` is the reference definition all three are compared with.
`TreeCode` abstracts the tree `build_tree` makes of the bit length codes: any of two complete
codes for the symbols in use (`BlLengths`), since which one it is does not matter to the
lengths sent with it; that `build_tree` makes a complete one is what `HuffTree` shows.

## Runs

| Run | Checks | Shows |
|---|---|---|
| `server_slots` | `TypeOK`, `FreeSlotsExact`, `ReleaseGuarded`, `CloseOwned`, `HeldAlive`, `ShutdownCountExact`, `ShutdownDoneAborts`, `NoResurrection` | with lines that wait on their slots and an impatient `Shutdown`: the slot count is exact, `Release` is closed during every shutdown, a line frees only a socket nobody else uses; a shutdown keeps its slot, its socket and its count until `Shutdown_Done`, unless `Get_Wait_For_Data` marks that slot meanwhile |
| `server_live` | `ReleaseServed`, `ShutdownTerminates` | as long as that has not happened no line waits for ever on `Release`, and `Shutdown` ends every line, waiting ones too, and frees the server |
| `acceptor_owner` | `TypeOK`, `OneOwner`, `ScanInRange`, `SignalMatchesBox`, `Implements` | one owner per socket; the scan stays in the set; `Box.Get` never blocks `Get`; refinement of `AcceptorAbs` |
| `acceptor_listen` | `OpenIsReachable`, `ShutdownClears` | with `Add_Listening` racing `Shutdown`: the box is open only while its signal can be received; nothing is left after `Shutdown` |
| `acceptor_shutdown` | `ShutdownCompletes` | `Shutdown` clears the set and returns |
| `deflate` | `StreamSound`, `FullFlushForgets`, `FlushComplete`, `WindowSound`, `FinishEnds` | the stream always stands for exactly the input taken; flushes are complete and a full one forgets; nothing uninitialised is read; `Z_FINISH` ends however little room there is |
| `inflate` | `StateSound`, `ChunkingInvisible`, `FastInBounds`, `SyncSearchExact`, `InflateEnds` | the result does not depend on how input and room were cut; `inflate_fast` keeps to its bounds; the search for a flush point is exact; every stream ends |
| `gzread` | `BufferSound`, `DeliveredSound`, `EndSound`, `CallReturns` | what a call delivers is the data at the position `gztell` gave, end and errors are reported when they are met, calls return; the exceptions the code has are reached, and stated in the properties |
| `gzwrite` | `BufferSound`, `ReachesFile`, `CallReturns` | what was flushed or closed with success is in the file, with gaps of zeros; calls return; the two exceptions the code has are reached, and stated in the properties |
| `dynamic_block` | `TreeSound`, `HeaderSound`, `TableSound`, `BlockDecodes`, `BlockEnds` | the code is complete, canonical and (unless cut) optimal; lengths arrive as sent; the table decodes every code to its symbol |
| `server_dead_slot` | `SlotNotLost` | a violation: see [below](#where-code-and-documentation-disagree) |
| `server_waits` | `ShutdownWaits` | a violation: see [below](#where-code-and-documentation-disagree) |

All `Server` runs have `KeepAliveLimit = 1` with two lines, the proportion of the
defaults (`Free_Slots_Keep_Alive_Limit` 1, `Max_Connection` 5): lines wait on their slots.
`Get_Wait_For_Data` can then undo a shutdown, and the code has no remedy: the slot is not
`Aborted`, `Shutdown_Count` stays too high and `Release` closed. The model records the slots
this has happened to in `overwritten`. The safety properties exempt these slots and no
others, the liveness properties the behaviours in which there is one; `server_waits` shows
what is promised and then fails.

Every property has a mutant in `PROJECT.json`: a variant of one definition, as a
plausible slip in the code would make it, under which TLC finds the property
violated. A property that is a conjunction has one for each part that says
something of its own. The mutants stand next to the definitions they replace.

Some properties hold for a reason worth knowing. `SignalMatchesBox` survives
`Shutdown` because `Socket_Box.Shutdown` frees the sockets but leaves the (null)
entries in its buffer: were the buffer emptied, the task in `Get` would block on
the entry `Box.Get` for ever with the semaphore held. `OpenIsReachable` depends on
`Shutdown` closing the box before the signalling socket. `FastInBounds` holds
although `inflate_fast` may be entered with up to 14 bits in the accumulator: the
first code uses them up.

## Bounds and fairness

*Server.* Two lines are enough for every interaction in the code, which involves
a line, the owner of the slot it aborts and the task in `Shutdown`; two
sockets, so that an object freed by one line can be reused by another while a
stale pointer exists. `MaxAborts = 3` bounds `Shutdown_Count` for `Force_Clean`
only: with two lines and a correct protocol it does not exceed two.
`KeepAliveLimit = 1` lets a line wait while the other slot is free. `Patient` says whether
`Shutdown` may give up (on the acceptor after four seconds, on the lines after
fifteen).

*Acceptor.* Two callers, as one is in `Get` while the other gives a socket back,
frees its list or waits for the semaphore; two connections, so that one is moved
by the removal of the other. `CloseLength` is small where closing the oldest
connection is to happen, `BackQueue = 1` (in `acceptor_listen` and `acceptor_shutdown`)
lets a full box refuse, `BackQueue = 2` (in `acceptor_owner`) holds both connections and
refuses when it is closed, `Batch = 2` lets one
`Receive` return several commands (16 in the code), `Extra` is one listening
socket in `acceptor_listen`. With `Patient` a second is longer than a task stays
in `Get` once it has been signalled.

*zlib.* The sizes keep the proportions of the code: `w_size` 12 with matches of 3
lets the window of `Deflate` slide several times over 32 bytes of input, with
blocks of three symbols; the window of `Inflate` has 4 bytes and matches up to 5,
so that copies wrap and overlap; the buffers of a gzip file have 3 bytes (6 for
output) and `unsigned` 4 bits, so that reads are cut at every place and the large
paths are taken; codes have up to 4 bits with a limit of 3 that frequencies
exceed. `MaxCalls` bounds the calls other than plain compression or decompression,
for gzip files all calls; `MaxFaults` the failures.

The sockets of `server_slots` and `server_dead_slot` and the callers and
connections of the safety runs of the acceptor are symmetric; the liveness runs
use no symmetry.

Deadlock is checked in `server_slots` and `server_dead_slot`, where the server stops only
when `Shutdown` is over. In `server_live` and `server_waits` it really can stop before:
`Shutdown` is patient there, and a count that is never decremented leaves it waiting for
lines that wait for `Release`. The other runs have `CHECK_DEADLOCK FALSE`: when all callers
have ended and everything is freed, or the application has made all the calls it
may, nothing is left to happen.

*Fairness in Server.* Lines and the task in `Shutdown` keep running: reads,
writes and waits have finite time-outs, the user's callback returns (an
assumption on the user). Strong fairness of `Release`: a caller queued on an entry
of a protected object is served when its barrier opens, before calls that come
later. Nothing is assumed of clients, and `Shutdown` need not be called.

*Fairness in Acceptor.* Lines loop over `Get`, `Give_Back` and closing; `Wait` does
not fail for ever (strong fairness of the steps after a successful poll);
`Shutdown` runs to its end. Nothing is assumed of the network.

*Fairness in the zlib modules.* A function that was called runs on: it is
sequential code (`WF` of the steps of a call in `GzRead`, `GzWrite` and `DynBlock`;
in `Deflate` and `Inflate` a step is always possible and is taken). The application
keeps calling: for `FinishEnds` some of its calls have room for output, and having
asked for the end of the stream it goes on doing so, as `zlib.h` demands; for
`InflateEnds` it hands over the input it has again and again (`SF` of `Feed`).

## Proofs

All results are for every value of the constants under the assumptions named in
the modules; none of them uses the bounds of the runs. What a run checks for two
lines or two connections the theorem states for any number.

### Server

The assumptions are those named in `Server` (`N` a positive natural, the null
socket is not a socket, the bounds are naturals). `ServerProofs.tla` proves:

* `TypeCorrect`: `Spec => []TypeOK`, with `0 <= Count <= N`;
* `CountExact`: `Spec => []FreeSlotsExact`;
* `GuardCoversShutdowns`: `Spec => []ReleaseGuarded`;
* `NoUseAfterFree`: `Spec => []CloseOwned`.

None of the four is inductive. The inductive invariant `IInv` adds

* `TypeInv`: types; `Count` and `Shutdown_Count` only as integers, since their
  ranges follow from what is proved about them;
* `PcInv`: what each control point says about the slot and the local socket (a
  closed slot has no socket; a slot's socket is the one its line has; where a line
  may be once its socket was taken over);
* `LinkInv`: a task has a target exactly between the two halves of a shutdown, and
  holds a pointer only then;
* `OwnInv`: a line that owns its socket is recorded as its holder, and no two lines
  own the same one;
* `CloseInv`: nobody holds a pointer to a socket about to be freed. This one needs
  `ReleaseGuarded`: a line reaches the point of freeing through `Release`, which is
  open only when `Shutdown_Count` is zero, hence when no shutdown is under way.

The argument goes action by action: one lemma per action shows that the part
without cardinalities (`PInv`) is preserved; lemmas on what an action does to the
sets of busy lines, of shutdowns under way and of slots in shutdown give
`FreeSlotsExact` and `ReleaseGuarded` through the cardinality of a finite set plus
or minus one element; `Invariance` combines them.

The second part of `ServerProofs.tla` is about a shutdown under way, from
`Get_For_Shutdown` to `Shutdown_Done`, for every `Free_Slots_Keep_Alive_Limit`:

* `ExactInvariance`: `[]JInv`;
* `ShutdownsCounted`: `[]ShutdownCountExact`;
* `HeldSocketAlive`: `[]HeldAlive`;
* `AbortedStaysDown`: `NoResurrection`, an action property;
* `DoneMeansAborted`: `ShutdownDoneAborts`, an action property.

There is no hypothesis about the configuration; the properties themselves exempt the slots
in `overwritten`. The invariant `JInv` adds to `IInv`: every slot that some task is shutting
down and `Get_Wait_For_Data` has not marked is `In_Shutdown` and has the socket that task
holds, or had it taken over; no other task shuts down the same slot; while `overwritten` is
empty `Shutdown_Count` is the number of shutdowns under way. The two action properties fall
out of the same case analysis.

### Acceptor

For any finite disjoint sets of callers, connections and listening sockets, any
`Back_Queue_Size >= 1`, any `Close_Length` and any size of the buffer `Add_Sockets`
receives into. The invariant is built in three layers. The semaphore and the box, invariant `BoxInv`:

* `BoxGetNeverBlocks`: `[]SignalMatchesBox`. The box holds at least as many
  entries as there are bytes in the signalling socket or in the hands of
  `Add_Sockets`, so the entry `Box.Get`, called with the semaphore held, never
  waits; while the box is open the numbers are equal.
* `OneInGet`: at most one task is inside `Get`.

`SignalMatchesBox` is not inductive: the number of bytes in hand is a local of
the one task inside `Get`, and it is dropped when the box yields a null socket.
`BoxInv` therefore adds that the task which seized the semaphore, and no other,
is inside `Get` (`Exclusion`); that bytes are in hand only while some task is in
the loop over them (`TodoInv`), so that the next `Receive` overwrites none; and
that null sockets are in the box only after `Box.Shutdown` (`NoNullInv`), so that
the equality is lost only when the box is closed.

The scan and the phases of `Shutdown`, invariant `ScanInv`:

* `ScanStaysInRange`: `[]ScanInRange`;
* `GivenBackIsSeen`: `[]OpenIsReachable`;
* `ShutdownLeavesNothing`: `[]ShutdownClears`.

`ScanInv` says that slot 1 of a set that was not cleared is the signalling socket and
`Last` lies in the set; that the task inside `Get` finds such a set; that
`Oldest_Idx` is a slot this scan has passed and holds a connection, which survives
the removals because they put the last socket in the place of one at or behind the
scan (`OldestInv`); and, for each point of `Shutdown`, what is closed already
(`PhaseInv`).

Who owns what, invariant `OwnInv`:

* `SocketsOwnedOnce`: `[]OneOwner`;
* `AcceptorTypes`: `[]TypeOK`;
* `AcceptorImplements`: `Spec => Implements`, the refinement of `AcceptorAbs`.

`OneOwner` is stated over positions in sequences; the proof replaces it by a
partition: the set, the box, each task's connection and each task's list of sockets
to close are holders, and the sockets that are allocated and not leaked are
partitioned among them (`Partition`), with no socket twice in a sequence (`NoDups`).
Every action moves one socket from one holder to another, adds one or drops one;
the lemmas `PartitionMove`, `PartitionJoin` and their like say so once. The refinement
mapping reads the holder of a connection (`Where`) and the point of `Shutdown`
(`State`); `AbsStep` is proved action by action: each changes what a caller sees as
some action of `AcceptorAbs` does, or not at all.

### Inflate

For every window size, every longest match, every set of uses and of streams, and
every way the application cuts input and room. The assumptions are
`SizesAssumption` (the sizes are naturals, a window has at least one byte, a match
may have at least 3, and a preset dictionary is not empty) and
`StreamsAssumption`: what lies at a position of a stream has the shape the deflate
format gives it (`Format`: codes of at most 15 bits, 5 extra bits for a length and 13
for a distance, a match no longer than `MAXLEN`). It holds of damaged streams too,
since it speaks of what the decoder's tables and fields can yield, not of whether it
makes sense there, and TLC evaluates it for the streams of the run.
`InflateProofs.tla`, invariant `Inv`:

* `InflateInvariance`: `[]Inv`;
* `InflateInBounds`: `[]FastInBounds`. Neither loop reads past the input, writes past
  the room or holds more than 32 bits, and `inflate_fast` gives back no byte that
  was not taken in the same call.

`FastInBounds` is not inductive: `inflate_fast` looks at the room once per turn and
not per byte. `Inv` adds

* `BitsInv`: how many bits each mode of `inflate` may find in the accumulator
  (fewer than 8, or fewer than the code, extra bits or field it waits for), from which
  follows what it may hold after the next one;
* `LengthInv`: what `length`, `extra` and `offset` are in the modes that use them;
* `FastInv`: at the top of a turn `next` is before `last` and the output before
  `end`, so 6 bytes and `MAXLEN` bytes of room are left, and there are at most 30
  bits. A turn needs at most 15 + 5 + 15 + 13 = 48 bits, which are those 6 bytes, and
  fills the accumulator to 32 bits at most;
* the last conjunct of `FastInv`, and `EndInv`: the bits in hand were taken in this call,
  up to 7 of them aside, *or* they are the beginning of the code that comes next. The
  second alternative is the state that the comment in `inffast.c` excludes (see
  [below](#where-code-and-documentation-disagree)): `inflate_fast` may be entered with up to 14 bits. The first code uses
  them up, so that the whole bytes given back at the end are always this call's;
* `WindowInv`: `whave` bytes of the window have been written, and until it is full
  they are the ones before `wnext`. `updatewindow` keeps this wherever a call ends;
* `InputInv`, `OutputInv`, `CallInv`: `next` and `avail_in` stay within the stream, and
  what a call has used and written is no more than what it was given.

One lemma per mode, per part of a turn of `inflate_fast` (`FastStepKeeps`,
`FastEnterKeeps`, `FastEndKeeps`, `FastCopyOK` for a match that lies in the window, in
the output or in both) and per call shows that `Inv` is preserved.

### GzRead

For every size of the buffers and of `unsigned`, every file, whether raw, of gzip members or
damaged, however it grows while it is read, all short and failing reads, and every order
of calls. The assumptions are `GzSizes` and `UsesAssumption`: lengths and buffer sizes are
unsigned, and a file is `FileOK`:

* its bytes complete the data of the file in order, those of raw data none, and it does not
  shrink;
* the header of a member is written in one piece (the file may still end in it): `gz_look`
  takes a lone first byte for garbage, and goes on behind it when `eof` is cleared and the
  file has grown;
* behind the last member either a header or nothing that completes any data; else
  `gz_look` could find a member in the middle of garbage (see
  [below](#where-code-and-documentation-disagree)).

TLC evaluates them for the files of the run. One hypothesis is about the application:
`Clears` is the action "`gzclearerr` is not called after a fatal error", which leaves a
hole where the read failed. `GzReadProofs.tla`, invariant `PlacedInv`:

* `ReaderInvariance`: `Spec /\ [][Clears]_vars => []PlacedInv`;
* `ReaderBuffers`: `Spec /\ [][Clears]_vars => []BufferSound`;
* `ReaderFatal`: `Spec /\ [][Clears]_vars => []FatalMeansEmpty`.

A `gzungetc` before there is a buffer ends a behaviour of the model (`c.pc = "wild"`):
`BufferSound` says that it is the only write outside of the output buffer
(`WildUnread`), and nothing is claimed of a program after it.

`BufferSound` speaks of the output buffer only. What gets there comes from the input buffer
through `inflate`, so `PlacedInv` follows the data on its way:

* `InputInv`: the input buffer holds the bytes of the file from `Here` to the descriptor.
  Bytes left in it at the end of the file reach to an end the file has or had, so that
  none lies half-way in a header;
* `MemberInv`: `x.pos` plus what is in the buffer, what `gz_decomp` has made and what
  `inflate` keeps back is the length of the data before `Here`, and each of them is the
  next piece of it; when `gz_look` is next, a member begins at `Here` or nothing comes
  any more (`Resumes`);
* `PlaceInv`: the same for raw data, where the position follows the descriptor, and for a
  file not looked at yet, which is at its start. `direct` tells raw data from members;
* `CallInv`: `gz_fetch`, `gz_look` and `gz_decomp` start with an empty buffer; what
  `gz_decomp` has made and the room left are what it was given;
* `FatalInv`: a fatal error empties the buffer. Without memory for a message it does not
  (`Z_MEM_ERROR`), and the call in which that happens runs on: `Sound` is the condition
  under which the data is still where it belongs.

The lemma about the external `inflate` (`InflateOK`) says that what it takes and returns
is the data that follows, whatever room it is given and wherever the member ends. There is
one lemma `...Placed` per action; those about `gz_look` and `gz_decomp` split into one per
outcome.

### GzWrite

For every size of the buffers and of `unsigned`, every set of uses, all short and
failing writes, and whatever `deflate` takes, holds back and puts out. The assumptions
are `GzSizes` and `UsesAssumption` (lengths are unsigned; `gzsetparams` is given a level
and strategy `gz_open` may also find; `flush` is one of the values `gzflush` accepts or
refuses; `malloc` gives zeros or something else). One hypothesis is about the use that the
application makes of the file, `app.use`, which never changes:

* `Careful`: where something may fail (`Faults` is not empty) the use has no `gzclearerr`,
  so it does not go on after an error.

The uses `mixed`, `seek`, `fault` and `finish` of the run satisfy it; `clearerr` and
`refused`, in which errors are cleared, stay with TLC. The invariant is `Inv`, in
`GzWriteLemmas.tla`; `GzWriteProofs.tla` proves

* `GzWriteInvariance`: `[](Careful => Inv)`;
* `WriterBuffers`: `[](Careful => BufferSound)`;
* `WriterGaps`: `[](Careful => GapsAreZero)`;
* `WriterFlushes`: `[](Careful => FlushReaches /\ ClosedIsExact)`;
* `WriterReaches`: `[](Careful => ReachesFile)`.

What the code does wrong is in the properties, not in a hypothesis
([below](#where-code-and-documentation-disagree)): a gap in front of all data is what
`malloc` left (`GapsAreZero` says that no other gap is), and after a `Z_FINISH` that failed a
second one may succeed and leave the end of the member in the output buffer
(`LeftBehind`). `LeftIsEnd` in the proof is what makes the second exception that
narrow: what is left ends with the trailer of the member, and no accepted input waits.

`ReachesFile` speaks of the file after a call has returned, and says nothing of the
data on its way there. `Inv` does:

* `DataInv`, the heart of it. `Data` is what the cells in the file, in the output buffer
  and in `deflate` decode to, then what `deflate` holds, then the input that waits. It
  is what was accepted, except for what the formatted text of a `gzprintf` in progress
  has in the second half of the buffer (`c.rest`), and except, after a failure, for what
  the call that failed had not handed over (`Broken`). So each step that moves data
  leaves `Data` alone, and each step that accepts data appends the same to `Data` and to
  `acc`;
* `CallInv`: the bytes of the call in progress are the last ones of `acc`, up to what is
  left. From it follows that the bytes acknowledged at the end of the call are there;
* `InputInv`: `next_in` is at the start of the library's own buffer whenever a small
  write, `gzputc` or `gzprintf` computes its place from it;
* `FinInv`: `deflate` was told to end the stream only in `gz_comp(Z_FINISH)` or in a call
  of it that failed. It makes `CompCorrupt` impossible: `deflate` never gets
  input after the end (`CompCorruptNever`, a lemma), and the message "internal error:
  deflate stream corrupt" is never given;
* `ShapeInv`: what is on its way forms members, and a header is still missing exactly
  when `deflate` has not begun one;
* `DrainInv`: what is empty when a flush or a close reports success. It needs the
  condition in `gz_comp` under which the buffer is written: with `Z_FINISH` only when it is
  full or `deflate` has returned `Z_STREAM_END`;
* `ControlInv`, `EmptyInv`, `HurtInv`: where a call may be and with which arguments, what
  is empty before there are buffers and in a transparent file, and that after a failure
  only `gzclose` goes on.

That `Decoded` of two sequences of cells is the one decoded after the other takes
induction over data. The lemma `UpTo` (in `GzLibProofs`) does it for a set of naturals, from the
well-foundedness of `<`; the function behind `FlattenSeq` exists and is unique by it
(`FlattenExists`, `FlattenUnique`), and everything else about `Decoded` follows. Then
there is one lemma per branch of each action, `...Keeps`; those about `deflate` go
through `Deflating`, what any call of it does to `Data` and to the shape.

`FlushReaches` knows by `ret.flush` which flush was asked for. The model keeps the
argument of `gzflush` (`c.arg`) apart from that of `gz_comp` (`c.flush`), since `gz_zero`
calls `gz_comp` with `Z_NO_FLUSH` first when a seek is pending.

### Only model-checked

* Liveness (`ReleaseServed`, `ShutdownTerminates`, `ShutdownCompletes`, `FinishEnds`,
  `InflateEnds`, `CallReturns`, `BlockEnds`): fairness and `ENABLED` are beyond the
  prover.
* The other invariants of the zlib modules. They compare sequences with recursively
  defined references (what a stream decodes to, what a window should hold, an optimal
  code), which takes induction over data, for each of them by hand as in `GzLibProofs`.
* `BufferSound` and `ReachesFile` of `GzWrite` for an application that clears errors: the
  uses `clearerr` and `refused`.
* `DeliveredSound` and `EndSound` of `GzRead`, except for `FatalMeansEmpty`. What lies in
  the buffer is proved, not that a call hands it over without a gap and knows the end.
* `HuffTree` declares a `RECURSIVE` operator (`pqdownheap`), which the prover does not
  handle; `DynBlock` uses it.

Every safety property of the runs of `Server` and `Acceptor` is proved, those of
`GzWrite` for careful applications, of those of `GzRead` the one about its buffers and of
those of `Inflate` the one about memory.

## Where code and documentation disagree

Kept as runs:

* `server_dead_slot`. `aws-server-protocol_handler.adb` says "We must never exit
  the loop with an exception". Two exception handlers call `Mark_Phase`, which
  raises when the slot was shut down meanwhile: the line dies with its slot.
* `server_waits`. `aws-server.ads` says that `Shutdown` "waits for all tasks to terminate
  properly before releasing the memory", and of `Shutdown_Done`: "Called when Shutdown is
  complete, Slot phase is set to Aborted". `Get_Wait_For_Data` assigns `Wait_For_Client`
  without the check `Mark_Phase` makes; when a line does so between `Get_For_Shutdown` and
  `Shutdown_Done` of another task, `Shutdown_Done` does nothing and `Shutdown_Count`
  stays positive: `Release` is closed for ever, lines block there and never end.
  The defaults allow it (lines wait while more than one slot is free). Every other property
  of the shutdown is stated up to this one step, see `overwritten` above.

The models show more disagreements. They are described here because they bound
what the properties can say. Where nothing else is noted the run reaches the case, and
the property about it names the case as its exception.

*AWS.*

* The wait of `Shutdown` has an end, too: it gives up after fifteen seconds, whatever the
  lines do. `server_slots` lets it give up (`Patient = FALSE`), the liveness runs and
  `server_waits` do not.
* `Get` of the acceptor "Returns a socket from the internal socket set which has data
  to read". `Poll_Events.Add` does not reset the `REvents` of the slot it reuses, and
  a removal at a lower index moves the new socket into the range being scanned: a new
  connection is closed with the error status of one removed before, or returned with
  nothing to read. It takes three connections; the ownership properties hold all
  the same.

*Deflate.* The stream is correct in all of these.

* After `deflateParams` from a fast to a slow level `longest_match` is entered with
  `prev_length` 0, against its comment.
* After `deflate_stored`, a change of level and a slide of the window
  `strstart - insert` may be negative (`fill_window`).
* `deflateEnd` returns `Z_OK` when it discards pending output in `FINISH_STATE`,
  where `zlib.h` promises `Z_DATA_ERROR`.
* When the empty block of a flush just fills the output, the next call with the same
  flush writes another.

*Inflate.*

* `inflate_fast` may be entered with more than 7 bits in the accumulator, against the
  comment at its end; `FastInBounds` shows that it does no harm.
* `inflateSync` shifts the accumulator the wrong way (`hold <<= bits & 7`) and may
  miss a marker that begins in it; `SyncSearchExact` is about the search itself.

*Reading gzip files.*

* `gzgetc` does not look at a pending seek when there is data in the buffer, "no need to
  check for skip request"; `gzdirect` can put it there. The byte that is returned is not
  the one sought (use `over`; `DeliveredInPlace` says by how much it is off).
* `gzgets` reads on at the end of a raw file that has grown, with `gzeof` still true, where
  `zlib.h` says that there is "no more data, unless the end-of-file indicator is reset"
  (use `again`; `EofMeansNoMore`, `DeliveredInPlace`).
* `gzungetc` right after `gzopen` writes through an output buffer that is not allocated,
  where `zlib.h` says "If gzungetc is used immediately after gzopen or gzdopen, at least the
  output buffer size of pushed characters is allowed". In the model this ends the behaviour
  (`PushFirst`, `WildUnread`).
* `gzclearerr` after garbage behind a member lets the rest of the garbage be read. The files
  of the uses that clear have no garbage.
* When the last input of a file that is cut off just fills the output, what `inflate` still
  holds is not delivered, and the cut is not reported: `gzclose` returns `Z_OK`, where
  `zlib.h` promises `Z_BUF_ERROR` (use `cut`; `EofMeansAll` allows the loss in such a file
  only, `TruncationReported` says that this is the only silent case).
* An error that becomes `Z_MEM_ERROR` because its message cannot be allocated leaves
  data in the buffer (use `fault`; `FatalMeansEmpty`).

*Writing gzip files.*

* A seek made good before anything was written writes the buffer as `malloc` left it
  (`gz_zero` clears `size` bytes, and `size` is still 0), where `zlib.h` says that `gzseek`
  "compresses a sequence of zeroes up to the new starting position" (use `seek`;
  `GapsAreZero` says that this is the only such gap).
* `gzseek` relative to the start drops a pending seek, and so can go back.
* `gzsetparams` ignores that `deflateParams` did not change anything for lack of room,
  and calls it for a transparent file too.
* `gzclose` after `gzflush(Z_FINISH)` adds an empty member.
* When `write()` fails in a call with `Z_FINISH`, a second one, in `gzclose` say, puts
  out nothing and reports success; what was pending is lost, although `gzclose` "flushes
  all pending output" (uses `fault` and `refused`; `LeftBehind` in `ClosedIsComplete` and
  `FlushReaches`).
* A large `gzwrite` that fails, followed by `gzclearerr`, leaves `next_in` in the
  application's buffer. The lengths of the use `clearerr` leave this out.

*Huffman codes.* A code whose lengths had to be cut need not be optimal for the limit
(`gen_bitlen` says it is); the node `build_tree` forces may be 2 where the comment says
"0 or 1". Neither makes a block wrong.

## What is not modelled

HTTP/2, sessions, the WebSocket registry, utils beyond the semaphore, transient
pages, push and hotplug are planned. The rest of AWS is sequential parsing,
formatting, input and output, bindings to C libraries, or tools; `PROJECT.json`
gives the reason part by part. Within the modelled parts: starting a server again
after a shutdown (a second `Listen` on the same acceptor), statistics and accessors,
the reallocation of the poll array, and memory exhaustion are left out.

Of zlib: checksums (a check value stands for the bytes it covers), `inflateBack`,
which AWS does not use, `deflateCopy`, `inflateCopy`, `inflatePrime`, `inflateMark`,
changes of the window size, allocation failure in `deflate` and `inflate` (in the gzip
files it is modelled), and the one-call functions.
