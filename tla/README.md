# Specifications of preview2-prototyping

TLA+ models of the WASI preview 1 to preview 2 *component adapter*
(`src/crates/wasi-preview1-component-adapter`) over the host implementation it
calls (`src/wasi-common`, `src/wasi-sockets`), checked with TLC and, for
most of them, proved with TLAPS. Line numbers below are those of the repository; `lib.rs` and
`descriptors.rs` are the adapter's.

## 1. The system

A preview1 program (the *main module*) calls preview1 functions (`fd_read`,
`path_open`, ...). The adapter, linked into the same component, implements
them with imports of preview2 interfaces, which the host implements over its
resource table. There is one thread: what makes the code hard is not
parallelism but

- state split over three places (the adapter's table, the adapter's positions
  and caches, the host's table and streams) that a long sequence of legal calls
  must keep together;
- calls that nest: the host calls `cabi_import_realloc` of the adapter in the
  middle of an import, and the adapter calls `cabi_realloc` of the main module,
  which may call the adapter again, before the adapter has any state;
- calls that fail half way.

### Inventory

| Component | State | Operations | What makes it correct |
|---|---|---|---|
| Descriptor table (`descriptors.rs`) | slots, `table_len`, free list through the closed slots | `path_open`, `fd_close`, `fd_renumber`, `fd_seek`, creation of streams | no stale or shared host handle, no lost slot, no replaced descriptor, failures change nothing |
| File calls (`lib.rs` 539-1232) | `position`, `append`, cached streams; positions of the host streams | `fd_read`, `fd_write`, `fd_seek`, `fd_tell`, `fd_pread`, `fd_pwrite`, flags, size | one offset per descriptor, as in POSIX; append mode appends |
| Directory listings (`lib.rs` 858-1085) | `dirent_cache` | `fd_readdir`; `fd_close` and `fd_renumber` against the cache | each entry once, whatever else uses the cache; listings end |
| State and allocation (`lib.rs` 83-234, 2085-2381) | allocation state, borrows, import allocation mode, lazy members | every exported function, `cabi_import_realloc`, `cabi_export_realloc` | one State, no trap, borrows and modes belong to the calls in progress |
| `poll_oneoff` (`lib.rs` 1565-1827) | two overlays of the event buffer | `poll_oneoff` | events do not clobber results; pollables dropped on every path |
| Paths and attributes (`lib.rs` 417-789, 1236-1520) | the type of each descriptor | `path_*`, `fd_filestat_*` | granted rights hold; failures change nothing; the tables of adapter and host agree |
| Arguments, environment, preopens, clocks, exit (`lib.rs` 83-416, 638-789) | three lists in the arena, the arena and its import mode | `args_*`, `environ_*`, `fd_prestat_*`, `clock_*`, `random_get`, `proc_exit` | what the host gave comes back unchanged, whichever call comes first; only a full arena traps |
| Host context (`ctx.rs`, `preview2/env.rs`, `clocks.rs`, `random.rs`, `exit.rs`, `preview1/mod.rs`) | the builder, the keys it has pushed | `build`, the imports of the row above | a failed build gives no context; preview1 of the host and of the adapter answer alike |
| Host table (`table.rs`) | map from keys to resources, next key | `push`, `get`, `delete` | no live key is replaced, also when keys wrap |
| Host scheduler (`sched/`, `preview2/poll.rs`) | subscriptions of a call | `poll_oneoff` | only ready subscriptions are reported, timeouts end |
| Host streams, pipes, stdio (`stream.rs`, `pipe.rs`, `stdio.rs`, `preview2/io.rs`) | bytes that wait at each end | `read`, `write`, `skip`, `splice`, `write_zeroes` | bytes are neither lost nor invented |
| Host filesystem (`filesystem.rs`, `preview2/filesystem.rs`) | files, directories, permissions | `open_at`, `read`, `write`, streams, directory entries, ... | permissions are not widened; no call traps |
| Sockets (`wasi-sockets`) | counted references from table entries to sockets of the system | `create`, `bind`, `listen`, `accept`, `connect`, `shutdown`, `drop` | a socket is open exactly while something refers to it; no entry nobody knows of |
| Guest HTTP client (`wasi/src/http_client.rs`) | handles of a request | conversion of a request and of a response | not modelled: no host here runs it (section 6) |
| Build script, verifier, panic macros, bindings, command line | - | - | not modelled: generated code, build time, pure I/O |

Components interact by calls only: main module -> adapter -> host, with the
two calls back described above. `PROJECT.json` lists every component with its
files, and under `hazards` what is hard to test in them.

## 2. The modules

### Descriptors: the descriptor table

`Descriptors.tla` models `descriptors.rs` and the calls of `lib.rs` that only
touch the table. A slot is uninitialised, `Closed(next)` or `Streams(..)` with
up to three handles of the host; `live` is the set of handles the host holds.
The host is modelled by its promise not to answer with a handle that is live.

| Action | Code |
|---|---|
| `PathOpen` = `PathOpenFails`, `GetTypeFails` or `Open` | `path_open` (lib.rs:1350-1391), `Descriptors::open` (235-253) |
| `Push`, `PushFull`, `Pop`, `PopTraps` | `push` (204-215), the free list in `open`; `PopTraps` is its `unreachable!()` |
| `Close` | `close_`, `close` (275-292), `Drop for Descriptor` |
| `Renumber` | `renumber` (303-316): expansion with closed slots (`Expanded`), failure after it, the move (`Vacated`, `RenumberMoves`) |
| `GetReadStream`, `GetWriteStream` | descriptors.rs:57-104 |
| `FdSeek` | `fd_seek` (lib.rs:1103-1141), which forgets both streams |

`FdTable.tla` is the promise: a partial map from descriptors to objects.
`DescriptorsRefinement.tla` states that the table implements it, reading off
each slot the handle that says what the descriptor is.

`renumber` overwrites a closed slot where it stands in the free list (section 5), so
what the free list promises depends on the guest. `DescriptorsDiscipline.tla`
runs any guest with a history variable, `disciplined`: every `fd_renumber`
that succeeded went onto *another open* descriptor. `FreelistWhileDisciplined`
holds as long as it does; the other properties hold of every guest.

### FileStreams: reading and writing

`FileStreams.tla` has, for each descriptor of one file, the adapter's
`position` and `append` and the positions of the two cached host streams
(`None` before the first use, `Appending` for a `FileAppendStream`). Each
action is one call with all its outcomes: empty buffers, host errors, interrupted
and short reads, short writes. Offsets are `u64` with the casts to `i64` of
`fd_seek`, scaled to `MAX_OFFSET`.

`PosixFile.tla` is the promise of the comments ("similar to `readv` in POSIX"):
one offset per descriptor. `DisciplinedSpec` is the rule of C's stdio: a guest
seeks when it turns from reading to writing or back, and sets the append flag
before it writes. With it `FileStreams` implements `PosixFile`.

### Readdir and ReaddirWalk: directory listings

`Readdir.tla` models `fd_readdir` with its iterator (dots by cookie, cached
entry, entries of the host), the cache, and `path_open`, `fd_close` and
`fd_renumber` as far as they change what a descriptor names. Names are atoms;
buffers are measured in halves of an entry, so an odd buffer cuts its last
entry short and an even full one ends with a whole entry.

`ReaddirWalk.tla` composes it with guests that list whole directories, as the
test program `fd_readdir.rs` does (55-66, 167-178), while other code uses the
same cache. Its history variable `disciplined` tells that no guest so far has renumbered,
reopened what is listed, brought a buffer without room for more than the rest of `.` and `..`, or
used a cookie from elsewhere (`Strays` is the step that does). Each of these is needed: without it TLC
finds a listing that repeats, mixes or invents entries (section 5). `CacheTogether` holds
of every guest.

### AdapterState: creation, borrows, nested calls

`AdapterState.tla` has the call stack as a sequence of frames. A call passes
the stack-allocating prologue, its guard, `State::ptr`/`State::new`, the borrow,
the lazy descriptors and lists, its body with buffer imports, and returns;
imports and `cabi_realloc` are points where other calls enter. External: the
prologue `wit-component` adds, and the main module. `Function` is divided by
what matters here: guarded or not, mutable borrow or not, use of descriptors,
lists and buffers. `Unreachable` collects every place where such a call would trap.

`CalmSpec` restricts the main module's `cabi_realloc` to guarded functions,
which is what the guards are there for.

### Table, HostPoll, PollOneoff: waiting

`Table.tla` is the resource table of the host, with keys that wrap. `HostPoll.tla`
extends it with `poll_oneoff` of the host: the conversion of pollables into
subscriptions (`Collect`), the call of the operating system with its timeout in
milliseconds (`OsPoll`), signals that start it again (`Signal`), and which
subscriptions are reported (`Completed`, `Elapsed`). Time is a clock that ticks
while the call waits. `PollOneoff.tla` is `poll_oneoff` of the adapter on top of it.
The buffer of the events is an array of bytes, each remembering what it was last
written as, so that a pollable or a result is read back as what memory holds:

| Action | Code |
|---|---|
| `Call`, `Subscribe`, `SubscribeFails`, `SubscribeTraps` | the first loop (lib.rs:1619-1680) with `Pollables::push` and the host's `subscribe` |
| `HostPoll`, `HostPollTraps` | the import, as far as the scheduler's scan of the streams (sync.rs:16-76) |
| `HostAsks`, `HostInterrupted`, `HostAskTraps`, `HostErrorTraps` | the loop around the operating system's poll (sync.rs:81-107) |
| `HostAnswers` | statuses, `poll.results()`, the list of results in the buffer |
| `DropPollable`, `Dropped` | `Drop for Pollables`, after the poll and on every error |
| `WriteEvent`, `Finish` | the second loop (lib.rs:1696-1824) |
| `OtherPush`, `OtherDelete`, `TimePasses` | the rest of the program, and time |

### FileTree, HostFilesystem, FilesystemCalls: paths and permissions

`FileTree.tla` is what the host expects of the operating system and cap-std: nodes,
names, links, devices, which creation, removal, link or rename is possible. It is
external. `HostFilesystem.tla` has the resource table (files and directories, their
permissions, the modes a file was really opened in) and the calls of
`preview2/filesystem.rs`: each checks its permissions, then changes the tree, fails or
traps. `FilesystemCalls.tla` has the calls of the adapter on top: `On` is the lookup of the
descriptor (`get_dir`, `get_file`) before the one call of the host.

| Definition | Code |
|---|---|
| `MayOpen`, `Options`, `OsOpen`, `Opened` | the stages of `open_at` (filesystem.rs:453-549): checks, options, the operating system, the type and permissions of the result |
| `open_at`, `open_at_fails` | the same with success, failure after opening, failure before |
| `ReadViaStream`, `WriteViaStream` | the streams, which skip the permission check (filesystem.rs:704), and a read or write of them |
| `DoesOnDevice` | `From<std::io::Error>` (833-846) for EXDEV |
| `PathOpen`, ... `FdClose` | the calls of lib.rs of that name |

A path is a name of one directory; sandboxing of longer paths is cap-std's. The contents of
a node are one bit: changed or not. Arguments are otherwise valid (paths are UTF-8, buffers
are not empty, times do not contradict themselves), and the operating system fails for the reasons
modelled only. A descriptor is named by its host handle, since `Descriptors` shows that
handles are not shared; the failures between `open_at` and the slot are in `Descriptors`.

`fd_fdstat_get` has two halves: the host's `get_flags` and `get_type`, and the rights that the adapter derives
from the permissions of the descriptor (`FdFdstatGet`). `RightsReported` relates its
answer to what the file was opened to do, when the preopens hand on the same permissions to
directories and to files (`PermsAgree`).

### Arena, HostContext, Arguments: what a guest is started with

`Arena.tla` is `BumpArena` and `ImportAlloc` (lib.rs:83-234): memory as an array of bytes, each of
which remembers what it is part of, so that a list of strings is really read back through the
pointers and lengths the host stored. `HostContext.tla` is `WasiCtxBuilder::build`, the imports that read the
context, and the host's own preview1 as far as it is written. `Arguments.tla` composes
the two with the calls of the adapter. An import is not one step: the host calls
`cabi_import_realloc` for the list and for each string, in between its own writes.

| Action | Code |
|---|---|
| `BuildPushes`, `BuildEnds` | `WasiCtxBuilder::build` (ctx.rs:106-157), which pushes before it checks the rest |
| `Allocates`, `CallUnready`, `CallStateless`, `CallReady` | the guards of the calls while memory is being allocated (AdapterState has the reentrant calls) |
| `Imports`, `ListAllocated`, `StringAllocated`, `ListReturns` | `State::get_args`, `get_environment`, `with_arena`, `BumpArena::alloc` |
| `PreopensReturn` | `Descriptors::new` (descriptors.rs:133-202), a push for each preopen |
| `RandomImports`, `RandomAllocated`, `RandomReturns` | `random_get` with `with_buffer` |
| `ImportTraps` | mode in use, State borrowed, arena or buffer too small |
| `AnswerList`, `AnswerClock`, `AnswerPrestat` | the ends of the calls: copies, sums, conversions |
| `AnswerFd` | `fd_close`, `fd_renumber`, `path_open` under the list of preopens, which they do not change; the table is the one of `FdTable`, so the `unreachable!()` of the free list (descriptors.rs:244) is in `Descriptors` only |

### HostStreams, Sockets: streams and TCP

`HostStreams.tla` has the streams by what they lead to (`End`: a pipe, a file, a socket). Bytes are counted, not
valued. They arrive, and ends close, in the middle of a call, so each loop is taken step by step, with
interrupted reads, short writes and errors. `Sockets.tla` adds TCP sockets: a socket
in the table and its two streams are clones of one `Arc` (`refs`), and a call that returns several resources pushes them
one by one.

| Action | Code |
|---|---|
| `Read`, `Skip`, `Write`, `WriteZeroes`, `DropStream` | `preview2/io.rs`: the lookup by key and type; `splice` and `forward` of the interface are `todo!()` (`SpliceOrForward`) |
| `Splice`, `SpliceLoop`, `SpliceSource` | `OutputStream::splice` between two streams of an embedder: which loop, and what it reads. Onto a socket it copies from the file descriptor of the source (`Fd`; net.rs:350), which for a file is another end than the stream: the stream stays where it was |
| `ReadOnce`, `WriteOnce` | one read or write of the system |
| `EachRead`, `EachWrite` | the loops of the traits for `skip` and `splice`, byte by byte (stream.rs:43-65, 116-137) |
| `CopyMoves`, `CopyEnds`, `CopyZeroes` | `io::copy` of pipes, standard streams, sockets and file descriptors |
| `ZeroWrite` | the loop for `write_zeroes` |
| `Recurse` | the fallback of `TcpSocket::splice` (net.rs:357) |
| `CreateTcpSocket`, `InstanceNetwork`, `Bind`, `Listen`, `Connect`, `Shutdown`, `Inquire` | the calls of those names in `tcp.rs`, `network_impl.rs` and `net.rs`; any of them may fail, which traps |
| `Accept`, `Accepted`, `AcceptFails` | `accept`: it blocks, then has a socket and two clones of it |
| `PushNext`, `PushFails` | the pushes of a call's results, one of which may find the table full |
| `Drop` | the drops of sockets, networks and streams |
| `Unimplemented` | options that are `todo!()` |
| `Arrives`, `Ends`, `PeerConnects` | the other side (external) |

## 3. The runs

`Sockets_any` takes about two minutes, `Filesystem_any` one and a half, `Readdir_walk` one, the
others less.

| Run | Module, bounds | Shows |
|---|---|---|
| `Descriptors_any` | 5 slots, 1 preopen, 5 handles (symmetric), guest fds 2..5; 17385 states | `HandlesLive`, `HandlesUnshared`, `FreelistWhileDisciplined`, `LeaksNowhereElse`, `FailedCallsKeepDescriptors`, refinement of `FdTable` |
| `Descriptors_freelist` | same, violation | the free list can point to an open slot |
| `FileStreams_disciplined` | 2 descriptors of one file, offsets to 2; 49218 states | `TypeOK`, `InSync`, `AppendsAppend`, refinement of `PosixFile` |
| `FileStreams_append` | 1 descriptor, violation | append mode that overwrites |
| `Readdir_walk` | 2 descriptors, directories of 3 entries (one long name) and 1, buffers to 9 halves, one listing; 8799 states | `CacheTogether`, `CacheCurrentWhileDisciplined`, `ListsWhileDisciplined`, `ListingsEnd` |
| `AdapterState_any` | one function of each kind; 523 states, the whole state space | `ModesMatchImports`, `BorrowsMatchCalls`, `CreatedOnce`, `TrapsExplained`, `CallsReturn` |
| `AdapterState_firstuse` | calm main module, violation | the first use of descriptors by `fd_close` traps |
| `Poll_any` | 2 subscriptions of 10 kinds, 4 keys, 2 other resources, 1 signal, events of 3 bytes and pollables of 2; 546732 states | `NoClobber`, `EventsMatch`, `TableRestored`, `SleepsLongEnough`, `SomethingReported`, `CallsKeepOthers`, `ClockPollsEnd` |
| `Filesystem_any` | 6 nodes, 2 names, 3 handles, 2 preopens (one read-only); 120288 states | `ReadOnlyKept`, `TableMatches`, `RightsHonoured`, `RightsReported`, `FailedCallsChangeNothing` |
| `Filesystem_devices` | two writable preopens on two devices, violation | a rename or link between devices traps |
| `Sockets_any` | 5 keys (2 of them standard streams), 2 sockets, a pipe and a file with the offset of its descriptor, 5 resources; 1011126 states | `RefsMatch`, `EntriesTold`, `BytesAccounted`, `EndMeansEnd`, `CallsEnd` |
| `Arguments_any` | 6 builders, an arena of 36 bytes, words of 2, 5 descriptors, 2 opens; 294043 states | `SameAsHost`, `TrapsOnlyWhenFull`, `RegionsApart`, `StartupInPlace` |

The type invariants of Descriptors, Filesystem, AdapterState and FileStreams are proved (the last is also run, because it
says that offsets stay representable); those of the other modules are there for the reader.

Why the bounds are enough.

Descriptors: five slots allow a free list of two
besides stderr and the preopen, a full table, renumbering within, beyond
`table_len` and beyond the table; five handles run out before the slots do when streams are
created, which only disables opens. Files: three offsets and buffers of two
bytes give gaps, overwrites, short reads and both ends of the offset range. Listings:
a buffer of 9 halves holds all five entries of the longer listing but the last name, the smaller
ones force the listing to resume at every entry. Polls: four keys wrap after a few calls and are
full with two other resources and one pollable; sizes of 3 and 2 bytes are the tightest the
assertion of lib.rs:1584 admits; u64 is 4 bits and a millisecond 2 ns, so that one deadline
overflows the sum, one overflows the timeout and the others round up. Files by path: a read-only directory with a file and a
link to it, a writable one with a file, one node to create and one
handle to open it with; two names are enough to link, rename onto, and go in a circle; `MCOpenArgs` are
the combinations of flags that differ in what `open_at` does with them.
The state of `AdapterState` is finite by itself, since
a trap ends it and guards stop the recursion. Sockets: standard input and output take keys 3 and 4, and the next keys wrap to 0, 1 and 2. A listener leaves
two of them, a listener and its network one, so that an `accept`, which pushes three entries, fails
at its first, second or third push, and succeeds once a standard stream is dropped. Two sockets are a listener and
its connection, or a connected socket and a new one that reuses a closed one. `MaxMade` bounds the resources ever made.
The embedder splices any two streams of the table, and a pipe or a file it keeps to itself (`Kept`) onto a connection, since five
keys leave no room for a standard stream beside a connection: so the fallback that recurses and the copy
from a descriptor are both reached.
Calls move at most two bytes with one waiting, which is enough for a call that is satisfied at once, that is
satisfied by a byte that arrives during it, and that ends half way. Arguments: the six
builders have empty and longer strings, a list of each kind that is empty, lists that fit the arena together and
lists that do not (36 bytes of words of 2 are reached with three short lists), more preopens than slots, and two builds
that fail; times are below 4, with 2 ns in a second, so that the product overflows, the sum alone does, and neither does.

Deadlock is not checked where a program may stop: when every handle is in use,
when positions run out of the bounded offsets, or after a trap.

### Fairness

`ReaddirWalk`: weak fairness of the successful call of each listing, spelled out for the states in
which it is enabled (the listing goes on and no guest has strayed): a guest
that lists keeps calling, and not every call fails. It says nothing of which buffer
it brings. `Sockets`: weak fairness of the steps of a call (`Step`, `Accepting`, `Pushing`); none of guests
and peers, so `CallsEnd` speaks of calls whose stream has ended or whose connection is there. `AdapterState`: weak fairness of the running call's steps, and strong
fairness of the ends of imports, of `cabi_realloc` and of calls: the host
allocates finitely many times for an import, `cabi_realloc` of the main module
calls the adapter finitely many times, and a call has finitely many imports. `PollOneoff`: weak fairness of the code's steps, of time, and of the
return of the operating system when the time is up; none of a stream becoming ready, so a poll of
streams only may wait for ever. Signals are finitely many. All are
properties of sequential code that returns; none is a scheduler's.

## 4. The proofs

Every theorem holds for every value of the constants that satisfies the named assumptions
(`DescriptorsProofs.tla`, `FileStreamsProofs.tla`, `PollProofs.tla`, `FilesystemProofs.tla`, `ArgumentsProofs.tla`,
`SocketsProofs.tla`, `AdapterStateProofs.tla`, `ReaddirProofs.tla`). Every safety property that a passing run checks is
the statement of a theorem; what is left to TLC is liveness; the inductive invariants
were checked by TLC on the instances of the runs before they were proved.

Descriptors, from `ConstantsAssumption` (the preopens fit, guest fds are
naturals, `None` is neither an fd nor a handle):

- `TypeCorrect`: `TypeOK` is inductive because it says more than types: exactly the
  slots below `table_len` are initialised, and links stay below it.
- `HandlesStayLive`, `HandlesStayUnshared`: from the inductive invariant
  `HandlesInv == TypeOK /\ HandlesLive /\ HandlesUnshared`. The two need each
  other: dropping the handles of one slot keeps the others live only because
  they are unshared, and a new handle is unshared because the owned ones are live.
- `OpenNeverReplaces`, `FailedCallsKeep`: action properties from `TypeOK` alone,
  so they hold even when the free list is damaged. No run repeats the first.
- `DisciplinedFreelist`: `FreelistWhileDisciplined`, from
  `FreelistInv == TypeOK /\ FreelistOK /\ NeverTraps`, which every step but `Renounces` keeps. `HistoryIsAny`
  shows that the history variable restricts no guest, so that what is proved of `Spec` holds of the runs'
  `HistorySpec`; `DisciplinedThroughout` says the same without the history. The lemmas
  `ListPushed`, `ListPopped` and `ListExtended` say how a witness of the list
  changes, `ListKept` that a step that touches no closed slot keeps it.

- `LeaksAreKnown` and `RefinesFdTable`. `NamedInv` adds to `HandlesInv` that the object a
  descriptor names is one of its handles: a step that keeps the handles of every slot then loses none. One lemma per
  call (`OpenMaps`, `SeekMaps`, `RenumberMaps`, ...) shows that it loses handles only in the two known places, and
  that it is a step of `FdTable` or leaves every descriptor's object alone. Nothing is assumed of the free list:
  a damaged one makes `path_open` trap, which changes no object.

FileStreams, from `OffsetAssumption`:

- `TypeCorrect` under `Spec`, and `TellNeverLags`, which no run repeats: for any guest the position
  `fd_tell` reports covers what `fd_read` has read;
- `StreamsInSync` under `DisciplinedSpec`, inductive together with `TypeOK`;
  `DisciplinedAppends` and `RefinesPosixFile` follow from it, one lemma per call
  that maps the step to a step of `PosixFile` (`ReadMaps`, `WriteMaps`, ...).

Poll, in `PollProofs.tla`, for every number of subscriptions, every size of event and pollable that the
assertion admits and every number of keys:

- `Inductive`: `PollInv` says that pollables, results and events keep out of each
  other's way (`NoClobber`), that what the table holds beyond the rest of the program is
  exactly what memory still has to drop (`PollablesOK`), and the shape of the loops.
  The lemmas `PollableCells` and `ResultCells` are the arithmetic of the overlay: an event is
  written at most as far as the results that have been read.
- `BufferNeverClobbered`, `PollablesAreDropped`, `OthersAreKept` and `KeysAreFresh` (`NeverReplaced`, which no run
  repeats) follow.
- `EventsAreTheReadyOnes`: `EventsOK` says, while the second loop runs, that as many events are written as subscriptions
  up to here are ready, each whole and in place; `OneMore` and `ReadyCounts` are the counting.
- `PollsSleep`, from `WaitOK`. While the host waits, the time waited and the time left together reach the earliest
  deadline (`LeftOK`), also after signals, each of which starts the wait again with the remainder; once the host has
  answered, the deadline is over (`OverOK`). That there is an earliest deadline is `LeastOf`, the least element of a set
  of numbers, by the well-foundedness of finite subsets. `TimeAssumption` says that the longest timeout
  the operating system takes fits the clock (2^31 ms are about 2^51 ns, of 64 bits), `TimeoutAssumption` that timeouts have 64 bits.
- `PollsReport`: a poll that succeeds has an event.

Files by path, in `FilesystemProofs.tla`, for every tree, every set of preopens and all
flags:

- `FilesInv` says that read-only nodes are only named by read-only nodes (`TreeInv`) and
  that a handle on a read-only node has neither `MUTATE` nor `WRITE`, nor a file opened for
  writing (`Confined` in `TableInv`). The latter is what makes `ReadOnlyKept`
  inductive: streams do not look at permissions, so the mode of the operating system has to
  stop them, and `MayOpen` is what keeps the mode away.
- `TypeCorrect`, `ReadOnlyStays`, `TablesAgree`, `RightsHold` and `FailuresChangeNothing` follow.
- `RightsAreReported` needs one more invariant, `ReportInv`: every directory below agreeing preopens
  hands on the same permissions to directories and to files (`DirsAgree`), and what a file was opened in agrees
  with its permissions.

Arguments, in `ArgumentsProofs.tla`, for every builder, every size of the arena and of a word:

- `ArenaKeepsApart`: `RegionsApart`, from `ArenaInv` (what was taken lies below the position and does not overlap) and
  `ImportInv`, by which the sizes the host asks for are naturals. `AlignsUp` is the arithmetic of `align_to`.
- `AllocatorStaysFree`: no import finds the allocator in use, and the buffer of `random_get` is always large enough
  (`AllocatorFree`, the first conjunct of `TrapsOnlyWhenFull`), from `ModeInv`: the mode of the
  allocator is the one of the import in progress.
- `ListsAreReadBack`, from `MemoryInv`. A list that is kept lies below the `Frontier`, where the import
  in progress writes, with every element and every string it points to (`Kept`, `Filled`): the addresses
  are disjoint by `Slots`, and a step that writes above the frontier keeps them (`KeptKeeps`). So pointers and lengths lead
  back to what the embedder gave, whatever is imported later.
- `StartsInPlace`: `FdsInv` relates the slots, the host's table and what the embedder pushed, `TableInv` says that the build put
  it there, and `OneImport` that a list which is being imported is not kept yet, so that it is installed once.
- `AnswersAsHost`: `SameAsHost`. The two sides write and count strings by different folds, the adapter reading memory and
  appending the NUL in another place, the host in its own strings and adding in several steps. A fold is
  the choice of a function on sets of indices; `SameCopies`, `TwoAdded` and `FourAdded` show that both choose
  among the same functions. Instead of an induction theorem this uses `EverySubset`: of the sets of
  indices for which something fails, one whose greatest element is least does not exist. `AnswersExpected` is the invariant.
- `OutOfMemoryOnlyWhenFull`: `TrapsOnlyWhenFull`. While an instance runs, the position of the arena is at most what its three lists
  have taken so far (`RoomInv`, `Spent`): all of `Demand` for a list that is kept, the elements and the strings up to the
  next one for a list that is being imported, nothing otherwise, since no list is imported twice (`OneImport`). `Partials` are the
  sums up to a string, and `SumsExist` that there are such sums.

The assumptions are the ones of the modules: `Absent` is neither a key nor a pair of pointer and length, `None` not an
entry (`EntryAssumption`), and clocks read natural numbers (`ClockAssumption`, `ArgumentsAssumption`).

AdapterState, in `AdapterStateProofs.tla`, for any main module (`Spec`, not `CalmSpec`):

- `IInv` has four parts about calls. `Nesting`: at most two calls are in progress. One made while the main module allocates
  gets no further than its guard or `State::ptr`, since nothing is allocated yet that it could use; one made while the host
  serves an import is `cabi_import_realloc`, which does not wait for anything. `Phases`: what `allocation_state` says of the
  outer call. `Borrows`: the State and the descriptors are borrowed by the frames that are where the code
  holds them, and no writer shares. `Modes`: the arena and the buffer are those of the outer call's import, and a
  buffer that was served is gone.
- `TypeCorrect`, `NestsOnce`, `ModesAreImports`, `BorrowsAreCalls`, `MadeOnce` and `TrapsHaveCauses` follow.

Directory listings, in `ReaddirProofs.tla`, for directories, buffers and cookies of any size:

- `CacheStaysTogether`: whatever a guest does, the cached entry and the stream behind it belong together. `TogetherInv` says
  at which entry of which directory the stream is (`CachePlace`), and that a cookie of the dots
  has the whole directory behind it.
- `CacheStaysCurrent` and `ReadsAreListings`, under `WalkSpec`: while guests are disciplined, a cache that is used is the entry
  of its cookie of the directory its descriptor names, and a call returns the listing from its cookie on. They need
  `CacheAhead`: no disciplined guest leaves a dot in the cache, which is what goes wrong otherwise (section 5).
- `ListingsAreComplete`, which no run states as such: a listing that has ended has seen each entry once and in order, from
  `SeenSoFar` (what is seen are the first entries, as many as the cookie says). It is the safety half of `ListingsEnd`.
- `DropIs`, `NumberedIs`, `YieldsAre` and `FillsIs` say what the pieces of the iterator yield and how many entries a buffer takes.

Sockets, in `SocketsProofs.tla`, for every number of sockets, of keys and of connections that wait, any guest and any peers:

- `ReferencesMatch` and `EveryEntryIsTold`, from `SocketInv`: the count of a socket is the number of its entries in the
  table plus that of the resources a call has yet to push (`RefsMatch`), and what the table holds is what the guest was
  told or is about to be (`Told`): in the middle of `accept` the table alone matches neither. `TableFinite`,
  `LooseFinite` and `TailLoose` are the counting: a push moves a resource from one of the two sets to the other.
  `Returned` and `Trapped` are the two ways a call ends, used for each of them.
- `CallsAccount` and `EndsAreEnds`: `BytesAccounted` and `EndMeansEnd`, from `StreamInv`. `Accounts` adds up what a
  call in progress has moved; `Attempts` says that as long as every attempt has moved a byte, attempts are bytes
  (the loops that go byte by byte count attempts); `Exhausted` that a call has seen the end only where
  nothing waits and nothing will come, which the other side cannot undo while the call goes on.

Only model-checked: `ListingsEnd`, `CallsReturn`, `ClockPollsEnd` and `CallsEnd`, which are liveness under fairness and
out of the prover's reach. The theorems above are their safety halves: `ListingsAreComplete`, `NestsOnce` and
`TrapsHaveCauses`, `PollsSleep`, `EndsAreEnds`. The runs that expect a violation (section 5) have no theorem either.

## 5. What the models found

Disagreements between code and comments that have a run each, and an entry under
`findings`:

- `Descriptors_freelist`: `fd_renumber` onto a closed descriptor, or of a
  descriptor onto itself, leaves an open slot on the free list; the next
  `path_open` that pops it traps (descriptors.rs:244, 313). `OpenKeepsDescriptors`
  shows that it never replaces a descriptor.
- `FileStreams_append`: `fd_fdstat_set_flags` does not reach the cached stream
  (lib.rs:554, 2053).
- `Filesystem_devices`: EXDEV has no case in `from_raw_os_error`, so it traps
  (preview2/filesystem.rs:763-846; filesystem.wit:265, lib.rs:2019).
- `AdapterState_firstuse`: the first use of descriptors under a mutable borrow
  (lib.rs:2322). `TrapsExplained` shows that this and unguarded calls during
  an allocation are the only ways to trap.

Three more are what ends the discipline of `ReaddirWalk`: a buffer that ends in `.` or `..`
caches that entry under a cookie at which the iterator yields the dots by itself, so that the
resumed listing has it twice (lib.rs:905, 1024; `HoldsDots`), a cookie past the end
returns success without writing `*bufused` (lib.rs:939, `ReaddirPastEnd`), and
`fd_renumber` leaves a cached stream behind that a listing of the new directory
resumes (lib.rs:1097).

Others are clauses of models: after a write, an `fd_read` does not continue at the position that
`fd_tell` reports (`MayRead` of `FileStreams`; lib.rs:838, 2050); the scheduler completes every
stream when the operating system's poll returns, also when it timed out (`Completed`; the comment at
sync.rs:130-131 expects otherwise), and compares the deadline of a clock, relative by
then, with the absolute time of the clock (`Elapsed`), so a clock can be reported early
when another subscription ends the poll. `SleepsLongEnough` shows that polls of clocks
only are not affected.

Disagreements met on the way that have no run, since no property of a run could show more than the line itself does:

- `fd_prestat_dir_name` answers NAMETOOLONG for a buffer that is *longer* than the name and copies the whole name into
  any other, one that is too short included (lib.rs:747); the interface calls it "a buffer into which to write the
  preopened directory name" (`wasi_snapshot_preview1.witx`:182). `StartupInPlace` shows that the length `fd_prestat_get` tells is accepted.
- A preopen that is closed, or that another descriptor is renumbered onto, stays in the list of preopens: `fd_prestat_get` goes
  on answering with the directory the embedder gave, while the descriptor is closed or names something else (descriptors.rs:312, where
  a TODO asks whether it should). `StartupInPlace` says that the list is as told at the start, these entries included; only what it says of
  descriptors concerns those the guest left alone.
- The stream that the panic macros print to is recorded once (descriptors.rs:144). After `fd_close(2)` or an `fd_renumber` onto 2 it is a
  handle the host has dropped: what the macros print is lost (macros.rs:9), or goes to the stream that was given the key since. `StartupInPlace` speaks of it
  only while 2 is left alone.
- A handle is lost when `get_type` fails after `open_at` (lib.rs:1374), and up to two when `fd_seek` forgets the streams of its
  descriptor (lib.rs:1132). `LeaksNowhereElse` shows that these are the only steps that lose one.
- The clocks trap for ids the comment at lib.rs:331-332 answers `inval` for; the host's preview1 answers `badf`.
- `environ_sizes_get` answers that there is no environment while memory is being allocated (lib.rs:325).
- A failed `build` leaves in the table what it pushed before (ctx.rs:106-138; `BuildEnds`).
- `splice` writes a byte it has not read when a read gives nothing, and does not look at the length of a write
  (stream.rs:127; `odd` in `BytesAccounted` are exactly these), and the fallback of `TcpSocket::splice` calls itself
  (net.rs:357; `Recurse`, which the condition of `CallsEnd` leaves out).
- A splice of a file onto a socket copies from the descriptor at the offset of the operating system (net.rs:350), though a `FileInputStream`
  reads at a position of its own (filesystem.rs:115): it sends other bytes than the stream would give, does not advance it, and
  the end it reports is not that of the stream, although `splice` is to "transfer bytes directly from an input stream" (stream.rs:114; `SpliceSource`).
- `get_flags` swaps the two sync flags on the way from the operating system (preview2/filesystem.rs:84-89), which the adapter
  does not pass on, and `write_via_stream` does not look at the permissions of the file (704): `MayOpen` and the mode of
  the open file stop the write (`ReadOnlyKept`).
- Waiting for standard input looks at the descriptor of the system only (stdio.rs:27), not at what the process has buffered.

## 6. Plan

Done, in this order: Descriptors, FileStreams, Readdir, AdapterState, since
every preview1 program goes through them; waiting (Table, HostPoll, PollOneoff);
files by path (FileTree, HostFilesystem, FilesystemCalls) with rights and flags; streams and TCP sockets (HostStreams, Sockets);
arguments, environment, preopens and the arena (Arena, HostContext, Arguments), with the host's preview1
as the reference. Proofs followed each component once its run passed.

Every safety property that the runs check is now also proved. Next: UDP sockets, locks and the other calls of the host's preview1,
which are `todo!()` at this commit, once they are written; each has a place in a module here (`Sockets`,
`HostFilesystem`, `HostContext`).

### Not modelled

- The guest HTTP client (`wasi/src/http_client.rs`): a library behind a feature that is off by default. It is written
  against the `streams.wit` of its own crate (`wasi/wit/deps/io/streams.wit`:158-220, with `check-write`, `write` and `flush`); the host and the adapter
  have an older one (`wit/deps/io/streams.wit`) without the first and the last, and the host's outgoing handler answers "not
  implemented" (default_outgoing_http.rs:14). So no program of the repository runs the client, and there is no
  code to model what its imports do. Its hazards are listed without a property.
- `fd_fdstat_set_rights`, `proc_raise` and `sock_*` of the adapter are `unreachable!()`; what is left of the host's preview1, UDP sockets and the
  lookup of names are `todo!()` or stubs; the branch of `fd_fdstat_get` for standard streams is constants.
- The locks and permission changes of the host's filesystem are `todo!()`.
- The build script and verifier, panic macros, generated bindings, HTTP stubs, logging, the insecure
  random seed and the command line: build time, generated code, or wrappers of the operating system without
  state of their own.

Hazards without a property. In each of these the hazard is what the code does; it is modelled, a property that
excluded it would be violated, and one that states it would restate the code: a preopen that stays in the list, the recorded
stream of the macros and the lengths of `fd_prestat_dir_name` (Arguments), the two leaks (Descriptors), a cookie past the end (Readdir),
an absolute timeout in the past (lib.rs:1636), deadlines that overflow (sync.rs:87), streams completed and clocks reported
early (HostPoll), the buffer of `splice`, its recursion and what it reads (HostStreams). Section 5 has them, except
for the first two of time, which no comment speaks of. The properties beside them exempt exactly these cases,
and say so.
