----------------------------- MODULE Arguments -----------------------------
(***************************************************************************)
(* How a guest learns what it was started with: the calls of the adapter   *)
(* (lib.rs, descriptors.rs) for arguments, environment, preopens, clocks   *)
(* and random bytes.  The three lists are imported by the first call that  *)
(* needs them, into the arena, and kept there; the host asks for memory    *)
(* once for each list and once for each of its strings, before the import  *)
(* returns.  fd_close, fd_renumber and path_open change the descriptors    *)
(* under the list of preopens.  The table is that of FdTable: a path_open  *)
(* that meets the unreachable!() of the free list (descriptors.rs:244,     *)
(* after an fd_renumber onto a closed slot) is in Descriptors only.        *)
(***************************************************************************)
EXTENDS Arena, HostContext

CONSTANTS
  MAX_DESCRIPTORS,  \* Slots of the descriptor table.
  GuestFd,          \* The descriptors a guest names in its calls.
  GuestBuffer,      \* The address of the buffer of random_get.
  Clockid,          \* Names of clocks, "realtime" and "monotonic" among them.
  Reading,          \* What each of them may show.
  Length,           \* Lengths of the guest's buffers.
  MaxOpens          \* Bound on the calls of path_open.

ASSUME ArgumentsAssumption ==
  /\ MAX_DESCRIPTORS \in Nat /\ 3 <= MAX_DESCRIPTORS /\ MAX_DESCRIPTORS < KeySpace - 1
  /\ GuestFd \subseteq 0..(MAX_DESCRIPTORS - 1)
  /\ GuestBuffer \in Nat /\ Length \subseteq Nat
  /\ Absent \notin Key
  /\ \A id \in Clockid : Reading[id] \subseteq [seconds : Nat, nanoseconds : Nat]

List == {"args", "env", "preopens"}
Import == [list : List \cup {"random"}, base : Nat, next : Nat]

ASSUME ImportAssumption == Absent \notin Import

(* Why an instance traps. *)
Cause == {"unready", "mode", "borrowed", "memory", "buffer", "slots", "clock"}

ASSUME CauseAssumption == None \notin Cause

VARIABLES
  ready,                     \* No memory is being allocated: the State can be had.
  args, env_vars, preopens,  \* The lists, [ptr, len] once they are imported.
  slots,                     \* The host's handle of each descriptor.
  stderr_stream,             \* The stream that the macros print to.
  import,                    \* The import in progress.
  call,                      \* The call in progress.
  answer,                    \* What the last call returned, until the next one.
  trapped,                   \* Why the instance trapped, None if it did not.
  untouched,                 \* History: descriptors as they were at the start.
  opens                      \* Calls of path_open so far.

lists == <<args, env_vars, preopens>>
fds == <<slots, stderr_stream, untouched, opens>>
control == <<ready, call, answer, trapped>>
vars == <<arenaVars, hostVars, lists, fds, import, control>>

Fd == 0..(MAX_DESCRIPTORS - 1)

Init ==
  /\ ArenaInit /\ HostInit
  /\ args = Absent /\ env_vars = Absent /\ preopens = Absent
  /\ slots = [fd \in Fd |-> Absent] /\ stderr_stream = Absent /\ untouched = {}
  /\ opens = 0
  /\ import = Absent
  /\ ready = FALSE /\ call = Absent /\ answer = Absent /\ trapped = None

-----------------------------------------------------------------------------
(* Calls *)

Named(fns, xs, ys) == [fn : fns, x : xs, y : ys]
FdMut == {"fd_close", "fd_renumber", "path_open"}
ClockCall ==
  UNION {Named({"clock_res_get", "clock_time_get"}, {id}, Reading[id]) : id \in Clockid}
Call ==
  Named({"args_get", "args_sizes_get", "environ_get", "environ_sizes_get", "sched_yield"},
        {0}, {0})
    \cup ClockCall
    \cup Named({"random_get"}, Length, {0})
    \cup Named({"proc_exit"}, {0, 2}, {0})
    \cup Named({"fd_prestat_get", "fd_close"}, GuestFd, {0})
    \cup Named({"fd_prestat_dir_name"}, GuestFd, Length)
    \cup Named({"path_open"}, {0}, {0})
    \cup Named({"fd_renumber"}, GuestFd, GuestFd)

Stateless == {"sched_yield", "proc_exit"}

(* What the guarded calls answer while memory is being allocated. *)
Guarded == {"environ_sizes_get", "fd_prestat_get", "clock_time_get", "random_get"}
GuardAnswer(c) ==
  CASE c.fn = "environ_sizes_get" -> Result("SUCCESS", <<0, 0>>)
    [] c.fn = "fd_prestat_get" -> Result("BADF", 0)
    [] c.fn = "clock_time_get" -> Result("SUCCESS", 0)
    [] c.fn = "random_get" -> Result("SUCCESS", <<>>)

Runs == phase = "built" /\ trapped = None /\ exit = None
Idle == Runs /\ call = Absent

Answers(c, result) == answer' = [call |-> c, result |-> result, ready |-> ready]
Traps(why) == trapped' = why

(* The stack and the State are allocated. *)
Allocates ==
  /\ Idle /\ ~ready
  /\ ready' = TRUE
  /\ UNCHANGED <<arenaVars, hostVars, lists, fds, import, call, answer, trapped>>

CallStateless(c) ==
  /\ Idle /\ c.fn \in Stateless
  /\ \/ c.fn = "proc_exit" /\ Exits(c.x) /\ answer' = Absent
     \/ c.fn = "sched_yield" /\ Answers(c, Result("SUCCESS", 0)) /\ UNCHANGED exit
  /\ UNCHANGED <<arenaVars, map, next_key, builder, pushed, phase, lists, fds, import,
                 ready, call, trapped>>

CallUnready(c) ==
  /\ Idle /\ ~ready /\ c.fn \notin Stateless
  /\ IF c.fn \in Guarded
     THEN Answers(c, GuardAnswer(c)) /\ UNCHANGED trapped
     ELSE Traps("unready") /\ UNCHANGED answer
  /\ UNCHANGED <<arenaVars, hostVars, lists, fds, import, ready, call>>

CallReady(c) ==
  /\ Idle /\ ready /\ c.fn \notin Stateless
  /\ c.fn = "path_open" => opens < MaxOpens
  /\ opens' = IF c.fn = "path_open" THEN opens + 1 ELSE opens
  /\ call' = c /\ answer' = Absent
  /\ UNCHANGED <<arenaVars, hostVars, lists, slots, stderr_stream, untouched, import, ready, trapped>>

-----------------------------------------------------------------------------
(* Imports of lists *)

Uses(c) ==
  CASE c.fn \in {"args_get", "args_sizes_get"} -> "args"
    [] c.fn \in {"environ_get", "environ_sizes_get"} -> "env"
    [] c.fn \in FdMut \cup {"fd_prestat_get", "fd_prestat_dir_name"} -> "preopens"
    [] OTHER -> "nothing"

Cached(list) ==
  CASE list = "args" -> args # Absent
    [] list = "env" -> env_vars # Absent
    [] list = "preopens" -> preopens # Absent
    [] OTHER -> TRUE

(* The strings of a list, in the order in which the host writes them. *)
Strings(list) ==
  CASE list = "args" -> Args
    [] list = "env" -> [i \in 1..(2 * Len(Env)) |->
                         IF i % 2 = 1 THEN Env[(i + 1) \div 2].key ELSE Env[i \div 2].value]
    [] list = "preopens" -> DirNames

PreopenSize == Word + StrSize
Element(list) ==
  CASE list = "args" -> StrSize [] list = "env" -> 2 * StrSize [] list = "preopens" -> PreopenSize
Elements(list) ==
  CASE list = "args" -> Len(Args) [] list = "env" -> Len(Env) [] list = "preopens" -> Len(DirNames)

(* Where the WasmStr of the i-th string is. *)
StrAddress(list, base, i) ==
  IF list = "preopens" THEN base + (i - 1) * PreopenSize + Word ELSE base + (i - 1) * StrSize

(* The first use of a list, in State::get_args, State::get_environment and *)
(* Descriptors::new. *)
Imports ==
  /\ Runs /\ call # Absent /\ import = Absent /\ ~Cached(Uses(call))
  /\ WithArena
  /\ import' = [list |-> Uses(call), base |-> 0, next |-> 0]
  /\ UNCHANGED <<hostVars, lists, fds, control>>

Importing == Runs /\ import # Absent /\ arena

(* The State is borrowed mutably by the call, and cabi_import_realloc      *)
(* needs it. *)
Borrowed == call.fn \in FdMut

ListSize == Elements(import.list) * Element(import.list)

ListAllocated ==
  /\ Importing /\ import.next = 0 /\ ~Borrowed
  /\ ArenaAlloc(Word, ListSize, memory)
  /\ import' = [import EXCEPT !.base = Allocated(Word), !.next = 1]
  /\ UNCHANGED <<hostVars, lists, fds, control>>

NextString == Strings(import.list)[import.next]
MoreStrings == import.next \in 1..Len(Strings(import.list))

(* What the host has written once the next string is at ptr. *)
WithNextString(ptr) ==
  LET text == NextString
      at == StrAddress(import.list, import.base, import.next)
      written == Stored(Stored(memory, ptr, Len(text), text),
                        at, StrSize, StrBytes(ptr, Len(text))) IN
  IF import.list = "preopens"
  THEN Stored(written, at - Word, Word, WordBytes(pushed[3 + import.next]))
  ELSE written

StringAllocated ==
  /\ Importing /\ MoreStrings /\ ~Borrowed
  /\ ArenaAlloc(1, Len(NextString), WithNextString(Allocated(1)))
  /\ import' = [import EXCEPT !.next = @ + 1]
  /\ UNCHANGED <<hostVars, lists, fds, control>>

(* Why a step of an import traps: the mode of the allocator is taken, the  *)
(* State is borrowed, or what the host asks for does not fit.              *)
WantsList == import = Absent /\ ~Cached(Uses(call))
WantsBuffer == import = Absent /\ call.fn = "random_get"
Asks == import # Absent /\ import.list # "random" /\ (import.next = 0 \/ MoreStrings)
AskFits == IF import.next = 0 THEN FitsArena(Word, ListSize) ELSE FitsArena(1, Len(NextString))

TrapReason ==
  CASE (WantsList \/ WantsBuffer) /\ (arena \/ buffer # Absent) -> "mode"
    [] Asks /\ Borrowed -> "borrowed"
    [] Asks /\ ~Borrowed /\ ~AskFits -> "memory"
    [] import # Absent /\ import.list = "random" /\ import.next = 0
         /\ ~FitsBuffer(1, call.x) -> "buffer"
    [] OTHER -> None

ImportTraps ==
  /\ Runs /\ call # Absent /\ TrapReason # None
  /\ Traps(TrapReason)
  /\ UNCHANGED <<arenaVars, hostVars, lists, fds, import, ready, call, answer>>

Imported == Importing /\ import.next = Len(Strings(import.list)) + 1
ImportedList == [ptr |-> import.base, len |-> Elements(import.list)]

(* Mutant: the list is used and not kept. *)
ListReturns_NotKept ==
  /\ Imported /\ import.list \in {"args", "env"}
  /\ ArenaReturns
  /\ import' = Absent
  /\ UNCHANGED <<hostVars, lists, fds, control>>

ListReturns ==
  /\ Imported /\ import.list \in {"args", "env"}
  /\ ArenaReturns
  /\ IF import.list = "args" THEN args' = ImportedList /\ UNCHANGED env_vars
     ELSE env_vars' = ImportedList /\ UNCHANGED args
  /\ import' = Absent
  /\ UNCHANGED <<hostVars, preopens, fds, control>>

(* Mutant: the standard streams the other way round. *)
HandleOf_Swapped(fd) == IF fd <= 2 THEN pushed[3 - fd] ELSE WordAt(import.base + (fd - 3) * PreopenSize)

(* The handles of Descriptors::new: stdio by get_stdio, the others from    *)
(* the list. *)
HandleOf(fd) == IF fd <= 2 THEN pushed[fd + 1] ELSE WordAt(import.base + (fd - 3) * PreopenSize)

FirstFds == 0..(2 + Elements("preopens"))

PreopensReturn ==
  /\ Imported /\ import.list = "preopens"
  /\ ArenaReturns
  /\ IF 3 + Elements("preopens") > MAX_DESCRIPTORS
     THEN Traps("slots") /\ UNCHANGED <<preopens, fds>>
     ELSE /\ preopens' = ImportedList
          /\ slots' = [fd \in Fd |-> IF fd \in FirstFds THEN HandleOf(fd) ELSE Absent]
          /\ stderr_stream' = pushed[3]
          /\ untouched' = FirstFds
          /\ UNCHANGED <<trapped, opens>>
  /\ import' = Absent
  /\ UNCHANGED <<hostVars, args, env_vars, ready, call, answer>>

-----------------------------------------------------------------------------
(* The ends of calls *)

Done(result) == Answers(call, result) /\ call' = Absent

Ends(fns) == Runs /\ call # Absent /\ import = Absent /\ call.fn \in fns /\ Cached(Uses(call))

(* Copies a string and a NUL to the end of what is written so far. *)
Writes(acc, text) ==
  [ptrs |-> acc.ptrs \o <<Len(acc.bytes)>>, bytes |-> acc.bytes \o Append(text, "NUL")]

ArgAt(i) == StrAt(args.ptr + (i - 1) * StrSize)
ArgsGet == FoldLeftDomain(LAMBDA acc, i : Writes(acc, ArgAt(i)), Nothing, [i \in 1..args.len |-> i])

ArgsSizesGet ==
  <<args.len, FoldLeftDomain(LAMBDA sum, i : sum + (Len(ArgAt(i)) + 1), 0, [i \in 1..args.len |-> i])>>

KeyAt(i) == StrAt(env_vars.ptr + (i - 1) * 2 * StrSize)

(* Mutant: the second string of the element is taken to be one word on. *)
ValueAt_OneWordOn(i) == StrAt(env_vars.ptr + (i - 1) * 2 * StrSize + Word)

ValueAt(i) == StrAt(env_vars.ptr + (i - 1) * 2 * StrSize + StrSize)

EnvironGet ==
  FoldLeftDomain(LAMBDA acc, i : Writes(acc, (KeyAt(i) \o <<"=">>) \o ValueAt(i)),
                 Nothing, [i \in 1..env_vars.len |-> i])

EnvironSizesGet ==
  <<env_vars.len,
    FoldLeftDomain(LAMBDA sum, i : sum + (Len(KeyAt(i)) + Len(ValueAt(i)) + 2),
                   0, [i \in 1..env_vars.len |-> i])>>

AnswerList ==
  /\ Ends({"args_get", "args_sizes_get", "environ_get", "environ_sizes_get"})
  /\ Done(Result("SUCCESS",
          CASE call.fn = "args_get" -> ArgsGet [] call.fn = "args_sizes_get" -> ArgsSizesGet
            [] call.fn = "environ_get" -> EnvironGet
            [] call.fn = "environ_sizes_get" -> EnvironSizesGet))
  /\ UNCHANGED <<arenaVars, hostVars, lists, fds, import, ready, trapped>>

Timestamp(datetime) ==
  IF datetime.seconds * NsPerSec >= MaxTime THEN Result("OVERFLOW", 0)
  ELSE IF datetime.seconds * NsPerSec + datetime.nanoseconds >= MaxTime THEN Result("OVERFLOW", 0)
  ELSE Result("SUCCESS", datetime.seconds * NsPerSec + datetime.nanoseconds)

AnswerClock ==
  /\ Ends({"clock_res_get", "clock_time_get"})
  /\ \/ call.x = "monotonic" /\ Done(Result("SUCCESS", call.y.nanoseconds)) /\ UNCHANGED trapped
     \/ call.x = "realtime" /\ Done(Timestamp(call.y)) /\ UNCHANGED trapped
     \/ call.x \notin {"realtime", "monotonic"} /\ Traps("clock") /\ UNCHANGED <<call, answer>>
  /\ UNCHANGED <<arenaVars, hostVars, lists, fds, import, ready>>

(* random_get: with_buffer, the one allocation of the host, and the bytes. *)
RandomImports ==
  /\ Ends({"random_get"})
  /\ WithBuffer(GuestBuffer, call.x)
  /\ import' = [list |-> "random", base |-> GuestBuffer, next |-> 0]
  /\ UNCHANGED <<hostVars, lists, fds, control>>

RandomAllocated ==
  /\ Runs /\ import # Absent /\ import.list = "random" /\ import.next = 0
  /\ BufferAlloc(1, call.x)
  /\ import' = [import EXCEPT !.base = AlignTo(buffer.ptr, 1), !.next = 1]
  /\ UNCHANGED <<hostVars, lists, fds, control>>

RandomReturns ==
  /\ Runs /\ import # Absent /\ import.list = "random" /\ import.next = 1
  /\ import.base = GuestBuffer
  /\ BufferReturns
  /\ import' = Absent
  /\ Done(Result("SUCCESS", RandomBytes(call.x)))
  /\ UNCHANGED <<hostVars, lists, fds, ready, trapped>>

(* Descriptors::get_preopen. *)
IsPreopen(fd) == fd >= 3 /\ fd - 3 < preopens.len

NameAt(fd) == StrAt(preopens.ptr + (fd - 3) * PreopenSize + Word)

PrestatGet(fd) ==
  IF IsPreopen(fd) THEN Result("SUCCESS", Len(NameAt(fd))) ELSE Result("BADF", 0)

(* A buffer that is longer than the name is refused; into any other the    *)
(* whole name is copied. *)
PrestatDirName(fd, len) ==
  IF ~IsPreopen(fd) THEN Result("NOTDIR", 0)
  ELSE IF Len(NameAt(fd)) < len THEN Result("NAMETOOLONG", 0)
  ELSE Result("SUCCESS", NameAt(fd))

AnswerPrestat ==
  /\ Ends({"fd_prestat_get", "fd_prestat_dir_name"})
  /\ Done(IF call.fn = "fd_prestat_get" THEN PrestatGet(call.x) ELSE PrestatDirName(call.x, call.y))
  /\ UNCHANGED <<arenaVars, hostVars, lists, fds, import, ready, trapped>>

-----------------------------------------------------------------------------
(* Calls that change the descriptors; the list of preopens stays as it is. *)

IsOpen(fd) == slots[fd] # Absent

FdFails(errno) ==
  Done(Result(errno, 0)) /\ UNCHANGED <<hostVars, slots, untouched, trapped>>

FdClose(fd) ==
  \/ ~IsOpen(fd) /\ FdFails("BADF")
  \/ /\ IsOpen(fd)
     /\ Delete(slots[fd])
     /\ slots' = [slots EXCEPT ![fd] = Absent]
     /\ untouched' = untouched \ {fd}
     /\ Done(Result("SUCCESS", 0))
     /\ UNCHANGED <<builder, pushed, phase, exit, trapped>>

FdRenumber(from, to) ==
  \/ ~IsOpen(from) /\ FdFails("BADF")
  \/ IsOpen(from) /\ from = to /\ FdFails("SUCCESS")
  \/ /\ IsOpen(from) /\ from # to
     /\ IF IsOpen(to) THEN Delete(slots[to]) ELSE UNCHANGED <<map, next_key>>
     /\ slots' = [slots EXCEPT ![from] = Absent, ![to] = slots[from]]
     /\ untouched' = untouched \ {from, to}
     /\ Done(Result("SUCCESS", 0))
     /\ UNCHANGED <<builder, pushed, phase, exit, trapped>>

IsDir(fd) == IsOpen(fd) /\ map[slots[fd]][1] = "dir"

(* path_open of a file, below any directory that is open and at any        *)
(* descriptor that is not in use. *)
PathOpen ==
  \/ ~(\E fd \in Fd : IsDir(fd)) /\ FdFails("BADF")
  \/ /\ \E fd \in Fd : IsDir(fd)
     /\ \A fd \in Fd : IsOpen(fd)
     /\ \E key \in Key : IsNextFree(key) /\ next_key' = KeyAfter(key)
     /\ Done(Result("NOMEM", 0))
     /\ UNCHANGED <<map, builder, pushed, phase, exit, slots, untouched, trapped>>
  \/ \E fd \in Fd, key \in Key :
       /\ ~IsOpen(fd) /\ \E dir \in Fd : IsDir(dir)
       /\ Push(<<"file", 0>>, key)
       /\ slots' = [slots EXCEPT ![fd] = key]
       /\ Done(Result("SUCCESS", fd))
       /\ UNCHANGED <<builder, pushed, phase, exit, untouched, trapped>>

AnswerFd ==
  /\ Ends(FdMut)
  /\ CASE call.fn = "fd_close" -> FdClose(call.x)
       [] call.fn = "fd_renumber" -> FdRenumber(call.x, call.y)
       [] call.fn = "path_open" -> PathOpen
  /\ UNCHANGED <<arenaVars, lists, stderr_stream, opens, import, ready>>

-----------------------------------------------------------------------------
(* Specification *)

Builds ==
  /\ BuildPushes \/ BuildEnds
  /\ UNCHANGED <<arenaVars, lists, fds, import, control>>

CallStep ==
  \/ Imports \/ ListAllocated \/ StringAllocated \/ ImportTraps
  \/ ListReturns \/ PreopensReturn
  \/ RandomImports \/ RandomAllocated \/ RandomReturns
  \/ AnswerList \/ AnswerClock \/ AnswerPrestat \/ AnswerFd

Next ==
  \/ Builds \/ Allocates \/ CallStep
  \/ \E c \in Call : CallStateless(c) \/ CallUnready(c) \/ CallReady(c)

Spec == Init /\ [][Next]_vars

-----------------------------------------------------------------------------
(* Properties *)

OptList == [ptr : Nat, len : Nat] \cup {Absent}

(* The type invariant. *)
TypeOK ==
  /\ position \in 0..ArenaSize /\ arena \in BOOLEAN /\ buffer \in OptList
  /\ phase \in {"building", "failed", "built"} /\ pushed \in Seq(Key) /\ exit \in {None, 0, 1}
  /\ next_key \in Key
  /\ args \in OptList /\ env_vars \in OptList /\ preopens \in OptList
  /\ slots \in [Fd -> Key \cup {Absent}] /\ untouched \subseteq Fd
  /\ ready \in BOOLEAN /\ call \in Call \cup {Absent}

(* The adapter answers as the host's own preview1 does, byte for byte,     *)
(* whichever call comes first and whatever was put into the arena in       *)
(* between: arguments, environment, clocks, random bytes.  Left out are    *)
(* the calls while memory is allocated and the clocks the adapter traps    *)
(* on (the host says BADF, the doc of lib.rs:332 inval).                   *)
SameAsHost ==
  answer # Absent /\ answer.ready =>
    (answer.call.fn \notin FdMut \cup {"fd_prestat_get", "fd_prestat_dir_name"} =>
       answer.result = HostAnswer(answer.call))

(* The allocator is never found in use by another import, and a buffer of  *)
(* the size asked for is enough.                                           *)
AllocatorFree == trapped \notin {"mode", "buffer"}

Letters(texts) == FoldLeft(LAMBDA sum, text : sum + Len(text), 0, texts)

(* What the lists take at most: their elements, strings, and the padding   *)
(* before the first element. *)
Demand(list) == (Word - 1) + Elements(list) * Element(list) + Letters(Strings(list))

(* "The total size of arguments/env/etc coming into a component is bounded *)
(* by the current 64k (ish) limit" (lib.rs:213-217): an instance whose     *)
(* lists fit together never runs out of the arena, however often and in    *)
(* which order it asks for them, and one with room for its preopens in the *)
(* descriptor table never traps on them.  No import finds the allocator in *)
(* use or the guest's buffer too small.                                    *)
TrapsOnlyWhenFull ==
  /\ AllocatorFree
  /\ trapped = "memory" => Demand("args") + Demand("env") + Demand("preopens") > ArenaSize
  /\ trapped = "slots" => NumEntries > MAX_DESCRIPTORS

(* Standard input, output and error are 0 to 2, and a guest that tries     *)
(* fd_prestat_get from 3 on until it fails (test-programs' lib.rs:18) is   *)
(* told every preopened directory, those it has closed or renumbered over  *)
(* included: nothing changes the list (descriptors.rs:312).  Whatever is   *)
(* closed, renumbered or opened meanwhile, a descriptor the guest left     *)
(* alone holds what the embedder gave, under the name it gave, which fits  *)
(* a buffer of the size told; and while 2 is left alone the macros print   *)
(* to it.                                                                  *)
StartupInPlace ==
  preopens # Absent =>
    /\ \A fd \in Fd : PrestatGet(fd).errno = "SUCCESS" <=> fd \in 3..(2 + Len(DirNames))
    /\ \A fd \in untouched :
         /\ slots[fd] # Absent /\ map[slots[fd]] = Entry(fd + 1)
         /\ fd >= 3 => PrestatDirName(fd, PrestatGet(fd).out) = Result("SUCCESS", DirNames[fd - 2])
    /\ 2 \in untouched => stderr_stream = slots[2]
=============================================================================
