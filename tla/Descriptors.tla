---------------------------- MODULE Descriptors ----------------------------
(***************************************************************************)
(* The preview1 file descriptor table of the component adapter             *)
(* (wasi-preview1-component-adapter, descriptors.rs), with the calls of    *)
(* lib.rs that only touch it: path_open, fd_renumber and fd_seek.          *)
(*                                                                         *)
(* A slot of the table is not yet initialised, closed, or holds Streams:   *)
(* up to three handles (an input stream, an output stream, a filesystem    *)
(* descriptor) that live in the resource table of the host.  Closed slots  *)
(* form a linked list through the table whose head is `closed'.  A file    *)
(* descriptor handed out again is popped from that list.                   *)
(***************************************************************************)
EXTENDS Integers, FiniteSets

CONSTANTS
  MAX_DESCRIPTORS,  \* Slots of the table.
  NumPreopens,      \* Preopened directories the host announces.
  GuestFd,          \* The fds a guest may name in a call.
  Handle,           \* The handles of the host resource table.
  None              \* Option::None, for fds and for handles.

ASSUME ConstantsAssumption ==
  /\ MAX_DESCRIPTORS \in Nat
  /\ NumPreopens \in Nat
  /\ 3 + NumPreopens <= MAX_DESCRIPTORS
  /\ GuestFd \subseteq Nat
  /\ None \notin 0..MAX_DESCRIPTORS
  /\ None \notin Handle

VARIABLES
  table,      \* The slots.
  table_len,  \* Slots initialised so far.
  closed,     \* Head of the list of closed slots.
  live,       \* Handles the host still holds for this guest.
  errno,      \* What the last call returned.
  trapped     \* The instance has trapped: no call returns any more.

vars == <<table, table_len, closed, live, errno, trapped>>

-----------------------------------------------------------------------------
(* Values *)

Fd == 0..(MAX_DESCRIPTORS - 1)

Uninit == [tag |-> "Uninit"]
Closed(next) == [tag |-> "Closed", next |-> next]
Streams(input, output, type, fd) ==
  [tag |-> "Streams", input |-> input, output |-> output, type |-> type, fd |-> fd]

OptHandle == Handle \cup {None}
StreamType == {"Stdio", "File", "Directory"}

StreamsSlot ==
  [tag : {"Streams"}, input : OptHandle, output : OptHandle,
   type : StreamType, fd : OptHandle]
ClosedSlot == [tag : {"Closed"}, next : Fd \cup {None}]
Slot == {Uninit} \cup ClosedSlot \cup StreamsSlot

Errno == {"SUCCESS", "BADF", "NOTDIR", "NOMEM", "SPIPE", "INVAL", "HOST"}

Holds(d) == d.tag = "Streams"

(* Drop for Descriptor releases exactly these handles. *)
HandlesOf(d) == IF Holds(d) THEN {d.input, d.output, d.fd} \ {None} ELSE {}

(* The handles of a descriptor are different from each other. *)
Unaliased(d) ==
  /\ d.input # None => d.input # d.output /\ d.input # d.fd
  /\ d.output # None => d.output # d.fd

Owned == UNION {HandlesOf(table[fd]) : fd \in Fd}

(* Descriptors::get succeeds and the slot is not Closed. *)
IsOpen(fd) == fd < table_len /\ Holds(table[fd])
IsDir(fd) == IsOpen(fd) /\ table[fd].type = "Directory"
IsFile(fd) == IsOpen(fd) /\ table[fd].type = "File"

OpenFds == {fd \in Fd : Holds(table[fd])}
ClosedFds == {fd \in Fd : table[fd].tag = "Closed"}

-----------------------------------------------------------------------------
(* Descriptors::new: stdin, stdout and stderr take slots 0 to 2, the       *)
(* preopened directories the slots after them.  The host never answers     *)
(* with the same handle twice.                                             *)

NumInitial == 3 + NumPreopens

InitialSlot(fd, h) ==
  IF fd = 0 THEN Streams(h, None, "Stdio", None)
  ELSE IF fd <= 2 THEN Streams(None, h, "Stdio", None)
  ELSE Streams(None, None, "Directory", h)

Init ==
  /\ \E h \in [0..(NumInitial - 1) -> Handle] :
       /\ \A i, j \in 0..(NumInitial - 1) : h[i] = h[j] => i = j
       /\ table = [fd \in Fd |-> IF fd < NumInitial
                                 THEN InitialSlot(fd, h[fd]) ELSE Uninit]
       /\ live = {h[i] : i \in 0..(NumInitial - 1)}
  /\ table_len = NumInitial
  /\ closed = None
  /\ errno = "SUCCESS"
  /\ trapped = FALSE

-----------------------------------------------------------------------------
(* Operations *)

(* A call that returns e and leaves every descriptor alone. *)
Return(e) ==
  /\ errno' = e
  /\ UNCHANGED <<table, table_len, closed, live, trapped>>

(* Mutant: the slot written is the one before the new one. *)
Push_OffByOne(d, h) ==
  /\ closed = None
  /\ table_len < MAX_DESCRIPTORS
  /\ table' = [table EXCEPT ![table_len - 1] = d]
  /\ table_len' = table_len + 1
  /\ live' = live \cup {h}
  /\ errno' = "SUCCESS"
  /\ UNCHANGED <<closed, trapped>>

(* Descriptors::open of a new descriptor d whose handle is h.  The         *)
(* descriptor is dropped when the table is full; the instance traps when   *)
(* the head of the free list is not a closed slot.                         *)
Push(d, h) ==
  /\ closed = None
  /\ table_len < MAX_DESCRIPTORS
  /\ table' = [table EXCEPT ![table_len] = d]
  /\ table_len' = table_len + 1
  /\ live' = live \cup {h}
  /\ errno' = "SUCCESS"
  /\ UNCHANGED <<closed, trapped>>

PushFull ==
  /\ closed = None
  /\ table_len = MAX_DESCRIPTORS
  /\ Return("NOMEM")

Pop(d, h) ==
  /\ closed # None
  /\ table[closed].tag = "Closed"
  /\ table' = [table EXCEPT ![closed] = d]
  /\ closed' = table[closed].next
  /\ live' = live \cup {h}
  /\ errno' = "SUCCESS"
  /\ UNCHANGED <<table_len, trapped>>

PopTraps(h) ==
  /\ closed # None
  /\ table[closed].tag # "Closed"
  /\ trapped' = TRUE
  /\ live' = live \cup {h}
  /\ UNCHANGED <<table, table_len, closed, errno>>

Open(d, h) == Push(d, h) \/ PushFull \/ Pop(d, h) \/ PopTraps(h)

(* path_open: open_at creates a host descriptor, get_type is a second host *)
(* call that may fail after it, and then nothing drops the new handle.     *)
PathOpenFails(fd) ==
  \/ ~IsDir(fd) /\ Return(IF IsFile(fd) THEN "NOTDIR" ELSE "BADF")
  \/ IsDir(fd) /\ Return("HOST")

GetTypeFails(fd, h) ==
  /\ IsDir(fd)
  /\ live' = live \cup {h}
  /\ errno' = "HOST"
  /\ UNCHANGED <<table, table_len, closed, trapped>>

PathOpen(fd) ==
  /\ ~trapped
  /\ \/ PathOpenFails(fd)
     \/ \E h \in Handle \ live :
          \/ GetTypeFails(fd, h)
          \/ \E type \in {"File", "Directory"} :
               IsDir(fd) /\ Open(Streams(None, None, type, h), h)

(* Mutant: the closed slot does not link to the rest of the list. *)
Close_CutsList(fd) ==
  /\ ~trapped
  /\ \/ ~IsOpen(fd) /\ Return("BADF")
     \/ /\ IsOpen(fd)
        /\ table' = [table EXCEPT ![fd] = Closed(None)]
        /\ closed' = fd
        /\ live' = live \ HandlesOf(table[fd])
        /\ errno' = "SUCCESS"
        /\ UNCHANGED <<table_len, trapped>>

(* Descriptors::close. *)
Close(fd) ==
  /\ ~trapped
  /\ \/ ~IsOpen(fd) /\ Return("BADF")
     \/ /\ IsOpen(fd)
        /\ table' = [table EXCEPT ![fd] = Closed(closed)]
        /\ closed' = fd
        /\ live' = live \ HandlesOf(table[fd])
        /\ errno' = "SUCCESS"
        /\ UNCHANGED <<table_len, trapped>>

(* push_closed, repeated until `to' is in bounds or the table is full:     *)
(* each new slot is closed and becomes the head of the free list.          *)
ExpandedLen(to) ==
  IF to < table_len THEN table_len
  ELSE IF to < MAX_DESCRIPTORS THEN to + 1 ELSE MAX_DESCRIPTORS

Expanded(n) ==
  [i \in Fd |-> IF i \in table_len..(n - 1)
                THEN Closed(IF i = table_len THEN closed ELSE i - 1)
                ELSE table[i]]

ExpandedClosed(n) == IF n > table_len THEN n - 1 ELSE closed

(* Mutant: the descriptor is copied, not moved. *)
Vacated_Copies(from, n) == Expanded(n)

(* close_(from) on the expanded table, whose descriptor is kept. *)
Vacated(from, n) == [Expanded(n) EXCEPT ![from] = Closed(ExpandedClosed(n))]

(* Mutant: `from' is taken out of the table before `to' is looked up. *)
RenumberFails_TakesFirst(from, to) ==
  LET n == ExpandedLen(to) IN
  /\ from < table_len
  /\ to >= MAX_DESCRIPTORS \/ ~IsOpen(from)
  /\ table' = Vacated(from, n)
  /\ table_len' = n
  /\ closed' = from
  /\ errno' = IF to >= MAX_DESCRIPTORS THEN "NOMEM" ELSE "BADF"
  /\ UNCHANGED <<live, trapped>>

(* fd_renumber, that is Descriptors::renumber.  The expansion stays when   *)
(* the call fails later.  A descriptor that `to' held is dropped; a closed *)
(* slot `to' is overwritten where it stands in the free list.              *)
RenumberFails(from, to) ==
  LET n == ExpandedLen(to) IN
  /\ from < table_len
  /\ to >= MAX_DESCRIPTORS \/ ~IsOpen(from)
  /\ table' = Expanded(n)
  /\ table_len' = n
  /\ closed' = ExpandedClosed(n)
  /\ errno' = IF to >= MAX_DESCRIPTORS THEN "NOMEM" ELSE "BADF"
  /\ UNCHANGED <<live, trapped>>

(* Mutant: the moved descriptor is dropped, not the overwritten one. *)
RenumberMoves_DropsMoved(from, to) ==
  LET n == ExpandedLen(to) IN
  /\ IsOpen(from)
  /\ to < MAX_DESCRIPTORS
  /\ table' = [Vacated(from, n) EXCEPT ![to] = table[from]]
  /\ table_len' = n
  /\ closed' = from
  /\ live' = live \ HandlesOf(table[from])
  /\ errno' = "SUCCESS"
  /\ UNCHANGED trapped

(* Mutant: the overwritten descriptor is forgotten, not dropped. *)
RenumberMoves_Forgets(from, to) ==
  LET n == ExpandedLen(to) IN
  /\ IsOpen(from)
  /\ to < MAX_DESCRIPTORS
  /\ table' = [Vacated(from, n) EXCEPT ![to] = table[from]]
  /\ table_len' = n
  /\ closed' = from
  /\ live' = live
  /\ errno' = "SUCCESS"
  /\ UNCHANGED trapped

RenumberMoves(from, to) ==
  LET n == ExpandedLen(to) IN
  /\ IsOpen(from)
  /\ to < MAX_DESCRIPTORS
  /\ table' = [Vacated(from, n) EXCEPT ![to] = table[from]]
  /\ table_len' = n
  /\ closed' = from
  /\ live' = live \ HandlesOf(Vacated(from, n)[to])
  /\ errno' = "SUCCESS"
  /\ UNCHANGED trapped

Renumber(from, to) ==
  /\ ~trapped
  /\ \/ from >= table_len /\ Return("BADF")
     \/ RenumberFails(from, to)
     \/ RenumberMoves(from, to)

(* The table with other streams in a slot that holds Streams. *)
WithStreams(fd, input, output) ==
  [table EXCEPT ![fd] = Streams(input, output, table[fd].type, table[fd].fd)]

(* get_read_stream and get_write_stream: the stream of a file is created   *)
(* by the first call that needs it and kept in the slot.                   *)
GetReadStream(fd) ==
  /\ ~trapped
  /\ \/ ~IsOpen(fd) /\ Return("BADF")
     \/ /\ IsOpen(fd)
        /\ table[fd].input = None
        /\ ~IsFile(fd)
        /\ Return("BADF")
     \/ /\ IsOpen(fd)
        /\ table[fd].input # None
        /\ Return("SUCCESS")
     \/ /\ IsFile(fd)
        /\ table[fd].input = None
        /\ \E h \in Handle \ live :
             /\ table' = WithStreams(fd, h, table[fd].output)
             /\ live' = live \cup {h}
        /\ errno' = "SUCCESS"
        /\ UNCHANGED <<table_len, closed, trapped>>

GetWriteStream(fd) ==
  /\ ~trapped
  /\ \/ ~IsOpen(fd) /\ Return("BADF")
     \/ /\ IsOpen(fd)
        /\ table[fd].output = None
        /\ ~IsFile(fd)
        /\ Return("BADF")
     \/ /\ IsOpen(fd)
        /\ table[fd].output # None
        /\ Return("SUCCESS")
     \/ /\ IsFile(fd)
        /\ table[fd].output = None
        /\ \E h \in Handle \ live :
             /\ table' = WithStreams(fd, table[fd].input, h)
             /\ live' = live \cup {h}
        /\ errno' = "SUCCESS"
        /\ UNCHANGED <<table_len, closed, trapped>>

(* fd_seek: a successful seek forgets both streams of the file, without    *)
(* dropping their handles.                                                 *)
SeekForgets(fd) ==
  /\ IsFile(fd)
  /\ table' = WithStreams(fd, None, None)
  /\ errno' = "SUCCESS"
  /\ UNCHANGED <<table_len, closed, live, trapped>>

FdSeek(fd) ==
  /\ ~trapped
  /\ \/ ~IsOpen(fd) /\ Return("BADF")
     \/ IsOpen(fd) /\ table[fd].type = "Stdio" /\ Return("SPIPE")
     \/ IsDir(fd) /\ Return("BADF")
     \/ IsFile(fd) /\ \E e \in {"INVAL", "HOST"} : Return(e)
     \/ SeekForgets(fd)

-----------------------------------------------------------------------------
(* Specifications *)

(* Every call but fd_renumber. *)
Operate(fd) ==
  PathOpen(fd) \/ Close(fd) \/ GetReadStream(fd) \/ GetWriteStream(fd) \/ FdSeek(fd)

Next ==
  \/ \E fd \in GuestFd : Operate(fd)
  \/ \E from, to \in GuestFd : Renumber(from, to)

(* Any guest, making any sequence of calls. *)
Spec == Init /\ [][Next]_vars

(* A renumbering onto another descriptor that is open, the use the test    *)
(* programs renumber.rs and overwrite_preopen.rs make of it, or one that   *)
(* fails.                                                                  *)
OntoOpen(from, to) == IsOpen(from) /\ to < MAX_DESCRIPTORS => IsOpen(to) /\ from # to

DisciplinedNext ==
  \/ \E fd \in GuestFd : Operate(fd)
  \/ \E from, to \in GuestFd : OntoOpen(from, to) /\ Renumber(from, to)

(* A guest that only renumbers onto other open descriptors. *)
DisciplinedSpec == Init /\ [][DisciplinedNext]_vars

-----------------------------------------------------------------------------
(* Properties *)

(* The slots below table_len are initialised and no others, and links of   *)
(* the free list stay among them.                                          *)
TableOK ==
  /\ table \in [Fd -> Slot]
  /\ table_len \in 0..MAX_DESCRIPTORS
  /\ closed \in Fd \cup {None}
  /\ \A fd \in Fd : table[fd] = Uninit <=> fd >= table_len
  /\ closed # None => closed < table_len
  /\ \A fd \in ClosedFds : table[fd].next # None => table[fd].next < table_len

(* The type invariant. *)
TypeOK ==
  /\ TableOK
  /\ live \subseteq Handle
  /\ errno \in Errno
  /\ trapped \in BOOLEAN

(* Whatever a guest does, a slot only holds handles the host still knows,  *)
(* so that no call, and no drop of a Descriptor, hands the host a stale    *)
(* handle (which the host answers with a trap).                            *)
HandlesLive == Owned \subseteq live

(* No handle is reachable from two descriptors, nor twice from one: a      *)
(* Descriptor that moves in open, close and renumber is never duplicated,  *)
(* so no handle is dropped twice.                                          *)
HandlesUnshared ==
  /\ \A f, g \in Fd : f # g => HandlesOf(table[f]) \cap HandlesOf(table[g]) = {}
  /\ \A f \in OpenFds : Unaliased(table[f])

(* Handles the host holds that no descriptor can release any more. *)
Leaked == live \ Owned

(* Handles are lost in two places only: fd_seek forgetting the streams of  *)
(* a file, and path_open returning the error of get_type after open_at     *)
(* succeeded.  (A trap ends the instance, and its handles with it.)        *)
LeakStep ==
  \/ Leaked' \subseteq Leaked
  \/ trapped'
  \/ \E fd \in GuestFd :
       SeekForgets(fd) \/ \E h \in Handle \ live : GetTypeFails(fd, h)

LeaksNowhereElse == [][LeakStep]_vars

(* A call that reports an error leaves every open descriptor as it was,    *)
(* the fd_renumber that fails after it expanded the table included.        *)
FailureKeeps ==
  errno' # "SUCCESS" =>
    \A fd \in Fd : Holds(table[fd]) \/ Holds(table'[fd]) => table'[fd] = table[fd]

FailedCallsKeepDescriptors == [][FailureKeeps]_vars

(* The fd path_open returns was not open: whatever the free list looks     *)
(* like, no descriptor is replaced by an open.                             *)
OpenKeeps ==
  (\E fd \in GuestFd : PathOpen(fd)) =>
    \A fd \in Fd : Holds(table[fd]) => table'[fd] = table[fd]

OpenKeepsDescriptors == [][OpenKeeps]_vars

(* "freelist points to a closed descriptor" (descriptors.rs:244): the slot *)
(* that open pops is a closed one.                                         *)
FreelistHeadIsClosed == closed # None => table[closed].tag = "Closed"

(* s lists the closed slots from the oldest to the head of the free list,  *)
(* each once, and each slot links to the one before it.                    *)
IsFreelist(s, n) ==
  /\ \A i, j \in 1..n : s[i] = s[j] => i = j
  /\ \A fd \in ClosedFds : \E i \in 1..n : s[i] = fd
  /\ closed = IF n = 0 THEN None ELSE s[n]
  /\ \A i \in 1..n : table[s[i]].next = IF i = 1 THEN None ELSE s[i - 1]

(* The free list is a list without cycles of exactly the closed slots: no  *)
(* slot is lost and none is on it twice.                                   *)
FreelistOK ==
  \E n \in 0..MAX_DESCRIPTORS : \E s \in [1..n -> ClosedFds] : IsFreelist(s, n)

(* path_open only reports NOMEM when every slot holds an open descriptor.  *)
FullMeansFull ==
  closed = None /\ table_len = MAX_DESCRIPTORS => OpenFds = Fd

(* The adapter never reaches the unreachable!() in Descriptors::open.      *)
NeverTraps == ~trapped

=============================================================================
