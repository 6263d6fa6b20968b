------------------------- MODULE DescriptorsProofs -------------------------
(***************************************************************************)
(* Proofs about Descriptors, for every size of the table, every number of  *)
(* preopened directories, every set of handles and every guest: types,     *)
(* handles, the freelist of a disciplined guest, and the partial map of    *)
(* FdTable that it implements.                                             *)
(***************************************************************************)
EXTENDS DescriptorsDiscipline, DescriptorsRefinement, FiniteSetTheorems, TLAPS

(* The three kinds of slot are told apart by their tag. *)
LEMMA SlotKinds ==
  /\ \A d \in Slot : Holds(d) <=> d \in StreamsSlot
  /\ \A d \in Slot : d.tag = "Closed" <=> d \in ClosedSlot
  /\ \A d \in Slot : d.tag \in {"Uninit", "Closed", "Streams"}
  /\ \A d \in ClosedSlot : d # Uninit /\ d.next \in Fd \cup {None}
  /\ \A d \in StreamsSlot : d # Uninit
BY DEF Slot, Uninit, ClosedSlot, StreamsSlot, Holds

LEMMA ClosedIsSlot ==
  ASSUME NEW n \in Fd \cup {None}
  PROVE  Closed(n) \in ClosedSlot /\ Closed(n) \in Slot /\ Closed(n).next = n /\ Closed(n).tag = "Closed"
BY DEF Closed, ClosedSlot, Slot

LEMMA ClosedFields == \A n : Closed(n).tag = "Closed" /\ Closed(n).next = n
BY DEF Closed

LEMMA StreamsIsSlot ==
  ASSUME NEW i \in OptHandle, NEW o \in OptHandle, NEW t \in StreamType, NEW h \in OptHandle
  PROVE  Streams(i, o, t, h) \in StreamsSlot /\ Streams(i, o, t, h) \in Slot
BY DEF Streams, StreamsSlot, Slot

LEMMA InitType == Init => TypeOK
<1> SUFFICES ASSUME Init PROVE TypeOK
  OBVIOUS
<1>1. PICK h \in [0..(NumInitial - 1) -> Handle] :
        /\ table = [fd \in Fd |-> IF fd < NumInitial
                                  THEN InitialSlot(fd, h[fd]) ELSE Uninit]
        /\ live = {h[i] : i \in 0..(NumInitial - 1)}
  BY DEF Init
<1>2. NumInitial \in Nat /\ NumInitial <= MAX_DESCRIPTORS
  BY ConstantsAssumption DEF NumInitial
<1>3. \A fd \in Fd : fd < NumInitial => InitialSlot(fd, h[fd]) \in StreamsSlot
  BY <1>1, <1>2, ConstantsAssumption DEF InitialSlot, StreamsSlot, Streams, OptHandle, StreamType, Fd
<1>4. table \in [Fd -> Slot]
  BY <1>1, <1>3 DEF Slot
<1>5. \A fd \in Fd : table[fd] = Uninit <=> fd >= table_len
  BY <1>1, <1>2, <1>3, SlotKinds, ConstantsAssumption DEF Fd, Init
<1>6. ClosedFds = {}
  BY <1>1, <1>3 DEF ClosedFds, StreamsSlot, Uninit
<1>7. live \subseteq Handle
  BY <1>1
<1>8. table_len \in 0..MAX_DESCRIPTORS /\ closed = None
  BY <1>2, ConstantsAssumption DEF Init
<1>9. errno \in Errno /\ trapped \in BOOLEAN
  BY DEF Init, Errno
<1> QED
  BY <1>4, <1>5, <1>6, <1>7, <1>8, <1>9 DEF TypeOK, TableOK

(* Writing an initialised slot keeps the table well formed when the links  *)
(* it brings stay among the initialised slots.                             *)
LEMMA WriteSlot ==
  ASSUME TableOK, NEW fd \in Fd, fd < table_len,
         NEW d \in ClosedSlot \cup StreamsSlot,
         (d \in ClosedSlot /\ d.next # None) => d.next < table_len,
         table' = [table EXCEPT ![fd] = d], table_len' = table_len,
         closed' \in Fd \cup {None}, closed' # None => closed' < table_len
  PROVE  TableOK'
<1>1. table' \in [Fd -> Slot] /\ table_len' \in 0..MAX_DESCRIPTORS
  BY DEF TableOK, Slot
<1>2. \A f \in Fd : table'[f] = Uninit <=> f >= table_len
  BY SlotKinds, ConstantsAssumption DEF TableOK, Fd
<1>3. \A f \in ClosedFds' : table'[f].next # None => table'[f].next < table_len
  BY SlotKinds DEF TableOK, ClosedFds, StreamsSlot, Slot
<1> QED
  BY <1>1, <1>2, <1>3 DEF TableOK

LEMMA OpenFdIsFd == ASSUME TableOK, NEW fd \in GuestFd, IsOpen(fd)
                    PROVE  fd \in Fd /\ fd < table_len /\ table[fd] \in StreamsSlot
BY ConstantsAssumption, SlotKinds DEF IsOpen, TableOK, Fd

LEMMA ExpandedTableOK ==
  ASSUME TableOK, NEW to \in GuestFd
  PROVE  LET n == ExpandedLen(to) IN
         /\ n \in 0..MAX_DESCRIPTORS /\ table_len <= n
         /\ to < MAX_DESCRIPTORS => to < n
         /\ Expanded(n) \in [Fd -> Slot]
         /\ \A fd \in Fd : Expanded(n)[fd] = Uninit <=> fd >= n
         /\ \A fd \in Fd : fd < table_len => Expanded(n)[fd] = table[fd]
         /\ ExpandedClosed(n) \in Fd \cup {None}
         /\ ExpandedClosed(n) # None => ExpandedClosed(n) < n
         /\ \A fd \in Fd : /\ Expanded(n)[fd] \in ClosedSlot
                           /\ Expanded(n)[fd].next # None
                           => Expanded(n)[fd].next < n
<1> DEFINE n == ExpandedLen(to)
<1>1. n \in 0..MAX_DESCRIPTORS /\ table_len <= n /\ (to < MAX_DESCRIPTORS => to < n)
  BY ConstantsAssumption DEF ExpandedLen, TableOK
<1>2. ASSUME NEW fd \in Fd, fd \in table_len..(n - 1)
      PROVE  /\ Expanded(n)[fd] \in ClosedSlot
             /\ Expanded(n)[fd].next = IF fd = table_len THEN closed ELSE fd - 1
  <2>1. (IF fd = table_len THEN closed ELSE fd - 1) \in Fd \cup {None}
    BY <1>1, <1>2, ConstantsAssumption DEF TableOK, Fd
  <2> QED
    BY <1>2, <2>1, ClosedIsSlot DEF Expanded
<1>3. ASSUME NEW fd \in Fd, fd \notin table_len..(n - 1)
      PROVE  Expanded(n)[fd] = table[fd]
  BY <1>3 DEF Expanded
<1>4. Expanded(n) \in [Fd -> Slot]
  BY <1>2, <1>3 DEF Expanded, TableOK, Slot
<1>5. \A fd \in Fd : Expanded(n)[fd] = Uninit <=> fd >= n
  BY <1>1, <1>2, <1>3, SlotKinds, ConstantsAssumption DEF TableOK, Fd
<1>6. \A fd \in Fd : fd < table_len => Expanded(n)[fd] = table[fd]
  BY <1>1, <1>3, ConstantsAssumption DEF TableOK, Fd
<1>7. ExpandedClosed(n) \in Fd \cup {None} /\ (ExpandedClosed(n) # None => ExpandedClosed(n) < n)
  BY <1>1, ConstantsAssumption DEF ExpandedClosed, TableOK, Fd
<1>8. ASSUME NEW fd \in Fd, Expanded(n)[fd] \in ClosedSlot, Expanded(n)[fd].next # None
      PROVE  Expanded(n)[fd].next < n
  <2>1. CASE fd \in table_len..(n - 1)
    BY <2>1, <1>1, <1>2, <1>8, ConstantsAssumption DEF TableOK, Fd
  <2>2. CASE fd \notin table_len..(n - 1)
    BY <2>2, <1>1, <1>3, <1>8, SlotKinds, ConstantsAssumption DEF TableOK, ClosedFds, Fd
  <2> QED
    BY <2>1, <2>2
<1> QED
  BY <1>1, <1>4, <1>5, <1>6, <1>7, <1>8

LEMMA PathOpenType ==
  ASSUME TypeOK, NEW fd \in GuestFd, PathOpen(fd)
  PROVE  TypeOK'
<1>1. CASE PathOpenFails(fd)
  BY <1>1 DEF PathOpenFails, Return, TypeOK, TableOK, ClosedFds, Errno
<1>2. ASSUME NEW h \in Handle, GetTypeFails(fd, h)
      PROVE  TypeOK'
  BY <1>2 DEF GetTypeFails, TypeOK, TableOK, ClosedFds, Errno
<1>3. ASSUME NEW h \in Handle, NEW type \in {"File", "Directory"},
             Open(Streams(None, None, type, h), h)
      PROVE  TypeOK'
  <2> DEFINE d == Streams(None, None, type, h)
  <2>1. d \in StreamsSlot /\ d \in Slot /\ d # Uninit /\ d.tag = "Streams"
    BY StreamsIsSlot, SlotKinds DEF OptHandle, StreamType, Streams
  <2> HIDE DEF d
  <2>2. CASE Push(d, h)
    <3>1. table_len \in Fd /\ table_len + 1 \in 0..MAX_DESCRIPTORS
      BY <2>2, ConstantsAssumption DEF Push, TypeOK, TableOK, Fd
    <3>2. \A f \in Fd : table'[f] = Uninit <=> f >= table_len'
      BY <2>1, <2>2, <3>1 DEF Push, TypeOK, TableOK, Fd
    <3>3. \A f \in ClosedFds' : f \in ClosedFds /\ table'[f] = table[f]
      BY <2>1, <2>2, <3>1 DEF Push, TypeOK, TableOK, ClosedFds
    <3>4. \A f \in ClosedFds : table[f].next = None \/ table[f].next \in Fd
      BY SlotKinds DEF TypeOK, TableOK, ClosedFds
    <3>5. TableOK'
      BY <2>1, <2>2, <3>1, <3>2, <3>3, <3>4, ConstantsAssumption DEF Push, TypeOK, TableOK, Fd
    <3> QED
      BY <2>2, <3>5 DEF Push, TypeOK, Errno
  <2>3. CASE PushFull
    BY <2>3 DEF PushFull, Return, TypeOK, TableOK, ClosedFds, Errno
  <2>4. CASE Pop(d, h)
    <3>1. closed \in Fd /\ closed < table_len /\ closed \in ClosedFds
      BY <2>4 DEF Pop, TypeOK, TableOK, ClosedFds
    <3>2. closed' \in Fd \cup {None} /\ (closed' # None => closed' < table_len)
      BY <2>4, <3>1, SlotKinds DEF Pop, TypeOK, TableOK, ClosedFds
    <3>3. TableOK'
      BY <2>1, <2>4, <3>1, <3>2, WriteSlot, SlotKinds DEF Pop, TypeOK, ClosedSlot
    <3> QED
      BY <2>4, <3>3 DEF Pop, TypeOK, Errno
  <2>5. CASE PopTraps(h)
    <3>1. trapped' \in BOOLEAN
      BY <2>5, Zenon DEF PopTraps
    <3> QED
      BY <2>5, <3>1 DEF PopTraps, TypeOK, TableOK, ClosedFds, Errno
  <2> QED
    BY <1>3, <2>2, <2>3, <2>4, <2>5 DEF Open, d
<1> QED
  BY <1>1, <1>2, <1>3 DEF PathOpen

LEMMA CloseType ==
  ASSUME TypeOK, NEW fd \in GuestFd, Close(fd)
  PROVE  TypeOK'
<1>1. CASE ~IsOpen(fd)
  BY <1>1 DEF Close, Return, TypeOK, TableOK, ClosedFds, Errno
<1>2. CASE IsOpen(fd)
  <2>1. fd \in Fd /\ fd < table_len
    BY <1>2, OpenFdIsFd DEF TypeOK
  <2>2. TableOK'
    BY <1>2, <2>1, WriteSlot, ClosedIsSlot DEF Close, TypeOK, TableOK
  <2> QED
    BY <1>2, <2>2 DEF Close, TypeOK, Errno
<1> QED
  BY <1>1, <1>2

LEMMA RenumberType ==
  ASSUME TypeOK, NEW from \in GuestFd, NEW to \in GuestFd, Renumber(from, to)
  PROVE  TypeOK'
<1> DEFINE n == ExpandedLen(to)
<1>1. CASE from >= table_len /\ Return("BADF")
  BY <1>1 DEF Return, TypeOK, TableOK, ClosedFds, Errno
<1>2. CASE RenumberFails(from, to)
  <2>1. TableOK'
    BY <1>2, ExpandedTableOK, SlotKinds DEF RenumberFails, TypeOK, TableOK, ClosedFds
  <2>2. errno' \in Errno /\ live' \subseteq Handle
    BY <1>2 DEF RenumberFails, TypeOK, Errno
  <2>3. trapped' \in BOOLEAN
    BY <1>2 DEF RenumberFails, TypeOK
  <2> QED
    BY <2>1, <2>2, <2>3 DEF TypeOK
<1>3. CASE RenumberMoves(from, to)
  <2>1. from \in Fd /\ from < table_len /\ table[from] \in StreamsSlot
    BY <1>3, OpenFdIsFd DEF RenumberMoves, TypeOK
  <2>2. to \in Fd /\ to < n
    BY <1>3, ExpandedTableOK, ConstantsAssumption DEF RenumberMoves, TypeOK, Fd
  <2>3. /\ n \in 0..MAX_DESCRIPTORS /\ table_len <= n
        /\ Expanded(n) \in [Fd -> Slot]
        /\ \A f \in Fd : Expanded(n)[f] = Uninit <=> f >= n
        /\ ExpandedClosed(n) \in Fd \cup {None}
        /\ ExpandedClosed(n) # None => ExpandedClosed(n) < n
        /\ \A f \in Fd : Expanded(n)[f] \in ClosedSlot /\ Expanded(n)[f].next # None
                         => Expanded(n)[f].next < n
        /\ table_len \in Nat
    BY ExpandedTableOK DEF TypeOK, TableOK
  <2> HIDE DEF n
  <2>4. /\ table' = [Vacated(from, n) EXCEPT ![to] = table[from]]
        /\ table_len' = n /\ closed' = from
    BY <1>3 DEF RenumberMoves, n
  <2>5. Closed(ExpandedClosed(n)) \in ClosedSlot /\ Closed(ExpandedClosed(n)).next = ExpandedClosed(n)
    BY <2>3, ClosedIsSlot
  <2>6. \A f \in Fd : table'[f] = IF f = to THEN table[from]
                                  ELSE IF f = from THEN Closed(ExpandedClosed(n))
                                  ELSE Expanded(n)[f]
    BY <2>1, <2>2, <2>3, <2>4 DEF Vacated
  <2>7. table' \in [Fd -> Slot]
    BY <2>1, <2>2, <2>3, <2>4, <2>5 DEF Vacated, Slot
  <2>8. \A f \in Fd : table'[f] = Uninit <=> f >= n
    BY <2>1, <2>2, <2>3, <2>5, <2>6, SlotKinds, ConstantsAssumption DEF Fd
  <2>9. \A f \in ClosedFds' : table'[f].next # None => table'[f].next < n
    BY <2>1, <2>2, <2>3, <2>5, <2>6, <2>7, SlotKinds DEF ClosedFds, StreamsSlot
  <2>10. TableOK'
    BY <2>1, <2>3, <2>4, <2>7, <2>8, <2>9, ConstantsAssumption DEF TableOK, Fd
  <2>11. errno' \in Errno /\ live' \subseteq Handle
    BY <1>3 DEF RenumberMoves, TypeOK, Errno
  <2>12. trapped' \in BOOLEAN
    BY <1>3 DEF RenumberMoves, TypeOK
  <2> QED
    BY <2>10, <2>11, <2>12 DEF TypeOK
<1> QED
  BY <1>1, <1>2, <1>3 DEF Renumber

LEMMA StreamUpdate ==
  ASSUME TypeOK, NEW fd \in Fd, fd < table_len, table[fd] \in StreamsSlot,
         NEW i \in OptHandle, NEW o \in OptHandle,
         table' = WithStreams(fd, i, o),
         UNCHANGED <<table_len, closed>>
  PROVE  TableOK'
<1> DEFINE d == Streams(i, o, table[fd].type, table[fd].fd)
<1>1. d \in StreamsSlot
  BY StreamsIsSlot DEF StreamsSlot
<1>2. table' = [table EXCEPT ![fd] = d]
  BY DEF WithStreams
<1> HIDE DEF d
<1>3. ~(d \in ClosedSlot)
  BY <1>1 DEF StreamsSlot, ClosedSlot
<1> QED
  BY <1>1, <1>2, <1>3, WriteSlot DEF TypeOK, TableOK

LEMMA GetReadStreamType ==
  ASSUME TypeOK, NEW fd \in GuestFd, GetReadStream(fd)
  PROVE  TypeOK'
<1>1. CASE ~IsFile(fd) \/ table[fd].input # None
  <2>1. UNCHANGED <<table, table_len, closed, live, trapped>> /\ errno' \in {"BADF", "SUCCESS"}
    BY <1>1 DEF GetReadStream, Return, IsFile
  <2> QED
    BY <2>1 DEF TypeOK, TableOK, ClosedFds, Errno
<1>2. CASE IsFile(fd) /\ table[fd].input = None
  <2>1. fd \in Fd /\ fd < table_len /\ table[fd] \in StreamsSlot
    BY <1>2, OpenFdIsFd DEF IsFile, TypeOK
  <2>2. PICK h \in Handle \ live : table' = WithStreams(fd, h, table[fd].output)
                                   /\ live' = live \cup {h}
    BY <1>2 DEF GetReadStream, IsFile
  <2>3. UNCHANGED <<table_len, closed, trapped>> /\ errno' = "SUCCESS"
    BY <1>2 DEF GetReadStream, IsFile
  <2>4. TableOK'
    <3>1. h \in OptHandle /\ table[fd].output \in OptHandle
      BY <2>1, <2>2 DEF StreamsSlot, OptHandle
    <3> QED
      BY <2>1, <2>2, <2>3, <3>1, StreamUpdate
  <2> QED
    BY <2>2, <2>3, <2>4 DEF TypeOK, Errno
<1> QED
  BY <1>1, <1>2

LEMMA GetWriteStreamType ==
  ASSUME TypeOK, NEW fd \in GuestFd, GetWriteStream(fd)
  PROVE  TypeOK'
<1>1. CASE ~IsFile(fd) \/ table[fd].output # None
  <2>1. UNCHANGED <<table, table_len, closed, live, trapped>> /\ errno' \in {"BADF", "SUCCESS"}
    BY <1>1 DEF GetWriteStream, Return, IsFile
  <2> QED
    BY <2>1 DEF TypeOK, TableOK, ClosedFds, Errno
<1>2. CASE IsFile(fd) /\ table[fd].output = None
  <2>1. fd \in Fd /\ fd < table_len /\ table[fd] \in StreamsSlot
    BY <1>2, OpenFdIsFd DEF IsFile, TypeOK
  <2>2. PICK h \in Handle \ live : table' = WithStreams(fd, table[fd].input, h)
                                   /\ live' = live \cup {h}
    BY <1>2 DEF GetWriteStream, IsFile
  <2>3. UNCHANGED <<table_len, closed, trapped>> /\ errno' = "SUCCESS"
    BY <1>2 DEF GetWriteStream, IsFile
  <2>4. TableOK'
    <3>1. h \in OptHandle /\ table[fd].input \in OptHandle
      BY <2>1, <2>2 DEF StreamsSlot, OptHandle
    <3> QED
      BY <2>1, <2>2, <2>3, <3>1, StreamUpdate
  <2> QED
    BY <2>2, <2>3, <2>4 DEF TypeOK, Errno
<1> QED
  BY <1>1, <1>2

LEMMA FdSeekType ==
  ASSUME TypeOK, NEW fd \in GuestFd, FdSeek(fd)
  PROVE  TypeOK'
<1>1. CASE SeekForgets(fd)
  <2>1. fd \in Fd /\ fd < table_len /\ table[fd] \in StreamsSlot
    BY <1>1, OpenFdIsFd DEF SeekForgets, IsFile, TypeOK
  <2>2. TableOK'
    BY <1>1, <2>1, StreamUpdate DEF SeekForgets, OptHandle
  <2> QED
    BY <1>1, <2>2 DEF SeekForgets, TypeOK, Errno
<1>2. CASE ~SeekForgets(fd)
  <2>1. UNCHANGED <<table, table_len, closed, live, trapped>>
        /\ errno' \in {"BADF", "SPIPE", "INVAL", "HOST"}
    BY <1>2 DEF FdSeek, Return
  <2> QED
    BY <2>1 DEF TypeOK, TableOK, ClosedFds, Errno
<1> QED
  BY <1>1, <1>2

LEMMA NextType == TypeOK /\ [Next]_vars => TypeOK'
<1> SUFFICES ASSUME TypeOK, [Next]_vars PROVE TypeOK'
  OBVIOUS
<1>1. ASSUME NEW fd \in GuestFd, Operate(fd) PROVE TypeOK'
  BY <1>1, PathOpenType, CloseType, GetReadStreamType, GetWriteStreamType, FdSeekType DEF Operate
<1>2. CASE \E from, to \in GuestFd : Renumber(from, to)
  BY <1>2, RenumberType
<1>3. CASE UNCHANGED vars
  BY <1>3 DEF vars, TypeOK, TableOK, ClosedFds
<1> QED
  BY <1>1, <1>2, <1>3 DEF Next

(* The table of descriptors.rs keeps its shape under any sequence of guest *)
(* calls: exactly the slots below table_len are initialised, and the free  *)
(* list never leads outside them.                                          *)
THEOREM TypeCorrect == Spec => []TypeOK
<1>1. Init => TypeOK
  BY InitType
<1>2. TypeOK /\ [Next]_vars => TypeOK'
  BY NextType
<1> QED
  BY <1>1, <1>2, PTL DEF Spec

-----------------------------------------------------------------------------
(* Ownership of host handles *)

HandlesInv == TypeOK /\ HandlesLive /\ HandlesUnshared

LEMMA HandlesOfSlot ==
  /\ \A d \in StreamsSlot : HandlesOf(d) = {d.input, d.output, d.fd} \ {None}
  /\ \A d \in ClosedSlot : HandlesOf(d) = {}
  /\ HandlesOf(Uninit) = {}
  /\ \A n : HandlesOf(Closed(n)) = {} /\ ~Holds(Closed(n))
BY DEF HandlesOf, Holds, StreamsSlot, ClosedSlot, Uninit, Closed

LEMMA OwnedSlots == HandlesLive <=> \A f \in Fd : HandlesOf(table[f]) \subseteq live
BY DEF HandlesLive, Owned

LEMMA OwnedSlotsNext == HandlesLive' <=> \A f \in Fd : HandlesOf(table'[f]) \subseteq live'
BY DEF HandlesLive, Owned, HandlesOf, Holds

(* A step that changes one slot, where the handles of the new content come *)
(* from the old content or are fresh, keeps handles live and unshared.     *)
LEMMA OneSlotStep ==
  ASSUME HandlesLive, HandlesUnshared, NEW fd \in Fd, NEW fresh,
         fresh \cap live = {},
         \A f \in Fd \ {fd} : table'[f] = table[f],
         HandlesOf(table'[fd]) \subseteq HandlesOf(table[fd]) \cup fresh,
         Holds(table'[fd]) => Unaliased(table'[fd]),
         (live \ HandlesOf(table[fd])) \cup HandlesOf(table'[fd]) \subseteq live'
  PROVE  HandlesLive' /\ HandlesUnshared'
<1>1. \A f \in Fd : HandlesOf(table[f]) \subseteq live
  BY OwnedSlots
<1>2. ASSUME NEW f \in Fd PROVE HandlesOf(table'[f]) \subseteq live'
  <2>1. CASE f = fd
    BY <2>1
  <2>2. CASE f # fd
    BY <2>2, <1>1 DEF HandlesUnshared
  <2> QED
    BY <2>1, <2>2
<1>3. ASSUME NEW f \in Fd, NEW g \in Fd, f # g
      PROVE  HandlesOf(table'[f]) \cap HandlesOf(table'[g]) = {}
  BY <1>1, <1>3 DEF HandlesUnshared
<1>4. ASSUME NEW f \in Fd, Holds(table'[f]) PROVE Unaliased(table'[f])
  BY <1>4 DEF HandlesUnshared, OpenFds
<1>5. HandlesUnshared'
  BY <1>3, <1>4 DEF HandlesUnshared, OpenFds, HandlesOf, Holds, Unaliased
<1> QED
  BY <1>2, <1>5, OwnedSlotsNext

LEMMA PathOpenHandles ==
  ASSUME HandlesInv, NEW fd \in GuestFd, PathOpen(fd)
  PROVE  HandlesLive' /\ HandlesUnshared'
<1>1. ASSUME UNCHANGED table, live \subseteq live'
      PROVE  HandlesLive' /\ HandlesUnshared'
  BY <1>1 DEF HandlesInv, HandlesLive, HandlesUnshared, Owned, HandlesOf, Holds, OpenFds, Unaliased
<1>2. CASE PathOpenFails(fd)
  BY <1>1, <1>2 DEF PathOpenFails, Return
<1>3. ASSUME NEW h \in Handle \ live, GetTypeFails(fd, h)
      PROVE  HandlesLive' /\ HandlesUnshared'
  BY <1>1, <1>3 DEF GetTypeFails
<1>4. ASSUME NEW h \in Handle \ live, NEW type \in {"File", "Directory"},
             Open(Streams(None, None, type, h), h)
      PROVE  HandlesLive' /\ HandlesUnshared'
  <2> DEFINE d == Streams(None, None, type, h)
  <2>1. d \in StreamsSlot /\ HandlesOf(d) = {h} /\ Unaliased(d)
    <3>1. d \in StreamsSlot /\ d.input = None /\ d.output = None /\ d.fd = h
      BY StreamsIsSlot DEF OptHandle, StreamType, Streams
    <3>2. h # None
      BY ConstantsAssumption
    <3> QED
      BY <3>1, <3>2, HandlesOfSlot DEF Unaliased
  <2> HIDE DEF d
  <2>2. ASSUME NEW s \in Fd, table' = [table EXCEPT ![s] = d], live' = live \cup {h}
        PROVE  HandlesLive' /\ HandlesUnshared'
    <3>1. table'[s] = d /\ \A f \in Fd \ {s} : table'[f] = table[f]
      BY <2>2 DEF HandlesInv, TypeOK, TableOK
    <3> QED
      BY <2>1, <2>2, <3>1, OneSlotStep DEF HandlesInv
  <2>3. CASE Push(d, h)
    <3>1. table_len \in Fd
      BY <2>3, ConstantsAssumption DEF Push, HandlesInv, TypeOK, TableOK, Fd
    <3> QED
      BY <2>2, <2>3, <3>1 DEF Push
  <2>4. CASE PushFull
    BY <1>1, <2>4 DEF PushFull, Return
  <2>5. CASE Pop(d, h)
    BY <2>2, <2>5 DEF Pop, HandlesInv, TypeOK, TableOK
  <2>6. CASE PopTraps(h)
    BY <1>1, <2>6 DEF PopTraps
  <2> QED
    BY <1>4, <2>3, <2>4, <2>5, <2>6 DEF Open, d
<1> QED
  BY <1>2, <1>3, <1>4 DEF PathOpen

LEMMA CloseHandles ==
  ASSUME HandlesInv, NEW fd \in GuestFd, Close(fd)
  PROVE  HandlesLive' /\ HandlesUnshared'
<1>1. CASE ~IsOpen(fd)
  BY <1>1 DEF Close, Return, HandlesInv, HandlesLive, HandlesUnshared, Owned, HandlesOf, Holds, OpenFds, Unaliased
<1>2. CASE IsOpen(fd)
  <2>1. fd \in Fd
    BY <1>2, OpenFdIsFd DEF HandlesInv, TypeOK
  <2>2. table'[fd] = Closed(closed) /\ \A f \in Fd \ {fd} : table'[f] = table[f]
    BY <1>2, <2>1 DEF Close, HandlesInv, TypeOK, TableOK
  <2>3. live' = live \ HandlesOf(table[fd])
    BY <1>2 DEF Close
  <2>4. HandlesOf(table'[fd]) = {} /\ ~Holds(table'[fd])
    BY <2>2, HandlesOfSlot
  <2> QED
    BY <2>1, <2>2, <2>3, <2>4, OneSlotStep DEF HandlesInv
<1> QED
  BY <1>1, <1>2

LEMMA StreamHandles ==
  ASSUME HandlesInv, NEW fd \in GuestFd, IsFile(fd), NEW i, NEW o, NEW fresh,
         fresh \cap live = {},
         table' = WithStreams(fd, i, o),
         Streams(i, o, table[fd].type, table[fd].fd) \in StreamsSlot,
         Unaliased(Streams(i, o, table[fd].type, table[fd].fd)),
         {i, o} \ {None} \subseteq HandlesOf(table[fd]) \cup fresh,
         live' = live \cup fresh
  PROVE  HandlesLive' /\ HandlesUnshared'
<1> DEFINE d == Streams(i, o, table[fd].type, table[fd].fd)
<1>1. fd \in Fd /\ table[fd] \in StreamsSlot
  BY OpenFdIsFd DEF IsFile, HandlesInv, TypeOK
<1>2. table'[fd] = d /\ \A f \in Fd \ {fd} : table'[f] = table[f]
  BY <1>1 DEF WithStreams, HandlesInv, TypeOK, TableOK
<1>3. HandlesOf(d) = {i, o, table[fd].fd} \ {None}
  <2>1. d.input = i /\ d.output = o /\ d.fd = table[fd].fd
    BY DEF Streams
  <2> QED
    BY <2>1, HandlesOfSlot
<1>4. HandlesOf(table[fd]) = {table[fd].input, table[fd].output, table[fd].fd} \ {None}
  BY <1>1, HandlesOfSlot
<1>5. HandlesOf(d) \subseteq HandlesOf(table[fd]) \cup fresh
  BY <1>3, <1>4
<1>6. (live \ HandlesOf(table[fd])) \cup HandlesOf(d) \subseteq live'
  BY <1>1, <1>5, OwnedSlots DEF HandlesInv
<1> HIDE DEF d
<1> QED
  BY <1>1, <1>2, <1>5, <1>6, OneSlotStep DEF HandlesInv, d

LEMMA GetReadStreamHandles ==
  ASSUME HandlesInv, NEW fd \in GuestFd, GetReadStream(fd)
  PROVE  HandlesLive' /\ HandlesUnshared'
<1>1. CASE ~IsFile(fd) \/ table[fd].input # None
  <2>1. UNCHANGED <<table, live>>
    BY <1>1 DEF GetReadStream, Return, IsFile
  <2> QED
    BY <2>1 DEF HandlesInv, HandlesLive, HandlesUnshared, Owned, HandlesOf, Holds, OpenFds, Unaliased
<1>2. CASE IsFile(fd) /\ table[fd].input = None
  <2>1. fd \in Fd /\ table[fd] \in StreamsSlot
    BY <1>2, OpenFdIsFd DEF IsFile, HandlesInv, TypeOK
  <2>2. PICK h \in Handle \ live : table' = WithStreams(fd, h, table[fd].output)
                                   /\ live' = live \cup {h}
    BY <1>2 DEF GetReadStream, IsFile
  <2> DEFINE d == Streams(h, table[fd].output, table[fd].type, table[fd].fd)
  <2>3. HandlesOf(table[fd]) = {table[fd].output, table[fd].fd} \ {None}
    BY <1>2, <2>1, HandlesOfSlot
  <2>4. h # table[fd].output /\ h # table[fd].fd /\ h # None
    BY <2>1, <2>2, <2>3, OwnedSlots, ConstantsAssumption DEF HandlesInv
  <2>5. Unaliased(table[fd])
    BY <2>1 DEF HandlesInv, HandlesUnshared, OpenFds, StreamsSlot, Holds
  <2>6. d \in StreamsSlot /\ d.input = h /\ d.output = table[fd].output /\ d.fd = table[fd].fd
    BY <2>1, <2>2 DEF StreamsSlot, Streams, OptHandle
  <2>7. Unaliased(d)
    BY <2>4, <2>5, <2>6 DEF Unaliased
  <2>8. {h} \cap live = {} /\ {h, table[fd].output} \ {None} \subseteq HandlesOf(table[fd]) \cup {h}
    BY <2>2, <2>3
  <2> QED
    BY <1>2, <2>2, <2>6, <2>7, <2>8, StreamHandles
<1> QED
  BY <1>1, <1>2

LEMMA GetWriteStreamHandles ==
  ASSUME HandlesInv, NEW fd \in GuestFd, GetWriteStream(fd)
  PROVE  HandlesLive' /\ HandlesUnshared'
<1>1. CASE ~IsFile(fd) \/ table[fd].output # None
  <2>1. UNCHANGED <<table, live>>
    BY <1>1 DEF GetWriteStream, Return, IsFile
  <2> QED
    BY <2>1 DEF HandlesInv, HandlesLive, HandlesUnshared, Owned, HandlesOf, Holds, OpenFds, Unaliased
<1>2. CASE IsFile(fd) /\ table[fd].output = None
  <2>1. fd \in Fd /\ table[fd] \in StreamsSlot
    BY <1>2, OpenFdIsFd DEF IsFile, HandlesInv, TypeOK
  <2>2. PICK h \in Handle \ live : table' = WithStreams(fd, table[fd].input, h)
                                   /\ live' = live \cup {h}
    BY <1>2 DEF GetWriteStream, IsFile
  <2> DEFINE d == Streams(table[fd].input, h, table[fd].type, table[fd].fd)
  <2>3. HandlesOf(table[fd]) = {table[fd].input, table[fd].fd} \ {None}
    BY <1>2, <2>1, HandlesOfSlot
  <2>4. h # table[fd].input /\ h # table[fd].fd /\ h # None
    BY <2>1, <2>2, <2>3, OwnedSlots, ConstantsAssumption DEF HandlesInv
  <2>5. Unaliased(table[fd])
    BY <2>1 DEF HandlesInv, HandlesUnshared, OpenFds, StreamsSlot, Holds
  <2>6. d \in StreamsSlot /\ d.input = table[fd].input /\ d.output = h /\ d.fd = table[fd].fd
    BY <2>1, <2>2 DEF StreamsSlot, Streams, OptHandle
  <2>7. Unaliased(d)
    BY <2>4, <2>5, <2>6 DEF Unaliased
  <2>8. {h} \cap live = {} /\ {table[fd].input, h} \ {None} \subseteq HandlesOf(table[fd]) \cup {h}
    BY <2>2, <2>3
  <2> QED
    BY <1>2, <2>2, <2>6, <2>7, <2>8, StreamHandles
<1> QED
  BY <1>1, <1>2

LEMMA FdSeekHandles ==
  ASSUME HandlesInv, NEW fd \in GuestFd, FdSeek(fd)
  PROVE  HandlesLive' /\ HandlesUnshared'
<1>1. CASE SeekForgets(fd)
  <2>1. fd \in Fd /\ table[fd] \in StreamsSlot
    BY <1>1, OpenFdIsFd DEF SeekForgets, IsFile, HandlesInv, TypeOK
  <2> DEFINE d == Streams(None, None, table[fd].type, table[fd].fd)
  <2>2. d \in StreamsSlot /\ d.input = None /\ d.output = None
    BY <2>1 DEF StreamsSlot, Streams, OptHandle
  <2>3. Unaliased(d)
    BY <2>2 DEF Unaliased
  <2>4. live' = live \cup {} /\ table' = WithStreams(fd, None, None) /\ IsFile(fd)
    BY <1>1 DEF SeekForgets
  <2>5. {None, None} \ {None} \subseteq HandlesOf(table[fd]) \cup {}
    OBVIOUS
  <2> QED
    BY <2>2, <2>3, <2>4, <2>5, StreamHandles
<1>2. CASE ~SeekForgets(fd)
  <2>1. UNCHANGED <<table, live>>
    BY <1>2 DEF FdSeek, Return
  <2> QED
    BY <2>1 DEF HandlesInv, HandlesLive, HandlesUnshared, Owned, HandlesOf, Holds, OpenFds, Unaliased
<1> QED
  BY <1>1, <1>2

LEMMA ExpandedSlots ==
  ASSUME TypeOK, NEW to \in GuestFd, NEW f \in Fd
  PROVE  LET e == Expanded(ExpandedLen(to))[f] IN
         /\ HandlesOf(e) = HandlesOf(table[f])
         /\ Holds(e) <=> Holds(table[f])
         /\ Holds(e) => e = table[f]
<1> DEFINE n == ExpandedLen(to)
<1>1. CASE f \in table_len..(n - 1)
  <2>1. table[f] = Uninit
    BY <1>1, ConstantsAssumption DEF TypeOK, TableOK, Fd
  <2>2. Expanded(n)[f] = Closed(IF f = table_len THEN closed ELSE f - 1)
    BY <1>1 DEF Expanded
  <2>3. ~Holds(Uninit)
    BY DEF Holds, Uninit
  <2> QED
    BY <2>1, <2>2, <2>3, HandlesOfSlot
<1>2. CASE f \notin table_len..(n - 1)
  BY <1>2 DEF Expanded
<1> QED
  BY <1>1, <1>2

LEMMA RenumberHandles ==
  ASSUME HandlesInv, NEW from \in GuestFd, NEW to \in GuestFd, Renumber(from, to)
  PROVE  HandlesLive' /\ HandlesUnshared'
<1> DEFINE n == ExpandedLen(to)
<1>1. CASE from >= table_len /\ Return("BADF")
  BY <1>1 DEF Return, HandlesInv, HandlesLive, HandlesUnshared, Owned, HandlesOf, Holds, OpenFds, Unaliased
<1>2. CASE RenumberFails(from, to)
  <2>1. table' = Expanded(n) /\ live' = live
    BY <1>2 DEF RenumberFails
  <2>2. \A f \in Fd : /\ HandlesOf(table'[f]) = HandlesOf(table[f])
                      /\ Holds(table'[f]) => Holds(table[f]) /\ table'[f] = table[f]
    BY <2>1, ExpandedSlots DEF HandlesInv
  <2>3. HandlesLive'
    BY <2>1, <2>2, OwnedSlots, OwnedSlotsNext DEF HandlesInv
  <2>4. HandlesUnshared'
    BY <2>2 DEF HandlesInv, HandlesUnshared, OpenFds, HandlesOf, Holds, Unaliased
  <2> QED
    BY <2>3, <2>4
<1>3. CASE RenumberMoves(from, to)
  <2>1. from \in Fd /\ table[from] \in StreamsSlot
    BY <1>3, OpenFdIsFd DEF RenumberMoves, HandlesInv, TypeOK
  <2>2. to \in Fd
    BY <1>3, ConstantsAssumption DEF RenumberMoves, Fd
  <2>3. Expanded(n) \in [Fd -> Slot]
    BY ExpandedTableOK DEF HandlesInv, TypeOK
  <2>4. /\ table' = [Vacated(from, n) EXCEPT ![to] = table[from]]
        /\ live' = live \ HandlesOf(Vacated(from, n)[to])
    BY <1>3 DEF RenumberMoves
  <2> DEFINE hole == Closed(ExpandedClosed(n))
  <2>5. \A f \in Fd : Vacated(from, n)[f] = IF f = from THEN hole ELSE Expanded(n)[f]
    BY <2>1, <2>3 DEF Vacated
  <2>6. \A f \in Fd : table'[f] = IF f = to THEN table[from] ELSE Vacated(from, n)[f]
    BY <2>2, <2>3, <2>4 DEF Vacated
  <2>7. HandlesOf(hole) = {} /\ ~Holds(hole)
    BY HandlesOfSlot
  <2>8. \A f \in Fd : HandlesOf(table'[f]) = IF f = to THEN HandlesOf(table[from])
                                             ELSE IF f = from THEN {}
                                             ELSE HandlesOf(table[f])
    BY <2>5, <2>6, <2>7, ExpandedSlots DEF HandlesInv
  <2>9. live' = live \ (IF to = from THEN {} ELSE HandlesOf(table[to]))
    BY <2>2, <2>4, <2>5, <2>7, ExpandedSlots DEF HandlesInv
  <2>10. \A f \in Fd : HandlesOf(table[f]) \subseteq live
    BY OwnedSlots DEF HandlesInv
  <2>11. \A f, g \in Fd : f # g => HandlesOf(table[f]) \cap HandlesOf(table[g]) = {}
    BY DEF HandlesInv, HandlesUnshared
  <2>12. HandlesLive'
    <3> SUFFICES ASSUME NEW f \in Fd PROVE HandlesOf(table'[f]) \subseteq live'
      BY OwnedSlotsNext
    <3>1. CASE f = to
      BY <3>1, <2>1, <2>2, <2>8, <2>9, <2>10, <2>11
    <3>2. CASE f # to /\ f = from
      BY <3>2, <2>8
    <3>3. CASE f # to /\ f # from
      BY <3>3, <2>2, <2>8, <2>9, <2>10, <2>11
    <3> QED
      BY <3>1, <3>2, <3>3
  <2>13. \A f, g \in Fd : f # g => HandlesOf(table'[f]) \cap HandlesOf(table'[g]) = {}
    BY <2>1, <2>8, <2>11
  <2>14. ASSUME NEW f \in Fd, Holds(table'[f]) PROVE Unaliased(table'[f])
    <3>1. PICK g \in Fd : table'[f] = table[g] /\ Holds(table[g])
      BY <2>1, <2>5, <2>6, <2>7, <2>14, ExpandedSlots DEF HandlesInv
    <3> QED
      BY <3>1 DEF HandlesInv, HandlesUnshared, OpenFds
  <2>15. HandlesUnshared'
    BY <2>13, <2>14 DEF HandlesUnshared, OpenFds, HandlesOf, Holds, Unaliased
  <2> QED
    BY <2>12, <2>15
<1> QED
  BY <1>1, <1>2, <1>3 DEF Renumber

LEMMA NextHandles == HandlesInv /\ [Next]_vars => HandlesInv'
<1> SUFFICES ASSUME HandlesInv, [Next]_vars PROVE HandlesLive' /\ HandlesUnshared'
  BY NextType DEF HandlesInv
<1>1. ASSUME NEW fd \in GuestFd, Operate(fd) PROVE HandlesLive' /\ HandlesUnshared'
  BY <1>1, PathOpenHandles, CloseHandles, GetReadStreamHandles, GetWriteStreamHandles,
     FdSeekHandles DEF Operate
<1>2. CASE \E from, to \in GuestFd : Renumber(from, to)
  BY <1>2, RenumberHandles
<1>3. CASE UNCHANGED vars
  BY <1>3 DEF vars, HandlesInv, HandlesLive, HandlesUnshared, Owned, HandlesOf, Holds, OpenFds, Unaliased
<1> QED
  BY <1>1, <1>2, <1>3 DEF Next

LEMMA InitHandles == Init => HandlesInv
<1> SUFFICES ASSUME Init PROVE HandlesLive /\ HandlesUnshared
  BY InitType DEF HandlesInv
<1>1. PICK h \in [0..(NumInitial - 1) -> Handle] :
        /\ \A i, j \in 0..(NumInitial - 1) : h[i] = h[j] => i = j
        /\ table = [fd \in Fd |-> IF fd < NumInitial
                                  THEN InitialSlot(fd, h[fd]) ELSE Uninit]
        /\ live = {h[i] : i \in 0..(NumInitial - 1)}
  BY DEF Init
<1>2. NumInitial \in Nat
  BY ConstantsAssumption DEF NumInitial
<1>3. ASSUME NEW fd \in Fd, fd < NumInitial
      PROVE  HandlesOf(table[fd]) = {h[fd]} /\ Unaliased(table[fd])
  <2>1. fd \in 0..(NumInitial - 1) /\ h[fd] \in Handle /\ h[fd] # None
    BY <1>1, <1>2, <1>3, ConstantsAssumption DEF Fd
  <2>2. table[fd] = InitialSlot(fd, h[fd])
    BY <1>1, <1>3
  <2>3. Unaliased(InitialSlot(fd, h[fd]))
    BY <2>1 DEF InitialSlot, Streams, Unaliased
  <2>4. HandlesOf(InitialSlot(fd, h[fd])) = {h[fd]}
    <3>1. CASE fd = 0
      BY <3>1, <2>1 DEF InitialSlot, Streams, HandlesOf, Holds
    <3>2. CASE fd # 0 /\ fd <= 2
      BY <3>2, <2>1 DEF InitialSlot, Streams, HandlesOf, Holds
    <3>3. CASE fd # 0 /\ ~(fd <= 2)
      BY <3>3, <2>1 DEF InitialSlot, Streams, HandlesOf, Holds
    <3> QED
      BY <3>1, <3>2, <3>3
  <2> QED
    BY <2>2, <2>3, <2>4
<1>4. ASSUME NEW fd \in Fd, ~(fd < NumInitial)
      PROVE  HandlesOf(table[fd]) = {} /\ ~Holds(table[fd])
  BY <1>1, <1>4 DEF HandlesOf, Holds, Uninit
<1>5. \A fd \in Fd : fd < NumInitial => fd \in 0..(NumInitial - 1)
  BY <1>2, ConstantsAssumption DEF Fd
<1>6. HandlesLive
  <2>1. ASSUME NEW fd \in Fd PROVE HandlesOf(table[fd]) \subseteq live
    BY <1>1, <1>3, <1>4, <1>5
  <2> QED
    BY <2>1, OwnedSlots
<1>7. ASSUME NEW f \in Fd, NEW g \in Fd, f # g
      PROVE  HandlesOf(table[f]) \cap HandlesOf(table[g]) = {}
  <2>1. CASE f < NumInitial /\ g < NumInitial
    <3>1. h[f] # h[g]
      BY <1>1, <1>5, <1>7, <2>1
    <3> QED
      BY <1>3, <2>1, <3>1
  <2>2. CASE ~(f < NumInitial /\ g < NumInitial)
    BY <1>4, <2>2
  <2> QED
    BY <2>1, <2>2
<1> QED
  BY <1>3, <1>4, <1>6, <1>7 DEF HandlesUnshared, OpenFds

LEMMA SpecHandlesInv == Spec => []HandlesInv
<1>1. Init => HandlesInv
  BY InitHandles
<1>2. HandlesInv /\ [Next]_vars => HandlesInv'
  BY NextHandles
<1> QED
  BY <1>1, <1>2, PTL DEF Spec

(* No guest, whatever it opens, closes, renumbers, reads, writes or seeks, *)
(* makes the adapter use or drop a handle the host has forgotten.          *)
THEOREM HandlesStayLive == Spec => []HandlesLive
<1>1. HandlesInv => HandlesLive
  BY DEF HandlesInv
<1> QED
  BY <1>1, SpecHandlesInv, PTL

(* No guest makes two descriptors share a handle, so none is dropped twice. *)
THEOREM HandlesStayUnshared == Spec => []HandlesUnshared
<1>1. HandlesInv => HandlesUnshared
  BY DEF HandlesInv
<1> QED
  BY <1>1, SpecHandlesInv, PTL

(* An open never replaces a descriptor that is in use, whatever state the  *)
(* free list is in.                                                        *)
THEOREM OpenNeverReplaces == Spec => OpenKeepsDescriptors
<1>1. ASSUME TypeOK, NEW fd \in GuestFd, PathOpen(fd), NEW f \in Fd, Holds(table[f])
      PROVE  table'[f] = table[f]
  <2>1. ASSUME NEW h \in Handle, NEW type \in {"File", "Directory"},
               Open(Streams(None, None, type, h), h)
        PROVE  table'[f] = table[f]
    <3> DEFINE d == Streams(None, None, type, h)
    <3> HIDE DEF d
    <3>1. CASE Push(d, h)
      <4>1. table_len \in Fd /\ table_len >= table_len
        BY <1>1, <3>1, ConstantsAssumption DEF Push, TypeOK, TableOK, Fd
      <4>2. f # table_len
        BY <1>1, <4>1 DEF Holds, Uninit, TypeOK, TableOK
      <4> QED
        BY <1>1, <3>1, <4>2 DEF Push, TypeOK, TableOK
    <3>2. CASE PushFull \/ PopTraps(h)
      BY <3>2 DEF PushFull, PopTraps, Return
    <3>3. CASE Pop(d, h)
      BY <1>1, <3>3 DEF Pop, Holds, TypeOK, TableOK
    <3> QED
      BY <2>1, <3>1, <3>2, <3>3 DEF Open, d
  <2> QED
    BY <1>1, <2>1 DEF PathOpen, PathOpenFails, GetTypeFails, Return
<1>2. TypeOK /\ [Next]_vars => [OpenKeeps]_vars
  BY <1>1 DEF OpenKeeps
<1> QED
  BY <1>2, TypeCorrect, PTL DEF Spec, OpenKeepsDescriptors

(* A call that fails leaves every open descriptor as it was.               *)
THEOREM FailedCallsKeep == Spec => FailedCallsKeepDescriptors
<1> DEFINE Same == \A fd \in Fd : Holds(table[fd]) \/ Holds(table'[fd]) => table'[fd] = table[fd]
<1>1. ASSUME TypeOK, NEW fd \in GuestFd, Operate(fd), errno' # "SUCCESS"
      PROVE  UNCHANGED table
  <2>1. CASE PathOpen(fd)
    BY <1>1, <2>1 DEF PathOpen, PathOpenFails, GetTypeFails, Open, Push, PushFull, Pop, PopTraps, Return
  <2>2. CASE Close(fd)
    BY <1>1, <2>2 DEF Close, Return
  <2>3. CASE GetReadStream(fd) \/ GetWriteStream(fd)
    BY <1>1, <2>3 DEF GetReadStream, GetWriteStream, Return
  <2>4. CASE FdSeek(fd)
    BY <1>1, <2>4 DEF FdSeek, SeekForgets, Return
  <2> QED
    BY <1>1, <2>1, <2>2, <2>3, <2>4 DEF Operate
<1>2. ASSUME TypeOK, NEW from \in GuestFd, NEW to \in GuestFd, Renumber(from, to),
             errno' # "SUCCESS"
      PROVE  Same
  <2>1. CASE from >= table_len /\ Return("BADF")
    BY <2>1 DEF Return
  <2>2. CASE RenumberFails(from, to)
    <3>1. table' = Expanded(ExpandedLen(to))
      BY <2>2 DEF RenumberFails
    <3> QED
      BY <1>2, <3>1, ExpandedSlots
  <2>3. CASE RenumberMoves(from, to)
    BY <1>2, <2>3 DEF RenumberMoves
  <2> QED
    BY <1>2, <2>1, <2>2, <2>3 DEF Renumber
<1>3. TypeOK /\ [Next]_vars => [FailureKeeps]_vars
  BY <1>1, <1>2 DEF Next, FailureKeeps
<1> QED
  BY <1>3, TypeCorrect, PTL DEF Spec, FailedCallsKeepDescriptors

-----------------------------------------------------------------------------
(* The free list of a guest that renumbers onto other open descriptors     *)

LEMMA ListLength ==
  ASSUME NEW n \in Nat, NEW s \in [1..n -> Fd], \A i, j \in 1..n : s[i] = s[j] => i = j
  PROVE  n \in 0..MAX_DESCRIPTORS
<1>1. s \in Injection(1..n, Fd)
  BY DEF Injection, IsInjective
<1>2. IsFiniteSet(Fd) /\ Cardinality(Fd) = MAX_DESCRIPTORS
  <2>1. 0 \in Int /\ MAX_DESCRIPTORS - 1 \in Int
    BY ConstantsAssumption
  <2> QED
    BY <2>1, FS_Interval, ConstantsAssumption DEF Fd
<1>3. Cardinality(1..n) = n
  BY FS_Interval
<1>4. Cardinality(1..n) <= Cardinality(Fd)
  BY <1>1, <1>2, FS_Injection
<1> QED
  BY <1>2, <1>3, <1>4, ConstantsAssumption

(* The witness of FreelistOK in the next state only needs a length that is *)
(* a natural number: it cannot be longer than the table.                   *)
LEMMA NewFreelist ==
  ASSUME NEW n \in Nat, NEW s \in [1..n -> ClosedFds'], IsFreelist(s, n)'
  PROVE  FreelistOK'
<1>1. s \in [1..n -> Fd]
  BY DEF ClosedFds
<1>2. \A i, j \in 1..n : s[i] = s[j] => i = j
  BY DEF IsFreelist
<1>3. n \in 0..MAX_DESCRIPTORS
  BY <1>1, <1>2, ListLength
<1> QED
  BY <1>3 DEF FreelistOK

(* A step that leaves the closed slots alone leaves the free list alone. *)
LEMMA ListKept ==
  ASSUME FreelistOK, ClosedFds' = ClosedFds, closed' = closed,
         \A fd \in ClosedFds : table'[fd].next = table[fd].next
  PROVE  FreelistOK'
<1>0. PICK n \in 0..MAX_DESCRIPTORS : \E s \in [1..n -> ClosedFds] : IsFreelist(s, n)
  BY DEF FreelistOK
<1>1. PICK s \in [1..n -> ClosedFds] : IsFreelist(s, n)
  BY <1>0
<1>2. IsFreelist(s, n)'
  BY <1>1 DEF IsFreelist
<1>3. n \in Nat
  OBVIOUS
<1> QED
  BY <1>2, <1>3, NewFreelist

(* A slot that becomes closed, linked to the old head, is the new head. *)
LEMMA ListPushed ==
  ASSUME FreelistOK, NEW fd \in Fd, fd \notin ClosedFds,
         ClosedFds' = ClosedFds \cup {fd}, closed' = fd, table'[fd].next = closed,
         \A f \in ClosedFds : table'[f].next = table[f].next
  PROVE  FreelistOK'
<1>0. PICK n \in 0..MAX_DESCRIPTORS : \E s \in [1..n -> ClosedFds] : IsFreelist(s, n)
  BY DEF FreelistOK
<1>1. PICK s \in [1..n -> ClosedFds] : IsFreelist(s, n)
  BY <1>0
<1>2. n \in Nat /\ n + 1 \in Nat
  OBVIOUS
<1> DEFINE t == [i \in 1..(n + 1) |-> IF i = n + 1 THEN fd ELSE s[i]]
<1>3. t \in [1..(n + 1) -> ClosedFds']
  BY <1>2
<1>4. t[n + 1] = fd /\ \A i \in 1..n : t[i] = s[i] /\ s[i] \in ClosedFds
  BY <1>2
<1>5. \A i \in 1..(n + 1) : i = n + 1 \/ i \in 1..n
  BY <1>2
<1> HIDE DEF t
<1>6. \A i, j \in 1..(n + 1) : t[i] = t[j] => i = j
  BY <1>1, <1>4, <1>5 DEF IsFreelist
<1>7. ASSUME NEW f \in ClosedFds' PROVE \E i \in 1..(n + 1) : t[i] = f
  <2>1. CASE f = fd
    BY <1>2, <1>4, <2>1
  <2>2. CASE f \in ClosedFds
    <3>1. PICK i \in 1..n : s[i] = f
      BY <1>1, <2>2 DEF IsFreelist
    <3>2. i \in 1..(n + 1)
      BY <1>2
    <3> QED
      BY <1>4, <3>1, <3>2
  <2> QED
    BY <2>1, <2>2
<1>8. \A i \in 1..(n + 1) : table'[t[i]].next = IF i = 1 THEN None ELSE t[i - 1]
  <2> SUFFICES ASSUME NEW i \in 1..(n + 1)
               PROVE  table'[t[i]].next = IF i = 1 THEN None ELSE t[i - 1]
    OBVIOUS
  <2>1. CASE i = n + 1
    <3>1. table'[t[i]].next = IF n = 0 THEN None ELSE s[n]
      BY <1>1, <1>4, <2>1 DEF IsFreelist
    <3> QED
      BY <1>2, <1>4, <2>1, <3>1
  <2>2. CASE i \in 1..n
    <3>1. table'[t[i]].next = IF i = 1 THEN None ELSE s[i - 1]
      BY <1>1, <1>4, <2>2 DEF IsFreelist
    <3>2. i # 1 => i - 1 \in 1..n
      BY <1>2, <2>2
    <3> QED
      BY <1>4, <3>1, <3>2
  <2> QED
    BY <1>5, <2>1, <2>2
<1>9. IsFreelist(t, n + 1)'
  BY <1>2, <1>4, <1>6, <1>7, <1>8 DEF IsFreelist
<1> QED
  BY <1>2, <1>3, <1>9, NewFreelist

(* Popping the head leaves the rest of the list. *)
LEMMA ListPopped ==
  ASSUME FreelistOK, closed # None, ClosedFds' = ClosedFds \ {closed},
         closed' = table[closed].next,
         \A f \in ClosedFds' : table'[f].next = table[f].next
  PROVE  FreelistOK'
<1>0. PICK n \in 0..MAX_DESCRIPTORS : \E s \in [1..n -> ClosedFds] : IsFreelist(s, n)
  BY DEF FreelistOK
<1>1. PICK s \in [1..n -> ClosedFds] : IsFreelist(s, n)
  BY <1>0
<1>2. n \in Nat /\ n # 0 /\ n - 1 \in Nat /\ closed = s[n] /\ n \in 1..n
  BY <1>1 DEF IsFreelist
<1> DEFINE t == [i \in 1..(n - 1) |-> s[i]]
<1>3. \A i \in 1..(n - 1) : i \in 1..n /\ i # n /\ t[i] = s[i]
  BY <1>2
<1>4. t \in [1..(n - 1) -> ClosedFds']
  BY <1>1, <1>2, <1>3 DEF IsFreelist
<1> HIDE DEF t
<1>5. \A i, j \in 1..(n - 1) : t[i] = t[j] => i = j
  BY <1>1, <1>3 DEF IsFreelist
<1>6. \A f \in ClosedFds' : \E i \in 1..(n - 1) : t[i] = f
  <2> SUFFICES ASSUME NEW f \in ClosedFds' PROVE \E i \in 1..(n - 1) : t[i] = f
    OBVIOUS
  <2>1. PICK i \in 1..n : s[i] = f
    BY <1>1 DEF IsFreelist
  <2>2. i \in 1..(n - 1)
    BY <1>2, <2>1
  <2> QED
    BY <1>3, <2>1, <2>2
<1>7. closed' = IF n - 1 = 0 THEN None ELSE t[n - 1]
  BY <1>1, <1>2, <1>3 DEF IsFreelist
<1>8. \A i \in 1..(n - 1) : table'[t[i]].next = IF i = 1 THEN None ELSE t[i - 1]
  <2> SUFFICES ASSUME NEW i \in 1..(n - 1)
               PROVE  table'[t[i]].next = IF i = 1 THEN None ELSE t[i - 1]
    OBVIOUS
  <2>1. table'[t[i]].next = table[s[i]].next
    BY <1>3, <1>4
  <2>2. table[s[i]].next = IF i = 1 THEN None ELSE s[i - 1]
    BY <1>1, <1>3 DEF IsFreelist
  <2>3. i # 1 => i - 1 \in 1..(n - 1)
    BY <1>2
  <2> QED
    BY <1>3, <2>1, <2>2, <2>3
<1>9. IsFreelist(t, n - 1)'
  BY <1>5, <1>6, <1>7, <1>8 DEF IsFreelist
<1> QED
  BY <1>2, <1>4, <1>9, NewFreelist

(* push_closed, any number of times: the new slots come after the old      *)
(* ones, from the lowest to the highest, which is the new head.            *)
LEMMA ListExtended ==
  ASSUME TypeOK, FreelistOK, NEW n \in 0..MAX_DESCRIPTORS, table_len <= n,
         table' = Expanded(n), closed' = ExpandedClosed(n)
  PROVE  FreelistOK'
<1>0. PICK k \in 0..MAX_DESCRIPTORS : \E s \in [1..k -> ClosedFds] : IsFreelist(s, k)
  BY DEF FreelistOK
<1>1. PICK s \in [1..k -> ClosedFds] : IsFreelist(s, k)
  BY <1>0
<1>a. table_len \in Nat
  BY ConstantsAssumption DEF TypeOK, TableOK
<1>b. PICK L \in Nat : L = table_len
  BY <1>a
<1>c. PICK m \in Nat : m = k + (n - L)
  BY <1>b
<1> DEFINE t == [i \in 1..m |-> IF i <= k THEN s[i] ELSE L + (i - k - 1)]
<1>2. k \in Nat /\ n \in Nat /\ L \in Nat /\ m \in Nat /\ L <= n /\ n <= MAX_DESCRIPTORS
  BY <1>b
<1>3. ASSUME NEW fd \in Fd, fd \in L..(n - 1)
      PROVE  /\ table'[fd].tag = "Closed"
             /\ table'[fd].next = IF fd = L THEN closed ELSE fd - 1
  <2>1. table'[fd] = Closed(IF fd = L THEN closed ELSE fd - 1)
    BY <1>b, <1>3 DEF Expanded
  <2> QED
    BY <2>1, ClosedFields
<1>4. \A fd \in Fd : fd \notin L..(n - 1) => table'[fd] = table[fd]
  BY <1>b DEF Expanded
<1>5. L..(n - 1) \subseteq Fd
  BY <1>2, <1>b, <1>c, ConstantsAssumption DEF Fd
<1>6. ClosedFds' = ClosedFds \cup (L..(n - 1))
  BY <1>3, <1>4, <1>5 DEF ClosedFds
<1>7. \A fd \in ClosedFds : fd \in Fd /\ fd < L
  <2> SUFFICES ASSUME NEW fd \in ClosedFds PROVE fd < L
    BY DEF ClosedFds
  <2>1. table[fd] # Uninit /\ fd \in Fd
    BY DEF ClosedFds, Uninit
  <2> QED
    BY <1>2, <1>b, <1>c, <2>1, ConstantsAssumption DEF TypeOK, TableOK, Fd
<1>8. ASSUME NEW i \in 1..m, i <= k
      PROVE  i \in 1..k /\ t[i] = s[i] /\ s[i] \in ClosedFds
  BY <1>2, <1>b, <1>c, <1>8
<1>9. ASSUME NEW i \in 1..m, ~(i <= k)
      PROVE  t[i] = L + (i - k - 1) /\ t[i] \in L..(n - 1)
  BY <1>2, <1>b, <1>c, <1>9
<1>10. t \in [1..m -> ClosedFds']
  BY <1>6, <1>8, <1>9
<1>11. \A i \in 1..k : i \in 1..m
  BY <1>2, <1>b, <1>c
<1> HIDE DEF t
<1>12. ASSUME NEW i \in 1..m, NEW j \in 1..m, t[i] = t[j] PROVE i = j
  <2>1. CASE i <= k /\ j <= k
    BY <1>1, <1>8, <1>12, <2>1 DEF IsFreelist
  <2>2. CASE ~(i <= k) /\ ~(j <= k)
    BY <1>2, <1>b, <1>c, <1>9, <1>12, <2>2
  <2>3. CASE (i <= k) # (j <= k)
    <3>1. CASE i <= k
      BY <1>2, <1>b, <1>c, <1>7, <1>8, <1>9, <1>12, <2>3, <3>1
    <3>2. CASE ~(i <= k)
      BY <1>2, <1>b, <1>c, <1>7, <1>8, <1>9, <1>12, <2>3, <3>2
    <3> QED
      BY <3>1, <3>2
  <2> QED
    BY <2>1, <2>2, <2>3
<1>13. ASSUME NEW f \in ClosedFds' PROVE \E i \in 1..m : t[i] = f
  <2>1. CASE f \in ClosedFds
    <3>1. PICK i \in 1..k : s[i] = f
      BY <1>1, <2>1 DEF IsFreelist
    <3>2. i \in 1..m /\ i <= k
      BY <1>11
    <3> QED
      BY <1>8, <3>1, <3>2
  <2>2. CASE f \in L..(n - 1)
    <3> DEFINE i == f - L + k + 1
    <3>1. i \in 1..m /\ ~(i <= k) /\ L + (i - k - 1) = f
      BY <1>2, <1>b, <1>c, <2>2
    <3> HIDE DEF i
    <3> QED
      BY <1>9, <3>1
  <2> QED
    BY <1>6, <2>1, <2>2
<1>14. closed' = IF m = 0 THEN None ELSE t[m]
  <2>1. CASE n = L
    <3>1. m = k /\ closed' = closed
      BY <1>2, <1>b, <1>c, <2>1 DEF ExpandedClosed
    <3>2. m # 0 => m \in 1..m /\ m <= k
      BY <1>2, <1>b, <1>c, <3>1
    <3> QED
      BY <1>1, <1>8, <3>1, <3>2 DEF IsFreelist
  <2>2. CASE n # L
    <3>1. m \in 1..m /\ ~(m <= k) /\ L + (m - k - 1) = n - 1 /\ n > table_len
      BY <1>2, <1>b, <1>c, <2>2
    <3>2. t[m] = n - 1
      BY <1>9, <3>1
    <3>3. m # 0
      BY <3>1
    <3> QED
      BY <3>1, <3>2, <3>3 DEF ExpandedClosed
  <2> QED
    BY <2>1, <2>2
<1>15. ASSUME NEW i \in 1..m
       PROVE  table'[t[i]].next = IF i = 1 THEN None ELSE t[i - 1]
  <2>1. i # 1 => i - 1 \in 1..m
    BY <1>2, <1>b, <1>c
  <2>2. CASE i <= k
    <3>1. s[i] \in Fd /\ s[i] \notin L..(n - 1)
      BY <1>2, <1>b, <1>c, <1>7, <1>8, <2>2, ConstantsAssumption DEF Fd
    <3>2. table'[t[i]].next = table[s[i]].next
      BY <1>4, <1>8, <2>2, <3>1
    <3>3. table[s[i]].next = IF i = 1 THEN None ELSE s[i - 1]
      BY <1>1, <1>8, <2>2 DEF IsFreelist
    <3>4. i # 1 => t[i - 1] = s[i - 1]
      BY <1>2, <1>b, <1>c, <1>8, <2>1, <2>2
    <3> QED
      BY <3>2, <3>3, <3>4
  <2>3. CASE i = k + 1
    <3>1. ~(i <= k) /\ t[i] = L /\ L \in L..(n - 1)
      BY <1>2, <1>b, <1>c, <1>9, <2>3
    <3>2. table'[L].next = closed
      BY <1>3, <1>5, <3>1
    <3>3. closed = IF k = 0 THEN None ELSE s[k]
      BY <1>1 DEF IsFreelist
    <3>4. k # 0 => k \in 1..m /\ k <= k /\ i - 1 = k /\ i # 1
      BY <1>2, <1>b, <1>c, <2>3
    <3>5. k = 0 => i = 1
      BY <2>3
    <3>6. k # 0 => t[k] = s[k]
      BY <1>8, <3>4
    <3> QED
      BY <3>1, <3>2, <3>3, <3>4, <3>5, <3>6
  <2>4. CASE ~(i <= k) /\ i # k + 1
    <3>1. i - 1 \in 1..m /\ ~(i - 1 <= k) /\ i # 1
      BY <1>2, <1>b, <1>c, <2>4
    <3>2. t[i] = L + (i - k - 1) /\ t[i] \in L..(n - 1) /\ t[i - 1] = L + (i - 1 - k - 1)
      BY <1>9, <2>4, <3>1
    <3>3. t[i] # L /\ t[i] - 1 = t[i - 1]
      BY <1>2, <1>b, <1>c, <2>4, <3>1, <3>2
    <3>4. table'[t[i]].next = t[i] - 1
      BY <1>3, <1>5, <3>2, <3>3
    <3> QED
      BY <3>1, <3>3, <3>4
  <2> QED
    BY <2>2, <2>3, <2>4
<1>16. IsFreelist(t, m)'
  BY <1>12, <1>13, <1>14, <1>15 DEF IsFreelist
<1> QED
  BY <1>2, <1>b, <1>c, <1>10, <1>16, NewFreelist

FreelistInv == TypeOK /\ FreelistOK /\ NeverTraps

LEMMA FreelistHead ==
  ASSUME FreelistOK
  PROVE  /\ closed # None => closed \in ClosedFds
         /\ closed = None => ClosedFds = {}
<1>1. PICK n \in 0..MAX_DESCRIPTORS : \E s \in [1..n -> ClosedFds] : IsFreelist(s, n)
  BY DEF FreelistOK
<1>2. PICK s \in [1..n -> ClosedFds] : IsFreelist(s, n)
  BY <1>1
<1>3. CASE n = 0
  BY <1>2, <1>3 DEF IsFreelist
<1>4. CASE n # 0
  <2>1. n \in 1..n
    BY <1>4
  <2>2. closed = s[n] /\ s[n] \in ClosedFds
    BY <1>2, <1>4, <2>1 DEF IsFreelist
  <2>3. closed # None
    BY <2>2, ConstantsAssumption DEF ClosedFds, Fd
  <2> QED
    BY <2>2, <2>3
<1> QED
  BY <1>3, <1>4

LEMMA InitFreelist == Init => FreelistInv
<1> SUFFICES ASSUME Init PROVE FreelistOK /\ NeverTraps
  BY InitType DEF FreelistInv
<1>1. ClosedFds = {}
  <2>1. PICK h \in [0..(NumInitial - 1) -> Handle] :
          table = [fd \in Fd |-> IF fd < NumInitial THEN InitialSlot(fd, h[fd]) ELSE Uninit]
    BY DEF Init
  <2> QED
    BY <2>1 DEF ClosedFds, InitialSlot, Streams, Uninit
<1>2. closed = None
  BY DEF Init
<1> DEFINE s == [i \in 1..0 |-> 0]
<1>3. s \in [1..0 -> ClosedFds]
  BY <1>1
<1>4. IsFreelist(s, 0)
  BY <1>1, <1>2 DEF IsFreelist
<1>5. 0 \in 0..MAX_DESCRIPTORS
  BY ConstantsAssumption
<1>6. FreelistOK
  BY <1>3, <1>4, <1>5 DEF FreelistOK
<1> QED
  BY <1>6 DEF Init, NeverTraps

(* Writing Streams over a slot that was not closed. *)
LEMMA ListSlotFilled ==
  ASSUME TypeOK, FreelistOK, NEW fd \in Fd, fd \notin ClosedFds, NEW d,
         Holds(d), table' = [table EXCEPT ![fd] = d], closed' = closed
  PROVE  FreelistOK'
<1>1. ClosedFds' = ClosedFds /\ \A f \in ClosedFds : table'[f] = table[f]
  BY DEF TypeOK, TableOK, ClosedFds, Holds
<1> QED
  BY <1>1, ListKept

LEMMA PathOpenFreelist ==
  ASSUME FreelistInv, NEW fd \in GuestFd, PathOpen(fd)
  PROVE  FreelistOK' /\ NeverTraps'
<1>1. ASSUME UNCHANGED <<table, closed, trapped>>
      PROVE  FreelistOK' /\ NeverTraps'
  BY <1>1, ListKept DEF FreelistInv, ClosedFds, NeverTraps
<1>2. ASSUME NEW h \in Handle, NEW type \in {"File", "Directory"},
             Open(Streams(None, None, type, h), h)
      PROVE  FreelistOK' /\ NeverTraps'
  <2> DEFINE d == Streams(None, None, type, h)
  <2>1. Holds(d)
    BY DEF Streams, Holds
  <2> HIDE DEF d
  <2>2. CASE Push(d, h)
    <3>1. table_len \in Fd /\ table_len >= table_len
      BY <2>2, ConstantsAssumption DEF Push, FreelistInv, TypeOK, TableOK, Fd
    <3>2. table_len \notin ClosedFds
      BY <3>1 DEF FreelistInv, TypeOK, TableOK, ClosedFds, Uninit
    <3>3. FreelistOK'
      BY <2>1, <2>2, <3>1, <3>2, ListSlotFilled DEF Push, FreelistInv
    <3> QED
      BY <2>2, <3>3 DEF Push, FreelistInv, NeverTraps
  <2>3. CASE PushFull
    BY <1>1, <2>3 DEF PushFull, Return
  <2>4. CASE Pop(d, h)
    <3>1. closed \in Fd /\ ClosedFds' = ClosedFds \ {closed}
      BY <2>1, <2>4 DEF Pop, FreelistInv, TypeOK, TableOK, ClosedFds, Holds
    <3>2. \A f \in ClosedFds' : table'[f] = table[f]
      BY <2>4, <3>1 DEF Pop, FreelistInv, TypeOK, TableOK, ClosedFds
    <3>3. FreelistOK'
      BY <2>4, <3>1, <3>2, ListPopped DEF Pop, FreelistInv
    <3> QED
      BY <2>4, <3>3 DEF Pop, FreelistInv, NeverTraps
  <2>5. ~PopTraps(h)
    BY FreelistHead DEF PopTraps, FreelistInv, ClosedFds
  <2> QED
    BY <1>2, <2>2, <2>3, <2>4, <2>5 DEF Open, d
<1> QED
  BY <1>1, <1>2 DEF PathOpen, PathOpenFails, GetTypeFails, Return

LEMMA CloseFreelist ==
  ASSUME FreelistInv, NEW fd \in GuestFd, Close(fd)
  PROVE  FreelistOK' /\ NeverTraps'
<1>1. CASE ~IsOpen(fd)
  BY <1>1, ListKept DEF Close, Return, FreelistInv, ClosedFds, NeverTraps
<1>2. CASE IsOpen(fd)
  <2>1. fd \in Fd /\ table[fd] \in StreamsSlot
    BY <1>2, OpenFdIsFd DEF FreelistInv, TypeOK
  <2>2. fd \notin ClosedFds
    BY <2>1 DEF ClosedFds, StreamsSlot
  <2>3. table'[fd].tag = "Closed" /\ table'[fd].next = closed
    BY <1>2, <2>1, ClosedFields DEF Close, FreelistInv, TypeOK, TableOK
  <2>4. \A f \in Fd : f # fd => table'[f] = table[f]
    BY <1>2, <2>1 DEF Close, FreelistInv, TypeOK, TableOK
  <2>5. ClosedFds' = ClosedFds \cup {fd}
    BY <2>1, <2>3, <2>4 DEF ClosedFds
  <2>6. \A f \in ClosedFds : table'[f].next = table[f].next
    BY <2>2, <2>4 DEF ClosedFds
  <2>7. closed' = fd /\ UNCHANGED trapped
    BY <1>2 DEF Close
  <2>8. FreelistOK'
    BY <2>1, <2>2, <2>3, <2>5, <2>6, <2>7, ListPushed DEF FreelistInv
  <2> QED
    BY <2>7, <2>8 DEF FreelistInv, NeverTraps
<1> QED
  BY <1>1, <1>2

LEMMA RenumberFreelist ==
  ASSUME FreelistInv, NEW from \in GuestFd, NEW to \in GuestFd,
         OntoOpen(from, to), Renumber(from, to)
  PROVE  FreelistOK' /\ NeverTraps'
<1> DEFINE n == ExpandedLen(to)
<1>1. CASE from >= table_len /\ Return("BADF")
  BY <1>1, ListKept DEF Return, FreelistInv, ClosedFds, NeverTraps
<1>2. CASE RenumberFails(from, to)
  <2>1. PICK k \in 0..MAX_DESCRIPTORS : k = n /\ table_len <= k
    BY ExpandedTableOK DEF FreelistInv, TypeOK
  <2>2. table' = Expanded(k) /\ closed' = ExpandedClosed(k) /\ UNCHANGED trapped
    BY <1>2, <2>1 DEF RenumberFails
  <2>3. FreelistOK'
    BY <2>1, <2>2, ListExtended DEF FreelistInv
  <2> QED
    BY <2>2, <2>3 DEF FreelistInv, NeverTraps
<1>3. CASE RenumberMoves(from, to)
  <2>1. IsOpen(from) /\ IsOpen(to) /\ from # to
    BY <1>3 DEF RenumberMoves, OntoOpen
  <2>2. /\ from \in Fd /\ table[from] \in StreamsSlot
        /\ to \in Fd /\ to < table_len /\ table[to] \in StreamsSlot
    BY <2>1, OpenFdIsFd DEF FreelistInv, TypeOK
  <2>3. n = table_len
    BY <2>2 DEF ExpandedLen
  <2>4. \A f \in Fd : Expanded(n)[f] = table[f]
    BY <2>3, ConstantsAssumption DEF Expanded, FreelistInv, TypeOK, TableOK
  <2>5. ExpandedClosed(n) = closed
    BY <2>3 DEF ExpandedClosed, FreelistInv, TypeOK, TableOK
  <2>6. table' = [Vacated(from, n) EXCEPT ![to] = table[from]] /\ closed' = from
        /\ UNCHANGED trapped
    BY <1>3 DEF RenumberMoves
  <2>7. \A f \in Fd : table'[f] = IF f = to THEN table[from]
                                  ELSE IF f = from THEN Closed(closed) ELSE table[f]
    BY <2>2, <2>4, <2>5, <2>6 DEF Vacated, Expanded
  <2>8. table'[from].tag = "Closed" /\ table'[from].next = closed
    BY <2>1, <2>2, <2>7, ClosedFields
  <2>9. from \notin ClosedFds /\ to \notin ClosedFds /\ table'[to].tag # "Closed"
    BY <2>2, <2>7 DEF ClosedFds, StreamsSlot
  <2>10. ClosedFds' = ClosedFds \cup {from}
    BY <2>2, <2>7, <2>8, <2>9 DEF ClosedFds
  <2>11. \A f \in ClosedFds : table'[f].next = table[f].next
    BY <2>7, <2>9 DEF ClosedFds
  <2>12. FreelistOK'
    BY <2>2, <2>6, <2>8, <2>9, <2>10, <2>11, ListPushed DEF FreelistInv
  <2> QED
    BY <2>6, <2>12 DEF FreelistInv, NeverTraps
<1> QED
  BY <1>1, <1>2, <1>3 DEF Renumber

LEMMA StreamsFreelist ==
  ASSUME FreelistInv, NEW fd \in GuestFd,
         GetReadStream(fd) \/ GetWriteStream(fd) \/ FdSeek(fd)
  PROVE  FreelistOK' /\ NeverTraps'
<1>1. UNCHANGED <<closed, trapped>>
  BY DEF GetReadStream, GetWriteStream, FdSeek, SeekForgets, Return
<1>2. CASE UNCHANGED table
  BY <1>1, <1>2, ListKept DEF FreelistInv, ClosedFds, NeverTraps
<1>3. ASSUME IsFile(fd), NEW i, NEW o, table' = WithStreams(fd, i, o)
      PROVE  FreelistOK' /\ NeverTraps'
  <2>1. fd \in Fd /\ table[fd] \in StreamsSlot
    BY <1>3, OpenFdIsFd DEF IsFile, FreelistInv, TypeOK
  <2>2. fd \notin ClosedFds
    BY <2>1 DEF ClosedFds, StreamsSlot
  <2>3. Holds(Streams(i, o, table[fd].type, table[fd].fd))
    BY DEF Streams, Holds
  <2>4. FreelistOK'
    BY <1>1, <1>3, <2>1, <2>2, <2>3, ListSlotFilled DEF WithStreams, FreelistInv
  <2> QED
    BY <1>1, <2>4 DEF FreelistInv, NeverTraps
<1>4. UNCHANGED table \/ (IsFile(fd) /\ \E i, o : table' = WithStreams(fd, i, o))
  BY DEF GetReadStream, GetWriteStream, FdSeek, SeekForgets, Return
<1> QED
  BY <1>2, <1>3, <1>4

LEMMA NextFreelist == FreelistInv /\ [DisciplinedNext]_vars => FreelistInv'
<1>1. TypeOK /\ [DisciplinedNext]_vars => TypeOK'
  BY NextType DEF DisciplinedNext, Next
<1> SUFFICES ASSUME FreelistInv, [DisciplinedNext]_vars PROVE FreelistOK' /\ NeverTraps'
  BY <1>1 DEF FreelistInv
<1>2. ASSUME NEW fd \in GuestFd, Operate(fd) PROVE FreelistOK' /\ NeverTraps'
  BY <1>2, PathOpenFreelist, CloseFreelist, StreamsFreelist DEF Operate
<1>3. CASE \E from, to \in GuestFd : OntoOpen(from, to) /\ Renumber(from, to)
  BY <1>3, RenumberFreelist
<1>4. CASE UNCHANGED vars
  <2>1. FreelistOK'
    BY <1>4, ListKept DEF vars, FreelistInv, ClosedFds
  <2>2. NeverTraps'
    BY <1>4 DEF vars, FreelistInv, NeverTraps
  <2> QED
    BY <2>1, <2>2
<1> QED
  BY <1>2, <1>3, <1>4 DEF DisciplinedNext

(* The three facts that FreelistWhileDisciplined promises. *)
LEMMA FreelistInvPromises == FreelistInv => FreelistOK /\ FullMeansFull /\ NeverTraps
<1>1. FreelistInv => FullMeansFull
  <2> SUFFICES ASSUME FreelistInv, closed = None, table_len = MAX_DESCRIPTORS,
                      NEW fd \in Fd
               PROVE  Holds(table[fd])
    BY DEF FullMeansFull, OpenFds
  <2>1. fd \notin ClosedFds
    BY FreelistHead DEF FreelistInv
  <2>2. table[fd] # Uninit
    BY ConstantsAssumption DEF FreelistInv, TypeOK, TableOK, Fd
  <2>3. table[fd] \in Slot
    BY DEF FreelistInv, TypeOK, TableOK
  <2> QED
    BY <2>1, <2>2, <2>3, SlotKinds DEF ClosedFds, Slot
<1> QED
  BY <1>1 DEF FreelistInv

(* As long as the guest renumbers onto other open descriptors only, the    *)
(* closed slots form one list without cycles that starts at `closed' and   *)
(* misses none of them; NOMEM means that every slot is open; and the       *)
(* unreachable!() of Descriptors::open is not reached.                     *)
THEOREM DisciplinedFreelist == HistorySpec => []FreelistWhileDisciplined
<1> DEFINE Inv == disciplined => FreelistInv
<1>1. HistoryInit => Inv
  BY InitFreelist DEF HistoryInit
<1>2. Inv /\ [HistoryNext]_historyVars => Inv'
  <2> SUFFICES ASSUME Inv, [HistoryNext]_historyVars, disciplined' PROVE FreelistInv'
    OBVIOUS
  <2>1. ~Renounces
    BY DEF Renounces
  <2>2. disciplined /\ [DisciplinedNext]_vars
    BY <2>1 DEF HistoryNext, historyVars, vars
  <2> QED
    BY <2>2, NextFreelist
<1>3. Inv => FreelistWhileDisciplined
  BY FreelistInvPromises DEF FreelistWhileDisciplined
<1> QED
  BY <1>1, <1>2, <1>3, PTL DEF HistorySpec

(* The history changes nothing: what is proved of any guest holds for it.  *)
THEOREM HistoryIsAny == HistorySpec => Spec
<1>1. HistoryInit => Init
  BY DEF HistoryInit
<1>2. [HistoryNext]_historyVars => [Next]_vars
  BY DEF HistoryNext, Renounces, DisciplinedNext, Next, historyVars, vars
<1> QED
  BY <1>1, <1>2, PTL DEF HistorySpec, Spec

(* The same of a guest that never does otherwise, without the history.    *)
THEOREM DisciplinedThroughout == DisciplinedSpec => [](FreelistOK /\ FullMeansFull /\ NeverTraps)
BY InitFreelist, NextFreelist, FreelistInvPromises, PTL DEF DisciplinedSpec

-----------------------------------------------------------------------------
(* The partial map of FdTable: Descriptors loses handles in the two places *)
(* it is known to lose them and nowhere else, and implements the map.      *)

(* What a descriptor names is one of its handles. *)
Named == \A fd \in Fd : Holds(table[fd]) => ObjectOf(table[fd]) \in HandlesOf(table[fd])

NamedInv == HandlesInv /\ Named

Objects == [fd \in Fd |-> ObjectOf(table[fd])]

(* What is shown of every step. *)
Maps == Named' /\ LeakStep /\ [Abstract!Next]_Objects

LEMMA ObjectsNext == Objects' = [fd \in Fd |-> ObjectOf(table'[fd])]
BY DEF Objects, ObjectOf, Holds

LEMMA NamedNext ==
  ASSUME \A fd \in Fd : Holds(table'[fd]) => ObjectOf(table'[fd]) \in HandlesOf(table'[fd])
  PROVE  Named'
BY DEF Named, ObjectOf, HandlesOf, Holds

LEMMA OwnedNext == Owned' = UNION {HandlesOf(table'[fd]) : fd \in Fd}
BY DEF Owned, HandlesOf, Holds

(* Handles that are new, or were a descriptor's and are still live, belong *)
(* to a descriptor. *)
LEMMA NoLeak ==
  ASSUME \A h \in live' \ live : \E g \in Fd : h \in HandlesOf(table'[g]),
         \A f \in Fd : \A h \in HandlesOf(table[f]) \cap live' : \E g \in Fd : h \in HandlesOf(table'[g])
  PROVE  LeakStep
<1>1. Leaked' = live' \ Owned'
  BY DEF Leaked
<1>2. ASSUME NEW h \in live', h \notin Owned' PROVE h \in live /\ h \notin Owned
  BY <1>2, OwnedNext DEF Owned
<1> QED
  BY <1>1, <1>2 DEF LeakStep, Leaked

LEMMA NothingMoves ==
  ASSUME NamedInv, live' = live,
         \A f \in Fd : /\ HandlesOf(table'[f]) = HandlesOf(table[f])
                       /\ ObjectOf(table'[f]) = ObjectOf(table[f])
                       /\ Holds(table'[f]) => Holds(table[f])
  PROVE  Maps
<1>1. Named'
  BY NamedNext DEF NamedInv, Named
<1>2. LeakStep
  BY NoLeak
<1>3. Objects' = Objects
  BY ObjectsNext DEF Objects
<1> QED
  BY <1>1, <1>2, <1>3 DEF Maps

LEMMA NothingHeld == \A d : ~Holds(d) => ObjectOf(d) = None /\ HandlesOf(d) = {}
BY DEF ObjectOf, HandlesOf

(* An object is live, and a new handle is no descriptor's. *)
LEMMA ObjectsLive ==
  ASSUME NamedInv, NEW f \in Fd
  PROVE  ObjectOf(table[f]) = None \/ ObjectOf(table[f]) \in live
BY NothingHeld, OwnedSlots DEF NamedInv, Named, HandlesInv

LEMMA OpenMaps ==
  ASSUME NamedInv, NEW fd \in Fd, NEW h \in Handle \ live, NEW type \in {"File", "Directory"},
         ~Holds(table[fd]), live' = live \cup {h},
         table' = [table EXCEPT ![fd] = Streams(None, None, type, h)]
  PROVE  Maps
<1> DEFINE d == Streams(None, None, type, h)
<1>1. h # None
  BY ConstantsAssumption
<1>2. Holds(d) /\ ObjectOf(d) = h /\ HandlesOf(d) = {h}
  BY <1>1 DEF Streams, Holds, ObjectOf, HandlesOf
<1>3. \A f \in Fd : table'[f] = IF f = fd THEN d ELSE table[f]
  BY DEF NamedInv, HandlesInv, TypeOK, TableOK
<1>4. Named'
  BY <1>2, <1>3, NamedNext DEF NamedInv, Named
<1>5. LeakStep
  <2>1. \A x \in live' \ live : \E g \in Fd : x \in HandlesOf(table'[g])
    BY <1>2, <1>3
  <2>2. \A f \in Fd : \A x \in HandlesOf(table[f]) : x \in HandlesOf(table'[f])
    BY <1>3, NothingHeld
  <2> QED
    BY <2>1, <2>2, NoLeak
<1>6. Abstract!Open(fd, h)
  <2>1. Objects[fd] = None
    BY NothingHeld DEF Objects
  <2>2. ASSUME NEW g \in Fd PROVE Objects[g] # h
    <3>1. Objects[g] = ObjectOf(table[g])
      BY DEF Objects
    <3> QED
      BY <1>1, <3>1, ObjectsLive
  <2>3. Objects' = [Objects EXCEPT ![fd] = h]
    <3>1. \A f \in Fd : ObjectOf(table'[f]) = IF f = fd THEN h ELSE ObjectOf(table[f])
      BY <1>2, <1>3
    <3> QED
      BY <3>1, ObjectsNext DEF Objects
  <2> QED
    BY <2>1, <2>2, <2>3 DEF Abstract!Open, Objects
<1>7. Abstract!Next
  BY <1>6 DEF Abstract!Next
<1> QED
  BY <1>4, <1>5, <1>7 DEF Maps

LEMMA PathOpenMaps ==
  ASSUME NamedInv, NEW fd \in GuestFd, PathOpen(fd)
  PROVE  Maps
<1>1. CASE UNCHANGED <<table, live>>
  BY <1>1, NothingMoves
<1>2. ASSUME NEW h \in Handle \ live, GetTypeFails(fd, h) PROVE Maps
  <2>1. table' = table /\ LeakStep
    BY <1>2 DEF GetTypeFails, LeakStep
  <2>2. Named' /\ Objects' = Objects
    BY <2>1, NamedNext, ObjectsNext DEF Objects, NamedInv, Named
  <2> QED
    BY <2>1, <2>2 DEF Maps
<1>3. ASSUME NEW h \in Handle \ live, NEW type \in {"File", "Directory"},
             Open(Streams(None, None, type, h), h)
      PROVE  Maps
  <2> DEFINE d == Streams(None, None, type, h)
  <2>1. CASE Push(d, h)
    <3>1. table_len \in Fd /\ ~Holds(table[table_len])
      BY <2>1, ConstantsAssumption DEF Push, NamedInv, HandlesInv, TypeOK, TableOK, Fd, Uninit, Holds
    <3> QED
      BY <2>1, <3>1, OpenMaps DEF Push
  <2>2. CASE PushFull
    BY <2>2, NothingMoves DEF PushFull, Return
  <2>3. CASE Pop(d, h)
    <3>1. closed \in Fd /\ ~Holds(table[closed])
      BY <2>3 DEF Pop, NamedInv, HandlesInv, TypeOK, TableOK, Holds
    <3> QED
      BY <2>3, <3>1, OpenMaps DEF Pop
  <2>4. CASE PopTraps(h)
    <3>1. table' = table /\ LeakStep
      BY <2>4 DEF PopTraps, LeakStep
    <3>2. Named' /\ Objects' = Objects
      BY <3>1, NamedNext, ObjectsNext DEF Objects, NamedInv, Named
    <3> QED
      BY <3>1, <3>2 DEF Maps
  <2> QED
    BY <1>3, <2>1, <2>2, <2>3, <2>4 DEF Open
<1> QED
  BY <1>1, <1>2, <1>3 DEF PathOpen, PathOpenFails, Return

LEMMA CloseMaps ==
  ASSUME NamedInv, NEW fd \in GuestFd, Close(fd)
  PROVE  Maps
<1>1. CASE ~IsOpen(fd)
  BY <1>1, NothingMoves DEF Close, Return
<1>2. CASE IsOpen(fd)
  <2>1. fd \in Fd /\ Holds(table[fd])
    BY <1>2, OpenFdIsFd DEF NamedInv, HandlesInv, TypeOK, IsOpen
  <2>2. live' = live \ HandlesOf(table[fd])
    BY <1>2 DEF Close
  <2>3. \A f \in Fd : table'[f] = IF f = fd THEN Closed(closed) ELSE table[f]
    BY <1>2, <2>1 DEF Close, NamedInv, HandlesInv, TypeOK, TableOK
  <2>4. ~Holds(Closed(closed))
    BY HandlesOfSlot
  <2>5. Named'
    BY <2>3, <2>4, NamedNext DEF NamedInv, Named
  <2>6. LeakStep
    BY <2>2, <2>3, NoLeak
  <2>7. Objects[fd] # None
    BY <2>1 DEF Objects, NamedInv, Named, HandlesOf
  <2>8. Objects' = [Objects EXCEPT ![fd] = None]
    BY <2>1, <2>3, <2>4, NothingHeld, ObjectsNext DEF Objects
  <2>9. Abstract!Close(fd)
    BY <2>7, <2>8 DEF Abstract!Close, Objects
  <2>10. Abstract!Next
    BY <2>1, <2>9 DEF Abstract!Next
  <2> QED
    BY <2>5, <2>6, <2>10 DEF Maps
<1> QED
  BY <1>1, <1>2

(* The stream of a file does not change what its descriptor names. *)
LEMMA StreamsMap ==
  ASSUME NamedInv, NEW fd \in GuestFd, IsFile(fd), NEW i, NEW o,
         table' = WithStreams(fd, i, o)
  PROVE  /\ Named' /\ Objects' = Objects /\ fd \in Fd
         /\ HandlesOf(table'[fd]) = {i, o, table[fd].fd} \ {None}
         /\ \A f \in Fd : f # fd => table'[f] = table[f]
<1> DEFINE d == Streams(i, o, table[fd].type, table[fd].fd)
<1>1. fd \in Fd /\ Holds(table[fd]) /\ table[fd].type = "File"
  BY OpenFdIsFd DEF NamedInv, HandlesInv, TypeOK, IsOpen, IsFile
<1>2. \A f \in Fd : table'[f] = IF f = fd THEN d ELSE table[f]
  BY <1>1 DEF WithStreams, NamedInv, HandlesInv, TypeOK, TableOK
<1>3. Holds(d) /\ ObjectOf(d) = table[fd].fd /\ HandlesOf(d) = {i, o, table[fd].fd} \ {None}
  BY <1>1 DEF Streams, Holds, ObjectOf, HandlesOf
<1>4. ObjectOf(table[fd]) = table[fd].fd
  BY <1>1 DEF ObjectOf
<1>5. table[fd].fd # None
  BY <1>1, <1>4 DEF NamedInv, Named, HandlesOf
<1>6. Named'
  BY <1>2, <1>3, <1>5, NamedNext DEF NamedInv, Named
<1>7. Objects' = Objects
  BY <1>2, <1>3, <1>4, ObjectsNext DEF Objects
<1> QED
  BY <1>1, <1>2, <1>3, <1>6, <1>7

LEMMA GetStreamMaps ==
  ASSUME NamedInv, NEW fd \in GuestFd, GetReadStream(fd) \/ GetWriteStream(fd)
  PROVE  Maps
<1>1. CASE UNCHANGED <<table, live>>
  BY <1>1, NothingMoves
<1>2. ASSUME NEW h \in Handle \ live, NEW i, NEW o, IsFile(fd), h \in {i, o},
             table[fd].input \in {i, None}, table[fd].output \in {o, None},
             table' = WithStreams(fd, i, o), live' = live \cup {h}
      PROVE  Maps
  <2>1. /\ Named' /\ Objects' = Objects /\ fd \in Fd
        /\ HandlesOf(table'[fd]) = {i, o, table[fd].fd} \ {None}
        /\ \A f \in Fd : f # fd => table'[f] = table[f]
    BY <1>2, StreamsMap
  <2>2. h \in HandlesOf(table'[fd])
    BY <1>2, <2>1, ConstantsAssumption
  <2>3. HandlesOf(table[fd]) \subseteq HandlesOf(table'[fd])
    BY <1>2, <2>1 DEF HandlesOf
  <2>4. LeakStep
    BY <1>2, <2>1, <2>2, <2>3, NoLeak
  <2> QED
    BY <2>1, <2>4 DEF Maps
<1>3. CASE GetReadStream(fd)
  BY <1>1, <1>2, <1>3 DEF GetReadStream, Return
<1>4. CASE GetWriteStream(fd)
  BY <1>1, <1>2, <1>4 DEF GetWriteStream, Return
<1> QED
  BY <1>3, <1>4

LEMMA SeekMaps ==
  ASSUME NamedInv, NEW fd \in GuestFd, FdSeek(fd)
  PROVE  Maps
<1>1. CASE UNCHANGED <<table, live>>
  BY <1>1, NothingMoves
<1>2. CASE SeekForgets(fd)
  <2>1. Named' /\ Objects' = Objects
    BY <1>2, StreamsMap DEF SeekForgets
  <2>2. LeakStep
    BY <1>2 DEF LeakStep
  <2> QED
    BY <2>1, <2>2 DEF Maps
<1> QED
  BY <1>1, <1>2 DEF FdSeek, Return

(* A renumbering onto the descriptor itself leaves what it names. *)
LEMMA RenumberMaps ==
  ASSUME NamedInv, NEW from \in GuestFd, NEW to \in GuestFd, Renumber(from, to)
  PROVE  Maps
<1> DEFINE n == ExpandedLen(to)
<1>0. \A f \in Fd : /\ HandlesOf(Expanded(n)[f]) = HandlesOf(table[f])
                    /\ ObjectOf(Expanded(n)[f]) = ObjectOf(table[f])
                    /\ Holds(Expanded(n)[f]) => Holds(table[f])
  BY ExpandedSlots, NothingHeld DEF NamedInv, HandlesInv
<1>1. CASE from >= table_len /\ Return("BADF")
  BY <1>1, NothingMoves DEF Return
<1>2. CASE RenumberFails(from, to)
  BY <1>0, <1>2, NothingMoves DEF RenumberFails
<1>3. CASE RenumberMoves(from, to)
  <2>1. from \in Fd /\ Holds(table[from])
    BY <1>3, OpenFdIsFd DEF RenumberMoves, NamedInv, HandlesInv, TypeOK, IsOpen
  <2>2. to \in Fd
    BY <1>3, ConstantsAssumption DEF RenumberMoves, Fd
  <2>3. Expanded(n) \in [Fd -> Slot]
    BY ExpandedTableOK DEF NamedInv, HandlesInv, TypeOK
  <2>4. /\ table' = [Vacated(from, n) EXCEPT ![to] = table[from]]
        /\ live' = live \ HandlesOf(Vacated(from, n)[to])
    BY <1>3 DEF RenumberMoves
  <2> DEFINE hole == Closed(ExpandedClosed(n))
  <2>5. \A f \in Fd : Vacated(from, n)[f] = IF f = from THEN hole ELSE Expanded(n)[f]
    BY <2>1, <2>3 DEF Vacated
  <2>6. \A f \in Fd : table'[f] = IF f = to THEN table[from] ELSE Vacated(from, n)[f]
    BY <2>2, <2>3, <2>4 DEF Vacated
  <2>7. HandlesOf(hole) = {} /\ ~Holds(hole) /\ ObjectOf(hole) = None
    BY HandlesOfSlot, NothingHeld
  <2>8. \A f \in Fd : HandlesOf(table'[f]) = IF f = to THEN HandlesOf(table[from])
                                             ELSE IF f = from THEN {}
                                             ELSE HandlesOf(table[f])
    BY <1>0, <2>5, <2>6, <2>7
  <2>9. \A f \in Fd : ObjectOf(table'[f]) = IF f = to THEN ObjectOf(table[from])
                                            ELSE IF f = from THEN None
                                            ELSE ObjectOf(table[f])
    BY <1>0, <2>5, <2>6, <2>7
  <2>10. live' = live \ (IF to = from THEN {} ELSE HandlesOf(table[to]))
    BY <1>0, <2>2, <2>4, <2>5, <2>7
  <2>11. Named'
    <3>1. \A f \in Fd : Holds(table'[f]) => \E g \in Fd : Holds(table[g]) /\ table'[f] = table[g]
      BY <2>1, <2>5, <2>6, <2>7, ExpandedSlots DEF NamedInv, HandlesInv
    <3> QED
      BY <3>1, NamedNext DEF NamedInv, Named
  <2>12. LeakStep
    <3>1. ASSUME NEW f \in Fd, NEW h \in HandlesOf(table[f]) \cap live'
          PROVE  \E g \in Fd : h \in HandlesOf(table'[g])
      <4>1. CASE f = from
        BY <2>2, <2>8, <3>1, <4>1
      <4>2. CASE f # from /\ f # to
        BY <2>8, <3>1, <4>2
      <4>3. CASE f # from /\ f = to
        BY <2>10, <3>1, <4>3
      <4> QED
        BY <4>1, <4>2, <4>3
    <3>2. live' \subseteq live
      BY <2>10
    <3> QED
      BY <3>1, <3>2, NoLeak
  <2>13. [Abstract!Next]_Objects
    <3>1. CASE from = to
      BY <2>9, <3>1, ObjectsNext DEF Objects
    <3>2. CASE from # to
      <4>1. Objects[from] # None
        BY <2>1 DEF Objects, NamedInv, Named, HandlesOf
      <4>2. Objects' = [Objects EXCEPT ![from] = None, ![to] = Objects[from]]
        BY <2>1, <2>2, <2>9, <3>2, ObjectsNext DEF Objects
      <4>3. Abstract!Renumber(from, to)
        BY <3>2, <4>1, <4>2 DEF Abstract!Renumber, Objects
      <4> QED
        BY <2>1, <2>2, <4>3 DEF Abstract!Next
    <3> QED
      BY <3>1, <3>2
  <2> QED
    BY <2>11, <2>12, <2>13 DEF Maps
<1> QED
  BY <1>1, <1>2, <1>3 DEF Renumber

LEMMA NextMaps == NamedInv /\ [Next]_vars => Maps
<1> SUFFICES ASSUME NamedInv, [Next]_vars PROVE Maps
  OBVIOUS
<1>1. ASSUME NEW fd \in GuestFd, Operate(fd) PROVE Maps
  BY <1>1, PathOpenMaps, CloseMaps, GetStreamMaps, SeekMaps DEF Operate
<1>2. CASE \E from, to \in GuestFd : Renumber(from, to)
  BY <1>2, RenumberMaps
<1>3. CASE UNCHANGED vars
  BY <1>3, NothingMoves DEF vars
<1> QED
  BY <1>1, <1>2, <1>3 DEF Next

-----------------------------------------------------------------------------
(* Initial states *)

LEMMA InitMaps == Init => NamedInv /\ Abstract!Init
<1> SUFFICES ASSUME Init PROVE Named /\ Abstract!Init
  BY InitHandles DEF NamedInv
<1>1. PICK h \in [0..(NumInitial - 1) -> Handle] :
        /\ \A i, j \in 0..(NumInitial - 1) : h[i] = h[j] => i = j
        /\ table = [fd \in Fd |-> IF fd < NumInitial
                                  THEN InitialSlot(fd, h[fd]) ELSE Uninit]
  BY DEF Init
<1>2. /\ NumInitial \in Nat /\ NumInitial <= MAX_DESCRIPTORS
      /\ \A fd \in Fd : fd < NumInitial <=> fd \in 0..(NumInitial - 1)
      /\ 0..(NumInitial - 1) \subseteq Fd
  BY ConstantsAssumption DEF NumInitial, Fd
<1>3. ASSUME NEW fd \in Fd, fd < NumInitial
      PROVE  /\ h[fd] \in Handle /\ h[fd] # None
             /\ ObjectOf(table[fd]) = h[fd] /\ ObjectOf(table[fd]) \in HandlesOf(table[fd])
  <2>1. h[fd] \in Handle /\ h[fd] # None
    BY <1>2, <1>3, ConstantsAssumption
  <2>2. table[fd] = InitialSlot(fd, h[fd])
    BY <1>1, <1>3
  <2>3. CASE fd = 0
    BY <2>1, <2>2, <2>3 DEF InitialSlot, Streams, ObjectOf, HandlesOf, Holds
  <2>4. CASE fd # 0 /\ fd <= 2
    BY <2>1, <2>2, <2>4 DEF InitialSlot, Streams, ObjectOf, HandlesOf, Holds
  <2>5. CASE fd # 0 /\ ~(fd <= 2)
    BY <2>1, <2>2, <2>5 DEF InitialSlot, Streams, ObjectOf, HandlesOf, Holds
  <2> QED
    BY <2>1, <2>3, <2>4, <2>5
<1>4. ASSUME NEW fd \in Fd, ~(fd < NumInitial)
      PROVE  ~Holds(table[fd]) /\ ObjectOf(table[fd]) = None
  BY <1>1, <1>4, NothingHeld DEF Holds, Uninit
<1>5. Named
  BY <1>3, <1>4 DEF Named
<1>6. Abstract!Init
  <2>1. Objects \in [Fd -> Handle \cup {None}]
    BY <1>3, <1>4 DEF Objects
  <2>2. \A fd \in Fd : Objects[fd] # None <=> fd \in 0..(NumInitial - 1)
    BY <1>2, <1>3, <1>4 DEF Objects
  <2>3. \A f, g \in Fd : Objects[f] # None /\ Objects[g] # None /\ Objects[f] = Objects[g] => f = g
    BY <1>1, <1>2, <1>3, <1>4 DEF Objects
  <2>4. Abstract!InUse = 0..(NumInitial - 1)
    BY <1>2, <2>2 DEF Abstract!InUse, Objects
  <2> QED
    BY <2>1, <2>3, <2>4 DEF Abstract!Init, Abstract!InUse, Objects
<1> QED
  BY <1>5, <1>6

LEMMA NamedCorrect == Spec => []NamedInv
<1>1. NamedInv /\ [Next]_vars => NamedInv'
  BY NextMaps, NextHandles DEF NamedInv, Maps
<1> QED
  BY <1>1, InitMaps, PTL DEF Spec

-----------------------------------------------------------------------------
(* Theorems *)

(* The host holds a handle that no descriptor can release only after       *)
(* fd_seek forgot the streams of a file, or get_type failed in path_open.  *)
THEOREM LeaksAreKnown == Spec => LeaksNowhereElse
<1>1. NamedInv /\ [Next]_vars => [LeakStep]_vars
  BY NextMaps DEF Maps
<1> QED
  BY <1>1, NamedCorrect, PTL DEF Spec, LeaksNowhereElse

(* Whatever a guest does, and however damaged the free list is, what it    *)
(* sees is a partial map from descriptors to objects.                      *)
THEOREM RefinesFdTable == Spec => ImplementsFdTable
<1>1. NamedInv /\ [Next]_vars => [Abstract!Next]_Objects
  BY NextMaps DEF Maps
<1>2. Init => Abstract!Init
  BY InitMaps
<1> QED
  BY <1>1, <1>2, NamedCorrect, PTL DEF Spec, ImplementsFdTable, Abstract!Spec, Objects

=============================================================================
