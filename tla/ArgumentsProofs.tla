-------------------------- MODULE ArgumentsProofs --------------------------
(***************************************************************************)
(* Proofs about Arguments, for any builder, any arena and any guest: what  *)
(* is taken from the arena stays in it and does not overlap, the allocator *)
(* is never found in use, what the host wrote for a list is read back from *)
(* memory as it was given, the adapter answers from it as the host does    *)
(* from what it has, the descriptors a guest has left alone hold what the  *)
(* embedder gave, and an instance only traps for want of room when what    *)
(* the embedder gave does not fit.                                         *)
(***************************************************************************)
EXTENDS Arguments, FiniteSetTheorems, SequenceTheorems, WellFoundedInduction, TLAPS

Region == [ptr : Nat, len : Nat]

(* Regions below an address, none over another. *)
Below(top) ==
  \A i \in 1..Len(regions) : Base <= regions[i].ptr /\ regions[i].ptr + regions[i].len <= top
Disjoint ==
  \A i, j \in 1..Len(regions) : i # j => Apart(regions[i], regions[j])

(* What is taken is taken from below the position. *)
ArenaInv ==
  /\ position \in Nat /\ position <= ArenaSize
  /\ regions \in Seq(Region)
  /\ Below(Base + position)
  /\ Disjoint

ListImport == [list : List, base : Nat, next : Nat]

(* The arena is used by imports of lists, whose sizes are known. *)
ImportInv ==
  /\ builder \in Builders
  /\ arena => import \in ListImport

Inv == ArenaInv /\ ImportInv

-----------------------------------------------------------------------------
(* Allocation *)

(* Up to the next multiple, and never down. *)
LEMMA AlignsUp ==
  ASSUME NEW p \in Nat, NEW align \in Nat \ {0}
  PROVE  AlignTo(p, align) \in Nat /\ p <= AlignTo(p, align)
<1> DEFINE q == p + (align - 1)
<1>1. q \in Nat
  OBVIOUS
<1>2. q % align \in 0..(align - 1)
  BY <1>1
<1> QED
  BY <1>1, <1>2 DEF AlignTo

LEMMA AllocKeepsApart ==
  ASSUME ArenaInv, NEW align \in Nat \ {0}, NEW size \in Nat, NEW writes,
         ArenaAlloc(align, size, writes)
  PROVE  ArenaInv' /\ Allocated(align) \in Nat
<1>0. Base \in Nat /\ ArenaSize \in Nat
  BY ArenaAssumption
<1>1. PICK at : at = Allocated(align)
  OBVIOUS
<1>2. PICK taken : taken = [ptr |-> at, len |-> size]
  OBVIOUS
<1>3. at \in Nat /\ Base + position <= at
  <2>1. Base + position \in Nat
    BY <1>0 DEF ArenaInv
  <2> QED
    BY <1>1, <2>1, AlignsUp DEF Allocated
<1>4. /\ position' = at - Base + size /\ at - Base + size <= ArenaSize
      /\ regions' = Append(regions, taken)
  BY <1>1, <1>2 DEF ArenaAlloc, FitsArena, PositionAfter
<1>5. /\ position \in Nat /\ position' \in Nat
      /\ position <= position' /\ at + size = Base + position'
  BY <1>3, <1>4, <1>0 DEF ArenaInv
<1>6. taken \in Region /\ taken.ptr = at /\ taken.len = size
  BY <1>2, <1>3 DEF Region
<1>7. /\ regions \in Seq(Region) /\ regions' \in Seq(Region)
      /\ Len(regions) \in Nat /\ Len(regions') = Len(regions) + 1
      /\ \A i \in 1..Len(regions) : regions'[i] = regions[i]
      /\ regions'[Len(regions) + 1] = taken
  BY <1>4, <1>6 DEF ArenaInv
<1>8. \A i \in 1..Len(regions) : regions[i] \in Region
  BY <1>7
<1>9. \A i \in 1..Len(regions) :
        regions[i].ptr \in Nat /\ regions[i].len \in Nat
  BY <1>8 DEF Region
<1>10. \A i \in 1..Len(regions) :
         Base <= regions[i].ptr /\ regions[i].ptr + regions[i].len <= Base + position
  BY DEF ArenaInv, Below
<1>11. \A i \in 1..Len(regions') : i \in 1..Len(regions) \/ i = Len(regions) + 1
  BY <1>7
<1>12. Below(Base + position)'
  <2>1. ASSUME NEW i \in 1..Len(regions)
        PROVE  Base <= regions'[i].ptr /\ regions'[i].ptr + regions'[i].len <= Base + position'
    <3>1. PICK r : r = regions[i]
      OBVIOUS
    <3>2. regions'[i] = r /\ r.ptr \in Nat /\ r.len \in Nat
      BY <1>7, <1>9, <3>1
    <3>3. Base <= r.ptr /\ r.ptr + r.len <= Base + position
      BY <1>10, <3>1
    <3> QED
      BY ONLY <3>2, <3>3, <1>0, <1>5
  <2>2. Base <= taken.ptr /\ taken.ptr + taken.len <= Base + position'
    <3>1. Base <= at
      BY <1>0, <1>3, <1>5
    <3>2. at + size <= at + size
      BY <1>3
    <3> QED
      BY <1>5, <1>6, <3>1, <3>2
  <2> QED
    BY <1>7, <1>11, <2>1, <2>2 DEF Below
<1>13. Disjoint'
  <2>1. ASSUME NEW i \in 1..Len(regions)
        PROVE  Apart(regions[i], taken) /\ Apart(taken, regions[i])
    <3>1. regions[i].ptr + regions[i].len <= taken.ptr
      BY <1>3, <1>5, <1>6, <1>9, <1>10, <1>0
    <3> QED
      BY <3>1 DEF Apart
  <2>2. \A i, j \in 1..Len(regions) : i # j => Apart(regions[i], regions[j])
    BY DEF ArenaInv, Disjoint
  <2> QED
    BY <1>7, <1>11, <2>1, <2>2 DEF Disjoint, Apart
<1> QED
  BY <1>1, <1>3, <1>4, <1>5, <1>7, <1>12, <1>13 DEF ArenaInv

(* The sizes the host asks for. *)
LEMMA TextLength ==
  ASSUME NEW kind, NEW i, NEW len \in Nat
  PROVE  Len(Text(kind, i, len)) = len
BY DEF Text

LEMMA Sizes ==
  ASSUME ImportInv, arena
  PROVE  ListSize \in Nat /\ (MoreStrings => Len(NextString) \in Nat)
<1> DEFINE list == import.list
<1>1. list \in List /\ import.next \in Nat
  BY DEF ImportInv, ListImport
<1>2. /\ builder.args \in Seq(Nat) /\ builder.env \in Seq(Nat \X Nat)
      /\ builder.dirs \in Seq(Nat)
  BY BuildersAssumption DEF ImportInv
<1>3. /\ Len(Args) \in Nat /\ DOMAIN Args = 1..Len(Args)
      /\ \A i \in 1..Len(Args) : Len(Args[i]) \in Nat
  BY <1>2, TextLength DEF Args
<1>4. /\ Len(Env) \in Nat /\ DOMAIN Env = 1..Len(Env)
      /\ \A i \in 1..Len(Env) : Len(Env[i].key) \in Nat /\ Len(Env[i].value) \in Nat
  BY <1>2, TextLength DEF Env
<1>5. /\ Len(DirNames) \in Nat /\ DOMAIN DirNames = 1..Len(DirNames)
      /\ \A i \in 1..Len(DirNames) : Len(DirNames[i]) \in Nat
  BY <1>2, TextLength DEF DirNames
<1>6. ListSize \in Nat
  <2>1. Element(list) \in Nat
    BY <1>1, ArenaAssumption DEF Element, StrSize, PreopenSize, List
  <2>2. Elements(list) \in Nat
    <3>1. CASE list = "args"
      BY <1>3, <3>1 DEF Elements
    <3>2. CASE list = "env"
      BY <1>4, <3>2 DEF Elements
    <3>3. CASE list = "preopens"
      BY <1>5, <3>3 DEF Elements
    <3> QED
      BY <1>1, <3>1, <3>2, <3>3 DEF List
  <2> QED
    BY <2>1, <2>2 DEF ListSize
<1>7. ASSUME MoreStrings PROVE Len(NextString) \in Nat
  <2> DEFINE k == import.next
  <2>1. CASE list = "args"
    BY <1>1, <1>3, <1>7, <2>1 DEF MoreStrings, NextString, Strings
  <2>2. CASE list = "preopens"
    BY <1>1, <1>5, <1>7, <2>2 DEF MoreStrings, NextString, Strings
  <2>3. CASE list = "env"
    <3>1. Strings(list) = [i \in 1..(2 * Len(Env)) |->
            IF i % 2 = 1 THEN Env[(i + 1) \div 2].key ELSE Env[i \div 2].value]
      BY <2>3 DEF Strings
    <3>2. k \in 1..(2 * Len(Env))
      BY <1>1, <1>4, <1>7, <3>1 DEF MoreStrings
    <3>3. IF k % 2 = 1 THEN (k + 1) \div 2 \in 1..Len(Env) ELSE k \div 2 \in 1..Len(Env)
      BY <1>4, <3>2
    <3>4. NextString = IF k % 2 = 1 THEN Env[(k + 1) \div 2].key ELSE Env[k \div 2].value
      BY <3>1, <3>2 DEF NextString
    <3> HIDE DEF k
    <3> QED
      BY <1>4, <3>3, <3>4
  <2> QED
    BY <1>1, <2>1, <2>2, <2>3 DEF List
<1> QED
  BY <1>6, <1>7

-----------------------------------------------------------------------------
(* The invariant *)

LEMMA InvInit == Init => Inv
<1> SUFFICES ASSUME Init PROVE Inv
  OBVIOUS
<1>1. position = 0 /\ regions = <<>> /\ arena = FALSE /\ builder \in Builders
  BY DEF Init, ArenaInit, HostInit
<1>2. Len(regions) = 0 /\ regions \in Seq(Region)
  BY <1>1
<1>3. Below(Base + position) /\ Disjoint
  BY <1>2 DEF Below, Disjoint
<1> QED
  BY <1>1, <1>2, <1>3, ArenaAssumption DEF Inv, ArenaInv, ImportInv

(* What a step does to the arena when it takes nothing from it. *)
LEMMA TakesNothing ==
  ASSUME Inv, UNCHANGED <<position, regions, builder>>,
         arena' => import' \in ListImport
  PROVE  Inv'
BY DEF Inv, ArenaInv, ImportInv, Below, Disjoint

LEMMA Takes ==
  ASSUME Inv, NEW align \in Nat \ {0}, NEW size \in Nat, NEW writes,
         ArenaAlloc(align, size, writes), UNCHANGED builder,
         import' \in ListImport
  PROVE  Inv'
BY AllocKeepsApart DEF Inv, ImportInv

LEMMA InvNext == Inv /\ [Next]_vars => Inv'
<1> SUFFICES ASSUME Inv, [Next]_vars PROVE Inv'
  OBVIOUS
<1>1. CASE UNCHANGED <<position, regions, builder, arena, import>>
  BY <1>1, TakesNothing DEF Inv, ImportInv
<1>2. CASE Imports
  <2>1. Uses(call) \in List
    BY <1>2 DEF Imports, Cached, List
  <2>2. import' \in ListImport
    BY <1>2, <2>1 DEF Imports, ListImport
  <2> QED
    BY <1>2, <2>2, TakesNothing DEF Imports, WithArena, hostVars
<1>3. CASE ListAllocated
  <2>1. arena /\ ArenaAlloc(Word, ListSize, memory) /\ UNCHANGED builder
    BY <1>3 DEF ListAllocated, Importing, hostVars
  <2>2. ListSize \in Nat /\ Word \in Nat \ {0}
    BY <2>1, Sizes, ArenaAssumption DEF Inv
  <2>3. Allocated(Word) \in Nat
    BY <2>1, <2>2, AllocKeepsApart DEF Inv
  <2>4. import' \in ListImport
    BY <1>3, <2>1, <2>3 DEF ListAllocated, Inv, ImportInv, ListImport
  <2> QED
    BY <2>1, <2>2, <2>4, Takes
<1>4. CASE StringAllocated
  <2>1. /\ arena /\ MoreStrings /\ UNCHANGED builder
        /\ ArenaAlloc(1, Len(NextString), WithNextString(Allocated(1)))
    BY <1>4 DEF StringAllocated, Importing, hostVars
  <2>2. Len(NextString) \in Nat
    BY <2>1, Sizes DEF Inv
  <2>3. import' \in ListImport
    BY <1>4, <2>1 DEF StringAllocated, Inv, ImportInv, ListImport
  <2> QED
    BY <2>1, <2>2, <2>3, Takes
<1>5. CASE ListReturns \/ PreopensReturn
  BY <1>5, TakesNothing DEF ListReturns, PreopensReturn, ArenaReturns, hostVars
<1>6. CASE RandomImports \/ RandomAllocated
  <2>1. ~arena' /\ UNCHANGED <<position, regions, builder>>
    BY <1>6 DEF RandomImports, RandomAllocated, WithBuffer, BufferAlloc, hostVars
  <2> QED
    BY <2>1, TakesNothing
<1>7. CASE RandomReturns
  <2>1. import.list = "random" /\ UNCHANGED <<position, regions, builder, arena>>
    BY <1>7 DEF RandomReturns, BufferReturns, hostVars
  <2>2. ~arena
    BY <2>1 DEF Inv, ImportInv, List, ListImport
  <2> QED
    BY <2>1, <2>2, TakesNothing
<1>8. CASE Builds
  BY <1>1, <1>8 DEF Builds, BuildPushes, BuildEnds, arenaVars
<1>9. CASE AnswerFd
  <2>1. UNCHANGED builder
    BY <1>9 DEF AnswerFd, Ends, FdMut, FdClose, FdRenumber, PathOpen, FdFails, hostVars
  <2> QED
    BY <1>1, <1>9, <2>1 DEF AnswerFd, arenaVars
<1>10. CASE Allocates \/ ImportTraps \/ AnswerList \/ AnswerClock \/ AnswerPrestat
  BY <1>1, <1>10 DEF Allocates, ImportTraps, AnswerList, AnswerClock, AnswerPrestat, arenaVars,
     hostVars
<1>11. ASSUME NEW c \in Call, CallStateless(c) \/ CallUnready(c) \/ CallReady(c)
       PROVE  Inv'
  BY <1>1, <1>11 DEF CallStateless, CallUnready, CallReady, arenaVars, hostVars
<1>12. CASE UNCHANGED vars
  BY <1>1, <1>12 DEF vars, arenaVars, hostVars
<1> QED
  BY <1>2, <1>3, <1>4, <1>5, <1>6, <1>7, <1>8, <1>9, <1>10, <1>11, <1>12 DEF Next, CallStep

(* What the adapter keeps of the host's answers lies in the arena and is   *)
(* never handed out again, whatever was asked for in which order.          *)
THEOREM ArenaKeepsApart == Spec => []RegionsApart
<1>1. Inv => RegionsApart
  <2> SUFFICES ASSUME Inv PROVE RegionsApart
    OBVIOUS
  <2>1. \A i \in 1..Len(regions) : regions[i].ptr \in Nat /\ regions[i].len \in Nat
    <3>1. \A i \in 1..Len(regions) : regions[i] \in Region
      BY DEF Inv, ArenaInv
    <3> QED
      BY <3>1 DEF Region
  <2>2. \A i \in 1..Len(regions) :
          Base <= regions[i].ptr /\ regions[i].ptr + regions[i].len <= Base + ArenaSize
    BY <2>1, ArenaAssumption DEF Inv, ArenaInv, Below
  <2> QED
    BY <2>2 DEF Inv, ArenaInv, Disjoint, RegionsApart
<1> QED
  BY <1>1, InvInit, InvNext, PTL DEF Spec

-----------------------------------------------------------------------------
(* The modes of the allocator *)

(* The arena is used by imports of lists, a buffer is there until the      *)
(* import that brought it has used it.                                     *)
ArenaUsed == arena => import # Absent /\ import.list \in List /\ buffer = Absent

BufferUsed ==
  buffer # Absent =>
    /\ import # Absent /\ import.list = "random" /\ import.next = 0
    /\ call.x \in Nat /\ buffer = [ptr |-> GuestBuffer, len |-> call.x]

ImportUsed ==
  import # Absent =>
    /\ import \in Import /\ call # Absent
    /\ import.list = "random" /\ import.next = 0 => buffer # Absent

ModeInv ==
  ArenaUsed /\ BufferUsed /\ ImportUsed /\ call \in Call \cup {Absent} /\ AllocatorFree

LEMMA ReasonNotMode ==
  ASSUME ModeInv
  PROVE  TrapReason \notin {"mode", "buffer"}
<1>1. ~((WantsList \/ WantsBuffer) /\ (arena \/ buffer # Absent))
  BY DEF ModeInv, ArenaUsed, BufferUsed, WantsList, WantsBuffer
<1>2. ~(import # Absent /\ import.list = "random" /\ import.next = 0 /\ ~FitsBuffer(1, call.x))
  <2>1. GuestBuffer \in Nat
    BY ArgumentsAssumption
  <2>2. ASSUME NEW p \in Nat, NEW n \in Nat, NEW b, b = [ptr |-> p, len |-> n]
        PROVE  AlignTo(b.ptr, 1) + n <= b.ptr + b.len
    <3>1. AlignTo(p, 1) = p
      BY DEF AlignTo
    <3> QED
      BY <2>2, <3>1
  <2> QED
    BY <2>1, <2>2 DEF ModeInv, BufferUsed, ImportUsed, FitsBuffer
<1>3. None \notin {"mode", "buffer"}
  BY CauseAssumption DEF Cause
<1> QED
  BY <1>1, <1>2, <1>3 DEF TrapReason

LEMMA ModeKept ==
  ASSUME ModeInv, UNCHANGED <<arena, buffer, import, call, trapped>>
  PROVE  ModeInv'
BY DEF ModeInv, ArenaUsed, BufferUsed, ImportUsed, AllocatorFree

(* No import is under way after the step. *)
LEMMA ModeEnded ==
  ASSUME ModeInv, ~arena', buffer' = Absent, import' = Absent, call' \in Call \cup {Absent},
         trapped' \notin {"mode", "buffer"}
  PROVE  ModeInv'
BY DEF ModeInv, ArenaUsed, BufferUsed, ImportUsed, AllocatorFree

LEMMA RandomLength ==
  ASSUME NEW c \in Call, c.fn = "random_get"
  PROVE  c.x \in Nat
<1>1. \A fns, xs, ys : \A d \in Named(fns, xs, ys) : d.fn \in fns /\ d.x \in xs
  BY DEF Named
<1>2. ASSUME c \in ClockCall
      PROVE  FALSE
  <2>1. PICK id \in Clockid : c \in Named({"clock_res_get", "clock_time_get"}, {id}, Reading[id])
    BY <1>2 DEF ClockCall
  <2>2. c.fn \in {"clock_res_get", "clock_time_get"}
    BY <1>1, <2>1
  <2> QED
    BY <2>2
<1>3. ASSUME NEW fns, NEW xs, NEW ys, c \in Named(fns, xs, ys)
      PROVE  "random_get" \in fns /\ c.x \in xs
  BY <1>1, <1>3
<1>4. CASE c \in Named({"random_get"}, Length, {0})
  BY <1>3, <1>4, ArgumentsAssumption
<1>5. ~ \/ c \in Named({"args_get", "args_sizes_get", "environ_get", "environ_sizes_get",
                       "sched_yield"}, {0}, {0})
        \/ c \in Named({"proc_exit"}, {0, 2}, {0})
        \/ c \in Named({"fd_prestat_get", "fd_close"}, GuestFd, {0})
        \/ c \in Named({"fd_prestat_dir_name"}, GuestFd, Length)
        \/ c \in Named({"path_open"}, {0}, {0})
        \/ c \in Named({"fd_renumber"}, GuestFd, GuestFd)
  BY DEF Named
<1> QED
  BY <1>2, <1>4, <1>5 DEF Call

LEMMA ModeInit == Init => ModeInv
<1>1. None \notin {"mode", "buffer"}
  BY CauseAssumption DEF Cause
<1> QED
  BY <1>1 DEF Init, ArenaInit, ModeInv, ArenaUsed, BufferUsed, ImportUsed, AllocatorFree

LEMMA ModeNext == Inv' /\ ModeInv /\ [Next]_vars => ModeInv'
<1> SUFFICES ASSUME Inv', ModeInv, [Next]_vars PROVE ModeInv'
  OBVIOUS
<1>1. CASE UNCHANGED <<arena, buffer, import, call, trapped>>
  BY <1>1, ModeKept
<1>2. CASE Imports
  <2>1. Uses(call) \in List
    BY <1>2 DEF Imports, Cached, List
  <2>2. import' \in Import /\ import'.list \in List
    BY <1>2, <2>1 DEF Imports, Import
  <2>3. import'.list # "random" /\ import' # Absent
    BY <2>2, ImportAssumption DEF List
  <2>4. buffer' = Absent /\ call # Absent /\ UNCHANGED <<call, trapped>>
    BY <1>2 DEF Imports, WithArena, control
  <2> QED
    BY <2>2, <2>3, <2>4 DEF ModeInv, ArenaUsed, BufferUsed, ImportUsed, AllocatorFree
<1>3. CASE ListAllocated \/ StringAllocated
  <2>1. arena /\ UNCHANGED <<arena, buffer, call, trapped>>
    BY <1>3 DEF ListAllocated, StringAllocated, ArenaAlloc, control
  <2>2. import \in Import /\ import.list \in List
    BY <2>1 DEF ModeInv, ArenaUsed, ImportUsed
  <2>3. import' \in Import /\ import'.list = import.list
    <3>1. import' \in ListImport
      BY <2>1 DEF Inv, ImportInv
    <3>2. import'.list = import.list
      BY <1>3, <2>2 DEF ListAllocated, StringAllocated, Import
    <3> QED
      BY <3>1, <3>2 DEF ListImport, Import
  <2>4. import' # Absent /\ import'.list # "random"
    BY <2>2, <2>3, ImportAssumption DEF List
  <2> QED
    BY <2>1, <2>2, <2>3, <2>4 DEF ModeInv, ArenaUsed, BufferUsed, ImportUsed, AllocatorFree
<1>4. CASE ImportTraps
  BY <1>4, ReasonNotMode
     DEF ImportTraps, Traps, arenaVars, ModeInv, ArenaUsed, BufferUsed, ImportUsed, AllocatorFree
<1>5. CASE ListReturns \/ PreopensReturn
  <2>1. arena /\ ~arena' /\ UNCHANGED <<buffer, call>> /\ import' = Absent
        /\ (UNCHANGED trapped \/ trapped' = "slots")
    BY <1>5 DEF ListReturns, PreopensReturn, ArenaReturns, Imported, Importing, Traps, control
  <2>2. buffer' = Absent
    BY <2>1 DEF ModeInv, ArenaUsed
  <2> QED
    BY <2>1, <2>2, ModeEnded DEF ModeInv, AllocatorFree
<1>6. CASE RandomImports
  <2>1. /\ call.fn = "random_get" /\ call \in Call /\ UNCHANGED <<call, trapped, arena>> /\ ~arena
        /\ buffer' = [ptr |-> GuestBuffer, len |-> call.x] /\ call # Absent
        /\ import' = [list |-> "random", base |-> GuestBuffer, next |-> 0]
    BY <1>6 DEF RandomImports, Ends, WithBuffer, control, ModeInv
  <2>2. call.x \in Nat /\ GuestBuffer \in Nat
    BY <2>1, RandomLength, ArgumentsAssumption
  <2>3. buffer' # Absent /\ import' \in Import
    BY <2>1, <2>2, ArenaAssumption DEF Import
  <2>4. import' # Absent
    BY <2>3, ImportAssumption
  <2> QED
    BY <2>1, <2>2, <2>3, <2>4 DEF ModeInv, ArenaUsed, BufferUsed, ImportUsed, AllocatorFree
<1>7. CASE RandomAllocated
  <2>1. /\ ~arena /\ UNCHANGED <<arena, call, trapped>> /\ buffer # Absent /\ buffer' = Absent
        /\ import # Absent
        /\ import' = [import EXCEPT !.base = AlignTo(buffer.ptr, 1), !.next = 1]
    BY <1>7 DEF RandomAllocated, BufferAlloc, FitsBuffer, control
  <2>2. import \in Import /\ AlignTo(buffer.ptr, 1) \in Nat
    <3>1. buffer.ptr \in Nat
      BY <2>1, ArgumentsAssumption DEF ModeInv, BufferUsed
    <3> QED
      BY <2>1, <3>1, AlignsUp DEF ModeInv, ImportUsed
  <2>3. import' \in Import /\ import'.next = 1
    BY <2>1, <2>2 DEF Import
  <2> QED
    BY <2>1, <2>3 DEF ModeInv, ArenaUsed, BufferUsed, ImportUsed, AllocatorFree
<1>8. CASE RandomReturns
  <2>1. /\ import.list = "random" /\ UNCHANGED <<arena, trapped>>
        /\ buffer' = Absent /\ import' = Absent /\ call' = Absent
    BY <1>8 DEF RandomReturns, BufferReturns, Done
  <2>2. ~arena
    BY <2>1 DEF ModeInv, ArenaUsed, List
  <2> QED
    BY <2>1, <2>2, ModeEnded DEF ModeInv, AllocatorFree
<1>9. CASE AnswerList \/ AnswerClock \/ AnswerPrestat \/ AnswerFd
  <2>1. /\ import = Absent /\ UNCHANGED <<arena, buffer, import>>
        /\ call' \in Call \cup {Absent}
        /\ UNCHANGED trapped \/ trapped' = "clock"
    <3>1. CASE AnswerList \/ AnswerClock \/ AnswerPrestat
      BY <3>1 DEF AnswerList, AnswerClock, AnswerPrestat, Ends, Done, Traps, arenaVars, ModeInv
    <3>2. CASE AnswerFd
      <4>1. FdClose(call.x) \/ FdRenumber(call.x, call.y) \/ PathOpen
        BY <3>2 DEF AnswerFd, Ends, FdMut
      <4>2. call' = Absent /\ UNCHANGED trapped
        BY <4>1 DEF FdClose, FdRenumber, PathOpen, FdFails, Done
      <4> QED
        BY <3>2, <4>2 DEF AnswerFd, Ends, arenaVars
    <3> QED
      BY <1>9, <3>1, <3>2
  <2> QED
    BY <2>1, ModeEnded DEF ModeInv, ArenaUsed, BufferUsed, AllocatorFree
<1>10. ASSUME NEW c \in Call, CallUnready(c) \/ CallReady(c)
       PROVE  ModeInv'
  <2>1. /\ call = Absent /\ UNCHANGED <<arena, buffer, import>> /\ call' \in Call \cup {Absent}
        /\ UNCHANGED trapped \/ trapped' = "unready"
    BY <1>10 DEF CallUnready, CallReady, Idle, Traps, arenaVars
  <2> QED
    BY <2>1, ModeEnded DEF ModeInv, ArenaUsed, BufferUsed, ImportUsed, AllocatorFree
<1>11. ASSUME NEW c \in Call, CallStateless(c)
       PROVE  ModeInv'
  BY <1>1, <1>11 DEF CallStateless, arenaVars
<1>12. CASE Builds \/ Allocates
  BY <1>1, <1>12 DEF Builds, Allocates, arenaVars, control
<1>13. CASE UNCHANGED vars
  BY <1>1, <1>13 DEF vars, arenaVars, control
<1> QED
  BY <1>2, <1>3, <1>4, <1>5, <1>6, <1>7, <1>8, <1>9, <1>10, <1>11, <1>12, <1>13 DEF Next, CallStep

(* No import finds the allocator in use by another one, whichever call     *)
(* comes first, and the buffer of random_get is always large enough.       *)
THEOREM AllocatorStaysFree == Spec => []AllocatorFree
<1>1. ModeInv => AllocatorFree
  BY DEF ModeInv
<1> QED
  BY <1>1, InvInit, InvNext, ModeInit, ModeNext, PTL DEF Spec

-----------------------------------------------------------------------------
(* The strings of a list *)

IsString(text) == Len(text) \in Nat /\ text = [k \in 1..Len(text) |-> text[k]]

Stride(list) == IF list = "preopens" THEN PreopenSize ELSE StrSize
Size(list) == Elements(list) * Element(list)

LEMMA TextIsString ==
  ASSUME NEW kind, NEW i, NEW len \in Nat
  PROVE  IsString(Text(kind, i, len))
<1>1. Len(Text(kind, i, len)) = len
  BY TextLength
<1> QED
  BY <1>1 DEF Text, IsString

(* A list has room for each of its strings. *)
LEMMA StringsShape ==
  ASSUME builder \in Builders, NEW list \in List
  PROVE  /\ Len(Strings(list)) \in Nat /\ Elements(list) \in Nat
         /\ Size(list) = Len(Strings(list)) * Stride(list) /\ Stride(list) \in Nat \ {0}
         /\ \A i \in 1..Len(Strings(list)) : IsString(Strings(list)[i])
<1>1. /\ builder.args \in Seq(Nat) /\ builder.env \in Seq(Nat \X Nat)
      /\ builder.dirs \in Seq(Nat)
  BY BuildersAssumption
<1>2. /\ Len(Args) \in Nat /\ DOMAIN Args = 1..Len(Args)
      /\ \A i \in 1..Len(Args) : IsString(Args[i])
  BY <1>1, TextIsString DEF Args
<1>3. /\ Len(DirNames) \in Nat /\ DOMAIN DirNames = 1..Len(DirNames)
      /\ \A i \in 1..Len(DirNames) : IsString(DirNames[i])
  BY <1>1, TextIsString DEF DirNames
<1>4. /\ Len(Env) \in Nat /\ DOMAIN Env = 1..Len(Env)
      /\ \A i \in 1..Len(Env) : IsString(Env[i].key) /\ IsString(Env[i].value)
  BY <1>1, TextIsString DEF Env
<1>5. Word \in Nat \ {0} /\ StrSize = 2 * Word /\ PreopenSize = 3 * Word
  BY ArenaAssumption DEF StrSize, PreopenSize
<1>6. CASE list = "args"
  BY <1>2, <1>5, <1>6 DEF Strings, Elements, Element, Size, Stride
<1>7. CASE list = "preopens"
  BY <1>3, <1>5, <1>7 DEF Strings, Elements, Element, Size, Stride
<1>8. CASE list = "env"
  <2>1. Strings(list) = [i \in 1..(2 * Len(Env)) |->
          IF i % 2 = 1 THEN Env[(i + 1) \div 2].key ELSE Env[i \div 2].value]
    BY <1>8 DEF Strings
  <2>2. Len(Strings(list)) = 2 * Len(Env) /\ 2 * Len(Env) \in Nat
    BY <1>4, <2>1
  <2>3. Elements(list) = Len(Env) /\ Element(list) = 2 * StrSize /\ Stride(list) = StrSize
    BY <1>8 DEF Elements, Element, Stride
  <2>4. ASSUME NEW i \in 1..(2 * Len(Env))
        PROVE  IsString(Strings(list)[i])
    <3>1. IF i % 2 = 1 THEN (i + 1) \div 2 \in 1..Len(Env) ELSE i \div 2 \in 1..Len(Env)
      BY <1>4
    <3>2. Strings(list)[i] = IF i % 2 = 1 THEN Env[(i + 1) \div 2].key ELSE Env[i \div 2].value
      BY <2>1
    <3> QED
      BY <1>4, <3>1, <3>2
  <2>5. Size(list) = (2 * Len(Env)) * StrSize
    <3>1. Size(list) = Len(Env) * (2 * StrSize)
      BY <2>3 DEF Size
    <3>2. StrSize \in Nat
      BY <1>5
    <3> QED
      BY <3>1, <3>2, <1>4
  <2> QED
    BY <1>4, <1>5, <2>2, <2>3, <2>4, <2>5
<1> QED
  BY <1>6, <1>7, <1>8 DEF List

-----------------------------------------------------------------------------
(* Elements of a list *)

LEMMA TimesMonotone ==
  ASSUME NEW a \in Nat, NEW b \in Nat, NEW c \in Nat, a <= b
  PROVE  a * c <= b * c /\ a * c \in Nat /\ b * c \in Nat
OBVIOUS

LEMMA SizeIsNat ==
  ASSUME builder \in Builders, NEW list \in List
  PROVE  Size(list) \in Nat
<1>1. Size(list) = Len(Strings(list)) * Stride(list)
  BY StringsShape
<1> QED
  BY <1>1, StringsShape, TimesMonotone

(* Where the element of a string begins and ends. *)
SlotStart(list, base, i) == base + (i - 1) * Stride(list)
SlotEnd(list, base, i) == SlotStart(list, base, i) + Stride(list)

LEMMA Slots ==
  ASSUME builder \in Builders, NEW list \in List, NEW base \in Nat,
         NEW i \in 1..Len(Strings(list))
  PROVE  /\ SlotStart(list, base, i) \in Nat /\ base <= SlotStart(list, base, i)
         /\ SlotEnd(list, base, i) \in Nat /\ SlotEnd(list, base, i) <= base + Size(list)
         /\ StrAddress(list, base, i) \in Nat
         /\ SlotStart(list, base, i) <= StrAddress(list, base, i)
         /\ StrAddress(list, base, i) + StrSize = SlotEnd(list, base, i)
         /\ list = "preopens" =>
              /\ StrAddress(list, base, i) = SlotStart(list, base, i) + Word
              /\ SlotStart(list, base, i) = base + (i - 1) * PreopenSize
         /\ \A j \in 1..(i - 1) : SlotEnd(list, base, j) <= SlotStart(list, base, i)
<1> DEFINE s == Stride(list)
           l == Len(Strings(list))
<1>1. l \in Nat /\ s \in Nat \ {0} /\ Size(list) = l * s /\ i \in Nat /\ 1 <= i /\ i <= l
  BY StringsShape
<1>2. Word \in Nat \ {0} /\ StrSize = 2 * Word /\ PreopenSize = 3 * Word
  BY ArenaAssumption DEF StrSize, PreopenSize
<1>3. i * s <= l * s /\ i * s \in Nat /\ l * s \in Nat
  BY <1>1, TimesMonotone
<1>4. (i - 1) * s \in Nat /\ i * s = (i - 1) * s + s
  <2> HIDE DEF s
  <2> QED
    BY <1>1
<1>5. /\ SlotStart(list, base, i) = base + (i - 1) * s
      /\ SlotEnd(list, base, i) = base + (i - 1) * s + s
  BY DEF SlotStart, SlotEnd
<1>6. list = "preopens" =>
        s = PreopenSize /\ StrAddress(list, base, i) = base + (i - 1) * s + Word
  BY DEF Stride, StrAddress
<1>7. list # "preopens" =>
        s = StrSize /\ StrAddress(list, base, i) = base + (i - 1) * s
  BY DEF Stride, StrAddress
<1>8. ASSUME NEW j \in 1..(i - 1)
      PROVE  SlotEnd(list, base, j) <= SlotStart(list, base, i)
  <2>1. SlotEnd(list, base, j) = base + (j - 1) * s + s
    BY DEF SlotStart, SlotEnd
  <2>2. j \in Nat /\ j <= i - 1 /\ i - 1 \in Nat /\ j - 1 \in Nat
    BY <1>1
  <2>3. j * s <= (i - 1) * s
    BY <1>1, <2>2, TimesMonotone
  <2>4. j * s = (j - 1) * s + s /\ (j - 1) * s \in Nat
    <3> HIDE DEF s
    <3> QED
      BY <1>1, <2>2
  <2> HIDE DEF s
  <2> QED
    BY <1>1, <1>4, <1>5, <2>1, <2>3, <2>4
<1> DEFINE m == (i - 1) * s
<1> HIDE DEF m, s, l
<1> QED
  BY <1>1, <1>2, <1>3, <1>4, <1>5, <1>6, <1>7, <1>8 DEF m

-----------------------------------------------------------------------------
(* What is kept *)

(* The i-th string of a list is where its element says, between the        *)
(* elements and an address. *)
StringAt(list, base, i, top) ==
  LET at == StrAddress(list, base, i)
      text == Strings(list)[i] IN
  /\ WordAt(at) \in Nat /\ base + Size(list) <= WordAt(at) /\ WordAt(at) + Len(text) <= top
  /\ WordAt(at + Word) = Len(text)
  /\ \A k \in 1..Len(text) : Cell(WordAt(at) + k - 1) = text[k]

HandleAt(list, base, i) ==
  list = "preopens" => WordAt(base + (i - 1) * PreopenSize) = pushed[3 + i]

(* The first m elements of a list are written, all below an address. *)
Filled(list, base, m, top) ==
  /\ base \in Nat /\ Base <= base /\ base + Size(list) <= top
  /\ \A i \in 1..m : StringAt(list, base, i, top) /\ HandleAt(list, base, i)

(* Lists that are kept lie below the one that is being imported. *)
Writing == arena /\ import.next > 0
Frontier == IF Writing THEN import.base ELSE Base + position

Kept(list, kept) ==
  kept # Absent =>
    /\ kept \in [ptr : Nat, len : Nat] /\ kept.len = Elements(list)
    /\ Filled(list, kept.ptr, Len(Strings(list)), Frontier)

MemoryInv ==
  /\ memory = [a \in Address |-> memory[a]]
  /\ Kept("args", args) /\ Kept("env", env_vars) /\ Kept("preopens", preopens)
  /\ Writing =>
       /\ import.next <= Len(Strings(import.list)) + 1
       /\ Filled(import.list, import.base, import.next - 1, Base + position)
  /\ arena \/ preopens # Absent => phase = "built"

LEMMA FilledKeeps ==
  ASSUME builder \in Builders, builder' = builder,
         NEW list \in List, list = "preopens" => pushed' = pushed,
         NEW base, NEW m \in 0..Len(Strings(list)), NEW top \in Nat, NEW high \in Nat, top <= high,
         Filled(list, base, m, top),
         \A i \in 1..m : \A a \in SlotStart(list, base, i)..(SlotEnd(list, base, i) - 1) :
           Cell(a)' = Cell(a),
         \A a \in (base + Size(list))..(top - 1) : Cell(a)' = Cell(a)
  PROVE  Filled(list, base, m, high)'
<1>1. /\ Strings(list)' = Strings(list) /\ Size(list)' = Size(list)
      /\ \A i : StrAddress(list, base, i)' = StrAddress(list, base, i)
  BY DEF Strings, Size, Elements, Element, StrAddress, Args, Env, DirNames
<1>2. /\ base \in Nat /\ Base <= base /\ base + Size(list) <= top
      /\ \A i \in 1..m : StringAt(list, base, i, top) /\ HandleAt(list, base, i)
  BY DEF Filled
<1>3. Len(Strings(list)) \in Nat /\ Size(list) \in Nat /\ Word \in Nat \ {0} /\ StrSize = 2 * Word
  BY SizeIsNat, ArenaAssumption DEF StrSize
<1>4. base + Size(list) <= high /\ Base \in Nat
  BY <1>2, <1>3, ArenaAssumption
<1>5. ASSUME NEW i \in 1..m
      PROVE  StringAt(list, base, i, high)' /\ HandleAt(list, base, i)'
  <2>0. i \in 1..Len(Strings(list))
    BY <1>3
  <2>1. PICK at : at = StrAddress(list, base, i)
    OBVIOUS
  <2>2. PICK text : text = Strings(list)[i]
    OBVIOUS
  <2>3. PICK ptr : ptr = WordAt(at)
    OBVIOUS
  <2>4. PICK first, last : first = SlotStart(list, base, i) /\ last = SlotEnd(list, base, i)
    OBVIOUS
  <2>5. /\ first \in Nat /\ last \in Nat /\ at \in Nat /\ first <= at /\ at + StrSize = last
        /\ list = "preopens" => first = base + (i - 1) * PreopenSize
    BY <1>2, <2>0, <2>1, <2>4, Slots
  <2>6. /\ ptr \in Nat /\ base + Size(list) <= ptr /\ ptr + Len(text) <= top
        /\ WordAt(at + Word) = Len(text)
        /\ \A k \in 1..Len(text) : Cell(ptr + k - 1) = text[k]
    BY <1>2, <2>1, <2>2, <2>3 DEF StringAt
  <2>7. Len(text) \in Nat
    BY <2>0, <2>2, StringsShape DEF IsString
  <2>8. \A a \in first..(last - 1) : Cell(a)' = Cell(a)
    BY <2>4
  <2>9. at \in first..(last - 1) /\ at + Word \in first..(last - 1) /\ first \in first..(last - 1)
    BY <1>3, <2>5
  <2>10. WordAt(at)' = ptr /\ WordAt(at + Word)' = Len(text) /\ WordAt(first)' = WordAt(first)
    BY <2>3, <2>6, <2>8, <2>9 DEF WordAt
  <2>11. \A k \in 1..Len(text) : Cell(ptr + k - 1)' = text[k]
    <3>1. ASSUME NEW k \in 1..Len(text)
          PROVE  ptr + k - 1 \in (base + Size(list))..(top - 1)
      BY <1>2, <1>3, <2>6, <2>7
    <3> QED
      BY <2>6, <3>1
  <2>12. ptr + Len(text) <= high
    BY <2>6, <2>7
  <2>13. StringAt(list, base, i, high)'
    BY <1>1, <2>1, <2>2, <2>6, <2>10, <2>11, <2>12 DEF StringAt
  <2>14. HandleAt(list, base, i)'
    BY <1>2, <2>5, <2>10 DEF HandleAt
  <2> QED
    BY <2>13, <2>14
<1> QED
  BY <1>1, <1>2, <1>4, <1>5 DEF Filled

(* What is kept stays, while memory below the frontier does. *)
LEMMA KeptKeeps ==
  ASSUME builder \in Builders, builder' = builder,
         NEW list \in List, list = "preopens" => pushed' = pushed,
         NEW kept, Kept(list, kept),
         Frontier \in Nat, Frontier' \in Nat, Frontier <= Frontier',
         \A a \in Base..(Frontier - 1) : Cell(a)' = Cell(a)
  PROVE  Kept(list, kept)'
<1>1. Strings(list)' = Strings(list) /\ Elements(list)' = Elements(list)
  BY DEF Strings, Elements, Args, Env, DirNames
<1>2. SUFFICES ASSUME kept # Absent
               PROVE  /\ kept \in [ptr : Nat, len : Nat] /\ kept.len = Elements(list)
                      /\ Filled(list, kept.ptr, Len(Strings(list)), Frontier)'
  BY <1>1 DEF Kept
<1>3. PICK base, m, top, high :
        base = kept.ptr /\ m = Len(Strings(list)) /\ top = Frontier /\ high = Frontier'
  OBVIOUS
<1>4. /\ kept \in [ptr : Nat, len : Nat] /\ kept.len = Elements(list)
      /\ Filled(list, base, m, top) /\ base \in Nat
  BY <1>2, <1>3 DEF Kept
<1>5. m \in Nat /\ m \in 0..m /\ top \in Nat /\ high \in Nat /\ top <= high
  BY <1>3, StringsShape
<1>6. Base \in Nat /\ Base <= base /\ base + Size(list) <= top /\ Size(list) \in Nat
  <2>1. Size(list) = Len(Strings(list)) * Stride(list)
    BY StringsShape
  <2> QED
    BY <1>4, <2>1, StringsShape, TimesMonotone, ArenaAssumption DEF Filled
<1>7. \A a \in Base..(top - 1) : Cell(a)' = Cell(a)
  BY <1>3
<1>8. \A i \in 1..m : \A a \in SlotStart(list, base, i)..(SlotEnd(list, base, i) - 1) :
        Cell(a)' = Cell(a)
  <2>1. ASSUME NEW i \in 1..m,
               NEW a \in SlotStart(list, base, i)..(SlotEnd(list, base, i) - 1)
        PROVE  a \in Base..(top - 1)
    <3>1. /\ SlotStart(list, base, i) \in Nat /\ base <= SlotStart(list, base, i)
          /\ SlotEnd(list, base, i) \in Nat /\ SlotEnd(list, base, i) <= base + Size(list)
      BY <1>3, <1>4, Slots
    <3> QED
      BY <1>4, <1>5, <1>6, <3>1
  <2> QED
    BY <1>7, <2>1
<1>9. \A a \in (base + Size(list))..(top - 1) : Cell(a)' = Cell(a)
  BY <1>4, <1>5, <1>6, <1>7
<1>10. Filled(list, base, m, high)'
  BY <1>3, <1>4, <1>5, <1>8, <1>9, FilledKeeps
<1> QED
  BY <1>1, <1>3, <1>4, <1>10

(* A string that is there is read back. *)
LEMMA ReadsBack ==
  ASSUME builder \in Builders, NEW list \in List, NEW base, NEW i \in 1..Len(Strings(list)),
         NEW top, StringAt(list, base, i, top)
  PROVE  StrAt(StrAddress(list, base, i)) = Strings(list)[i]
<1>1. PICK at, text : at = StrAddress(list, base, i) /\ text = Strings(list)[i]
  OBVIOUS
<1>2. Len(text) \in Nat /\ text = [k \in 1..Len(text) |-> text[k]]
  BY <1>1, StringsShape DEF IsString
<1>3. /\ WordAt(at + Word) = Len(text)
      /\ \A k \in 1..Len(text) : Cell(WordAt(at) + k - 1) = text[k]
  BY <1>1 DEF StringAt
<1>4. StrAt(at) = [k \in 1..Len(text) |-> Cell(WordAt(at) + k - 1)]
  BY <1>3 DEF StrAt
<1>5. StrAt(at) = text
  BY <1>2, <1>3, <1>4
<1> QED
  BY <1>1, <1>5

(* Memory that is taken lies above what was taken before. *)
LEMMA AllocAbove ==
  ASSUME ArenaInv, NEW align \in Nat \ {0}, NEW size \in Nat, NEW writes,
         ArenaAlloc(align, size, writes)
  PROVE  /\ Allocated(align) \in Nat /\ Base + position \in Nat /\ position' \in Nat
         /\ Base + position <= Allocated(align) /\ Allocated(align) + size = Base + position'
         /\ Base + position' <= Base + ArenaSize /\ Base + position <= Base + position'
         /\ Base \in Nat /\ ArenaSize \in Nat
<1>0. Base \in Nat /\ ArenaSize \in Nat
  BY ArenaAssumption
<1>1. Base + position \in Nat
  BY <1>0 DEF ArenaInv
<1>2. PICK at : at = Allocated(align)
  OBVIOUS
<1>3. at \in Nat /\ Base + position <= at
  BY <1>1, <1>2, AlignsUp DEF Allocated
<1>4. position' = at - Base + size /\ at - Base + size <= ArenaSize
  BY <1>2 DEF ArenaAlloc, FitsArena, PositionAfter
<1>5. position \in Nat /\ size \in Nat
  BY DEF ArenaInv
<1>6. /\ at \in Nat /\ position' \in Nat /\ at + size = Base + position'
      /\ Base + position' <= Base + ArenaSize /\ Base + position <= Base + position'
  BY ONLY <1>0, <1>1, <1>3, <1>4, <1>5
<1> QED
  BY <1>0, <1>1, <1>2, <1>3, <1>6

(* What a cell holds once some bytes are stored. *)
LEMMA StoredCell ==
  ASSUME NEW m, NEW at \in Int, NEW len \in Int, NEW bytes, NEW b \in DOMAIN m
  PROVE  /\ b \in at..(at + len - 1) => Stored(m, at, len, bytes)[b] = bytes[b - at + 1]
         /\ b \notin at..(at + len - 1) => Stored(m, at, len, bytes)[b] = m[b]
BY DEF Stored

(* The host writes the next string, its element and, for a preopen, the    *)
(* handle before it; everything else stays. *)
LEMMA NextWritten ==
  ASSUME builder \in Builders, builder' = builder, pushed' = pushed,
         memory = [a \in Address |-> memory[a]],
         NEW list \in List, list = import.list, NEW base \in Nat, base = import.base,
         NEW i \in 1..Len(Strings(list)), i = import.next,
         NEW ptr \in Nat, NEW high \in Nat, high <= Base + ArenaSize,
         Base <= base, base + Size(list) <= ptr, ptr + Len(Strings(list)[i]) = high,
         memory' = WithNextString(ptr)
  PROVE  /\ memory' = [a \in Address |-> memory'[a]]
         /\ StringAt(list, base, i, high)' /\ HandleAt(list, base, i)'
         /\ \A a \in Int :
              /\ a \notin SlotStart(list, base, i)..(SlotEnd(list, base, i) - 1)
              /\ a < ptr
              => Cell(a)' = Cell(a)
<1>1. PICK at, text, first, last :
        /\ at = StrAddress(list, base, i) /\ text = Strings(list)[i]
        /\ first = SlotStart(list, base, i) /\ last = SlotEnd(list, base, i)
  OBVIOUS
<1>2. /\ first \in Nat /\ last \in Nat /\ at \in Nat /\ base <= first /\ first <= at
      /\ at + StrSize = last /\ last <= base + Size(list)
      /\ list = "preopens" => at = first + Word
  BY <1>1, Slots
<1>3. Len(text) \in Nat
  BY <1>1, StringsShape DEF IsString
<1>4. /\ Base \in Nat /\ ArenaSize \in Nat /\ Word \in Nat \ {0} /\ StrSize = 2 * Word
      /\ Size(list) \in Nat
  BY SizeIsNat, ArenaAssumption DEF StrSize
<1>5. PICK one, two :
        /\ one = Stored(memory, ptr, Len(text), text)
        /\ two = Stored(one, at, StrSize, StrBytes(ptr, Len(text)))
  OBVIOUS
<1>6. memory' = IF list = "preopens"
                THEN Stored(two, at - Word, Word, WordBytes(pushed[3 + i]))
                ELSE two
  BY <1>1, <1>5 DEF WithNextString, NextString
<1>7. /\ DOMAIN memory = Address /\ DOMAIN one = Address /\ DOMAIN two = Address
      /\ memory' = [a \in Address |-> memory'[a]]
  BY <1>5, <1>6 DEF Stored
<1>8. PICK len, size : len = Len(text) /\ size = StrSize
  OBVIOUS
<1>9. /\ Base \in Nat /\ ArenaSize \in Nat /\ Word \in Nat /\ 1 <= Word /\ size = 2 * Word
      /\ first \in Nat /\ at \in Nat /\ ptr \in Nat /\ len \in Nat
      /\ Base <= first /\ first <= at /\ at + size <= ptr /\ ptr + len <= Base + ArenaSize
      /\ list = "preopens" => at = first + Word
      /\ Address = Base..(Base + ArenaSize - 1)
  <2>1. PICK end, all : all = Size(list) /\ end = base + all
    OBVIOUS
  <2>2. end \in Nat /\ last <= end /\ end <= ptr
    <3>1. all \in Nat /\ base \in Nat /\ last <= end /\ end <= ptr
      BY <1>2, <1>4, <2>1
    <3> QED
      BY ONLY <2>1, <3>1
  <2>3. /\ first \in Nat /\ last \in Nat /\ at \in Nat /\ base <= first /\ first <= at
        /\ at + size = last /\ (list = "preopens" => at = first + Word)
    BY <1>2, <1>8
  <2>4. /\ Base \in Nat /\ ArenaSize \in Nat /\ Word \in Nat /\ 1 <= Word /\ size = 2 * Word
        /\ len \in Nat
    BY <1>3, <1>4, <1>8
  <2>5. /\ base \in Nat /\ Base <= base /\ ptr \in Nat /\ high \in Nat /\ high <= Base + ArenaSize
        /\ ptr + len = high
    BY <1>1, <1>8
  <2>6. at + size <= ptr /\ Base <= first /\ ptr + len <= Base + ArenaSize
    BY ONLY <2>2, <2>3, <2>4, <2>5
  <2> QED
    BY <2>3, <2>4, <2>5, <2>6 DEF Address
<1>10. ASSUME NEW a \in Address
       PROVE  /\ a \in ptr..(ptr + len - 1) => one[a] = text[a - ptr + 1]
              /\ a \notin ptr..(ptr + len - 1) => one[a] = memory[a]
              /\ a \in at..(at + size - 1) => two[a] = StrBytes(ptr, len)[a - at + 1]
              /\ a \notin at..(at + size - 1) => two[a] = one[a]
              /\ list = "preopens" /\ a \in first..(at - 1) =>
                   memory'[a] = WordBytes(pushed[3 + i])[a - first + 1]
              /\ ~(list = "preopens" /\ a \in first..(at - 1)) => memory'[a] = two[a]
  <2>1. at \in Int /\ ptr \in Int /\ len \in Int /\ size \in Int
    BY ONLY <1>9
  <2>2. one = Stored(memory, ptr, len, text) /\ two = Stored(one, at, size, StrBytes(ptr, len))
    BY <1>5, <1>8
  <2>3. /\ a \in ptr..(ptr + len - 1) => one[a] = text[a - ptr + 1]
        /\ a \notin ptr..(ptr + len - 1) => one[a] = memory[a]
    BY <1>7, <2>1, <2>2, StoredCell
  <2>4. /\ a \in at..(at + size - 1) => two[a] = StrBytes(ptr, len)[a - at + 1]
        /\ a \notin at..(at + size - 1) => two[a] = one[a]
    BY <1>7, <2>1, <2>2, StoredCell
  <2>5. CASE list = "preopens"
    <3>1. /\ at - Word = first /\ first + Word - 1 = at - 1 /\ first \in Int /\ Word \in Int
      BY ONLY <1>9, <2>5
    <3>2. memory' = Stored(two, first, Word, WordBytes(pushed[3 + i]))
      BY <1>6, <2>5, <3>1
    <3>3. /\ a \in first..(first + Word - 1) =>
                memory'[a] = WordBytes(pushed[3 + i])[a - first + 1]
          /\ a \notin first..(first + Word - 1) => memory'[a] = two[a]
      BY <1>7, <3>1, <3>2, StoredCell
    <3> QED
      BY <2>3, <2>4, <2>5, <3>1, <3>3
  <2>6. CASE list # "preopens"
    BY <1>6, <2>3, <2>4, <2>6
  <2> QED
    BY <2>5, <2>6
<1>11. \A a \in Address : Cell(a)' = memory'[a] /\ Cell(a) = memory[a]
  BY DEF Cell, Address
<1>12. \A v : WordBytes(v)[1] = <<"word", v, 1>>
  BY <1>4 DEF WordBytes
<1>13. WordAt(at)' = ptr
  <2>1. at \in Address /\ at \in at..(at + size - 1) /\ at \notin first..(at - 1) /\ at - at + 1 = 1
    BY ONLY <1>9
  <2>2. Cell(at)' = StrBytes(ptr, len)[1]
    BY <2>1, <1>10, <1>11
  <2>3. StrBytes(ptr, len)[1] = WordBytes(ptr)[1]
    BY <1>4, <1>9 DEF StrBytes
  <2> QED
    BY <1>12, <2>2, <2>3 DEF WordAt
<1>14. WordAt(at + Word)' = len
  <2>1. /\ at + Word \in Address /\ at + Word \in at..(at + size - 1)
        /\ at + Word \notin first..(at - 1) /\ (at + Word) - at + 1 = Word + 1
    BY ONLY <1>9
  <2>2. Cell(at + Word)' = StrBytes(ptr, len)[Word + 1]
    BY <2>1, <1>10, <1>11
  <2>3. StrBytes(ptr, len)[Word + 1] = WordBytes(len)[1]
    <3>1. Word + 1 \in 1..size /\ ~(Word + 1 <= Word) /\ (Word + 1) - Word = 1
      BY ONLY <1>9
    <3> QED
      BY <1>8, <3>1 DEF StrBytes
  <2> QED
    BY <1>12, <2>2, <2>3 DEF WordAt
<1>15. \A k \in 1..len : Cell(ptr + k - 1)' = text[k]
  <2>1. ASSUME NEW k \in 1..len
        PROVE  Cell(ptr + k - 1)' = text[k]
    <3>1. /\ ptr + k - 1 \in Address /\ ptr + k - 1 \in ptr..(ptr + len - 1)
          /\ ptr + k - 1 \notin at..(at + size - 1) /\ ptr + k - 1 \notin first..(at - 1)
          /\ (ptr + k - 1) - ptr + 1 = k
      BY ONLY <1>9
    <3>2. Cell(ptr + k - 1)' = text[(ptr + k - 1) - ptr + 1]
      BY <3>1, <1>10, <1>11
    <3> QED
      BY <3>1, <3>2
  <2> QED
    BY <2>1
<1>16. /\ Strings(list)' = Strings(list) /\ Size(list)' = Size(list)
       /\ StrAddress(list, base, i)' = StrAddress(list, base, i)
  <2>1. Args' = Args /\ Env' = Env /\ DirNames' = DirNames
    BY DEF Args, Env, DirNames
  <2> QED
    BY <2>1 DEF Strings, Size, Elements, Element, StrAddress
<1>17. StringAt(list, base, i, high)'
  <2>1. ptr + len <= high
    BY <1>1, <1>3, <1>8
  <2> QED
    BY <1>1, <1>8, <1>13, <1>14, <1>15, <1>16, <2>1 DEF StringAt
<1>18. HandleAt(list, base, i)'
  <2>1. ASSUME list = "preopens"
        PROVE  WordAt(first)' = pushed[3 + i]
    <3>1. first \in Address /\ first \in first..(at - 1) /\ first - first + 1 = 1
      BY ONLY <1>9, <2>1
    <3>2. Cell(first)' = WordBytes(pushed[3 + i])[1]
      BY <2>1, <3>1, <1>10, <1>11
    <3> QED
      BY <1>12, <3>2 DEF WordAt
  <2>2. list = "preopens" => first = base + (i - 1) * PreopenSize
    BY <1>1, Slots
  <2> QED
    BY <2>1, <2>2 DEF HandleAt
<1>19. ASSUME NEW a \in Int, a \notin first..(last - 1), a < ptr
       PROVE  Cell(a)' = Cell(a)
  <2>0. last = at + size
    BY <1>2, <1>8
  <2>1. CASE a \in Address
    <3>1. /\ a \notin first..(at - 1) /\ a \notin at..(at + size - 1)
          /\ a \notin ptr..(ptr + len - 1)
      BY ONLY <1>9, <1>19, <2>0
    <3> QED
      BY <2>1, <3>1, <1>10, <1>11
  <2>2. CASE a \notin Address
    BY <2>2 DEF Cell, Address
  <2> QED
    BY <2>1, <2>2
<1> QED
  BY <1>1, <1>7, <1>17, <1>18, <1>19

LEMMA FrontierIs ==
  ASSUME Inv, MemoryInv
  PROVE  /\ Base \in Nat /\ ArenaSize \in Nat /\ Base + position \in Nat
         /\ Frontier \in Nat /\ Base <= Frontier /\ Frontier <= Base + position
         /\ Base + position <= Base + ArenaSize
<1>1. Base \in Nat /\ ArenaSize \in Nat
  BY ArenaAssumption
<1>2. Base + position \in Nat /\ Base <= Base + position /\ Base + position <= Base + ArenaSize
  BY <1>1 DEF Inv, ArenaInv
<1>3. ASSUME Writing
      PROVE  import.base \in Nat /\ Base <= import.base /\ import.base <= Base + position
  <2>1. import.list \in List /\ import.base \in Nat
    BY <1>3 DEF Writing, Inv, ImportInv, ListImport
  <2>2. Base <= import.base /\ import.base + Size(import.list) <= Base + position
    BY <1>3 DEF MemoryInv, Filled
  <2>3. Size(import.list) \in Nat
    BY <2>1, SizeIsNat DEF Inv, ImportInv
  <2> QED
    BY <1>2, <2>1, <2>2, <2>3
<1> QED
  BY <1>1, <1>2, <1>3 DEF Frontier

(* Lists that are kept, in a step that writes above the frontier. *)
LEMMA ListsKept ==
  ASSUME Inv, MemoryInv, builder' = builder, preopens # Absent => pushed' = pushed,
         Frontier' \in Nat, Frontier <= Frontier',
         \A a \in Base..(Frontier - 1) : Cell(a)' = Cell(a)
  PROVE  /\ args' = args => Kept("args", args)'
         /\ env_vars' = env_vars => Kept("env", env_vars)'
         /\ preopens' = preopens => Kept("preopens", preopens)'
<1>1. builder \in Builders /\ Frontier \in Nat
  BY FrontierIs DEF Inv, ImportInv
<1>3. PICK a, e, p : a = args /\ e = env_vars /\ p = preopens
  OBVIOUS
<1>4. Kept("args", a) /\ Kept("env", e) /\ Kept("preopens", p)
  BY <1>3 DEF MemoryInv
<1>5. Kept("args", a)' /\ Kept("env", e)'
  BY <1>1, <1>4, KeptKeeps DEF List
<1>6. Kept("preopens", p)'
  <2>1. CASE p = Absent
    BY <2>1 DEF Kept
  <2>2. CASE p # Absent
    BY <1>1, <1>3, <1>4, <2>2, KeptKeeps DEF List
  <2> QED
    BY <2>1, <2>2
<1> QED
  BY <1>3, <1>5, <1>6

(* Steps that neither take memory nor write to it. *)
LEMMA MemoryStays ==
  ASSUME Inv, Inv', MemoryInv,
         UNCHANGED <<memory, position, builder, args, env_vars, preopens>>,
         preopens # Absent \/ Writing => pushed' = pushed,
         arena' \/ preopens # Absent => phase' = "built",
         Writing' => Writing /\ UNCHANGED import
  PROVE  MemoryInv'
<1>1. Frontier' \in Nat /\ Frontier <= Frontier'
  <2>1. Frontier' = Frontier \/ Frontier' = Base + position
    BY DEF Frontier
  <2> QED
    BY <2>1, FrontierIs
<1>2. \A a : Cell(a)' = Cell(a)
  BY DEF Cell
<1>3. Kept("args", args)' /\ Kept("env", env_vars)' /\ Kept("preopens", preopens)'
  BY <1>1, <1>2, ListsKept
<1>4. ASSUME Writing'
      PROVE  /\ import'.next <= Len(Strings(import.list)') + 1
             /\ Filled(import.list, import.base, import.next - 1, Base + position)'
  <2>1. Writing /\ import' = import /\ import.list \in List /\ import.next \in Nat /\ import.next > 0
        /\ builder \in Builders
    BY <1>4 DEF Writing, Inv, ImportInv, ListImport
  <2>2. PICK list, base, m, top :
          /\ list = import.list /\ base = import.base /\ m = import.next - 1
          /\ top = Base + position
    OBVIOUS
  <2>3. Filled(list, base, m, top) /\ import.next <= Len(Strings(list)) + 1
    BY <2>1, <2>2 DEF MemoryInv
  <2>4. m \in 0..Len(Strings(list)) /\ top \in Nat /\ list \in List
    <3>1. PICK n : n = Len(Strings(list))
      OBVIOUS
    <3>2. n \in Nat /\ import.next <= n + 1 /\ list \in List
      BY <2>1, <2>2, <2>3, <3>1, StringsShape
    <3>3. m \in 0..n
      BY ONLY <2>1, <2>2, <3>2
    <3> QED
      BY <2>2, <3>1, <3>2, <3>3, FrontierIs
  <2>5. Filled(list, base, m, top)'
    <3>1. /\ builder' = builder /\ pushed' = pushed /\ top <= top
          /\ \A i \in 1..m :
               \A a \in SlotStart(list, base, i)..(SlotEnd(list, base, i) - 1) : Cell(a)' = Cell(a)
          /\ \A a \in (base + Size(list))..(top - 1) : Cell(a)' = Cell(a)
      BY <2>1, <2>4, <1>2
    <3>2. builder \in Builders
      BY <2>1
    <3> QED
      BY ONLY <2>3, <2>4, <3>1, <3>2, FilledKeeps
  <2>6. Strings(list)' = Strings(list)
    BY DEF Strings, Args, Env, DirNames
  <2> QED
    BY <2>1, <2>2, <2>3, <2>5, <2>6
<1> QED
  BY <1>3, <1>4 DEF MemoryInv

(* A list whose import has come to its end is kept. *)
LEMMA ImportKept ==
  ASSUME Inv, MemoryInv, Imported, UNCHANGED <<memory, position, builder, pushed>>,
         Frontier' = Base + position, NEW list, list = import.list, NEW kept, kept = ImportedList
  PROVE  kept # Absent /\ Kept(list, kept)'
<1>1. PICK base, m, top : base = import.base /\ m = import.next - 1 /\ top = Base + position
  OBVIOUS
<1>2. builder \in Builders /\ list \in List /\ base \in Nat /\ import.next \in Nat
  BY <1>1 DEF Imported, Importing, Inv, ImportInv, ListImport
<1>3. m = Len(Strings(list)) /\ m \in Nat /\ Elements(list) \in Nat
  BY <1>1, <1>2, StringsShape DEF Imported
<1>4. Writing
  BY <1>1, <1>2, <1>3 DEF Imported, Importing, Writing
<1>5. Filled(list, base, m, top)
  BY <1>1, <1>4 DEF MemoryInv
<1>6. Filled(list, base, m, top)'
  <2>1. /\ builder' = builder /\ pushed' = pushed /\ top \in Nat /\ top <= top
        /\ m \in 0..Len(Strings(list))
    BY <1>1, <1>3, FrontierIs
  <2>2. \A a : Cell(a)' = Cell(a)
    BY DEF Cell
  <2> QED
    BY ONLY <1>2, <1>5, <2>1, <2>2, FilledKeeps
<1>7. kept = [ptr |-> base, len |-> Elements(list)]
  BY <1>1 DEF ImportedList
<1>8. kept \in [ptr : Nat, len : Nat] /\ kept # Absent /\ kept.ptr = base /\ kept.len = Elements(list)
  BY <1>2, <1>3, <1>7, ArenaAssumption
<1>9. Strings(list)' = Strings(list) /\ Elements(list)' = Elements(list)
  BY DEF Strings, Elements, Args, Env, DirNames
<1> QED
  BY <1>1, <1>3, <1>6, <1>8, <1>9 DEF Kept

LEMMA ReturnKeepsMemory ==
  ASSUME Inv, MemoryInv, ListReturns \/ PreopensReturn
  PROVE  MemoryInv'
<1>1. /\ Imported /\ ~Writing' /\ UNCHANGED <<memory, position, builder, pushed, phase>>
      /\ phase = "built"
  BY DEF ListReturns, PreopensReturn, ArenaReturns, Writing, hostVars, Imported, Importing, Runs
<1>2. Frontier' = Base + position /\ Frontier' \in Nat /\ Frontier <= Frontier'
  BY <1>1, FrontierIs DEF Frontier
<1>3. \A a : Cell(a)' = Cell(a)
  BY <1>1 DEF Cell
<1>4. /\ args' = args => Kept("args", args)'
      /\ env_vars' = env_vars => Kept("env", env_vars)'
      /\ preopens' = preopens => Kept("preopens", preopens)'
  BY <1>1, <1>2, <1>3, ListsKept
<1>5. PICK list, kept : list = import.list /\ kept = ImportedList
  OBVIOUS
<1>6. Kept(list, kept)'
  BY <1>1, <1>2, <1>5, ImportKept
<1>7. Kept("args", args)' /\ Kept("env", env_vars)' /\ Kept("preopens", preopens)'
  <2>1. CASE ListReturns /\ list = "args"
    BY <1>4, <1>5, <1>6, <2>1 DEF ListReturns
  <2>2. CASE ListReturns /\ list = "env"
    BY <1>4, <1>5, <1>6, <2>2 DEF ListReturns
  <2>3. CASE PreopensReturn
    BY <1>4, <1>5, <1>6, <2>3 DEF PreopensReturn
  <2> QED
    BY <1>5, <2>1, <2>2, <2>3 DEF ListReturns
<1> QED
  BY <1>1, <1>7 DEF MemoryInv

(* The host is given room for a list. *)
LEMMA ListKeepsMemory ==
  ASSUME Inv, MemoryInv, ListAllocated
  PROVE  MemoryInv'
<1>1. /\ arena /\ import.next = 0 /\ ArenaAlloc(Word, ListSize, memory) /\ arena' = arena
      /\ import' = [import EXCEPT !.base = Allocated(Word), !.next = 1]
      /\ UNCHANGED <<memory, builder, pushed, phase, args, env_vars, preopens>>
  BY DEF ListAllocated, Importing, ArenaAlloc, hostVars, lists
<1>2. builder \in Builders /\ import \in ListImport /\ import.list \in List
  BY <1>1 DEF Inv, ImportInv, ListImport
<1>3. ListSize \in Nat /\ Word \in Nat \ {0}
  BY <1>1, Sizes, ArenaAssumption DEF Inv
<1>4. PICK list, base, high : list = import.list /\ base = Allocated(Word) /\ high = Base + position'
  OBVIOUS
<1>5. /\ base \in Nat /\ Base \in Nat /\ Base + position \in Nat /\ Base + position <= base
      /\ base + Size(list) = high
  <2>1. ListSize = Size(list)
    BY <1>4 DEF ListSize, Size
  <2> QED
    BY <1>1, <1>3, <1>4, <2>1, AllocAbove DEF Inv
<1>6. import'.list = list /\ import'.base = base /\ import'.next = 1
  BY <1>1, <1>2, <1>4 DEF ListImport
<1>7. Writing' /\ ~Writing
  BY <1>1, <1>6 DEF Writing
<1>8. /\ Frontier = Base + position /\ Frontier' = base /\ Frontier' \in Nat /\ Frontier <= Frontier'
      /\ Base <= base
  BY <1>5, <1>6, <1>7, FrontierIs DEF Frontier
<1>9. \A a : Cell(a)' = Cell(a)
  BY <1>1 DEF Cell
<1>10. Kept("args", args)' /\ Kept("env", env_vars)' /\ Kept("preopens", preopens)'
  BY <1>1, <1>8, <1>9, ListsKept
<1>11. Size(list)' = Size(list) /\ Strings(list)' = Strings(list)
  BY <1>1 DEF Size, Elements, Element, Strings, Args, Env, DirNames
<1>12. Filled(list, base, 0, high)'
  <2>1. base + Size(list) <= high
    BY <1>5, <1>2, <1>4, StringsShape, TimesMonotone
  <2> QED
    BY <1>5, <1>8, <1>11, <2>1 DEF Filled
<1>13. phase = "built"
  BY DEF ListAllocated, Importing, Runs
<1>14. 1 <= Len(Strings(list)) + 1
  BY <1>2, <1>4, StringsShape
<1> QED
  BY <1>1, <1>4, <1>6, <1>7, <1>10, <1>11, <1>12, <1>13, <1>14 DEF MemoryInv

(* The host writes a string and its element. *)
LEMMA StringKeepsMemory ==
  ASSUME Inv, MemoryInv, StringAllocated
  PROVE  MemoryInv'
<1>1. /\ arena /\ MoreStrings /\ arena' = arena
      /\ ArenaAlloc(1, Len(NextString), WithNextString(Allocated(1)))
      /\ memory' = WithNextString(Allocated(1))
      /\ import' = [import EXCEPT !.next = @ + 1]
      /\ UNCHANGED <<builder, pushed, phase, args, env_vars, preopens>> /\ phase = "built"
  BY DEF StringAllocated, Importing, ArenaAlloc, hostVars, lists, Runs
<1>2. builder \in Builders /\ import \in ListImport /\ import.list \in List
  BY <1>1 DEF Inv, ImportInv, ListImport
<1>3. PICK list, base, i, ptr, top, high :
        /\ list = import.list /\ base = import.base /\ i = import.next
        /\ ptr = Allocated(1) /\ top = Base + position /\ high = Base + position'
  OBVIOUS
<1>4. /\ list \in List /\ base \in Nat /\ i \in 1..Len(Strings(list)) /\ Len(Strings(list)) \in Nat
      /\ IsString(Strings(list)[i])
  BY <1>1, <1>2, <1>3, StringsShape DEF MoreStrings, ListImport
<1>5. Writing /\ Frontier = base
  BY <1>1, <1>3, <1>4 DEF Writing, Frontier
<1>6. Filled(list, base, i - 1, top)
  BY <1>3, <1>5 DEF MemoryInv
<1>7. import'.list = list /\ import'.base = base /\ import'.next = i + 1
  BY <1>1, <1>2, <1>3 DEF ListImport
<1>8. Writing' /\ Frontier' = base
  BY <1>1, <1>4, <1>7 DEF Writing, Frontier
<1>9. PICK len : len = Len(Strings(list)[i])
  OBVIOUS
<1>10. /\ len \in Nat /\ ptr \in Nat /\ top \in Nat /\ high \in Nat /\ Base \in Nat
       /\ top <= ptr /\ ptr + len = high /\ high <= Base + ArenaSize /\ top <= high
  <2>1. Len(NextString) = len /\ len \in Nat /\ 1 \in Nat \ {0}
    BY <1>3, <1>4, <1>9 DEF NextString, IsString
  <2>2. /\ ptr \in Nat /\ top \in Nat /\ position' \in Nat /\ top <= ptr
        /\ ptr + Len(NextString) = high /\ high <= Base + ArenaSize /\ top <= high
        /\ Base \in Nat
    BY <1>1, <1>3, <2>1, AllocAbove DEF Inv
  <2> QED
    BY ONLY <2>1, <2>2
<1>11. PICK end : end = base + Size(list)
  OBVIOUS
<1>12. Base <= base /\ end \in Nat /\ base <= end /\ end <= top
  <2>1. Size(list) \in Nat
    BY <1>2, <1>4, SizeIsNat
  <2> QED
    BY <1>4, <1>6, <1>11, <2>1 DEF Filled
<1>13. PICK first, last : first = SlotStart(list, base, i) /\ last = SlotEnd(list, base, i)
  OBVIOUS
<1>14. /\ first \in Nat /\ last \in Nat /\ base <= first /\ last <= end
       /\ \A j \in 1..(i - 1) : SlotEnd(list, base, j) <= first
  BY <1>2, <1>4, <1>11, <1>13, Slots
<1>15. /\ memory' = [a \in Address |-> memory'[a]]
       /\ StringAt(list, base, i, high)' /\ HandleAt(list, base, i)'
       /\ \A a \in Int : a \notin first..(last - 1) /\ a < ptr => Cell(a)' = Cell(a)
  <2>1. /\ memory = [a \in Address |-> memory[a]] /\ memory' = WithNextString(ptr)
        /\ builder' = builder /\ pushed' = pushed /\ end <= ptr
    BY <1>1, <1>3, <1>10, <1>12 DEF MemoryInv
  <2> QED
    <3>1. /\ list = import.list /\ base = import.base /\ i = import.next
          /\ base + Size(list) <= ptr /\ ptr + Len(Strings(list)[i]) = high
      BY <1>3, <1>9, <1>10, <1>11, <2>1
    <3>2. /\ builder \in Builders /\ list \in List /\ base \in Nat /\ i \in 1..Len(Strings(list))
          /\ ptr \in Nat /\ high \in Nat /\ high <= Base + ArenaSize /\ Base <= base
      BY <1>2, <1>4, <1>10, <1>12
    <3> QED
      BY ONLY <1>13, <2>1, <3>1, <3>2, NextWritten
<1>16. Kept("args", args)' /\ Kept("env", env_vars)' /\ Kept("preopens", preopens)'
  <2>1. \A a \in Base..(Frontier - 1) : Cell(a)' = Cell(a)
    <3>1. ASSUME NEW a \in Base..(base - 1)
          PROVE  a \in Int /\ a \notin first..(last - 1) /\ a < ptr
      BY ONLY <1>4, <1>10, <1>12, <1>14, <3>1
    <3> QED
      BY <1>5, <1>15, <3>1
  <2> QED
    BY <1>1, <1>4, <1>5, <1>8, <2>1, ListsKept
<1>17. Filled(list, base, i - 1, high)'
  <2>1. \A j \in 1..(i - 1) : \A a \in SlotStart(list, base, j)..(SlotEnd(list, base, j) - 1) :
          Cell(a)' = Cell(a)
    <3>1. ASSUME NEW j \in 1..(i - 1),
                 NEW a \in SlotStart(list, base, j)..(SlotEnd(list, base, j) - 1)
          PROVE  a \in Int /\ a \notin first..(last - 1) /\ a < ptr
      <4>1. PICK f, l : f = SlotStart(list, base, j) /\ l = SlotEnd(list, base, j)
        OBVIOUS
      <4>2. j \in 1..Len(Strings(list))
        BY <1>4
      <4>3. f \in Nat /\ l \in Nat /\ l <= first /\ l <= end
        BY <1>2, <1>4, <1>11, <1>14, <4>1, <4>2, Slots
      <4>4. a \in f..(l - 1)
        BY <4>1
      <4> QED
        BY ONLY <1>10, <1>12, <1>14, <4>3, <4>4
    <3> QED
      BY <1>15, <3>1
  <2>2. \A a \in (base + Size(list))..(top - 1) : Cell(a)' = Cell(a)
    <3>1. ASSUME NEW a \in end..(top - 1)
          PROVE  a \in Int /\ a \notin first..(last - 1) /\ a < ptr
      BY ONLY <1>10, <1>12, <1>14, <3>1
    <3> QED
      BY <1>11, <1>15, <3>1
  <2>3. i - 1 \in 0..Len(Strings(list)) /\ builder' = builder /\ pushed' = pushed
    BY <1>1, <1>4
  <2> QED
    BY <1>2, <1>4, <1>6, <1>10, <2>1, <2>2, <2>3, FilledKeeps
<1>18. Filled(list, base, i, high)'
  <2>1. \A j \in 1..i : j \in 1..(i - 1) \/ j = i
    BY <1>4
  <2> QED
    BY <1>15, <1>17, <2>1 DEF Filled
<1>19. Strings(list)' = Strings(list)
  BY <1>1 DEF Strings, Args, Env, DirNames
<1>20. import'.next <= Len(Strings(list)) + 1 /\ import'.next - 1 = i
  BY <1>4, <1>7
<1> QED
  BY <1>1, <1>3, <1>7, <1>15, <1>16, <1>18, <1>19, <1>20 DEF MemoryInv

-----------------------------------------------------------------------------
(* Lists stay as they were written *)

LEMMA MemoryInit == Init => MemoryInv
BY DEF Init, ArenaInit, MemoryInv, Kept, Writing

LEMMA MemoryNext == Inv /\ Inv' /\ MemoryInv /\ [Next]_vars => MemoryInv'
<1> SUFFICES ASSUME Inv, Inv', MemoryInv, [Next]_vars PROVE MemoryInv'
  OBVIOUS
<1>0. arena \/ preopens # Absent => phase = "built"
  BY DEF MemoryInv
<1>1. CASE UNCHANGED <<memory, position, builder, args, env_vars, preopens, pushed, phase, arena, import>>
  BY <1>0, <1>1, MemoryStays DEF Writing
<1>2. CASE Imports
  <2>1. /\ UNCHANGED <<memory, position, builder, args, env_vars, preopens, pushed, phase>>
        /\ phase = "built" /\ ~Writing'
    BY <1>2 DEF Imports, WithArena, Runs, hostVars, lists, Writing
  <2> QED
    BY <2>1, MemoryStays
<1>3. CASE ListAllocated
  BY <1>3, ListKeepsMemory
<1>4. CASE StringAllocated
  BY <1>4, StringKeepsMemory
<1>5. CASE ListReturns \/ PreopensReturn
  BY <1>5, ReturnKeepsMemory
<1>6. CASE RandomImports \/ RandomAllocated \/ RandomReturns
  <2>1. ~arena
    BY <1>6 DEF RandomImports, RandomAllocated, RandomReturns, WithBuffer, BufferAlloc, Inv, ImportInv,
                ListImport, List
  <2>2. /\ UNCHANGED <<memory, position, builder, args, env_vars, preopens, pushed, phase, arena>>
    BY <1>6 DEF RandomImports, RandomAllocated, RandomReturns, WithBuffer, BufferAlloc, BufferReturns,
                hostVars, lists
  <2> QED
    BY <1>0, <2>1, <2>2, MemoryStays DEF Writing
<1>7. CASE Builds
  <2>1. /\ phase = "building"
        /\ UNCHANGED <<memory, position, builder, args, env_vars, preopens, arena, import>>
    BY <1>7 DEF Builds, BuildPushes, BuildEnds, arenaVars, lists
  <2>2. ~arena /\ preopens = Absent /\ ~Writing /\ ~Writing'
    BY <1>0, <2>1 DEF Writing
  <2> QED
    BY <2>1, <2>2, MemoryStays
<1>8. CASE AnswerFd
  <2>1. UNCHANGED <<builder, pushed, phase>>
    BY <1>8 DEF AnswerFd, Ends, FdMut, FdClose, FdRenumber, PathOpen, FdFails, hostVars
  <2> QED
    BY <1>1, <1>8, <2>1 DEF AnswerFd, arenaVars, lists
<1>9. CASE Allocates \/ ImportTraps \/ AnswerList \/ AnswerClock \/ AnswerPrestat
  BY <1>1, <1>9 DEF Allocates, ImportTraps, AnswerList, AnswerClock, AnswerPrestat, arenaVars,
     hostVars, lists
<1>10. ASSUME NEW c \in Call, CallStateless(c) \/ CallUnready(c) \/ CallReady(c)
       PROVE  MemoryInv'
  BY <1>1, <1>10 DEF CallStateless, CallUnready, CallReady, arenaVars, hostVars, lists
<1>11. CASE UNCHANGED vars
  BY <1>1, <1>11 DEF vars, arenaVars, hostVars, lists
<1> QED
  BY <1>2, <1>3, <1>4, <1>5, <1>6, <1>7, <1>8, <1>9, <1>10, <1>11 DEF Next, CallStep

(* What the guest is given is read back from memory. *)
ListsReadBack ==
  /\ args # Absent =>
       args.len = Len(Args) /\ \A i \in 1..Len(Args) : ArgAt(i) = Args[i]
  /\ env_vars # Absent =>
       /\ env_vars.len = Len(Env)
       /\ \A i \in 1..Len(Env) : KeyAt(i) = Env[i].key /\ ValueAt(i) = Env[i].value
  /\ preopens # Absent =>
       /\ preopens.len = Len(DirNames)
       /\ \A i \in 1..Len(DirNames) : NameAt(i + 2) = DirNames[i]

LEMMA KeptReads ==
  ASSUME builder \in Builders, NEW list \in List, NEW kept, Kept(list, kept), kept # Absent
  PROVE  /\ kept.len = Elements(list) /\ kept.ptr \in Nat
         /\ \A i \in 1..Len(Strings(list)) : StrAt(StrAddress(list, kept.ptr, i)) = Strings(list)[i]
<1>1. kept.len = Elements(list) /\ kept.ptr \in Nat
  BY DEF Kept
<1>2. ASSUME NEW i \in 1..Len(Strings(list))
      PROVE  StrAt(StrAddress(list, kept.ptr, i)) = Strings(list)[i]
  <2>1. PICK base, top : base = kept.ptr /\ top = Frontier
    OBVIOUS
  <2>2. StringAt(list, base, i, top)
    BY <2>1 DEF Kept, Filled
  <2> QED
    BY <2>1, <2>2, ReadsBack
<1> QED
  BY <1>1, <1>2

LEMMA ListsFollow ==
  ASSUME Inv, MemoryInv
  PROVE  ListsReadBack
<1>1. builder \in Builders
  BY DEF Inv, ImportInv
<1>2. /\ builder.args \in Seq(Nat) /\ builder.env \in Seq(Nat \X Nat)
      /\ builder.dirs \in Seq(Nat)
  BY <1>1, BuildersAssumption
<1>3. ASSUME args # Absent
      PROVE  args.len = Len(Args) /\ \A i \in 1..Len(Args) : ArgAt(i) = Args[i]
  <2>1. Kept("args", args) /\ "args" \in List
    BY DEF MemoryInv, List
  <2>2. Strings("args") = Args /\ Elements("args") = Len(Args)
    BY DEF Strings, Elements
  <2>3. /\ args.len = Elements("args")
        /\ \A i \in 1..Len(Strings("args")) :
             StrAt(StrAddress("args", args.ptr, i)) = Strings("args")[i]
    BY <1>1, <1>3, <2>1, KeptReads
  <2>4. \A i : StrAddress("args", args.ptr, i) = args.ptr + (i - 1) * StrSize
    BY DEF StrAddress
  <2> QED
    BY <2>2, <2>3, <2>4 DEF ArgAt
<1>4. ASSUME preopens # Absent
      PROVE  preopens.len = Len(DirNames) /\ \A i \in 1..Len(DirNames) : NameAt(i + 2) = DirNames[i]
  <2>1. Kept("preopens", preopens) /\ "preopens" \in List
    BY DEF MemoryInv, List
  <2>2. Strings("preopens") = DirNames /\ Elements("preopens") = Len(DirNames)
    BY DEF Strings, Elements
  <2>3. /\ preopens.len = Elements("preopens")
        /\ \A i \in 1..Len(Strings("preopens")) :
             StrAt(StrAddress("preopens", preopens.ptr, i)) = Strings("preopens")[i]
    BY <1>1, <1>4, <2>1, KeptReads
  <2>4. ASSUME NEW i \in 1..Len(DirNames)
        PROVE  NameAt(i + 2) = DirNames[i]
    <3>1. i \in Int /\ (i + 2) - 3 = i - 1
      BY <1>2 DEF DirNames
    <3>2. StrAddress("preopens", preopens.ptr, i) = preopens.ptr + (i - 1) * PreopenSize + Word
      BY DEF StrAddress
    <3> QED
      BY <2>2, <2>3, <3>1, <3>2 DEF NameAt
  <2> QED
    BY <2>2, <2>3, <2>4
<1>5. ASSUME env_vars # Absent
      PROVE  /\ env_vars.len = Len(Env)
             /\ \A i \in 1..Len(Env) : KeyAt(i) = Env[i].key /\ ValueAt(i) = Env[i].value
  <2>1. Kept("env", env_vars) /\ "env" \in List
    BY DEF MemoryInv, List
  <2>2. /\ Strings("env") = [i \in 1..(2 * Len(Env)) |->
             IF i % 2 = 1 THEN Env[(i + 1) \div 2].key ELSE Env[i \div 2].value]
        /\ Elements("env") = Len(Env)
    BY DEF Strings, Elements
  <2>3. Len(Env) \in Nat
    BY <1>2 DEF Env
  <2>4. Len(Strings("env")) = 2 * Len(Env)
    BY <2>2, <2>3
  <2>5. /\ env_vars.len = Elements("env") /\ env_vars.ptr \in Nat
        /\ \A i \in 1..Len(Strings("env")) :
             StrAt(StrAddress("env", env_vars.ptr, i)) = Strings("env")[i]
    BY <1>1, <1>5, <2>1, KeptReads
  <2>6. ASSUME NEW i \in 1..Len(Env)
        PROVE  KeyAt(i) = Env[i].key /\ ValueAt(i) = Env[i].value
    <3>1. PICK k, v : k = 2 * i - 1 /\ v = 2 * i
      OBVIOUS
    <3>2. i \in Int /\ 1 <= i /\ i <= Len(Env)
      BY <2>3
    <3>3. /\ k \in 1..(2 * Len(Env)) /\ v \in 1..(2 * Len(Env)) /\ k - 1 = (i - 1) * 2
          /\ k % 2 = 1 /\ (k + 1) \div 2 = i /\ v % 2 # 1 /\ v \div 2 = i /\ v - 1 = (k - 1) + 1
      BY ONLY <2>3, <3>1, <3>2
    <3>4. Strings("env")[k] = Env[i].key /\ Strings("env")[v] = Env[i].value
      BY <2>2, <3>3
    <3>5. StrAt(StrAddress("env", env_vars.ptr, k)) = Env[i].key
      BY <2>4, <2>5, <3>3, <3>4
    <3>6. StrAt(StrAddress("env", env_vars.ptr, v)) = Env[i].value
      BY <2>4, <2>5, <3>3, <3>4
    <3>7. /\ StrAddress("env", env_vars.ptr, k) = env_vars.ptr + (k - 1) * StrSize
          /\ StrAddress("env", env_vars.ptr, v) = env_vars.ptr + (v - 1) * StrSize
      BY DEF StrAddress
    <3>8. (v - 1) * StrSize = (k - 1) * StrSize + StrSize /\ (k - 1) * StrSize \in Nat
      <4>1. \A a, b \in Nat : (a + 1) * b = a * b + b /\ a * b \in Nat
        OBVIOUS
      <4>2. k - 1 \in Nat /\ StrSize \in Nat
        BY <3>2, <3>3, ArenaAssumption DEF StrSize
      <4> QED
        BY <3>3, <4>1, <4>2
    <3>9. KeyAt(i) = Env[i].key
      BY <3>3, <3>5, <3>7 DEF KeyAt
    <3>10. ValueAt(i) = StrAt(env_vars.ptr + (k - 1) * StrSize + StrSize)
      BY <3>3 DEF ValueAt
    <3>11. env_vars.ptr + (k - 1) * StrSize + StrSize = env_vars.ptr + ((k - 1) * StrSize + StrSize)
      <4>1. StrSize \in Nat
        BY ArenaAssumption DEF StrSize
      <4>2. PICK a, b, c : a = env_vars.ptr /\ b = (k - 1) * StrSize /\ c = StrSize
        OBVIOUS
      <4>3. a + b + c = a + (b + c)
        <5>1. a \in Nat /\ b \in Nat /\ c \in Nat
          BY <2>5, <3>8, <4>1, <4>2
        <5> QED
          BY ONLY <5>1
      <4> QED
        BY <4>2, <4>3
    <3> QED
      BY <3>6, <3>7, <3>8, <3>9, <3>10, <3>11
  <2> QED
    BY <2>2, <2>5, <2>6
<1> QED
  BY <1>3, <1>4, <1>5 DEF ListsReadBack

-----------------------------------------------------------------------------
(* The table of the host and the descriptors                               *)

(* Until there are descriptors the table is as build left it. *)
TableInv ==
  /\ map = [k \in Key |-> map[k]]
  /\ pushed \in Seq(Key) /\ Len(pushed) <= NumEntries
  /\ phase = "built" => Len(pushed) = NumEntries
  /\ \A i, j \in 1..Len(pushed) : pushed[i] = pushed[j] => i = j
  /\ preopens = Absent => \A i \in 1..Len(pushed) : map[pushed[i]] = Entry(i)

(* Descriptors the guest left alone are those of build, and no two share a *)
(* key. *)
FdsInv ==
  preopens # Absent =>
    /\ slots \in [Fd -> Key \cup {Absent}]
    /\ untouched \subseteq FirstFds /\ FirstFds \subseteq Fd
    /\ \A fd \in Fd : slots[fd] # Absent => map[slots[fd]] # None
    /\ \A f, g \in Fd : slots[f] # Absent /\ slots[f] = slots[g] => f = g
    /\ \A fd \in untouched : slots[fd] # Absent /\ map[slots[fd]] = Entry(fd + 1)
    /\ 2 \in untouched => stderr_stream = slots[2]

LEMMA EntriesAreThere ==
  ASSUME NEW i \in Nat \ {0}
  PROVE  Entry(i) # None /\ <<"file", 0>> # None
<1> DEFINE kinds == {"stdin", "stdout", "stderr", "dir", "file"}
<1>1. CASE i <= 3
  <2>1. Stdio[i] \in kinds
    BY <1>1 DEF Stdio
  <2> QED
    BY <1>1, <2>1, EntryAssumption DEF Entry
<1>2. CASE ~(i <= 3)
  <2>1. i - 3 \in Nat
    BY <1>2
  <2> QED
    BY <1>2, <2>1, EntryAssumption DEF Entry
<1> QED
  BY <1>1, <1>2, EntryAssumption

LEMMA TableInit0 == Init => TableInv
<1> SUFFICES ASSUME Init PROVE TableInv
  OBVIOUS
<1>1. pushed = <<>> /\ map = [k \in Key |-> None] /\ phase = "building" /\ builder \in Builders
  BY DEF Init, HostInit, TableInit
<1>2. Len(DirNames) \in Nat
  BY <1>1, BuildersAssumption DEF DirNames
<1> QED
  BY <1>1, <1>2 DEF TableInv, NumEntries

LEMMA BuildKeepsTable ==
  ASSUME Inv, TableInv, phase = "building" => preopens = Absent, Builds
  PROVE  TableInv'
<1>1. CASE BuildPushes
  <2>1. PICK key \in Key : Push(EntryPushed, key) /\ pushed' = Append(pushed, key)
    BY <1>1 DEF BuildPushes
  <2>2. /\ phase' = "building" /\ preopens = Absent /\ preopens' = Absent
        /\ Len(pushed) < NumEntries /\ builder' = builder
    BY <1>1 DEF BuildPushes, Builds, lists
  <2>3. PICK l, e : l \in Nat /\ l = Len(pushed) /\ e = Entry(l + 1)
    BY DEF TableInv
  <2>4. map[key] = None /\ map' = [map EXCEPT ![key] = e]
    BY <2>1, <2>3 DEF Push, IsNextFree, EntryPushed
  <2>5. /\ map = [k \in Key |-> map[k]] /\ pushed \in Seq(Key)
        /\ \A i \in 1..l : pushed[i] \in Key /\ map[pushed[i]] = Entry(i)
        /\ \A i, j \in 1..l : pushed[i] = pushed[j] => i = j
    BY <2>2, <2>3 DEF TableInv
  <2>6. \A i \in 1..l : pushed[i] # key
    BY <2>4, <2>5, EntriesAreThere
  <2>7. /\ pushed' \in Seq(Key) /\ Len(pushed') = l + 1
        /\ \A i \in 1..l : pushed'[i] = pushed[i]
        /\ pushed'[l + 1] = key
    BY <2>1, <2>3, <2>5
  <2>8. /\ map' = [k \in Key |-> map'[k]]
        /\ map'[key] = e /\ \A k \in Key : k # key => map'[k] = map[k]
    BY <2>4, <2>5
  <2>9. \A i \in 1..(l + 1) : i \in 1..l \/ i = l + 1
    BY ONLY <2>3
  <2>10. \A i \in 1..(l + 1) : map'[pushed'[i]] = Entry(i)'
    <3>1. \A i : Entry(i)' = Entry(i)
      BY DEF Entry
    <3> QED
      BY <2>3, <2>5, <2>6, <2>7, <2>8, <2>9, <3>1
  <2>11. \A i, j \in 1..(l + 1) : pushed'[i] = pushed'[j] => i = j
    BY <2>5, <2>6, <2>7, <2>9
  <2>12. NumEntries' = NumEntries /\ l + 1 <= NumEntries
    <3>1. Len(DirNames) \in Nat
      BY BuildersAssumption DEF DirNames, Inv, ImportInv
    <3> QED
      BY <2>2, <2>3, <3>1 DEF NumEntries, DirNames
  <2> QED
    BY <2>2, <2>7, <2>8, <2>10, <2>11, <2>12 DEF TableInv
<1>2. CASE BuildEnds
  <2>1. /\ UNCHANGED <<map, pushed, builder, preopens>>
        /\ phase' = "failed" \/ Len(pushed) = NumEntries
    BY <1>2 DEF BuildEnds, Builds, lists
  <2>2. NumEntries' = NumEntries
    BY <2>1 DEF NumEntries, DirNames
  <2>3. \A i : Entry(i)' = Entry(i)
    BY DEF Entry
  <2> QED
    BY <2>1, <2>2, <2>3 DEF TableInv
<1> QED
  BY <1>1, <1>2 DEF Builds

(* Once there are descriptors only the type of the table matters. *)
LEMMA TableTaken ==
  ASSUME TableInv, UNCHANGED <<pushed, builder>>, phase' = phase,
         map' = map \/ (preopens' # Absent /\ map' = [k \in Key |-> map'[k]]),
         preopens' = Absent => preopens = Absent
  PROVE  TableInv'
<1>1. NumEntries' = NumEntries
  BY DEF NumEntries, DirNames
<1>2. \A i : Entry(i)' = Entry(i)
  BY DEF Entry
<1> QED
  BY <1>1, <1>2 DEF TableInv

(* The handles of stdio and, out of the list, those of the preopens. *)
LEMMA HandlesRead ==
  ASSUME Inv, MemoryInv, TableInv, Imported, import.list = "preopens"
  PROVE  /\ Elements("preopens") = Len(DirNames) /\ Len(DirNames) \in Nat
         /\ Len(pushed) = 3 + Len(DirNames)
         /\ \A fd \in FirstFds : HandleOf(fd) = pushed[fd + 1]
<1>1. builder \in Builders /\ phase = "built" /\ import \in ListImport
  BY DEF Inv, ImportInv, Imported, Importing, Runs
<1>2. /\ Elements("preopens") = Len(DirNames) /\ Len(DirNames) \in Nat
      /\ Strings("preopens") = DirNames
  BY <1>1, BuildersAssumption DEF DirNames, Elements, Strings
<1>3. Len(pushed) = 3 + Len(DirNames)
  BY <1>1 DEF TableInv, NumEntries
<1>4. PICK l, base : l = Len(DirNames) /\ base = import.base
  OBVIOUS
<1>5. \A i \in 1..l : WordAt(base + (i - 1) * PreopenSize) = pushed[3 + i]
  <2>1. import.next = l + 1 /\ import.next - 1 = l /\ Writing
    BY <1>2, <1>4 DEF Imported, Importing, Writing
  <2>2. Filled("preopens", base, l, Base + position)
    BY <1>4, <2>1 DEF MemoryInv
  <2> QED
    BY <2>2 DEF Filled, HandleAt
<1>6. ASSUME NEW fd \in FirstFds
      PROVE  HandleOf(fd) = pushed[fd + 1]
  <2>1. fd \in 0..(2 + l)
    BY <1>2, <1>4 DEF FirstFds
  <2>2. CASE fd <= 2
    BY <2>2 DEF HandleOf
  <2>3. CASE ~(fd <= 2)
    <3>1. fd - 2 \in 1..l /\ (fd - 2) - 1 = fd - 3 /\ 3 + (fd - 2) = fd + 1
      BY <1>2, <1>4, <2>1, <2>3
    <3>2. HandleOf(fd) = WordAt(base + (fd - 3) * PreopenSize)
      BY <1>4, <2>3 DEF HandleOf
    <3>3. WordAt(base + ((fd - 2) - 1) * PreopenSize) = pushed[3 + (fd - 2)]
      BY <1>5, <3>1
    <3> QED
      BY <3>1, <3>2, <3>3
  <2> QED
    BY <2>2, <2>3
<1> QED
  BY <1>2, <1>3, <1>6

LEMMA PreopensMadeFds ==
  ASSUME Inv, MemoryInv, TableInv, PreopensReturn, preopens' # Absent, preopens = Absent
  PROVE  FdsInv'
<1>1. /\ Imported /\ import.list = "preopens" /\ ~(3 + Elements("preopens") > MAX_DESCRIPTORS)
      /\ slots' = [fd \in Fd |-> IF fd \in FirstFds THEN HandleOf(fd) ELSE Absent]
      /\ stderr_stream' = pushed[3] /\ untouched' = FirstFds
      /\ UNCHANGED <<builder, pushed, map>>
  BY DEF PreopensReturn, hostVars
<1>2. /\ Elements("preopens") = Len(DirNames) /\ Len(DirNames) \in Nat
      /\ Len(pushed) = 3 + Len(DirNames)
      /\ \A fd \in FirstFds : HandleOf(fd) = pushed[fd + 1]
  BY <1>1, HandlesRead
<1>3. PICK l \in Nat : l = Len(DirNames)
  BY <1>2
<1>4. /\ FirstFds = 0..(2 + l) /\ FirstFds' = FirstFds /\ FirstFds \subseteq Fd
      /\ Len(pushed) = 3 + l
  <2>1. MAX_DESCRIPTORS \in Nat /\ 3 + l <= MAX_DESCRIPTORS
    BY <1>1, <1>2, <1>3, ArgumentsAssumption
  <2>2. FirstFds = 0..(2 + l) /\ FirstFds' = FirstFds
    BY <1>1, <1>2, <1>3 DEF FirstFds, Elements, DirNames
  <2> QED
    BY <1>2, <1>3, <2>1, <2>2 DEF Fd
<1>5. \A fd \in FirstFds : fd \in Nat /\ fd + 1 \in 1..(3 + l) /\ fd + 1 \in Nat \ {0}
  BY <1>3, <1>4
<1>6. /\ pushed \in Seq(Key) /\ \A i \in 1..(3 + l) : map[pushed[i]] = Entry(i) /\ pushed[i] \in Key
      /\ \A i, j \in 1..(3 + l) : pushed[i] = pushed[j] => i = j
  <2>1. PICK m : m = 3 + l
    OBVIOUS
  <2>2. /\ pushed \in Seq(Key) /\ Len(pushed) = m
        /\ \A i \in 1..m : map[pushed[i]] = Entry(i)
        /\ \A i, j \in 1..m : pushed[i] = pushed[j] => i = j
    BY <1>4, <2>1 DEF TableInv
  <2>3. \A i \in 1..m : pushed[i] \in Key
    BY ONLY <2>2
  <2> QED
    BY ONLY <2>1, <2>2, <2>3
<1>7. Absent \notin Key
  BY ArgumentsAssumption
<1>8. \A fd \in FirstFds : /\ slots'[fd] = pushed[fd + 1] /\ slots'[fd] \in Key
                            /\ map[slots'[fd]] = Entry(fd + 1) /\ Entry(fd + 1) # None
  BY <1>1, <1>2, <1>4, <1>5, <1>6, EntriesAreThere
<1>9. \A fd \in Fd : fd \notin FirstFds => slots'[fd] = Absent
  BY <1>1
<1>10. slots' \in [Fd -> Key \cup {Absent}]
  BY <1>1, <1>2, <1>5, <1>6
<1>11. ASSUME NEW f \in FirstFds, NEW g \in FirstFds, slots'[f] = slots'[g]
       PROVE  f = g
  <2>1. f + 1 = g + 1
    BY <1>5, <1>6, <1>8, <1>11
  <2> QED
    BY <1>5, <2>1
<1>12. 2 \in FirstFds /\ stderr_stream' = slots'[2]
  BY <1>1, <1>3, <1>4, <1>8
<1>13. \A i : Entry(i)' = Entry(i)
  BY DEF Entry
<1>14. \A fd \in Fd : slots'[fd] # Absent => fd \in FirstFds /\ map'[slots'[fd]] # None
  BY <1>1, <1>8, <1>9
<1>15. \A fd \in untouched' : slots'[fd] # Absent /\ map'[slots'[fd]] = Entry(fd + 1)'
  BY <1>1, <1>7, <1>8, <1>13
<1>16. \A f, g \in Fd : slots'[f] # Absent /\ slots'[f] = slots'[g] => f = g
  BY <1>11, <1>14
<1>17. untouched' \subseteq FirstFds' /\ FirstFds' \subseteq Fd
  BY <1>1, <1>4
<1> QED
  BY <1>10, <1>12, <1>14, <1>15, <1>16, <1>17 DEF FdsInv

LEMMA FdCalls ==
  ASSUME NEW c \in Call
  PROVE  /\ c.fn = "fd_close" => c.x \in Fd
         /\ c.fn = "fd_renumber" => c.x \in Fd /\ c.y \in Fd
<1>0. GuestFd \subseteq Fd
  BY ArgumentsAssumption DEF Fd
<1>1. ASSUME NEW fns, NEW xs, NEW ys, c \in Named(fns, xs, ys)
      PROVE  c.fn \in fns /\ c.x \in xs /\ c.y \in ys
  BY <1>1 DEF Named
<1>2. ASSUME c \in ClockCall
      PROVE  c.fn \notin {"fd_close", "fd_renumber"}
  <2>1. PICK id \in Clockid : c \in Named({"clock_res_get", "clock_time_get"}, {id}, Reading[id])
    BY <1>2 DEF ClockCall
  <2> QED
    BY <1>1, <2>1
<1>3. \/ c \in Named({"args_get", "args_sizes_get", "environ_get", "environ_sizes_get",
                     "sched_yield"}, {0}, {0})
      \/ c \in ClockCall
      \/ c \in Named({"random_get"}, Length, {0})
      \/ c \in Named({"proc_exit"}, {0, 2}, {0})
      \/ c \in Named({"fd_prestat_get", "fd_close"}, GuestFd, {0})
      \/ c \in Named({"fd_prestat_dir_name"}, GuestFd, Length)
      \/ c \in Named({"path_open"}, {0}, {0})
      \/ c \in Named({"fd_renumber"}, GuestFd, GuestFd)
  BY DEF Call
<1>4. CASE c \in Named({"fd_prestat_get", "fd_close"}, GuestFd, {0})
  <2>1. c.fn \in {"fd_prestat_get", "fd_close"} /\ c.x \in GuestFd
    BY <1>1, <1>4
  <2> QED
    BY <1>0, <2>1
<1>5. CASE c \in Named({"fd_renumber"}, GuestFd, GuestFd)
  <2>1. c.fn = "fd_renumber" /\ c.x \in GuestFd /\ c.y \in GuestFd
    BY <1>1, <1>5
  <2> QED
    BY <1>0, <2>1
<1>6. CASE c.fn \notin {"fd_close", "fd_renumber"}
  BY <1>6
<1>7. c.fn \notin {"fd_close", "fd_renumber"}
        \/ c \in Named({"fd_prestat_get", "fd_close"}, GuestFd, {0})
        \/ c \in Named({"fd_renumber"}, GuestFd, GuestFd)
  <2>1. c \in Named({"args_get", "args_sizes_get", "environ_get", "environ_sizes_get",
                     "sched_yield"}, {0}, {0}) => c.fn \notin {"fd_close", "fd_renumber"}
    BY DEF Named
  <2>2. /\ c \in Named({"random_get"}, Length, {0}) => c.fn = "random_get"
        /\ c \in Named({"proc_exit"}, {0, 2}, {0}) => c.fn = "proc_exit"
        /\ c \in Named({"fd_prestat_dir_name"}, GuestFd, Length) => c.fn = "fd_prestat_dir_name"
        /\ c \in Named({"path_open"}, {0}, {0}) => c.fn = "path_open"
    BY DEF Named
  <2> QED
    BY <1>2, <1>3, <2>1, <2>2
<1> QED
  BY <1>4, <1>5, <1>6, <1>7

(* A call that fails. *)
LEMMA FdsStay ==
  ASSUME FdsInv, UNCHANGED <<preopens, slots, untouched, map, stderr_stream, builder>>
  PROVE  FdsInv'
<1>1. FirstFds' = FirstFds
  BY DEF FirstFds, Elements, DirNames
<1>2. \A i : Entry(i)' = Entry(i)
  BY DEF Entry
<1> QED
  BY <1>1, <1>2 DEF FdsInv

LEMMA CloseKeepsFds ==
  ASSUME FdsInv, TableInv, preopens # Absent, NEW fd \in Fd, FdClose(fd),
         UNCHANGED <<preopens, stderr_stream>>
  PROVE  FdsInv' /\ map' = [k \in Key |-> map'[k]] /\ UNCHANGED <<pushed, builder, phase>>
<1>1. CASE ~IsOpen(fd) /\ FdFails("BADF")
  BY <1>1, FdsStay DEF FdFails, hostVars, TableInv
<1>2. CASE /\ IsOpen(fd) /\ Delete(slots[fd]) /\ slots' = [slots EXCEPT ![fd] = Absent]
           /\ untouched' = untouched \ {fd} /\ UNCHANGED <<builder, pushed, phase>>
  <2>1. /\ slots \in [Fd -> Key \cup {Absent}] /\ map = [k \in Key |-> map[k]]
        /\ untouched \subseteq FirstFds /\ FirstFds \subseteq Fd
    BY DEF FdsInv, TableInv
  <2>2. map' = [map EXCEPT ![slots[fd]] = None]
    BY <1>2 DEF Delete
  <2>3. \A f \in Fd : slots'[f] = IF f = fd THEN Absent ELSE slots[f]
    BY <1>2, <2>1
  <2>4. slots' \in [Fd -> Key \cup {Absent}] /\ map' = [k \in Key |-> map'[k]]
    BY <1>2, <2>1, <2>2
  <2>5. ASSUME NEW f \in Fd, f # fd, slots[f] # Absent
        PROVE  map'[slots[f]] = map[slots[f]]
    <3>1. slots[f] # slots[fd] /\ slots[f] \in Key
      BY <2>1, <2>5 DEF FdsInv
    <3> QED
      BY <2>1, <2>2, <3>1
  <2>6. FirstFds' = FirstFds /\ \A i : Entry(i)' = Entry(i)
    BY <1>2 DEF FirstFds, Elements, DirNames, Entry
  <2> QED
    BY <1>2, <2>1, <2>3, <2>4, <2>5, <2>6 DEF FdsInv
<1> QED
  BY <1>1, <1>2 DEF FdClose

LEMMA RenumberKeepsFds ==
  ASSUME FdsInv, TableInv, preopens # Absent, NEW from \in Fd, NEW to \in Fd, FdRenumber(from, to),
         UNCHANGED <<preopens, stderr_stream>>
  PROVE  FdsInv' /\ map' = [k \in Key |-> map'[k]] /\ UNCHANGED <<pushed, builder, phase>>
<1>1. CASE \E errno : FdFails(errno)
  BY <1>1, FdsStay DEF FdFails, hostVars, TableInv
<1>2. CASE /\ IsOpen(from) /\ from # to
           /\ IF IsOpen(to) THEN Delete(slots[to]) ELSE UNCHANGED <<map, next_key>>
           /\ slots' = [slots EXCEPT ![from] = Absent, ![to] = slots[from]]
           /\ untouched' = untouched \ {from, to} /\ UNCHANGED <<builder, pushed, phase>>
  <2>1. /\ slots \in [Fd -> Key \cup {Absent}] /\ map = [k \in Key |-> map[k]]
        /\ untouched \subseteq FirstFds /\ FirstFds \subseteq Fd
    BY DEF FdsInv, TableInv
  <2>2. /\ slots[to] # Absent => map' = [map EXCEPT ![slots[to]] = None]
        /\ slots[to] = Absent => map' = map
    BY <1>2 DEF Delete, IsOpen
  <2>3. \A f \in Fd : slots'[f] = IF f = to THEN slots[from] ELSE IF f = from THEN Absent ELSE slots[f]
    BY <1>2, <2>1
  <2>4. slots' \in [Fd -> Key \cup {Absent}] /\ map' = [k \in Key |-> map'[k]]
    BY <1>2, <2>1, <2>2
  <2>5. ASSUME NEW f \in Fd, f # to, slots[f] # Absent
        PROVE  map'[slots[f]] = map[slots[f]]
    <3>1. CASE slots[to] # Absent
      <4>1. slots[f] # slots[to] /\ slots[f] \in Key
        BY <2>1, <2>5, <3>1 DEF FdsInv
      <4> QED
        BY <2>1, <2>2, <3>1, <4>1
    <3> QED
      BY <2>2, <3>1
  <2>6. FirstFds' = FirstFds /\ \A i : Entry(i)' = Entry(i)
    BY <1>2 DEF FirstFds, Elements, DirNames, Entry
  <2>7. \A f \in Fd : slots'[f] # Absent => map'[slots'[f]] # None
    BY <1>2, <2>3, <2>5 DEF FdsInv
  <2>8. ASSUME NEW f \in Fd, NEW g \in Fd, slots'[f] # Absent, slots'[f] = slots'[g]
        PROVE  f = g
    BY <1>2, <2>3, <2>8 DEF FdsInv
  <2>9. \A fd \in untouched' :
          fd \in untouched /\ fd \in Fd /\ fd # from /\ fd # to /\ slots'[fd] = slots[fd]
    BY <1>2, <2>1, <2>3
  <2>10. \A fd \in untouched' : slots'[fd] # Absent /\ map'[slots'[fd]] = Entry(fd + 1)'
    BY <2>5, <2>6, <2>9 DEF FdsInv
  <2>11. 2 \in untouched' => stderr_stream' = slots'[2]
    BY <2>9 DEF FdsInv
  <2> QED
    BY <1>2, <2>1, <2>4, <2>6, <2>7, <2>8, <2>9, <2>10, <2>11 DEF FdsInv
<1> QED
  BY <1>1, <1>2 DEF FdRenumber

LEMMA OpenKeepsFds ==
  ASSUME FdsInv, TableInv, preopens # Absent, PathOpen, UNCHANGED <<preopens, stderr_stream>>
  PROVE  FdsInv' /\ map' = [k \in Key |-> map'[k]] /\ UNCHANGED <<pushed, builder, phase>>
<1>1. CASE UNCHANGED <<map, builder, pushed, phase, slots, untouched>>
  BY <1>1, FdsStay DEF TableInv
<1>2. ASSUME NEW fd \in Fd, NEW key \in Key, ~IsOpen(fd), Push(<<"file", 0>>, key),
             slots' = [slots EXCEPT ![fd] = key], UNCHANGED <<builder, pushed, phase, untouched>>
      PROVE  FdsInv' /\ map' = [k \in Key |-> map'[k]] /\ UNCHANGED <<pushed, builder, phase>>
  <2>1. /\ slots \in [Fd -> Key \cup {Absent}] /\ map = [k \in Key |-> map[k]]
        /\ untouched \subseteq FirstFds /\ FirstFds \subseteq Fd
    BY DEF FdsInv, TableInv
  <2>2. PICK file : file = <<"file", 0>>
    OBVIOUS
  <2>3. file # None
    BY <2>2, EntriesAreThere
  <2>4. map[key] = None /\ map' = [map EXCEPT ![key] = file]
    BY <1>2, <2>2 DEF Push, IsNextFree
  <2>5. \A f \in Fd : slots'[f] = IF f = fd THEN key ELSE slots[f]
    BY <1>2, <2>1
  <2>6. slots[fd] = Absent
    BY <1>2 DEF IsOpen
  <2>7. slots' \in [Fd -> Key \cup {Absent}] /\ map' = [k \in Key |-> map'[k]]
    BY <1>2, <2>1, <2>4
  <2>8. ASSUME NEW f \in Fd, slots[f] # Absent
        PROVE  slots[f] # key /\ map'[slots[f]] = map[slots[f]]
    <3>1. slots[f] \in Key /\ map[slots[f]] # None
      BY <2>1, <2>8 DEF FdsInv
    <3> QED
      BY <2>1, <2>4, <3>1
  <2>9. map'[key] = file
    BY <1>2, <2>1, <2>4
  <2>10. FirstFds' = FirstFds /\ \A i : Entry(i)' = Entry(i)
    BY <1>2 DEF FirstFds, Elements, DirNames, Entry
  <2>11. \A f \in Fd : slots'[f] # Absent => map'[slots'[f]] # None
    BY <2>3, <2>5, <2>8, <2>9 DEF FdsInv
  <2>12. ASSUME NEW f \in Fd, NEW g \in Fd, slots'[f] # Absent, slots'[f] = slots'[g]
         PROVE  f = g
    <3>1. CASE f = fd
      BY <2>5, <2>8, <2>12, <3>1
    <3>2. CASE g = fd
      BY <2>5, <2>8, <2>12, <3>2
    <3> QED
      BY <2>5, <2>12, <3>1, <3>2 DEF FdsInv
  <2>13. \A f \in untouched' : f \in untouched /\ f \in Fd /\ f # fd /\ slots'[f] = slots[f]
    BY <1>2, <2>1, <2>5, <2>6 DEF FdsInv
  <2>14. \A f \in untouched' : slots'[f] # Absent /\ map'[slots'[f]] = Entry(f + 1)'
    BY <2>8, <2>10, <2>13 DEF FdsInv
  <2>15. 2 \in untouched' => stderr_stream' = slots'[2]
    BY <2>13 DEF FdsInv
  <2> QED
    BY <1>2, <2>1, <2>7, <2>10, <2>11, <2>12, <2>13, <2>14, <2>15 DEF FdsInv
<1> QED
  BY <1>1, <1>2 DEF PathOpen, FdFails, hostVars

LEMMA AnswerKeepsFds ==
  ASSUME FdsInv, TableInv, call \in Call \cup {Absent}, AnswerFd
  PROVE  FdsInv' /\ TableInv'
<1>1. /\ call \in Call /\ call.fn \in FdMut /\ preopens # Absent
      /\ UNCHANGED <<preopens, stderr_stream>>
  BY DEF AnswerFd, Ends, Uses, Cached, lists, FdMut
<1>2. /\ call.fn = "fd_close" => FdClose(call.x)
      /\ call.fn = "fd_renumber" => FdRenumber(call.x, call.y)
      /\ call.fn = "path_open" => PathOpen
  BY DEF AnswerFd
<1>3. FdsInv' /\ map' = [k \in Key |-> map'[k]] /\ UNCHANGED <<pushed, builder, phase>>
  <2>1. CASE call.fn = "fd_close"
    BY <1>1, <1>2, <2>1, FdCalls, CloseKeepsFds
  <2>2. CASE call.fn = "fd_renumber"
    BY <1>1, <1>2, <2>2, FdCalls, RenumberKeepsFds
  <2>3. CASE call.fn = "path_open"
    BY <1>1, <1>2, <2>3, OpenKeepsFds
  <2> QED
    BY <1>1, <2>1, <2>2, <2>3 DEF FdMut
<1> QED
  BY <1>1, <1>3, TableTaken

(* A list that is being imported is not kept yet. *)
OneImport == arena => ~Cached(import.list)

LEMMA OneImportInit == Init => OneImport
BY DEF Init, ArenaInit, OneImport

LEMMA OneImportNext == Inv /\ OneImport /\ [Next]_vars => OneImport'
<1> SUFFICES ASSUME Inv, OneImport, [Next]_vars PROVE OneImport'
  OBVIOUS
<1>1. CASE UNCHANGED <<arena, args, env_vars, preopens, import>>
  BY <1>1 DEF OneImport, Cached
<1>2. CASE ~arena'
  BY <1>2 DEF OneImport
<1>3. CASE Imports
  <2>1. ~Cached(Uses(call)) /\ import'.list = Uses(call) /\ UNCHANGED <<args, env_vars, preopens>>
    BY <1>3 DEF Imports, lists
  <2> QED
    BY <2>1 DEF OneImport, Cached
<1>4. CASE ListAllocated \/ StringAllocated
  <2>1. arena /\ UNCHANGED <<args, env_vars, preopens>>
    BY <1>4 DEF ListAllocated, StringAllocated, Importing, lists
  <2>2. import'.list = import.list
    BY <1>4, <2>1 DEF ListAllocated, StringAllocated, Inv, ImportInv, ListImport
  <2> QED
    BY <2>1, <2>2 DEF OneImport, Cached
<1>5. CASE ListReturns \/ PreopensReturn
  BY <1>2, <1>5 DEF ListReturns, PreopensReturn, ArenaReturns
<1>6. CASE RandomImports \/ RandomAllocated
  BY <1>2, <1>6 DEF RandomImports, RandomAllocated, WithBuffer, BufferAlloc
<1>7. CASE RandomReturns
  <2>1. ~arena
    BY <1>7 DEF RandomReturns, Inv, ImportInv, ListImport, List
  <2> QED
    BY <1>2, <1>7, <2>1 DEF RandomReturns, BufferReturns
<1>8. CASE Builds \/ Allocates \/ ImportTraps \/ AnswerList \/ AnswerClock \/ AnswerPrestat \/ AnswerFd
  BY <1>1, <1>8 DEF Builds, Allocates, ImportTraps, AnswerList, AnswerClock, AnswerPrestat, AnswerFd,
     arenaVars, lists
<1>9. ASSUME NEW c \in Call, CallStateless(c) \/ CallUnready(c) \/ CallReady(c)
      PROVE  OneImport'
  BY <1>1, <1>9 DEF CallStateless, CallUnready, CallReady, arenaVars, lists
<1>10. CASE UNCHANGED vars
  BY <1>1, <1>10 DEF vars, arenaVars, lists
<1> QED
  BY <1>3, <1>4, <1>5, <1>6, <1>7, <1>8, <1>9, <1>10 DEF Next, CallStep

LEMMA FdsNext ==
  Inv /\ ModeInv /\ MemoryInv /\ OneImport /\ TableInv /\ FdsInv /\ [Next]_vars => TableInv' /\ FdsInv'
<1> SUFFICES ASSUME Inv, ModeInv, MemoryInv, OneImport, TableInv, FdsInv, [Next]_vars
             PROVE  TableInv' /\ FdsInv'
  OBVIOUS
<1>1. CASE UNCHANGED <<map, pushed, phase, builder, preopens, slots, untouched, stderr_stream>>
  BY <1>1, FdsStay, TableTaken
<1>2. CASE Builds
  <2>1. phase = "building" /\ preopens = Absent /\ preopens' = Absent
    BY <1>2 DEF Builds, BuildPushes, BuildEnds, MemoryInv, lists
  <2> QED
    BY <1>2, <2>1, BuildKeepsTable DEF FdsInv
<1>3. CASE PreopensReturn
  <2>1. UNCHANGED <<map, pushed, phase, builder>> /\ call # Absent
    BY <1>3 DEF PreopensReturn, hostVars, Imported, Importing, ModeInv, ImportUsed
  <2>2. CASE preopens' = preopens /\ UNCHANGED fds
    BY <1>1, <2>1, <2>2 DEF fds
  <2>3. CASE preopens' = ImportedList
    <3>1. preopens' # Absent
      <4>1. PICK list, kept : list = import.list /\ kept = ImportedList
        OBVIOUS
      <4>2. import \in ListImport /\ Elements("preopens") \in Nat /\ import.list = "preopens"
        BY <1>3, StringsShape DEF PreopensReturn, Imported, Importing, Inv, ImportInv, List
      <4>3. kept \in [ptr : Nat, len : Nat]
        BY <4>1, <4>2 DEF ImportedList, ListImport
      <4> QED
        BY <2>3, <4>1, <4>3, ArenaAssumption
    <3>2. TableInv'
      BY <2>1, <3>1, TableTaken
    <3>3. preopens = Absent
      BY <1>3 DEF PreopensReturn, Imported, Importing, OneImport, Cached
    <3> QED
      BY <1>3, <3>1, <3>2, <3>3, PreopensMadeFds
  <2> QED
    BY <1>3, <2>2, <2>3 DEF PreopensReturn
<1>4. CASE AnswerFd
  BY <1>4, AnswerKeepsFds DEF ModeInv
<1>5. CASE Imports \/ ListAllocated \/ StringAllocated \/ ImportTraps \/ ListReturns
  BY <1>1, <1>5 DEF Imports, ListAllocated, StringAllocated, ImportTraps, ListReturns,
     hostVars, lists, fds
<1>6. CASE RandomImports \/ RandomAllocated \/ RandomReturns
  BY <1>1, <1>6 DEF RandomImports, RandomAllocated, RandomReturns, hostVars, lists, fds
<1>7. CASE Allocates \/ AnswerList \/ AnswerClock \/ AnswerPrestat
  BY <1>1, <1>7 DEF Allocates, AnswerList, AnswerClock, AnswerPrestat, hostVars, lists, fds
<1>8. ASSUME NEW c \in Call, CallStateless(c) \/ CallUnready(c) \/ CallReady(c)
      PROVE  TableInv' /\ FdsInv'
  BY <1>1, <1>8 DEF CallStateless, CallUnready, CallReady, hostVars, lists, fds
<1>9. CASE UNCHANGED vars
  BY <1>1, <1>9 DEF vars, hostVars, lists, fds
<1> QED
  BY <1>2, <1>3, <1>4, <1>5, <1>6, <1>7, <1>8, <1>9 DEF Next, CallStep

(* Whatever is imported into the arena after them, and whichever call      *)
(* comes first: the strings of a list that is kept are read from memory as *)
(* the embedder gave them, and the list has as many.                       *)
THEOREM ListsAreReadBack == Spec => []ListsReadBack
<1>1. Inv /\ MemoryInv => ListsReadBack
  BY ListsFollow
<1> QED
  BY <1>1, InvInit, InvNext, MemoryInit, MemoryNext, PTL DEF Spec

LEMMA StartsFollow ==
  ASSUME Inv, FdsInv, ListsReadBack
  PROVE  StartupInPlace
<1> SUFFICES ASSUME preopens # Absent PROVE StartupInPlace
  BY DEF StartupInPlace
<1>1. PICK l : l = Len(DirNames)
  OBVIOUS
<1>2. l \in Nat /\ DirNames = [i \in 1..l |-> DirNames[i]]
  <2>1. builder.dirs \in Seq(Nat)
    BY BuildersAssumption DEF Inv, ImportInv
  <2> QED
    BY <1>1, <2>1 DEF DirNames
<1>3. preopens.len = l /\ \A i \in 1..l : NameAt(i + 2) = DirNames[i]
  BY <1>1 DEF ListsReadBack
<1>4. FirstFds = 0..(2 + l)
  BY <1>1 DEF FirstFds, Elements
<1>5. \A fd \in Fd : fd \in Nat
  BY ArgumentsAssumption DEF Fd
<1>6. \A fd \in Nat : IsPreopen(fd) <=> fd \in 3..(2 + l)
  BY <1>2, <1>3 DEF IsPreopen
<1>7. ASSUME NEW fd \in Fd
      PROVE  PrestatGet(fd).errno = "SUCCESS" <=> fd \in 3..(2 + l)
  BY <1>5, <1>6 DEF PrestatGet, Result
<1>8. ASSUME NEW fd \in untouched, fd >= 3
      PROVE  PrestatDirName(fd, PrestatGet(fd).out) = Result("SUCCESS", DirNames[fd - 2])
  <2>1. fd \in 3..(2 + l)
    BY <1>2, <1>4, <1>8 DEF FdsInv
  <2>2. fd - 2 \in 1..l /\ (fd - 2) + 2 = fd /\ fd \in Nat
    BY <1>2, <2>1
  <2>3. NameAt(fd) = DirNames[fd - 2]
    BY <1>3, <2>2
  <2>4. IsPreopen(fd)
    BY <1>6, <2>1, <2>2
  <2>5. PrestatGet(fd).out = Len(NameAt(fd))
    BY <2>4 DEF PrestatGet, Result
  <2>6. Len(DirNames[fd - 2]) \in Nat
    <3>1. builder.dirs \in Seq(Nat)
      BY BuildersAssumption DEF Inv, ImportInv
    <3>2. Len(builder.dirs) = l /\ builder.dirs[fd - 2] \in Nat
      BY <1>1, <2>2, <3>1 DEF DirNames
    <3> QED
      BY <2>2, <3>1, <3>2, TextLength DEF DirNames
  <2>7. ~(Len(NameAt(fd)) < PrestatGet(fd).out)
    BY <2>3, <2>5, <2>6
  <2> QED
    BY <2>3, <2>4, <2>7 DEF PrestatDirName
<1> QED
  BY <1>1, <1>7, <1>8 DEF StartupInPlace, FdsInv

(* fd_prestat_get, tried from 3 on until it fails, finds every preopened   *)
(* directory, and a descriptor that the guest has left alone holds what    *)
(* the embedder gave, under the name it gave, whatever was closed,         *)
(* renumbered or opened in between; the macros print to standard error     *)
(* while 2 is left alone.                                                  *)
THEOREM StartsInPlace == Spec => []StartupInPlace
<1>1. Init => TableInv /\ FdsInv
  BY TableInit0 DEF Init, FdsInv
<1>2. Inv /\ MemoryInv /\ FdsInv => StartupInPlace
  BY ListsFollow, StartsFollow
<1> QED
  BY <1>1, <1>2, InvInit, InvNext, ModeInit, ModeNext, MemoryInit, MemoryNext,
     OneImportInit, OneImportNext, FdsNext, PTL DEF Spec
-----------------------------------------------------------------------------
(* Folds from the left *)

(* A set of numbers has a least one. *)
LEMMA LeastOf ==
  ASSUME NEW T \in SUBSET Nat, T # {}
  PROVE  \E x \in T : \A y \in T : x <= y
<1> DEFINE Upto(x) == {y \in T : y <= x}
           Uptos == {Upto(x) : x \in T}
<1>1. Uptos \subseteq FiniteSubsetsOf(Nat) /\ Uptos # {}
  <2>1. ASSUME NEW x \in T PROVE Upto(x) \in FiniteSubsetsOf(Nat)
    <3>1. IsFiniteSet(Upto(x))
      BY FS_BoundedSetOfNaturals
    <3> QED
      BY <3>1 DEF FiniteSubsetsOf
  <2> QED
    BY <2>1
<1>2. PICK B \in Uptos : \A C \in Uptos : ~ (<<C, B>> \in StrictSubsetOrdering(Nat))
  <2>1. IsWellFoundedOn(StrictSubsetOrdering(Nat), FiniteSubsetsOf(Nat))
    BY FS_StrictSubsetOrderingWellFounded
  <2> HIDE DEF Uptos
  <2> QED
    BY <1>1, <2>1, WFMin
<1>3. PICK x \in T : B = Upto(x)
  OBVIOUS
<1>4. ASSUME NEW y \in T, y < x PROVE FALSE
  <2>1. Upto(y) \subseteq Upto(x) /\ x \in Upto(x) /\ x \notin Upto(y)
    <3>1. x \in Nat /\ y \in Nat /\ x <= x /\ ~(x <= y) /\ \A z \in Nat : z <= y => z <= x
      BY <1>4
    <3> QED
      BY <3>1
  <2>2. <<Upto(y), B>> \in StrictSubsetOrdering(Nat)
    BY <1>3, <2>1 DEF StrictSubsetOrdering
  <2> QED
    BY <1>2, <2>2
<1> QED
  BY <1>4

(* The greatest element, by which folds from the left choose. *)
LEMMA MaxIs ==
  ASSUME NEW n \in Nat, NEW s \in SUBSET (1..n), s # {}
  PROVE  Max(s) \in s /\ \A y \in s : Max(s) >= y
<1> DEFINE T == {n - x : x \in s}
<1>1. T \in SUBSET Nat /\ T # {}
  <2>1. \A x \in s : n - x \in Nat
    OBVIOUS
  <2>2. PICK x : x \in s
    OBVIOUS
  <2> QED
    BY <2>1, <2>2
<1>2. PICK t \in T : \A u \in T : t <= u
  BY <1>1, LeastOf
<1>3. PICK x \in s : t = n - x
  BY <1>2
<1>4. \A y \in s : x >= y
  <2>1. ASSUME NEW y \in s PROVE x >= y
    <3>1. t <= n - y
      BY <1>2
    <3> QED
      BY <1>3, <3>1
  <2> QED
    BY <2>1
<1> QED
  BY <1>3, <1>4 DEF Max

(* What holds of the empty set and of a set when it holds without its      *)
(* greatest element holds of every set of indices. *)
LEMMA EverySubset ==
  ASSUME NEW n \in Nat, NEW I, {} \in I,
         \A s \in SUBSET (1..n) : s # {} /\ s \ {Max(s)} \in I => s \in I
  PROVE  \A s \in SUBSET (1..n) : s \in I
<1> SUFFICES ASSUME NEW r \in SUBSET (1..n), r \notin I PROVE FALSE
  OBVIOUS
<1> DEFINE Rest == {s \in SUBSET (1..n) : s \notin I}
           T == {Max(s) : s \in Rest}
<1>1. \A s \in Rest : s # {} /\ Max(s) \in s /\ \A y \in s : Max(s) >= y
  BY MaxIs
<1>2. T \in SUBSET Nat /\ T # {}
  <2>1. ASSUME NEW s \in Rest PROVE Max(s) \in Nat
    <3>1. Max(s) \in 1..n
      BY <1>1
    <3> QED
      BY ONLY <3>1, n \in Nat
  <2>2. Max(r) \in T
    OBVIOUS
  <2>3. \A u \in T : u \in Nat
    BY <2>1
  <2> HIDE DEF T
  <2> QED
    BY <2>2, <2>3
<1>3. PICK t \in T : \A u \in T : t <= u
  BY <1>2, LeastOf
<1>4. PICK s \in Rest : t = Max(s)
  BY <1>3
<1>5. s \ {t} \in Rest
  BY <1>1, <1>4
<1>6. PICK u : u = Max(s \ {t})
  OBVIOUS
<1>7. t <= u /\ u \in s /\ u # t /\ t >= u
  <2>1. u \in T
    BY <1>5, <1>6
  <2> QED
    BY <1>1, <1>3, <1>4, <1>5, <1>6, <2>1
<1>8. t \in Nat /\ u \in Nat
  BY <1>2, <1>7
<1> QED
  BY ONLY <1>7, <1>8

-----------------------------------------------------------------------------
(* Folds that write texts *)

(* What strings are made of, and what the writers accumulate. *)
Char == {"NUL", "="} \cup ({"arg", "key", "value", "dir"} \X Nat \X Nat)
Acc == [ptrs : Seq(Nat), bytes : Seq(Char)]

(* The two writers append the NUL in different ways. *)
LEMMA SameWrite ==
  ASSUME NEW acc \in Acc, NEW text \in Seq(Char)
  PROVE  Writes(acc, text) = HostWrites(acc, text) /\ Writes(acc, text) \in Acc
<1>1. PICK p \in Seq(Nat), b \in Seq(Char) : p = acc.ptrs /\ b = acc.bytes
  BY DEF Acc
<1>2. <<"NUL">> \in Seq(Char) /\ "NUL" \in Char
  BY DEF Char
<1>3. p \o <<Len(b)>> = Append(p, Len(b)) /\ Append(p, Len(b)) \in Seq(Nat)
  OBVIOUS
<1>4. Append(text, "NUL") = text \o <<"NUL">> /\ Append(text, "NUL") \in Seq(Char)
  BY <1>2
<1>5. b \o (text \o <<"NUL">>) = (b \o text) \o <<"NUL">>
  BY <1>2, ConcatAssociative
<1>6. b \o Append(text, "NUL") \in Seq(Char)
  BY <1>4, ConcatProperties
<1> QED
  BY <1>1, <1>3, <1>4, <1>5, <1>6 DEF Writes, HostWrites, Acc

(* The fold of the adapter and that of the host, before all indices are    *)
(* given to it. *)
Copies(it, n, text) ==
  it = [s \in SUBSET (1..n) |-> IF s = {} THEN Nothing ELSE Writes(it[s \ {Max(s)}], text[Max(s)])]
HostCopies(it, n, text) ==
  it = [s \in SUBSET (1..n) |-> IF s = {} THEN Nothing ELSE HostWrites(it[s \ {Max(s)}], text[Max(s)])]

LEMMA SameCopies ==
  ASSUME NEW n \in Nat, NEW text, \A i \in 1..n : text[i] \in Seq(Char), NEW it
  PROVE  Copies(it, n, text) <=> HostCopies(it, n, text)
<1> DEFINE I == {s \in SUBSET (1..n) : it[s] \in Acc}
<1>0. Nothing \in Acc
  BY DEF Nothing, Acc
<1>1. ASSUME NEW s \in SUBSET (1..n), s # {}
      PROVE  s \ {Max(s)} \in SUBSET (1..n) /\ text[Max(s)] \in Seq(Char)
  BY <1>1, MaxIs
<1>2. ASSUME Copies(it, n, text) PROVE HostCopies(it, n, text)
  <2>1. \A s \in SUBSET (1..n) :
          it[s] = IF s = {} THEN Nothing ELSE Writes(it[s \ {Max(s)}], text[Max(s)])
    BY <1>2 DEF Copies
  <2>2. \A s \in SUBSET (1..n) : s \in I
    <3>1. {} \in I
      BY <1>0, <2>1
    <3>2. ASSUME NEW s \in SUBSET (1..n), s # {}, s \ {Max(s)} \in I PROVE s \in I
      <4>1. it[s \ {Max(s)}] \in Acc /\ text[Max(s)] \in Seq(Char)
        BY <1>1, <3>2
      <4>2. Writes(it[s \ {Max(s)}], text[Max(s)]) \in Acc
            /\ HostWrites(it[s \ {Max(s)}], text[Max(s)]) \in Acc
        BY <4>1, SameWrite
      <4> QED
        BY <2>1, <3>2, <4>2
    <3> HIDE DEF I
    <3> QED
      BY <3>1, <3>2, EverySubset
  <2>3. \A s \in SUBSET (1..n) : s # {} =>
          Writes(it[s \ {Max(s)}], text[Max(s)]) = HostWrites(it[s \ {Max(s)}], text[Max(s)])
    BY <1>1, <2>2, SameWrite
  <2>4. it = [s \in SUBSET (1..n) |-> it[s]]
    BY <1>2 DEF Copies
  <2> QED
    BY <2>1, <2>3, <2>4 DEF HostCopies
<1>3. ASSUME HostCopies(it, n, text) PROVE Copies(it, n, text)
  <2>1. \A s \in SUBSET (1..n) :
          it[s] = IF s = {} THEN Nothing ELSE HostWrites(it[s \ {Max(s)}], text[Max(s)])
    BY <1>3 DEF HostCopies
  <2>2. \A s \in SUBSET (1..n) : s \in I
    <3>1. {} \in I
      BY <1>0, <2>1
    <3>2. ASSUME NEW s \in SUBSET (1..n), s # {}, s \ {Max(s)} \in I PROVE s \in I
      <4>1. it[s \ {Max(s)}] \in Acc /\ text[Max(s)] \in Seq(Char)
        BY <1>1, <3>2
      <4>2. Writes(it[s \ {Max(s)}], text[Max(s)]) \in Acc
            /\ HostWrites(it[s \ {Max(s)}], text[Max(s)]) \in Acc
        BY <4>1, SameWrite
      <4> QED
        BY <2>1, <3>2, <4>2
    <3> HIDE DEF I
    <3> QED
      BY <3>1, <3>2, EverySubset
  <2>3. \A s \in SUBSET (1..n) : s # {} =>
          Writes(it[s \ {Max(s)}], text[Max(s)]) = HostWrites(it[s \ {Max(s)}], text[Max(s)])
    BY <1>1, <2>2, SameWrite
  <2>4. it = [s \in SUBSET (1..n) |-> it[s]]
    BY <1>3 DEF HostCopies
  <2> QED
    BY <2>1, <2>3, <2>4 DEF Copies
<1> QED
  BY <1>2, <1>3

(* The texts, each with a NUL after it. *)
Copied(n, text) == (CHOOSE it : Copies(it, n, text))[1..n]

LEMMA HostCopied ==
  ASSUME NEW n \in Nat, NEW text, \A i \in 1..n : text[i] \in Seq(Char)
  PROVE  (CHOOSE it : HostCopies(it, n, text))[1..n] = Copied(n, text)
BY SameCopies, Zenon DEF Copied

(* The folds of the host and of the adapter are these. *)
LEMMA HostArgs ==
  ASSUME NEW n \in Nat, n = Len(Args), DOMAIN Args = 1..n
  PROVE  HostArgsGet = (CHOOSE it : HostCopies(it, n, Args))[1..n]
BY DEF HostArgsGet, FoldLeft, MapThenFoldSet, HostCopies

LEMMA AdapterArgs ==
  ASSUME NEW n \in Nat, args.len = n, \A i \in 1..n : ArgAt(i) = Args[i]
  PROVE  ArgsGet = Copied(n, Args)
<1> DEFINE seq == [i \in 1..n |-> i]
           Body(it) == [s \in SUBSET (1..n) |-> IF s = {} THEN Nothing
                           ELSE Writes(it[s \ {Max(s)}], ArgAt(seq[Max(s)]))]
<1>1. ASSUME NEW it
      PROVE  it = Body(it) <=> Copies(it, n, Args)
  <2>1. \A s \in SUBSET (1..n) : s # {} => ArgAt(seq[Max(s)]) = Args[Max(s)]
    BY MaxIs
  <2> QED
    BY <2>1 DEF Copies
<1>2. (CHOOSE it : it = Body(it)) = CHOOSE it : Copies(it, n, Args)
  BY <1>1, Zenon
<1>3. ArgsGet = (CHOOSE it : it = Body(it))[1..n]
  BY DEF ArgsGet, FoldLeftDomain, FoldLeft, MapThenFoldSet
<1> QED
  BY <1>2, <1>3 DEF Copied

(* A variable of the environment. *)
Pair(i) == (Env[i].key \o <<"=">>) \o Env[i].value
Pairs == [i \in 1..Len(Env) |-> Pair(i)]

LEMMA HostEnv ==
  ASSUME NEW n \in Nat, n = Len(Env), DOMAIN Env = 1..n
  PROVE  HostEnvironGet = (CHOOSE it : HostCopies(it, n, Pairs))[1..n]
<1> DEFINE Body(it) == [s \in SUBSET (1..n) |-> IF s = {} THEN Nothing
                           ELSE HostWrites(it[s \ {Max(s)}], Pair(Max(s)))]
<1>1. ASSUME NEW it
      PROVE  it = Body(it) <=> HostCopies(it, n, Pairs)
  <2>1. \A s \in SUBSET (1..n) : s # {} => Pair(Max(s)) = Pairs[Max(s)]
    BY MaxIs DEF Pairs
  <2> QED
    BY <2>1 DEF HostCopies
<1>2. (CHOOSE it : it = Body(it)) = CHOOSE it : HostCopies(it, n, Pairs)
  BY <1>1, Zenon
<1>3. HostEnvironGet = (CHOOSE it : it = Body(it))[1..n]
  BY DEF HostEnvironGet, FoldLeft, MapThenFoldSet, Pair
<1> QED
  BY <1>2, <1>3

LEMMA AdapterEnv ==
  ASSUME NEW n \in Nat, n = Len(Env), env_vars.len = n,
         \A i \in 1..n : KeyAt(i) = Env[i].key /\ ValueAt(i) = Env[i].value
  PROVE  EnvironGet = Copied(n, Pairs)
<1> DEFINE seq == [i \in 1..n |-> i]
           Body(it) == [s \in SUBSET (1..n) |-> IF s = {} THEN Nothing
                           ELSE Writes(it[s \ {Max(s)}],
                                       (KeyAt(seq[Max(s)]) \o <<"=">>) \o ValueAt(seq[Max(s)]))]
<1>1. ASSUME NEW it
      PROVE  it = Body(it) <=> Copies(it, n, Pairs)
  <2>1. \A s \in SUBSET (1..n) : s # {} =>
          (KeyAt(seq[Max(s)]) \o <<"=">>) \o ValueAt(seq[Max(s)]) = Pairs[Max(s)]
    BY MaxIs DEF Pairs, Pair
  <2> QED
    BY <2>1 DEF Copies
<1>2. (CHOOSE it : it = Body(it)) = CHOOSE it : Copies(it, n, Pairs)
  BY <1>1, Zenon
<1>3. EnvironGet = (CHOOSE it : it = Body(it))[1..n]
  BY DEF EnvironGet, FoldLeftDomain, FoldLeft, MapThenFoldSet
<1> QED
  BY <1>2, <1>3 DEF Copied

-----------------------------------------------------------------------------
(* Folds that add *)

(* The sums of the numbers w[i] over the indices in s. *)
Sums(it, n, w) ==
  it = [s \in SUBSET (1..n) |-> IF s = {} THEN 0 ELSE it[s \ {Max(s)}] + w[Max(s)]]

LEMMA SumsAre ==
  ASSUME NEW n \in Nat, NEW w, \A i \in 1..n : w[i] \in Nat, NEW it, Sums(it, n, w)
  PROVE  \A s \in SUBSET (1..n) : it[s] \in Nat
<1> DEFINE I == {s \in SUBSET (1..n) : it[s] \in Nat}
<1>1. \A s \in SUBSET (1..n) : it[s] = IF s = {} THEN 0 ELSE it[s \ {Max(s)}] + w[Max(s)]
  BY DEF Sums
<1>2. {} \in I
  BY <1>1
<1>3. ASSUME NEW s \in SUBSET (1..n), s # {}, s \ {Max(s)} \in I PROVE s \in I
  <2>1. PICK a, b : a = it[s \ {Max(s)}] /\ b = w[Max(s)]
    OBVIOUS
  <2>2. a \in Nat /\ b \in Nat
    BY <1>3, <2>1, MaxIs
  <2>3. it[s] = a + b
    BY <1>1, <1>3, <2>1
  <2> QED
    BY <2>2, <2>3
<1>4. \A s \in SUBSET (1..n) : s \in I
  <2> HIDE DEF I
  <2> QED
    BY <1>2, <1>3, EverySubset
<1> QED
  BY <1>4

(* A host that adds in several steps. *)
SumsOfTwo(it, n, u) ==
  it = [s \in SUBSET (1..n) |-> IF s = {} THEN 0 ELSE (it[s \ {Max(s)}] + u[Max(s)]) + 1]
SumsOfFour(it, n, u, v) ==
  it = [s \in SUBSET (1..n) |->
         IF s = {} THEN 0 ELSE (((it[s \ {Max(s)}] + u[Max(s)]) + 1) + v[Max(s)]) + 1]

(* They add up to the same. *)
LEMMA TwoAdded ==
  ASSUME NEW n \in Nat, NEW u, NEW w, \A i \in 1..n : u[i] \in Nat /\ w[i] = u[i] + 1, NEW it
  PROVE  Sums(it, n, w) <=> SumsOfTwo(it, n, u)
<1>1. ASSUME NEW s \in SUBSET (1..n), s # {}
      PROVE  /\ s \ {Max(s)} \in SUBSET (1..n) /\ w[Max(s)] \in Nat /\ u[Max(s)] \in Nat
             /\ w[Max(s)] = u[Max(s)] + 1
  <2>1. Max(s) \in 1..n /\ s \ {Max(s)} \in SUBSET (1..n)
    BY <1>1, MaxIs
  <2>2. \A i \in 1..n : u[i] \in Nat /\ w[i] = u[i] + 1 /\ w[i] \in Nat
    OBVIOUS
  <2> QED
    BY <2>1, <2>2
<1>2. ASSUME Sums(it, n, w) PROVE SumsOfTwo(it, n, u)
  <2>1. \A s \in SUBSET (1..n) : it[s] \in Nat
    <3>1. \A i \in 1..n : w[i] \in Nat
      OBVIOUS
    <3> QED
      BY <1>2, <3>1, SumsAre
  <2>2. \A s \in SUBSET (1..n) : s # {} =>
          it[s \ {Max(s)}] + w[Max(s)] = (it[s \ {Max(s)}] + u[Max(s)]) + 1
    BY <1>1, <2>1
  <2> QED
    BY <1>2, <2>2 DEF Sums, SumsOfTwo
<1>3. ASSUME SumsOfTwo(it, n, u) PROVE Sums(it, n, w)
  <2> DEFINE I == {s \in SUBSET (1..n) : it[s] \in Nat}
  <2>1. /\ \A s \in SUBSET (1..n) :
             it[s] = IF s = {} THEN 0 ELSE (it[s \ {Max(s)}] + u[Max(s)]) + 1
        /\ it = [s \in SUBSET (1..n) |-> it[s]]
    BY <1>3 DEF SumsOfTwo
  <2>2. {} \in I
    <3>1. {} \in SUBSET (1..n) /\ 0 \in Nat
      OBVIOUS
    <3>2. it[{}] = 0
      BY ONLY <2>1, <3>1
    <3> QED
      BY <3>1, <3>2
  <2>3. ASSUME NEW s \in SUBSET (1..n), s # {}, s \ {Max(s)} \in I PROVE s \in I
    <3>1. PICK a, b : a = it[s \ {Max(s)}] /\ b = u[Max(s)]
      OBVIOUS
    <3>2. a \in Nat /\ b \in Nat
      BY <1>1, <2>3, <3>1
    <3>3. it[s] = (a + b) + 1
      BY <2>1, <2>3, <3>1
    <3> QED
      BY <3>2, <3>3
  <2>4. \A s \in SUBSET (1..n) : s \in I
    <3> HIDE DEF I
    <3> QED
      BY <2>2, <2>3, EverySubset
  <2>5. \A s \in SUBSET (1..n) : s # {} =>
          it[s \ {Max(s)}] + w[Max(s)] = (it[s \ {Max(s)}] + u[Max(s)]) + 1
    BY <1>1, <2>4
  <2> QED
    BY <2>1, <2>5 DEF Sums
<1> QED
  BY <1>2, <1>3

LEMMA FourAdded ==
  ASSUME NEW n \in Nat, NEW u, NEW v, NEW w,
         \A i \in 1..n : u[i] \in Nat /\ v[i] \in Nat /\ w[i] = u[i] + v[i] + 2, NEW it
  PROVE  Sums(it, n, w) <=> SumsOfFour(it, n, u, v)
<1>1. ASSUME NEW s \in SUBSET (1..n), s # {}
      PROVE  /\ s \ {Max(s)} \in SUBSET (1..n)
             /\ w[Max(s)] \in Nat /\ u[Max(s)] \in Nat /\ v[Max(s)] \in Nat
             /\ w[Max(s)] = u[Max(s)] + v[Max(s)] + 2
  <2>1. Max(s) \in 1..n /\ s \ {Max(s)} \in SUBSET (1..n)
    BY <1>1, MaxIs
  <2>2. \A i \in 1..n : u[i] \in Nat /\ v[i] \in Nat /\ w[i] = u[i] + v[i] + 2 /\ w[i] \in Nat
    OBVIOUS
  <2> QED
    BY <2>1, <2>2
<1>2. ASSUME Sums(it, n, w) PROVE SumsOfFour(it, n, u, v)
  <2>1. \A s \in SUBSET (1..n) : it[s] \in Nat
    <3>1. \A i \in 1..n : w[i] \in Nat
      OBVIOUS
    <3> QED
      BY <1>2, <3>1, SumsAre
  <2>2. \A s \in SUBSET (1..n) : s # {} =>
          it[s \ {Max(s)}] + w[Max(s)] = (((it[s \ {Max(s)}] + u[Max(s)]) + 1) + v[Max(s)]) + 1
    BY <1>1, <2>1
  <2> QED
    BY <1>2, <2>2 DEF Sums, SumsOfFour
<1>3. ASSUME SumsOfFour(it, n, u, v) PROVE Sums(it, n, w)
  <2> DEFINE I == {s \in SUBSET (1..n) : it[s] \in Nat}
  <2>1. /\ \A s \in SUBSET (1..n) :
             it[s] = IF s = {} THEN 0 ELSE (((it[s \ {Max(s)}] + u[Max(s)]) + 1) + v[Max(s)]) + 1
        /\ it = [s \in SUBSET (1..n) |-> it[s]]
    BY <1>3 DEF SumsOfFour
  <2>2. {} \in I
    <3>1. {} \in SUBSET (1..n) /\ 0 \in Nat
      OBVIOUS
    <3>2. it[{}] = 0
      BY ONLY <2>1, <3>1
    <3> QED
      BY <3>1, <3>2
  <2>3. ASSUME NEW s \in SUBSET (1..n), s # {}, s \ {Max(s)} \in I PROVE s \in I
    <3>1. PICK a, b, c : a = it[s \ {Max(s)}] /\ b = u[Max(s)] /\ c = v[Max(s)]
      OBVIOUS
    <3>2. a \in Nat /\ b \in Nat /\ c \in Nat
      BY <1>1, <2>3, <3>1
    <3>3. it[s] = ((a + b) + 1) + c + 1
      BY <2>1, <2>3, <3>1
    <3> QED
      BY <3>2, <3>3
  <2>4. \A s \in SUBSET (1..n) : s \in I
    <3> HIDE DEF I
    <3> QED
      BY <2>2, <2>3, EverySubset
  <2>5. \A s \in SUBSET (1..n) : s # {} =>
          it[s \ {Max(s)}] + w[Max(s)] = (((it[s \ {Max(s)}] + u[Max(s)]) + 1) + v[Max(s)]) + 1
    BY <1>1, <2>4
  <2> QED
    BY <2>1, <2>5 DEF Sums
<1> QED
  BY <1>2, <1>3

Sum(n, w) == (CHOOSE it : Sums(it, n, w))[1..n]

ArgSizes == [i \in 1..Len(Args) |-> Len(Args[i]) + 1]
PairSizes == [i \in 1..Len(Env) |-> Len(Env[i].key) + Len(Env[i].value) + 2]

(* The sizes that the host and the adapter give. *)
LEMMA HostArgsSizes ==
  ASSUME NEW n \in Nat, n = Len(Args), DOMAIN Args = 1..n, \A i \in 1..n : Len(Args[i]) \in Nat
  PROVE  HostArgsSizesGet = <<n, Sum(n, ArgSizes)>>
<1> DEFINE Body(it) == [s \in SUBSET (1..n) |-> IF s = {} THEN 0
                           ELSE (it[s \ {Max(s)}] + Len(Args[Max(s)])) + 1]
           lens == [i \in 1..n |-> Len(Args[i])]
<1>1. ASSUME NEW it
      PROVE  it = Body(it) <=> Sums(it, n, ArgSizes)
  <2>1. \A s \in SUBSET (1..n) : s # {} => Len(Args[Max(s)]) = lens[Max(s)]
    BY MaxIs
  <2>2. it = Body(it) <=> SumsOfTwo(it, n, lens)
    BY <2>1 DEF SumsOfTwo
  <2>3. \A i \in 1..n : lens[i] \in Nat /\ ArgSizes[i] = lens[i] + 1
    BY DEF ArgSizes
  <2>4. Sums(it, n, ArgSizes) <=> SumsOfTwo(it, n, lens)
    <3> HIDE DEF lens
    <3> QED
      BY <2>3, TwoAdded
  <2> QED
    BY <2>2, <2>4
<1>2. (CHOOSE it : it = Body(it)) = CHOOSE it : Sums(it, n, ArgSizes)
  BY <1>1, Zenon
<1>3. HostArgsSizesGet = <<n, (CHOOSE it : it = Body(it))[1..n]>>
  BY DEF HostArgsSizesGet, FoldLeft, MapThenFoldSet
<1> QED
  BY <1>2, <1>3 DEF Sum

LEMMA AdapterArgsSizes ==
  ASSUME NEW n \in Nat, n = Len(Args), args.len = n, \A i \in 1..n : ArgAt(i) = Args[i]
  PROVE  ArgsSizesGet = <<n, Sum(n, ArgSizes)>>
<1> DEFINE seq == [i \in 1..n |-> i]
           Body(it) == [s \in SUBSET (1..n) |-> IF s = {} THEN 0
                           ELSE it[s \ {Max(s)}] + (Len(ArgAt(seq[Max(s)])) + 1)]
<1>1. ASSUME NEW it
      PROVE  it = Body(it) <=> Sums(it, n, ArgSizes)
  <2>1. \A s \in SUBSET (1..n) : s # {} => Len(ArgAt(seq[Max(s)])) + 1 = ArgSizes[Max(s)]
    BY MaxIs DEF ArgSizes
  <2> QED
    BY <2>1 DEF Sums
<1>2. (CHOOSE it : it = Body(it)) = CHOOSE it : Sums(it, n, ArgSizes)
  BY <1>1, Zenon
<1>3. ArgsSizesGet = <<n, (CHOOSE it : it = Body(it))[1..n]>>
  BY DEF ArgsSizesGet, FoldLeftDomain, FoldLeft, MapThenFoldSet
<1> QED
  BY <1>2, <1>3 DEF Sum

LEMMA HostEnvSizes ==
  ASSUME NEW n \in Nat, n = Len(Env), DOMAIN Env = 1..n,
         \A i \in 1..n : Len(Env[i].key) \in Nat /\ Len(Env[i].value) \in Nat
  PROVE  HostEnvironSizesGet = <<n, Sum(n, PairSizes)>>
<1> DEFINE Body(it) == [s \in SUBSET (1..n) |-> IF s = {} THEN 0
                           ELSE (((it[s \ {Max(s)}] + Len(Env[Max(s)].key)) + 1)
                                   + Len(Env[Max(s)].value)) + 1]
           keys == [i \in 1..n |-> Len(Env[i].key)]
           values == [i \in 1..n |-> Len(Env[i].value)]
<1>1. ASSUME NEW it
      PROVE  it = Body(it) <=> Sums(it, n, PairSizes)
  <2>1. \A s \in SUBSET (1..n) : s # {} =>
          Len(Env[Max(s)].key) = keys[Max(s)] /\ Len(Env[Max(s)].value) = values[Max(s)]
    BY MaxIs
  <2>2. it = Body(it) <=> SumsOfFour(it, n, keys, values)
    BY <2>1 DEF SumsOfFour
  <2>3. \A i \in 1..n : keys[i] \in Nat /\ values[i] \in Nat /\ PairSizes[i] = keys[i] + values[i] + 2
    BY DEF PairSizes
  <2>4. Sums(it, n, PairSizes) <=> SumsOfFour(it, n, keys, values)
    <3> HIDE DEF keys, values
    <3> QED
      BY <2>3, FourAdded
  <2> QED
    BY <2>2, <2>4
<1>2. (CHOOSE it : it = Body(it)) = CHOOSE it : Sums(it, n, PairSizes)
  BY <1>1, Zenon
<1>3. HostEnvironSizesGet = <<n, (CHOOSE it : it = Body(it))[1..n]>>
  BY DEF HostEnvironSizesGet, FoldLeft, MapThenFoldSet
<1> QED
  BY <1>2, <1>3 DEF Sum

LEMMA AdapterEnvSizes ==
  ASSUME NEW n \in Nat, n = Len(Env), env_vars.len = n,
         \A i \in 1..n : KeyAt(i) = Env[i].key /\ ValueAt(i) = Env[i].value
  PROVE  EnvironSizesGet = <<n, Sum(n, PairSizes)>>
<1> DEFINE seq == [i \in 1..n |-> i]
           Body(it) == [s \in SUBSET (1..n) |-> IF s = {} THEN 0
                           ELSE it[s \ {Max(s)}]
                                  + (Len(KeyAt(seq[Max(s)])) + Len(ValueAt(seq[Max(s)])) + 2)]
<1>1. ASSUME NEW it
      PROVE  it = Body(it) <=> Sums(it, n, PairSizes)
  <2>1. \A s \in SUBSET (1..n) : s # {} =>
          Len(KeyAt(seq[Max(s)])) + Len(ValueAt(seq[Max(s)])) + 2 = PairSizes[Max(s)]
    BY MaxIs DEF PairSizes
  <2> QED
    BY <2>1 DEF Sums
<1>2. (CHOOSE it : it = Body(it)) = CHOOSE it : Sums(it, n, PairSizes)
  BY <1>1, Zenon
<1>3. EnvironSizesGet = <<n, (CHOOSE it : it = Body(it))[1..n]>>
  BY DEF EnvironSizesGet, FoldLeftDomain, FoldLeft, MapThenFoldSet
<1> QED
  BY <1>2, <1>3 DEF Sum

-----------------------------------------------------------------------------
(* Answers *)

(* What the host answers, without its folds. *)
Expected(c) ==
  CASE c.fn = "args_get" -> Result("SUCCESS", Copied(Len(Args), Args))
    [] c.fn = "args_sizes_get" -> Result("SUCCESS", <<Len(Args), Sum(Len(Args), ArgSizes)>>)
    [] c.fn = "environ_get" -> Result("SUCCESS", Copied(Len(Env), Pairs))
    [] c.fn = "environ_sizes_get" -> Result("SUCCESS", <<Len(Env), Sum(Len(Env), PairSizes)>>)
    [] c.fn \in {"clock_res_get", "clock_time_get"} -> HostClock(c.x, c.y)
    [] c.fn = "random_get" -> Result("SUCCESS", RandomBytes(c.x))
    [] c.fn = "sched_yield" -> Result("SUCCESS", 0)

AnswersExpected ==
  answer # Absent /\ answer.ready =>
    (answer.call.fn \notin FdMut \cup {"fd_prestat_get", "fd_prestat_dir_name"} =>
       answer.result = Expected(answer.call))

(* Random bytes are only imported by the call for them. *)
RandomOwned == import # Absent /\ import.list = "random" => call # Absent /\ call.fn = "random_get"

(* The strings of the embedder are texts. *)
LEMMA TextsAre ==
  ASSUME builder \in Builders
  PROVE  /\ Len(Args) \in Nat /\ DOMAIN Args = 1..Len(Args)
         /\ \A i \in 1..Len(Args) : Args[i] \in Seq(Char) /\ Len(Args[i]) \in Nat
         /\ Len(Env) \in Nat /\ DOMAIN Env = 1..Len(Env)
         /\ \A i \in 1..Len(Env) : /\ Env[i].key \in Seq(Char) /\ Len(Env[i].key) \in Nat
                                   /\ Env[i].value \in Seq(Char) /\ Len(Env[i].value) \in Nat
         /\ \A i \in 1..Len(Env) : Pairs[i] \in Seq(Char)
<1>1. builder.args \in Seq(Nat) /\ builder.env \in Seq(Nat \X Nat)
  BY BuildersAssumption
<1>2. ASSUME NEW kind \in {"arg", "key", "value"}, NEW i \in Nat, NEW len \in Nat
      PROVE  Text(kind, i, len) \in Seq(Char) /\ Len(Text(kind, i, len)) \in Nat
  <2>1. \A k \in 1..len : <<kind, i, k>> \in Char
    BY DEF Char
  <2> QED
    BY <2>1 DEF Text
<1>3. /\ Len(Args) \in Nat /\ DOMAIN Args = 1..Len(Args)
      /\ \A i \in 1..Len(Args) : Args[i] \in Seq(Char) /\ Len(Args[i]) \in Nat
  <2>1. Len(Args) = Len(builder.args) /\ Len(Args) \in Nat /\ DOMAIN Args = 1..Len(Args)
    BY <1>1 DEF Args
  <2>2. ASSUME NEW i \in 1..Len(Args)
        PROVE  Args[i] \in Seq(Char) /\ Len(Args[i]) \in Nat
    <3>1. builder.args[i] \in Nat /\ i \in Nat
      BY <1>1, <2>1
    <3>2. Args[i] = Text("arg", i, builder.args[i])
      BY <1>1, <2>1 DEF Args
    <3> QED
      BY <1>2, <3>1, <3>2
  <2> QED
    BY <2>1, <2>2
<1>4. /\ Len(Env) \in Nat /\ DOMAIN Env = 1..Len(Env)
      /\ \A i \in 1..Len(Env) : /\ Env[i].key \in Seq(Char) /\ Len(Env[i].key) \in Nat
                                /\ Env[i].value \in Seq(Char) /\ Len(Env[i].value) \in Nat
  <2>1. Len(Env) = Len(builder.env) /\ Len(Env) \in Nat /\ DOMAIN Env = 1..Len(Env)
    BY <1>1 DEF Env
  <2>2. ASSUME NEW i \in 1..Len(Env)
        PROVE  /\ Env[i].key \in Seq(Char) /\ Len(Env[i].key) \in Nat
               /\ Env[i].value \in Seq(Char) /\ Len(Env[i].value) \in Nat
    <3>1. builder.env[i][1] \in Nat /\ builder.env[i][2] \in Nat /\ i \in Nat
      BY <1>1, <2>1
    <3>2. /\ Env[i].key = Text("key", i, builder.env[i][1])
          /\ Env[i].value = Text("value", i, builder.env[i][2])
      BY <1>1, <2>1 DEF Env
    <3> QED
      BY <1>2, <3>1, <3>2
  <2> QED
    BY <2>1, <2>2
<1>5. \A i \in 1..Len(Env) : Pairs[i] \in Seq(Char)
  <2>1. <<"=">> \in Seq(Char)
    BY DEF Char
  <2> QED
    BY <1>4, <2>1, ConcatProperties DEF Pairs, Pair
<1> QED
  BY <1>3, <1>4, <1>5

LEMMA HostIsExpected ==
  ASSUME builder \in Builders
  PROVE  \A c : HostAnswer(c) = Expected(c)
<1>1. HostArgsGet = Copied(Len(Args), Args)
  BY TextsAre, HostArgs, HostCopied
<1>2. HostArgsSizesGet = <<Len(Args), Sum(Len(Args), ArgSizes)>>
  BY TextsAre, HostArgsSizes
<1>3. HostEnvironGet = Copied(Len(Env), Pairs)
  BY TextsAre, HostEnv, HostCopied
<1>4. HostEnvironSizesGet = <<Len(Env), Sum(Len(Env), PairSizes)>>
  BY TextsAre, HostEnvSizes
<1> QED
  BY <1>1, <1>2, <1>3, <1>4 DEF HostAnswer, Expected

LEMMA ExpectedStays ==
  ASSUME builder' = builder
  PROVE  \A c : Expected(c)' = Expected(c)
<1>1. Args' = Args /\ Env' = Env
  BY DEF Args, Env
<1>2. ArgSizes' = ArgSizes /\ Pairs' = Pairs /\ PairSizes' = PairSizes
  BY <1>1 DEF ArgSizes, Pairs, Pair, PairSizes
<1> QED
  BY <1>1, <1>2 DEF Expected

LEMMA ClocksAgree ==
  ASSUME NEW c \in Call, c.fn \in {"clock_res_get", "clock_time_get"}
  PROVE  c.x = "realtime" => Timestamp(c.y) = HostTimestamp(c.y)
<1>1. c \in ClockCall
  <2>1. \A fns, xs, ys : \A d \in Named(fns, xs, ys) : d.fn \in fns
    BY DEF Named
  <2>2. ASSUME NEW fns, NEW xs, NEW ys, c \in Named(fns, xs, ys)
        PROVE  "clock_res_get" \in fns \/ "clock_time_get" \in fns
    BY <2>1, <2>2
  <2>3. ~ \/ c \in Named({"args_get", "args_sizes_get", "environ_get", "environ_sizes_get",
                          "sched_yield"}, {0}, {0})
          \/ c \in Named({"random_get"}, Length, {0})
          \/ c \in Named({"proc_exit"}, {0, 2}, {0})
          \/ c \in Named({"fd_prestat_get", "fd_close"}, GuestFd, {0})
          \/ c \in Named({"fd_prestat_dir_name"}, GuestFd, Length)
          \/ c \in Named({"path_open"}, {0}, {0})
          \/ c \in Named({"fd_renumber"}, GuestFd, GuestFd)
    BY DEF Named
  <2> QED
    BY <2>3 DEF Call
<1>2. PICK id \in Clockid : c \in Named({"clock_res_get", "clock_time_get"}, {id}, Reading[id])
  BY <1>1 DEF ClockCall
<1>3. c.y \in [seconds : Nat, nanoseconds : Nat]
  BY <1>2, ArgumentsAssumption DEF Named
<1>4. PICK s, ns, all : s = c.y.seconds /\ ns = c.y.nanoseconds /\ all = s * NsPerSec
  OBVIOUS
<1>5. s \in Nat /\ ns \in Nat /\ NsPerSec \in Nat /\ MaxTime \in Nat
  BY <1>3, <1>4, ClockAssumption
<1>6. all \in Nat
  BY ONLY <1>4, <1>5
<1>7. (IF all >= MaxTime THEN Result("OVERFLOW", 0)
       ELSE IF all + ns >= MaxTime THEN Result("OVERFLOW", 0) ELSE Result("SUCCESS", all + ns))
      = (IF all + ns < MaxTime THEN Result("SUCCESS", all + ns) ELSE Result("OVERFLOW", 0))
  BY ONLY <1>5, <1>6
<1> QED
  BY <1>4, <1>7 DEF Timestamp, HostTimestamp

(* What the calls for lists answer. *)
LEMMA ListAnswers ==
  ASSUME Inv, ListsReadBack, call \in Call, AnswerList
  PROVE  AnswersExpected'
<1>1. builder' = builder /\ builder \in Builders /\ call # Absent
  BY DEF AnswerList, Ends, hostVars, Inv, ImportInv
<1>2. /\ call.fn \in {"args_get", "args_sizes_get", "environ_get", "environ_sizes_get"}
      /\ Cached(Uses(call))
      /\ answer' = [call |-> call,
                    result |-> Result("SUCCESS",
                      CASE call.fn = "args_get" -> ArgsGet [] call.fn = "args_sizes_get" -> ArgsSizesGet
                        [] call.fn = "environ_get" -> EnvironGet
                        [] call.fn = "environ_sizes_get" -> EnvironSizesGet),
                    ready |-> ready]
  BY DEF AnswerList, Ends, Done, Answers
<1>3. answer'.result = Expected(call)
  <2>1. CASE call.fn \in {"args_get", "args_sizes_get"}
    <3>1. args # Absent
      <4>1. Uses(call) = "args"
        BY <2>1 DEF Uses, FdMut
      <4> QED
        BY <1>2, <4>1 DEF Cached
    <3>2. args.len = Len(Args) /\ \A i \in 1..Len(Args) : ArgAt(i) = Args[i]
      BY <3>1 DEF ListsReadBack
    <3>3. /\ ArgsGet = Copied(Len(Args), Args)
          /\ ArgsSizesGet = <<Len(Args), Sum(Len(Args), ArgSizes)>>
      BY <1>1, <3>2, TextsAre, AdapterArgs, AdapterArgsSizes
    <3> QED
      BY <1>2, <2>1, <3>3 DEF Expected
  <2>2. CASE call.fn \in {"environ_get", "environ_sizes_get"}
    <3>1. env_vars # Absent
      <4>1. Uses(call) = "env"
        BY <2>2 DEF Uses, FdMut
      <4> QED
        BY <1>2, <4>1 DEF Cached
    <3>2. /\ env_vars.len = Len(Env)
          /\ \A i \in 1..Len(Env) : KeyAt(i) = Env[i].key /\ ValueAt(i) = Env[i].value
      BY <3>1 DEF ListsReadBack
    <3>3. /\ EnvironGet = Copied(Len(Env), Pairs)
          /\ EnvironSizesGet = <<Len(Env), Sum(Len(Env), PairSizes)>>
      BY <1>1, <3>2, TextsAre, AdapterEnv, AdapterEnvSizes
    <3> QED
      BY <1>2, <2>2, <3>3 DEF Expected
  <2> QED
    BY <1>2, <2>1, <2>2
<1>4. answer'.call = call
  BY <1>2
<1> QED
  BY <1>1, <1>3, <1>4, ExpectedStays DEF AnswersExpected

LEMMA RandomNext == ModeInv /\ RandomOwned /\ [Next]_vars => RandomOwned'
<1> SUFFICES ASSUME ModeInv, RandomOwned, [Next]_vars PROVE RandomOwned'
  OBVIOUS
<1>1. CASE UNCHANGED <<import, call>>
  BY <1>1 DEF RandomOwned
<1>2. CASE import' = Absent
  BY <1>2 DEF RandomOwned
<1>3. CASE Imports
  <2>1. Uses(call) # "random" /\ import'.list = Uses(call)
    BY <1>3 DEF Imports, Uses
  <2> QED
    BY <2>1 DEF RandomOwned
<1>4. CASE ListAllocated \/ StringAllocated \/ RandomAllocated
  <2>1. import # Absent /\ import \in Import /\ UNCHANGED call
    BY <1>4 DEF ListAllocated, StringAllocated, RandomAllocated, Importing, ModeInv, ImportUsed, control
  <2>2. import'.list = import.list
    BY <1>4, <2>1 DEF ListAllocated, StringAllocated, RandomAllocated, Import
  <2> QED
    BY <2>1, <2>2 DEF RandomOwned
<1>5. CASE RandomImports
  <2>1. call # Absent /\ call.fn = "random_get" /\ UNCHANGED call
    BY <1>5 DEF RandomImports, Ends, control
  <2> QED
    BY <2>1 DEF RandomOwned
<1>6. CASE ListReturns \/ PreopensReturn \/ RandomReturns
  BY <1>2, <1>6 DEF ListReturns, PreopensReturn, RandomReturns
<1>7. CASE AnswerList \/ AnswerClock \/ AnswerPrestat \/ AnswerFd
  BY <1>2, <1>7 DEF AnswerList, AnswerClock, AnswerPrestat, AnswerFd, Ends
<1>8. CASE Builds \/ Allocates \/ ImportTraps
  BY <1>1, <1>8 DEF Builds, Allocates, ImportTraps, control
<1>9. ASSUME NEW c \in Call, CallStateless(c) \/ CallUnready(c)
      PROVE  RandomOwned'
  BY <1>1, <1>9 DEF CallStateless, CallUnready
<1>10. ASSUME NEW c \in Call, CallReady(c)
       PROVE  RandomOwned'
  <2>1. import = Absent
    BY <1>10 DEF CallReady, Idle, ModeInv, ImportUsed
  <2> QED
    BY <1>2, <1>10, <2>1 DEF CallReady
<1>11. CASE UNCHANGED vars
  BY <1>1, <1>11 DEF vars, control
<1> QED
  BY <1>3, <1>4, <1>5, <1>6, <1>7, <1>8, <1>9, <1>10, <1>11 DEF Next, CallStep

LEMMA ExpectedNext ==
  Inv /\ ModeInv /\ ListsReadBack /\ RandomOwned /\ AnswersExpected /\ [Next]_vars
    => AnswersExpected'
<1> SUFFICES ASSUME Inv, ModeInv, ListsReadBack, RandomOwned, AnswersExpected, [Next]_vars
             PROVE  AnswersExpected'
  OBVIOUS
<1>1. CASE UNCHANGED <<answer, builder>>
  BY <1>1, ExpectedStays DEF AnswersExpected
<1>2. CASE answer' = Absent
  BY <1>2 DEF AnswersExpected
<1>3. CASE Builds
  <2>1. UNCHANGED <<answer, builder>>
    BY <1>3 DEF Builds, BuildPushes, BuildEnds, control
  <2> QED
    BY <1>1, <2>1
<1>4. CASE \/ Imports \/ ListAllocated \/ StringAllocated \/ ImportTraps \/ ListReturns
           \/ PreopensReturn \/ RandomImports \/ RandomAllocated \/ Allocates
  <2>1. UNCHANGED <<answer, builder>>
    BY <1>4 DEF Imports, ListAllocated, StringAllocated, ImportTraps, ListReturns, PreopensReturn,
       RandomImports, RandomAllocated, Allocates, hostVars, control
  <2> QED
    BY <1>1, <2>1
<1>5. CASE RandomReturns
  <2>1. /\ call.fn = "random_get" /\ UNCHANGED builder
        /\ answer' = [call |-> call, result |-> Result("SUCCESS", RandomBytes(call.x)),
                      ready |-> ready]
    BY <1>5 DEF RandomReturns, RandomOwned, Done, Answers, hostVars
  <2>2. answer'.result = Expected(call) /\ answer'.call = call
    BY <2>1 DEF Expected
  <2> QED
    BY <2>1, <2>2, ExpectedStays DEF AnswersExpected
<1>6. CASE AnswerList
  <2>1. call \in Call
    BY <1>6 DEF AnswerList, Ends, ModeInv
  <2> QED
    BY <1>6, <2>1, ListAnswers
<1>7. CASE AnswerClock
  <2>1. /\ call \in Call /\ call.fn \in {"clock_res_get", "clock_time_get"} /\ UNCHANGED builder
    BY <1>7 DEF AnswerClock, Ends, ModeInv, hostVars
  <2>2. CASE UNCHANGED answer
    BY <1>1, <2>1, <2>2
  <2>3. ASSUME NEW result, Done(result), result = HostClock(call.x, call.y)
        PROVE  AnswersExpected'
    <3>1. answer'.result = Expected(call) /\ answer'.call = call
      BY <2>1, <2>3 DEF Done, Answers, Expected
    <3> QED
      BY <2>1, <3>1, ExpectedStays DEF AnswersExpected
  <2>4. CASE call.x = "monotonic" /\ Done(Result("SUCCESS", call.y.nanoseconds))
    BY <2>3, <2>4 DEF HostClock
  <2>5. CASE call.x = "realtime" /\ Done(Timestamp(call.y))
    BY <2>1, <2>3, <2>5, ClocksAgree DEF HostClock
  <2> QED
    BY <1>7, <2>2, <2>4, <2>5 DEF AnswerClock
<1>8. CASE AnswerPrestat \/ AnswerFd
  <2>1. call.fn \in FdMut \cup {"fd_prestat_get", "fd_prestat_dir_name"}
    BY <1>8 DEF AnswerPrestat, AnswerFd, Ends
  <2>2. answer'.call = call
    <3>1. \A result : Done(result) => answer'.call = call
      BY DEF Done, Answers
    <3>2. CASE AnswerPrestat
      BY <3>1, <3>2 DEF AnswerPrestat
    <3>3. CASE AnswerFd
      <4>1. /\ call.fn \in {"fd_close", "fd_renumber", "path_open"}
            /\ call.fn = "fd_close" => FdClose(call.x)
            /\ call.fn = "fd_renumber" => FdRenumber(call.x, call.y)
            /\ call.fn = "path_open" => PathOpen
        BY <3>3 DEF AnswerFd, Ends, FdMut
      <4>2. \A fd : FdClose(fd) => answer'.call = call
        BY <3>1 DEF FdClose, FdFails
      <4>3. \A from, to : FdRenumber(from, to) => answer'.call = call
        BY <3>1 DEF FdRenumber, FdFails
      <4>4. PathOpen => answer'.call = call
        BY <3>1 DEF PathOpen, FdFails
      <4> QED
        BY <4>1, <4>2, <4>3, <4>4
    <3> QED
      BY <1>8, <3>2, <3>3
  <2> QED
    BY <2>1, <2>2 DEF AnswersExpected, FdMut
<1>9. ASSUME NEW c \in Call, CallStateless(c)
      PROVE  AnswersExpected'
  <2>1. CASE c.fn = "sched_yield" /\ Answers(c, Result("SUCCESS", 0))
    <3>1. answer'.result = Expected(c) /\ answer'.call = c
      BY <2>1 DEF Answers, Expected
    <3>2. UNCHANGED builder
      BY <1>9 DEF CallStateless
    <3> QED
      BY <3>1, <3>2, ExpectedStays DEF AnswersExpected
  <2> QED
    BY <1>2, <1>9, <2>1 DEF CallStateless
<1>10. ASSUME NEW c \in Call, CallUnready(c)
       PROVE  AnswersExpected'
  <2>1. UNCHANGED <<answer, builder>> \/ ~answer'.ready
    BY <1>10 DEF CallUnready, Answers, hostVars
  <2> QED
    BY <1>1, <2>1 DEF AnswersExpected
<1>11. ASSUME NEW c \in Call, CallReady(c)
       PROVE  AnswersExpected'
  BY <1>2, <1>11 DEF CallReady
<1>12. CASE UNCHANGED vars
  BY <1>1, <1>12 DEF vars, hostVars, control
<1> QED
  BY <1>3, <1>4, <1>5, <1>6, <1>7, <1>8, <1>9, <1>10, <1>11, <1>12 DEF Next, CallStep

(* The adapter answers as the host does, byte for byte, for any strings    *)
(* that the embedder gives, whichever call comes first and whatever was    *)
(* put into the arena in between.                                          *)
THEOREM AnswersAsHost == Spec => []SameAsHost
<1>1. Init => RandomOwned /\ AnswersExpected
  BY DEF Init, RandomOwned, AnswersExpected
<1>2. Inv /\ MemoryInv => ListsReadBack
  BY ListsFollow
<1>3. Inv /\ AnswersExpected => SameAsHost
  BY HostIsExpected DEF AnswersExpected, SameAsHost, Inv, ImportInv
<1> QED
  BY <1>1, <1>2, <1>3, InvInit, InvNext, ModeInit, ModeNext, MemoryInit, MemoryNext,
     RandomNext, ExpectedNext, PTL DEF Spec

-----------------------------------------------------------------------------
(* The room in the arena *)

(* What is summed so far. *)
Partial(n, w, k) == (CHOOSE it : Sums(it, n, w))[1..k]

LEMMA SumsExist ==
  ASSUME NEW n \in Nat, NEW w
  PROVE  \E it : Sums(it, n, w)
<1> SUFFICES ASSUME ~(\E it : Sums(it, n, w)) PROVE FALSE
  OBVIOUS
<1> DEFINE Bad == {m \in Nat : ~(\E it : Sums(it, m, w))}
<1>1. PICK m \in Bad : \A k \in Bad : m <= k
  <2>1. Bad \in SUBSET Nat /\ Bad # {}
    OBVIOUS
  <2> QED
    BY <2>1, LeastOf
<1>2. CASE m = 0
  <2>1. Sums([s \in SUBSET (1..0) |-> 0], 0, w)
    BY DEF Sums
  <2> QED
    BY <1>2, <2>1
<1>3. CASE m # 0
  <2>1. PICK k \in Nat : m = k + 1
    <3>1. m - 1 \in Nat /\ m = (m - 1) + 1
      BY <1>3
    <3> QED
      BY <3>1
  <2>2. PICK it : Sums(it, k, w)
    <3>1. ~(m <= k)
      BY <2>1
    <3> QED
      BY <1>1, <3>1
  <2>3. \A s \in SUBSET (1..k) : it[s] = IF s = {} THEN 0 ELSE it[s \ {Max(s)}] + w[Max(s)]
    BY <2>2 DEF Sums
  <2> DEFINE wide == [s \in SUBSET (1..m) |->
                       IF s \in SUBSET (1..k) THEN it[s] ELSE it[s \ {m}] + w[m]]
  <2>4. ASSUME NEW s \in SUBSET (1..m)
        PROVE  wide[s] = IF s = {} THEN 0 ELSE wide[s \ {Max(s)}] + w[Max(s)]
    <3>1. CASE s \in SUBSET (1..k)
      <4>1. wide[s] = it[s]
        BY <3>1
      <4>2. s \ {Max(s)} \in SUBSET (1..k) /\ s \ {Max(s)} \in SUBSET (1..m)
        BY <3>1
      <4>3. wide[s \ {Max(s)}] = it[s \ {Max(s)}]
        BY <4>2
      <4> HIDE DEF wide
      <4> QED
        BY <2>3, <3>1, <4>1, <4>3
    <3>2. CASE s \notin SUBSET (1..k)
      <4>1. m \in s /\ \A y \in s : y <= m
        BY <2>1, <3>2
      <4>2. Max(s) = m
        <5>1. m \in Nat /\ s \in SUBSET (1..m) /\ s # {}
          BY <4>1
        <5>2. Max(s) \in s /\ Max(s) >= m
          BY <4>1, <5>1, MaxIs
        <5>3. Max(s) \in 1..m
          BY <5>2
        <5> QED
          BY ONLY <5>1, <5>2, <5>3
      <4>3. s \ {m} \in SUBSET (1..k) /\ s \ {m} \in SUBSET (1..m)
        BY <2>1
      <4>4. wide[s \ {m}] = it[s \ {m}] /\ wide[s] = it[s \ {m}] + w[m]
        BY <3>2, <4>3
      <4> HIDE DEF wide
      <4> QED
        BY <4>1, <4>2, <4>4
    <3> QED
      BY <3>1, <3>2
  <2>5. wide = [s \in SUBSET (1..m) |-> wide[s]]
    OBVIOUS
  <2>6. Sums(wide, m, w)
    <3> HIDE DEF wide
    <3> QED
      BY <2>4, <2>5 DEF Sums
  <2> QED
    BY <2>6
<1> QED
  BY <1>2, <1>3

LEMMA Partials ==
  ASSUME NEW n \in Nat, NEW w, \A i \in 1..n : w[i] \in Nat
  PROVE  /\ Partial(n, w, 0) = 0 /\ Partial(n, w, n) = Sum(n, w)
         /\ \A k \in 0..n : Partial(n, w, k) \in Nat /\ Partial(n, w, k) <= Sum(n, w)
         /\ \A k \in 1..n : Partial(n, w, k) = Partial(n, w, k - 1) + w[k]
<1>1. PICK it : it = (CHOOSE f : Sums(f, n, w))
  OBVIOUS
<1>2. Sums(it, n, w)
  BY <1>1, SumsExist
<1>3. \A k : Partial(n, w, k) = it[1..k]
  BY <1>1 DEF Partial
<1>4. \A s \in SUBSET (1..n) : it[s] = IF s = {} THEN 0 ELSE it[s \ {Max(s)}] + w[Max(s)]
  BY <1>2 DEF Sums
<1>5. \A k \in 0..n : 1..k \in SUBSET (1..n) /\ it[1..k] \in Nat
  BY <1>2, SumsAre
<1>6. it[1..0] = 0
  <2>1. 1..0 = {} /\ {} \in SUBSET (1..n)
    OBVIOUS
  <2> QED
    BY <1>4, <2>1
<1>7. ASSUME NEW k \in 1..n
      PROVE  it[1..k] = it[1..(k - 1)] + w[k]
  <2>1. k \in Nat /\ 1..k \in SUBSET (1..n) /\ k \in 1..k /\ 1..k # {}
    OBVIOUS
  <2>2. Max(1..k) = k
    <3>1. PICK m : m = Max(1..k)
      OBVIOUS
    <3>2. m \in 1..k /\ m >= k
      BY <2>1, <3>1, MaxIs
    <3> QED
      BY <2>1, <3>1, <3>2
  <2>3. (1..k) \ {k} = 1..(k - 1)
    BY <2>1
  <2> QED
    BY <1>4, <2>1, <2>2, <2>3
<1>8. \A k \in 0..n : it[1..k] <= it[1..n]
  <2> SUFFICES ASSUME NEW b \in 0..n, ~(it[1..b] <= it[1..n]) PROVE FALSE
    OBVIOUS
  <2> DEFINE Bad == {j \in Nat : j <= n /\ ~(it[1..(n - j)] <= it[1..n])}
  <2>1. PICK j \in Bad : \A i \in Bad : j <= i
    <3>1. n - b \in Nat /\ n - b <= n /\ n - (n - b) = b
      OBVIOUS
    <3>2. Bad \in SUBSET Nat /\ Bad # {}
      BY <3>1
    <3> QED
      BY <3>2, LeastOf
  <2>2. j # 0
    BY <1>5
  <2>3. j - 1 \notin Bad /\ j - 1 \in Nat /\ j - 1 <= n
    <3>1. j \in Nat /\ j <= n
      OBVIOUS
    <3>2. ~(j <= j - 1) /\ j - 1 \in Nat /\ j - 1 <= n
      BY ONLY <2>2, <3>1, n \in Nat
    <3> HIDE DEF Bad
    <3> QED
      BY <2>1, <3>2
  <2>4. PICK k : k = n - (j - 1)
    OBVIOUS
  <2>5. k \in 1..n /\ k - 1 = n - j /\ k - 1 \in 0..n /\ k \in 0..n
    BY <2>2, <2>4
  <2>6. it[1..k] <= it[1..n] /\ ~(it[1..(k - 1)] <= it[1..n])
    BY <2>3, <2>4, <2>5
  <2>7. PICK a, c, d : a = it[1..(k - 1)] /\ c = it[1..k] /\ d = it[1..n]
    OBVIOUS
  <2>8. a \in Nat /\ c \in Nat /\ d \in Nat
    BY <1>5, <2>5, <2>7
  <2>9. c = a + w[k] /\ w[k] \in Nat
    BY <1>7, <2>5, <2>7
  <2> QED
    BY ONLY <2>6, <2>7, <2>8, <2>9
<1> QED
  BY <1>3, <1>5, <1>6, <1>7, <1>8 DEF Sum, Partial

(* The lengths of the strings of a list, and what a list takes at most. *)
Lengths(list) == [i \in 1..Len(Strings(list)) |-> Len(Strings(list)[i])]
Upto(list, k) == (Word - 1) + Size(list) + Partial(Len(Strings(list)), Lengths(list), k)

LEMMA DemandIs ==
  ASSUME builder \in Builders, NEW list \in List
  PROVE  /\ Demand(list) = Upto(list, Len(Strings(list)))
         /\ \A k \in 0..Len(Strings(list)) : Upto(list, k) \in Nat /\ Upto(list, k) <= Demand(list)
         /\ \A k \in 1..Len(Strings(list)) :
              Upto(list, k) = Upto(list, k - 1) + Len(Strings(list)[k])
         /\ Upto(list, 0) = (Word - 1) + Size(list)
<1>1. PICK strs, n, w : strs = Strings(list) /\ n = Len(Strings(list)) /\ w = Lengths(list)
  OBVIOUS
<1>2. n \in Nat /\ \A i \in 1..n : w[i] \in Nat /\ w[i] = Len(strs[i])
  BY <1>1, StringsShape DEF Lengths, IsString
<1>3. DOMAIN strs = 1..n
  <2>1. builder.args \in Seq(Nat) /\ builder.env \in Seq(Nat \X Nat) /\ builder.dirs \in Seq(Nat)
    BY BuildersAssumption
  <2>2. CASE list = "args"
    BY <1>1, <2>1, <2>2 DEF Strings, Args
  <2>3. CASE list = "preopens"
    BY <1>1, <2>1, <2>3 DEF Strings, DirNames
  <2>4. CASE list = "env"
    <3>1. Len(Env) \in Nat
      BY <2>1 DEF Env
    <3>2. 2 * Len(Env) \in Nat
      BY <3>1
    <3>3. strs = [i \in 1..(2 * Len(Env)) |->
                   IF i % 2 = 1 THEN Env[(i + 1) \div 2].key ELSE Env[i \div 2].value]
      BY <1>1, <2>4 DEF Strings
    <3> QED
      BY <1>1, <3>2, <3>3
  <2> QED
    BY <2>2, <2>3, <2>4 DEF List
<1>4. Letters(strs) = Sum(n, w)
  <2> DEFINE Body(it) == [s \in SUBSET (1..n) |-> IF s = {} THEN 0
                             ELSE it[s \ {Max(s)}] + Len(strs[Max(s)])]
  <2>1. ASSUME NEW it
        PROVE  it = Body(it) <=> Sums(it, n, w)
    <3>1. \A s \in SUBSET (1..n) : s # {} => Len(strs[Max(s)]) = w[Max(s)]
      BY <1>2, MaxIs
    <3> QED
      BY <3>1 DEF Sums
  <2>2. (CHOOSE it : it = Body(it)) = CHOOSE it : Sums(it, n, w)
    BY <2>1, Zenon
  <2>3. Letters(strs) = (CHOOSE it : it = Body(it))[1..n]
    BY <1>3 DEF Letters, FoldLeft, MapThenFoldSet
  <2> QED
    BY <2>2, <2>3 DEF Sum
<1>5. PICK rest : rest = (Word - 1) + Size(list)
  OBVIOUS
<1>6. rest \in Nat
  BY <1>5, SizeIsNat, ArenaAssumption
<1>7. \A k : Upto(list, k) = rest + Partial(n, w, k)
  BY <1>1, <1>5 DEF Upto
<1>8. Demand(list) = rest + Sum(n, w)
  BY <1>1, <1>4, <1>5 DEF Demand, Size
<1>9. /\ Partial(n, w, 0) = 0 /\ Partial(n, w, n) = Sum(n, w)
      /\ \A k \in 0..n : Partial(n, w, k) \in Nat /\ Partial(n, w, k) <= Sum(n, w)
      /\ \A k \in 1..n : Partial(n, w, k) = Partial(n, w, k - 1) + w[k]
  BY <1>2, Partials
<1>10. Sum(n, w) \in Nat
  <2>1. n \in 0..n
    BY <1>2
  <2> QED
    BY <1>9, <2>1
<1>11. ASSUME NEW k \in 0..n
       PROVE  Upto(list, k) \in Nat /\ Upto(list, k) <= Demand(list)
  <2>1. PICK a : a = Partial(n, w, k)
    OBVIOUS
  <2>2. a \in Nat /\ a <= Sum(n, w)
    BY <1>9, <2>1
  <2> QED
    BY <1>6, <1>7, <1>8, <1>10, <2>1, <2>2
<1>12. ASSUME NEW k \in 1..n
       PROVE  Upto(list, k) = Upto(list, k - 1) + Len(strs[k])
  <2>1. PICK a, b : a = Partial(n, w, k) /\ b = Partial(n, w, k - 1)
    OBVIOUS
  <2>2. k - 1 \in 0..n
    BY <1>2
  <2>3. a = b + w[k] /\ b \in Nat /\ w[k] \in Nat /\ w[k] = Len(strs[k])
    BY <1>2, <1>9, <2>1, <2>2
  <2>4. Upto(list, k) = rest + a /\ Upto(list, k - 1) = rest + b
    BY <1>7, <2>1
  <2> QED
    BY ONLY <1>6, <2>3, <2>4
<1>13. Upto(list, 0) = rest /\ Demand(list) = Upto(list, n)
  BY <1>6, <1>7, <1>8, <1>9
<1> QED
  BY <1>1, <1>5, <1>11, <1>12, <1>13

(* What is asked for is the embedder's. *)
LEMMA DemandStays ==
  ASSUME builder' = builder
  PROVE  \A list : /\ Strings(list)' = Strings(list) /\ Size(list)' = Size(list)
                   /\ Demand(list)' = Demand(list) /\ \A k : Upto(list, k)' = Upto(list, k)
<1>1. Args' = Args /\ Env' = Env /\ DirNames' = DirNames
  BY DEF Args, Env, DirNames
<1>2. ASSUME NEW list
      PROVE  /\ Strings(list)' = Strings(list) /\ Size(list)' = Size(list)
             /\ Elements(list)' = Elements(list)
  BY <1>1 DEF Strings, Size, Elements, Element
<1>3. ASSUME NEW list
      PROVE  Demand(list)' = Demand(list)
  <2>1. /\ Demand(list) = (Word - 1) + Size(list) + Letters(Strings(list))
        /\ Demand(list)' = (Word - 1) + Size(list)' + Letters(Strings(list)')
    BY DEF Demand, Size
  <2> QED
    BY <1>2, <2>1
<1>4. ASSUME NEW list, NEW k
      PROVE  Upto(list, k)' = Upto(list, k)
  <2>1. Lengths(list)' = Lengths(list)
    BY <1>2 DEF Lengths
  <2> QED
    BY <1>2, <2>1 DEF Upto
<1> QED
  BY <1>2, <1>3, <1>4

(* The host asks for memory while it has the arena. *)
ListImporting == import # Absent /\ import.list # "random" => arena

(* What a list has taken at most so far, and what all have. *)
Spent(list) ==
  IF Cached(list) THEN Demand(list)
  ELSE IF Writing /\ import.list = list THEN Upto(list, import.next - 1)
  ELSE 0

Total(f) == f["args"] + f["env"] + f["preopens"]
Spendings == [list \in List |-> Spent(list)]
Demands == [list \in List |-> Demand(list)]

RoomInv ==
  /\ ListImporting
  /\ trapped = None => position <= Total(Spendings)
  /\ TrapsOnlyWhenFull

LEMMA Totals ==
  ASSUME NEW f \in [List -> Nat], NEW g \in [List -> Nat]
  PROVE  /\ Total(f) \in Nat /\ Total(g) \in Nat
         /\ (\A l \in List : f[l] <= g[l]) => Total(f) <= Total(g)
         /\ \A list \in List, d \in Nat :
              /\ \A l \in List : g[l] = IF l = list THEN f[l] + d ELSE f[l]
              => Total(g) = Total(f) + d
         /\ \A list \in List, d \in Nat :
              /\ f[list] + d <= g[list] /\ \A l \in List : f[l] <= g[l]
              => Total(f) + d <= Total(g)
BY DEF Total, List

LEMMA SpentBound ==
  ASSUME Inv, MemoryInv, NEW list \in List
  PROVE  /\ Spent(list) \in Nat /\ Spent(list) <= Demand(list) /\ Demand(list) \in Nat
<1>1. /\ builder \in Builders /\ Len(Strings(list)) \in Nat
  BY StringsShape DEF Inv, ImportInv
<1>2. Demand(list) \in Nat
  <2>1. Len(Strings(list)) \in 0..Len(Strings(list))
    BY <1>1
  <2> QED
    BY <1>1, <2>1, DemandIs
<1>3. ASSUME Writing, import.list = list
      PROVE  Upto(list, import.next - 1) \in Nat /\ Upto(list, import.next - 1) <= Demand(list)
  <2>1. PICK k : k = import.next
    OBVIOUS
  <2>2. k \in Nat /\ k > 0 /\ k <= Len(Strings(list)) + 1
    BY <1>3, <2>1 DEF Writing, Inv, ImportInv, ListImport, MemoryInv
  <2>3. k - 1 \in 0..Len(Strings(list))
    BY <1>1, <2>2
  <2> QED
    BY <1>1, <2>1, <2>3, DemandIs
<1> QED
  BY <1>2, <1>3 DEF Spent

LEMMA SpendingsAre ==
  ASSUME Inv, MemoryInv
  PROVE  /\ Spendings \in [List -> Nat] /\ Demands \in [List -> Nat]
         /\ \A l \in List : Spendings[l] = Spent(l) /\ Demands[l] = Demand(l)
         /\ \A l \in List : Spendings[l] <= Demands[l]
         /\ Total(Demands) = Demand("args") + Demand("env") + Demand("preopens")
BY SpentBound DEF Spendings, Demands, Total, List

(* A list is kept for what is spent on it. *)
LEMMA SpentStays ==
  ASSUME UNCHANGED <<builder, args, env_vars, preopens>>,
         Writing' <=> Writing, Writing => import' = import
  PROVE  \A list : Spent(list)' = Spent(list)
<1> SUFFICES ASSUME NEW list PROVE Spent(list)' = Spent(list)
  OBVIOUS
<1>1. Cached(list)' <=> Cached(list)
  BY DEF Cached
<1>2. Demand(list)' = Demand(list) /\ \A k : Upto(list, k)' = Upto(list, k)
  BY DemandStays
<1>3. Writing => Upto(list, import.next - 1)' = Upto(list, import.next - 1)
  BY DemandStays
<1> QED
  BY <1>1, <1>2, <1>3 DEF Spent

(* A step that takes nothing. *)
LEMMA RoomStays ==
  ASSUME RoomInv, Inv, MemoryInv, ModeInv', ListImporting',
         UNCHANGED <<builder, args, env_vars, preopens, position>>,
         Writing' <=> Writing, Writing => import' = import,
         trapped' # None => trapped' = trapped \/ trapped' \notin {"memory", "slots"},
         trapped' = None => trapped = None
  PROVE  RoomInv'
<1>1. \A list : Spent(list)' = Spent(list) /\ Demand(list)' = Demand(list)
  BY SpentStays, DemandStays
<1>2. Total(Spendings)' = Total(Spendings)
  BY <1>1 DEF Total, Spendings, List
<1>3. trapped' = None => position' <= Total(Spendings)'
  BY <1>2 DEF RoomInv
<1>4. NumEntries' = NumEntries
  BY DEF NumEntries, DirNames
<1>5. None \notin {"memory", "slots"}
  BY CauseAssumption DEF Cause
<1>6. TrapsOnlyWhenFull'
  <2>1. AllocatorFree'
    BY DEF ModeInv
  <2>2. trapped' \in {"memory", "slots"} => trapped' = trapped
    BY <1>5
  <2> QED
    BY <1>1, <1>4, <2>1, <2>2 DEF RoomInv, TrapsOnlyWhenFull
<1> QED
  BY <1>3, <1>6 DEF RoomInv

(* A step of the import of a list that takes d bytes of what it may. *)
LEMMA RoomTaken ==
  ASSUME RoomInv, Inv, MemoryInv, Inv', MemoryInv', ModeInv', ListImporting',
         UNCHANGED <<builder, trapped>>, trapped = None,
         NEW list \in List, NEW d \in Nat, position' <= position + d,
         \A l \in List : Spent(l)' = IF l = list THEN Spent(l) + d ELSE Spent(l)
  PROVE  RoomInv'
<1>1. /\ Spendings \in [List -> Nat]
      /\ \A l \in List : Spendings[l] = Spent(l)
  BY SpendingsAre
<1>2. PICK f : f = Spendings
  OBVIOUS
<1>3. \A l \in List : Spent(l)' \in Nat
  BY <1>1
<1>4. Spendings' = [l \in List |-> Spent(l)']
  BY DEF Spendings
<1>5. PICK g : g = [l \in List |-> IF l = list THEN f[l] + d ELSE f[l]]
  OBVIOUS
<1>6. f \in [List -> Nat] /\ g \in [List -> Nat]
  BY <1>1, <1>2, <1>5
<1>7. Total(g) = Total(f) + d /\ Total(f) \in Nat
  <2>1. \A l \in List : g[l] = IF l = list THEN f[l] + d ELSE f[l]
    BY <1>5
  <2> QED
    BY ONLY <1>6, <2>1, Totals, d \in Nat, list \in List
<1>8. Spendings' = g
  BY <1>1, <1>2, <1>4, <1>5
<1>9. Total(Spendings)' = Total(g)
  BY <1>8 DEF Total
<1>10. position <= Total(f) /\ position \in Nat /\ position' \in Nat
  BY <1>2 DEF RoomInv, Inv, ArenaInv
<1>11. position' <= Total(Spendings)'
  BY ONLY <1>7, <1>9, <1>10, d \in Nat, position' <= position + d
<1>12. None \notin {"memory", "slots"}
  BY CauseAssumption DEF Cause
<1>13. TrapsOnlyWhenFull'
  BY <1>12 DEF ModeInv, TrapsOnlyWhenFull
<1> QED
  BY <1>11, <1>13 DEF RoomInv

(* A trap for want of memory. *)
LEMMA MemoryTraps ==
  ASSUME RoomInv, Inv, MemoryInv, OneImport, trapped = None, Asks, ~AskFits
  PROVE  Demand("args") + Demand("env") + Demand("preopens") > ArenaSize
<1>1. PICK list, n, k : list = import.list /\ n = Len(Strings(list)) /\ k = import.next
  OBVIOUS
<1>2. /\ arena /\ list \in List /\ k \in Nat /\ ~Cached(list) /\ builder \in Builders
      /\ n \in Nat
  <2>1. arena
    BY DEF RoomInv, ListImporting, Asks
  <2>2. list \in List /\ k \in Nat /\ ~Cached(list) /\ builder \in Builders
    BY <1>1, <2>1 DEF Inv, ImportInv, ListImport, OneImport
  <2> QED
    BY <1>1, <2>1, <2>2, StringsShape
<1>3. PICK f, g : f = Spendings /\ g = Demands
  OBVIOUS
<1>4. /\ f \in [List -> Nat] /\ g \in [List -> Nat]
      /\ \A l \in List : f[l] <= g[l] /\ f[l] = Spent(l) /\ g[l] = Demand(l)
      /\ Total(g) = Demand("args") + Demand("env") + Demand("preopens")
  BY <1>3, SpendingsAre
<1>5. position <= Total(f)
  BY <1>3 DEF RoomInv
<1>6. position \in Nat /\ Base \in Nat /\ ArenaSize \in Nat /\ Word \in Nat \ {0}
  BY ArenaAssumption DEF Inv, ArenaInv
<1>7. PICK d \in Nat : position + d > ArenaSize /\ f[list] + d <= g[list]
  <2>1. CASE k = 0
    <3>1. PICK size : size = Size(list)
      OBVIOUS
    <3>2. ~FitsArena(Word, size) /\ size \in Nat
      BY <1>1, <1>2, <2>1, <3>1, SizeIsNat DEF AskFits, ListSize, Size
    <3>3. PICK at : at = Allocated(Word)
      OBVIOUS
    <3>4. at - Base + size > ArenaSize
      BY <1>6, <3>2, <3>3, AlignsUp DEF FitsArena, Allocated
    <3>5. at <= Base + position + (Word - 1)
      <4>1. PICK q : q = Base + position + (Word - 1)
        OBVIOUS
      <4>2. q \in Nat
        BY <1>6, <4>1
      <4>3. q % Word \in 0..(Word - 1) /\ at = q - (q % Word)
        BY <1>6, <3>3, <4>1, <4>2 DEF Allocated, AlignTo
      <4> QED
        BY <1>6, <4>1, <4>2, <4>3
    <3>6. at \in Nat
      BY <1>6, <3>3, AlignsUp DEF Allocated
    <3>7. (Word - 1) + size \in Nat /\ position + ((Word - 1) + size) > ArenaSize
      BY ONLY <1>6, <3>2, <3>4, <3>5, <3>6
    <3>8. f[list] = 0
      <4>1. ~Writing
        BY <1>1, <2>1 DEF Writing
      <4> QED
        BY <1>2, <1>4, <4>1 DEF Spent
    <3>9. (Word - 1) + size <= g[list]
      <4>1. 0 \in 0..n /\ Upto(list, 0) = (Word - 1) + size
        BY <1>1, <1>2, <3>1, DemandIs
      <4> QED
        BY <1>1, <1>2, <1>4, <4>1, DemandIs
    <3> QED
      BY <1>4, <3>7, <3>8, <3>9
  <2>2. CASE k # 0
    <3>1. PICK w : w = Len(Strings(list)[k])
      OBVIOUS
    <3>2. k \in 1..n /\ ~FitsArena(1, w)
      BY <1>1, <2>2, <3>1 DEF Asks, AskFits, MoreStrings, NextString
    <3>3. w \in Nat
      BY <1>1, <1>2, <3>1, <3>2, StringsShape DEF IsString
    <3>4. Allocated(1) = Base + position
      BY <1>6 DEF Allocated, AlignTo
    <3>5. position + w > ArenaSize
      BY <1>6, <3>2, <3>3, <3>4 DEF FitsArena
    <3>6. f[list] = Upto(list, k - 1)
      <4>1. Writing
        BY <1>1, <1>2, <2>2 DEF Writing
      <4> QED
        BY <1>1, <1>2, <1>4, <4>1 DEF Spent
    <3>7. Upto(list, k) = Upto(list, k - 1) + w /\ Upto(list, k) <= g[list]
      <4>1. k \in 0..n
        BY <3>2
      <4> QED
        BY <1>1, <1>2, <1>4, <3>1, <3>2, <4>1, DemandIs
    <3> QED
      BY <3>3, <3>5, <3>6, <3>7
  <2> QED
    BY <2>1, <2>2
<1>8. Total(f) + d <= Total(g) /\ Total(f) \in Nat /\ Total(g) \in Nat
  BY <1>2, <1>4, <1>7, Totals
<1> QED
  BY ONLY <1>4, <1>5, <1>6, <1>7, <1>8

(* As long as it runs, an instance has taken no more than its lists may.   *)
LEMMA RoomInit == Init => RoomInv
<1> SUFFICES ASSUME Init PROVE RoomInv
  OBVIOUS
<1>1. /\ position = 0 /\ import = Absent /\ trapped = None /\ ~arena
      /\ args = Absent /\ env_vars = Absent /\ preopens = Absent
  BY DEF Init, ArenaInit
<1>2. Total(Spendings) = 0
  BY <1>1 DEF Total, Spendings, Spent, Writing, Cached, List
<1>3. None \notin Cause
  BY CauseAssumption
<1> QED
  BY <1>1, <1>2, <1>3 DEF RoomInv, ListImporting, TrapsOnlyWhenFull, AllocatorFree, Cause

(* The list is allocated. *)
LEMMA RoomForList ==
  ASSUME RoomInv, Inv, MemoryInv, OneImport, Inv', MemoryInv', ModeInv', ListAllocated
  PROVE  RoomInv'
<1>1. PICK list, size : list = import.list /\ size = Size(list)
  OBVIOUS
<1>2. /\ arena /\ arena' /\ import.next = 0 /\ trapped = None
      /\ UNCHANGED <<builder, trapped, args, env_vars, preopens>>
      /\ list \in List /\ ~Cached(list) /\ builder \in Builders
  BY <1>1 DEF ListAllocated, Importing, Runs, ArenaAlloc, hostVars, lists, control, Inv, ImportInv,
     ListImport, OneImport
<1>3. import'.list = list /\ import'.next = 1
  BY <1>1, <1>2 DEF ListAllocated, Inv, ImportInv, ListImport
<1>4. PICK d : d = (Word - 1) + size
  OBVIOUS
<1>5. position \in Nat /\ Base \in Nat /\ Word \in Nat \ {0} /\ size \in Nat /\ d \in Nat
  BY <1>1, <1>2, <1>4, SizeIsNat, ArenaAssumption DEF Inv, ArenaInv
<1>6. position' <= position + d
  <2>1. PICK q : q = Base + position + (Word - 1)
    OBVIOUS
  <2>2. q \in Nat
    BY <1>5, <2>1
  <2>3. q % Word \in 0..(Word - 1)
    BY <1>5, <2>2
  <2>4. position' = (q - (q % Word)) - Base + size
    <3>1. Allocated(Word) = q - (q % Word)
      BY <1>5, <2>1 DEF Allocated, AlignTo
    <3>2. position' = Allocated(Word) - Base + size
      BY <1>1 DEF ListAllocated, ArenaAlloc, PositionAfter, ListSize, Size
    <3> QED
      BY <3>1, <3>2
  <2>5. PICK r : r = q % Word
    OBVIOUS
  <2> QED
    BY <1>4, <1>5, <2>1, <2>2, <2>3, <2>4, <2>5
<1>7. ~Writing /\ Writing'
  BY <1>2, <1>3 DEF Writing
<1>8. \A l \in List : Spent(l)' = IF l = list THEN Spent(l) + d ELSE Spent(l)
  <2>1. \A l : Demand(l)' = Demand(l) /\ Upto(l, 0)' = Upto(l, 0) /\ (Cached(l)' <=> Cached(l))
    BY <1>2, DemandStays DEF Cached
  <2>2. Upto(list, 0) = d
    BY <1>1, <1>2, <1>4, DemandIs
  <2>3. Spent(list) = 0
    BY <1>2, <1>7 DEF Spent
  <2>4. Spent(list)' = Upto(list, 0)'
    BY <1>2, <1>3, <1>7, <2>1 DEF Spent
  <2>5. ASSUME NEW l \in List, l # list PROVE Spent(l)' = Spent(l)
    BY <1>3, <1>7, <2>1, <2>5 DEF Spent
  <2>6. Spent(list)' = Spent(list) + d
    BY <1>5, <2>1, <2>2, <2>3, <2>4
  <2> QED
    BY <2>5, <2>6
<1>9. ListImporting'
  BY <1>2 DEF ListImporting
<1> QED
  BY <1>2, <1>5, <1>6, <1>8, <1>9, RoomTaken

(* A string is allocated. *)
LEMMA RoomForString ==
  ASSUME RoomInv, Inv, MemoryInv, OneImport, Inv', MemoryInv', ModeInv', StringAllocated
  PROVE  RoomInv'
<1>1. PICK list, n, k, d : /\ list = import.list /\ n = Len(Strings(list)) /\ k = import.next
                           /\ d = Len(Strings(list)[k])
  OBVIOUS
<1>2. /\ arena /\ arena' /\ k \in 1..n /\ trapped = None
      /\ UNCHANGED <<builder, trapped, args, env_vars, preopens>>
      /\ list \in List /\ ~Cached(list) /\ builder \in Builders
  BY <1>1 DEF StringAllocated, MoreStrings, Importing, Runs, ArenaAlloc, hostVars, lists, control,
     Inv, ImportInv, ListImport, OneImport
<1>3. n \in Nat /\ k \in Nat /\ d \in Nat
  BY <1>1, <1>2, StringsShape DEF IsString
<1>4. import'.list = list /\ import'.next = k + 1
  BY <1>1, <1>2 DEF StringAllocated, Inv, ImportInv, ListImport
<1>5. position \in Nat /\ Base \in Nat
  BY ArenaAssumption DEF Inv, ArenaInv
<1>6. position' <= position + d
  <2>1. Allocated(1) = Base + position
    BY <1>5 DEF Allocated, AlignTo
  <2>2. position' = Allocated(1) - Base + d
    BY <1>1 DEF StringAllocated, ArenaAlloc, PositionAfter, NextString
  <2> QED
    BY <1>3, <1>5, <2>1, <2>2
<1>7. Writing /\ Writing'
  BY <1>1, <1>2, <1>3, <1>4 DEF Writing
<1>8. \A l \in List : Spent(l)' = IF l = list THEN Spent(l) + d ELSE Spent(l)
  <2>1. /\ \A l : Demand(l)' = Demand(l) /\ (Cached(l)' <=> Cached(l))
        /\ \A l, m : Upto(l, m)' = Upto(l, m)
    BY <1>2, DemandStays DEF Cached
  <2>2. Upto(list, k) = Upto(list, k - 1) + d
    BY <1>1, <1>2, DemandIs
  <2>3. Spent(list) = Upto(list, k - 1)
    BY <1>1, <1>2, <1>7 DEF Spent
  <2>4. (k + 1) - 1 = k
    BY <1>3
  <2>5. Upto(list, k)' = Upto(list, k)
    BY <2>1
  <2>6. Spent(list)' = Upto(list, k)'
    BY <1>2, <1>4, <1>7, <2>1, <2>4 DEF Spent
  <2>7. ASSUME NEW l \in List, l # list PROVE Spent(l)' = Spent(l)
    BY <1>1, <1>4, <1>7, <2>1, <2>7 DEF Spent
  <2>8. Spent(list)' = Spent(list) + d
    BY <2>2, <2>3, <2>5, <2>6
  <2> QED
    BY <2>7, <2>8
<1>9. ListImporting'
  BY <1>2 DEF ListImporting
<1> QED
  BY <1>2, <1>3, <1>6, <1>8, <1>9, RoomTaken

(* A list is kept for what was spent on it. *)
LEMMA RoomKept ==
  ASSUME RoomInv, Inv, MemoryInv, OneImport, Inv', MemoryInv', ModeInv', Imported,
         import.list \in List, ~arena', import' = Absent, trapped' = trapped, builder' = builder,
         position' = position,
         \A l \in List : Cached(l)' <=> (Cached(l) \/ l = import.list)
  PROVE  RoomInv'
<1>1. PICK list, n : list = import.list /\ n = Len(Strings(list))
  OBVIOUS
<1>2. /\ arena /\ trapped = None /\ list \in List /\ ~Cached(list) /\ builder \in Builders
      /\ n \in Nat /\ import.next = n + 1
  BY <1>1, StringsShape DEF Imported, Importing, Runs, Inv, ImportInv, OneImport
<1>3. Writing /\ ~Writing'
  BY <1>2 DEF Writing
<1>4. \A l \in List : Spent(l)' = IF l = list THEN Spent(l) + 0 ELSE Spent(l)
  <2>1. \A l : Demand(l)' = Demand(l)
    BY DemandStays
  <2>2. Demand(list) = Upto(list, n) /\ Demand(list) \in Nat
    BY <1>1, <1>2, DemandIs, SpentBound
  <2>3. (n + 1) - 1 = n
    BY <1>2
  <2>4. Spent(list) = Upto(list, n)
    BY <1>1, <1>2, <1>3, <2>3 DEF Spent
  <2>5. Spent(list)' = Demand(list)
    BY <1>1, <1>2, <2>1 DEF Spent
  <2>6. ASSUME NEW l \in List, l # list PROVE Spent(l)' = Spent(l)
    BY <1>1, <1>3, <2>1, <2>6 DEF Spent
  <2>7. Spent(list) + 0 = Spent(list)
    BY <2>2, <2>4
  <2> QED
    BY <2>2, <2>4, <2>5, <2>6, <2>7
<1>5. ListImporting'
  BY DEF ListImporting
<1>6. position' <= position + 0
  BY DEF Inv, ArenaInv
<1> QED
  BY <1>1, <1>2, <1>4, <1>5, <1>6, RoomTaken

LEMMA ImportedIsKept ==
  ASSUME Inv, Imported, import.list \in List
  PROVE  ImportedList # Absent
<1>1. import \in ListImport /\ Elements(import.list) \in Nat
  BY StringsShape DEF Imported, Importing, Inv, ImportInv
<1>2. ImportedList \in [ptr : Nat, len : Nat]
  BY <1>1 DEF ImportedList, ListImport
<1> QED
  BY <1>2, ArenaAssumption

LEMMA RoomNext ==
  /\ Inv /\ MemoryInv /\ ModeInv /\ OneImport /\ RoomInv
  /\ Inv' /\ MemoryInv' /\ ModeInv'
  /\ [Next]_vars
  => RoomInv'
<1> SUFFICES ASSUME Inv, MemoryInv, ModeInv, OneImport, RoomInv, Inv', MemoryInv', ModeInv',
                    [Next]_vars
             PROVE  RoomInv'
  OBVIOUS
<1>1. ASSUME UNCHANGED <<builder, args, env_vars, preopens, position, arena, import>>,
             trapped' = trapped \/ (trapped' # None /\ trapped' \notin {"memory", "slots"})
      PROVE  RoomInv'
  <2>1. (Writing' <=> Writing) /\ ListImporting'
    BY <1>1 DEF Writing, RoomInv, ListImporting
  <2> QED
    BY <1>1, <2>1, RoomStays
<1>2. None \notin Cause
  BY CauseAssumption
<1>3. CASE Builds
  <2>1. UNCHANGED <<builder, args, env_vars, preopens, position, arena, import, trapped>>
    BY <1>3 DEF Builds, BuildPushes, BuildEnds, arenaVars, lists, control
  <2> QED
    BY <1>1, <2>1
<1>4. CASE Imports
  <2>1. /\ UNCHANGED <<builder, args, env_vars, preopens, position, trapped>> /\ ~arena /\ arena'
        /\ import'.next = 0
    BY <1>4 DEF Imports, WithArena, hostVars, lists, control
  <2>2. ~Writing /\ ~Writing' /\ ListImporting'
    BY <2>1 DEF Writing, ListImporting
  <2> QED
    BY <2>1, <2>2, RoomStays
<1>5. CASE ListAllocated
  BY <1>5, RoomForList
<1>6. CASE StringAllocated
  BY <1>6, RoomForString
<1>7. CASE ImportTraps
  <2>1. /\ UNCHANGED <<builder, args, env_vars, preopens, position, arena, import>>
        /\ trapped = None /\ trapped' = TrapReason /\ TrapReason # None
    BY <1>7 DEF ImportTraps, Runs, Traps, arenaVars, hostVars, lists
  <2>2. CASE TrapReason # "memory"
    <3>1. TrapReason # "slots"
      BY <1>2 DEF TrapReason, Cause
    <3> QED
      BY <1>1, <2>1, <2>2, <3>1
  <2>3. CASE TrapReason = "memory"
    <3>1. Asks /\ ~AskFits
      BY <1>2, <2>3 DEF TrapReason, Cause
    <3>2. Demand("args") + Demand("env") + Demand("preopens") > ArenaSize
      BY <2>1, <3>1, MemoryTraps
    <3>3. TrapsOnlyWhenFull'
      <4>1. \A l : Demand(l)' = Demand(l)
        BY <2>1, DemandStays
      <4> QED
        BY <2>1, <2>3, <3>2, <4>1 DEF TrapsOnlyWhenFull, ModeInv
    <3>4. ListImporting'
      BY <2>1 DEF RoomInv, ListImporting
    <3> QED
      BY <2>1, <2>3, <3>3, <3>4 DEF RoomInv
  <2> QED
    BY <2>2, <2>3
<1>8. CASE ListReturns
  <2>1. /\ Imported /\ import.list \in List /\ ~arena' /\ import' = Absent
        /\ UNCHANGED <<trapped, builder, position, preopens>>
        /\ IF import.list = "args" THEN args' = ImportedList /\ UNCHANGED env_vars
           ELSE env_vars' = ImportedList /\ UNCHANGED args
        /\ import.list \in {"args", "env"}
    BY <1>8 DEF ListReturns, ArenaReturns, hostVars, control, List
  <2>2. ImportedList # Absent
    BY <2>1, ImportedIsKept
  <2>3. \A l \in List : Cached(l)' <=> (Cached(l) \/ l = import.list)
    BY <2>1, <2>2 DEF Cached, List
  <2> QED
    BY <2>1, <2>3, RoomKept
<1>9. CASE PreopensReturn
  <2>1. /\ Imported /\ import.list = "preopens" /\ import.list \in List /\ ~arena' /\ import' = Absent
        /\ UNCHANGED <<builder, position, args, env_vars>> /\ trapped = None
    BY <1>9 DEF PreopensReturn, ArenaReturns, hostVars, List, Imported, Importing, Runs
  <2>2. CASE 3 + Elements("preopens") > MAX_DESCRIPTORS
    <3>1. trapped' = "slots" /\ UNCHANGED preopens
      BY <1>9, <2>2 DEF PreopensReturn, Traps
    <3>2. NumEntries' > MAX_DESCRIPTORS
      BY <2>1, <2>2 DEF NumEntries, Elements, DirNames
    <3>3. "slots" # None
      BY <1>2 DEF Cause
    <3> QED
      BY <2>1, <3>1, <3>2, <3>3 DEF RoomInv, ListImporting, TrapsOnlyWhenFull, ModeInv
  <2>3. CASE ~(3 + Elements("preopens") > MAX_DESCRIPTORS)
    <3>1. preopens' = ImportedList /\ UNCHANGED trapped
      BY <1>9, <2>3 DEF PreopensReturn
    <3>2. ImportedList # Absent
      BY <2>1, ImportedIsKept
    <3>3. \A l \in List : Cached(l)' <=> (Cached(l) \/ l = import.list)
      BY <2>1, <3>1, <3>2 DEF Cached, List
    <3> QED
      BY <2>1, <3>1, <3>3, RoomKept
  <2> QED
    BY <2>2, <2>3
<1>10. CASE RandomImports \/ RandomAllocated \/ RandomReturns
  <2>1. UNCHANGED <<builder, args, env_vars, preopens, position, trapped, arena>>
    BY <1>10 DEF RandomImports, RandomAllocated, RandomReturns, WithBuffer, BufferAlloc,
       BufferReturns, hostVars, lists, control
  <2>2. ~arena
    <3>1. CASE RandomImports \/ RandomAllocated
      BY <3>1 DEF RandomImports, RandomAllocated, WithBuffer, BufferAlloc
    <3>2. CASE RandomReturns
      BY <3>2 DEF RandomReturns, ModeInv, ArenaUsed, List
    <3> QED
      BY <1>10, <3>1, <3>2
  <2>3. ~Writing /\ ~Writing'
    BY <2>1, <2>2 DEF Writing
  <2>4. ListImporting'
    <3>1. CASE RandomImports
      BY <3>1 DEF RandomImports, ListImporting
    <3>2. CASE RandomAllocated
      <4>1. import \in Import /\ import.list = "random"
        BY <3>2 DEF RandomAllocated, ModeInv, ImportUsed
      <4>2. import'.list = "random"
        BY <3>2, <4>1 DEF RandomAllocated, Import
      <4> QED
        BY <4>2 DEF ListImporting
    <3>3. CASE RandomReturns
      BY <3>3 DEF RandomReturns, ListImporting
    <3> QED
      BY <1>10, <3>1, <3>2, <3>3
  <2> QED
    BY <2>1, <2>3, <2>4, RoomStays
<1>11. CASE AnswerClock
  <2>1. UNCHANGED <<builder, args, env_vars, preopens, position, arena, import>>
    BY <1>11 DEF AnswerClock, arenaVars, hostVars, lists
  <2>2. trapped' = trapped \/ trapped' = "clock"
    BY <1>11 DEF AnswerClock, Traps
  <2>3. "clock" # None
    BY <1>2 DEF Cause
  <2> QED
    BY <1>1, <2>1, <2>2, <2>3
<1>12. CASE AnswerList \/ AnswerPrestat \/ Allocates
  BY <1>1, <1>12 DEF AnswerList, AnswerPrestat, Allocates, arenaVars, hostVars, lists
<1>13. CASE AnswerFd
  <2>1. UNCHANGED <<builder, trapped>>
    <3>1. /\ call.fn \in {"fd_close", "fd_renumber", "path_open"}
          /\ call.fn = "fd_close" => FdClose(call.x)
          /\ call.fn = "fd_renumber" => FdRenumber(call.x, call.y)
          /\ call.fn = "path_open" => PathOpen
      BY <1>13 DEF AnswerFd, Ends, FdMut
    <3> QED
      BY <3>1 DEF FdClose, FdRenumber, PathOpen, FdFails, hostVars
  <2> QED
    BY <1>1, <1>13, <2>1 DEF AnswerFd, arenaVars, lists
<1>14. ASSUME NEW c \in Call, CallStateless(c) \/ CallReady(c)
       PROVE  RoomInv'
  BY <1>1, <1>14 DEF CallStateless, CallReady, arenaVars, hostVars, lists
<1>15. ASSUME NEW c \in Call, CallUnready(c)
       PROVE  RoomInv'
  <2>1. UNCHANGED <<builder, args, env_vars, preopens, position, arena, import>>
    BY <1>15 DEF CallUnready, arenaVars, hostVars, lists
  <2>2. trapped' = trapped \/ trapped' = "unready"
    BY <1>15 DEF CallUnready, Traps
  <2>3. "unready" # None
    BY <1>2 DEF Cause
  <2> QED
    BY <1>1, <2>1, <2>2, <2>3
<1>16. CASE UNCHANGED vars
  BY <1>1, <1>16 DEF vars, arenaVars, hostVars, lists, control
<1> QED
  BY <1>3, <1>4, <1>5, <1>6, <1>7, <1>8, <1>9, <1>10, <1>11, <1>12, <1>13, <1>14, <1>15, <1>16
  DEF Next, CallStep

(* "The total size of arguments/env/etc coming into a component is bounded *)
(* by the current 64k (ish) limit" (lib.rs:213-217): an instance runs out  *)
(* of memory only if its three lists do not fit together, however often    *)
(* and in which order they are asked for, and out of descriptors only if   *)
(* it was given too many directories.                                      *)
THEOREM OutOfMemoryOnlyWhenFull == Spec => []TrapsOnlyWhenFull
<1>1. RoomInv => TrapsOnlyWhenFull
  BY DEF RoomInv
<1> QED
  BY <1>1, InvInit, InvNext, ModeInit, ModeNext, MemoryInit, MemoryNext,
     OneImportInit, OneImportNext, RoomInit, RoomNext, PTL DEF Spec
=============================================================================
