------------------------- MODULE AdapterStateProofs -------------------------
(***************************************************************************)
(* Proofs about AdapterState, for any set of exported functions, any main  *)
(* module and any number of calls: calls never nest more than once, every  *)
(* borrow and allocation mode belongs to a call in progress, the State is  *)
(* made once, and the traps are those that TrapsExplained names.           *)
(***************************************************************************)
EXTENDS AdapterState, FiniteSetTheorems, SequenceTheorems, TLAPS

AFrame == [fn : Function \cup {Import}, pc : Pc, served : BOOLEAN]

(* The call of the main module, and the one made while it waits.           *)
Outer == stack[1]
Inner == stack[2]
OuterAt(pcs) == Len(stack) >= 1 /\ Outer.pc \in pcs
InnerAt(pcs) == Len(stack) = 2 /\ Inner.pc \in pcs

(* A call that waits for cabi_realloc of the main module is only entered   *)
(* as far as State::new, and one that waits for the host only by           *)
(* cabi_import_realloc, which does not wait.                               *)
Nesting ==
  /\ stack \in Seq(AFrame) /\ Len(stack) <= 2
  /\ Len(stack) >= 1 => Outer.fn \in Function
  /\ ~OuterAt({"return"})
  /\ OuterAt({"preopens"}) => Outer.fn \in Fd
  /\ OuterAt({"arena"}) => Outer.fn \in List
  /\ OuterAt({"buffer"}) => Outer.fn \in Buffer
  /\ Len(stack) = 2 =>
       \/ OuterAt({"stack", "state"}) /\ InnerAt({"guard", "ptr"})
          /\ (InnerAt({"ptr"}) => Inner.fn \notin Guarded)
       \/ OuterAt(Imports) /\ Inner.fn = Import
          /\ InnerAt({"guard", "ptr", "borrow", "fds", "lists", "body", "return"})

(* What allocation_state says of the calls in progress. *)
Phases ==
  /\ state <=> allocation_state = "StateAllocated"
  /\ created = IF state THEN 1 ELSE 0
  /\ allocation_state \in {"StackUnallocated", "StackAllocating", "StackAllocated",
                           "StateAllocating", "StateAllocated"}
  /\ allocation_state = "StackUnallocated" => Len(stack) = 0
  /\ allocation_state = "StackAllocating" <=> OuterAt({"stack"})
  /\ allocation_state = "StateAllocating" <=> OuterAt({"state"})
  /\ allocation_state = "StackAllocated" /\ Len(stack) >= 1 => OuterAt({"guard", "ptr"})

(* Who borrows the State and its descriptors. *)
Borrows ==
  /\ readers = (IF OuterAt(Borrowed) /\ Outer.fn \notin Mut THEN 1 ELSE 0)
               + (IF InnerAt(Borrowed) THEN 1 ELSE 0)
  /\ writer <=> OuterAt(Borrowed) /\ Outer.fn \in Mut
  /\ ~(writer /\ InnerAt(Borrowed))
  /\ cell <=> OuterAt({"preopens", "lists", "arena", "body", "buffer"}) /\ Outer.fn \in Fd
  /\ descriptors \in {"None", "Busy", "Some"}
  /\ descriptors = "Busy" <=> OuterAt({"preopens"})

(* Whose allocation mode it is.  The buffer serves one allocation.         *)
Modes ==
  /\ arena <=> OuterAt({"preopens", "arena"})
  /\ buffer => OuterAt({"buffer"})
  /\ OuterAt({"buffer"}) =>
       /\ Len(stack) = 1 /\ ~Outer.served => buffer
       /\ Len(stack) = 2 => Outer.served
       /\ Len(stack) = 2 /\ ~InnerAt({"return"}) => buffer

Flags ==
  /\ state \in BOOLEAN /\ writer \in BOOLEAN /\ cell \in BOOLEAN /\ lists \in BOOLEAN
  /\ buffer \in BOOLEAN /\ arena \in BOOLEAN /\ trapped \in BOOLEAN

Calls == Nesting /\ Phases /\ Borrows /\ Modes /\ TrapsExplained

IInv == Flags /\ Calls

-----------------------------------------------------------------------------
(* The stack *)

LEMMA FrameIs ==
  /\ \A f, pc : Frame(f, pc).fn = f /\ Frame(f, pc).pc = pc /\ ~Frame(f, pc).served
  /\ \A f \in Function \cup {Import}, pc \in Pc : Frame(f, pc) \in AFrame
BY DEF Frame, AFrame

LEMMA UpToTwo == \A k \in Nat : k <= 2 => k = 0 \/ k = 1 \/ k = 2
OBVIOUS

LEMMA TopIs ==
  ASSUME Nesting, stack # <<>>
  PROVE  /\ Len(stack) \in {1, 2} /\ Top = stack[Len(stack)] /\ Top \in AFrame
         /\ Len(stack) = 1 => Top = Outer
         /\ Len(stack) = 2 => Top = Inner
<1>1. Len(stack) \in Nat /\ Len(stack) # 0
  <2>1. stack \in Seq(AFrame)
    BY DEF Nesting
  <2> QED
    BY <2>1, EmptySeq
<1>2. Len(stack) \in {1, 2}
  <2>1. Len(stack) <= 2
    BY DEF Nesting
  <2> QED
    BY <1>1, <2>1, UpToTwo
<1>3. Top \in AFrame
  BY <1>2 DEF Nesting, Top
<1> QED
  BY <1>2, <1>3 DEF Top, Outer, Inner

LEMMA BelowIs ==
  ASSUME Nesting, stack # <<>>
  PROVE  /\ Below \in Seq(AFrame) /\ Len(Below) = Len(stack) - 1
         /\ Len(stack) = 2 => Below[1] = Outer
<1>1. Len(stack) \in {1, 2} /\ stack \in Seq(AFrame)
  BY TopIs DEF Nesting
<1>2. Below = [i \in 1..(Len(stack) - 1) |-> stack[i]]
  BY <1>1 DEF Below
<1>3. \A i \in 1..(Len(stack) - 1) : stack[i] \in AFrame
  BY <1>1
<1>4. Below \in Seq(AFrame) /\ Len(Below) = Len(stack) - 1
  BY <1>1, <1>2, <1>3
<1>5. Len(stack) = 2 => Below[1] = stack[1]
  BY <1>2
<1> QED
  BY <1>4, <1>5 DEF Outer

(* A step of the running call replaces its frame. *)
LEMMA GoesTo ==
  ASSUME Nesting, stack # <<>>, NEW pc \in Pc, Goto(pc)
  PROVE  /\ stack' \in Seq(AFrame) /\ Len(stack') = Len(stack) /\ Len(stack) \in {1, 2}
         /\ Len(stack) = 1 => stack'[1] = Frame(Outer.fn, pc)
         /\ Len(stack) = 2 => stack'[1] = Outer /\ stack'[2] = Frame(Inner.fn, pc)
<1> DEFINE frame == Frame(Top.fn, pc)
<1>1. Top \in AFrame /\ Len(stack) \in {1, 2}
  BY TopIs
<1>2. frame \in AFrame
  BY <1>1, FrameIs DEF AFrame
<1>3. stack' = Append(Below, frame) /\ Below \in Seq(AFrame) /\ Len(Below) = Len(stack) - 1
  BY BelowIs DEF Goto
<1> HIDE DEF frame
<1>4. /\ stack' \in Seq(AFrame) /\ Len(stack') = Len(stack)
      /\ stack'[Len(stack)] = frame
      /\ Len(stack) = 2 => stack'[1] = Below[1]
  BY <1>1, <1>2, <1>3
<1> QED
  BY <1>1, <1>4, BelowIs, TopIs DEF frame

LEMMA Grows ==
  ASSUME Nesting, NEW frame \in AFrame, stack' = Append(stack, frame), Len(stack) < 2
  PROVE  /\ stack' \in Seq(AFrame) /\ Len(stack') = Len(stack) + 1 /\ Len(stack) \in {0, 1}
         /\ stack'[Len(stack')] = frame
         /\ Len(stack) = 1 => stack'[1] = Outer
<1>1. stack \in Seq(AFrame)
  BY DEF Nesting
<1>2. Len(stack) \in {0, 1}
  <2>1. Len(stack) \in Nat
    BY <1>1, LenProperties
  <2> QED
    BY <2>1, UpToTwo
<1>3. Len(stack') = Len(stack) + 1 /\ stack' \in Seq(AFrame) /\ stack'[Len(stack) + 1] = frame
  BY <1>1, AppendProperties
<1>4. Len(stack) = 1 => stack'[1] = stack[1]
  BY <1>1
<1> QED
  BY <1>2, <1>3, <1>4 DEF Outer

LEMMA Shrinks ==
  ASSUME Nesting, stack # <<>>, stack' = Below
  PROVE  /\ stack' \in Seq(AFrame) /\ Len(stack') = Len(stack) - 1 /\ Len(stack) \in {1, 2}
         /\ Len(stack) = 2 => stack'[1] = Outer
BY TopIs, BelowIs

-----------------------------------------------------------------------------
(* Who takes a step *)

LEMMA Kinds ==
  /\ Import \notin Mut /\ Import \notin Fd /\ Import \notin List /\ Import \notin Buffer
  /\ Import \notin Guarded
  /\ Mut \cap List = {} /\ Mut \cap Buffer = {} /\ Mut \cap Guarded = {}
BY FunctionAssumption

LEMMA OuterRuns ==
  ASSUME Nesting, stack # <<>>, Top.pc \in {"stack", "state"} \cup Imports
  PROVE  Len(stack) = 1 /\ Top = Outer
BY TopIs DEF Nesting, InnerAt, Imports

LEMMA InnerRuns ==
  ASSUME Nesting, Len(stack) = 2, Inner.pc \notin {"guard", "ptr"}
  PROVE  Inner.fn = Import /\ OuterAt(Imports)
BY DEF Nesting, InnerAt

(* cabi_import_realloc goes on. *)
LEMMA InnerMoves ==
  ASSUME IInv, ~trapped, Len(stack) = 2, Inner.fn = Import, OuterAt(Imports),
         NEW pc \in {"ptr", "borrow", "fds", "lists", "body"}, Goto(pc),
         readers' = readers + (IF pc \in Borrowed /\ Inner.pc \notin Borrowed THEN 1 ELSE 0),
         pc \in Borrowed => ~writer,
         Inner.pc \in Borrowed => pc \in Borrowed,
         Inner.pc # "return",
         UNCHANGED <<birth, writer, contents, modes, trapped>>
  PROVE  Calls'
<1> USE DEF IInv, Calls
<1>1. /\ Len(stack') = 2 /\ stack'[1] = Outer /\ stack'[2] = Frame(Inner.fn, pc)
      /\ stack' \in Seq(AFrame)
  <2>1. pc \in Pc
    BY DEF Pc, Borrowed
  <2>2. stack # <<>>
    BY EmptySeq
  <2> QED
    BY <2>1, <2>2, GoesTo
<1>2. Nesting'
  BY <1>1, FrameIs DEF Nesting, OuterAt, InnerAt, Outer, Inner, Imports
<1>3. Phases'
  BY <1>1 DEF birth, Phases, OuterAt, Outer
<1>4. Borrows'
  <2>1. Outer' = Outer /\ Inner'.pc = pc /\ Len(stack') = 2
    BY <1>1, FrameIs DEF Outer, Inner
  <2>2. readers' = (IF OuterAt(Borrowed) /\ Outer.fn \notin Mut THEN 1 ELSE 0)
                   + (IF pc \in Borrowed THEN 1 ELSE 0)
    BY DEF Borrows, InnerAt
  <2>3. OuterAt(Borrowed)' <=> OuterAt(Borrowed)
    BY <2>1 DEF OuterAt
  <2>4. InnerAt(Borrowed)' <=> pc \in Borrowed
    BY <2>1 DEF InnerAt
  <2> QED
    BY <2>1, <2>2, <2>3, <2>4 DEF contents, Borrows, OuterAt
<1>5. Modes'
  BY <1>1, FrameIs DEF modes, Modes, OuterAt, InnerAt, Outer, Inner
<1> QED
  BY <1>2, <1>3, <1>4, <1>5 DEF TrapsExplained

(* The call of the main module goes on. *)
LEMMA OuterMoves ==
  ASSUME Nesting, Len(stack) = 1, NEW pc \in Pc \ {"return"}, Goto(pc),
         pc = "preopens" => Outer.fn \in Fd,
         pc = "arena" => Outer.fn \in List,
         pc = "buffer" => Outer.fn \in Buffer
  PROVE  Len(stack') = 1 /\ stack'[1] = Frame(Outer.fn, pc) /\ Nesting'
<1>1. /\ Len(stack') = 1 /\ stack'[1] = Frame(Outer.fn, pc)
      /\ stack' \in Seq(AFrame)
  <2>1. stack # <<>>
    BY EmptySeq
  <2> QED
    BY <2>1, GoesTo
<1>2. Nesting'
  BY <1>1, FrameIs DEF Nesting, OuterAt, InnerAt, Outer, Inner
<1> QED
  BY <1>1, <1>2

-----------------------------------------------------------------------------
(* One lemma per step *)

LEMMA StackAllocatedKeeps == ASSUME IInv, StackAllocated PROVE Calls'
<1> USE DEF IInv, Calls
<1>1. stack # <<>> /\ Top.pc = "stack" /\ ~trapped /\ Goto("guard")
  BY DEF StackAllocated, At
<1>2. Len(stack) = 1 /\ Outer.pc = "stack" /\ Top = Outer
  BY <1>1, OuterRuns
<1>3. Len(stack') = 1 /\ stack'[1] = Frame(Outer.fn, "guard") /\ Nesting'
  BY <1>1, <1>2, OuterMoves DEF Pc, Borrowed
<1>4. Phases'
  BY <1>2, <1>3, FrameIs DEF StackAllocated, birth, Phases, OuterAt, Outer
<1>5. Borrows'
  BY <1>2, <1>3, FrameIs DEF StackAllocated, refcell, contents, Borrows, OuterAt, InnerAt, Outer, Borrowed
<1>6. Modes'
  BY <1>2, <1>3, FrameIs DEF StackAllocated, modes, ArenaFree, Modes, OuterAt, InnerAt, Outer
<1> QED
  BY <1>1, <1>3, <1>4, <1>5, <1>6 DEF StackAllocated, TrapsExplained

LEMMA StateAllocatedKeeps == ASSUME IInv, StateAllocated PROVE Calls'
<1> USE DEF IInv, Calls
<1>1. stack # <<>> /\ Top.pc = "state" /\ ~trapped /\ Goto("borrow")
  BY DEF StateAllocated, At
<1>2. Len(stack) = 1 /\ Outer.pc = "state" /\ Top = Outer
  BY <1>1, OuterRuns
<1>3. Len(stack') = 1 /\ stack'[1] = Frame(Outer.fn, "borrow") /\ Nesting'
  BY <1>1, <1>2, OuterMoves DEF Pc, Borrowed
<1>4. Phases'
  BY <1>2, <1>3, FrameIs DEF StateAllocated, birth, Phases, OuterAt, Outer
<1>5. Borrows'
  BY <1>2, <1>3, FrameIs DEF StateAllocated, refcell, contents, Borrows, OuterAt, InnerAt, Outer, Borrowed
<1>6. Modes'
  BY <1>2, <1>3, FrameIs DEF StateAllocated, modes, ArenaFree, Modes, OuterAt, InnerAt, Outer
<1> QED
  BY <1>1, <1>3, <1>4, <1>5, <1>6 DEF StateAllocated, TrapsExplained

LEMMA PreopensReturnKeeps == ASSUME IInv, PreopensReturn PROVE Calls'
<1> USE DEF IInv, Calls
<1>1. stack # <<>> /\ Top.pc = "preopens" /\ ~trapped /\ Goto("lists")
  BY DEF PreopensReturn, At
<1>2. Len(stack) = 1 /\ Outer.pc = "preopens" /\ Top = Outer
  BY <1>1, OuterRuns DEF Imports
<1>3. Len(stack') = 1 /\ stack'[1] = Frame(Outer.fn, "lists") /\ Nesting'
  BY <1>1, <1>2, OuterMoves DEF Pc, Borrowed
<1>4. Phases'
  BY <1>2, <1>3, FrameIs DEF PreopensReturn, birth, Phases, OuterAt, Outer
<1>5. Borrows'
  BY <1>2, <1>3, FrameIs DEF PreopensReturn, refcell, contents, Borrows, OuterAt, InnerAt, Outer, Borrowed
<1>6. Modes'
  BY <1>2, <1>3, FrameIs DEF PreopensReturn, modes, ArenaFree, Modes, OuterAt, InnerAt, Outer
<1> QED
  BY <1>1, <1>3, <1>4, <1>5, <1>6 DEF PreopensReturn, TrapsExplained

LEMMA ArenaReturnsKeeps == ASSUME IInv, ArenaReturns PROVE Calls'
<1> USE DEF IInv, Calls
<1>1. stack # <<>> /\ Top.pc = "arena" /\ ~trapped /\ Goto("body")
  BY DEF ArenaReturns, At
<1>2. Len(stack) = 1 /\ Outer.pc = "arena" /\ Top = Outer
  BY <1>1, OuterRuns DEF Imports
<1>3. Len(stack') = 1 /\ stack'[1] = Frame(Outer.fn, "body") /\ Nesting'
  BY <1>1, <1>2, OuterMoves DEF Pc, Borrowed
<1>4. Phases'
  BY <1>2, <1>3, FrameIs DEF ArenaReturns, birth, Phases, OuterAt, Outer
<1>5. Borrows'
  BY <1>2, <1>3, FrameIs DEF ArenaReturns, refcell, contents, Borrows, OuterAt, InnerAt, Outer, Borrowed
<1>6. Modes'
  BY <1>2, <1>3, FrameIs DEF ArenaReturns, modes, ArenaFree, Modes, OuterAt, InnerAt, Outer
<1> QED
  BY <1>1, <1>3, <1>4, <1>5, <1>6 DEF ArenaReturns, TrapsExplained

LEMMA BufferReturnsKeeps == ASSUME IInv, BufferReturns PROVE Calls'
<1> USE DEF IInv, Calls
<1>1. stack # <<>> /\ Top.pc = "buffer" /\ ~trapped /\ Goto("body")
  BY DEF BufferReturns, At
<1>2. Len(stack) = 1 /\ Outer.pc = "buffer" /\ Top = Outer
  BY <1>1, OuterRuns DEF Imports
<1>3. Len(stack') = 1 /\ stack'[1] = Frame(Outer.fn, "body") /\ Nesting'
  BY <1>1, <1>2, OuterMoves DEF Pc, Borrowed
<1>4. Phases'
  BY <1>2, <1>3, FrameIs DEF BufferReturns, birth, Phases, OuterAt, Outer
<1>5. Borrows'
  BY <1>2, <1>3, FrameIs DEF BufferReturns, refcell, contents, Borrows, OuterAt, InnerAt, Outer, Borrowed
<1>6. Modes'
  BY <1>2, <1>3, FrameIs DEF BufferReturns, modes, ArenaFree, Modes, OuterAt, InnerAt, Outer
<1> QED
  BY <1>1, <1>3, <1>4, <1>5, <1>6 DEF BufferReturns, TrapsExplained

LEMMA FdsNewKeeps == ASSUME IInv, FdsNew PROVE Calls'
<1> USE DEF IInv, Calls
<1>1. stack # <<>> /\ Top.pc = "fds" /\ ~trapped /\ Goto("preopens") /\ Top.fn \in Fd
  BY DEF FdsNew, At
<1>2. Len(stack) = 1 /\ Outer.pc = "fds" /\ Top = Outer
  BY <1>1, TopIs, InnerRuns, Kinds
<1>3. Len(stack') = 1 /\ stack'[1] = Frame(Outer.fn, "preopens") /\ Nesting'
  BY <1>1, <1>2, OuterMoves DEF Pc, Borrowed
<1>4. Phases'
  BY <1>2, <1>3, FrameIs DEF FdsNew, birth, Phases, OuterAt, Outer
<1>5. Borrows'
  BY <1>2, <1>3, FrameIs DEF FdsNew, refcell, contents, Borrows, OuterAt, InnerAt, Outer, Borrowed
<1>6. Modes'
  BY <1>2, <1>3, FrameIs DEF FdsNew, modes, ArenaFree, Modes, OuterAt, InnerAt, Outer
<1> QED
  BY <1>1, <1>3, <1>4, <1>5, <1>6 DEF FdsNew, TrapsExplained

LEMMA ListsNewKeeps == ASSUME IInv, ListsNew PROVE Calls'
<1> USE DEF IInv, Calls
<1>1. stack # <<>> /\ Top.pc = "lists" /\ ~trapped /\ Goto("arena") /\ Top.fn \in List
  BY DEF ListsNew, At
<1>2. Len(stack) = 1 /\ Outer.pc = "lists" /\ Top = Outer
  BY <1>1, TopIs, InnerRuns, Kinds
<1>3. Len(stack') = 1 /\ stack'[1] = Frame(Outer.fn, "arena") /\ Nesting'
  BY <1>1, <1>2, OuterMoves DEF Pc, Borrowed
<1>4. Phases'
  BY <1>2, <1>3, FrameIs DEF ListsNew, birth, Phases, OuterAt, Outer
<1>5. Borrows'
  BY <1>2, <1>3, FrameIs DEF ListsNew, refcell, contents, Borrows, OuterAt, InnerAt, Outer, Borrowed
<1>6. Modes'
  BY <1>2, <1>3, FrameIs DEF ListsNew, modes, ArenaFree, Modes, OuterAt, InnerAt, Outer
<1> QED
  BY <1>1, <1>3, <1>4, <1>5, <1>6 DEF ListsNew, TrapsExplained

LEMMA BufferImportKeeps == ASSUME IInv, BufferImport PROVE Calls'
<1> USE DEF IInv, Calls
<1>1. stack # <<>> /\ Top.pc = "body" /\ ~trapped /\ Goto("buffer") /\ Top.fn \in Buffer
  BY DEF BufferImport, At
<1>2. Len(stack) = 1 /\ Outer.pc = "body" /\ Top = Outer
  BY <1>1, TopIs, InnerRuns, Kinds
<1>3. Len(stack') = 1 /\ stack'[1] = Frame(Outer.fn, "buffer") /\ Nesting'
  BY <1>1, <1>2, OuterMoves DEF Pc, Borrowed
<1>4. Phases'
  BY <1>2, <1>3, FrameIs DEF BufferImport, birth, Phases, OuterAt, Outer
<1>5. Borrows'
  BY <1>2, <1>3, FrameIs DEF BufferImport, refcell, contents, Borrows, OuterAt, InnerAt, Outer, Borrowed
<1>6. Modes'
  BY <1>2, <1>3, FrameIs DEF BufferImport, modes, ArenaFree, Modes, OuterAt, InnerAt, Outer
<1> QED
  BY <1>1, <1>3, <1>4, <1>5, <1>6 DEF BufferImport, TrapsExplained

LEMMA BorrowKeeps == ASSUME IInv, Borrow PROVE Calls'
<1> USE DEF IInv, Calls
<1>1. stack # <<>> /\ Top.pc = "borrow" /\ ~trapped /\ Goto("fds")
  BY DEF Borrow, At
<1>2. CASE Len(stack) = 1
  <2>1. Outer.pc = "borrow" /\ Top = Outer
    BY <1>1, <1>2, TopIs
  <2>2. Len(stack') = 1 /\ stack'[1] = Frame(Outer.fn, "fds") /\ Nesting'
    BY <1>1, <1>2, OuterMoves DEF Pc, Borrowed
  <2>3. Phases'
    BY <1>2, <2>1, <2>2, FrameIs DEF Borrow, birth, Phases, OuterAt, Outer
  <2>4. Borrows'
    <3>1. /\ writer' <=> Outer.fn \in Mut
          /\ readers' = IF Outer.fn \in Mut THEN readers ELSE readers + 1
      BY <2>1 DEF Borrow
    <3>2. readers = 0
      BY <1>2, <2>1 DEF Borrows, OuterAt, InnerAt, Borrowed
    <3> QED
      BY <1>2, <2>1, <2>2, <3>1, <3>2, FrameIs DEF Borrow, contents, Borrows, OuterAt, InnerAt,
         Outer, Borrowed
  <2>5. Modes'
    BY <1>2, <2>1, <2>2, FrameIs DEF Borrow, modes, Modes, OuterAt, InnerAt, Outer
  <2> QED
    BY <1>1, <2>2, <2>3, <2>4, <2>5 DEF Borrow, TrapsExplained
<1>3. CASE Len(stack) = 2
  <2>1. Inner.pc = "borrow" /\ Top = Inner
    BY <1>1, <1>3, TopIs
  <2>2. Inner.fn = Import /\ OuterAt(Imports)
    BY <1>3, <2>1, InnerRuns
  <2>3. Top.fn \notin Mut
    BY <2>1, <2>2, Kinds
  <2>4. ~writer /\ ~writer' /\ readers' = readers + 1
    BY <2>3 DEF Borrow, Borrowable
  <2>5. writer' = writer
    BY <2>3, <2>4 DEF Borrow, Flags
  <2> QED
    BY <1>1, <1>3, <2>1, <2>2, <2>4, <2>5, InnerMoves DEF Borrow, Borrowed
<1> QED
  BY <1>1, <1>2, <1>3, TopIs

LEMMA PtrFoundKeeps == ASSUME IInv, PtrFound PROVE Calls'
<1> USE DEF IInv, Calls
<1>1. stack # <<>> /\ Top.pc = "ptr" /\ ~trapped /\ Goto("borrow")
  BY DEF PtrFound, At
<1>2. CASE Len(stack) = 1
  <2>1. Outer.pc = "ptr" /\ Top = Outer
    BY <1>1, <1>2, TopIs
  <2>2. Len(stack') = 1 /\ stack'[1] = Frame(Outer.fn, "borrow") /\ Nesting'
    BY <1>1, <1>2, OuterMoves DEF Pc, Borrowed
  <2>3. Phases'
    BY <1>2, <2>1, <2>2, FrameIs DEF PtrFound, birth, Phases, OuterAt, Outer
  <2>4. Borrows'
    BY <1>2, <2>1, <2>2, FrameIs DEF PtrFound, refcell, contents, Borrows, OuterAt, InnerAt, Outer, Borrowed
  <2>5. Modes'
    BY <1>2, <2>1, <2>2, FrameIs DEF PtrFound, modes, Modes, OuterAt, InnerAt, Outer
  <2> QED
    BY <1>1, <2>2, <2>3, <2>4, <2>5 DEF PtrFound, TrapsExplained
<1>3. CASE Len(stack) = 2
  <2>1. Inner.pc = "ptr" /\ Top = Inner
    BY <1>1, <1>3, TopIs
  <2>2. Inner.fn = Import /\ OuterAt(Imports)
    BY <1>3, <2>1 DEF PtrFound, Nesting, Phases, OuterAt
  <2> QED
    BY <1>1, <1>3, <2>1, <2>2, InnerMoves DEF PtrFound, refcell, Borrowed, Borrows
<1> QED
  BY <1>1, <1>2, <1>3, TopIs

LEMMA FdsUseKeeps == ASSUME IInv, FdsUse PROVE Calls'
<1> USE DEF IInv, Calls
<1>1. stack # <<>> /\ Top.pc = "fds" /\ ~trapped /\ Goto("lists")
  BY DEF FdsUse, At
<1>2. CASE Len(stack) = 1
  <2>1. Outer.pc = "fds" /\ Top = Outer
    BY <1>1, <1>2, TopIs
  <2>2. Len(stack') = 1 /\ stack'[1] = Frame(Outer.fn, "lists") /\ Nesting'
    BY <1>1, <1>2, OuterMoves DEF Pc, Borrowed
  <2>3. Phases'
    BY <1>2, <2>1, <2>2, FrameIs DEF FdsUse, birth, Phases, OuterAt, Outer
  <2>4. Borrows'
    <3>1. cell' <=> cell \/ Outer.fn \in Fd
      BY <2>1 DEF FdsUse
    <3> QED
      BY <1>2, <2>1, <2>2, <3>1, FrameIs DEF FdsUse, refcell, Borrows, OuterAt, InnerAt, Outer,
         Borrowed
  <2>5. Modes'
    BY <1>2, <2>1, <2>2, FrameIs DEF FdsUse, modes, Modes, OuterAt, InnerAt, Outer
  <2> QED
    BY <1>1, <2>2, <2>3, <2>4, <2>5 DEF FdsUse, TrapsExplained
<1>3. CASE Len(stack) = 2
  <2>1. Inner.pc = "fds" /\ Top = Inner
    BY <1>1, <1>3, TopIs
  <2>2. Inner.fn = Import /\ OuterAt(Imports)
    BY <1>3, <2>1, InnerRuns
  <2>3. Top.fn \notin Fd
    BY <2>1, <2>2, Kinds
  <2>4. cell' = cell
    BY <2>3 DEF FdsUse, Flags
  <2>5. ~writer
    BY <1>3, <2>1 DEF Borrows, InnerAt, Borrowed
  <2> QED
    BY <1>1, <1>3, <2>1, <2>2, <2>4, <2>5, InnerMoves DEF FdsUse, refcell, contents, Borrowed, Borrows
<1> QED
  BY <1>1, <1>2, <1>3, TopIs

LEMMA ListsUseKeeps == ASSUME IInv, ListsUse PROVE Calls'
<1> USE DEF IInv, Calls
<1>1. stack # <<>> /\ Top.pc = "lists" /\ ~trapped /\ Goto("body")
  BY DEF ListsUse, At
<1>2. CASE Len(stack) = 1
  <2>1. Outer.pc = "lists" /\ Top = Outer
    BY <1>1, <1>2, TopIs
  <2>2. Len(stack') = 1 /\ stack'[1] = Frame(Outer.fn, "body") /\ Nesting'
    BY <1>1, <1>2, OuterMoves DEF Pc, Borrowed
  <2>3. Phases'
    BY <1>2, <2>1, <2>2, FrameIs DEF ListsUse, birth, Phases, OuterAt, Outer
  <2>4. Borrows'
    BY <1>2, <2>1, <2>2, FrameIs DEF ListsUse, refcell, contents, Borrows, OuterAt, InnerAt, Outer, Borrowed
  <2>5. Modes'
    BY <1>2, <2>1, <2>2, FrameIs DEF ListsUse, modes, Modes, OuterAt, InnerAt, Outer
  <2> QED
    BY <1>1, <2>2, <2>3, <2>4, <2>5 DEF ListsUse, TrapsExplained
<1>3. CASE Len(stack) = 2
  <2>1. Inner.pc = "lists" /\ Top = Inner
    BY <1>1, <1>3, TopIs
  <2>2. Inner.fn = Import /\ OuterAt(Imports)
    BY <1>3, <2>1, InnerRuns
  <2>5. ~writer
    BY <1>3, <2>1 DEF Borrows, InnerAt, Borrowed
  <2> QED
    BY <1>1, <1>3, <2>1, <2>2, <2>5, InnerMoves DEF ListsUse, refcell, Borrowed, Borrows
<1> QED
  BY <1>1, <1>2, <1>3, TopIs

LEMMA GuardPassesKeeps == ASSUME IInv, GuardPasses PROVE Calls'
<1> USE DEF IInv, Calls
<1>1. stack # <<>> /\ Top.pc = "guard" /\ ~trapped /\ Goto("ptr")
  BY DEF GuardPasses, At
<1>2. CASE Len(stack) = 1
  <2>1. Outer.pc = "guard" /\ Top = Outer
    BY <1>1, <1>2, TopIs
  <2>2. Len(stack') = 1 /\ stack'[1] = Frame(Outer.fn, "ptr") /\ Nesting'
    BY <1>1, <1>2, OuterMoves DEF Pc, Borrowed
  <2>3. Phases'
    BY <1>2, <2>1, <2>2, FrameIs DEF GuardPasses, birth, Phases, OuterAt, Outer
  <2>4. Borrows'
    BY <1>2, <2>1, <2>2, FrameIs DEF GuardPasses, refcell, contents, Borrows, OuterAt, InnerAt, Outer, Borrowed
  <2>5. Modes'
    BY <1>2, <2>1, <2>2, FrameIs DEF GuardPasses, modes, Modes, OuterAt, InnerAt, Outer
  <2> QED
    BY <1>1, <2>2, <2>3, <2>4, <2>5 DEF GuardPasses, TrapsExplained
<1>3. CASE Len(stack) = 2
  <2>1. Inner.pc = "guard" /\ Top = Inner
    BY <1>1, <1>3, TopIs
  <2>2. CASE Inner.fn = Import /\ OuterAt(Imports)
    BY <1>1, <1>3, <2>1, <2>2, InnerMoves DEF GuardPasses, refcell, Borrowed, Borrows
  <2>3. CASE OuterAt({"stack", "state"})
    <3>1. /\ Len(stack') = 2 /\ stack'[1] = Outer /\ stack'[2] = Frame(Inner.fn, "ptr")
          /\ stack' \in Seq(AFrame)
      BY <1>1, <1>3, GoesTo DEF Pc
    <3>2. Inner.fn \notin Guarded
      BY <2>1, <2>3 DEF GuardPasses, Ready, Phases, OuterAt
    <3>3. Nesting'
      BY <1>3, <2>1, <2>3, <3>1, <3>2, FrameIs DEF Nesting, OuterAt, InnerAt, Outer, Inner
    <3>4. Phases'
      BY <1>3, <3>1 DEF GuardPasses, birth, Phases, OuterAt, Outer
    <3>5. Borrows'
      BY <1>3, <2>1, <3>1, FrameIs DEF GuardPasses, refcell, contents, Borrows, OuterAt, InnerAt, Outer, Inner,
         Borrowed
    <3>6. Modes'
      BY <1>3, <2>3, <3>1, FrameIs DEF GuardPasses, modes, Modes, OuterAt, InnerAt, Outer, Inner
    <3> QED
      BY <1>1, <3>3, <3>4, <3>5, <3>6 DEF GuardPasses, TrapsExplained
  <2> QED
    BY <1>3, <2>2, <2>3 DEF Nesting
<1> QED
  BY <1>1, <1>2, <1>3, TopIs


LEMMA PtrNewKeeps == ASSUME IInv, PtrNew PROVE Calls'
<1> USE DEF IInv, Calls
<1>1. stack # <<>> /\ Top.pc = "ptr" /\ ~trapped /\ Goto("state") /\ allocation_state = "StackAllocated"
  BY DEF PtrNew, NewAsserts, At
<1>2. Len(stack) = 1 /\ Outer.pc = "ptr" /\ Top = Outer
  BY <1>1, TopIs DEF Phases, Nesting, OuterAt, Imports
<1>3. Len(stack') = 1 /\ stack'[1] = Frame(Outer.fn, "state") /\ Nesting'
  BY <1>1, <1>2, OuterMoves DEF Pc, Borrowed
<1>4. Phases'
  BY <1>1, <1>2, <1>3, FrameIs DEF PtrNew, Phases, OuterAt, Outer
<1>5. Borrows'
  BY <1>2, <1>3, FrameIs DEF PtrNew, refcell, contents, Borrows, OuterAt, InnerAt, Outer, Borrowed
<1>6. Modes'
  BY <1>2, <1>3, FrameIs DEF PtrNew, modes, Modes, OuterAt, InnerAt, Outer
<1> QED
  BY <1>1, <1>3, <1>4, <1>5, <1>6 DEF PtrNew, TrapsExplained

LEMMA AllocKeeps == ASSUME IInv, Alloc PROVE Calls'
<1> USE DEF IInv, Calls
<1>1. stack # <<>> /\ Top.pc = "body" /\ Top.fn = Import /\ ~trapped /\ Goto("return")
  BY DEF Alloc, At, Running
<1>2. Len(stack) = 2 /\ Inner.pc = "body" /\ Inner.fn = Import /\ OuterAt(Imports)
  <2>1. Import \notin Function
    BY FunctionAssumption
  <2>2. Len(stack) # 1
    BY <1>1, <2>1, TopIs DEF Nesting
  <2> QED
    BY <1>1, <2>2, TopIs, InnerRuns
<1>3. /\ Len(stack') = 2 /\ stack'[1] = Outer /\ stack'[2] = Frame(Import, "return")
      /\ stack' \in Seq(AFrame)
  BY <1>1, <1>2, GoesTo DEF Pc, Borrowed
<1>4. Nesting'
  BY <1>2, <1>3, FrameIs DEF Nesting, OuterAt, InnerAt, Outer, Inner, Imports
<1>5. Phases'
  BY <1>2, <1>3 DEF Alloc, birth, Phases, OuterAt, Outer
<1>6. Borrows'
  BY <1>2, <1>3, FrameIs DEF Alloc, refcell, contents, Borrows, OuterAt, InnerAt, Outer, Inner,
     Borrowed
<1>7. Modes'
  <2>1. buffer' <=> buffer /\ arena
    BY DEF Alloc
  <2> QED
    BY <1>2, <1>3, <2>1, FrameIs DEF Alloc, Modes, OuterAt, InnerAt, Outer, Inner
<1> QED
  BY <1>1, <1>4, <1>5, <1>6, <1>7 DEF Alloc, TrapsExplained

(* The host calls cabi_import_realloc. *)
LEMMA HostAllocatesKeeps == ASSUME IInv, HostAllocates PROVE Calls'
<1> USE DEF IInv, Calls
<1>1. Len(stack) = 1 /\ Top = Outer /\ Outer.pc \in Imports /\ stack # <<>> /\ ~trapped
  BY OuterRuns DEF HostAllocates
<1> DEFINE served == [Outer EXCEPT !.served = TRUE]
           asked == Append(Below, served)
<1>2. /\ served \in AFrame /\ served.fn = Outer.fn /\ served.pc = Outer.pc /\ served.served
  BY <1>1, TopIs DEF AFrame
<1>3. Frame(Import, "guard") \in AFrame
  BY FrameIs DEF Pc
<1>4. asked \in Seq(AFrame) /\ Len(asked) = 1 /\ asked[1] = served
  <2>1. Below \in Seq(AFrame) /\ Len(Below) = 0
    BY <1>1, BelowIs
  <2> HIDE DEF served
  <2> QED
    BY <1>2, <2>1, AppendProperties
<1>5. stack' = Append(asked, Frame(Import, "guard"))
  BY <1>1 DEF HostAllocates
<1> HIDE DEF asked, served
<1>6. /\ stack' \in Seq(AFrame) /\ Len(stack') = 2
      /\ stack'[1] = served /\ stack'[2] = Frame(Import, "guard")
  <2>1. 1 \in 1..Len(asked) /\ Len(asked) + 1 = 2
    BY <1>4
  <2>2. asked \in Seq(AFrame) /\ asked[1] = served
    BY <1>4
  <2> QED
    BY <1>3, <1>5, <2>1, <2>2, AppendProperties
<1>7. Nesting'
  BY <1>1, <1>2, <1>6, FrameIs DEF Nesting, OuterAt, InnerAt, Outer, Inner, Imports
<1>8. Phases'
  BY <1>1, <1>2, <1>6 DEF HostAllocates, birth, Phases, OuterAt, Outer, Imports
<1>9. Borrows'
  BY <1>1, <1>2, <1>6, FrameIs DEF HostAllocates, refcell, contents, Borrows, OuterAt, InnerAt,
     Outer, Inner, Borrowed, Imports
<1>10. Modes'
  BY <1>1, <1>2, <1>6, FrameIs DEF HostAllocates, modes, Modes, OuterAt, InnerAt, Outer, Inner, Imports
<1> QED
  BY <1>1, <1>7, <1>8, <1>9, <1>10 DEF HostAllocates, TrapsExplained
(* A guarded function answers only while another call waits for            *)
(* cabi_realloc of the main module.                                        *)
LEMMA GuardAnswersKeeps == ASSUME IInv, GuardAnswers PROVE Calls'
<1> USE DEF IInv, Calls
<1>1. stack # <<>> /\ Top.pc = "guard" /\ ~trapped /\ stack' = Below /\ Top.fn \in Guarded
  BY DEF GuardAnswers, At
<1>2. Len(stack) = 2
  BY <1>1, TopIs DEF GuardAnswers, Ready, Phases, OuterAt
<1>3. Inner.fn \in Guarded /\ Inner.pc = "guard" /\ OuterAt({"stack", "state"})
  BY <1>1, <1>2, TopIs, Kinds DEF Nesting
<1>4. stack' \in Seq(AFrame) /\ Len(stack') = 1 /\ stack'[1] = Outer
  BY <1>1, <1>2, Shrinks
<1>5. Nesting'
  BY <1>2, <1>3, <1>4 DEF Nesting, OuterAt, InnerAt, Outer
<1>6. Phases'
  BY <1>2, <1>3, <1>4 DEF GuardAnswers, birth, Phases, OuterAt, Outer
<1>7. Borrows'
  BY <1>2, <1>3, <1>4 DEF GuardAnswers, refcell, contents, Borrows, OuterAt, InnerAt, Outer, Borrowed
<1>8. Modes'
  BY <1>2, <1>3, <1>4 DEF GuardAnswers, modes, Modes, OuterAt, InnerAt, Outer
<1> QED
  BY <1>1, <1>5, <1>6, <1>7, <1>8 DEF GuardAnswers, TrapsExplained

LEMMA ReturnKeeps == ASSUME IInv, Return PROVE Calls'
<1> USE DEF IInv, Calls
<1>1. stack # <<>> /\ ~trapped /\ ~trapped' /\ stack' = Below /\ Top.pc \in {"body", "return"}
  BY DEF Return, Ended
<1>2. CASE Len(stack) = 1
  <2>1. Top = Outer /\ Outer.pc = "body"
    BY <1>1, <1>2, TopIs DEF Nesting, OuterAt
  <2>2. stack' \in Seq(AFrame) /\ Len(stack') = 0
    BY <1>1, <1>2, Shrinks
  <2>3. Nesting'
    BY <2>2 DEF Nesting, OuterAt, InnerAt
  <2>4. Phases'
    BY <1>2, <2>1, <2>2 DEF Return, birth, Phases, OuterAt
  <2>5. Borrows'
    <3>1. /\ readers = IF Outer.fn \in Mut THEN 0 ELSE 1
          /\ readers' = IF Outer.fn \in Mut THEN readers ELSE readers - 1
      BY <1>2, <2>1 DEF Return, Borrows, OuterAt, InnerAt, Borrowed
    <3>2. ~writer' /\ ~cell'
      BY <1>2, <2>1 DEF Return, Borrows, OuterAt, InnerAt, Borrowed, Flags
    <3>3. descriptors' = descriptors /\ descriptors # "Busy" /\ descriptors \in {"None", "Some"}
      BY <2>1 DEF Return, Borrows, OuterAt
    <3> QED
      BY <2>2, <3>1, <3>2, <3>3 DEF Borrows, OuterAt, InnerAt
  <2>6. Modes'
    BY <1>2, <2>1, <2>2 DEF Return, modes, Modes, OuterAt, InnerAt
  <2> QED
    BY <1>1, <2>3, <2>4, <2>5, <2>6 DEF TrapsExplained
<1>3. CASE Len(stack) = 2
  <2>1. Top = Inner /\ Inner.fn = Import /\ Inner.pc = "return" /\ OuterAt(Imports)
    BY <1>1, <1>3, TopIs, InnerRuns DEF Return, Ended, Running
  <2>2. stack' \in Seq(AFrame) /\ Len(stack') = 1 /\ stack'[1] = Outer
    BY <1>1, <1>3, Shrinks
  <2>3. Nesting'
    BY <1>3, <2>1, <2>2 DEF Nesting, OuterAt, InnerAt, Outer, Imports
  <2>4. Phases'
    BY <1>3, <2>1, <2>2 DEF Return, birth, Phases, OuterAt, Outer, Imports
  <2>5. readers' = readers - 1 /\ writer' = writer /\ cell' = cell
    BY <2>1, Kinds DEF Return
  <2>6. Borrows'
    <3>1. /\ readers = (IF Outer.fn \in Mut THEN 0 ELSE 1) + 1
          /\ ~writer /\ Outer.fn \notin Mut
      BY <1>3, <2>1 DEF Borrows, OuterAt, InnerAt, Borrowed, Imports
    <3>2. readers' = 1 /\ ~writer' /\ UNCHANGED <<cell, descriptors>>
      <4>1. readers' = 1
        BY <2>5, <3>1
      <4>2. ~writer'
        BY <2>5, <3>1, Zenon
      <4> QED
        BY <2>5, <4>1, <4>2 DEF Return
    <3>3. Outer' = Outer /\ Len(stack') = 1 /\ Outer.pc \in Borrowed
      BY <2>1, <2>2 DEF Outer, OuterAt, Imports, Borrowed
    <3>4. ~InnerAt(Borrowed)' /\ OuterAt(Borrowed)'
      BY <3>3 DEF OuterAt, InnerAt
    <3>5. /\ cell' <=> OuterAt({"preopens", "lists", "arena", "body", "buffer"})' /\ Outer'.fn \in Fd
          /\ descriptors' \in {"None", "Busy", "Some"}
          /\ descriptors' = "Busy" <=> OuterAt({"preopens"})'
      BY <1>3, <3>2, <3>3 DEF Borrows, OuterAt
    <3> QED
      BY <3>1, <3>2, <3>3, <3>4, <3>5 DEF Borrows
  <2>7. Modes'
    BY <1>3, <2>1, <2>2 DEF Return, modes, Modes, OuterAt, InnerAt, Outer
  <2> QED
    BY <1>1, <2>3, <2>4, <2>6, <2>7 DEF TrapsExplained
<1> QED
  BY <1>1, <1>2, <1>3, TopIs

(* A call meets nothing it must not find but in the cases TrapsExplained   *)
(* names.                                                                  *)
LEMMA TrapsKeeps == ASSUME IInv, Traps PROVE Calls'
<1> USE DEF IInv, Calls
<1>1. Nesting' /\ Phases' /\ Borrows' /\ Modes'
  BY DEF Traps, birth, refcell, contents, modes, Nesting, Phases, Borrows, Modes, OuterAt, InnerAt,
     Outer, Inner
<1>2. stack # <<>> /\ stack' = stack /\ Unreachable
  BY DEF Traps
<1>3. CASE Len(stack) = 1
  <2>1. Top = Outer
    BY <1>2, <1>3, TopIs
  <2>2. ~(Outer.pc = "ptr" /\ ~state /\ ~NewAsserts)
    BY <1>3 DEF NewAsserts, Phases, OuterAt
  <2>3. Outer.pc = "borrow" => readers = 0 /\ ~writer
    BY <1>3 DEF Borrows, OuterAt, InnerAt, Borrowed
  <2>4. Outer.pc = "fds" => ~cell
    BY DEF Borrows, OuterAt
  <2>5. Outer.pc \in {"fds", "lists", "body"} => ArenaFree
    BY DEF ArenaFree, Modes, OuterAt
  <2>6. ~Running(Import)
    BY <1>3, <2>1, FunctionAssumption DEF Running, Nesting
  <2> QED
    BY <1>2, <2>1, <2>2, <2>3, <2>4, <2>5, <2>6 DEF Unreachable, Borrowable
<1>4. CASE Len(stack) = 2
  <2>1. Top = Inner
    BY <1>2, <1>4, TopIs
  <2>2. CASE OuterAt({"stack", "state"})
    <3>1. Inner.pc = "ptr" /\ Inner.fn \notin Guarded
      BY <1>2, <1>4, <2>1, <2>2 DEF Unreachable, Nesting, InnerAt, OuterAt, Imports
    <3>2. 2 \in 2..Len(stack) /\ stack[2 - 1].pc \in {"stack", "state"}
      BY <1>4, <2>2 DEF OuterAt, Outer
    <3> QED
      BY <1>1, <1>2, <3>1, <3>2 DEF TrapsExplained, Inner
  <2>3. CASE OuterAt(Imports) /\ Inner.fn = Import
    <3>1. allocation_state = "StateAllocated" /\ state
      BY <1>4, <2>3 DEF Phases, OuterAt, Imports
    <3>2. CASE Inner.pc = "borrow"
      <4>1. writer
        BY <1>2, <2>1, <2>3, <3>2, Kinds DEF Unreachable, Borrowable, Running
      <4>2. Outer.fn \in Mut /\ Outer.pc = "preopens"
        BY <2>3, <4>1, Kinds DEF Borrows, Nesting, OuterAt, Imports
      <4> QED
        BY <1>1, <1>2, <1>4, <4>2 DEF TrapsExplained, Outer
    <3>3. CASE Inner.pc = "body"
      BY <1>2, <1>4, <2>1, <2>3, <3>3 DEF Unreachable, Running, Modes, OuterAt, InnerAt, Imports
    <3>4. Inner.pc \in {"borrow", "body"}
      BY <1>2, <2>1, <2>3, <3>1, Kinds DEF Unreachable
    <3> QED
      BY <3>2, <3>3, <3>4
  <2> QED
    BY <1>4, <2>2, <2>3 DEF Nesting
<1> QED
  BY <1>2, <1>3, <1>4, TopIs

(* A new call is the first, or it is made by cabi_realloc of the main      *)
(* module.                                                                 *)
LEMMA EnterKeeps ==
  ASSUME IInv, ~trapped, NEW f \in Function, Enter(f),
         \/ Len(stack) = 0
         \/ Len(stack) = 1 /\ OuterAt({"stack", "state"})
  PROVE  Calls'
<1> USE DEF IInv, Calls
<1>1. ~trapped'
  BY DEF Enter
<1>2. CASE Len(stack) = 0
  <2> DEFINE pc == IF allocation_state = "StackUnallocated" THEN "stack" ELSE "guard"
  <2>1. stack' = Append(stack, Frame(f, pc)) /\ pc \in {"stack", "guard"}
    BY DEF Enter
  <2> HIDE DEF pc
  <2>2. Frame(f, pc) \in AFrame
    BY <2>1, FrameIs DEF Pc
  <2>3. stack' \in Seq(AFrame) /\ Len(stack') = 1 /\ stack'[1] = Frame(f, pc)
    BY <1>2, <2>1, <2>2, Grows
  <2>4. Nesting'
    BY <2>1, <2>3, FrameIs DEF Nesting, OuterAt, InnerAt, Outer
  <2>5. Phases'
    BY <1>2, <2>1, <2>3, FrameIs DEF pc, Enter, Phases, OuterAt, Outer
  <2>6. Borrows'
    BY <1>2, <2>1, <2>3, FrameIs DEF Enter, refcell, contents, Borrows, OuterAt, InnerAt, Outer, Borrowed
  <2>7. Modes'
    BY <1>2, <2>1, <2>3, FrameIs DEF Enter, modes, Modes, OuterAt, InnerAt, Outer
  <2> QED
    BY <1>1, <2>4, <2>5, <2>6, <2>7 DEF TrapsExplained
<1>3. CASE Len(stack) = 1 /\ OuterAt({"stack", "state"})
  <2>1. allocation_state # "StackUnallocated"
    BY <1>3 DEF Phases
  <2>2. stack' = Append(stack, Frame(f, "guard")) /\ UNCHANGED allocation_state
    BY <2>1 DEF Enter
  <2>3. Frame(f, "guard") \in AFrame
    BY FrameIs DEF Pc
  <2>4. /\ stack' \in Seq(AFrame) /\ Len(stack') = 2 /\ stack'[1] = Outer
        /\ stack'[2] = Frame(f, "guard")
    BY <1>3, <2>2, <2>3, Grows
  <2>5. Nesting'
    BY <1>3, <2>4, FrameIs DEF Nesting, OuterAt, InnerAt, Outer, Inner
  <2>6. Phases'
    BY <1>3, <2>2, <2>4 DEF Enter, Phases, OuterAt, Outer
  <2>7. Borrows'
    BY <1>3, <2>4, FrameIs DEF Enter, refcell, contents, Borrows, OuterAt, InnerAt, Outer, Inner, Borrowed
  <2>8. Modes'
    BY <1>3, <2>4 DEF Enter, modes, Modes, OuterAt, InnerAt, Outer
  <2> QED
    BY <1>1, <2>5, <2>6, <2>7, <2>8 DEF TrapsExplained
<1> QED
  BY <1>2, <1>3
-----------------------------------------------------------------------------
(* The inductive invariant *)

LEMMA InitHolds == Init => IInv
<1> SUFFICES ASSUME Init PROVE IInv
  OBVIOUS
<1>1. stack \in Seq(AFrame) /\ Len(stack) = 0
  BY DEF Init
<1>2. Nesting
  BY <1>1 DEF Nesting, OuterAt
<1>3. Phases
  BY <1>1 DEF Init, Phases, OuterAt
<1>4. Borrows
  BY <1>1 DEF Init, Borrows, OuterAt, InnerAt
<1>5. Modes
  BY <1>1 DEF Init, Modes, OuterAt
<1>6. Flags /\ TrapsExplained
  BY DEF Init, Flags, TrapsExplained
<1> QED
  BY <1>2, <1>3, <1>4, <1>5, <1>6 DEF IInv, Calls

LEMMA FlagsKept == ASSUME Flags, Next PROVE Flags'
<1>1. CASE StateAllocated
  BY <1>1 DEF StateAllocated, Flags
<1>2. CASE Borrow
  <2>1. writer' \in BOOLEAN
    BY <1>2 DEF Borrow
  <2> QED
    BY <1>2, <2>1 DEF Borrow, birth, contents, modes, Flags
<1>3. CASE FdsUse
  <2>1. cell' \in BOOLEAN
    BY <1>3 DEF FdsUse
  <2> QED
    BY <1>3, <2>1 DEF FdsUse, birth, refcell, modes, Flags
<1>4. CASE Alloc
  <2>1. buffer' \in BOOLEAN
    BY <1>4 DEF Alloc
  <2> QED
    BY <1>4, <2>1 DEF Alloc, birth, refcell, contents, Flags
<1>5. CASE Return
  <2>1. writer' \in BOOLEAN /\ cell' \in BOOLEAN
    BY <1>5, Zenon DEF Return, Flags
  <2> QED
    BY <1>5, <2>1 DEF Return, birth, modes, Flags
<1>6. CASE Next /\ ~(StateAllocated \/ Borrow \/ FdsUse \/ Alloc \/ Return)
  BY <1>6 DEF Next, Step, Call, CallFromRealloc, Enter, StackAllocated, HostAllocates, GuardAnswers, GuardPasses,
     PtrFound, PtrNew, FdsNew, PreopensReturn, ListsUse, ListsNew, ArenaReturns, BufferImport,
     BufferReturns, Traps, birth, refcell, contents, modes, Flags
<1> QED
  BY <1>1, <1>2, <1>3, <1>4, <1>5, <1>6

LEMMA StepKeeps == ASSUME IInv, Step PROVE Calls'
BY StackAllocatedKeeps, HostAllocatesKeeps, GuardAnswersKeeps, GuardPassesKeeps, PtrFoundKeeps,
   PtrNewKeeps, StateAllocatedKeeps, BorrowKeeps, FdsUseKeeps, FdsNewKeeps, PreopensReturnKeeps,
   ListsUseKeeps, ListsNewKeeps, ArenaReturnsKeeps, BufferImportKeeps, BufferReturnsKeeps,
   AllocKeeps, ReturnKeeps, TrapsKeeps DEF Step

LEMMA CallKeeps ==
  ASSUME IInv, NEW f \in Function, Call(f) \/ CallFromRealloc(f)
  PROVE  Calls'
<1>1. ~trapped /\ Enter(f)
  BY DEF Call, CallFromRealloc, At
<1>2. CASE Call(f)
  <2>1. Len(stack) = 0
    BY <1>2 DEF Call
  <2> QED
    BY <1>1, <2>1, EnterKeeps
<1>3. CASE CallFromRealloc(f)
  <2>1. stack # <<>> /\ Top.pc \in {"stack", "state"}
    BY <1>3 DEF CallFromRealloc, At
  <2>2. Len(stack) = 1 /\ OuterAt({"stack", "state"})
    BY <2>1, OuterRuns DEF IInv, Calls, OuterAt
  <2> QED
    BY <1>1, <2>2, EnterKeeps
<1> QED
  BY <1>2, <1>3

LEMMA NextKeeps == IInv /\ [Next]_vars => IInv'
<1> SUFFICES ASSUME IInv, [Next]_vars PROVE IInv'
  OBVIOUS
<1>1. CASE Next
  BY <1>1, StepKeeps, CallKeeps, FlagsKept DEF Next, IInv
<1>2. CASE UNCHANGED vars
  BY <1>2 DEF vars, IInv, Flags, Calls, Nesting, Phases, Borrows, Modes, TrapsExplained, OuterAt,
     InnerAt, Outer, Inner
<1> QED
  BY <1>1, <1>2

LEMMA IInvHolds == Spec => []IInv
<1> QED
  BY InitHolds, NextKeeps, PTL DEF Spec
-----------------------------------------------------------------------------
(* What follows for the properties *)

LEMMA Importing ==
  ASSUME Nesting, NEW pcs, pcs \subseteq Imports
  PROVE  (\E i \in 1..Len(stack) : stack[i].pc \in pcs) <=> OuterAt(pcs)
<1>1. Len(stack) \in {0, 1, 2}
  BY UpToTwo, LenProperties DEF Nesting
<1>2. CASE Len(stack) = 2
  <2>1. stack[2].pc \notin Imports
    BY <1>2 DEF Nesting, InnerAt, Inner, Imports
  <2>2. \A i \in 1..Len(stack) : i = 1 \/ i = 2
    BY <1>2
  <2> QED
    BY <1>2, <2>1, <2>2 DEF OuterAt, Outer
<1>3. CASE Len(stack) = 1
  <2>1. 1..Len(stack) = {1}
    BY <1>3
  <2> QED
    BY <1>3, <2>1 DEF OuterAt, Outer
<1>4. CASE Len(stack) = 0
  <2>1. 1..Len(stack) = {}
    BY <1>4
  <2> QED
    BY <1>4, <2>1 DEF OuterAt
<1> QED
  BY <1>1, <1>2, <1>3, <1>4

LEMMA ModesFollow == IInv => ModesMatchImports
<1> SUFFICES ASSUME IInv PROVE ModesMatchImports
  OBVIOUS
<1> DEFINE importing(pcs) == \E i \in 1..Len(stack) : stack[i].pc \in pcs
<1>1. /\ importing({"preopens", "arena"}) <=> OuterAt({"preopens", "arena"})
      /\ importing({"buffer"}) <=> OuterAt({"buffer"})
  BY Importing DEF IInv, Calls, Imports
<1> HIDE DEF importing
<1>2. arena <=> importing({"preopens", "arena"})
  BY <1>1 DEF IInv, Calls, Modes
<1>3. buffer => importing({"buffer"})
  BY <1>1 DEF IInv, Calls, Modes
<1>4. ~(buffer /\ arena)
  BY DEF IInv, Calls, Modes, OuterAt
<1>5. arena = importing({"preopens", "arena"})
  <2>1. arena \in BOOLEAN
    BY DEF IInv, Flags
  <2> QED
    BY <1>2, <2>1, Zenon DEF importing
<1> QED
  BY <1>3, <1>4, <1>5 DEF ModesMatchImports, importing

LEMMA CardUpToTwo ==
  ASSUME NEW S, S \subseteq {1, 2}
  PROVE  Cardinality(S) = (IF 1 \in S THEN 1 ELSE 0) + (IF 2 \in S THEN 1 ELSE 0)
<1>1. Cardinality({}) = 0
  BY FS_EmptySet
<1>2. Cardinality({1}) = 1 /\ Cardinality({2}) = 1 /\ IsFiniteSet({1})
  BY FS_Singleton
<1>3. Cardinality({1, 2}) = 2
  <2>1. {1, 2} = {1} \cup {2} /\ 2 \notin {1}
    OBVIOUS
  <2> QED
    BY <1>2, <2>1, FS_AddElement
<1>4. CASE 1 \in S /\ 2 \in S
  <2>1. S = {1, 2}
    BY <1>4
  <2> QED
    BY <1>3, <1>4, <2>1
<1>5. CASE 1 \in S /\ 2 \notin S
  <2>1. S = {1}
    BY <1>5
  <2> QED
    BY <1>2, <1>5, <2>1
<1>6. CASE 1 \notin S /\ 2 \in S
  <2>1. S = {2}
    BY <1>6
  <2> QED
    BY <1>2, <1>6, <2>1
<1>7. CASE 1 \notin S /\ 2 \notin S
  <2>1. S = {}
    BY <1>7
  <2> QED
    BY <1>1, <1>7, <2>1
<1> QED
  BY <1>4, <1>5, <1>6, <1>7

LEMMA BorrowsFollow == IInv => BorrowsMatchCalls
<1> SUFFICES ASSUME IInv PROVE BorrowsMatchCalls
  OBVIOUS
<1> USE DEF IInv, Calls
<1> DEFINE holding == {i \in 1..Len(stack) : stack[i].pc \in Borrowed}
           sharing == {i \in holding : stack[i].fn \notin Mut}
<1>1. Len(stack) \in {0, 1, 2}
  BY UpToTwo, LenProperties DEF Nesting
<1>2. holding \subseteq {1, 2}
  BY <1>1
<1>3. 1 \in holding <=> OuterAt(Borrowed)
  BY <1>1 DEF OuterAt, Outer
<1>4. 2 \in holding <=> InnerAt(Borrowed)
  BY <1>1 DEF InnerAt, Inner
<1>5. InnerAt(Borrowed) => Inner.fn = Import /\ Inner.fn \notin Mut
  BY Kinds, InnerRuns DEF InnerAt, Borrowed
<1>6. /\ 1 \in sharing <=> OuterAt(Borrowed) /\ Outer.fn \notin Mut
      /\ 2 \in sharing <=> InnerAt(Borrowed)
  BY <1>3, <1>4, <1>5 DEF Outer, Inner
<1> HIDE DEF holding
<1>7. readers = Cardinality(sharing)
  <2>1. sharing \subseteq {1, 2}
    BY <1>2
  <2> HIDE DEF sharing
  <2> QED
    BY <1>6, <2>1, CardUpToTwo DEF Borrows
<1>8. (\E i \in holding : stack[i].fn \in Mut) <=> OuterAt(Borrowed) /\ Outer.fn \in Mut
  BY <1>2, <1>3, <1>4, <1>5 DEF Outer, Inner
<1>9. writer = \E i \in holding : stack[i].fn \in Mut
  <2>1. writer \in BOOLEAN /\ (writer <=> \E i \in holding : stack[i].fn \in Mut)
    BY <1>8 DEF Flags, Borrows
  <2> QED
    BY <2>1, Zenon
<1>10. \A i, j \in holding : stack[i].fn \in Mut => i = j
  <2> SUFFICES ASSUME NEW i \in holding, NEW j \in holding, stack[i].fn \in Mut
               PROVE  i = j
    OBVIOUS
  <2>1. writer
    BY <1>9
  <2>2. ~InnerAt(Borrowed)
    BY <2>1 DEF Borrows
  <2> QED
    BY <1>2, <1>4, <2>2
<1>11. (cell \/ descriptors = "Busy") => \E i \in holding : stack[i].fn \in Fd
  <2>1. cell \/ descriptors = "Busy" => OuterAt(Borrowed) /\ Outer.fn \in Fd
    BY DEF Borrows, Nesting, OuterAt, Borrowed
  <2> QED
    BY <1>3, <2>1 DEF Outer
<1> QED
  BY <1>7, <1>9, <1>10, <1>11 DEF BorrowsMatchCalls, holding

LEMMA TypesFollow == IInv => TypeOK
<1> SUFFICES ASSUME IInv PROVE TypeOK
  OBVIOUS
<1>1. readers \in Nat
  BY DEF IInv, Calls, Borrows
<1>2. created \in Nat
  BY DEF IInv, Calls, Phases
<1>3. stack \in Seq(AFrame)
  BY DEF IInv, Calls, Nesting
<1>4. descriptors \in {"None", "Busy", "Some"}
  BY DEF IInv, Calls, Borrows
<1> QED
  BY <1>1, <1>2, <1>3, <1>4 DEF IInv, Calls, Flags, Phases, AFrame, TypeOK

-----------------------------------------------------------------------------
(* Theorems *)

(* Every variable keeps its type: no borrow is released that was not taken *)
(* (the RefCell of the State, lib.rs:2248-2296).                           *)
THEOREM TypeCorrect == Spec => []TypeOK
<1> QED
  BY IInvHolds, TypesFollow, PTL

(* Calls nest at most once, whatever the main module does in cabi_realloc: *)
(* a second State::new is refused by the guards and by its own assertion,  *)
(* and cabi_import_realloc imports nothing (lib.rs:150-221, 2260).         *)
THEOREM NestsOnce == Spec => [](Len(stack) <= 2)
<1>1. IInv => Len(stack) <= 2
  BY DEF IInv, Calls, Nesting
<1> QED
  BY <1>1, IInvHolds, PTL

(* The allocation mode belongs to the import in progress, and buffer and   *)
(* arena are never both in use ("these two are mutually exclusive",        *)
(* ImportAlloc).                                                           *)
THEOREM ModesAreImports == Spec => []ModesMatchImports
<1> QED
  BY IInvHolds, ModesFollow, PTL

(* The borrows of the State and of its descriptors are those of the calls  *)
(* in progress: a mutable one is alone, and none outlives its call.        *)
THEOREM BorrowsAreCalls == Spec => []BorrowsMatchCalls
<1> QED
  BY IInvHolds, BorrowsFollow, PTL

(* The State is made once, however cabi_realloc of the main module calls   *)
(* back while it is being allocated.                                       *)
THEOREM MadeOnce == Spec => []CreatedOnce
<1>1. IInv => CreatedOnce
  BY DEF IInv, Calls, Phases, CreatedOnce
<1> QED
  BY <1>1, IInvHolds, PTL

(* The adapter traps in two cases only: cabi_realloc of the main module    *)
(* calls a function without a guard, or a call that borrows the State      *)
(* mutably makes the descriptors.                                          *)
THEOREM TrapsHaveCauses == Spec => []TrapsExplained
<1>1. IInv => TrapsExplained
  BY DEF IInv, Calls
<1> QED
  BY <1>1, IInvHolds, PTL

=============================================================================
