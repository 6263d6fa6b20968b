---------------------------- MODULE AdapterState ----------------------------
(***************************************************************************)
(* The life of the adapter's State (lib.rs): how it comes to exist, how    *)
(* each exported function borrows it, and how allocations of the host come *)
(* back into the adapter while a function holds it.                        *)
(*                                                                         *)
(* Nothing runs in parallel, but calls nest.  The first call allocates a   *)
(* stack and then the State through cabi_realloc of the main module, which *)
(* may call the adapter again; an import that returns a list or a string   *)
(* makes the host call cabi_import_realloc before the import returns.  The *)
(* call stack is a sequence of frames, the running one last.               *)
(***************************************************************************)
EXTENDS Integers, Sequences, FiniteSets

CONSTANTS
  Function,     \* Exported functions of the adapter.
  Guarded,      \* Those that answer at once while memory is allocated.
  Mut,          \* Those that borrow the State mutably (State::with_mut).
  Fd,           \* Those that use the descriptors.
  List,         \* Those that use the arguments or the environment.
  Buffer,       \* Those that import something into a buffer.
  Import,       \* cabi_import_realloc.
  Export        \* cabi_export_realloc, called by the host before main runs.

ASSUME FunctionAssumption ==
  /\ Import \notin Function /\ Export \in Function /\ Export \in Mut
  /\ Guarded \subseteq Function /\ Mut \subseteq Function /\ Fd \subseteq Function
  /\ List \subseteq Function /\ Buffer \subseteq Function
  /\ Mut \cap (List \cup Buffer \cup Guarded) = {}
  /\ Export \notin Fd

VARIABLES
  allocation_state,  \* The global of the same name.
  state,             \* Whether the State exists: get_state_ptr() is not null.
  created,           \* How often it was created.
  readers, writer,   \* Its RefCell: shared borrows, and whether one is mutable.
  descriptors,       \* State::descriptors: "None", "Busy" (being made) or "Some".
  cell,              \* Whether the RefCell of the descriptors is borrowed.
  lists,             \* Whether the arguments and the environment are cached.
  buffer, arena,     \* ImportAlloc: buffer is not null, arena is some.
  stack,             \* Calls in progress.
  trapped            \* An unreachable!() or a failed assert was reached.

vars == <<allocation_state, state, created, readers, writer, descriptors, cell, lists,
          buffer, arena, stack, trapped>>
refcell == <<readers, writer>>
contents == <<descriptors, cell, lists>>
modes == <<buffer, arena>>
birth == <<allocation_state, state, created>>

-----------------------------------------------------------------------------
(* Frames *)

(* Where a call is: "stack" and "state" wait for cabi_realloc of the main  *)
(* module, the Imports wait for an import of the host; `served' tells that *)
(* the host has allocated for a buffer import.                             *)
Imports == {"preopens", "arena", "buffer"}
Frame(f, pc) == [fn |-> f, pc |-> pc, served |-> FALSE]

Top == stack[Len(stack)]
Below == SubSeq(stack, 1, Len(stack) - 1)
At(pc) == stack # <<>> /\ ~trapped /\ Top.pc = pc
Running(f) == stack # <<>> /\ Top.fn = f

Goto(pc) == stack' = Append(Below, Frame(Top.fn, pc))

Init ==
  /\ allocation_state = "StackUnallocated"
  /\ state = FALSE /\ created = 0
  /\ readers = 0 /\ writer = FALSE
  /\ descriptors = "None" /\ cell = FALSE /\ lists = FALSE
  /\ buffer = FALSE /\ arena = FALSE
  /\ stack = <<>> /\ trapped = FALSE

-----------------------------------------------------------------------------
(* Calls from outside *)

(* The call that finds no stack allocates it first (the prologue that      *)
(* wit-component adds).                                                    *)
Enter(f) ==
  /\ IF allocation_state = "StackUnallocated"
     THEN allocation_state' = "StackAllocating" /\ stack' = Append(stack, Frame(f, "stack"))
     ELSE UNCHANGED allocation_state /\ stack' = Append(stack, Frame(f, "guard"))
  /\ UNCHANGED <<state, created, refcell, contents, modes, trapped>>

(* The main module calls f, or the host calls cabi_export_realloc. *)
Call(f) == stack = <<>> /\ ~trapped /\ Enter(f)

(* The main module calls f from its cabi_realloc. *)
CallFromRealloc(f) == (At("stack") \/ At("state")) /\ f # Export /\ Enter(f)

StackAllocated ==
  /\ At("stack")
  /\ allocation_state' = "StackAllocated"
  /\ Goto("guard")
  /\ UNCHANGED <<state, created, refcell, contents, modes, trapped>>

(* An import that is waiting asks for memory: once for the one list or     *)
(* string that goes to a buffer, any number of times in an arena.          *)
HostAllocates ==
  /\ ~trapped /\ stack # <<>> /\ Top.pc \in Imports
  /\ Top.pc = "buffer" => ~Top.served
  /\ stack' = Append(Append(Below, [Top EXCEPT !.served = TRUE]), Frame(Import, "guard"))
  /\ UNCHANGED <<birth, refcell, contents, modes, trapped>>

-----------------------------------------------------------------------------
(* Steps of a call *)

(* Mutant: the guards let calls through while the State is allocated. *)
Ready_StateAllocating == {"StackAllocated", "StateAllocating", "StateAllocated"}

Ready == {"StackAllocated", "StateAllocated"}

(* While memory is being allocated, the guarded functions answer with      *)
(* nothing: no environment, no preopens, an error for fd_write.            *)
GuardAnswers ==
  /\ At("guard") /\ Top.fn \in Guarded /\ allocation_state \notin Ready
  /\ stack' = Below
  /\ UNCHANGED <<birth, refcell, contents, modes, trapped>>

(* Mutant: every function waits until the allocation is over. *)
GuardPasses_Waits ==
  /\ At("guard") /\ allocation_state \in Ready
  /\ Goto("ptr")
  /\ UNCHANGED <<birth, refcell, contents, modes, trapped>>

GuardPasses ==
  /\ At("guard") /\ (Top.fn \in Guarded => allocation_state \in Ready)
  /\ Goto("ptr")
  /\ UNCHANGED <<birth, refcell, contents, modes, trapped>>

(* State::ptr and State::new. *)
PtrFound ==
  /\ At("ptr") /\ state
  /\ Goto("borrow")
  /\ UNCHANGED <<birth, refcell, contents, modes, trapped>>

(* Mutant: State::new does not look at allocation_state. *)
NewAsserts_Nothing == TRUE

(* The assertion at the start of State::new. *)
NewAsserts == allocation_state = "StackAllocated"

PtrNew ==
  /\ At("ptr") /\ ~state
  /\ NewAsserts
  /\ allocation_state' = "StateAllocating"
  /\ Goto("state")
  /\ UNCHANGED <<state, created, refcell, contents, modes, trapped>>

StateAllocated ==
  /\ At("state")
  /\ allocation_state' = "StateAllocated"
  /\ state' = TRUE /\ created' = created + 1
  /\ readers' = 0 /\ writer' = FALSE
  /\ descriptors' = "None" /\ cell' = FALSE /\ lists' = FALSE
  /\ buffer' = FALSE /\ arena' = FALSE
  /\ Goto("borrow")
  /\ UNCHANGED trapped

(* State::with and with_mut. *)
Borrowable(f) == ~writer /\ (f \in Mut => readers = 0)

Borrow ==
  /\ At("borrow") /\ Borrowable(Top.fn)
  /\ readers' = IF Top.fn \in Mut THEN readers ELSE readers + 1
  /\ writer' = (Top.fn \in Mut)
  /\ Goto("fds")
  /\ UNCHANGED <<birth, contents, modes, trapped>>

(* State::descriptors and descriptors_mut: the first use makes them, with  *)
(* an import in arena mode in the middle.                                  *)
ArenaFree == ~buffer /\ ~arena

FdsUse ==
  /\ At("fds")
  /\ Top.fn \in Fd => ~cell /\ descriptors = "Some"
  /\ cell' = (cell \/ Top.fn \in Fd)
  /\ Goto("lists")
  /\ UNCHANGED <<birth, refcell, descriptors, lists, modes, trapped>>

FdsNew ==
  /\ At("fds") /\ Top.fn \in Fd /\ ~cell /\ descriptors # "Some" /\ ArenaFree
  /\ cell' = TRUE /\ descriptors' = "Busy" /\ arena' = TRUE
  /\ Goto("preopens")
  /\ UNCHANGED <<birth, refcell, lists, buffer, trapped>>

PreopensReturn ==
  /\ At("preopens")
  /\ descriptors' = "Some" /\ arena' = FALSE
  /\ Goto("lists")
  /\ UNCHANGED <<birth, refcell, cell, lists, buffer, trapped>>

(* State::get_args and get_environment. *)
ListsUse ==
  /\ At("lists") /\ (Top.fn \in List => lists)
  /\ Goto("body")
  /\ UNCHANGED <<birth, refcell, contents, modes, trapped>>

ListsNew ==
  /\ At("lists") /\ Top.fn \in List /\ ~lists /\ ArenaFree
  /\ arena' = TRUE
  /\ Goto("arena")
  /\ UNCHANGED <<birth, refcell, contents, buffer, trapped>>

ArenaReturns ==
  /\ At("arena")
  /\ lists' = TRUE /\ arena' = FALSE
  /\ Goto("body")
  /\ UNCHANGED <<birth, refcell, descriptors, cell, buffer, trapped>>

(* ImportAlloc::with_buffer around an import; some functions import again. *)
BufferImport ==
  /\ At("body") /\ Top.fn \in Buffer /\ ArenaFree
  /\ buffer' = TRUE
  /\ Goto("buffer")
  /\ UNCHANGED <<birth, refcell, contents, arena, trapped>>

(* Mutant: the buffer is left in place when the import returns. *)
BufferReturns_Keeps ==
  /\ At("buffer")
  /\ Goto("body")
  /\ UNCHANGED <<birth, refcell, contents, modes, trapped>>

BufferReturns ==
  /\ At("buffer")
  /\ buffer' = FALSE
  /\ Goto("body")
  /\ UNCHANGED <<birth, refcell, contents, arena, trapped>>

(* ImportAlloc::alloc, all that cabi_import_realloc does with the State.   *)
Alloc ==
  /\ At("body") /\ Running(Import) /\ (arena \/ buffer)
  /\ buffer' = (buffer /\ arena)
  /\ Goto("return")
  /\ UNCHANGED <<birth, refcell, contents, arena, trapped>>

(* What a call must not find: an assertion that fails, a cell that is      *)
(* borrowed, an allocation mode that is taken, an allocation in no mode.   *)
Unreachable ==
  CASE Top.pc = "ptr" -> ~state /\ ~NewAsserts
    [] Top.pc = "borrow" -> ~Borrowable(Top.fn)
    [] Top.pc = "fds" -> Top.fn \in Fd /\ (cell \/ (descriptors # "Some" /\ ~ArenaFree))
    [] Top.pc = "lists" -> Top.fn \in List /\ ~lists /\ ~ArenaFree
    [] Top.pc = "body" -> IF Running(Import) THEN ~arena /\ ~buffer
                          ELSE Top.fn \in Buffer /\ ~ArenaFree
    [] OTHER -> FALSE

Traps ==
  /\ ~trapped /\ stack # <<>> /\ Unreachable
  /\ trapped' = TRUE
  /\ UNCHANGED <<birth, refcell, contents, modes, stack>>

Ended ==
  \/ Top.pc = "return"
  \/ Top.pc = "body" /\ ~Running(Import)

(* Mutant: the borrow of the descriptors outlives the call. *)
Return_KeepsCell ==
  /\ ~trapped /\ stack # <<>>
  /\ Ended
  /\ stack' = Below
  /\ readers' = IF Top.fn \in Mut THEN readers ELSE readers - 1
  /\ writer' = IF Top.fn \in Mut THEN FALSE ELSE writer
  /\ UNCHANGED <<birth, contents, modes, trapped>>

(* The end of a call, which may come before any of its imports, releases   *)
(* what it borrowed.                                                       *)
Return ==
  /\ ~trapped /\ stack # <<>>
  /\ Ended
  /\ stack' = Below
  /\ readers' = IF Top.fn \in Mut THEN readers ELSE readers - 1
  /\ writer' = IF Top.fn \in Mut THEN FALSE ELSE writer
  /\ cell' = IF Top.fn \in Fd THEN FALSE ELSE cell
  /\ UNCHANGED <<birth, descriptors, lists, modes, trapped>>

-----------------------------------------------------------------------------
(* Specifications *)

Step ==
  \/ StackAllocated \/ HostAllocates \/ GuardAnswers \/ GuardPasses
  \/ PtrFound \/ PtrNew \/ StateAllocated \/ Borrow
  \/ FdsUse \/ FdsNew \/ PreopensReturn
  \/ ListsUse \/ ListsNew \/ ArenaReturns
  \/ BufferImport \/ BufferReturns \/ Alloc \/ Return \/ Traps

(* Any main module, making any calls, also from its cabi_realloc. *)
Next == Step \/ \E f \in Function : Call(f) \/ CallFromRealloc(f)
Spec == Init /\ [][Next]_vars

(* A call takes its steps; the host answers an import after finitely many  *)
(* allocations, cabi_realloc returns after finitely many calls, and a call *)
(* imports finitely many times.                                            *)
Fairness ==
  /\ WF_vars(Step)
  /\ SF_vars(StackAllocated) /\ SF_vars(StateAllocated)
  /\ SF_vars(PreopensReturn) /\ SF_vars(ArenaReturns)
  /\ SF_vars(Return /\ ~Running(Import))

FairSpec == Spec /\ Fairness

(* A main module whose cabi_realloc only calls guarded functions. *)
CalmNext ==
  \/ Step
  \/ \E f \in Function : Call(f)
  \/ \E f \in Guarded : CallFromRealloc(f)
CalmSpec == Init /\ [][CalmNext]_vars

-----------------------------------------------------------------------------
(* Properties *)

Borrowed == {"fds", "preopens", "lists", "arena", "body", "buffer", "return"}
Pc == Borrowed \cup {"stack", "guard", "ptr", "state", "borrow"}

(* The type invariant. *)
TypeOK ==
  /\ allocation_state \in {"StackUnallocated", "StackAllocating", "StackAllocated",
                           "StateAllocating", "StateAllocated"}
  /\ state \in BOOLEAN /\ created \in Nat
  /\ readers \in Nat /\ writer \in BOOLEAN
  /\ descriptors \in {"None", "Busy", "Some"} /\ cell \in BOOLEAN /\ lists \in BOOLEAN
  /\ buffer \in BOOLEAN /\ arena \in BOOLEAN
  /\ stack \in Seq([fn : Function \cup {Import}, pc : Pc, served : BOOLEAN])
  /\ trapped \in BOOLEAN

(* The allocation mode belongs to the import in progress, so "buffer       *)
(* not-null and arena is-some are never true at the same time" (lib.rs:130)*)
(* however calls nest, and no mode is left for the next call to trip over. *)
ModesMatchImports ==
  LET importing(pcs) == \E i \in 1..Len(stack) : stack[i].pc \in pcs IN
  /\ arena = importing({"preopens", "arena"})
  /\ buffer => importing({"buffer"})
  /\ ~(buffer /\ arena)

(* The borrows of the State and of its descriptors are those of the calls  *)
(* in progress: a mutable one is alone, and none outlives its call.        *)
BorrowsMatchCalls ==
  LET holding == {i \in 1..Len(stack) : stack[i].pc \in Borrowed} IN
  /\ readers = Cardinality({i \in holding : stack[i].fn \notin Mut})
  /\ writer = \E i \in holding : stack[i].fn \in Mut
  /\ \A i, j \in holding : stack[i].fn \in Mut => i = j
  /\ (cell \/ descriptors = "Busy") => \E i \in holding : stack[i].fn \in Fd

(* Whatever cabi_realloc of the main module calls while the State is being *)
(* allocated, there is never a second State, which would forget the        *)
(* descriptors and the caches of the first.                                *)
CreatedOnce == created <= 1

(* The unreachable!()s and assertions that guard the State are met in two  *)
(* cases only: cabi_realloc of the main module calls a function without a  *)
(* guard, or the call that makes the descriptors borrows the State mutably *)
(* while the host allocates the list of preopens.                          *)
TrapsExplained ==
  trapped =>
    \/ \E i \in 2..Len(stack) :
         stack[i - 1].pc \in {"stack", "state"} /\ stack[i].fn \notin Guarded
    \/ \E i \in 1..Len(stack) : stack[i].pc = "preopens" /\ stack[i].fn \in Mut

(* "Mut accessor for the descriptors member that ensures it is properly    *)
(* initialized" (lib.rs:2322): with a main module whose cabi_realloc only  *)
(* calls guarded functions, no call traps.                                 *)
NeverTraps == ~trapped

(* Every call comes to its end: no call waits for an allocation that waits *)
(* for the call.                                                           *)
CallsReturn == stack # <<>> ~> (stack = <<>> \/ trapped)
=============================================================================
