------------------------------- MODULE Arena -------------------------------
(***************************************************************************)
(* Where the adapter puts what the host hands it (lib.rs): BumpArena, an   *)
(* area of fixed size from which memory is taken and never given back, and *)
(* ImportAlloc, which answers the cabi_import_realloc of the host from the *)
(* arena or, once, from a buffer of the guest.                             *)
(***************************************************************************)
EXTENDS Integers, Sequences

CONSTANTS
  Base,        \* The address of BumpArena::data.
  ArenaSize,   \* bump_arena_size().
  Word,        \* The size of a pointer and of a length.
  Absent       \* Option::None; not a pair of pointer and length.

ASSUME ArenaAssumption ==
  Base \in Nat /\ ArenaSize \in Nat /\ Word \in Nat \ {0} /\ Absent \notin [ptr : Nat, len : Nat]

VARIABLES
  position,   \* BumpArena::position.
  memory,     \* BumpArena::data, what is stored at each address.
  regions,    \* History: what was taken from the arena.
  arena,      \* ImportAlloc::arena is Some.
  buffer      \* ImportAlloc::buffer and len, Absent when buffer is null.

arenaVars == <<position, memory, regions, arena, buffer>>

Address == Base..(Base + ArenaSize - 1)

Unwritten == <<"unwritten", 0, 0>>

ArenaInit ==
  /\ position = 0
  /\ memory = [a \in Address |-> Unwritten]
  /\ regions = <<>>
  /\ arena = FALSE
  /\ buffer = Absent

-----------------------------------------------------------------------------
(* Contents: a cell is one byte, a tuple of what it is part of.            *)

(* Mutant: rounds down. *)
AlignTo_Down(p, align) == p - (p % align)

AlignTo(p, align) == p + (align - 1) - ((p + (align - 1)) % align)

Cell(a) == IF a \in Address THEN memory[a] ELSE Unwritten

(* A word, as its bytes; and the word at an address. *)
WordBytes(value) == [k \in 1..Word |-> <<"word", value, k>>]
WordAt(a) == Cell(a)[2]

(* A WasmStr, as its bytes; and the string of the WasmStr at an address. *)
StrSize == 2 * Word
StrBytes(ptr, len) ==
  [k \in 1..StrSize |-> IF k <= Word THEN WordBytes(ptr)[k] ELSE WordBytes(len)[k - Word]]
StrAt(a) == [k \in 1..WordAt(a + Word) |-> Cell(WordAt(a) + k - 1)]

(* A memory with the bytes at an address. *)
Stored(m, a, len, bytes) ==
  [b \in DOMAIN m |-> IF b \in a..(a + len - 1) THEN bytes[b - a + 1] ELSE m[b]]

-----------------------------------------------------------------------------
(* Allocation *)

WithArena ==
  /\ buffer = Absent /\ ~arena
  /\ arena' = TRUE
  /\ UNCHANGED <<position, memory, regions, buffer>>

ArenaReturns ==
  /\ arena' = FALSE
  /\ UNCHANGED <<position, memory, regions, buffer>>

WithBuffer(ptr, len) ==
  /\ buffer = Absent /\ ~arena
  /\ buffer' = [ptr |-> ptr, len |-> len]
  /\ UNCHANGED <<position, memory, regions, arena>>

BufferReturns ==
  /\ buffer' = Absent
  /\ UNCHANGED <<position, memory, regions, arena>>

Allocated(align) == AlignTo(Base + position, align)

FitsArena(align, size) == Allocated(align) - Base + size <= ArenaSize

PositionAfter(align, size) == Allocated(align) - Base + size

(* BumpArena::alloc; `writes' is what the host writes, here and in what it *)
(* was given before, before it asks for more.                              *)
ArenaAlloc(align, size, writes) ==
  /\ arena /\ FitsArena(align, size)
  /\ position' = PositionAfter(align, size)
  /\ regions' = Append(regions, [ptr |-> Allocated(align), len |-> size])
  /\ memory' = writes
  /\ UNCHANGED <<arena, buffer>>

(* ImportAlloc::alloc without an arena: the buffer is used once. *)
FitsBuffer(align, size) ==
  buffer # Absent /\ AlignTo(buffer.ptr, align) + size <= buffer.ptr + buffer.len

BufferAlloc(align, size) ==
  /\ ~arena /\ FitsBuffer(align, size)
  /\ buffer' = Absent
  /\ UNCHANGED <<position, memory, regions, arena>>

-----------------------------------------------------------------------------
(* Properties *)

Apart(r, s) == r.ptr + r.len <= s.ptr \/ s.ptr + s.len <= r.ptr

(* What is taken from the arena lies in it, and no two pieces of it        *)
(* overlap, whatever their sizes and alignments: a list that is kept for   *)
(* the life of the adapter is not written over by a later import.          *)
RegionsApart ==
  /\ \A i \in 1..Len(regions) :
       Base <= regions[i].ptr /\ regions[i].ptr + regions[i].len <= Base + ArenaSize
  /\ \A i, j \in 1..Len(regions) : i # j => Apart(regions[i], regions[j])
=============================================================================
