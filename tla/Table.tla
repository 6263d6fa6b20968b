------------------------------- MODULE Table -------------------------------
(***************************************************************************)
(* The resource table of the host (wasi-common/src/table.rs): a map from   *)
(* u32 keys to resources.  Keys are handed out in order, and again from 0  *)
(* once they have wrapped around.                                          *)
(***************************************************************************)
EXTENDS Integers, FiniteSets

CONSTANTS
  KeySpace,   \* The number of keys, 2^32 in the code.
  None

ASSUME KeySpaceAssumption ==
  KeySpace \in Nat /\ KeySpace > 1 /\ None \notin 0..(KeySpace - 1)

VARIABLES
  map,        \* The resource of each key, None when there is none.
  next_key    \* Where the search for a free key starts.

tableVars == <<map, next_key>>

Key == 0..(KeySpace - 1)

Live == {k \in Key : map[k] # None}

(* New insertions begin at 3, in a table of the full size. *)
TableInit ==
  /\ map = [k \in Key |-> None]
  /\ next_key = 3 % KeySpace

(* One key always stays free: map.len() == u32::MAX. *)
TableFull == Cardinality(Live) = KeySpace - 1

(* Mutant: the next key is taken without a look at the map. *)
IsNextFree_Unchecked(key) == key = next_key

(* The first key from next_key on, around the end, that is not in use. *)
IsNextFree(key) ==
  /\ map[key] = None
  /\ \E d \in 0..(KeySpace - 1) :
       /\ key = (next_key + d) % KeySpace
       /\ \A j \in 0..(d - 1) : map[(next_key + j) % KeySpace] # None

KeyAfter(key) == (key + 1) % KeySpace

Push(resource, key) ==
  /\ ~TableFull
  /\ IsNextFree(key)
  /\ map' = [map EXCEPT ![key] = resource]
  /\ next_key' = KeyAfter(key)

Delete(key) ==
  /\ map' = [map EXCEPT ![key] = None]
  /\ UNCHANGED next_key
=============================================================================
