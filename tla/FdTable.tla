------------------------------ MODULE FdTable ------------------------------
(***************************************************************************)
(* What the descriptor table promises to a guest: a partial map from file  *)
(* descriptors to the objects they name.  An open picks any descriptor     *)
(* that is not in use and fails only when all of them are; nothing is said *)
(* of free lists or of how far the table has grown.                        *)
(***************************************************************************)
EXTENDS Integers

CONSTANTS
  Fd,        \* The file descriptors there are.
  Object,    \* What a descriptor may name.
  Initial,   \* The descriptors open at the start.
  None       \* Not in use; not an object.

VARIABLE object   \* What each descriptor names.

InUse == {fd \in Fd : object[fd] # None}

Init ==
  /\ object \in [Fd -> Object \cup {None}]
  /\ InUse = Initial
  /\ \A f, g \in InUse : object[f] = object[g] => f = g

(* Open an object no other descriptor names, under a descriptor not in use. *)
Open(fd, o) ==
  /\ object[fd] = None
  /\ \A g \in Fd : object[g] # o
  /\ object' = [object EXCEPT ![fd] = o]

Close(fd) ==
  /\ object[fd] # None
  /\ object' = [object EXCEPT ![fd] = None]

(* `to' names what `from' named; what `to' named before is closed. *)
Renumber(from, to) ==
  /\ object[from] # None
  /\ from # to
  /\ object' = [object EXCEPT ![from] = None, ![to] = object[from]]

Next ==
  \/ \E fd \in Fd, o \in Object : Open(fd, o)
  \/ \E fd \in Fd : Close(fd)
  \/ \E from, to \in Fd : Renumber(from, to)

Spec == Init /\ [][Next]_object
=============================================================================
