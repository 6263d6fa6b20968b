----------------------- MODULE DescriptorsDiscipline -----------------------
(***************************************************************************)
(* Descriptors with a history of how the guest has used fd_renumber.  Once *)
(* it has renumbered onto a closed slot, or a descriptor onto itself,      *)
(* nothing is promised of the free list any more (descriptors.rs:313).     *)
(***************************************************************************)
EXTENDS Descriptors

VARIABLE disciplined   \* History: every renumbering so far was OntoOpen.

historyVars == <<vars, disciplined>>

HistoryInit == Init /\ disciplined = TRUE

Renounces ==
  /\ \E from, to \in GuestFd : ~OntoOpen(from, to) /\ Renumber(from, to)
  /\ disciplined' = FALSE

HistoryNext == (DisciplinedNext /\ UNCHANGED disciplined) \/ Renounces

(* Any guest, with the history. *)
HistorySpec == HistoryInit /\ [][HistoryNext]_historyVars

(* As long as the guest has only renumbered onto other open descriptors,   *)
(* the free list of descriptors.rs lists exactly the closed slots, open    *)
(* says NOMEM only when every slot is open, and the unreachable!() of open *)
(* is never reached: no sequence of opens, closes and renumberings loses a *)
(* slot or brings one on the list twice.                                   *)
FreelistWhileDisciplined ==
  disciplined => FreelistOK /\ FullMeansFull /\ NeverTraps
=============================================================================
