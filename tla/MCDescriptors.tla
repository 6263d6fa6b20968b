--------------------------- MODULE MCDescriptors ---------------------------
(* Small instances of Descriptors for TLC. *)
EXTENDS DescriptorsRefinement, DescriptorsDiscipline, TLC

(* A guest that leaves stdin and stdout alone, and names one fd beyond the table. *)
MCGuestFd == 2..MAX_DESCRIPTORS

Symmetry == Permutations(Handle)
=============================================================================
