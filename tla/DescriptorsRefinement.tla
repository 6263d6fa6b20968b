----------------------- MODULE DescriptorsRefinement -----------------------
(***************************************************************************)
(* The table of Descriptors implements the partial map of FdTable: a file  *)
(* descriptor names the host object its slot stands for.                   *)
(***************************************************************************)
EXTENDS Descriptors

(* The handle that says what a descriptor is: the filesystem descriptor,   *)
(* or for stdio the one stream it has.                                     *)
ObjectOf(d) ==
  IF ~Holds(d) THEN None
  ELSE IF d.type # "Stdio" THEN d.fd
  ELSE IF d.input # None THEN d.input ELSE d.output

Abstract == INSTANCE FdTable WITH
  Object <- Handle,
  Initial <- 0..(NumInitial - 1),
  object <- [fd \in Fd |-> ObjectOf(table[fd])]

(* Any guest sees the partial map of FdTable: an open never takes a        *)
(* descriptor in use, a close frees one descriptor, and fd_renumber moves  *)
(* one, whatever state the free list of descriptors.rs is in.              *)
ImplementsFdTable == Abstract!Spec
=============================================================================
