--------------------------- MODULE MCFileStreams ---------------------------
(* Small instances of FileStreams for TLC. *)
EXTENDS FileStreams, TLC

Symmetry == Permutations(Fd)
=============================================================================
