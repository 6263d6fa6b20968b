----------------------------- MODULE MCSockets -----------------------------
(* A small instance of Sockets for TLC: stdin is a stream of an embedder    *)
(* with the loops of the trait and no file descriptor, stdout a file, whose *)
(* descriptor reads at an offset of its own.  The embedder can feed both    *)
(* into connections.                                                        *)
EXTENDS Sockets

CONSTANTS own, file, offset, s1, s2

MCEnd == {own, file, offset, s1, s2}
MCSock == {s1, s2}
MCFd == [e \in MCEnd \ {own} |-> IF e = file THEN offset ELSE e]
=============================================================================
