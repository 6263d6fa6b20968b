--------------------------- MODULE MCReaddirWalk ---------------------------
(* Small instances of ReaddirWalk for TLC. *)
EXTENDS ReaddirWalk

MCEntries == [d1 |-> <<"a", "long", "b">>, d2 |-> <<"x">>]
MCLongNames == {"long"}
=============================================================================
