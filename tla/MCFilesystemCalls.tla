------------------------- MODULE MCFilesystemCalls -------------------------
EXTENDS FilesystemCalls, TLC

CONSTANTS r, f, l, w, g, n1, x, y, hr, hw, h1, d1, d2

NoEntries == [z \in Name |-> None]

(* A read-only directory with a file and a link to it, and a directory     *)
(* with a file.                                                            *)
MCNode0 ==
  [n \in Node |->
    CASE n \in {r, w} -> Fresh("dir", IF n = w THEN d2 ELSE d1, None)
      [] n \in {f, g} -> Fresh("file", IF n = g THEN d2 ELSE d1, None)
      [] n = l -> Fresh("link", d1, x)
      [] OTHER -> Fresh("free", d1, None)]

MCEntries0 ==
  [n \in Node |->
    CASE n = r -> (x :> f @@ y :> l)
      [] n = w -> (x :> g @@ y :> None)
      [] OTHER -> NoEntries]

MCReadOnly == {r, f, l}

MCPreopen ==
  hr :> [node |-> r, perms |-> {"READ"}, file_perms |-> {"READ"}] @@
  hw :> [node |-> w, perms |-> DirPerms, file_perms |-> FilePerms]

(* Two preopens that may be changed, on two devices. *)
MCPreopenDevices ==
  hr :> [node |-> r, perms |-> DirPerms, file_perms |-> FilePerms] @@
  hw :> [node |-> w, perms |-> DirPerms, file_perms |-> FilePerms]

Args(oflags, rights, fdflags, follow) ==
  [oflags |-> oflags, rights |-> rights, fdflags |-> fdflags, follow |-> follow]

Reading == {"FD_READ"}
Writing == {"FD_WRITE"}

(* Each flag, alone and in the combinations that interact. *)
MCOpenArgs ==
  {Args({}, rights, {}, TRUE) : rights \in SUBSET {"FD_READ", "FD_WRITE"}} \cup
  {Args({"CREAT"}, rights, {}, TRUE) : rights \in {Reading, Writing}} \cup
  {Args({"CREAT", "EXCL"}, Reading, {}, TRUE),
   Args({"TRUNC"}, Writing, {}, TRUE),
   Args({"TRUNC"}, Reading, {}, TRUE),
   Args({"CREAT", "DIRECTORY"}, Reading, {}, FALSE),
   Args({"DIRECTORY"}, Reading, {}, FALSE),
   Args({"EXCL"}, Writing, {}, FALSE),
   Args({"CREAT"}, Writing, {"DSYNC"}, FALSE)}
=============================================================================
