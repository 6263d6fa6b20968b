--------------------------- MODULE HostFilesystem ---------------------------
(***************************************************************************)
(* The filesystem interface of the host                                    *)
(* (wasi-common/src/preview2/filesystem.rs): files and directories in the  *)
(* resource table, each with permissions, over the file tree.  A call      *)
(* succeeds, fails with some error code, or traps.  The table is modelled  *)
(* by its promise: a key that is not in use (Table, KeysAreFresh).         *)
(***************************************************************************)
EXTENDS FileTree

CONSTANTS
  Handle,       \* The keys of the table.
  Preopen       \* For the handle of each preopen: node, perms and file_perms.

DirPerms == {"READ", "MUTATE"}
FilePerms == {"READ", "WRITE"}

ASSUME PreopenAssumption ==
  /\ DOMAIN Preopen \subseteq Handle
  /\ \A h \in DOMAIN Preopen :
       /\ Preopen[h] \in [node : Root, perms : SUBSET DirPerms, file_perms : SUBSET FilePerms]
       /\ Node0[Preopen[h].node].kind = "dir"

VARIABLES
  table,        \* The File or Dir of each handle, or None.
  ret           \* How the last call ended.

(* struct Dir, and struct File with the modes its file was opened in. *)
Dir(n, perms, file_perms) ==
  [type |-> "dir", node |-> n, perms |-> perms, file_perms |-> file_perms]
File(n, perms, opts) ==
  [type |-> "file", node |-> n, perms |-> perms, read |-> opts.read, write |-> opts.write]

FileRecord ==
  [type : {"file"}, node : Node, perms : SUBSET FilePerms, read : BOOLEAN, write : BOOLEAN]
DirRecord ==
  [type : {"dir"}, node : Node, perms : SUBSET DirPerms, file_perms : SUBSET FilePerms]

ASSUME RecordAssumption == None \notin FileRecord \cup DirRecord

HostInit ==
  /\ TreeInit
  /\ table = [h \in Handle |-> IF h \in DOMAIN Preopen
                               THEN Dir(Preopen[h].node, Preopen[h].perms, Preopen[h].file_perms)
                               ELSE None]
  /\ ret = "SUCCESS"

IsType(type, h) == table[h] # None /\ table[h].type = type

(* table.get_dir(fd) and the check of its permission. *)
HasDir(h, perm) == IsType("dir", h) /\ perm \in table[h].perms
HasFile(h, perm) == IsType("file", h) /\ perm \in table[h].perms

-----------------------------------------------------------------------------
Fails == ret' = "ERROR" /\ UNCHANGED <<node, entries, table>>

Traps == ret' = "TRAP" /\ UNCHANGED <<node, entries, table>>

(* A call without effect on the files. *)
Answers(ok) == ret' = (IF ok THEN "SUCCESS" ELSE "ERROR") /\ UNCHANGED <<node, entries, table>>

(* A call that changes the tree, or fails. *)
Does(ok, Effect) ==
  \/ ok /\ Effect /\ ret' = "SUCCESS" /\ UNCHANGED table
  \/ ~ok /\ Fails

-----------------------------------------------------------------------------
(* Files *)

(* The operating system knows how the file was opened: EBADF. *)
StreamReads(h) == IsType("file", h) /\ table[h].read
StreamWrites(h) == IsType("file", h) /\ table[h].write

read(h) == Answers(HasFile(h, "READ") /\ table[h].read)
write(h) == Does(HasFile(h, "WRITE") /\ table[h].write, Change(table[h].node))

(* read_via_stream, then a read of the stream: no permission is checked. *)
ReadViaStream(h) ==
  \/ ~IsType("file", h) /\ Traps
  \/ IsType("file", h) /\ Answers(StreamReads(h))

(* write_via_stream or append_via_stream, then a write to the stream. *)
WriteViaStream(h) ==
  \/ ~IsType("file", h) /\ Traps
  \/ IsType("file", h) /\ Does(StreamWrites(h), Change(table[h].node))

set_size(h) == Does(HasFile(h, "WRITE") /\ table[h].write, Change(table[h].node))

set_times(h) ==
  Does(HasFile(h, "WRITE") \/ HasDir(h, "MUTATE"), Change(table[h].node))

stat(h) == Answers(HasFile(h, "READ") \/ HasDir(h, "READ"))

(* Without effect on what is modelled, and without permissions. *)
advise(h) == Answers(IsType("file", h))
sync(h) == Answers(IsType("file", h) \/ IsType("dir", h))
sync_data(h) == Answers(IsType("file", h) \/ IsType("dir", h))

(* get_flags: the permissions; no file is open with synchronization flags  *)
(* (MayOpen).                                                              *)
get_flags(h) == table[h].perms

-----------------------------------------------------------------------------
(* Directories *)

AtFollowed(h, x, follow) ==
  IF follow THEN Followed(table[h].node, x)
  ELSE {x}

Found(h, x, follow) ==
  {y \in AtFollowed(h, x, follow) : entries[table[h].node][y] # None}

stat_at(h, x, follow) == Answers(HasDir(h, "READ") /\ Found(h, x, follow) # {})

readlink_at(h, x) == Answers(HasDir(h, "READ") /\ Is("link", table[h].node, x))

set_times_at(h, x, follow) ==
  \/ /\ HasDir(h, "MUTATE")
     /\ \E y \in Found(h, x, follow) : Change(entries[table[h].node][y])
     /\ ret' = "SUCCESS" /\ UNCHANGED table
  \/ ~(HasDir(h, "MUTATE") /\ Found(h, x, follow) # {}) /\ Fails

create_directory_at(h, x) ==
  \E n \in Node :
    /\ node[n].kind = "free"
    /\ Does(HasDir(h, "MUTATE") /\ CanCreate(table[h].node, x),
            Create(table[h].node, x, n, "dir", None))

symlink_at(h, to, x) ==
  \E n \in Node :
    /\ node[n].kind = "free"
    /\ Does(HasDir(h, "MUTATE") /\ CanCreate(table[h].node, x),
            Create(table[h].node, x, n, "link", to))

remove_directory_at(h, x) ==
  Does(HasDir(h, "MUTATE") /\ CanRemoveDir(table[h].node, x), Remove(table[h].node, x))

unlink_file_at(h, x) ==
  Does(HasDir(h, "MUTATE") /\ CanUnlink(table[h].node, x), Remove(table[h].node, x))

MutableBoth(h, g) == HasDir(h, "MUTATE") /\ HasDir(g, "MUTATE")

CrossesDevices(h, g) == ~SameDevice(table[h].node, table[g].node)

(* EXDEV is not in from_raw_os_error, so it is an "Unknown OS error".  Of   *)
(* several errors the system may report any.                                *)
DoesOnDevice(permitted, crosses, can, Effect) ==
  \/ permitted /\ crosses /\ Traps
  \/ ~(permitted /\ crosses /\ can) /\ Does(permitted /\ can, Effect)

link_at(h, follow, x, g, y) ==
  LET d == table[h].node
      e == table[g].node
  IN DoesOnDevice(MutableBoth(h, g) /\ ~follow, CrossesDevices(h, g),
                  CanLink(d, x, e, y), Link(d, x, e, y))

rename_at(h, x, g, y) ==
  LET d == table[h].node
      e == table[g].node
  IN DoesOnDevice(MutableBoth(h, g), CrossesDevices(h, g),
                  CanRename(d, x, e, y), Rename(d, x, e, y))

-----------------------------------------------------------------------------
(* open_at and drop_descriptor *)

(* Mutant: writing is left to the permissions of the file. *)
MayOpen_LeavesWriting(h, oflags, flags) ==
  /\ HasDir(h, "READ")
  /\ "MUTATE" \notin table[h].perms => oflags \cap {"CREATE", "TRUNCATE"} = {}
  /\ flags \subseteq {"READ", "WRITE"}
  /\ "DIRECTORY" \in oflags => oflags = {"DIRECTORY"}

(* Mutant: a directory that is to be created is refused once it is opened. *)
MayOpen_DirectoryLater(h, oflags, flags) ==
  /\ HasDir(h, "READ")
  /\ "MUTATE" \notin table[h].perms =>
       oflags \cap {"CREATE", "TRUNCATE"} = {} /\ "WRITE" \notin flags
  /\ flags \subseteq {"READ", "WRITE"}

(* The checks before the file is opened. *)
MayOpen(h, oflags, flags) ==
  /\ HasDir(h, "READ")
  /\ "MUTATE" \notin table[h].perms =>
       oflags \cap {"CREATE", "TRUNCATE"} = {} /\ "WRITE" \notin flags
  /\ flags \subseteq {"READ", "WRITE"}      \* No synchronization flags.
  /\ "DIRECTORY" \in oflags => oflags = {"DIRECTORY"}

(* Mutant: reading is only asked for when writing is not. *)
Options_ReadOrWrite(oflags, flags, follow) ==
  [create_new |-> {"CREATE", "EXCLUSIVE"} \subseteq oflags,
   create     |-> "CREATE" \in oflags /\ "EXCLUSIVE" \notin oflags,
   truncate   |-> "TRUNCATE" \in oflags,
   read       |-> "WRITE" \notin flags,
   write      |-> "WRITE" \in flags \/ "CREATE" \in oflags,
   follow     |-> follow]

(* If not opened write, open read. *)
Options(oflags, flags, follow) ==
  [create_new |-> {"CREATE", "EXCLUSIVE"} \subseteq oflags,
   create     |-> "CREATE" \in oflags /\ "EXCLUSIVE" \notin oflags,
   truncate   |-> "TRUNCATE" \in oflags,
   read       |-> "READ" \in flags \/ "WRITE" \notin flags,
   write      |-> "WRITE" \in flags \/ "CREATE" \in oflags,
   follow     |-> follow]

(* The name is created or found; n is what is open then. *)
OsOpen(d, y, opts, n) ==
  /\ CanOpen(d, y, opts)
  /\ \/ CanCreate(d, y) /\ node[n].kind = "free" /\ Create(d, y, n, "file", None)
     \/ n = entries[d][y] /\ opts.truncate /\ Change(n)
     \/ n = entries[d][y] /\ ~opts.truncate /\ UNCHANGED treeVars

(* Mutant: the permissions of a directory are also those of its files. *)
Opened_MixesPerms(h, n, opts) ==
  IF node[n].kind = "dir" THEN Dir(n, table[h].perms, table[h].perms)
  ELSE File(n, table[h].file_perms, opts)

(* What is pushed under the key: directories hand on their permissions. *)
Opened(h, n, opts) ==
  IF node[n].kind = "dir" THEN Dir(n, table[h].perms, table[h].file_perms)
  ELSE File(n, table[h].file_perms, opts)

open_at(h, x, follow, oflags, flags, key) ==
  LET opts == Options(oflags, flags, follow)
      d == table[h].node
  IN
  /\ MayOpen(h, oflags, flags)
  /\ table[key] = None
  /\ \E y \in Targets(d, x, opts), n \in Node :
       /\ OsOpen(d, y, opts, n)
       /\ \/ /\ "DIRECTORY" \in oflags => node[n].kind = "dir"
             /\ table' = [table EXCEPT ![key] = Opened(h, n, opts)]
             /\ ret' = "SUCCESS"
          \/ /\ "DIRECTORY" \in oflags /\ node[n].kind # "dir"
             /\ UNCHANGED table /\ ret' = "ERROR"

open_at_fails(h, x, follow, oflags, flags) ==
  /\ ~ /\ MayOpen(h, oflags, flags)
       /\ LET opts == Options(oflags, flags, follow)
              d == table[h].node
          IN \E y \in Targets(d, x, opts) : CanOpen(d, y, opts)
  /\ Fails

(* Mutant: what is not a file stays. *)
drop_descriptor_FilesOnly(h) ==
  /\ table' = [table EXCEPT ![h] = IF IsType("file", h) THEN None ELSE table[h]]
  /\ ret' = "SUCCESS" /\ UNCHANGED treeVars

(* delete_file, and delete_dir when that fails. *)
drop_descriptor(h) ==
  \/ /\ IsType("file", h) \/ IsType("dir", h)
     /\ table' = [table EXCEPT ![h] = None]
     /\ ret' = "SUCCESS" /\ UNCHANGED treeVars
  \/ table[h] = None /\ Traps
=============================================================================
