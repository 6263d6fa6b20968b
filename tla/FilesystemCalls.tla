-------------------------- MODULE FilesystemCalls --------------------------
(***************************************************************************)
(* The calls of the adapter that reach the filesystem of the host          *)
(* (lib.rs): the translation of their flags, the descriptor they use, one  *)
(* call of the host.  A descriptor is named by the handle it holds, which  *)
(* no other holds (Descriptors, HandlesUnshared).                          *)
(***************************************************************************)
EXTENDS HostFilesystem

CONSTANTS
  OpenArgs,     \* The arguments of path_open to consider, a bound.
  ReadOnly      \* The nodes below read-only preopens.

ASSUME OpenArgsAssumption ==
  OpenArgs \subseteq [oflags : SUBSET {"CREAT", "DIRECTORY", "EXCL", "TRUNC"},
                     rights : SUBSET {"FD_READ", "FD_WRITE"},
                     fdflags : SUBSET {"SYNC", "DSYNC", "RSYNC"},
                     follow : BOOLEAN]

(* Nothing else leads to the nodes of a read-only preopen, nor they to     *)
(* anything else.                                                          *)
ASSUME ReadOnlyAssumption ==
  /\ ReadOnly \subseteq Node
  /\ \A h \in DOMAIN Preopen : Preopen[h].node \in ReadOnly =>
       "MUTATE" \notin Preopen[h].perms /\ "WRITE" \notin Preopen[h].file_perms
  /\ \A d \in Node, x \in Name : Entries0[d][x] # None =>
       (d \in ReadOnly <=> Entries0[d][x] \in ReadOnly)
  /\ \A n \in ReadOnly : Node0[n].kind # "free"

VARIABLE ds         \* The descriptor that holds each handle, or None.

vars == <<node, entries, table, ret, ds>>

(* descriptor_type of struct File, and the rights path_open was asked for. *)
Descriptor == [type : {"file", "dir"}, rights : SUBSET {"FD_READ", "FD_WRITE"}]

ASSUME DescriptorAssumption == None \notin Descriptor

Init ==
  /\ HostInit
  /\ ds = [h \in Handle |-> IF h \in DOMAIN Preopen THEN [type |-> "dir", rights |-> {}] ELSE None]

(* get_dir and get_file: NOTDIR, BADF. *)
get_dir(h) == ds[h] # None /\ ds[h].type = "dir"
get_file(h) == ds[h] # None /\ ds[h].type = "file"

(* Flags of preview1 in terms of preview2. *)
OFlag == [CREAT |-> "CREATE", DIRECTORY |-> "DIRECTORY", EXCL |-> "EXCLUSIVE",
          TRUNC |-> "TRUNCATE"]
DescriptorFlag ==
  [f \in {"FD_READ", "FD_WRITE", "SYNC", "DSYNC", "RSYNC"} |->
     CASE f = "FD_READ" -> "READ"
       [] f = "FD_WRITE" -> "WRITE"
       [] f = "SYNC" -> "FILE_INTEGRITY_SYNC"
       [] f = "DSYNC" -> "DATA_INTEGRITY_SYNC"
       [] f = "RSYNC" -> "REQUESTED_WRITE_SYNC"]

o_flags_from_oflags(oflags) == {OFlag[f] : f \in oflags}
descriptor_flags_from_flags(rights, fdflags) ==
  {DescriptorFlag[f] : f \in (rights \cup fdflags) \cap DOMAIN DescriptorFlag}

(* A trap ends the program. *)
Running == ret # "TRAP"

(* A call on a descriptor that is not what it wants, or the host's call. *)
On(has, HostCall) ==
  /\ Running
  /\ \/ has /\ HostCall
     \/ ~has /\ Fails
  /\ UNCHANGED ds

-----------------------------------------------------------------------------
(* Calls on directories *)

(* get_type knows what was just opened, and a slot is free: Descriptors has *)
(* what happens when that fails.                                            *)
PathOpen(h, x, args) ==
  LET oflags == o_flags_from_oflags(args.oflags)
      flags == descriptor_flags_from_flags(args.rights, args.fdflags)
  IN
  \/ /\ Running /\ get_dir(h)
     /\ \E key \in Handle :
          /\ open_at(h, x, args.follow, oflags, flags, key)
          /\ ds' = IF ret' # "SUCCESS" THEN ds
                   ELSE [ds EXCEPT ![key] = [type |-> table'[key].type, rights |-> args.rights]]
  \/ On(get_dir(h), open_at_fails(h, x, args.follow, oflags, flags))

PathCreateDirectory(h, x) == On(get_dir(h), create_directory_at(h, x))
PathFilestatGet(h, x, follow) == On(get_dir(h), stat_at(h, x, follow))
PathFilestatSetTimes(h, x, follow) == On(get_dir(h), set_times_at(h, x, follow))
PathLink(h, follow, x, g, y) == On(get_dir(h) /\ get_dir(g), link_at(h, follow, x, g, y))
PathReadlink(h, x) == On(get_dir(h), readlink_at(h, x))
PathRemoveDirectory(h, x) == On(get_dir(h), remove_directory_at(h, x))
PathRename(h, x, g, y) == On(get_dir(h) /\ get_dir(g), rename_at(h, x, g, y))
PathSymlink(to, h, x) == On(get_dir(h), symlink_at(h, to, x))
PathUnlinkFile(h, x) == On(get_dir(h), unlink_file_at(h, x))

-----------------------------------------------------------------------------
(* Calls on files *)

FdPread(h) == On(get_file(h), read(h))
FdPwrite(h) == On(get_file(h), write(h))
FdRead(h) == On(get_file(h), ReadViaStream(h))
FdWrite(h) == On(get_file(h), WriteViaStream(h))
FdFilestatGet(h) == On(ds[h] # None, stat(h))
FdFilestatSetSize(h) == On(get_file(h), set_size(h))
FdFilestatSetTimes(h) == On(get_file(h), set_times(h))

FdAdvise(h) == On(get_file(h), advise(h))
FdSync(h) == On(get_file(h), sync(h))
FdDatasync(h) == On(get_file(h), sync_data(h))

(* fd_fdstat_get: the rights it reports, and the call.  For a directory    *)
(* get_flags has MUTATE_DIRECTORY in the place of WRITE.                   *)
fs_rights_base(h) ==
  {right \in {"FD_READ", "FD_WRITE"} : DescriptorFlag[right] \in get_flags(h)}
FdFdstatGet(h) == On(ds[h] # None, Answers(IsType("file", h) \/ IsType("dir", h)))

(* The call does not exist in preview 2. *)
FdAllocate(h) == On(get_file(h), Fails)

FdClose(h) ==
  /\ Running
  /\ \/ ds[h] # None /\ drop_descriptor(h) /\ ds' = [ds EXCEPT ![h] = None]
     \/ ds[h] = None /\ Fails /\ UNCHANGED ds

-----------------------------------------------------------------------------
Next ==
  \/ \E h \in Handle, x \in Name :
       \/ \E args \in OpenArgs : PathOpen(h, x, args)
       \/ PathCreateDirectory(h, x) \/ PathRemoveDirectory(h, x)
       \/ PathReadlink(h, x) \/ PathUnlinkFile(h, x)
       \/ \E to \in Name : PathSymlink(to, h, x)
       \/ \E follow \in BOOLEAN : PathFilestatGet(h, x, follow) \/ PathFilestatSetTimes(h, x, follow)
       \/ \E g \in Handle, y \in Name :
            PathRename(h, x, g, y) \/ \E follow \in BOOLEAN : PathLink(h, follow, x, g, y)
  \/ \E h \in Handle :
       \/ FdPread(h) \/ FdPwrite(h) \/ FdRead(h) \/ FdWrite(h)
       \/ FdFilestatGet(h) \/ FdFilestatSetSize(h) \/ FdFilestatSetTimes(h)
       \/ FdAdvise(h) \/ FdSync(h) \/ FdDatasync(h) \/ FdFdstatGet(h)
       \/ FdAllocate(h) \/ FdClose(h)

(* Any guest. *)
Spec == Init /\ [][Next]_vars

-----------------------------------------------------------------------------
(* Properties *)

(* The type invariant. *)
TypeOK ==
  /\ node \in [Node -> NodeRecord]
  /\ entries \in EntryTable
  /\ table \in [Handle -> FileRecord \cup DirRecord \cup {None}]
  /\ ds \in [Handle -> Descriptor \cup {None}]
  /\ ret \in {"SUCCESS", "ERROR", "TRAP"}
  /\ \A d \in Node, x \in Name : entries[d][x] # None => node[entries[d][x]].kind # "free"

(* The directories below a preopen without MUTATE and WRITE stay as they   *)
(* are (filesystem.wit:81-87), whatever is opened in them with whatever    *)
(* flags, and though streams are not checked for permissions.  Nor does a  *)
(* name in another directory come to lead to them.                         *)
ReadOnlyKept ==
  /\ \A n \in ReadOnly : node[n] = Node0[n] /\ entries[n] = Entries0[n]
  /\ \A d \in Node \ ReadOnly, x \in Name : entries[d][x] \notin ReadOnly

(* The table of the host holds what the descriptors of the adapter hold    *)
(* and nothing else, files where the adapter says files and directories    *)
(* where it says directories, whatever becomes of their names.             *)
TableMatches ==
  \A h \in Handle :
    /\ ds[h] = None <=> table[h] = None
    /\ ds[h] # None => ds[h].type = table[h].type /\ ds[h].type = node[table[h].node].kind

(* The rights path_open granted hold for the streams of the file as long   *)
(* as it is open, whatever other flags it was opened with.                 *)
RightsHonoured ==
  \A h \in Handle : get_file(h) =>
    /\ "FD_READ" \in ds[h].rights => StreamReads(h)
    /\ "FD_WRITE" \in ds[h].rights => StreamWrites(h)

(* Preopens whose files may be read where the directory may be, and        *)
(* written where it may be changed.                                        *)
PermsAgree ==
  \A h \in DOMAIN Preopen :
    /\ "READ" \in Preopen[h].perms => "READ" \in Preopen[h].file_perms
    /\ "MUTATE" \in Preopen[h].perms => "WRITE" \in Preopen[h].file_perms

(* fd_fdstat_get reports at least the rights that path_open was asked for, *)
(* though it reads them from the permissions that files and directories    *)
(* hand on, and path_open only looks at those of the directory.            *)
RightsReported ==
  PermsAgree =>
    \A h \in Handle : get_file(h) => ds[h].rights \subseteq fs_rights_base(h)

(* A call that fails has changed nothing: open_at creates and truncates    *)
(* before it looks at what it has opened.                                  *)
FailureKeeps == ret' # "SUCCESS" => UNCHANGED <<node, entries, table, ds>>
FailedCallsChangeNothing == [][FailureKeeps]_vars

(* Files on different devices are an error to report: "Cross-device link,  *)
(* similar to EXDEV in POSIX" (filesystem.wit:265), which the adapter      *)
(* would pass on as ERRNO_XDEV.  No call on the filesystem traps.          *)
DevicesMayDiffer == ret # "TRAP"
=============================================================================
