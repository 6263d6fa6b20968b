-------------------------- MODULE FilesystemProofs --------------------------
(***************************************************************************)
(* Proofs about FilesystemCalls, for any tree, any preopens and any number *)
(* of handles: types, the trees that are read-only, the agreement of the   *)
(* adapter's descriptors with the host's table, and the rights of files.   *)
(***************************************************************************)
EXTENDS FilesystemCalls, TLAPS

(* A handle to a node of a read-only tree cannot change it. *)
Confined ==
  \A h \in Handle : table[h] # None /\ table[h].node \in ReadOnly =>
    /\ "MUTATE" \notin table[h].perms /\ "WRITE" \notin table[h].perms
    /\ table[h].type = "dir" => "WRITE" \notin table[h].file_perms
    /\ table[h].type = "file" => ~table[h].write

TreeInv ==
  /\ node \in [Node -> NodeRecord]
  /\ entries \in EntryTable
  /\ \A d \in Node, x \in Name : entries[d][x] # None => node[entries[d][x]].kind # "free"
  /\ ReadOnlyKept

TableInv ==
  /\ table \in [Handle -> FileRecord \cup DirRecord \cup {None}]
  /\ ds \in [Handle -> Descriptor \cup {None}]
  /\ TableMatches
  /\ Confined
  /\ RightsHonoured

RetOK == ret \in {"SUCCESS", "ERROR", "TRAP"}

(* The inductive invariant. *)
FilesInv == TreeInv /\ TableInv /\ RetOK

(* What is in use stays what it is. *)
KindsKept == \A n \in Node : node[n].kind # "free" => node'[n].kind = node[n].kind

-----------------------------------------------------------------------------
(* The tree *)

(* A change of data or times outside the read-only trees. *)
LEMMA ChangeTree ==
  ASSUME TreeInv, NEW n \in Node \ ReadOnly, Change(n)
  PROVE  TreeInv' /\ KindsKept
<1>1. \A m \in Node : node'[m] \in NodeRecord /\ node'[m].kind = node[m].kind
  BY DEF TreeInv, Change, NodeRecord
<1>2. node' \in [Node -> NodeRecord]
  BY <1>1 DEF TreeInv, Change
<1>3. entries' = entries /\ \A m \in ReadOnly : node'[m] = node[m]
  BY ReadOnlyAssumption DEF TreeInv, Change
<1>4. \A d \in Node, x \in Name : entries'[d][x] # None => node'[entries'[d][x]].kind # "free"
  BY <1>1, <1>3 DEF TreeInv, EntryTable
<1>5. ReadOnlyKept'
  BY <1>3 DEF TreeInv, ReadOnlyKept
<1> QED
  BY <1>1, <1>2, <1>3, <1>4, <1>5 DEF TreeInv, KindsKept

(* A new node in a directory outside the read-only trees. *)
LEMMA CreateTree ==
  ASSUME TreeInv, NEW d \in Node \ ReadOnly, NEW x \in Name, NEW n \in Node,
         node[n].kind = "free", NEW kind \in Kind \ {"free"}, NEW to \in Name \cup {None},
         Create(d, x, n, kind, to)
  PROVE  TreeInv' /\ KindsKept /\ node'[n].kind = kind
<1>1. Fresh(kind, node[d].dev, to) \in NodeRecord
  BY DEF TreeInv, NodeRecord, Fresh
<1>2. node' = [node EXCEPT ![n] = Fresh(kind, node[d].dev, to)]
      /\ entries' = [entries EXCEPT ![d][x] = n]
  BY DEF Create
<1>3. node' \in [Node -> NodeRecord] /\ entries' \in EntryTable
  BY <1>1, <1>2 DEF TreeInv, EntryTable
<1>4. n \notin ReadOnly
  BY ReadOnlyAssumption DEF TreeInv, ReadOnlyKept
<1>5. node'[n].kind = kind
  BY <1>2 DEF TreeInv, Fresh
<1>6. \A m \in Node : m # n => node'[m] = node[m]
  BY <1>2 DEF TreeInv
<1>7. \A e \in Node, y \in Name :
        entries'[e][y] = IF e = d /\ y = x THEN n ELSE entries[e][y]
  BY <1>2 DEF TreeInv, EntryTable
<1>8. \A e \in Node, y \in Name : entries'[e][y] # None => node'[entries'[e][y]].kind # "free"
  BY <1>5, <1>6, <1>7 DEF TreeInv, EntryTable
<1>9. ReadOnlyKept'
  <2>1. \A m \in ReadOnly : node'[m] = Node0[m] /\ entries'[m] = Entries0[m]
    BY <1>2, <1>4, <1>6, ReadOnlyAssumption DEF TreeInv, ReadOnlyKept, EntryTable
  <2>2. \A e \in Node \ ReadOnly, y \in Name : entries'[e][y] \notin ReadOnly
    BY <1>4, <1>7 DEF TreeInv, ReadOnlyKept
  <2> QED
    BY <2>1, <2>2 DEF ReadOnlyKept
<1>10. KindsKept
  BY <1>6 DEF KindsKept
<1> QED
  BY <1>3, <1>5, <1>8, <1>9, <1>10 DEF TreeInv

(* Names that come and go outside the read-only trees.  Each name leads    *)
(* where it did, nowhere, or where a name outside of them did.             *)
LEMMA EntriesTree ==
  ASSUME TreeInv, UNCHANGED node, entries' \in EntryTable,
         \A d \in ReadOnly : entries'[d] = entries[d],
         \A d \in Node \ ReadOnly, x \in Name :
           \/ entries'[d][x] = None
           \/ \E e \in Node \ ReadOnly, y \in Name : entries'[d][x] = entries[e][y]
  PROVE  TreeInv' /\ KindsKept
<1>1. \A d \in Node \ ReadOnly, x \in Name : entries'[d][x] # None =>
        node[entries'[d][x]].kind # "free" /\ entries'[d][x] \notin ReadOnly
  BY DEF TreeInv, ReadOnlyKept
<1>2. None \notin ReadOnly
  BY ReadOnlyAssumption, TreeAssumption
<1>3. \A d \in Node, x \in Name : entries'[d][x] # None => node'[entries'[d][x]].kind # "free"
  BY <1>1 DEF TreeInv
<1>4. ReadOnlyKept'
  BY <1>1, <1>2 DEF TreeInv, ReadOnlyKept
<1> QED
  BY <1>3, <1>4 DEF TreeInv, KindsKept

(* A table of names with one name changed. *)
LEMMA EntryChanged ==
  ASSUME NEW kept \in EntryTable, NEW e \in Node, NEW y \in Name, NEW n \in Node \cup {None}
  PROVE  [kept EXCEPT ![e][y] = n] \in EntryTable
<1>1. [kept[e] EXCEPT ![y] = n] \in [Name -> Node \cup {None}]
  BY DEF EntryTable
<1> QED
  BY <1>1 DEF EntryTable

(* A name that is added or moved between such directories. *)
LEMMA MoveTree ==
  ASSUME TreeInv, NEW d \in Node \ ReadOnly, NEW x \in Name, NEW e \in Node \ ReadOnly,
         NEW y \in Name, Link(d, x, e, y) \/ Rename(d, x, e, y)
  PROVE  TreeInv' /\ KindsKept
<1>1. entries \in EntryTable /\ entries[d][x] \in Node \cup {None}
  BY DEF TreeInv, EntryTable
<1>2. UNCHANGED node
  BY DEF Link, Rename
<1> DEFINE Moved(kept) == [kept EXCEPT ![e][y] = entries[d][x]]
           between == [entries EXCEPT ![d][x] = None]
<1>3. between \in EntryTable /\ \A m \in ReadOnly : between[m] = entries[m]
  BY <1>1, ReadOnlyAssumption DEF EntryTable
<1>4. \A m \in Node, z \in Name : between[m][z] = None \/ between[m][z] = entries[m][z]
  BY <1>1 DEF EntryTable
<1>5. \E kept \in EntryTable :
        /\ kept = entries \/ kept = between
        /\ entries' = Moved(kept) \/ entries' = entries
  BY <1>1, <1>3 DEF Link, Rename
<1> HIDE DEF between
<1>6. PICK kept \in EntryTable :
        /\ kept = entries \/ kept = between
        /\ entries' = Moved(kept) \/ entries' = entries
  BY <1>5
<1>7. /\ \A m \in ReadOnly : kept[m] = entries[m]
      /\ \A m \in Node, z \in Name : kept[m][z] = None \/ kept[m][z] = entries[m][z]
  BY <1>3, <1>4, <1>6
<1>8. entries' \in EntryTable
  BY <1>1, <1>6, EntryChanged
<1>9. \A m \in ReadOnly : entries'[m] = entries[m]
  BY <1>1, <1>6, <1>7, ReadOnlyAssumption DEF EntryTable
<1>10. \A m \in Node, z \in Name :
         entries'[m][z] = None \/ entries'[m][z] = entries[m][z] \/ entries'[m][z] = entries[d][x]
  <2>1. CASE entries' = Moved(kept)
    <3>1. \A m \in Node, z \in Name :
            entries'[m][z] = IF m = e /\ z = y THEN entries[d][x] ELSE kept[m][z]
      BY <2>1 DEF EntryTable
    <3> QED
      BY <1>7, <3>1
  <2> QED
    BY <1>6, <2>1
<1>11. \A m \in Node \ ReadOnly, z \in Name :
         \/ entries'[m][z] = None
         \/ \E k \in Node \ ReadOnly, w \in Name : entries'[m][z] = entries[k][w]
  BY <1>10
<1> QED
  BY <1>2, <1>8, <1>9, <1>11, EntriesTree

-----------------------------------------------------------------------------
(* The table and the descriptors *)

(* Both stay as they are. *)
LEMMA TableKept ==
  ASSUME TableInv, KindsKept, UNCHANGED <<table, ds>>
  PROVE  TableInv'
<1>1. \A h \in Handle : table[h] # None => table[h].node \in Node /\ table[h].type # "free"
  BY DEF TableInv, FileRecord, DirRecord
<1>2. TableMatches'
  BY <1>1 DEF TableInv, TableMatches, KindsKept
<1>3. Confined' /\ RightsHonoured'
  BY DEF TableInv, Confined, RightsHonoured, get_file, StreamReads, StreamWrites, IsType
<1> QED
  BY <1>2, <1>3 DEF TableInv

(* A handle is pushed for a node, with a descriptor of the same type. *)
LEMMA TablePushed ==
  ASSUME TableInv, KindsKept, NEW key \in Handle, table[key] = None,
         NEW entry \in FileRecord \cup DirRecord, NEW rights \in SUBSET {"FD_READ", "FD_WRITE"},
         table' = [table EXCEPT ![key] = entry],
         ds' = [ds EXCEPT ![key] = [type |-> entry.type, rights |-> rights]],
         node'[entry.node].kind = entry.type,
         entry.node \in ReadOnly =>
           /\ "MUTATE" \notin entry.perms /\ "WRITE" \notin entry.perms
           /\ entry.type = "dir" => "WRITE" \notin entry.file_perms
           /\ entry.type = "file" => ~entry.write,
         entry.type = "file" =>
           ("FD_READ" \in rights => entry.read) /\ ("FD_WRITE" \in rights => entry.write)
  PROVE  TableInv'
<1>1. entry # None /\ entry.type \in {"file", "dir"} /\ entry.node \in Node
  BY RecordAssumption DEF FileRecord, DirRecord
<1>2. [type |-> entry.type, rights |-> rights] \in Descriptor
  BY <1>1 DEF Descriptor
<1>3. table' \in [Handle -> FileRecord \cup DirRecord \cup {None}]
      /\ ds' \in [Handle -> Descriptor \cup {None}]
  BY <1>2 DEF TableInv
<1>4. table'[key] = entry /\ ds'[key] = [type |-> entry.type, rights |-> rights]
  BY DEF TableInv
<1>5. \A h \in Handle : h # key => table'[h] = table[h] /\ ds'[h] = ds[h]
  BY DEF TableInv
<1>6. \A h \in Handle : table[h] # None => table[h].node \in Node /\ table[h].type # "free"
  BY DEF TableInv, FileRecord, DirRecord
<1>7. ds'[key] # None
  BY <1>2, <1>4, DescriptorAssumption
<1>8. TableMatches'
  BY <1>1, <1>4, <1>5, <1>6, <1>7 DEF TableInv, TableMatches, KindsKept
<1>9. Confined'
  BY <1>4, <1>5 DEF TableInv, Confined
<1>10. RightsHonoured'
  <2>1. ASSUME NEW h \in Handle, h # key
        PROVE  (get_file(h)' => /\ "FD_READ" \in ds'[h].rights => StreamReads(h)'
                                /\ "FD_WRITE" \in ds'[h].rights => StreamWrites(h)')
    BY <2>1, <1>5 DEF TableInv, RightsHonoured, get_file, StreamReads, StreamWrites, IsType
  <2>2. get_file(key)' => /\ "FD_READ" \in ds'[key].rights => StreamReads(key)'
                          /\ "FD_WRITE" \in ds'[key].rights => StreamWrites(key)'
    BY <1>1, <1>4 DEF get_file, StreamReads, StreamWrites, IsType
  <2> QED
    BY <2>1, <2>2 DEF RightsHonoured
<1> QED
  BY <1>3, <1>8, <1>9, <1>10 DEF TableInv

(* A handle is dropped with its descriptor. *)
LEMMA TableDropped ==
  ASSUME TableInv, KindsKept, NEW key \in Handle,
         table' = [table EXCEPT ![key] = None], ds' = [ds EXCEPT ![key] = None]
  PROVE  TableInv'
<1>1. table' \in [Handle -> FileRecord \cup DirRecord \cup {None}]
      /\ ds' \in [Handle -> Descriptor \cup {None}]
  BY DEF TableInv
<1>2. table'[key] = None /\ ds'[key] = None
  BY DEF TableInv
<1>3. \A h \in Handle : h # key => table'[h] = table[h] /\ ds'[h] = ds[h]
  BY DEF TableInv
<1>4. \A h \in Handle : table[h] # None => table[h].node \in Node /\ table[h].type # "free"
  BY DEF TableInv, FileRecord, DirRecord
<1>5. TableMatches'
  BY <1>2, <1>3, <1>4 DEF TableInv, TableMatches, KindsKept
<1>6. Confined'
  BY <1>2, <1>3 DEF TableInv, Confined
<1>7. RightsHonoured'
  BY <1>2, <1>3 DEF TableInv, RightsHonoured, get_file, StreamReads, StreamWrites, IsType
<1> QED
  BY <1>1, <1>5, <1>6, <1>7 DEF TableInv

-----------------------------------------------------------------------------
(* Steps *)

(* Nothing happens to the files. *)
LEMMA KeepStep ==
  ASSUME FilesInv, UNCHANGED <<node, entries, table, ds>>, RetOK'
  PROVE  FilesInv'
<1>1. KindsKept
  BY DEF KindsKept
<1>2. TreeInv'
  BY DEF FilesInv, TreeInv, ReadOnlyKept
<1>3. TableInv'
  BY <1>1, TableKept DEF FilesInv
<1> QED
  BY <1>2, <1>3 DEF FilesInv

(* Something happens to the tree. *)
LEMMA TreeStep ==
  ASSUME FilesInv, TreeInv' /\ KindsKept, UNCHANGED <<table, ds>>, ret' = "SUCCESS"
  PROVE  FilesInv'
<1>1. TableInv'
  BY TableKept DEF FilesInv
<1> QED
  BY <1>1 DEF FilesInv, RetOK

(* What may be changed lies outside the read-only trees. *)
LEMMA Writable ==
  ASSUME FilesInv, NEW h \in Handle,
         HasFile(h, "WRITE") \/ HasDir(h, "MUTATE") \/ StreamWrites(h)
  PROVE  table[h].node \in Node \ ReadOnly
<1>1. table[h] # None /\ table[h] \in FileRecord \cup DirRecord
  BY DEF HasFile, HasDir, StreamWrites, IsType, FilesInv, TableInv
<1>2. table[h].node \in Node
  BY <1>1 DEF FileRecord, DirRecord
<1>3. table[h].node \notin ReadOnly
  BY <1>1 DEF HasFile, HasDir, StreamWrites, IsType, FilesInv, TableInv, Confined
<1> QED
  BY <1>2, <1>3

(* Calls that only read, and calls that fail. *)
LEMMA ReadingStep ==
  ASSUME FilesInv, NEW h \in Handle,
         \/ FdPread(h) \/ FdRead(h) \/ FdFilestatGet(h) \/ FdAllocate(h)
         \/ FdAdvise(h) \/ FdSync(h) \/ FdDatasync(h) \/ FdFdstatGet(h)
  PROVE  FilesInv'
<1>1. UNCHANGED <<node, entries, table, ds>> /\ RetOK'
  BY DEF FdPread, FdRead, FdFilestatGet, FdAllocate, On, Fails, read, ReadViaStream, stat,
         FdAdvise, FdSync, FdDatasync, FdFdstatGet, advise, sync, sync_data, Answers, Traps, RetOK
<1> QED
  BY <1>1, KeepStep

LEMMA ReadingAtStep ==
  ASSUME FilesInv, NEW h \in Handle, NEW x \in Name, NEW follow \in BOOLEAN,
         PathFilestatGet(h, x, follow) \/ PathReadlink(h, x)
  PROVE  FilesInv'
<1>1. UNCHANGED <<node, entries, table, ds>> /\ RetOK'
  BY DEF PathFilestatGet, PathReadlink, On, Fails, stat_at, readlink_at, Answers, RetOK
<1> QED
  BY <1>1, KeepStep

(* Calls that change the data or the times of an open file. *)
LEMMA WritingStep ==
  ASSUME FilesInv, NEW h \in Handle,
         FdPwrite(h) \/ FdWrite(h) \/ FdFilestatSetSize(h) \/ FdFilestatSetTimes(h)
  PROVE  FilesInv'
<1>1. CASE UNCHANGED <<node, entries, table, ds>> /\ RetOK'
  BY <1>1, KeepStep
<1>2. CASE /\ HasFile(h, "WRITE") \/ HasDir(h, "MUTATE") \/ StreamWrites(h)
           /\ Change(table[h].node) /\ ret' = "SUCCESS" /\ UNCHANGED <<table, ds>>
  <2>1. table[h].node \in Node \ ReadOnly
    BY <1>2, Writable
  <2>2. TreeInv' /\ KindsKept
    BY <1>2, <2>1, ChangeTree DEF FilesInv
  <2> QED
    BY <1>2, <2>2, TreeStep
<1> QED
  BY <1>1, <1>2 DEF FdPwrite, FdWrite, FdFilestatSetSize, FdFilestatSetTimes, On, Fails, Traps,
     write, WriteViaStream, set_size, set_times, Does, RetOK

(* Times of what a directory names. *)
LEMMA SetTimesAtStep ==
  ASSUME FilesInv, NEW h \in Handle, NEW x \in Name, NEW follow \in BOOLEAN,
         PathFilestatSetTimes(h, x, follow)
  PROVE  FilesInv'
<1>1. CASE UNCHANGED <<node, entries, table, ds>> /\ RetOK'
  BY <1>1, KeepStep
<1>2. ASSUME HasDir(h, "MUTATE"), NEW y \in Found(h, x, follow),
             Change(entries[table[h].node][y]), ret' = "SUCCESS", UNCHANGED <<table, ds>>
      PROVE  FilesInv'
  <2>1. table[h].node \in Node \ ReadOnly
    BY <1>2, Writable
  <2>2. y \in Name /\ entries[table[h].node][y] # None
    BY DEF Found, AtFollowed, Followed
  <2>3. entries[table[h].node][y] \in Node \ ReadOnly
    BY <2>1, <2>2 DEF FilesInv, TreeInv, ReadOnlyKept, EntryTable
  <2>4. TreeInv' /\ KindsKept
    BY <1>2, <2>3, ChangeTree DEF FilesInv
  <2> QED
    BY <1>2, <2>4, TreeStep
<1> QED
  BY <1>1, <1>2 DEF PathFilestatSetTimes, On, set_times_at, Fails, RetOK

(* New directories and links. *)
LEMMA CreatingStep ==
  ASSUME FilesInv, NEW h \in Handle, NEW x \in Name, NEW to \in Name,
         PathCreateDirectory(h, x) \/ PathSymlink(to, h, x)
  PROVE  FilesInv'
<1>1. CASE UNCHANGED <<node, entries, table, ds>> /\ RetOK'
  BY <1>1, KeepStep
<1>2. ASSUME HasDir(h, "MUTATE"), NEW n \in Node, node[n].kind = "free",
             NEW kind \in {"dir", "link"}, NEW target \in Name \cup {None},
             Create(table[h].node, x, n, kind, target), ret' = "SUCCESS", UNCHANGED <<table, ds>>
      PROVE  FilesInv'
  <2>1. table[h].node \in Node \ ReadOnly
    BY <1>2, Writable
  <2>2. kind \in Kind \ {"free"}
    BY DEF Kind
  <2>3. TreeInv' /\ KindsKept
    BY <1>2, <2>1, <2>2, CreateTree DEF FilesInv
  <2> QED
    BY <1>2, <2>3, TreeStep
<1> QED
  BY <1>1, <1>2 DEF PathCreateDirectory, PathSymlink, On, create_directory_at, symlink_at, Does,
     Fails, RetOK

(* Names that are removed. *)
LEMMA RemovingStep ==
  ASSUME FilesInv, NEW h \in Handle, NEW x \in Name,
         PathRemoveDirectory(h, x) \/ PathUnlinkFile(h, x)
  PROVE  FilesInv'
<1>1. CASE UNCHANGED <<node, entries, table, ds>> /\ RetOK'
  BY <1>1, KeepStep
<1>2. CASE /\ HasDir(h, "MUTATE") /\ Remove(table[h].node, x)
           /\ ret' = "SUCCESS" /\ UNCHANGED <<table, ds>>
  <2> DEFINE d == table[h].node
  <2>1. d \in Node \ ReadOnly
    BY <1>2, Writable
  <2>2. entries' = [entries EXCEPT ![d][x] = None] /\ UNCHANGED node
    BY <1>2 DEF Remove
  <2>3. entries' \in EntryTable /\ \A e \in ReadOnly : entries'[e] = entries[e]
    BY <2>1, <2>2, ReadOnlyAssumption DEF FilesInv, TreeInv, EntryTable
  <2>4. \A e \in Node, y \in Name : entries'[e][y] = None \/ entries'[e][y] = entries[e][y]
    BY <2>1, <2>2 DEF FilesInv, TreeInv, EntryTable
  <2>5. TreeInv' /\ KindsKept
    BY <2>2, <2>3, <2>4, EntriesTree DEF FilesInv
  <2> QED
    BY <1>2, <2>5, TreeStep
<1> QED
  BY <1>1, <1>2 DEF PathRemoveDirectory, PathUnlinkFile, On, remove_directory_at, unlink_file_at,
     Does, Fails, RetOK

(* Names that are added or moved. *)
LEMMA LinkingStep ==
  ASSUME FilesInv, NEW h \in Handle, NEW x \in Name, NEW g \in Handle, NEW y \in Name,
         NEW follow \in BOOLEAN, PathLink(h, follow, x, g, y) \/ PathRename(h, x, g, y)
  PROVE  FilesInv'
<1>1. CASE UNCHANGED <<node, entries, table, ds>> /\ RetOK'
  BY <1>1, KeepStep
<1>2. CASE /\ MutableBoth(h, g) /\ ret' = "SUCCESS" /\ UNCHANGED <<table, ds>>
           /\ \/ Link(table[h].node, x, table[g].node, y)
              \/ Rename(table[h].node, x, table[g].node, y)
  <2>1. table[h].node \in Node \ ReadOnly /\ table[g].node \in Node \ ReadOnly
    BY <1>2, Writable DEF MutableBoth
  <2>2. TreeInv' /\ KindsKept
    BY <1>2, <2>1, MoveTree DEF FilesInv
  <2> QED
    BY <1>2, <2>2, TreeStep
<1> QED
  BY <1>1, <1>2 DEF PathLink, PathRename, On, link_at, rename_at, DoesOnDevice, Does, Fails,
     Traps, RetOK

(* What a descriptor is asked for, in terms of the host. *)
LEMMA FlagsTranslated ==
  ASSUME NEW rights \in SUBSET {"FD_READ", "FD_WRITE"}, NEW fdflags
  PROVE  /\ "FD_READ" \in rights => "READ" \in descriptor_flags_from_flags(rights, fdflags)
         /\ "FD_WRITE" \in rights => "WRITE" \in descriptor_flags_from_flags(rights, fdflags)
<1>1. DescriptorFlag["FD_READ"] = "READ" /\ DescriptorFlag["FD_WRITE"] = "WRITE"
      /\ "FD_READ" \in DOMAIN DescriptorFlag /\ "FD_WRITE" \in DOMAIN DescriptorFlag
  BY DEF DescriptorFlag
<1> QED
  BY <1>1 DEF descriptor_flags_from_flags

(* A directory below a read-only preopen is only opened for reading. *)
LEMMA OpensReadOnly ==
  ASSUME FilesInv, NEW h \in Handle, NEW oflags, NEW flags, NEW follow \in BOOLEAN,
         MayOpen(h, oflags, flags), table[h].node \in ReadOnly
  PROVE  LET opts == Options(oflags, flags, follow) IN
         ~opts.write /\ ~opts.create /\ ~opts.create_new /\ ~opts.truncate
<1>1. "MUTATE" \notin table[h].perms
  BY DEF FilesInv, TableInv, Confined, MayOpen, HasDir, IsType
<1>2. oflags \cap {"CREATE", "TRUNCATE"} = {} /\ "WRITE" \notin flags
  BY <1>1 DEF MayOpen
<1>3. "CREATE" \notin oflags /\ "TRUNCATE" \notin oflags /\ ~({"CREATE", "EXCLUSIVE"} \subseteq oflags)
  BY <1>2
<1> QED
  BY <1>2, <1>3 DEF Options

(* What opening does to the tree, and what is open then. *)
LEMMA OpenTree ==
  ASSUME FilesInv, NEW h \in Handle, NEW oflags, NEW flags, NEW follow \in BOOLEAN,
         MayOpen(h, oflags, flags), NEW y \in Name, NEW n \in Node,
         OsOpen(table[h].node, y, Options(oflags, flags, follow), n)
  PROVE  /\ TreeInv' /\ KindsKept
         /\ node'[n].kind = IF node[n].kind = "dir" THEN "dir" ELSE "file"
         /\ n \in ReadOnly => table[h].node \in ReadOnly
<1> DEFINE opts == Options(oflags, flags, follow)
<1>1. table[h].node \in Node
  BY DEF FilesInv, TableInv, MayOpen, HasDir, IsType, FileRecord, DirRecord
<1>2. PICK d \in Node : d = table[h].node
  BY <1>1
<1>3. d \in ReadOnly => ~opts.create /\ ~opts.create_new /\ ~opts.truncate
  BY <1>2, OpensReadOnly
<1> HIDE DEF opts
<1>4. OsOpen(d, y, opts, n)
  BY <1>2 DEF opts
<1>5. TreeInv
  BY DEF FilesInv
<1>6. CASE CanCreate(d, y) /\ node[n].kind = "free" /\ Create(d, y, n, "file", None)
  <2>1. d \notin ReadOnly
    BY <1>3, <1>4, <1>6, TreeAssumption DEF OsOpen, CanOpen, CanCreate, Is
  <2>2. n \notin ReadOnly
    BY <1>5, <1>6, ReadOnlyAssumption DEF TreeInv, ReadOnlyKept
  <2>3. TreeInv' /\ KindsKept /\ node'[n].kind = "file"
    BY <1>5, <1>6, <2>1, CreateTree DEF Kind
  <2> QED
    BY <1>6, <2>2, <2>3
<1>7. CASE n = entries[d][y] /\ ((opts.truncate /\ Change(n)) \/ UNCHANGED treeVars)
  <2>1. node[n].kind \in {"file", "dir"}
    BY <1>4, <1>7, TreeAssumption DEF OsOpen, CanOpen, CanCreate, Is
  <2>2. n \in ReadOnly => d \in ReadOnly
    BY <1>5, <1>7 DEF TreeInv, ReadOnlyKept
  <2>3. CASE opts.truncate /\ Change(n)
    <3>1. n \in Node \ ReadOnly
      BY <1>3, <2>2, <2>3
    <3>2. TreeInv' /\ KindsKept
      BY <1>5, <2>3, <3>1, ChangeTree
    <3> QED
      BY <1>2, <2>1, <2>2, <3>2 DEF KindsKept
  <2>4. CASE UNCHANGED treeVars
    <3>1. TreeInv' /\ KindsKept
      BY <1>5, <2>4 DEF treeVars, TreeInv, ReadOnlyKept, KindsKept
    <3> QED
      BY <1>2, <2>1, <2>2, <2>4, <3>1 DEF treeVars
  <2> QED
    BY <1>7, <2>3, <2>4
<1> QED
  BY <1>2, <1>4, <1>6, <1>7 DEF OsOpen

(* The handle path_open gets. *)
LEMMA OpenTable ==
  ASSUME FilesInv, NEW h \in Handle, NEW args \in OpenArgs, NEW key \in Handle, NEW oflags,
         NEW flags, flags = descriptor_flags_from_flags(args.rights, args.fdflags),
         NEW opts, opts = Options(oflags, flags, args.follow),
         MayOpen(h, oflags, flags), table[key] = None, NEW n \in Node, KindsKept,
         node'[n].kind = IF node[n].kind = "dir" THEN "dir" ELSE "file",
         n \in ReadOnly => table[h].node \in ReadOnly,
         table' = [table EXCEPT ![key] = Opened(h, n, opts)],
         ds' = [ds EXCEPT ![key] = [type |-> table'[key].type, rights |-> args.rights]]
  PROVE  TableInv'
<1>1. args.rights \in SUBSET {"FD_READ", "FD_WRITE"} /\ args.follow \in BOOLEAN
  BY OpenArgsAssumption
<1>2. table[h] \in DirRecord
  BY DEF FilesInv, TableInv, MayOpen, HasDir, IsType, FileRecord
<1>3. table[h].perms \in SUBSET DirPerms /\ table[h].file_perms \in SUBSET FilePerms
  BY <1>2 DEF DirRecord
<1>4. opts.read \in BOOLEAN /\ opts.write \in BOOLEAN
  BY DEF Options
<1>5. n \in ReadOnly => ~opts.write
  BY <1>1, OpensReadOnly
<1>6. /\ "FD_READ" \in args.rights => opts.read
      /\ "FD_WRITE" \in args.rights => opts.write
  <2>1. /\ "FD_READ" \in args.rights => "READ" \in flags
        /\ "FD_WRITE" \in args.rights => "WRITE" \in flags
    BY <1>1, FlagsTranslated
  <2> QED
    BY <2>1 DEF Options
<1>7. n \in ReadOnly => "MUTATE" \notin table[h].perms /\ "WRITE" \notin table[h].file_perms
  BY <1>2, RecordAssumption DEF FilesInv, TableInv, Confined, DirRecord
<1>8. CASE node[n].kind = "dir"
  <2> DEFINE entry == Dir(n, table[h].perms, table[h].file_perms)
  <2>1. Opened(h, n, opts) = entry
    BY <1>8 DEF Opened
  <2>2. entry \in DirRecord /\ entry.type = "dir" /\ entry.node = n
        /\ entry.perms = table[h].perms /\ entry.file_perms = table[h].file_perms
    BY <1>3 DEF Dir, DirRecord
  <2>3. "WRITE" \notin table[h].perms
    BY <1>3 DEF DirPerms
  <2>4. table'[key] = entry
    BY <2>1 DEF FilesInv, TableInv
  <2>5. table' = [table EXCEPT ![key] = entry]
        /\ ds' = [ds EXCEPT ![key] = [type |-> entry.type, rights |-> args.rights]]
    BY <2>1, <2>4
  <2> HIDE DEF entry
  <2>6. PICK e \in FileRecord \cup DirRecord : e = entry
    BY <2>2
  <2>7. e.type = "dir" /\ e.node = n /\ e.perms = table[h].perms /\ e.file_perms = table[h].file_perms
    BY <2>2, <2>6
  <2>8. table' = [table EXCEPT ![key] = e]
        /\ ds' = [ds EXCEPT ![key] = [type |-> e.type, rights |-> args.rights]]
    BY <2>5, <2>6
  <2>9. node'[e.node].kind = e.type
    BY <1>8, <2>7
  <2>10. e.node \in ReadOnly =>
           /\ "MUTATE" \notin e.perms /\ "WRITE" \notin e.perms
           /\ e.type = "dir" => "WRITE" \notin e.file_perms
           /\ e.type = "file" => ~e.write
    BY <1>7, <2>3, <2>7
  <2>11. e.type = "file" =>
           ("FD_READ" \in args.rights => e.read) /\ ("FD_WRITE" \in args.rights => e.write)
    BY <2>7
  <2> QED
    BY <1>1, <2>8, <2>9, <2>10, <2>11, TablePushed DEF FilesInv
<1>9. CASE node[n].kind # "dir"
  <2> DEFINE entry == File(n, table[h].file_perms, opts)
  <2>1. Opened(h, n, opts) = entry
    BY <1>9 DEF Opened
  <2>2. entry \in FileRecord /\ entry.type = "file" /\ entry.node = n
        /\ entry.perms = table[h].file_perms
        /\ entry.read = opts.read /\ entry.write = opts.write
    BY <1>3, <1>4 DEF File, FileRecord
  <2>3. "MUTATE" \notin table[h].file_perms
    BY <1>3 DEF FilePerms
  <2>4. table'[key] = entry
    BY <2>1 DEF FilesInv, TableInv
  <2>5. table' = [table EXCEPT ![key] = entry]
        /\ ds' = [ds EXCEPT ![key] = [type |-> entry.type, rights |-> args.rights]]
    BY <2>1, <2>4
  <2> HIDE DEF entry
  <2>6. PICK e \in FileRecord \cup DirRecord : e = entry
    BY <2>2
  <2>7. e.type = "file" /\ e.node = n /\ e.perms = table[h].file_perms
        /\ e.read = opts.read /\ e.write = opts.write
    BY <2>2, <2>6
  <2>8. table' = [table EXCEPT ![key] = e]
        /\ ds' = [ds EXCEPT ![key] = [type |-> e.type, rights |-> args.rights]]
    BY <2>5, <2>6
  <2>9. node'[e.node].kind = e.type
    BY <1>9, <2>7
  <2>10. e.node \in ReadOnly =>
           /\ "MUTATE" \notin e.perms /\ "WRITE" \notin e.perms
           /\ e.type = "dir" => "WRITE" \notin e.file_perms
           /\ e.type = "file" => ~e.write
    BY <1>5, <1>7, <2>3, <2>7
  <2>11. e.type = "file" =>
           ("FD_READ" \in args.rights => e.read) /\ ("FD_WRITE" \in args.rights => e.write)
    BY <1>6, <2>7
  <2> QED
    BY <1>1, <2>8, <2>9, <2>10, <2>11, TablePushed DEF FilesInv
<1> QED
  BY <1>8, <1>9

LEMMA OpeningStep ==
  ASSUME FilesInv, NEW h \in Handle, NEW x \in Name, NEW args \in OpenArgs, PathOpen(h, x, args)
  PROVE  FilesInv'
<1> DEFINE oflags == o_flags_from_oflags(args.oflags)
           flags == descriptor_flags_from_flags(args.rights, args.fdflags)
           opts == Options(oflags, flags, args.follow)
<1> HIDE DEF oflags, flags
<1>1. CASE UNCHANGED <<node, entries, table, ds>> /\ RetOK'
  BY <1>1, KeepStep
<1>2. ASSUME NEW key \in Handle, open_at(h, x, args.follow, oflags, flags, key),
             ds' = IF ret' # "SUCCESS" THEN ds
                   ELSE [ds EXCEPT ![key] = [type |-> table'[key].type, rights |-> args.rights]]
      PROVE  FilesInv'
  <2>1. MayOpen(h, oflags, flags) /\ table[key] = None
    BY <1>2 DEF open_at
  <2>2. PICK y \in Targets(table[h].node, x, opts), n \in Node :
          /\ OsOpen(table[h].node, y, opts, n)
          /\ \/ table' = [table EXCEPT ![key] = Opened(h, n, opts)] /\ ret' = "SUCCESS"
             \/ UNCHANGED table /\ ret' = "ERROR"
    BY <1>2 DEF open_at
  <2>3. y \in Name /\ args.follow \in BOOLEAN
    BY <2>2, OpenArgsAssumption DEF Targets, Followed
  <2>4. /\ TreeInv' /\ KindsKept
        /\ node'[n].kind = IF node[n].kind = "dir" THEN "dir" ELSE "file"
        /\ n \in ReadOnly => table[h].node \in ReadOnly
    BY <2>1, <2>2, <2>3, OpenTree
  <2>5. TableInv'
    <3>1. CASE UNCHANGED table /\ ret' = "ERROR"
      BY <1>2, <2>4, <3>1, TableKept DEF FilesInv
    <3>2. CASE table' = [table EXCEPT ![key] = Opened(h, n, opts)] /\ ret' = "SUCCESS"
      BY <1>2, <2>1, <2>4, <3>2, OpenTable DEF flags
    <3> QED
      BY <2>2, <3>1, <3>2
  <2> QED
    BY <2>2, <2>4, <2>5 DEF FilesInv, RetOK
<1> QED
  BY <1>1, <1>2 DEF PathOpen, On, open_at_fails, Fails, RetOK, oflags, flags

LEMMA ClosingStep ==
  ASSUME FilesInv, NEW h \in Handle, FdClose(h)
  PROVE  FilesInv'
<1>1. CASE UNCHANGED <<node, entries, table, ds>> /\ RetOK'
  BY <1>1, KeepStep
<1>2. CASE /\ table' = [table EXCEPT ![h] = None] /\ ds' = [ds EXCEPT ![h] = None]
           /\ ret' = "SUCCESS" /\ UNCHANGED treeVars
  <2>1. TreeInv' /\ KindsKept
    BY <1>2 DEF treeVars, FilesInv, TreeInv, ReadOnlyKept, KindsKept
  <2>2. TableInv'
    BY <1>2, <2>1, TableDropped DEF FilesInv
  <2> QED
    BY <1>2, <2>1, <2>2 DEF FilesInv, RetOK
<1>3. ds[h] # None => table[h] # None
  BY DEF FilesInv, TableInv, TableMatches
<1> QED
  BY <1>1, <1>2, <1>3 DEF FdClose, drop_descriptor, Fails, RetOK

-----------------------------------------------------------------------------
LEMMA FilesInit == Init => FilesInv
<1> SUFFICES ASSUME Init PROVE FilesInv
  OBVIOUS
<1>1. TreeInv
  BY TreeAssumption, ReadOnlyAssumption DEF Init, HostInit, TreeInit, TreeInv, ReadOnlyKept
<1>2. \A h \in DOMAIN Preopen :
        /\ h \in Handle /\ Preopen[h].node \in Node /\ Node0[Preopen[h].node].kind = "dir"
        /\ Preopen[h].perms \in SUBSET DirPerms /\ Preopen[h].file_perms \in SUBSET FilePerms
  BY PreopenAssumption, TreeAssumption
<1>3. \A h \in DOMAIN Preopen :
        Dir(Preopen[h].node, Preopen[h].perms, Preopen[h].file_perms) \in DirRecord
  BY <1>2 DEF Dir, DirRecord
<1>4. [type |-> "dir", rights |-> {}] \in Descriptor
  BY DEF Descriptor
<1>5. \A h \in Handle :
        /\ h \in DOMAIN Preopen =>
             /\ table[h] = Dir(Preopen[h].node, Preopen[h].perms, Preopen[h].file_perms)
             /\ ds[h] = [type |-> "dir", rights |-> {}]
        /\ h \notin DOMAIN Preopen => table[h] = None /\ ds[h] = None
  BY DEF Init, HostInit
<1>6. table \in [Handle -> FileRecord \cup DirRecord \cup {None}]
      /\ ds \in [Handle -> Descriptor \cup {None}]
  BY <1>3, <1>4 DEF Init, HostInit
<1>7. TableMatches
  BY <1>2, <1>3, <1>4, <1>5, RecordAssumption, DescriptorAssumption
     DEF Init, HostInit, TreeInit, TableMatches, Dir
<1>8. Confined
  <2>1. ASSUME NEW h \in Handle, h \in DOMAIN Preopen, table[h].node \in ReadOnly
        PROVE  /\ "MUTATE" \notin table[h].perms /\ "WRITE" \notin table[h].perms
               /\ "WRITE" \notin table[h].file_perms /\ table[h].type = "dir"
    <3>1. /\ table[h].node = Preopen[h].node /\ table[h].perms = Preopen[h].perms
          /\ table[h].file_perms = Preopen[h].file_perms /\ table[h].type = "dir"
      <4>1. table[h] = Dir(Preopen[h].node, Preopen[h].perms, Preopen[h].file_perms)
        BY <2>1, <1>5
      <4> QED
        BY <4>1 DEF Dir
    <3>2. "WRITE" \notin Preopen[h].perms
      BY <2>1, <1>2 DEF DirPerms
    <3> QED
      BY <2>1, <3>1, <3>2, ReadOnlyAssumption
  <2> QED
    BY <1>5, <2>1 DEF Confined
<1>9. RightsHonoured
  BY <1>5 DEF RightsHonoured, get_file
<1> QED
  BY <1>1, <1>6, <1>7, <1>8, <1>9 DEF FilesInv, TableInv, RetOK, Init, HostInit

LEMMA FilesNext == FilesInv /\ [Next]_vars => FilesInv'
<1> SUFFICES ASSUME FilesInv, [Next]_vars PROVE FilesInv'
  OBVIOUS
<1>1. CASE UNCHANGED vars
  BY <1>1, KeepStep DEF vars, FilesInv, RetOK
<1>2. ASSUME NEW h \in Handle, NEW x \in Name, NEW args \in OpenArgs, PathOpen(h, x, args)
      PROVE  FilesInv'
  BY <1>2, OpeningStep
<1>3. ASSUME NEW h \in Handle, NEW x \in Name,
             PathRemoveDirectory(h, x) \/ PathUnlinkFile(h, x)
      PROVE  FilesInv'
  BY <1>3, RemovingStep
<1>4. ASSUME NEW h \in Handle, NEW x \in Name, NEW to \in Name,
             PathCreateDirectory(h, x) \/ PathSymlink(to, h, x)
      PROVE  FilesInv'
  BY <1>4, CreatingStep
<1>5. ASSUME NEW h \in Handle, NEW x \in Name, NEW follow \in BOOLEAN,
             PathFilestatGet(h, x, follow) \/ PathReadlink(h, x)
      PROVE  FilesInv'
  BY <1>5, ReadingAtStep
<1>6. ASSUME NEW h \in Handle, NEW x \in Name, NEW follow \in BOOLEAN,
             PathFilestatSetTimes(h, x, follow)
      PROVE  FilesInv'
  BY <1>6, SetTimesAtStep
<1>7. ASSUME NEW h \in Handle, NEW x \in Name, NEW g \in Handle, NEW y \in Name,
             NEW follow \in BOOLEAN, PathLink(h, follow, x, g, y) \/ PathRename(h, x, g, y)
      PROVE  FilesInv'
  BY <1>7, LinkingStep
<1>8. ASSUME NEW h \in Handle,
             FdPwrite(h) \/ FdWrite(h) \/ FdFilestatSetSize(h) \/ FdFilestatSetTimes(h)
      PROVE  FilesInv'
  BY <1>8, WritingStep
<1>9. ASSUME NEW h \in Handle, FdClose(h) PROVE FilesInv'
  BY <1>9, ClosingStep
<1>10. ASSUME NEW h \in Handle,
              \/ FdPread(h) \/ FdRead(h) \/ FdFilestatGet(h) \/ FdAllocate(h)
              \/ FdAdvise(h) \/ FdSync(h) \/ FdDatasync(h) \/ FdFdstatGet(h)
       PROVE  FilesInv'
  BY <1>10, ReadingStep
<1> QED
  BY <1>1, <1>2, <1>3, <1>4, <1>5, <1>6, <1>7, <1>8, <1>9, <1>10 DEF Next

LEMMA FilesCorrect == Spec => []FilesInv
<1> QED
  BY FilesInit, FilesNext, PTL DEF Spec

(* The state has its types, and no name leads to a node that is free. *)
THEOREM TypeCorrect == Spec => []TypeOK
<1>1. FilesInv => TypeOK
  BY DEF FilesInv, TreeInv, TableInv, RetOK, TypeOK
<1> QED
  BY <1>1, FilesCorrect, PTL

(* Whatever a guest opens and calls, the read-only trees stay as they are, *)
(* for any tree, however many preopens and descriptors there are.          *)
THEOREM ReadOnlyStays == Spec => []ReadOnlyKept
<1>1. FilesInv => ReadOnlyKept
  BY DEF FilesInv, TreeInv
<1> QED
  BY <1>1, FilesCorrect, PTL

(* The table of the host and the descriptors of the adapter always agree. *)
THEOREM TablesAgree == Spec => []TableMatches
<1>1. FilesInv => TableMatches
  BY DEF FilesInv, TableInv
<1> QED
  BY <1>1, FilesCorrect, PTL

(* A file opened to be read can be read, one opened to be written can be   *)
(* written, as long as it is open.                                         *)
THEOREM RightsHold == Spec => []RightsHonoured
<1>1. FilesInv => RightsHonoured
  BY DEF FilesInv, TableInv
<1> QED
  BY <1>1, FilesCorrect, PTL

-----------------------------------------------------------------------------
(* The rights that are reported *)

(* Who may read a directory may read its files, and so on. *)
DirsAgree ==
  \A h \in Handle : IsType("dir", h) =>
    /\ "READ" \in table[h].perms => "READ" \in table[h].file_perms
    /\ "MUTATE" \in table[h].perms => "WRITE" \in table[h].file_perms

ReportInv == PermsAgree => DirsAgree /\ RightsReported

(* One handle is pushed or dropped, the rest keep what they report. *)
LEMMA ReportChanged ==
  ASSUME FilesInv, ReportInv, PermsAgree, NEW key \in Handle, NEW e, NEW d,
         table' = [table EXCEPT ![key] = e], ds' = [ds EXCEPT ![key] = d],
         e # None /\ e.type = "dir" =>
           /\ "READ" \in e.perms => "READ" \in e.file_perms
           /\ "MUTATE" \in e.perms => "WRITE" \in e.file_perms,
         d # None /\ d.type = "file" => d.rights \subseteq fs_rights_base(key)'
  PROVE  ReportInv'
<1>1. /\ \A h \in Handle : h # key => table'[h] = table[h] /\ ds'[h] = ds[h]
      /\ table'[key] = e /\ ds'[key] = d
  BY DEF FilesInv, TableInv
<1>2. DirsAgree'
  BY <1>1 DEF ReportInv, DirsAgree, IsType
<1>3. \A h \in Handle : h # key => fs_rights_base(h)' = fs_rights_base(h)
  BY <1>1 DEF fs_rights_base, get_flags
<1>4. RightsReported'
  BY <1>1, <1>3 DEF ReportInv, RightsReported, get_file
<1> QED
  BY <1>2, <1>4 DEF ReportInv

(* What is opened may be used as was asked for. *)
LEMMA ReportOpened ==
  ASSUME FilesInv, ReportInv, PermsAgree, NEW h \in Handle, NEW args \in OpenArgs,
         NEW key \in Handle, NEW oflags, NEW n \in Node, NEW opts,
         NEW flags, flags = descriptor_flags_from_flags(args.rights, args.fdflags),
         MayOpen(h, oflags, flags),
         table' = [table EXCEPT ![key] = Opened(h, n, opts)],
         ds' = [ds EXCEPT ![key] = [type |-> table'[key].type, rights |-> args.rights]]
  PROVE  ReportInv'
<1>1. args.rights \in SUBSET {"FD_READ", "FD_WRITE"}
  BY OpenArgsAssumption
<1>2. /\ "FD_READ" \in args.rights => "READ" \in flags
      /\ "FD_WRITE" \in args.rights => "WRITE" \in flags
  BY <1>1, FlagsTranslated
<1>3. /\ IsType("dir", h) /\ "READ" \in table[h].perms
      /\ "WRITE" \in flags => "MUTATE" \in table[h].perms
  BY DEF MayOpen, HasDir
<1>4. /\ "READ" \in table[h].file_perms
      /\ "MUTATE" \in table[h].perms => "WRITE" \in table[h].file_perms
  BY <1>3 DEF ReportInv, DirsAgree
<1> DEFINE entry == Opened(h, n, opts)
           held == [type |-> entry.type, rights |-> args.rights]
<1>5. table'[key] = entry
  BY DEF FilesInv, TableInv
<1>6. entry # None /\ entry.type = "dir" =>
        /\ "READ" \in entry.perms => "READ" \in entry.file_perms
        /\ "MUTATE" \in entry.perms => "WRITE" \in entry.file_perms
  BY <1>4 DEF Opened, Dir, File
<1>7. held.type = "file" => entry.perms = table[h].file_perms
  BY DEF Opened, Dir, File
<1>8. ds' = [ds EXCEPT ![key] = held] /\ held.rights = args.rights
  BY <1>5
<1> HIDE DEF entry
<1>9. held.type = "file" => args.rights \subseteq fs_rights_base(key)'
  <2>1. ASSUME held.type = "file"
        PROVE  \A right \in args.rights : DescriptorFlag[right] \in table'[key].perms
    <3>1. DescriptorFlag["FD_READ"] = "READ" /\ DescriptorFlag["FD_WRITE"] = "WRITE"
      BY DEF DescriptorFlag
    <3>2. table'[key].perms = table[h].file_perms
      BY <1>5, <1>7, <2>1
    <3> QED
      BY <1>1, <1>2, <1>3, <1>4, <3>1, <3>2
  <2>2. DescriptorFlag' = DescriptorFlag
    BY DEF DescriptorFlag
  <2> QED
    BY <1>1, <2>1, <2>2 DEF fs_rights_base, get_flags
<1>10. table' = [table EXCEPT ![key] = entry]
  BY DEF entry
<1> HIDE DEF held
<1> QED
  BY <1>6, <1>8, <1>9, <1>10, ReportChanged

LEMMA ReportKept ==
  ASSUME ReportInv, UNCHANGED <<table, ds>>
  PROVE  ReportInv'
BY DEF ReportInv, DirsAgree, RightsReported, IsType, get_file, fs_rights_base, get_flags

LEMMA ReportNext == FilesInv /\ ReportInv /\ [Next]_vars => ReportInv'
<1> SUFFICES ASSUME FilesInv, ReportInv, [Next]_vars PROVE ReportInv'
  OBVIOUS
<1>1. CASE UNCHANGED <<table, ds>>
  BY <1>1, ReportKept
<1>2. CASE ~PermsAgree
  BY <1>2 DEF ReportInv
<1>3. ASSUME PermsAgree, NEW h \in Handle, NEW x \in Name, NEW args \in OpenArgs,
             PathOpen(h, x, args)
      PROVE  ReportInv'
  <2> DEFINE oflags == o_flags_from_oflags(args.oflags)
             flags == descriptor_flags_from_flags(args.rights, args.fdflags)
  <2> HIDE DEF oflags, flags
  <2>1. CASE On(get_dir(h), open_at_fails(h, x, args.follow, oflags, flags))
    BY <2>1, ReportKept DEF On, open_at_fails, Fails
  <2>2. ASSUME NEW key \in Handle, open_at(h, x, args.follow, oflags, flags, key),
               ds' = IF ret' # "SUCCESS" THEN ds
                     ELSE [ds EXCEPT ![key] = [type |-> table'[key].type, rights |-> args.rights]]
        PROVE  ReportInv'
    <3>1. MayOpen(h, oflags, flags)
      BY <2>2 DEF open_at
    <3>2. PICK n \in Node :
            \/ /\ table' = [table EXCEPT ![key] = Opened(h, n, Options(oflags, flags, args.follow))]
               /\ ret' = "SUCCESS"
            \/ UNCHANGED table /\ ret' = "ERROR"
      BY <2>2 DEF open_at
    <3> QED
      BY <1>3, <2>2, <3>1, <3>2, ReportKept, ReportOpened DEF flags
  <2> QED
    BY <1>3, <2>1, <2>2 DEF PathOpen, oflags, flags
<1>4. ASSUME PermsAgree, NEW h \in Handle, FdClose(h)
      PROVE  ReportInv'
  <2>1. CASE UNCHANGED <<table, ds>>
    BY <2>1, ReportKept
  <2>2. CASE table' = [table EXCEPT ![h] = None] /\ ds' = [ds EXCEPT ![h] = None]
    BY <1>4, <2>2, ReportChanged
  <2>3. ds[h] # None => table[h] # None
    BY DEF FilesInv, TableInv, TableMatches
  <2> QED
    BY <1>4, <2>1, <2>2, <2>3 DEF FdClose, drop_descriptor, Fails
<1>5. CASE UNCHANGED vars
  BY <1>1, <1>5 DEF vars
<1> QED
  BY <1>1, <1>2, <1>3, <1>4, <1>5 DEF Next, PathCreateDirectory, PathFilestatGet,
     PathFilestatSetTimes, PathLink, PathReadlink, PathRemoveDirectory, PathRename, PathSymlink,
     PathUnlinkFile, FdPread, FdPwrite, FdRead, FdWrite, FdFilestatGet, FdFilestatSetSize,
     FdFilestatSetTimes, FdAllocate, FdAdvise, FdSync, FdDatasync, FdFdstatGet, advise, sync,
     sync_data, On, create_directory_at, stat_at, set_times_at, link_at, readlink_at,
     remove_directory_at, rename_at, symlink_at, unlink_file_at, read, write, ReadViaStream,
     WriteViaStream, stat, set_size, set_times, DoesOnDevice, Does, Answers, Fails, Traps

LEMMA ReportInit == Init => ReportInv
<1> SUFFICES ASSUME Init, PermsAgree PROVE DirsAgree /\ RightsReported
  BY DEF ReportInv
<1>1. DirsAgree
  <2>1. ASSUME NEW h \in Handle, table[h] # None
        PROVE  /\ "READ" \in table[h].perms => "READ" \in table[h].file_perms
               /\ "MUTATE" \in table[h].perms => "WRITE" \in table[h].file_perms
    <3>1. /\ h \in DOMAIN Preopen
          /\ table[h] = Dir(Preopen[h].node, Preopen[h].perms, Preopen[h].file_perms)
      BY <2>1 DEF Init, HostInit
    <3>2. table[h].perms = Preopen[h].perms /\ table[h].file_perms = Preopen[h].file_perms
      BY <3>1 DEF Dir
    <3> QED
      BY <3>1, <3>2 DEF PermsAgree
  <2> QED
    BY <2>1 DEF DirsAgree, IsType
<1>2. \A h \in Handle : ds[h] # None => ds[h].type = "dir"
  BY DEF Init
<1> QED
  BY <1>1, <1>2 DEF RightsReported, get_file

(* What a file was opened to do is what fd_fdstat_get says of it, however  *)
(* deep the directories are that handed on the permissions, if those of    *)
(* the preopens agree.                                                     *)
THEOREM RightsAreReported == Spec => []RightsReported
<1>1. ReportInv => RightsReported
  BY DEF ReportInv, RightsReported
<1> QED
  BY <1>1, FilesCorrect, ReportInit, ReportNext, PTL DEF Spec

-----------------------------------------------------------------------------
(* A directory that is asked for is opened without creating or truncating. *)
LEMMA DirectoryOpens ==
  ASSUME NEW h \in Handle, NEW oflags, NEW flags, NEW follow, MayOpen(h, oflags, flags),
         "DIRECTORY" \in oflags, NEW y, NEW n,
         OsOpen(table[h].node, y, Options(oflags, flags, follow), n)
  PROVE  UNCHANGED <<node, entries>>
<1>1. oflags = {"DIRECTORY"}
  BY DEF MayOpen
<1>2. LET opts == Options(oflags, flags, follow) IN
      ~opts.create /\ ~opts.create_new /\ ~opts.truncate
  BY <1>1 DEF Options
<1> QED
  BY <1>2 DEF OsOpen, CanOpen, CanCreate, Is, treeVars

(* A call that fails changes nothing, whatever was asked for. *)
THEOREM FailuresChangeNothing == Spec => FailedCallsChangeNothing
<1>1. FilesInv /\ [Next]_vars => [FailureKeeps]_vars
  <2> SUFFICES ASSUME FilesInv, Next, ret' # "SUCCESS" PROVE UNCHANGED <<node, entries, table, ds>>
    BY DEF FailureKeeps
  <2>1. ASSUME NEW h \in Handle, NEW x \in Name, NEW args \in OpenArgs, PathOpen(h, x, args)
        PROVE  UNCHANGED <<node, entries, table, ds>>
    <3> DEFINE oflags == o_flags_from_oflags(args.oflags)
               flags == descriptor_flags_from_flags(args.rights, args.fdflags)
    <3> HIDE DEF oflags, flags
    <3>1. CASE On(get_dir(h), open_at_fails(h, x, args.follow, oflags, flags))
      BY <3>1 DEF On, open_at_fails, Fails
    <3>2. ASSUME NEW key \in Handle, open_at(h, x, args.follow, oflags, flags, key), UNCHANGED ds
          PROVE  UNCHANGED <<node, entries, table, ds>>
      <4>1. MayOpen(h, oflags, flags) /\ "DIRECTORY" \in oflags /\ UNCHANGED table
        BY <3>2 DEF open_at
      <4>2. \E y, n : OsOpen(table[h].node, y, Options(oflags, flags, args.follow), n)
        BY <3>2 DEF open_at
      <4> QED
        BY <3>2, <4>1, <4>2, DirectoryOpens
    <3> QED
      BY <2>1, <3>1, <3>2 DEF PathOpen, oflags, flags
  <2>2. ASSUME NEW h \in Handle, FdClose(h)
        PROVE  UNCHANGED <<node, entries, table, ds>>
    BY <2>2 DEF FdClose, drop_descriptor, Fails, FilesInv, TableInv, TableMatches, IsType,
       FileRecord, DirRecord
  <2> QED
    BY <2>1, <2>2 DEF Next, PathCreateDirectory, PathFilestatGet, PathFilestatSetTimes, PathLink,
       PathReadlink, PathRemoveDirectory, PathRename, PathSymlink, PathUnlinkFile, FdPread,
       FdPwrite, FdRead, FdWrite, FdFilestatGet, FdFilestatSetSize, FdFilestatSetTimes, FdAllocate,
       FdAdvise, FdSync, FdDatasync, FdFdstatGet, advise, sync, sync_data,
       On, create_directory_at, stat_at, set_times_at, link_at, readlink_at, remove_directory_at,
       rename_at, symlink_at, unlink_file_at, read, write, ReadViaStream, WriteViaStream, stat,
       set_size, set_times, DoesOnDevice, Does, Answers, Fails, Traps
<1> QED
  BY <1>1, FilesCorrect, PTL DEF Spec, FailedCallsChangeNothing
=============================================================================
