------------------------------ MODULE FileTree ------------------------------
(***************************************************************************)
(* What the host expects of the directories it is given: the operating     *)
(* system's file tree, through cap-std.  External: modelled from how       *)
(* wasi-common/src/preview2/filesystem.rs uses it.                         *)
(*                                                                         *)
(* Paths are names of one directory: longer ones are resolved below the    *)
(* directory of the call and end in such a name.  Links lead to a name of  *)
(* their directory.  Nodes are not used again when they are removed.       *)
(***************************************************************************)
EXTENDS Integers, FiniteSets

CONSTANTS
  Node, Name, None,
  Root,         \* The nodes of the preopened directories.
  Device,       \* The devices the nodes are on.
  Node0, Entries0  \* The tree in the beginning.

VARIABLES
  node,         \* For each node its kind, its device, whether its data or times
                \* have been changed, and for a link the name it leads to.
  entries       \* For each node and name, the node it names, or None.

treeVars == <<node, entries>>

Kind == {"free", "file", "dir", "link"}
NodeRecord == [kind : Kind, dev : Device, changed : BOOLEAN, to : Name \cup {None}]

EntryTable == [Node -> [Name -> Node \cup {None}]]

ASSUME TreeAssumption ==
  /\ Root \subseteq Node
  /\ None \notin Node \cup Name
  /\ Node0 \in [Node -> NodeRecord]
  /\ Entries0 \in EntryTable
  /\ \A d \in Node, x \in Name : Entries0[d][x] # None => Node0[Entries0[d][x]].kind # "free"

TreeInit == node = Node0 /\ entries = Entries0

Fresh(kind, dev, to) == [kind |-> kind, dev |-> dev, changed |-> FALSE, to |-> to]

(* A directory that was removed while it was open has no name any more. *)
Named(n) == n \in Root \/ \E d \in Node, x \in Name : entries[d][x] = n

Is(kind, d, x) == entries[d][x] # None /\ node[entries[d][x]].kind = kind

Empty(d) == \A x \in Name : entries[d][x] = None

(* The nodes below a directory, and the directory. *)
Inside(d) ==
  {n \in Node : \A S \in SUBSET Node :
     d \in S /\ (\A e \in S, x \in Name : entries[e][x] # None => entries[e][x] \in S)
       => n \in S}

(* Where links lead from a name: no name at all when they go in a circle. *)
Followed(d, x) ==
  {y \in Name : ~Is("link", d, y) /\
     \A S \in SUBSET Name :
       x \in S /\ (\A z \in S : Is("link", d, z) => node[entries[d][z]].to \in S)
         => y \in S}

(* O_CREAT | O_EXCL does not follow links. *)
Targets(d, x, opts) == IF opts.follow /\ ~opts.create_new THEN Followed(d, x) ELSE {x}

-----------------------------------------------------------------------------
(* Opening.  Options: create, create_new, truncate, read, write, follow. *)

(* The options are rejected before the name is looked at. *)
OptionsValid(opts) == opts.truncate \/ opts.create \/ opts.create_new => opts.write

CanCreate(d, x) == Named(d) /\ entries[d][x] = None

CanOpen(d, y, opts) ==
  /\ OptionsValid(opts)
  /\ \/ CanCreate(d, y) /\ (opts.create \/ opts.create_new)
     \/ Is("file", d, y) /\ ~opts.create_new
     \/ Is("dir", d, y) /\ ~opts.create_new /\ ~opts.write

-----------------------------------------------------------------------------
(* Changes *)

Create(d, x, n, kind, to) ==
  /\ node' = [node EXCEPT ![n] = Fresh(kind, node[d].dev, to)]
  /\ entries' = [entries EXCEPT ![d][x] = n]

Change(n) ==
  /\ node' = [node EXCEPT ![n].changed = TRUE]
  /\ UNCHANGED entries

Remove(d, x) ==
  /\ entries' = [entries EXCEPT ![d][x] = None]
  /\ UNCHANGED node

CanUnlink(d, x) == entries[d][x] # None /\ ~Is("dir", d, x)
CanRemoveDir(d, x) == Is("dir", d, x) /\ Empty(entries[d][x])

SameDevice(d, e) == node[d].dev = node[e].dev

CanLink(d, x, e, y) == CanUnlink(d, x) /\ CanCreate(e, y)

Link(d, x, e, y) ==
  /\ entries' = [entries EXCEPT ![e][y] = entries[d][x]]
  /\ UNCHANGED node

CanRename(d, x, e, y) ==
  /\ entries[d][x] # None /\ Named(e)
  /\ Is("dir", d, x) => e \notin Inside(entries[d][x])
  /\ entries[e][y] # None =>
       /\ Is("dir", d, x) <=> Is("dir", e, y)
       /\ Is("dir", e, y) => Empty(entries[e][y]) \/ entries[e][y] = entries[d][x]

(* Two names of one node stay as they are. *)
Rename(d, x, e, y) ==
  /\ entries' = IF entries[e][y] = entries[d][x] THEN entries
                ELSE [entries EXCEPT ![d][x] = None, ![e][y] = entries[d][x]]
  /\ UNCHANGED node
=============================================================================
