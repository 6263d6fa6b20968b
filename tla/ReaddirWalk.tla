---------------------------- MODULE ReaddirWalk ----------------------------
(***************************************************************************)
(* Guests that list whole directories with fd_readdir, the way the test    *)
(* program fd_readdir.rs does: each call resumes at d_next of the last     *)
(* entry that fit whole, until a buffer is not full.  Other code of the    *)
(* guest may call fd_readdir in between, on the same descriptors too, and  *)
(* all share the one dirent cache of the adapter.  Nothing is promised to  *)
(* them any more once the guest renumbers, reopens what is listed, brings  *)
(* too small a buffer, or uses a cookie from elsewhere.                    *)
(***************************************************************************)
EXTENDS Readdir

CONSTANT Walker   \* The descriptors listed this way, which stay open.

ASSUME WalkerAssumption == Walker \subseteq Fd

VARIABLES
  walk,           \* For each: the next cookie, the names seen, the end reached.
  disciplined     \* History: no step so far was of any other guest.

walkVars == <<vars, walk, disciplined>>

WalkStart == [fd \in Walker |-> [cookie |-> 0, seen |-> <<>>, done |-> FALSE]]

WalkInit ==
  /\ Init
  /\ \A fd \in Walker : dir[fd] # None
  /\ walk = WalkStart
  /\ disciplined = TRUE

(* The entries a guest takes: all but one that the buffer cut short. *)
Whole(r) ==
  SubSeq(r.entries, 1, Len(r.entries) - (IF r.full /\ r.len % 2 = 1 THEN 1 ELSE 0))

NamesOf(entries) == [i \in 1..Len(entries) |-> entries[i].name]

(* One call that succeeds, with room for an entry and more than the dots. *)
WalkOn(fd) ==
  LET w == walk[fd] IN
  /\ disciplined /\ ~w.done /\ UNCHANGED disciplined
  /\ \E len \in 2..MaxLen : HoldsDots(w.cookie, len) /\ ReaddirFills(fd, w.cookie, len)
  /\ LET got == Whole(ret') IN
     walk' = [walk EXCEPT ![fd] =
                [cookie |-> IF got = <<>> THEN w.cookie ELSE got[Len(got)].next,
                 seen |-> w.seen \o NamesOf(got),
                 done |-> ~ret'.full]]

(* A call that fails is made again. *)
WalkFails(fd) ==
  /\ disciplined /\ ~walk[fd].done
  /\ ReaddirFails(fd, walk[fd].cookie, MaxLen)
  /\ UNCHANGED <<walk, disciplined>>

Others ==
  /\ disciplined
  /\ \/ BigRead
     \/ \E fd \in Fd \ Walker : FdClose(fd) \/ \E d \in Dir : PathOpen(fd, d)
  /\ UNCHANGED <<walk, disciplined>>

(* Any call of any guest, after which the listings are given up. *)
Strays ==
  /\ Next
  /\ disciplined' = FALSE /\ walk' = WalkStart

WalkNext == Others \/ Strays \/ \E fd \in Walker : WalkOn(fd) \/ WalkFails(fd)

(* A listing goes on: its guest keeps calling, and not every call fails.   *)
(* This is weak fairness of WalkOn, which is enabled until the listing is  *)
(* done or the guest strays.                                               *)
Fairness ==
  \A fd \in Walker : []<>(walk[fd].done \/ ~disciplined) \/ []<><<WalkOn(fd)>>_walkVars

WalkSpec == WalkInit /\ [][WalkNext]_walkVars /\ Fairness

-----------------------------------------------------------------------------
(* Properties *)

(* The cached entry is the one at its cookie of the directory its          *)
(* descriptor names now, and the stream is just after it (lib.rs:882-884). *)
CacheCurrentWhileDisciplined == disciplined => CacheCurrent

(* What each fd_readdir returns is the listing of the directory from its   *)
(* cookie on.                                                              *)
ListsWhileDisciplined == disciplined => ListsDirectories

(* Every listing comes to its end, unless the guest strays, and has then   *)
(* seen each entry exactly once and in order, whoever used the cache in    *)
(* between.                                                                *)
ListingsEnd ==
  \A fd \in Walker :
    <>(~disciplined \/ (walk[fd].done /\ walk[fd].seen = Listing(dir[fd])))
=============================================================================
