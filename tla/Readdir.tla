------------------------------ MODULE Readdir ------------------------------
(***************************************************************************)
(* Listing directories through the adapter: fd_readdir of lib.rs with the  *)
(* iterator and the dirent cache inside it, the directory entry streams of *)
(* the host, and the calls that change which directory a descriptor names: *)
(* path_open, fd_close and fd_renumber.                                    *)
(*                                                                         *)
(* A cookie is the index of an entry in the listing; the host does not     *)
(* list `.' and `..', so the adapter adds them in front.  When a buffer    *)
(* fills up, the last entry may be cut short: that entry and the stream    *)
(* behind it are kept in the one cache of the adapter, for the call that   *)
(* resumes there.                                                          *)
(*                                                                         *)
(* Buffers are measured in halves of an entry (its dirent and its name),   *)
(* so that an odd buffer cuts its last entry short and an even one that is *)
(* full ends with a whole one.                                             *)
(***************************************************************************)
EXTENDS Integers, Sequences

CONSTANTS
  Fd,          \* Descriptors of directories.
  Entries,     \* The directories: what the host lists of each, a function.
  Dot, DotDot, \* The names the adapter adds.
  LongNames,   \* Names longer than DIRENT_CACHE.
  MaxLen,      \* Bound: the longest buffer, in halves of an entry.
  None         \* No directory, no cache.

Dir == DOMAIN Entries

ASSUME EntriesAssumption ==
  /\ MaxLen \in Nat
  /\ None \notin Dir
  /\ \A d \in Dir : Entries[d] \in Seq(STRING)
  /\ {Dot, DotDot} \cap LongNames = {}

VARIABLES
  dir,    \* The directory each descriptor names.
  cache,  \* State::dirent_cache, None when it holds no stream.
  ret     \* The last call and its result, when it was fd_readdir.

vars == <<dir, cache, ret>>

-----------------------------------------------------------------------------
(* Listings *)

Dots == <<Dot, DotDot>>
Listing(d) == Dots \o Entries[d]

(* The entries of a whole directory as a guest should see them: a name and *)
(* d_next, the cookie of the entry after it.                               *)
Numbered(names, from) == [i \in 1..Len(names) |-> [name |-> names[i], next |-> from + i]]
Drop(s, n) == SubSeq(s, n + 1, Len(s))
Least(m, n) == IF m < n THEN m ELSE n

-----------------------------------------------------------------------------
(* The iterator *)

(* Mutant: the descriptor the cache is for is not compared. *)
Resumes_AnyFd(fd, cookie) == cache # None /\ cache.cookie = cookie

(* What a new DirectoryEntryIterator starts from: the cache and its stream *)
(* when the cookie and the descriptor match, the start of a new stream of  *)
(* the host otherwise.                                                     *)
Resumes(fd, cookie) == cache # None /\ cache.for_fd = fd /\ cache.cookie = cookie

Iterator(fd, cookie) ==
  IF Resumes(fd, cookie)
  THEN [cookie |-> cookie, head |-> <<cache.entry>>, rest |-> cache.rest]
  ELSE [cookie |-> 0, head |-> <<>>, rest |-> Entries[dir[fd]]]

(* All that next() yields from then on: `.' and `..' by the cookie alone,  *)
(* then the cached entry, then the entries of the host.                    *)
DotsOf(it) == Drop(Dots, Least(it.cookie, 2))
Before(it) == Len(DotsOf(it)) + Len(it.head)

Yields(it) ==
  Numbered(DotsOf(it), it.cookie) \o it.head \o Numbered(it.rest, it.cookie + Before(it))

(* Mutant: the cached entry is not counted, and stays in the stream. *)
RestAfter_CountsNoHead(it, n) ==
  LET m == Before(it) + 1 IN Drop(it.rest, IF n > m THEN n - m ELSE 0)

(* What is left in the stream of the host after n entries. *)
RestAfter(it, n) == Drop(it.rest, IF n > Before(it) THEN n - Before(it) ELSE 0)

-----------------------------------------------------------------------------
(* fd_readdir *)

Result(fd, cookie, len, errno, entries, full) ==
  [fd |-> fd, cookie |-> cookie, len |-> len, errno |-> errno, entries |-> entries, full |-> full]

(* The descriptor is no directory, or the host fails at the inode of `.',  *)
(* at the new stream or at one of its entries: the cache is lost.          *)
ReaddirFails(fd, cookie, len) ==
  /\ \E errno \in IF dir[fd] = None THEN {"BADF"} ELSE {"HOST"} :
       ret' = Result(fd, cookie, len, errno, <<>>, FALSE)
  /\ cache' = None
  /\ UNCHANGED dir

(* The cookie is past the end: success, but *bufused is not written.  The  *)
(* guest then takes whatever is in its buffer for entries.                 *)
ReaddirPastEnd(fd, cookie, len) ==
  LET it == Iterator(fd, cookie) IN
  /\ dir[fd] # None
  /\ cookie - it.cookie > Len(Yields(it))
  /\ \E full \in BOOLEAN : ret' = Result(fd, cookie, len, "SUCCESS", <<None>>, full)
  /\ cache' = None
  /\ UNCHANGED dir

(* Mutant: *bufused is always the length of the buffer. *)
IsFull_Always(n, len) == TRUE

(* n entries leave no room in a buffer: *bufused is its length. *)
IsFull(n, len) == len <= 2 * n

(* The name fits the cache. *)
Cacheable(entry) == entry.name \notin LongNames

(* The entries that fit, the last perhaps cut short.  It goes to the cache *)
(* when it filled the buffer and its name is short enough.                 *)
ReaddirFills(fd, cookie, len) ==
  LET it == Iterator(fd, cookie)
      skipped == cookie - it.cookie
      items == Drop(Yields(it), skipped)
      n == Least(Len(items), (len + 1) \div 2)
      full == IsFull(n, len)
  IN
  /\ dir[fd] # None
  /\ skipped <= Len(Yields(it))
  /\ ret' = Result(fd, cookie, len, "SUCCESS", SubSeq(items, 1, n), full)
  /\ cache' = IF n > 0 /\ full /\ Cacheable(items[n])
              THEN [for_fd |-> fd, cookie |-> cookie + n - 1,
                    entry |-> items[n], rest |-> RestAfter(it, skipped + n)]
              ELSE None
  /\ UNCHANGED dir

Readdir(fd, cookie, len) ==
  \/ ReaddirFails(fd, cookie, len)
  \/ ReaddirPastEnd(fd, cookie, len)
  \/ ReaddirFills(fd, cookie, len)

-----------------------------------------------------------------------------
(* The other calls *)

(* path_open takes a descriptor that is not in use. *)
PathOpen(fd, d) ==
  /\ dir[fd] = None
  /\ dir' = [dir EXCEPT ![fd] = d]
  /\ ret' = None
  /\ UNCHANGED cache

(* Mutant: the cache survives the descriptor. *)
FdClose_KeepsCache(fd) ==
  /\ dir' = [dir EXCEPT ![fd] = None]
  /\ ret' = None
  /\ UNCHANGED cache

(* fd_close drops the cache of the descriptor, open or not. *)
FdClose(fd) ==
  /\ dir' = [dir EXCEPT ![fd] = None]
  /\ cache' = IF cache # None /\ cache.for_fd = fd THEN None ELSE cache
  /\ ret' = None

(* fd_renumber leaves the cache alone. *)
FdRenumber(from, to) ==
  /\ dir[from] # None
  /\ dir' = IF from = to THEN dir ELSE [dir EXCEPT ![from] = None, ![to] = dir[from]]
  /\ ret' = None
  /\ UNCHANGED cache

-----------------------------------------------------------------------------
(* Specifications *)

(* Bound: cookies up to one past the end of the longest directory. *)
Cookies == UNION {0..(Len(Listing(d)) + 1) : d \in Dir}

Init ==
  /\ dir \in [Fd -> Dir \cup {None}]
  /\ cache = None
  /\ ret = None

Reopen == \E fd \in Fd : FdClose(fd) \/ \E d \in Dir : PathOpen(fd, d)

(* The buffer holds more than what is left of `.' and `..'. *)
HoldsDots(cookie, len) == len > 2 * (2 - cookie)

(* A cookie the guest may have got from a dirent of the directory. *)
InListing(fd, cookie) == dir[fd] # None => cookie <= Len(Listing(dir[fd]))

Next ==
  \/ Reopen
  \/ \E from, to \in Fd : FdRenumber(from, to)
  \/ \E fd \in Fd, cookie \in Cookies, len \in 0..MaxLen : Readdir(fd, cookie, len)

(* Any guest, making any sequence of calls. *)
Spec == Init /\ [][Next]_vars

BigRead ==
  \E fd \in Fd, cookie \in Cookies, len \in 0..MaxLen :
    HoldsDots(cookie, len) /\ InListing(fd, cookie) /\ Readdir(fd, cookie, len)

-----------------------------------------------------------------------------
(* Properties *)

(* Whatever a guest does, the cached entry and the stream belong together: *)
(* the stream goes on right after the entry, in the directory the entry is *)
(* of, so that no listing mixes two directories or skips an entry.         *)
CacheTogether ==
  cache # None =>
    \E d \in Dir : \E i \in 0..Len(Entries[d]) :
      /\ cache.rest = Drop(Entries[d], i)
      /\ IF i = 0 THEN cache.entry.name \in {Dot, DotDot} ELSE cache.entry.name = Entries[d][i]

(* The cache is what the comment in fd_readdir says it validates           *)
(* (lib.rs:882-884): the entry at its cookie of the directory its          *)
(* descriptor names now, with the stream of that directory just after it.  *)
CacheCurrent ==
  cache # None =>
    LET d == dir[cache.for_fd] IN
    /\ d # None
    /\ cache.entry = [name |-> Listing(d)[cache.cookie + 1], next |-> cache.cookie + 1]
    /\ cache.rest = Drop(Listing(d), cache.cookie + 1)

(* Each successful fd_readdir returns the entries of the directory from    *)
(* the cookie on, as many as there are room for, whatever other calls came *)
(* before; a buffer that is not full means the end of the directory.       *)
ListsDirectories ==
  ret # None /\ ret.errno = "SUCCESS" =>
    LET all == Drop(Numbered(Listing(dir[ret.fd]), 0), ret.cookie)
        n == Len(ret.entries)
    IN
    /\ n <= Len(all) /\ ret.entries = SubSeq(all, 1, n)
    /\ ret.full = (ret.len <= 2 * n)
    /\ ~ret.full => n = Len(all)
=============================================================================
