--------------------------- MODULE ReaddirProofs ---------------------------
(***************************************************************************)
(* Proofs about Readdir and ReaddirWalk, for directories of any length,    *)
(* any number of descriptors and buffers of any size: the one dirent cache *)
(* never mixes two directories, and a disciplined guest sees each entry of *)
(* a directory exactly once and in order.                                  *)
(***************************************************************************)
EXTENDS ReaddirWalk, SequenceTheorems, TLAPS

Name == STRING \cup {Dot, DotDot}
Dirent == [name : Name, next : Nat]

Types ==
  /\ dir \in [Fd -> Dir \cup {None}]
  /\ cache # None => cache \in [for_fd : Fd, cookie : Nat, entry : Dirent, rest : Seq(Name)]

(* An entry and the stream behind it: the host's i-th entry of d, or a dot *)
(* with all of d behind it.                                                *)
EntryAt(name, d, i) == IF i = 0 THEN name \in {Dot, DotDot} ELSE name = Entries[d][i]

(* What keeps the cache together: at a cookie of the dots the whole stream *)
(* is still behind them, so the dots yielded again do not skip anything.   *)
CachePlace(d, i) ==
  /\ cache.rest = Drop(Entries[d], i) /\ EntryAt(cache.entry.name, d, i)
  /\ cache.cookie < 2 => i = 0

TogetherInv ==
  /\ Types
  /\ cache # None => \E d \in Dir : \E i \in 0..Len(Entries[d]) : CachePlace(d, i)

(* A disciplined guest never leaves a dot in the cache. *)
CacheAhead ==
  cache # None =>
    dir[cache.for_fd] # None /\ cache.cookie \in 2..(Len(Listing(dir[cache.for_fd])) - 1)

WalkTypes == walk \in [Walker -> [cookie : Nat, seen : Seq(Name), done : BOOLEAN]]

(* What each listing has seen is the directory up to its cookie. *)
SeenSoFar ==
  \A fd \in Walker :
    LET w == walk[fd]
        all == Listing(dir[fd])
    IN
    /\ dir[fd] # None
    /\ w.cookie <= Len(all) /\ w.seen = SubSeq(all, 1, w.cookie)
    /\ w.done => w.cookie = Len(all)

WalkInv ==
  /\ TogetherInv /\ WalkTypes
  /\ disciplined => CacheAhead /\ CacheCurrent /\ ListsDirectories /\ SeenSoFar

(* A listing that has ended has seen each entry once and in order. *)
SeenWhenDone ==
  \A fd \in Walker : disciplined /\ walk[fd].done => walk[fd].seen = Listing(dir[fd])

-----------------------------------------------------------------------------
(* Sequences *)

LEMMA DropIs ==
  ASSUME NEW S, NEW s \in Seq(S), NEW n \in 0..Len(s)
  PROVE  /\ Drop(s, n) \in Seq(S) /\ Len(Drop(s, n)) = Len(s) - n
         /\ \A i \in 1..(Len(s) - n) : Drop(s, n)[i] = s[n + i]
<1>1. Len(s) \in Nat
  OBVIOUS
<1>2. \A i \in (n + 1)..Len(s) : s[i] \in S
  BY <1>1
<1> QED
  BY <1>1, <1>2, SubSeqProperties DEF Drop

LEMMA DropNone == ASSUME NEW S, NEW s \in Seq(S) PROVE Drop(s, 0) = s
BY SubSeqFull DEF Drop

LEMMA DropTwice ==
  ASSUME NEW S, NEW s \in Seq(S), NEW m \in 0..Len(s), NEW n \in 0..(Len(s) - m)
  PROVE  Drop(Drop(s, m), n) = Drop(s, m + n)
<1>1. Len(s) \in Nat
  OBVIOUS
<1>2. /\ Drop(s, m) \in Seq(S) /\ Len(Drop(s, m)) = Len(s) - m
      /\ \A i \in 1..(Len(s) - m) : Drop(s, m)[i] = s[m + i]
  BY DropIs
<1>3. m + n \in 0..Len(s)
  BY <1>1
<1>4. /\ Drop(s, m + n) \in Seq(S) /\ Len(Drop(s, m + n)) = Len(s) - (m + n)
      /\ \A i \in 1..(Len(s) - (m + n)) : Drop(s, m + n)[i] = s[m + n + i]
  BY <1>3, DropIs
<1> DEFINE t == Drop(s, m)
<1>5. t \in Seq(S) /\ n \in 0..Len(t) /\ Len(t) = Len(s) - m
  BY <1>1, <1>2
<1> HIDE DEF t
<1>6. /\ Drop(t, n) \in Seq(S) /\ Len(Drop(t, n)) = Len(s) - (m + n)
      /\ \A i \in 1..(Len(s) - (m + n)) : Drop(t, n)[i] = t[n + i]
  <2>1. /\ Drop(t, n) \in Seq(S) /\ Len(Drop(t, n)) = Len(t) - n
        /\ \A i \in 1..(Len(t) - n) : Drop(t, n)[i] = t[n + i]
    BY <1>5, DropIs
  <2>2. Len(t) - n = Len(s) - (m + n)
    BY <1>1, <1>5
  <2> QED
    BY <2>1, <2>2
<1>7. \A i \in 1..(Len(s) - (m + n)) : Drop(t, n)[i] = Drop(s, m + n)[i]
  <2> SUFFICES ASSUME NEW i \in 1..(Len(s) - (m + n)) PROVE Drop(t, n)[i] = Drop(s, m + n)[i]
    OBVIOUS
  <2>1. Drop(t, n)[i] = t[n + i]
    BY <1>1, <1>6
  <2>2. n + i \in 1..(Len(s) - m)
    BY <1>1
  <2>3. t[n + i] = s[m + (n + i)]
    BY <1>2, <2>2 DEF t
  <2>4. Drop(s, m + n)[i] = s[m + n + i]
    BY <1>4
  <2> QED
    BY <2>1, <2>3, <2>4
<1> HIDE DEF Drop
<1>8. Drop(t, n) = Drop(s, m + n)
  BY <1>4, <1>6, <1>7, SeqEqual
<1> QED
  BY <1>8 DEF t

LEMMA NumberedIs ==
  ASSUME NEW s \in Seq(Name), NEW from \in Nat
  PROVE  /\ Numbered(s, from) \in Seq(Dirent) /\ Len(Numbered(s, from)) = Len(s)
         /\ \A i \in 1..Len(s) :
              /\ Numbered(s, from)[i].name = s[i] /\ Numbered(s, from)[i].next = from + i
              /\ Numbered(s, from)[i] = [name |-> s[i], next |-> from + i]
<1>1. Len(s) \in Nat /\ \A i \in 1..Len(s) : s[i] \in Name
  OBVIOUS
<1> DEFINE e(i) == [name |-> s[i], next |-> from + i]
<1>2. \A i \in 1..Len(s) : e(i) \in Dirent
  BY <1>1 DEF Dirent
<1>3. Numbered(s, from) = [i \in 1..Len(s) |-> e(i)]
  BY DEF Numbered
<1> HIDE DEF e
<1>4. [i \in 1..Len(s) |-> e(i)] \in Seq(Dirent)
  BY <1>1, <1>2
<1>5. Len([i \in 1..Len(s) |-> e(i)]) = Len(s)
  BY <1>1
<1> QED
  BY <1>3, <1>4, <1>5 DEF e

LEMMA DirectoryIs ==
  ASSUME NEW d \in Dir
  PROVE  /\ Entries[d] \in Seq(Name) /\ Dots \in Seq(Name) /\ Len(Dots) = 2
         /\ Listing(d) \in Seq(Name) /\ Len(Listing(d)) = Len(Entries[d]) + 2
         /\ Listing(d)[1] = Dot /\ Listing(d)[2] = DotDot
         /\ \A i \in 1..Len(Entries[d]) : Listing(d)[2 + i] = Entries[d][i]
<1>1. Entries[d] \in Seq(Name)
  BY EntriesAssumption, SeqMonotonic DEF Name
<1>2. Dots \in Seq(Name) /\ Len(Dots) = 2 /\ Dots[1] = Dot /\ Dots[2] = DotDot
  BY DEF Dots, Name
<1> HIDE DEF Dots
<1>3. Len(Entries[d]) \in Nat
  BY <1>1
<1>4. /\ Listing(d) \in Seq(Name) /\ Len(Listing(d)) = 2 + Len(Entries[d])
      /\ \A i \in 1..(2 + Len(Entries[d])) :
           Listing(d)[i] = IF i <= 2 THEN Dots[i] ELSE Entries[d][i - 2]
  <2>1. /\ Dots \o Entries[d] \in Seq(Name)
        /\ Len(Dots \o Entries[d]) = Len(Dots) + Len(Entries[d])
        /\ \A i \in 1..(Len(Dots) + Len(Entries[d])) :
             (Dots \o Entries[d])[i] = IF i <= Len(Dots) THEN Dots[i] ELSE Entries[d][i - Len(Dots)]
    BY <1>1, <1>2, ConcatProperties
  <2> QED
    BY <1>2, <2>1 DEF Listing
<1> QED
  BY <1>1, <1>2, <1>3, <1>4
LEMMA DotsOfIs ==
  ASSUME NEW it, it.cookie \in Nat
  PROVE  /\ DotsOf(it) \in Seq({Dot, DotDot})
         /\ Len(DotsOf(it)) = IF it.cookie < 2 THEN 2 - it.cookie ELSE 0
         /\ it.cookie = 0 => DotsOf(it) = Dots
<1>1. Dots \in Seq({Dot, DotDot}) /\ Len(Dots) = 2
  BY DEF Dots
<1> HIDE DEF Dots
<1>2. Least(it.cookie, 2) \in 0..Len(Dots) /\ Least(it.cookie, 2) = IF it.cookie < 2 THEN it.cookie ELSE 2
  BY <1>1 DEF Least
<1>3. DotsOf(it) \in Seq({Dot, DotDot}) /\ Len(DotsOf(it)) = Len(Dots) - Least(it.cookie, 2)
  BY <1>1, <1>2, DropIs DEF DotsOf
<1>4. it.cookie = 0 => DotsOf(it) = Dots
  BY <1>1, <1>2, DropNone DEF DotsOf
<1> QED
  BY <1>1, <1>2, <1>3, <1>4

(* Everything an iterator yields, entry by entry. *)
LEMMA YieldsAre ==
  ASSUME NEW it, it.cookie \in Nat, it.head \in Seq(Dirent), it.rest \in Seq(Name)
  PROVE  /\ Yields(it) \in Seq(Dirent)
         /\ Before(it) = Len(DotsOf(it)) + Len(it.head)
         /\ Len(Yields(it)) = Before(it) + Len(it.rest)
         /\ \A i \in 1..Len(DotsOf(it)) : Yields(it)[i] = [name |-> DotsOf(it)[i], next |-> it.cookie + i]
         /\ \A i \in (Len(DotsOf(it)) + 1)..Before(it) : Yields(it)[i] = it.head[i - Len(DotsOf(it))]
         /\ \A i \in 1..Len(it.rest) :
              Yields(it)[Before(it) + i] = [name |-> it.rest[i], next |-> it.cookie + Before(it) + i]
<1> DEFINE dots == Numbered(DotsOf(it), it.cookie)
           rest == Numbered(it.rest, it.cookie + Before(it))
           front == dots \o it.head
<1>1. DotsOf(it) \in Seq(Name)
  BY DotsOfIs, SeqMonotonic DEF Name
<1>2. /\ dots \in Seq(Dirent) /\ Len(dots) = Len(DotsOf(it))
      /\ \A i \in 1..Len(DotsOf(it)) : dots[i] = [name |-> DotsOf(it)[i], next |-> it.cookie + i]
  BY <1>1, NumberedIs
<1>3. Len(it.head) \in Nat /\ Len(it.rest) \in Nat /\ Len(DotsOf(it)) \in Nat
  BY <1>1
<1>4. Before(it) = Len(DotsOf(it)) + Len(it.head) /\ Before(it) \in Nat
  BY <1>3 DEF Before
<1>5. /\ rest \in Seq(Dirent) /\ Len(rest) = Len(it.rest)
      /\ \A i \in 1..Len(it.rest) : rest[i] = [name |-> it.rest[i], next |-> it.cookie + Before(it) + i]
  BY <1>4, NumberedIs
<1>6. Yields(it) = front \o rest
  BY DEF Yields
<1> HIDE DEF dots, rest, Before
<1>7. /\ front \in Seq(Dirent) /\ Len(front) = Len(dots) + Len(it.head)
      /\ \A i \in 1..(Len(dots) + Len(it.head)) :
           front[i] = IF i <= Len(dots) THEN dots[i] ELSE it.head[i - Len(dots)]
  BY <1>2, ConcatProperties
<1> HIDE DEF front
<1>8. /\ front \o rest \in Seq(Dirent) /\ Len(front \o rest) = Len(front) + Len(rest)
      /\ \A i \in 1..(Len(front) + Len(rest)) :
           (front \o rest)[i] = IF i <= Len(front) THEN front[i] ELSE rest[i - Len(front)]
  <2>1. front \in Seq(Dirent) /\ rest \in Seq(Dirent)
    BY <1>5, <1>7
  <2> QED
    BY ONLY <2>1, ConcatProperties
<1>9. Len(front) = Before(it)
  BY <1>2, <1>4, <1>7
<1>10. Len(Yields(it)) = Before(it) + Len(it.rest)
  BY <1>5, <1>6, <1>8, <1>9
<1>11. ASSUME NEW i \in 1..Before(it) PROVE Yields(it)[i] = front[i]
  BY <1>3, <1>4, <1>5, <1>6, <1>8, <1>9
<1>12. ASSUME NEW i \in 1..Len(it.rest) PROVE Yields(it)[Before(it) + i] = rest[i]
  BY <1>3, <1>4, <1>5, <1>6, <1>8, <1>9, SMTT(30)
<1>13. ASSUME NEW i \in 1..Len(DotsOf(it))
       PROVE  Yields(it)[i] = [name |-> DotsOf(it)[i], next |-> it.cookie + i]
  <2>1. i \in 1..Before(it) /\ i \in 1..(Len(dots) + Len(it.head)) /\ i <= Len(dots)
    BY <1>2, <1>3, <1>4
  <2>2. front[i] = dots[i]
    BY ONLY <1>7, <2>1
  <2> QED
    BY ONLY <1>2, <1>11, <2>1, <2>2
<1>14. ASSUME NEW i \in (Len(DotsOf(it)) + 1)..Before(it)
       PROVE  Yields(it)[i] = it.head[i - Len(DotsOf(it))]
  <2>1. i \in 1..Before(it) /\ i \in 1..(Len(dots) + Len(it.head)) /\ ~(i <= Len(dots))
    BY <1>2, <1>3, <1>4
  <2>2. front[i] = it.head[i - Len(dots)]
    BY ONLY <1>7, <2>1
  <2> QED
    BY ONLY <1>2, <1>11, <2>1, <2>2
<1> QED
  BY <1>4, <1>5, <1>6, <1>8, <1>10, <1>12, <1>13, <1>14
-----------------------------------------------------------------------------
(* One call *)

(* What an iterator starts from. *)
LEMMA IteratorIs ==
  ASSUME Types, NEW fd \in Fd, NEW cookie \in Nat, dir[fd] # None
  PROVE  LET it == Iterator(fd, cookie) IN
         /\ it.cookie \in 0..cookie /\ it.head \in Seq(Dirent) /\ it.rest \in Seq(Name)
         /\ Resumes(fd, cookie) => /\ it.cookie = cookie /\ it.rest = cache.rest
                                   /\ Len(it.head) = 1 /\ it.head[1] = cache.entry
         /\ ~Resumes(fd, cookie) => /\ it.cookie = 0 /\ it.rest = Entries[dir[fd]]
                                    /\ Len(it.head) = 0
<1>1. dir[fd] \in Dir
  BY DEF Types
<1>2. Entries[dir[fd]] \in Seq(Name)
  BY <1>1, DirectoryIs
<1>3. CASE Resumes(fd, cookie)
  <2>1. cache.entry \in Dirent /\ cache.rest \in Seq(Name)
    BY <1>3 DEF Resumes, Types
  <2>2. Iterator(fd, cookie) = [cookie |-> cookie, head |-> <<cache.entry>>, rest |-> cache.rest]
    BY <1>3 DEF Iterator
  <2>3. <<cache.entry>> \in Seq(Dirent) /\ Len(<<cache.entry>>) = 1 /\ <<cache.entry>>[1] = cache.entry
    BY <2>1
  <2> QED
    BY <1>3, <2>1, <2>2, <2>3
<1>4. CASE ~Resumes(fd, cookie)
  <2>1. Iterator(fd, cookie) = [cookie |-> 0, head |-> <<>>, rest |-> Entries[dir[fd]]]
    BY <1>4 DEF Iterator
  <2> QED
    BY <1>2, <1>4, <2>1, EmptySeq
<1> QED
  BY <1>3, <1>4

LEMMA Halves == \A len \in Nat : (len + 1) \div 2 \in Nat /\ len <= 2 * ((len + 1) \div 2)
                                 /\ 2 * ((len + 1) \div 2) <= len + 1
OBVIOUS

LEMMA LeastIs == \A m, n \in Nat : Least(m, n) \in Nat /\ Least(m, n) <= m /\ Least(m, n) <= n
                                   /\ (Least(m, n) = m \/ Least(m, n) = n)
BY DEF Least

(* What fd_readdir returns and keeps, in terms of what the iterator yields. *)
LEMMA FillsIs ==
  ASSUME Types, NEW fd \in Fd, NEW cookie \in Nat, NEW len \in Nat, ReaddirFills(fd, cookie, len)
  PROVE  LET it == Iterator(fd, cookie)
             skipped == cookie - it.cookie
             items == Drop(Yields(it), skipped)
             n == Least(Len(items), (len + 1) \div 2)
         IN
         /\ it.cookie \in 0..cookie /\ Yields(it) \in Seq(Dirent) /\ skipped \in 0..Len(Yields(it))
         /\ items \in Seq(Dirent) /\ Len(items) = Len(Yields(it)) - skipped
         /\ n \in 0..Len(items)
         /\ n < Len(items) => len <= 2 * n /\ 2 * n <= len + 1
         /\ ret' = Result(fd, cookie, len, "SUCCESS", SubSeq(items, 1, n), IsFull(n, len))
         /\ cache' # None =>
              /\ n > 0 /\ IsFull(n, len) /\ skipped + n \in 1..Len(Yields(it))
              /\ items[n] = Yields(it)[skipped + n] /\ items[n] \in Dirent
              /\ cache' = [for_fd |-> fd, cookie |-> it.cookie + (skipped + n) - 1,
                           entry |-> Yields(it)[skipped + n], rest |-> RestAfter(it, skipped + n)]
         /\ dir[fd] # None /\ dir' = dir
<1> DEFINE it == Iterator(fd, cookie)
           skipped == cookie - it.cookie
           items == Drop(Yields(it), skipped)
           n == Least(Len(items), (len + 1) \div 2)
<1>1. /\ dir[fd] # None /\ dir' = dir /\ skipped <= Len(Yields(it))
      /\ ret' = Result(fd, cookie, len, "SUCCESS", SubSeq(items, 1, n), IsFull(n, len))
      /\ cache' = IF n > 0 /\ IsFull(n, len) /\ Cacheable(items[n])
                  THEN [for_fd |-> fd, cookie |-> cookie + n - 1,
                        entry |-> items[n], rest |-> RestAfter(it, skipped + n)]
                  ELSE None
  BY DEF ReaddirFills
<1>2. it.cookie \in 0..cookie /\ it.head \in Seq(Dirent) /\ it.rest \in Seq(Name)
  BY <1>1, IteratorIs
<1> HIDE DEF it
<1>3. Yields(it) \in Seq(Dirent)
  BY <1>2, YieldsAre
<1>4. skipped \in 0..Len(Yields(it)) /\ Len(Yields(it)) \in Nat
  BY <1>1, <1>2, <1>3
<1>5. /\ items \in Seq(Dirent) /\ Len(items) = Len(Yields(it)) - skipped
      /\ \A i \in 1..(Len(Yields(it)) - skipped) : items[i] = Yields(it)[skipped + i]
  BY <1>3, <1>4, DropIs
<1> HIDE DEF items, skipped
<1>6. n \in 0..Len(items) /\ (n < Len(items) => len <= 2 * n /\ 2 * n <= len + 1)
  <2> DEFINE half == (len + 1) \div 2
  <2>1. half \in Nat /\ len <= 2 * half /\ 2 * half <= len + 1
    BY Halves
  <2>2. n = Least(Len(items), half) /\ Len(items) \in Nat
    BY <1>5
  <2> HIDE DEF half, n
  <2>3. n \in Nat /\ n <= Len(items) /\ (n = Len(items) \/ n = half)
    BY <2>1, <2>2, LeastIs
  <2> QED
    BY <2>1, <2>2, <2>3
<1> HIDE DEF n
<1>7. ASSUME n > 0
      PROVE  /\ skipped + n \in 1..Len(Yields(it)) /\ items[n] \in Dirent
             /\ items[n] = Yields(it)[skipped + n]
  BY <1>4, <1>5, <1>6, <1>7
<1>8. cookie + n - 1 = it.cookie + (skipped + n) - 1
  BY <1>2, <1>6, SMTT(30) DEF skipped
<1>9. cache' # None =>
        /\ n > 0 /\ IsFull(n, len) /\ skipped + n \in 1..Len(Yields(it))
        /\ items[n] = Yields(it)[skipped + n] /\ items[n] \in Dirent
        /\ cache' = [for_fd |-> fd, cookie |-> it.cookie + (skipped + n) - 1,
                     entry |-> Yields(it)[skipped + n], rest |-> RestAfter(it, skipped + n)]
  BY <1>1, <1>7, <1>8
<1> QED
  BY <1>1, <1>2, <1>3, <1>4, <1>5, <1>6, <1>9 DEF n, items, skipped, it
(* What an iterator yields and the stream it then leaves belong together,  *)
(* if they do where it starts.                                             *)
LEMMA YieldsNames ==
  ASSUME NEW it, it.cookie \in Nat, it.head \in Seq(Dirent), it.rest \in Seq(Name)
  PROVE  /\ \A i \in 1..Len(DotsOf(it)) : Yields(it)[i].name = DotsOf(it)[i]
         /\ \A i \in 1..Len(it.rest) : Yields(it)[Before(it) + i].name = it.rest[i]
<1>1. ASSUME NEW i \in 1..Len(DotsOf(it)) PROVE Yields(it)[i].name = DotsOf(it)[i]
  <2>1. Yields(it)[i] = [name |-> DotsOf(it)[i], next |-> it.cookie + i]
    BY YieldsAre
  <2> QED
    BY ONLY <2>1
<1>2. ASSUME NEW i \in 1..Len(it.rest) PROVE Yields(it)[Before(it) + i].name = it.rest[i]
  <2>1. Yields(it)[Before(it) + i] = [name |-> it.rest[i], next |-> it.cookie + Before(it) + i]
    BY YieldsAre
  <2> QED
    BY ONLY <2>1
<1> QED
  BY <1>1, <1>2

LEMMA YieldsTogether ==
  ASSUME NEW it, it.cookie \in Nat, it.head \in Seq(Dirent), it.rest \in Seq(Name), Len(it.head) <= 1,
         NEW d \in Dir, NEW j \in 0..Len(Entries[d]), it.rest = Drop(Entries[d], j),
         it.cookie < 2 => j = 0,
         Len(it.head) = 1 => EntryAt(it.head[1].name, d, j),
         NEW k \in 1..Len(Yields(it))
  PROVE  \E i \in 0..Len(Entries[d]) :
           /\ RestAfter(it, k) = Drop(Entries[d], i)
           /\ EntryAt(Yields(it)[k].name, d, i)
           /\ it.cookie + k - 1 < 2 => i = 0
<1> DEFINE D == Len(DotsOf(it))
           B == Before(it)
<1>1. /\ DotsOf(it) \in Seq({Dot, DotDot}) /\ D \in Nat
      /\ D = IF it.cookie < 2 THEN 2 - it.cookie ELSE 0
  BY DotsOfIs
<1>2. /\ B = D + Len(it.head) /\ Len(Yields(it)) = B + Len(it.rest) /\ Len(it.head) \in Nat
      /\ \A i \in 1..D : Yields(it)[i].name = DotsOf(it)[i]
      /\ \A i \in (D + 1)..B : Yields(it)[i] = it.head[i - D]
      /\ \A i \in 1..Len(it.rest) : Yields(it)[B + i].name = it.rest[i]
  BY YieldsAre, YieldsNames, SMTT(30)
<1>3. Entries[d] \in Seq(Name) /\ Len(Entries[d]) \in Nat
  BY DirectoryIs
<1>4. /\ Len(it.rest) = Len(Entries[d]) - j
      /\ \A i \in 1..(Len(Entries[d]) - j) : it.rest[i] = Entries[d][j + i]
  BY <1>3, DropIs
<1>5. B \in Nat /\ k \in Nat /\ k >= 1
  BY <1>1, <1>2, <1>3, <1>4, SMTT(30)
<1>6. it.cookie + k - 1 < 2 => k <= D
  BY <1>1, <1>5
<1>9. D = Len(DotsOf(it)) /\ (D > 0 => j = 0) /\ B <= D + 1 /\ (B > D => Len(it.head) = 1)
  <2> DEFINE H == Len(it.head)
  <2>1. B = D + H /\ H \in Nat /\ H <= 1
    BY <1>2
  <2> HIDE DEF H, D, B
  <2>2. B <= D + 1 /\ (B > D => H = 1)
    BY <1>1, <2>1
  <2>3. D > 0 => j = 0
    BY <1>1
  <2> QED
    BY <2>2, <2>3 DEF H, D
<1> HIDE DEF D, B
<1>7. CASE k <= B
  <2>1. RestAfter(it, k) = it.rest
    BY <1>5, <1>7, DropNone DEF RestAfter, B
  <2>2. CASE k <= D
    <3>1. j = 0 /\ k \in 1..D
      BY <1>1, <1>5, <1>9, <2>2
    <3>2. Yields(it)[k].name = DotsOf(it)[k]
      BY <1>2, <3>1
    <3>3. DotsOf(it)[k] \in {Dot, DotDot}
      BY <1>1, <1>9, <3>1, ElementOfSeq
    <3> QED
      BY <2>1, <3>1, <3>2, <3>3 DEF EntryAt
  <2>3. CASE k > D
    <3>1. k - D = 1 /\ Len(it.head) = 1 /\ k \in (D + 1)..B
      BY <1>1, <1>5, <1>7, <1>9, <2>3
    <3>2. Yields(it)[k] = it.head[1]
      BY <1>2, <3>1
    <3>3. EntryAt(Yields(it)[k].name, d, j) /\ ~(it.cookie + k - 1 < 2)
      BY <1>1, <1>5, <1>6, <2>3, <3>1, <3>2
    <3> QED
      BY <2>1, <3>3
  <2> QED
    BY <1>1, <1>5, <2>2, <2>3
<1>8. CASE k > B
  <2> DEFINE m == k - B
             i == j + m
  <2>1. m \in 1..Len(it.rest) /\ k = B + m
    BY <1>2, <1>3, <1>4, <1>5, <1>8, SMTT(30)
  <2>2. RestAfter(it, k) = Drop(it.rest, m)
    BY <1>8 DEF RestAfter, B
  <2> HIDE DEF m
  <2>3. i \in 1..Len(Entries[d]) /\ m \in 0..(Len(Entries[d]) - j)
    BY <1>3, <1>4, <2>1
  <2>4. RestAfter(it, k) = Drop(Entries[d], i)
    BY <1>3, <2>2, <2>3, DropTwice
  <2>5. Yields(it)[k].name = Entries[d][i]
    <3>1. Yields(it)[k].name = it.rest[m]
      BY ONLY <1>2, <2>1
    <3> QED
      BY <1>4, <2>1, <3>1
  <2>6. EntryAt(Yields(it)[k].name, d, i)
    BY <2>3, <2>5 DEF EntryAt
  <2>7. ~(it.cookie + k - 1 < 2)
    BY <1>1, <1>2, <1>5, <1>6, <1>8
  <2> HIDE DEF i
  <2> QED
    BY <1>3, <2>3, <2>4, <2>6, <2>7
<1> QED
  BY <1>5, <1>7, <1>8
(* The iterator of a call goes on from a place of some directory. *)
LEMMA IteratorTogether ==
  ASSUME TogetherInv, NEW fd \in Fd, NEW cookie \in Nat, dir[fd] # None
  PROVE  LET it == Iterator(fd, cookie) IN
         \E d \in Dir : \E j \in 0..Len(Entries[d]) :
           /\ it.rest = Drop(Entries[d], j) /\ (it.cookie < 2 => j = 0)
           /\ Len(it.head) <= 1 /\ (Len(it.head) = 1 => EntryAt(it.head[1].name, d, j))
<1> DEFINE it == Iterator(fd, cookie)
<1>1. CASE Resumes(fd, cookie)
  <2>1. it.cookie = cookie /\ it.rest = cache.rest /\ Len(it.head) = 1 /\ it.head[1] = cache.entry
    BY <1>1, IteratorIs DEF TogetherInv
  <2>2. cache # None /\ cache.cookie = cookie
    BY <1>1 DEF Resumes
  <2>3. PICK d \in Dir : \E j \in 0..Len(Entries[d]) : CachePlace(d, j)
    BY <2>2 DEF TogetherInv
  <2>4. PICK j \in 0..Len(Entries[d]) : CachePlace(d, j)
    BY <2>3
  <2> HIDE DEF it
  <2>5. /\ it.rest = Drop(Entries[d], j) /\ (it.cookie < 2 => j = 0)
        /\ Len(it.head) <= 1 /\ (Len(it.head) = 1 => EntryAt(it.head[1].name, d, j))
    BY <2>1, <2>2, <2>4 DEF CachePlace
  <2> QED
    BY <2>5 DEF it
<1>2. CASE ~Resumes(fd, cookie)
  <2>1. dir[fd] \in Dir /\ Entries[dir[fd]] \in Seq(Name)
    BY DirectoryIs DEF TogetherInv, Types
  <2>2. it.cookie = 0 /\ it.rest = Entries[dir[fd]] /\ Len(it.head) = 0
    BY <1>2, IteratorIs DEF TogetherInv
  <2>3. Drop(Entries[dir[fd]], 0) = Entries[dir[fd]] /\ 0 \in 0..Len(Entries[dir[fd]])
    BY <2>1, DropNone
  <2> QED
    BY <2>1, <2>2, <2>3
<1> QED
  BY <1>1, <1>2

LEMMA FillsTogether ==
  ASSUME TogetherInv, NEW fd \in Fd, NEW cookie \in Nat, NEW len \in Nat,
         ReaddirFills(fd, cookie, len)
  PROVE  TogetherInv'
<1> DEFINE it == Iterator(fd, cookie)
           skipped == cookie - it.cookie
           n == Least(Len(Drop(Yields(it), skipped)), (len + 1) \div 2)
           k == skipped + n
<1>1. dir[fd] # None /\ dir' = dir /\ it.cookie \in 0..cookie
  BY FillsIs DEF TogetherInv
<1>2. CASE cache' = None
  BY <1>1, <1>2 DEF TogetherInv, Types
<1>3. CASE cache' # None
  <2>1. /\ k \in 1..Len(Yields(it)) /\ Yields(it) \in Seq(Dirent)
        /\ cache' = [for_fd |-> fd, cookie |-> it.cookie + k - 1,
                     entry |-> Yields(it)[k], rest |-> RestAfter(it, k)]
    BY <1>3, FillsIs DEF TogetherInv
  <2>2. it.head \in Seq(Dirent) /\ it.rest \in Seq(Name)
    BY <1>1, IteratorIs DEF TogetherInv
  <2>3. PICK d \in Dir : \E j \in 0..Len(Entries[d]) :
          /\ it.rest = Drop(Entries[d], j) /\ (it.cookie < 2 => j = 0)
          /\ Len(it.head) <= 1 /\ (Len(it.head) = 1 => EntryAt(it.head[1].name, d, j))
    BY <1>1, IteratorTogether
  <2> HIDE DEF it, n, k
  <2>4. PICK i \in 0..Len(Entries[d]) :
          /\ RestAfter(it, k) = Drop(Entries[d], i)
          /\ EntryAt(Yields(it)[k].name, d, i)
          /\ it.cookie + k - 1 < 2 => i = 0
    BY <1>1, <2>1, <2>2, <2>3, YieldsTogether
  <2>5. Drop(Entries[d], i) \in Seq(Name)
    BY DirectoryIs, DropIs
  <2>6. it.cookie + k - 1 \in Nat /\ Yields(it)[k] \in Dirent
    BY <1>1, <2>1
  <2>7. Types'
    BY <1>1, <2>1, <2>4, <2>5, <2>6 DEF TogetherInv, Types
  <2>8. CachePlace(d, i)'
    BY <2>1, <2>4 DEF CachePlace, EntryAt
  <2> QED
    BY <2>7, <2>8 DEF TogetherInv
<1> QED
  BY <1>2, <1>3

LEMMA ReaddirTogether ==
  ASSUME TogetherInv, NEW fd \in Fd, NEW cookie \in Nat, NEW len \in Nat, Readdir(fd, cookie, len)
  PROVE  TogetherInv'
<1>1. CASE ReaddirFills(fd, cookie, len)
  BY <1>1, FillsTogether
<1>2. CASE ReaddirFails(fd, cookie, len) \/ ReaddirPastEnd(fd, cookie, len)
  BY <1>2 DEF ReaddirFails, ReaddirPastEnd, TogetherInv, Types
<1> QED
  BY <1>1, <1>2 DEF Readdir

(* The other calls drop the cache or leave it. *)
LEMMA OthersTogether ==
  ASSUME TogetherInv, dir' \in [Fd -> Dir \cup {None}], cache' \in {cache, None}
  PROVE  TogetherInv'
<1>1. CASE cache' = None
  BY <1>1 DEF TogetherInv, Types
<1>2. CASE cache' # None
  <2>1. cache' = cache
    BY <1>2
  <2>2. Types'
    BY <2>1 DEF TogetherInv, Types
  <2>3. \A d, i : CachePlace(d, i)' <=> CachePlace(d, i)
    BY <2>1 DEF CachePlace, EntryAt
  <2> QED
    BY <2>1, <2>2, <2>3 DEF TogetherInv
<1> QED
  BY <1>1, <1>2

LEMMA CookiesAreNat == Cookies \subseteq Nat
<1>1. \A d \in Dir : Len(Listing(d)) \in Nat
  BY DirectoryIs
<1> QED
  BY <1>1 DEF Cookies

LEMMA NextTogether == TogetherInv /\ [Next]_vars => TogetherInv'
<1> SUFFICES ASSUME TogetherInv, [Next]_vars PROVE TogetherInv'
  OBVIOUS
<1>1. ASSUME NEW fd \in Fd, NEW cookie \in Cookies, NEW len \in 0..MaxLen, Readdir(fd, cookie, len)
      PROVE  TogetherInv'
  <2>1. cookie \in Nat /\ len \in Nat
    BY CookiesAreNat, EntriesAssumption
  <2> QED
    BY <1>1, <2>1, ReaddirTogether
<1>2. ASSUME NEW fd \in Fd, FdClose(fd) PROVE TogetherInv'
  BY <1>2, OthersTogether DEF FdClose, TogetherInv, Types
<1>3. ASSUME NEW fd \in Fd, NEW d \in Dir, PathOpen(fd, d) PROVE TogetherInv'
  BY <1>3, OthersTogether DEF PathOpen, TogetherInv, Types
<1>4. ASSUME NEW from \in Fd, NEW to \in Fd, FdRenumber(from, to) PROVE TogetherInv'
  <2>1. dir' \in [Fd -> Dir \cup {None}]
    BY <1>4 DEF FdRenumber, TogetherInv, Types
  <2> QED
    BY <1>4, <2>1, OthersTogether DEF FdRenumber
<1>5. CASE UNCHANGED vars
  BY <1>5, OthersTogether DEF vars, TogetherInv, Types
<1> QED
  BY <1>1, <1>2, <1>3, <1>4, <1>5 DEF Next, Reopen

LEMMA InitTogether == Init => TogetherInv
BY DEF Init, TogetherInv, Types

LEMMA TogetherFollows == TogetherInv => CacheTogether
BY DEF TogetherInv, CachePlace, EntryAt, CacheTogether
-----------------------------------------------------------------------------
(* Disciplined guests *)

LEMMA DropListing ==
  ASSUME NEW d \in Dir, NEW k \in 2..Len(Listing(d))
  PROVE  Drop(Listing(d), k) = Drop(Entries[d], k - 2)
<1> DEFINE E == Entries[d]
           L == Listing(d)
<1>1. /\ E \in Seq(Name) /\ L \in Seq(Name) /\ Len(L) = Len(E) + 2 /\ Len(E) \in Nat
      /\ \A i \in 1..Len(E) : L[2 + i] = E[i]
  BY DirectoryIs
<1> HIDE DEF E, L
<1>2. k \in 2..Len(L) /\ k \in 0..Len(L)
  <2>1. k \in 2..Len(L)
    BY DEF L
  <2> QED
    BY <1>1, <2>1
<1>3. /\ Drop(L, k) \in Seq(Name) /\ Len(Drop(L, k)) = Len(L) - k
      /\ \A i \in 1..(Len(L) - k) : Drop(L, k)[i] = L[k + i]
  <2>1. L \in Seq(Name) /\ k \in 0..Len(L)
    BY <1>1, <1>2
  <2> QED
    BY ONLY <2>1, DropIs
<1> DEFINE h == k - 2
<1>4. h \in 0..Len(E) /\ Len(E) - h = Len(L) - k
  BY <1>1, <1>2
<1> HIDE DEF h
<1>5. /\ Drop(E, h) \in Seq(Name) /\ Len(Drop(E, h)) = Len(E) - h
      /\ \A i \in 1..(Len(E) - h) : Drop(E, h)[i] = E[h + i]
  BY <1>1, <1>4, DropIs
<1>6. ASSUME NEW i \in 1..(Len(L) - k) PROVE Drop(L, k)[i] = Drop(E, h)[i]
  <2>1. h + i \in 1..Len(E) /\ 2 + (h + i) = k + i
    BY <1>1, <1>2 DEF h
  <2>2. L[k + i] = E[h + i]
    BY <1>1, <2>1
  <2> QED
    BY <1>3, <1>4, <1>5, <2>2
<1>7. Drop(L, k) = Drop(E, h)
  BY <1>3, <1>4, <1>5, <1>6, SeqEqual
<1> QED
  BY <1>7 DEF h, E, L

(* A new stream, with the dots in front, is the listing. *)
LEMMA FreshYields ==
  ASSUME NEW d \in Dir, NEW it, it.cookie = 0, it.head \in Seq(Dirent), Len(it.head) = 0,
         it.rest = Entries[d]
  PROVE  /\ Yields(it) = Numbered(Listing(d), 0) /\ Len(Yields(it)) = Len(Listing(d))
         /\ \A k \in 2..Len(Listing(d)) : RestAfter(it, k) = Drop(Listing(d), k)
<1>1. /\ Entries[d] \in Seq(Name) /\ Listing(d) \in Seq(Name) /\ Len(Entries[d]) \in Nat
      /\ Len(Listing(d)) = Len(Entries[d]) + 2
      /\ Listing(d)[1] = Dot /\ Listing(d)[2] = DotDot
      /\ \A i \in 1..Len(Entries[d]) : Listing(d)[2 + i] = Entries[d][i]
  BY DirectoryIs
<1>2. DotsOf(it) = Dots /\ Len(DotsOf(it)) = 2 /\ DotsOf(it)[1] = Dot /\ DotsOf(it)[2] = DotDot
  <2>1. it.cookie \in Nat /\ it.cookie < 2
    OBVIOUS
  <2>2. DotsOf(it) = Dots
    BY <2>1, DotsOfIs
  <2> QED
    BY <2>2 DEF Dots
<1>3. /\ Yields(it) \in Seq(Dirent)
      /\ Before(it) = 2 /\ Len(Yields(it)) = 2 + Len(Entries[d])
      /\ \A i \in 1..2 : Yields(it)[i] = [name |-> DotsOf(it)[i], next |-> i]
      /\ \A i \in 1..Len(Entries[d]) : Yields(it)[2 + i] = [name |-> Entries[d][i], next |-> 2 + i]
  <2>1. it.rest \in Seq(Name) /\ it.cookie \in Nat
    BY <1>1
  <2>2. Before(it) = 2
    <3>1. Before(it) = Len(DotsOf(it)) + Len(it.head)
      BY DEF Before
    <3> QED
      BY ONLY <1>2, <3>1, Len(it.head) = 0
  <2>3. Yields(it) \in Seq(Dirent) /\ Len(Yields(it)) = 2 + Len(Entries[d])
    BY <2>1, <2>2, YieldsAre
  <2>4. ASSUME NEW i \in 1..2 PROVE Yields(it)[i] = [name |-> DotsOf(it)[i], next |-> i]
    <3>1. Yields(it)[i] = [name |-> DotsOf(it)[i], next |-> it.cookie + i]
      BY <1>2, <2>1, YieldsAre
    <3> QED
      BY <3>1
  <2>5. ASSUME NEW i \in 1..Len(Entries[d])
        PROVE  Yields(it)[2 + i] = [name |-> Entries[d][i], next |-> 2 + i]
    <3>1. Yields(it)[Before(it) + i] = [name |-> it.rest[i], next |-> it.cookie + Before(it) + i]
      BY <2>1, YieldsAre
    <3> QED
      BY <2>2, <3>1
  <2> QED
    BY <2>2, <2>3, <2>4, <2>5
<1>4. /\ Numbered(Listing(d), 0) \in Seq(Dirent)
      /\ Len(Numbered(Listing(d), 0)) = Len(Listing(d))
      /\ \A i \in 1..Len(Listing(d)) : Numbered(Listing(d), 0)[i] = [name |-> Listing(d)[i], next |-> 0 + i]
  BY <1>1, NumberedIs
<1>5. ASSUME NEW i \in 1..Len(Listing(d)) PROVE Yields(it)[i] = Numbered(Listing(d), 0)[i]
  <2>1. Numbered(Listing(d), 0)[i] = [name |-> Listing(d)[i], next |-> i]
    BY <1>4
  <2>2. CASE i \in 1..2
    <3>1. Yields(it)[i] = [name |-> DotsOf(it)[i], next |-> i]
      BY <1>3, <2>2
    <3>2. DotsOf(it)[i] = Listing(d)[i]
      BY <1>1, <1>2, <2>2
    <3> QED
      BY <2>1, <3>1, <3>2
  <2>3. CASE i > 2
    <3> DEFINE j == i - 2
    <3>1. j \in 1..Len(Entries[d]) /\ i = 2 + j
      BY <1>1, <2>3
    <3> HIDE DEF j
    <3>2. Yields(it)[i] = [name |-> Entries[d][j], next |-> i]
      BY <1>3, <3>1
    <3>3. Listing(d)[i] = Entries[d][j]
      BY <1>1, <3>1
    <3> QED
      BY <2>1, <3>2, <3>3
  <2> QED
    BY <1>1, <2>2, <2>3
<1>6. Yields(it) = Numbered(Listing(d), 0)
  BY <1>1, <1>3, <1>4, <1>5, SeqEqual
<1>7. ASSUME NEW k \in 2..Len(Listing(d)) PROVE RestAfter(it, k) = Drop(Listing(d), k)
  <2>1. RestAfter(it, k) = Drop(Entries[d], k - 2)
    BY <1>1, <1>3 DEF RestAfter
  <2> QED
    BY <2>1, DropListing
<1> QED
  BY <1>1, <1>3, <1>6, <1>7
(* So is what is left of it, from the cached entry on. *)
LEMMA ResumedYields ==
  ASSUME NEW d \in Dir, NEW c \in 2..(Len(Listing(d)) - 1), NEW it, it.cookie = c,
         it.head \in Seq(Dirent), Len(it.head) = 1,
         it.head[1] = [name |-> Listing(d)[c + 1], next |-> c + 1],
         it.rest = Drop(Listing(d), c + 1)
  PROVE  /\ Yields(it) = Drop(Numbered(Listing(d), 0), c) /\ Len(Yields(it)) = Len(Listing(d)) - c
         /\ \A k \in 1..(Len(Listing(d)) - c) : RestAfter(it, k) = Drop(Listing(d), c + k)
<1> DEFINE L == Listing(d)
           N == Numbered(L, 0)
<1>1. L \in Seq(Name) /\ Len(L) \in Nat
  BY DirectoryIs
<1>2. c \in Nat /\ c >= 2 /\ c + 1 \in 0..Len(L) /\ c \in 0..Len(L)
  BY <1>1
<1>3. N \in Seq(Dirent) /\ Len(N) = Len(L) /\ \A i \in 1..Len(L) : N[i] = [name |-> L[i], next |-> i]
  <2>1. \A i \in 1..Len(L) : N[i] = [name |-> L[i], next |-> 0 + i]
    BY <1>1, NumberedIs
  <2> QED
    BY <1>1, <2>1, NumberedIs
<1> HIDE DEF N
<1>4. /\ Drop(N, c) \in Seq(Dirent) /\ Len(Drop(N, c)) = Len(L) - c
      /\ \A i \in 1..(Len(L) - c) : Drop(N, c)[i] = N[c + i]
  <2>1. N \in Seq(Dirent) /\ c \in 0..Len(N) /\ Len(N) = Len(L)
    BY <1>2, <1>3
  <2> QED
    BY ONLY <2>1, DropIs
<1>5. /\ it.rest \in Seq(Name) /\ Len(it.rest) = Len(L) - (c + 1)
      /\ \A i \in 1..(Len(L) - (c + 1)) : it.rest[i] = L[(c + 1) + i]
  BY <1>1, <1>2, DropIs
<1>6. Len(DotsOf(it)) = 0 /\ Before(it) = 1
  <2>1. Len(DotsOf(it)) = 0
    BY <1>2, DotsOfIs
  <2> QED
    BY <2>1 DEF Before
<1>7. /\ Yields(it) \in Seq(Dirent) /\ Len(Yields(it)) = Len(L) - c
      /\ Yields(it)[1] = it.head[1]
      /\ \A i \in 1..Len(it.rest) : Yields(it)[1 + i] = [name |-> it.rest[i], next |-> (c + 1) + i]
  <2>1. it.cookie \in Nat /\ it.rest \in Seq(Name)
    BY <1>2, <1>5
  <2>2. Yields(it) \in Seq(Dirent) /\ Len(Yields(it)) = 1 + Len(it.rest)
    BY <1>6, <2>1, YieldsAre
  <2>3. Yields(it)[1] = it.head[1]
    <3>1. \A i \in (Len(DotsOf(it)) + 1)..Before(it) : Yields(it)[i] = it.head[i - Len(DotsOf(it))]
      BY <2>1, YieldsAre
    <3> QED
      BY ONLY <1>6, <3>1
  <2>4. ASSUME NEW i \in 1..Len(it.rest)
        PROVE  Yields(it)[1 + i] = [name |-> it.rest[i], next |-> (c + 1) + i]
    <3>1. Yields(it)[Before(it) + i] = [name |-> it.rest[i], next |-> it.cookie + Before(it) + i]
      BY <2>1, YieldsAre
    <3> QED
      BY <1>6, <3>1
  <2> QED
    BY <1>1, <1>2, <1>5, <1>6, <2>2, <2>3, <2>4
<1> HIDE DEF L
<1>8. ASSUME NEW i \in 1..(Len(L) - c) PROVE Yields(it)[i] = Drop(N, c)[i]
  <2>1. c + i \in 1..Len(L)
    BY <1>1, <1>2
  <2>2. Drop(N, c)[i] = [name |-> L[c + i], next |-> c + i]
    BY <1>3, <1>4, <2>1
  <2>3. CASE i = 1
    BY <1>7, <2>2, <2>3 DEF L
  <2>4. CASE i # 1
    <3> DEFINE j == i - 1
    <3>1. j \in 1..Len(it.rest) /\ i = 1 + j /\ (c + 1) + j = c + i
      BY <1>1, <1>2, <1>5, <2>4
    <3> HIDE DEF j
    <3>2. Yields(it)[i] = [name |-> it.rest[j], next |-> c + i]
      BY <1>7, <3>1
    <3>3. it.rest[j] = L[c + i]
      BY <1>5, <3>1
    <3> QED
      BY <2>2, <3>2, <3>3
  <2> QED
    BY <2>3, <2>4
<1>9. Yields(it) = Drop(N, c)
  BY <1>4, <1>7, <1>8, SeqEqual
<1>10. ASSUME NEW k \in 1..(Len(L) - c) PROVE RestAfter(it, k) = Drop(L, c + k)
  <2> DEFINE m == k - 1
  <2>1. m \in 0..(Len(L) - (c + 1)) /\ (c + 1) + m = c + k
    BY ONLY <1>1, <1>2, <1>10
  <2>2. RestAfter(it, k) = Drop(it.rest, m)
    BY <1>1, <1>2, <1>6 DEF RestAfter
  <2> HIDE DEF m
  <2>3. Drop(Drop(L, c + 1), m) = Drop(L, (c + 1) + m)
    BY <1>1, <1>2, <2>1, DropTwice
  <2> QED
    BY <2>1, <2>2, <2>3 DEF L
<1> QED
  BY <1>7, <1>9, <1>10 DEF L, N
(* Disciplined, an iterator yields the listing from its cookie on. *)
LEMMA ItemsAreListing ==
  ASSUME Types, CacheAhead, CacheCurrent, NEW fd \in Fd, NEW cookie \in Nat, dir[fd] # None,
         cookie - Iterator(fd, cookie).cookie <= Len(Yields(Iterator(fd, cookie)))
  PROVE  LET it == Iterator(fd, cookie)
             skipped == cookie - it.cookie
             all == Listing(dir[fd])
         IN
         /\ cookie <= Len(all)
         /\ Drop(Yields(it), skipped) = Drop(Numbered(all, 0), cookie)
         /\ \A m \in 1..(Len(all) - cookie) :
              cookie + m >= 2 => RestAfter(it, skipped + m) = Drop(all, cookie + m)
<1> DEFINE it == Iterator(fd, cookie)
           d == dir[fd]
           all == Listing(d)
<1>1. d \in Dir /\ all \in Seq(Name) /\ Len(all) \in Nat
  BY DirectoryIs DEF Types
<1>2. CASE Resumes(fd, cookie)
  <2>1. /\ it.cookie = cookie /\ it.rest = cache.rest /\ it.head \in Seq(Dirent)
        /\ Len(it.head) = 1 /\ it.head[1] = cache.entry
    BY <1>2, IteratorIs
  <2>2. cache # None /\ cache.for_fd = fd /\ cache.cookie = cookie
    BY <1>2 DEF Resumes
  <2> HIDE DEF it
  <2>3. /\ cookie \in 2..(Len(all) - 1)
        /\ it.head[1] = [name |-> all[cookie + 1], next |-> cookie + 1]
        /\ it.rest = Drop(all, cookie + 1)
    BY <2>1, <2>2 DEF CacheAhead, CacheCurrent
  <2>4. /\ Yields(it) = Drop(Numbered(all, 0), cookie) /\ Len(Yields(it)) = Len(all) - cookie
        /\ \A k \in 1..(Len(all) - cookie) : RestAfter(it, k) = Drop(all, cookie + k)
    BY <1>1, <2>1, <2>3, ResumedYields
  <2>5. Yields(it) \in Seq(Dirent)
    <3>1. it.rest \in Seq(Name)
      BY <2>1, <2>2 DEF Types
    <3> QED
      BY <2>1, <3>1, YieldsAre
  <2>6. cookie - it.cookie = 0 /\ Drop(Yields(it), 0) = Yields(it)
    BY <2>1, <2>5, DropNone
  <2>7. \A m \in 1..(Len(all) - cookie) : 0 + m = m
    BY <1>1
  <2>8. cookie <= Len(all)
    BY <1>1, <2>3
  <2> HIDE DEF all
  <2> QED
    BY <2>4, <2>6, <2>7, <2>8 DEF it, all
<1>3. CASE ~Resumes(fd, cookie)
  <2>1. it.cookie = 0 /\ it.rest = Entries[d] /\ it.head \in Seq(Dirent) /\ Len(it.head) = 0
    BY <1>3, IteratorIs
  <2> HIDE DEF it
  <2>2. /\ Yields(it) = Numbered(all, 0) /\ Len(Yields(it)) = Len(all)
        /\ \A k \in 2..Len(all) : RestAfter(it, k) = Drop(all, k)
    BY <1>1, <2>1, FreshYields
  <2>3. cookie - it.cookie = cookie /\ cookie <= Len(Yields(it))
    BY <2>1 DEF it
  <2>4. ASSUME NEW m \in 1..(Len(all) - cookie), cookie + m >= 2
        PROVE  RestAfter(it, cookie + m) = Drop(all, cookie + m)
    <3>1. cookie + m \in 2..Len(all)
      BY <1>1, <2>4
    <3> QED
      BY <2>2, <3>1
  <2> QED
    BY <2>2, <2>3, <2>4 DEF it
<1> QED
  BY <1>2, <1>3

(* A disciplined fd_readdir returns the listing, and its cache goes on.    *)
LEMMA FillsDisciplined ==
  ASSUME Types, CacheAhead, CacheCurrent, NEW fd \in Fd, NEW cookie \in Nat, NEW len \in Nat,
         HoldsDots(cookie, len), ReaddirFills(fd, cookie, len)
  PROVE  LET all == Listing(dir[fd])
             items == Drop(Numbered(all, 0), cookie)
         IN
         /\ CacheAhead' /\ CacheCurrent'
         /\ dir[fd] # None /\ dir' = dir /\ cookie <= Len(all)
         /\ \E n \in 0..(Len(all) - cookie) :
              /\ ret' = Result(fd, cookie, len, "SUCCESS", SubSeq(items, 1, n), IsFull(n, len))
              /\ n < Len(all) - cookie => len <= 2 * n /\ 2 * n <= len + 1
<1> DEFINE it == Iterator(fd, cookie)
           skipped == cookie - it.cookie
           items == Drop(Yields(it), skipped)
           n == Least(Len(items), (len + 1) \div 2)
           all == Listing(dir[fd])
           N == Numbered(all, 0)
<1>1. /\ it.cookie \in 0..cookie /\ skipped \in 0..Len(Yields(it)) /\ dir[fd] # None /\ dir' = dir
      /\ items \in Seq(Dirent) /\ n \in 0..Len(items)
      /\ n < Len(items) => len <= 2 * n /\ 2 * n <= len + 1
      /\ ret' = Result(fd, cookie, len, "SUCCESS", SubSeq(items, 1, n), IsFull(n, len))
  BY FillsIs
<1>2. cache' # None =>
        /\ n > 0 /\ IsFull(n, len) /\ items[n] = Yields(it)[skipped + n]
        /\ cache' = [for_fd |-> fd, cookie |-> it.cookie + (skipped + n) - 1,
                     entry |-> Yields(it)[skipped + n], rest |-> RestAfter(it, skipped + n)]
  BY FillsIs
<1>3. /\ cookie <= Len(all) /\ items = Drop(N, cookie)
      /\ \A m \in 1..(Len(all) - cookie) :
           cookie + m >= 2 => RestAfter(it, skipped + m) = Drop(all, cookie + m)
  <2>1. skipped <= Len(Yields(it))
    BY DEF ReaddirFills
  <2> QED
    BY <1>1, <2>1, ItemsAreListing
<1>4. all \in Seq(Name) /\ Len(all) \in Nat /\ dir[fd] \in Dir
  BY <1>1, DirectoryIs DEF Types
<1> HIDE DEF n, items, skipped, it, N
<1>5. /\ N \in Seq(Dirent) /\ Len(N) = Len(all)
      /\ \A i \in 1..Len(all) : N[i] = [name |-> all[i], next |-> 0 + i]
  BY <1>4, NumberedIs DEF N
<1>6. /\ Len(items) = Len(all) - cookie
      /\ \A i \in 1..(Len(all) - cookie) : items[i] = N[cookie + i]
  <2>1. N \in Seq(Dirent) /\ cookie \in 0..Len(N) /\ Len(N) = Len(all)
    BY <1>3, <1>4, <1>5
  <2> QED
    BY <1>3, <2>1, DropIs
<1>7. CASE cache' # None
  <2>1. n > 0 /\ len <= 2 * n /\ n \in 1..(Len(all) - cookie)
    BY <1>1, <1>2, <1>6, <1>7 DEF IsFull
  <2>2. cookie + n >= 3 /\ cookie + n \in 3..Len(all)
    BY <1>4, <2>1 DEF HoldsDots
  <2>3. it.cookie + (skipped + n) - 1 = cookie + n - 1
    <3>1. it.cookie \in Int /\ n \in Int /\ skipped = cookie - it.cookie
      BY <1>1, <2>1 DEF skipped
    <3> QED
      BY ONLY <3>1, cookie \in Nat
  <2>4. Yields(it)[skipped + n] = [name |-> all[cookie + n], next |-> cookie + n]
    <3>1. Yields(it)[skipped + n] = N[cookie + n]
      BY <1>2, <1>6, <1>7, <2>1
    <3> QED
      BY <1>5, <2>2, <3>1
  <2>5. RestAfter(it, skipped + n) = Drop(all, cookie + n)
    BY <1>3, <2>1, <2>2
  <2>6. /\ cache'.for_fd = fd /\ cache'.cookie = cookie + n - 1
        /\ cache'.entry = [name |-> all[cookie + n], next |-> cookie + n]
        /\ cache'.rest = Drop(all, cookie + n)
    BY <1>2, <1>7, <2>3, <2>4, <2>5
  <2>7. cache'.cookie + 1 = cookie + n /\ cache'.cookie \in 2..(Len(all) - 1)
    <3>1. n \in Int /\ cache'.cookie = cookie + n - 1
      BY <2>1, <2>6
    <3> QED
      BY ONLY <1>4, <2>2, <3>1, cookie \in Nat
  <2>8. CacheAhead'
    BY <1>1, <2>6, <2>7 DEF CacheAhead
  <2>9. CacheCurrent'
    BY <1>1, <2>6, <2>7 DEF CacheCurrent
  <2> QED
    BY <1>1, <1>3, <1>6, <2>8, <2>9 DEF N
<1>8. CASE cache' = None
  <2>1. CacheAhead' /\ CacheCurrent'
    BY <1>8 DEF CacheAhead, CacheCurrent
  <2> QED
    BY <1>1, <1>3, <1>6, <2>1 DEF N
<1> QED
  BY <1>7, <1>8
(* The rest of a listing, numbered. *)
LEMMA ItemsAre ==
  ASSUME NEW d \in Dir, NEW cookie \in 0..Len(Listing(d))
  PROVE  /\ Drop(Numbered(Listing(d), 0), cookie) \in Seq(Dirent)
         /\ Len(Drop(Numbered(Listing(d), 0), cookie)) = Len(Listing(d)) - cookie
         /\ \A i \in 1..(Len(Listing(d)) - cookie) :
              /\ Drop(Numbered(Listing(d), 0), cookie)[i].name = Listing(d)[cookie + i]
              /\ Drop(Numbered(Listing(d), 0), cookie)[i].next = cookie + i
<1> DEFINE L == Listing(d)
           N == Numbered(L, 0)
<1>1. L \in Seq(Name) /\ Len(L) \in Nat
  BY DirectoryIs
<1>2. /\ N \in Seq(Dirent) /\ Len(N) = Len(L)
      /\ \A i \in 1..Len(L) : N[i].name = L[i] /\ N[i].next = 0 + i
  BY <1>1, NumberedIs
<1>3. cookie \in 0..Len(N) /\ cookie \in Nat
  BY <1>1, <1>2
<1> HIDE DEF N, L
<1>4. /\ Drop(N, cookie) \in Seq(Dirent) /\ Len(Drop(N, cookie)) = Len(N) - cookie
      /\ \A i \in 1..(Len(N) - cookie) : Drop(N, cookie)[i] = N[cookie + i]
  BY <1>2, <1>3, DropIs
<1>5. ASSUME NEW i \in 1..(Len(L) - cookie)
      PROVE  Drop(N, cookie)[i].name = L[cookie + i] /\ Drop(N, cookie)[i].next = cookie + i
  <2>1. cookie + i \in 1..Len(L) /\ 0 + (cookie + i) = cookie + i
    BY <1>1, <1>3
  <2> QED
    BY <1>2, <1>4, <2>1
<1> QED
  BY <1>2, <1>4, <1>5 DEF N, L

LEMMA ListsFollow ==
  ASSUME NEW fd \in Fd, dir[fd] \in Dir, dir' = dir, NEW cookie \in Nat, NEW len \in Nat,
         cookie <= Len(Listing(dir[fd])),
         NEW n \in 0..(Len(Listing(dir[fd])) - cookie),
         ret' = Result(fd, cookie, len, "SUCCESS",
                       SubSeq(Drop(Numbered(Listing(dir[fd]), 0), cookie), 1, n), IsFull(n, len)),
         n < Len(Listing(dir[fd])) - cookie => len <= 2 * n
  PROVE  ListsDirectories' /\ Len(ret'.entries) = n
<1> DEFINE all == Drop(Numbered(Listing(dir[fd]), 0), cookie)
           some == SubSeq(all, 1, n)
<1>1. Len(Listing(dir[fd])) \in Nat /\ cookie \in 0..Len(Listing(dir[fd]))
  BY DirectoryIs
<1>2. all \in Seq(Dirent) /\ Len(all) = Len(Listing(dir[fd])) - cookie
  BY <1>1, ItemsAre
<1> HIDE DEF all
<1>3. Len(some) = n
  <2>1. n \in Nat /\ \A i \in 1..n : all[i] \in Dirent
    BY <1>1, <1>2
  <2> QED
    BY ONLY <2>1, SubSeqProperties
<1>4. /\ ret'.fd = fd /\ ret'.cookie = cookie /\ ret'.len = len /\ ret'.entries = some
      /\ ret'.full = (len <= 2 * n)
  BY DEF Result, IsFull, all
<1> HIDE DEF some
<1>5. all = Drop(Numbered(Listing(dir'[ret'.fd]), 0), ret'.cookie)
  BY <1>4 DEF all
<1>6. /\ n <= Len(all)
      /\ ~(len <= 2 * n) => n = Len(all)
  BY <1>1, <1>2
<1>7. ~ret'.full => n = Len(all)
  BY <1>4, <1>6
<1>8. /\ Len(ret'.entries) <= Len(all) /\ ret'.entries = SubSeq(all, 1, Len(ret'.entries))
      /\ ret'.full = (ret'.len <= 2 * Len(ret'.entries))
      /\ ~ret'.full => Len(ret'.entries) = Len(all)
  BY <1>3, <1>4, <1>6, <1>7 DEF some
<1> QED
  BY <1>3, <1>4, <1>5, <1>8 DEF ListsDirectories

LEMMA BigReadDisciplined ==
  ASSUME Types, CacheAhead, CacheCurrent, NEW fd \in Fd, NEW cookie \in Nat, NEW len \in Nat,
         HoldsDots(cookie, len), InListing(fd, cookie), Readdir(fd, cookie, len)
  PROVE  CacheAhead' /\ CacheCurrent' /\ ListsDirectories' /\ dir' = dir
<1>1. CASE ReaddirFails(fd, cookie, len)
  <2>1. cache' = None /\ dir' = dir /\ ret'.errno # "SUCCESS"
    BY <1>1 DEF ReaddirFails, Result
  <2> QED
    BY <2>1 DEF CacheAhead, CacheCurrent, ListsDirectories
<1>2. CASE ReaddirPastEnd(fd, cookie, len)
  <2> DEFINE it == Iterator(fd, cookie)
  <2>1. dir[fd] # None /\ cookie - it.cookie > Len(Yields(it)) /\ dir[fd] \in Dir
    BY <1>2 DEF ReaddirPastEnd, Types
  <2>2. it.cookie \in 0..cookie /\ it.head \in Seq(Dirent) /\ it.rest \in Seq(Name)
    BY <2>1, IteratorIs
  <2>3. Len(Yields(it)) \in Nat
    BY <2>2, YieldsAre
  <2>4. CASE Resumes(fd, cookie)
    <3>1. it.cookie = cookie
      BY <2>1, <2>4, IteratorIs
    <3> QED
      BY <2>1, <2>3, <3>1
  <2>5. CASE ~Resumes(fd, cookie)
    <3>1. it.cookie = 0 /\ it.rest = Entries[dir[fd]] /\ Len(it.head) = 0
      BY <2>1, <2>5, IteratorIs
    <3> HIDE DEF it
    <3>2. Len(Yields(it)) = Len(Listing(dir[fd]))
      BY <2>1, <2>2, <3>1, FreshYields
    <3> QED
      BY <2>1, <2>3, <3>1, <3>2 DEF InListing
  <2> QED
    BY <2>4, <2>5
<1>3. CASE ReaddirFills(fd, cookie, len)
  <2>1. /\ CacheAhead' /\ CacheCurrent' /\ dir[fd] # None /\ dir' = dir
        /\ cookie <= Len(Listing(dir[fd]))
    BY <1>3, FillsDisciplined
  <2>2. \E n \in 0..(Len(Listing(dir[fd])) - cookie) :
          /\ ret' = Result(fd, cookie, len, "SUCCESS",
                           SubSeq(Drop(Numbered(Listing(dir[fd]), 0), cookie), 1, n), IsFull(n, len))
          /\ n < Len(Listing(dir[fd])) - cookie => len <= 2 * n
    BY <1>3, FillsDisciplined
  <2>3. dir[fd] \in Dir
    BY <2>1 DEF Types
  <2>4. ListsDirectories'
    BY <2>1, <2>2, <2>3, ListsFollow
  <2> QED
    BY <2>1, <2>4
<1> QED
  BY <1>1, <1>2, <1>3 DEF Readdir

(* Closing or opening another descriptor leaves the cache right. *)
LEMMA ReopenDisciplined ==
  ASSUME Types, CacheAhead, CacheCurrent, NEW fd \in Fd,
         FdClose(fd) \/ \E d \in Dir : PathOpen(fd, d)
  PROVE  /\ CacheAhead' /\ CacheCurrent' /\ ListsDirectories'
         /\ \A f \in Fd \ {fd} : dir'[f] = dir[f]
<1>1. ret' = None /\ \A f \in Fd \ {fd} : dir'[f] = dir[f]
  BY DEF FdClose, PathOpen, Types
<1>2. ListsDirectories'
  BY <1>1 DEF ListsDirectories
<1>3. CASE cache' = None
  BY <1>1, <1>2, <1>3 DEF CacheAhead, CacheCurrent
<1>4. CASE cache' # None
  <2>1. cache' = cache /\ cache.for_fd \in Fd \ {fd}
    BY <1>4 DEF FdClose, PathOpen, CacheAhead, Types
  <2>2. dir'[cache.for_fd] = dir[cache.for_fd]
    BY <1>1, <2>1
  <2> QED
    BY <1>1, <1>2, <2>1, <2>2 DEF CacheAhead, CacheCurrent
<1> QED
  BY <1>3, <1>4
-----------------------------------------------------------------------------
(* Whole listings *)

LEMMA PrefixIs ==
  ASSUME NEW S, NEW s \in Seq(S), NEW k \in 0..Len(s)
  PROVE  SubSeq(s, 1, k) \in Seq(S) /\ Len(SubSeq(s, 1, k)) = k /\ \A i \in 1..k : SubSeq(s, 1, k)[i] = s[i]
<1>1. k \in Nat /\ \A i \in 1..k : s[i] \in S
  OBVIOUS
<1>2. /\ SubSeq(s, 1, k) \in Seq(S) /\ Len(SubSeq(s, 1, k)) = IF 1 <= k THEN k - 1 + 1 ELSE 0
      /\ \A i \in 1..(k - 1 + 1) : SubSeq(s, 1, k)[i] = s[1 + i - 1]
  BY ONLY <1>1, SubSeqProperties
<1>3. \A i \in 1..k : 1 + i - 1 = i /\ i \in 1..(k - 1 + 1)
  BY ONLY <1>1
<1>4. \A i \in 1..k : SubSeq(s, 1, k)[i] = s[i]
  BY ONLY <1>2, <1>3
<1> QED
  BY <1>1, <1>2, <1>4

LEMMA PrefixGrows ==
  ASSUME NEW S, NEW s \in Seq(S), NEW c \in 0..Len(s), NEW m \in 0..(Len(s) - c),
         NEW t \in Seq(S), Len(t) = m, \A i \in 1..m : t[i] = s[c + i]
  PROVE  SubSeq(s, 1, c) \o t = SubSeq(s, 1, c + m)
<1> DEFINE front == SubSeq(s, 1, c)
           more == SubSeq(s, 1, c + m)
<1>1. c \in Nat /\ m \in Nat /\ c + m \in 0..Len(s)
  OBVIOUS
<1>2. front \in Seq(S) /\ Len(front) = c /\ \A i \in 1..c : front[i] = s[i]
  BY PrefixIs
<1>3. more \in Seq(S) /\ Len(more) = c + m /\ \A i \in 1..(c + m) : more[i] = s[i]
  BY ONLY <1>1, s \in Seq(S), PrefixIs
<1> HIDE DEF front, more
<1>4. /\ front \o t \in Seq(S) /\ Len(front \o t) = Len(front) + Len(t)
      /\ \A i \in 1..(Len(front) + Len(t)) :
           (front \o t)[i] = IF i <= Len(front) THEN front[i] ELSE t[i - Len(front)]
  BY ONLY <1>2, t \in Seq(S), ConcatProperties
<1>5. ASSUME NEW i \in 1..(c + m) PROVE (front \o t)[i] = more[i]
  <2>1. (front \o t)[i] = IF i <= c THEN front[i] ELSE t[i - c]
    BY <1>2, <1>4
  <2>2. CASE i <= c
    <3>1. i \in 1..c
      BY <1>1, <2>2
    <3>2. front[i] = s[i] /\ more[i] = s[i]
      BY ONLY <1>2, <1>3, <3>1, i \in 1..(c + m)
    <3> QED
      BY <2>1, <2>2, <3>2
  <2>3. CASE i > c
    <3>1. i - c \in 1..m /\ c + (i - c) = i
      BY <1>1, <2>3
    <3>2. t[i - c] = s[i]
      BY <3>1
    <3> QED
      BY <1>1, <1>3, <2>1, <2>3, <3>2
  <2>4. i <= c \/ i > c
    BY ONLY <1>1, i \in 1..(c + m)
  <2> QED
    BY ONLY <2>2, <2>3, <2>4
<1>6. Len(front \o t) = Len(more)
  BY <1>2, <1>3, <1>4
<1>7. front \o t = more
  BY <1>3, <1>4, <1>5, <1>6, SeqEqual
<1> QED
  BY <1>7 DEF front, more

(* The entries a guest takes continue what it has seen. *)
LEMMA TakenIs ==
  ASSUME NEW d \in Dir, NEW cookie \in 0..Len(Listing(d)),
         NEW n \in 0..(Len(Listing(d)) - cookie), NEW r, NEW len \in Nat, len >= 2,
         r.entries = SubSeq(Drop(Numbered(Listing(d), 0), cookie), 1, n), r.len = len,
         r.full <=> len <= 2 * n
  PROVE  LET got == Whole(r)
             next == IF got = <<>> THEN cookie ELSE got[Len(got)].next
         IN
         /\ next \in cookie..(cookie + n) /\ (~r.full => next = cookie + n)
         /\ NamesOf(got) \in Seq(Name)
         /\ SubSeq(Listing(d), 1, cookie) \o NamesOf(got) = SubSeq(Listing(d), 1, next)
<1> DEFINE L == Listing(d)
           items == Drop(Numbered(L, 0), cookie)
           es == SubSeq(items, 1, n)
           m == n - (IF r.full /\ r.len % 2 = 1 THEN 1 ELSE 0)
           got == Whole(r)
           next == IF got = <<>> THEN cookie ELSE got[Len(got)].next
<1>1. L \in Seq(Name) /\ Len(L) \in Nat
  BY DirectoryIs
<1>2. /\ items \in Seq(Dirent) /\ Len(items) = Len(L) - cookie
      /\ \A i \in 1..(Len(L) - cookie) : items[i].name = L[cookie + i] /\ items[i].next = cookie + i
  BY ItemsAre
<1>3. n \in Nat /\ cookie \in Nat /\ n <= Len(L) - cookie /\ cookie <= Len(L)
  BY <1>1
<1> HIDE DEF L, items
<1>4. es \in Seq(Dirent) /\ Len(es) = n /\ \A i \in 1..n : es[i] = items[i]
  <2>1. items \in Seq(Dirent) /\ n \in 0..Len(items)
    BY <1>2, <1>3
  <2> QED
    BY ONLY <2>1, PrefixIs
<1>5. m \in 0..n /\ (~r.full => m = n)
  <2>1. CASE r.full
    <3>1. n >= 1
      BY <1>3, <2>1
    <3> QED
      BY <1>3, <2>1, <3>1
  <2>2. CASE ~r.full
    BY <1>3, <2>2
  <2> QED
    BY <2>1, <2>2
<1>6. got = SubSeq(es, 1, m)
  BY <1>4 DEF Whole, items, L
<1> HIDE DEF m, es, got
<1>7. /\ got \in Seq(Dirent) /\ Len(got) = m
      /\ \A i \in 1..m : got[i].name = L[cookie + i] /\ got[i].next = cookie + i
  <2>1. m \in 0..Len(es) /\ \A i \in 1..m : i \in 1..n /\ i \in 1..(Len(L) - cookie)
    BY <1>1, <1>3, <1>4, <1>5
  <2>2. got \in Seq(Dirent) /\ Len(got) = m /\ \A i \in 1..m : got[i] = es[i]
    BY ONLY <1>4, <1>6, <2>1, PrefixIs
  <2> QED
    BY <1>2, <1>4, <2>1, <2>2
<1>8. next = cookie + m
  <2>1. CASE m = 0
    BY <1>3, <1>7, <2>1, EmptySeq
  <2>2. CASE m # 0
    <3>1. got # <<>> /\ m \in 1..m
      BY <1>5, <1>7, <2>2, EmptySeq
    <3> QED
      BY <1>7, <3>1
  <2> QED
    BY <2>1, <2>2
<1>9. /\ NamesOf(got) \in Seq(Name) /\ Len(NamesOf(got)) = m
      /\ \A i \in 1..m : NamesOf(got)[i] = L[cookie + i]
  <2>1. m \in Nat /\ NamesOf(got) = [i \in 1..m |-> got[i].name]
    BY <1>5, <1>7 DEF NamesOf
  <2>2. \A i \in 1..m : got[i].name = L[cookie + i] /\ L[cookie + i] \in Name
    BY <1>1, <1>3, <1>5, <1>7
  <2> QED
    BY <2>1, <2>2
<1>10. SubSeq(L, 1, cookie) \o NamesOf(got) = SubSeq(L, 1, cookie + m)
  <2>1. m \in 0..(Len(L) - cookie) /\ cookie \in 0..Len(L)
    BY <1>1, <1>3, <1>5
  <2> QED
    BY ONLY <1>1, <1>9, <2>1, PrefixGrows
<1>11. next \in cookie..(cookie + n) /\ (~r.full => next = cookie + n)
  <2> HIDE DEF next
  <2> QED
    BY <1>3, <1>5, <1>8
<1> QED
  BY <1>8, <1>9, <1>10, <1>11 DEF got, L
LEMMA SeenKept ==
  ASSUME SeenSoFar, walk' = walk, \A fd \in Walker : dir'[fd] = dir[fd]
  PROVE  SeenSoFar'
BY DEF SeenSoFar, Listing

LEMMA WalkOnKeeps ==
  ASSUME WalkInv, NEW fd \in Walker, WalkOn(fd)
  PROVE  WalkInv'
<1> DEFINE w == walk[fd]
           d == dir[fd]
           L == Listing(d)
           got == Whole(ret')
           next == IF got = <<>> THEN w.cookie ELSE got[Len(got)].next
<1>1. /\ disciplined /\ disciplined' = disciplined
      /\ TogetherInv /\ WalkTypes /\ CacheAhead /\ CacheCurrent /\ SeenSoFar
  BY DEF WalkOn, WalkInv
<1>2. PICK len \in 2..MaxLen : HoldsDots(w.cookie, len) /\ ReaddirFills(fd, w.cookie, len)
  BY DEF WalkOn
<1>3. /\ fd \in Fd /\ len \in Nat /\ len >= 2
      /\ w.cookie \in Nat /\ w.seen \in Seq(Name)
  BY <1>1, <1>2, WalkerAssumption, EntriesAssumption DEF WalkTypes
<1>4. walk' = [walk EXCEPT ![fd] = [cookie |-> next, seen |-> w.seen \o NamesOf(got), done |-> ~ret'.full]]
  BY DEF WalkOn
<1>5. TogetherInv'
  BY <1>1, <1>2, <1>3, FillsTogether
<1>6. /\ CacheAhead' /\ CacheCurrent' /\ d # None /\ dir' = dir /\ w.cookie <= Len(L)
  BY <1>1, <1>2, <1>3, FillsDisciplined DEF TogetherInv
<1>7. PICK n \in 0..(Len(L) - w.cookie) :
        /\ ret' = Result(fd, w.cookie, len, "SUCCESS",
                         SubSeq(Drop(Numbered(L, 0), w.cookie), 1, n), IsFull(n, len))
        /\ n < Len(L) - w.cookie => len <= 2 * n
  BY <1>1, <1>2, <1>3, FillsDisciplined DEF TogetherInv
<1>8. d \in Dir /\ L \in Seq(Name) /\ Len(L) \in Nat
  BY <1>1, <1>3, <1>6, DirectoryIs DEF TogetherInv, Types
<1>9. ListsDirectories'
  BY <1>3, <1>6, <1>7, <1>8, ListsFollow
<1>10. /\ next \in w.cookie..(w.cookie + n) /\ (~ret'.full => next = w.cookie + n)
       /\ NamesOf(got) \in Seq(Name)
       /\ SubSeq(L, 1, w.cookie) \o NamesOf(got) = SubSeq(L, 1, next)
  <2>1. /\ ret'.entries = SubSeq(Drop(Numbered(L, 0), w.cookie), 1, n) /\ ret'.len = len
        /\ (ret'.full <=> len <= 2 * n)
    BY <1>7 DEF Result, IsFull
  <2>2. w.cookie \in 0..Len(L)
    BY <1>3, <1>6, <1>8
  <2> DEFINE r == ret'
             c == w.cookie
  <2>3. n \in 0..(Len(L) - c) /\ d \in Dir /\ len \in Nat /\ len >= 2
    BY <1>3, <1>8
  <2> HIDE DEF d, w, r, c
  <2>4. /\ c \in 0..Len(L) /\ r.entries = SubSeq(Drop(Numbered(L, 0), c), 1, n) /\ r.len = len
        /\ (r.full <=> len <= 2 * n)
    BY <2>1, <2>2 DEF r, c
  <2> DEFINE taken == Whole(r)
             to == IF taken = <<>> THEN c ELSE taken[Len(taken)].next
  <2>5. /\ to \in c..(c + n) /\ (~r.full => to = c + n)
        /\ NamesOf(taken) \in Seq(Name)
        /\ SubSeq(L, 1, c) \o NamesOf(taken) = SubSeq(L, 1, to)
    BY ONLY <2>3, <2>4, TakenIs
  <2> QED
    BY <2>5 DEF r, c, w
<1>11. ret'.full \in BOOLEAN /\ (~ret'.full => n = Len(L) - w.cookie)
  <2>1. ret'.full = (len <= 2 * n)
    BY <1>7 DEF Result, IsFull
  <2>2. (len <= 2 * n) \in BOOLEAN
    OBVIOUS
  <2>3. ret'.full \in BOOLEAN
    BY <2>1, <2>2, Zenon
  <2>4. ~(len <= 2 * n) => n = Len(L) - w.cookie
    BY <1>3, <1>7, <1>8
  <2> QED
    BY <2>1, <2>3, <2>4
<1> HIDE DEF got, next
<1>12. WalkTypes'
  <2>1. next \in Nat
    BY <1>3, <1>10
  <2>2. w.seen \o NamesOf(got) \in Seq(Name)
    BY <1>3, <1>10, ConcatProperties
  <2>3. (~ret'.full) \in BOOLEAN
    OBVIOUS
  <2> QED
    BY <1>1, <1>4, <2>1, <2>2, <2>3 DEF WalkTypes
<1>13. SeenSoFar'
  <2>1. w.seen = SubSeq(L, 1, w.cookie)
    BY <1>1 DEF SeenSoFar
  <2>2. /\ walk'[fd].cookie = next /\ walk'[fd].seen = SubSeq(L, 1, next)
        /\ walk'[fd].done <=> ~ret'.full
    BY <1>1, <1>4, <1>10, <2>1 DEF WalkTypes
  <2>3. next <= Len(L) /\ (~ret'.full => next = Len(L))
    BY <1>3, <1>6, <1>8, <1>10, <1>11
  <2>4. \A f \in Walker \ {fd} : walk'[f] = walk[f]
    BY <1>1, <1>4 DEF WalkTypes
  <2>5. dir' = dir /\ dir[fd] # None
    BY <1>6
  <2> SUFFICES ASSUME NEW f \in Walker
               PROVE  /\ dir'[f] # None
                      /\ walk'[f].cookie <= Len(Listing(dir'[f]))
                      /\ walk'[f].seen = SubSeq(Listing(dir'[f]), 1, walk'[f].cookie)
                      /\ walk'[f].done => walk'[f].cookie = Len(Listing(dir'[f]))
    BY DEF SeenSoFar, Listing
  <2>6. CASE f = fd
    BY <2>2, <2>3, <2>5, <2>6
  <2>7. CASE f # fd
    BY <1>1, <2>4, <2>5, <2>7 DEF SeenSoFar
  <2> QED
    BY <2>6, <2>7
<1> QED
  BY <1>1, <1>5, <1>6, <1>9, <1>12, <1>13 DEF WalkInv
LEMMA OthersKeep ==
  ASSUME WalkInv, disciplined, walk' = walk, TogetherInv', CacheAhead', CacheCurrent', ListsDirectories',
         \A fd \in Walker : dir'[fd] = dir[fd]
  PROVE  WalkInv'
<1>1. WalkTypes'
  BY DEF WalkInv, WalkTypes
<1>2. SeenSoFar'
  BY SeenKept DEF WalkInv
<1> QED
  BY <1>1, <1>2 DEF WalkInv

LEMMA WalkFailsKeeps ==
  ASSUME WalkInv, NEW fd \in Walker, WalkFails(fd)
  PROVE  WalkInv'
<1> DEFINE cookie == walk[fd].cookie
<1>1. fd \in Fd /\ cookie \in Nat /\ MaxLen \in Nat
  BY WalkerAssumption, EntriesAssumption DEF WalkInv, WalkTypes
<1>2. ReaddirFails(fd, cookie, MaxLen) /\ disciplined /\ walk' = walk
  BY DEF WalkFails
<1> HIDE DEF cookie
<1>3. TogetherInv'
  BY <1>1, <1>2, ReaddirTogether DEF WalkInv, Readdir
<1>4. cache' = None /\ dir' = dir /\ ret'.errno # "SUCCESS"
  BY <1>2 DEF ReaddirFails, Result
<1>5. CacheAhead' /\ CacheCurrent' /\ ListsDirectories'
  BY <1>4 DEF CacheAhead, CacheCurrent, ListsDirectories
<1> QED
  BY <1>2, <1>3, <1>4, <1>5, OthersKeep

LEMMA OthersStepKeeps == ASSUME WalkInv, Others PROVE WalkInv'
<1>1. disciplined /\ walk' = walk /\ TogetherInv /\ CacheAhead /\ CacheCurrent
  BY DEF Others, WalkInv
<1>2. CASE BigRead
  <2>1. PICK fd \in Fd, cookie \in Cookies, len \in 0..MaxLen :
          HoldsDots(cookie, len) /\ InListing(fd, cookie) /\ Readdir(fd, cookie, len)
    BY <1>2 DEF BigRead
  <2>2. cookie \in Nat /\ len \in Nat
    BY CookiesAreNat, EntriesAssumption
  <2>3. TogetherInv'
    BY <1>1, <2>1, <2>2, ReaddirTogether
  <2>4. CacheAhead' /\ CacheCurrent' /\ ListsDirectories' /\ dir' = dir
    BY <1>1, <2>1, <2>2, BigReadDisciplined DEF TogetherInv
  <2> QED
    BY <1>1, <2>3, <2>4, OthersKeep
<1>3. ASSUME NEW fd \in Fd \ Walker, FdClose(fd) \/ \E d \in Dir : PathOpen(fd, d)
      PROVE  WalkInv'
  <2>1. Next
    BY <1>3 DEF Next, Reopen
  <2>2. TogetherInv'
    BY <1>1, <2>1, NextTogether
  <2>3. /\ CacheAhead' /\ CacheCurrent' /\ ListsDirectories'
        /\ \A f \in Fd \ {fd} : dir'[f] = dir[f]
    BY <1>1, <1>3, ReopenDisciplined DEF TogetherInv
  <2>4. \A f \in Walker : dir'[f] = dir[f]
    BY <2>3, WalkerAssumption
  <2> QED
    BY <1>1, <2>2, <2>3, <2>4, OthersKeep
<1> QED
  BY <1>2, <1>3 DEF Others

LEMMA WalkStartTypes == WalkStart \in [Walker -> [cookie : Nat, seen : Seq(Name), done : BOOLEAN]]
BY EmptySeq DEF WalkStart

LEMMA WalkNextKeeps == WalkInv /\ [WalkNext]_walkVars => WalkInv'
<1> SUFFICES ASSUME WalkInv, [WalkNext]_walkVars PROVE WalkInv'
  OBVIOUS
<1>1. CASE Others
  BY <1>1, OthersStepKeeps
<1>2. CASE Strays
  <2>1. TogetherInv'
    BY <1>2, NextTogether DEF Strays, WalkInv
  <2> QED
    BY <1>2, <2>1, WalkStartTypes DEF Strays, WalkInv, WalkTypes
<1>3. ASSUME NEW fd \in Walker, WalkOn(fd) \/ WalkFails(fd) PROVE WalkInv'
  BY <1>3, WalkOnKeeps, WalkFailsKeeps
<1>4. CASE UNCHANGED walkVars
  <2>1. TogetherInv'
    BY <1>4, NextTogether DEF walkVars, WalkInv
  <2> QED
    BY <1>4, <2>1 DEF walkVars, vars, WalkInv, WalkTypes, CacheAhead, CacheCurrent,
       ListsDirectories, SeenSoFar, Listing
<1> QED
  BY <1>1, <1>2, <1>3, <1>4 DEF WalkNext

LEMMA WalkInitHolds == WalkInit => WalkInv
<1> SUFFICES ASSUME WalkInit PROVE WalkInv
  OBVIOUS
<1>1. TogetherInv /\ WalkTypes
  BY InitTogether, WalkStartTypes DEF WalkInit, WalkTypes
<1>2. CacheAhead /\ CacheCurrent /\ ListsDirectories
  BY DEF WalkInit, Init, CacheAhead, CacheCurrent, ListsDirectories
<1>3. SeenSoFar
  <2> SUFFICES ASSUME NEW fd \in Walker
               PROVE  /\ dir[fd] # None
                      /\ walk[fd].cookie <= Len(Listing(dir[fd]))
                      /\ walk[fd].seen = SubSeq(Listing(dir[fd]), 1, walk[fd].cookie)
                      /\ ~walk[fd].done
    BY DEF SeenSoFar
  <2>1. walk[fd] = [cookie |-> 0, seen |-> <<>>, done |-> FALSE]
    BY DEF WalkInit, WalkStart
  <2>2. dir[fd] \in Dir /\ dir[fd] # None
    BY WalkerAssumption DEF WalkInit, Init
  <2>3. Listing(dir[fd]) \in Seq(Name) /\ Len(Listing(dir[fd])) \in Nat
    BY <2>2, DirectoryIs
  <2>4. SubSeq(Listing(dir[fd]), 1, 0) = <<>>
    BY SubSeqEmpty
  <2> QED
    BY <2>1, <2>2, <2>3, <2>4
<1> QED
  BY <1>1, <1>2, <1>3 DEF WalkInv

LEMMA WalkInvHolds == WalkSpec => []WalkInv
<1> QED
  BY WalkInitHolds, WalkNextKeeps, PTL DEF WalkSpec

LEMMA SeenFollows == WalkInv => SeenWhenDone
<1> SUFFICES ASSUME WalkInv, NEW fd \in Walker, disciplined, walk[fd].done
             PROVE  walk[fd].seen = Listing(dir[fd])
  BY DEF SeenWhenDone
<1> DEFINE L == Listing(dir[fd])
<1>1. dir[fd] \in Dir
  BY WalkerAssumption DEF WalkInv, SeenSoFar, TogetherInv, Types
<1>2. walk[fd].seen = SubSeq(L, 1, Len(L))
  BY DEF WalkInv, SeenSoFar
<1>3. L \in Seq(Name)
  BY <1>1, DirectoryIs
<1> QED
  BY <1>2, <1>3, SubSeqFull

-----------------------------------------------------------------------------
(* Theorems *)

(* Whatever a guest does, the cached entry and the stream behind it belong *)
(* together: no listing mixes two directories or skips an entry behind the *)
(* cached one (DirentCache and DirectoryEntryIterator, lib.rs:870-1013).   *)
THEOREM CacheStaysTogether == Spec => []CacheTogether
<1> QED
  BY InitTogether, NextTogether, TogetherFollows, PTL DEF Spec

(* The same of guests that walk directories: the cache is never taken for  *)
(* that of another listing, whoever else uses it in between.               *)
THEOREM CacheTogetherOnWalks == WalkSpec => []CacheTogether
<1>1. WalkInv => TogetherInv
  BY DEF WalkInv
<1> QED
  BY <1>1, WalkInvHolds, TogetherFollows, PTL

(* While guests are disciplined, the cache is the entry at its cookie of   *)
(* the directory its descriptor names now, with the rest of the listing.   *)
THEOREM CacheStaysCurrent == WalkSpec => []CacheCurrentWhileDisciplined
<1>1. WalkInv => CacheCurrentWhileDisciplined
  BY DEF WalkInv, CacheCurrentWhileDisciplined
<1> QED
  BY <1>1, WalkInvHolds, PTL

(* ... and what each fd_readdir returns is the listing from its cookie on, *)
(* as many entries as there is room for, to the end when room is left.     *)
THEOREM ReadsAreListings == WalkSpec => []ListsWhileDisciplined
<1>1. WalkInv => ListsWhileDisciplined
  BY DEF WalkInv, ListsWhileDisciplined
<1> QED
  BY <1>1, WalkInvHolds, PTL

(* A listing that has come to its end has seen every entry exactly once    *)
(* and in order, however often the cache was taken by others in between.   *)
THEOREM ListingsAreComplete == WalkSpec => []SeenWhenDone
<1> QED
  BY WalkInvHolds, SeenFollows, PTL

=============================================================================
