----------------------------- MODULE PollProofs -----------------------------
(***************************************************************************)
(* Theorems about PollOneoff, for every number of subscriptions and every  *)
(* size of an event and of a pollable that the assertion of the code       *)
(* admits.  Only that polls of clocks end is left to TLC.                  *)
(***************************************************************************)
EXTENDS PollOneoff, FiniteSetTheorems, TLAPS

MapOK == map = [key \in Key |-> map[key]]

ShapeOK ==
  /\ subs \in Seq(Subscription)
  /\ mem = [b \in 0..(EventSize * n - 1) |-> mem[b]]
  /\ index \in 0..n /\ at \in 0..n /\ count \in Nat
  /\ pc = "push" => at = index
  /\ pc = "drop" => at <= index
  /\ pc = "events" => count <= at
  /\ pc \in {"push", "wait", "drop"} => count = 0
  /\ pushed \in Seq(Key) /\ Len(pushed) = index

(* The pollables that are still to be dropped. *)
First == IF pc = "drop" THEN at ELSE 0
Held == {i \in 1..index : i > First}

PollablesOK ==
  /\ pc \in {"idle", "events", "done"} => \A key \in Key : ~IsPollable(key)
  /\ pc \in {"push", "wait", "drop"} =>
       /\ \A key \in Key : IsPollable(key) => \E i \in Held : pushed[i] = key
       /\ \A i \in Held : IsPollable(pushed[i])
       /\ \A i, j \in Held : pushed[i] = pushed[j] => i = j

PollInv == MapOK /\ ShapeOK /\ NoClobber /\ PollablesOK

-----------------------------------------------------------------------------
(* Arithmetic of the overlays *)

LEMMA Scaled ==
  ASSUME NEW c \in Nat, NEW i \in Nat, NEW j \in Nat, i < j
  PROVE  c * i + c <= c * j
<1>1. PICK k \in Nat : j = i + 1 + k
  <2>1. j - i - 1 \in Nat /\ j = i + 1 + (j - i - 1)
    OBVIOUS
  <2> QED
    BY <2>1
<1>2. c * j = c * i + c + c * k /\ c * k >= 0
  BY <1>1
<1> QED
  BY <1>2

(* The pollables are inside the buffer, in cells of their own, below the   *)
(* results.                                                                *)
LEMMA PollableCells ==
  ASSUME n \in Nat, NEW i \in 0..(n - 1), NEW b \in PollableAt(i)
  PROVE  /\ b \in 0..(EventSize * n - 1)
         /\ \A j \in Nat : j < n /\ j # i => b \notin PollableAt(j)
         /\ \A j \in Nat : b # ResultAt(j)
<1> USE SizeAssumption
<1>1. PICK o \in 0..(PollableSize - 1) : b = PollableSize * i + o
  BY DEF PollableAt
<1>2. PollableSize * i + PollableSize <= PollableSize * n
  BY Scaled
<1>3. PollableSize * n <= (EventSize - 1) * n /\ (EventSize - 1) * n = EventSize * n - n
  <2>1. PICK k \in Nat : EventSize = PollableSize + 1 + k
    <3>1. EventSize - PollableSize - 1 \in Nat
      OBVIOUS
    <3> QED
      BY <3>1
  <2>2. (EventSize - 1) * n = PollableSize * n + k * n /\ k * n >= 0
    BY <2>1
  <2>3. EventSize * n = PollableSize * n + n + k * n
    BY <2>1
  <2> QED
    BY <2>2, <2>3
<1>4. PollableSize * i \in Nat /\ PollableSize * n \in Nat /\ EventSize * n \in Nat
  OBVIOUS
<1>5. \A j \in Nat : j < n /\ j # i => b \notin PollableAt(j)
  <2> SUFFICES ASSUME NEW j \in Nat, j # i, b \in PollableAt(j) PROVE FALSE
    OBVIOUS
  <2>1. PICK u \in 0..(PollableSize - 1) : b = PollableSize * j + u
    BY DEF PollableAt
  <2>2. i < j => PollableSize * i + PollableSize <= PollableSize * j
    BY Scaled
  <2>3. j < i => PollableSize * j + PollableSize <= PollableSize * i
    BY Scaled
  <2>4. PollableSize * j \in Nat
    OBVIOUS
  <2> QED
    BY <1>1, <1>4, <2>1, <2>2, <2>3, <2>4
<1>6. \A j \in Nat : b # ResultAt(j)
  BY <1>1, <1>2, <1>3, <1>4 DEF ResultAt
<1> QED
  BY <1>1, <1>2, <1>3, <1>4, <1>5, <1>6

(* The results are inside the buffer, above the events that are written    *)
(* before they are read.                                                   *)
LEMMA ResultCells ==
  ASSUME n \in Nat, NEW i \in 0..(n - 1)
  PROVE  /\ ResultAt(i) \in 0..(EventSize * n - 1)
         /\ \A j \in 0..(n - 1) : ResultAt(j) = ResultAt(i) => j = i
         /\ \A j \in Nat : j < i => ResultAt(i) \notin EventAt(j)
<1> USE SizeAssumption
<1>1. EventSize * n = (EventSize - 1) * n + n /\ (EventSize - 1) * n \in Nat
  OBVIOUS
<1>2. ResultAt(i) \in 0..(EventSize * n - 1)
  BY <1>1 DEF ResultAt
<1>3. \A j \in 0..(n - 1) : ResultAt(j) = ResultAt(i) => j = i
  BY <1>1 DEF ResultAt
<1>4. ASSUME NEW j \in Nat, j < i, ResultAt(i) \in EventAt(j) PROVE FALSE
  <2>1. PICK o \in 0..(EventSize - 1) : ResultAt(i) = EventSize * j + o
    BY <1>4 DEF EventAt
  <2>2. (EventSize - 1) * j + (EventSize - 1) <= (EventSize - 1) * n
    <3>1. EventSize - 1 \in Nat /\ j < n
      BY <1>4
    <3> QED
      BY <3>1, Scaled
  <2>3. EventSize * j = (EventSize - 1) * j + j /\ (EventSize - 1) * j \in Nat
    OBVIOUS
  <2> QED
    BY <1>1, <1>4, <2>1, <2>2, <2>3 DEF ResultAt
<1> QED
  BY <1>2, <1>3, <1>4

LEMMA ReadsBack ==
  ASSUME NEW i \in Nat, NEW key \in Key, \A b \in PollableAt(i) : mem[b] = PollableByte(key)
  PROVE  PollableIn(i) = key
<1>1. PollableSize * i + 0 \in PollableAt(i)
  BY SizeAssumption DEF PollableAt
<1>2. \A k \in Key : (\A b \in PollableAt(i) : mem[b] = PollableByte(k)) => k = key
  BY <1>1 DEF PollableByte
<1> QED
  BY <1>2 DEF PollableIn

LEMMA EntriesAreOwn ==
  ASSUME NEW s \in Subscription, NEW entry \in EntriesOf(s)
  PROVE  entry # Other /\ entry # None
<1>1. entry.kind \in {"Read", "Write", "MonotonicClock"}
  BY DEF EntriesOf, ReadEntry, WriteEntry, ClockEntry
<1>2. Other.kind = "other"
  BY DEF Other
<1> QED
  BY <1>1, <1>2, NoneAssumption

(* What Push does to a table, by what it does to each key. *)
LEMMA Pushes ==
  ASSUME MapOK, NEW resource, NEW key \in Key, Push(resource, key)
  PROVE  /\ MapOK'
         /\ map[key] = None /\ map'[key] = resource
         /\ \A k \in Key : k # key => map'[k] = map[k]
BY DEF MapOK, Push, IsNextFree

LEMMA Deletes ==
  ASSUME MapOK, NEW key \in Key, Delete(key)
  PROVE  /\ MapOK'
         /\ map'[key] = None
         /\ \A k \in Key : k # key => map'[k] = map[k]
BY DEF MapOK, Delete

-----------------------------------------------------------------------------
(* One lemma for each action that touches the buffer or the table *)

LEMMA InitInv == Init => PollInv
<1> SUFFICES ASSUME Init PROVE PollInv
  OBVIOUS
<1>1. MapOK /\ \A key \in Key : map[key] = None
  BY DEF Init, TableInit, MapOK
<1>2. n = 0
  BY DEF Init, n
<1>3. EventSize * n - 1 = -1
  BY <1>2, SizeAssumption
<1>4. ShapeOK
  BY <1>2, <1>3 DEF Init, ShapeOK
<1>5. NoClobber /\ PollablesOK
  BY <1>1 DEF Init, NoClobber, PollablesOK, IsPollable
<1> QED
  BY <1>1, <1>4, <1>5 DEF PollInv

LEMMA CallInv ==
  ASSUME PollInv, NEW len \in 0..MaxSubs, NEW s \in [1..len -> Subscription], Call(s)
  PROVE  PollInv'
<1>1. len \in Nat /\ s \in Seq(Subscription) /\ Len(s) = len
  BY SizeAssumption
<1>2. MapOK'
  BY DEF PollInv, MapOK, Call
<1>3. ShapeOK'
  <2>1. subs' \in Seq(Subscription) /\ n' \in Nat
    BY <1>1 DEF Call, n
  <2>2. mem' = [b \in 0..(EventSize * n' - 1) |-> mem'[b]]
    BY DEF Call, n
  <2>3. pushed' \in Seq(Key) /\ Len(pushed') = 0
    BY DEF Call
  <2> QED
    BY <2>1, <2>2, <2>3 DEF ShapeOK, Call
<1>4. NoClobber'
  BY <1>1 DEF NoClobber, Call
<1>5. PollablesOK'
  BY DEF PollInv, PollablesOK, Call, IsPollable, Held, First
<1> QED
  BY <1>2, <1>3, <1>4, <1>5 DEF PollInv

LEMMA SubscribeInv ==
  ASSUME PollInv, NEW key \in Key, Subscribe(key)
  PROVE  PollInv'
<1> USE DEF PollInv
<1>1. PICK entry \in EntriesOf(subs[at + 1]) : Push(entry, key)
  BY DEF Subscribe
<1>2. /\ pc = "push" /\ pc' = "push" /\ at < n /\ n' = n /\ n \in Nat /\ subs' = subs
      /\ at = index /\ at' = at + 1 /\ index' = index + 1 /\ at \in Nat
      /\ pushed' = Append(pushed, key) /\ Len(pushed) = index
      /\ mem' = Written(PollableAt(index), PollableByte(key))
  BY DEF Subscribe, ShapeOK, n
<1>3. entry # Other /\ entry # None
  <2>1. subs[at + 1] \in Subscription
    BY <1>2 DEF ShapeOK, n
  <2> QED
    BY <1>1, <2>1, EntriesAreOwn
<1>4. /\ MapOK' /\ map[key] = None /\ map'[key] = entry
      /\ \A k \in Key : k # key => map'[k] = map[k]
  BY <1>1, Pushes
<1>5. /\ pushed' \in Seq(Key) /\ Len(pushed') = index' /\ pushed'[index'] = key
      /\ \A i \in 1..index : pushed'[i] = pushed[i]
  <2>1. pushed \in Seq(Key)
    BY DEF ShapeOK
  <2> QED
    BY <1>2, <2>1
<1>6. ShapeOK'
  BY <1>2, <1>5 DEF ShapeOK, Subscribe, Written
<1>7. \A i \in 0..(index' - 1) : \A b \in PollableAt(i) : mem'[b] = PollableByte(pushed'[i + 1])
  <2> SUFFICES ASSUME NEW i \in 0..(index' - 1), NEW b \in PollableAt(i)
               PROVE  mem'[b] = PollableByte(pushed'[i + 1])
    OBVIOUS
  <2>1. i \in 0..(n - 1) /\ i \in Nat /\ index \in Nat /\ index < n
    BY <1>2
  <2>2. b \in DOMAIN mem /\ (i # index => b \notin PollableAt(index))
    <3>1. b \in 0..(EventSize * n - 1)
      BY <1>2, <2>1, PollableCells
    <3>2. i # index => b \notin PollableAt(index)
      BY <1>2, <2>1, PollableCells
    <3> QED
      BY <3>1, <3>2 DEF ShapeOK
  <2>3. CASE i = index
    BY <1>2, <1>5, <2>2, <2>3 DEF Written
  <2>4. CASE i # index
    <3>1. mem'[b] = mem[b]
      BY <1>2, <2>2, <2>4 DEF Written
    <3>2. i \in 0..(index - 1) /\ i + 1 \in 1..index
      BY <1>2, <2>1, <2>4
    <3>3. mem[b] = PollableByte(pushed[i + 1])
      BY <1>2, <3>2 DEF NoClobber
    <3> QED
      BY <1>5, <3>1, <3>2, <3>3
  <2> QED
    BY <2>3, <2>4
<1>8. NoClobber'
  BY <1>2, <1>7 DEF NoClobber, PollableAt
<1>9. PollablesOK'
  <2>1. Held = 1..index /\ Held' = 1..index' /\ 1..index' = (1..index) \cup {index'}
    BY <1>2 DEF Held, First
  <2>2. \A k \in Key : IsPollable(k)' <=> (IsPollable(k) \/ k = key)
    BY <1>3, <1>4 DEF IsPollable
  <2>3. \A i \in 1..index : pushed[i] # key /\ pushed[i] \in Key
    <3>1. \A i \in 1..index : IsPollable(pushed[i])
      BY <1>2, <2>1 DEF PollablesOK
    <3>2. \A i \in 1..index : pushed[i] \in Key
      BY <1>2 DEF ShapeOK
    <3> QED
      BY <1>4, <3>1, <3>2 DEF IsPollable
  <2>4. \A k \in Key : IsPollable(k)' => \E i \in Held' : pushed'[i] = k
    BY <1>2, <1>5, <2>1, <2>2 DEF PollablesOK
  <2>5. \A i \in Held' : IsPollable(pushed[i])'
    <3>1. \A i \in 1..index : IsPollable(pushed[i])
      BY <1>2, <2>1 DEF PollablesOK
    <3> SUFFICES ASSUME NEW i \in Held' PROVE IsPollable(pushed[i])'
      OBVIOUS
    <3>2. CASE i = index'
      BY <1>3, <1>4, <1>5, <3>2 DEF IsPollable
    <3>3. CASE i \in 1..index
      BY <1>4, <1>5, <2>3, <3>1, <3>3 DEF IsPollable
    <3> QED
      BY <2>1, <3>2, <3>3
  <2>6. \A i, j \in Held' : pushed'[i] = pushed'[j] => i = j
    BY <1>2, <1>5, <2>1, <2>3 DEF PollablesOK
  <2> QED
    BY <1>2, <2>4, <2>5, <2>6 DEF PollablesOK
<1> QED
  BY <1>4, <1>6, <1>8, <1>9

(* Steps of the host that the adapter does not see. *)
LEMMA FrameInv ==
  ASSUME PollInv, UNCHANGED <<map, pc, subs, mem, index, at, count, errno, pushed, vec>>
  PROVE  PollInv'
<1>1. MapOK'
  BY DEF PollInv, MapOK
<1>2. ShapeOK'
  BY DEF PollInv, ShapeOK, n
<1>3. PollablesOK'
  <2>1. Held' = Held /\ \A key : IsPollable(key)' <=> IsPollable(key)
    BY DEF Held, First, IsPollable
  <2> QED
    BY <2>1 DEF PollInv, PollablesOK
<1>4. NoClobber'
  BY DEF PollInv, NoClobber, PollableAt, ResultAt, n
<1> QED
  BY <1>1, <1>2, <1>3, <1>4 DEF PollInv

LEMMA TrapInv == ASSUME PollInv, Trap PROVE PollInv'
<1>1. MapOK'
  BY DEF PollInv, MapOK, Trap
<1>2. ShapeOK'
  BY DEF PollInv, ShapeOK, Trap, n
<1>3. NoClobber' /\ PollablesOK'
  BY DEF NoClobber, PollablesOK, Trap
<1> QED
  BY <1>1, <1>2, <1>3 DEF PollInv

LEMMA SubscribeFailsInv == ASSUME PollInv, SubscribeFails PROVE PollInv'
<1> USE DEF PollInv
<1>1. /\ pc = "push" /\ pc' = "drop" /\ at' = 0
      /\ UNCHANGED <<map, subs, mem, index, count, pushed, vec>>
  BY DEF SubscribeFails, AfterError
<1>2. n' = n /\ errno' # "SUCCESS"
  BY DEF SubscribeFails, ErrorsOf, n
<1>3. MapOK' /\ ShapeOK'
  <2>1. MapOK'
    BY <1>1 DEF MapOK
  <2>2. count = 0 /\ index \in 0..n /\ n \in Nat
    BY <1>1 DEF ShapeOK, n
  <2>3. 0 \in 0..n /\ 0 <= index
    BY <2>2
  <2>4. ShapeOK'
    BY <1>1, <1>2, <2>2, <2>3 DEF ShapeOK
  <2> QED
    BY <2>1, <2>4
<1>4. NoClobber'
  BY <1>1, <1>2 DEF NoClobber, PollableAt
<1>5. Held' = Held
  BY <1>1 DEF Held, First
<1>6. PollablesOK'
  BY <1>1, <1>5 DEF PollablesOK, IsPollable
<1> QED
  BY <1>3, <1>4, <1>6

LEMMA HostPollInv == ASSUME PollInv, HostPoll PROVE PollInv'
<1> USE DEF PollInv
<1>1. /\ pc = "push" /\ pc' = "wait"
      /\ UNCHANGED <<map, subs, mem, index, at, count, pushed, vec>>
  BY DEF HostPoll
<1>2. n' = n
  BY <1>1 DEF n
<1>3. MapOK' /\ ShapeOK'
  BY <1>1, <1>2 DEF MapOK, ShapeOK
<1>4. NoClobber'
  BY <1>1 DEF NoClobber, PollableAt
<1>5. Held' = Held
  BY <1>1 DEF Held, First
<1>6. PollablesOK'
  BY <1>1, <1>5 DEF PollablesOK, IsPollable
<1> QED
  BY <1>3, <1>4, <1>6

LEMMA HostAnswersInv ==
  ASSUME PollInv, NEW awake, HostAnswers(awake)
  PROVE  PollInv'
<1> USE DEF PollInv
<1>1. /\ pc = "wait" /\ pc' = "drop" /\ at' = 0
      /\ UNCHANGED <<map, subs, index, count, pushed>>
      /\ mem' = [b \in DOMAIN mem |->
               IF \E i \in 0..(n - 1) : b = ResultAt(i)
               THEN ResultByte(vec'[(CHOOSE i \in 0..(n - 1) : b = ResultAt(i)) + 1])
               ELSE mem[b]]
  BY DEF HostAnswers
<1>2. n' = n /\ n \in Nat /\ DOMAIN mem = 0..(EventSize * n - 1) /\ index \in 0..n
  BY <1>1 DEF n, ShapeOK
<1>3. MapOK' /\ ShapeOK'
  BY <1>1, <1>2 DEF MapOK, ShapeOK
<1>4. ASSUME NEW i \in 0..(index - 1), NEW b \in PollableAt(i)
      PROVE  mem'[b] = PollableByte(pushed'[i + 1])
  <2>1. i \in 0..(n - 1)
    BY <1>2
  <2>2. b \in DOMAIN mem /\ \A j \in Nat : b # ResultAt(j)
    BY <1>2, <2>1, PollableCells
  <2>3. mem'[b] = mem[b]
    BY <1>1, <1>2, <2>2
  <2>4. mem[b] = PollableByte(pushed[i + 1])
    BY <1>1 DEF NoClobber
  <2> QED
    BY <1>1, <2>3, <2>4
<1>5. ASSUME NEW i \in 0..(n - 1)
      PROVE  mem'[ResultAt(i)] = ResultByte(vec'[i + 1])
  <2>1. ResultAt(i) \in DOMAIN mem /\ \A j \in 0..(n - 1) : ResultAt(j) = ResultAt(i) => j = i
    BY <1>2, ResultCells
  <2>2. (CHOOSE j \in 0..(n - 1) : ResultAt(i) = ResultAt(j)) = i
    BY <2>1
  <2> QED
    BY <1>1, <2>1, <2>2
<1>6. ResultAt(0)' = ResultAt(0) /\ \A i : ResultAt(i)' = ResultAt(i) /\ PollableAt(i)' = PollableAt(i)
  BY <1>2 DEF ResultAt, PollableAt
<1>7. NoClobber'
  BY <1>1, <1>2, <1>4, <1>5, <1>6 DEF NoClobber
<1>8. Held' = Held
  BY <1>1 DEF Held, First
<1>9. PollablesOK'
  BY <1>1, <1>8 DEF PollablesOK, IsPollable
<1> QED
  BY <1>3, <1>7, <1>9

LEMMA DropPollableInv == ASSUME PollInv, DropPollable PROVE PollInv'
<1> USE DEF PollInv
<1>1. pc = "drop" /\ at < index /\ at \in Nat /\ index \in 0..n /\ n \in Nat
  BY DEF DropPollable, ToDrop, ShapeOK, n
<1>2. /\ at + 1 \in Held /\ pushed[at + 1] \in Key
      /\ Held = {i \in 1..index : i > at}
  BY <1>1 DEF Held, First, ShapeOK
<1> DEFINE key == pushed[at + 1]
<1>3. PollableIn(at) = key
  BY <1>1, <1>2, ReadsBack DEF NoClobber
<1>4. IsPollable(key)
  BY <1>1, <1>2 DEF PollablesOK
<1>5. /\ Delete(key) /\ at' = at + 1
      /\ UNCHANGED <<pc, subs, mem, index, count, errno, pushed, vec>>
  BY <1>2, <1>3, <1>4, KeySpaceAssumption DEF DropPollable, ToDrop, IsPollable, Key
<1>6. MapOK' /\ map'[key] = None /\ \A k \in Key : k # key => map'[k] = map[k]
  BY <1>2, <1>5, Deletes
<1>7. n' = n
  BY <1>5 DEF n
<1>8. ShapeOK'
  BY <1>1, <1>5, <1>7 DEF ShapeOK
<1>9. NoClobber'
  <2>1. \A i : ResultAt(i)' = ResultAt(i) /\ PollableAt(i)' = PollableAt(i)
    BY <1>7 DEF ResultAt, PollableAt
  <2> QED
    BY <1>1, <1>5, <1>7, <2>1 DEF NoClobber
<1>10. PollablesOK'
  <2>1. Held' = Held \ {at + 1}
    BY <1>1, <1>2, <1>5 DEF Held, First
  <2>2. \A i \in Held' : pushed[i] # key /\ pushed[i] \in Key
    BY <1>1, <1>2, <2>1 DEF PollablesOK, ShapeOK
  <2>3. \A k \in Key : IsPollable(k)' => IsPollable(k) /\ k # key
    BY <1>6 DEF IsPollable
  <2>4. \A k \in Key : IsPollable(k)' => \E i \in Held' : pushed'[i] = k
    BY <1>1, <1>5, <2>1, <2>3 DEF PollablesOK
  <2>5. \A i \in Held' : IsPollable(pushed[i])'
    BY <1>1, <1>5, <1>6, <2>1, <2>2 DEF PollablesOK, IsPollable
  <2>6. \A i, j \in Held' : pushed'[i] = pushed'[j] => i = j
    BY <1>1, <1>5, <2>1 DEF PollablesOK
  <2> QED
    BY <1>1, <1>5, <2>4, <2>5, <2>6 DEF PollablesOK
<1> QED
  BY <1>6, <1>8, <1>9, <1>10

LEMMA DroppedInv == ASSUME PollInv, Dropped PROVE PollInv'
<1> USE DEF PollInv
<1>1. /\ pc = "drop" /\ at >= index /\ at' = 0
      /\ pc' = (IF errno = "SUCCESS" THEN "events" ELSE "done")
      /\ UNCHANGED <<map, subs, mem, index, count, errno, pushed, vec>>
  BY DEF Dropped, ToDrop
<1>2. n' = n
  BY <1>1 DEF n
<1>3. \A k \in Key : ~IsPollable(k)
  <2>1. Held = {}
    BY <1>1 DEF Held, First, ShapeOK
  <2> QED
    BY <1>1, <2>1 DEF PollablesOK
<1>4. PollablesOK'
  BY <1>1, <1>3 DEF PollablesOK, IsPollable
<1>5. NoClobber'
  <2>1. \A i : ResultAt(i)' = ResultAt(i)
    BY <1>2 DEF ResultAt
  <2> QED
    BY <1>1, <1>2, <2>1 DEF NoClobber
<1>6. count = 0
  BY <1>1 DEF ShapeOK
<1>7. MapOK'
  BY <1>1 DEF MapOK
<1>8. pc' \notin {"push", "drop"} /\ 0 \in 0..n
  <2>1. n \in Nat
    BY DEF ShapeOK, n
  <2> QED
    BY <1>1, <2>1
<1>9. ShapeOK'
  BY <1>1, <1>2, <1>6, <1>8 DEF ShapeOK
<1> QED
  BY <1>4, <1>5, <1>7, <1>9

LEMMA WriteEventInv == ASSUME PollInv, WriteEvent PROVE PollInv'
<1> USE DEF PollInv
<1>1. /\ pc = "events" /\ at < n /\ at' = at + 1
      /\ UNCHANGED <<map, pc, subs, index, errno, pushed, vec>>
      /\ at \in Nat /\ n \in Nat /\ count \in Nat /\ count <= at
  BY DEF WriteEvent, ShapeOK, n
<1>2. n' = n
  BY <1>1 DEF n
<1>3. \/ mem' = Written(EventAt(count), EventByte(at + 1)) /\ count' = count + 1
      \/ mem' = mem /\ count' = count
  BY DEF WriteEvent, EventSlot
<1>4. ShapeOK'
  <2>1. mem' = [b \in 0..(EventSize * n' - 1) |-> mem'[b]]
    BY <1>2, <1>3 DEF ShapeOK, Written
  <2>2. count' \in Nat /\ count' <= at'
    BY <1>1, <1>3
  <2> QED
    BY <1>1, <1>2, <2>1, <2>2 DEF ShapeOK
<1>5. ASSUME NEW i \in at'..(n - 1) PROVE mem'[ResultAt(i)] = ResultByte(vec[i + 1])
  <2>1. i \in 0..(n - 1) /\ i \in at..(n - 1) /\ count < i
    BY <1>1
  <2>2. ResultAt(i) \in DOMAIN mem /\ ResultAt(i) \notin EventAt(count)
    <3>1. ResultAt(i) \in 0..(EventSize * n - 1)
      BY <1>1, <2>1, ResultCells
    <3>2. ResultAt(i) \notin EventAt(count)
      BY <1>1, <2>1, ResultCells
    <3> QED
      BY <3>1, <3>2 DEF ShapeOK
  <2>3. mem'[ResultAt(i)] = mem[ResultAt(i)]
    BY <1>3, <2>2 DEF Written
  <2> QED
    BY <1>1, <2>1, <2>3 DEF NoClobber
<1>6. NoClobber'
  <2>1. \A i : ResultAt(i)' = ResultAt(i)
    BY <1>2 DEF ResultAt
  <2> QED
    BY <1>1, <1>2, <1>5, <2>1 DEF NoClobber
<1>7. MapOK' /\ PollablesOK'
  BY <1>1 DEF MapOK, PollablesOK, IsPollable
<1> QED
  BY <1>4, <1>6, <1>7

LEMMA FinishInv == ASSUME PollInv, Finish PROVE PollInv'
<1> USE DEF PollInv
<1>1. /\ pc = "events" /\ pc' = "done"
      /\ UNCHANGED <<map, subs, mem, index, at, count, pushed>>
  BY DEF Finish
<1>2. ShapeOK'
  BY <1>1 DEF ShapeOK, n
<1>3. NoClobber'
  BY <1>1 DEF NoClobber
<1> QED
  BY <1>1, <1>2, <1>3 DEF MapOK, PollablesOK, IsPollable

LEMMA ReturnInv == ASSUME PollInv, Return PROVE PollInv'
<1> USE DEF PollInv
<1>1. /\ pc = "done" /\ pc' = "idle" /\ subs' = <<>> /\ mem' = <<>> /\ pushed' = <<>>
      /\ index' = 0 /\ at' = 0 /\ count' = 0 /\ map' = map
  BY DEF Return
<1>2. n' = 0
  BY <1>1 DEF n
<1>3. EventSize * n' - 1 = -1
  BY <1>2, SizeAssumption
<1>4. ShapeOK'
  BY <1>1, <1>2, <1>3 DEF ShapeOK
<1>5. NoClobber'
  BY <1>1 DEF NoClobber
<1> QED
  BY <1>1, <1>4, <1>5 DEF MapOK, PollablesOK, IsPollable

LEMMA OthersInv == ASSUME PollInv, OtherPush \/ OtherDelete PROVE PollInv'
<1> USE DEF PollInv
<1>1. pc = "idle" /\ UNCHANGED <<pc, subs, mem, index, at, count, errno, pushed, vec>>
  BY DEF OtherPush, OtherDelete, adapterVars
<1>2. MapOK' /\ \A key \in Key : ~IsPollable(key)'
  <2>1. \A key \in Key : ~IsPollable(key)
    BY <1>1 DEF PollablesOK
  <2>2. CASE OtherPush
    <3>1. PICK key \in Key : Push(Other, key)
      BY <2>2 DEF OtherPush
    <3> QED
      BY <2>1, <3>1, Pushes DEF IsPollable
  <2>3. CASE OtherDelete
    <3>1. PICK key \in Key : Delete(key)
      BY <2>3 DEF OtherDelete, Live
    <3> QED
      BY <2>1, <3>1, Deletes DEF IsPollable
  <2> QED
    BY <2>2, <2>3
<1>3. ShapeOK' /\ NoClobber'
  BY <1>1 DEF ShapeOK, NoClobber, n
<1>4. PollablesOK'
  BY <1>1, <1>2 DEF PollablesOK
<1> QED
  BY <1>2, <1>3, <1>4

-----------------------------------------------------------------------------
(* Theorems *)

(* The inductive invariant of a call, whatever the sizes.                  *)
THEOREM Inductive == Spec => []PollInv
<1>1. PollInv /\ [Next]_vars => PollInv'
  <2> SUFFICES ASSUME PollInv, [Next]_vars PROVE PollInv'
    OBVIOUS
  <2>1. CASE UNCHANGED vars
    BY <2>1, FrameInv DEF vars, adapterVars
  <2>2. CASE \E len \in 0..MaxSubs : \E s \in [1..len -> Subscription] : Call(s)
    BY <2>2, CallInv
  <2>3. CASE AdapterStep
    <3>1. ASSUME NEW key \in Key, Subscribe(key) PROVE PollInv'
      BY <3>1, SubscribeInv
    <3>2. CASE SubscribeTraps \/ HostPollTraps
      BY <3>2, TrapInv DEF SubscribeTraps, HostPollTraps
    <3> QED
      BY <2>3, <3>1, <3>2, SubscribeFailsInv, HostPollInv, DropPollableInv, DroppedInv,
         WriteEventInv, FinishInv, ReturnInv DEF AdapterStep
  <2>4. CASE HostStep
    <3>1. ASSUME NEW awake, HostAnswers(awake) PROVE PollInv'
      BY <3>1, HostAnswersInv
    <3>2. CASE HostAskTraps \/ HostErrorTraps
      BY <3>2, TrapInv DEF HostAskTraps, HostErrorTraps
    <3>3. CASE HostAsks \/ HostInterrupted
      BY <3>3, FrameInv DEF HostAsks, HostInterrupted, adapterVars
    <3> QED
      BY <2>4, <3>1, <3>2, <3>3 DEF HostStep
  <2>5. CASE TimePasses
    BY <2>5, FrameInv DEF TimePasses, adapterVars
  <2>6. CASE OtherPush \/ OtherDelete
    BY <2>6, OthersInv
  <2> QED
    BY <2>1, <2>2, <2>3, <2>4, <2>5, <2>6 DEF Next
<1> QED
  BY InitInv, <1>1, PTL DEF Spec

(* No use of the buffer overwrites what another still needs, for every     *)
(* number of subscriptions (lib.rs:1577-1598).                             *)
THEOREM BufferNeverClobbered == Spec => []NoClobber
<1>1. PollInv => NoClobber
  BY DEF PollInv
<1> QED
  BY Inductive, <1>1, PTL

(* A call that has returned has dropped all its pollables.                 *)
THEOREM PollablesAreDropped == Spec => []TableRestored
<1>1. PollInv => TableRestored
  BY DEF PollInv, PollablesOK, TableRestored, IsPollable
<1> QED
  BY Inductive, <1>1, PTL

OthersStay == pc # "idle" => \A key \in Key : map[key] = Other => map'[key] = Other
NotReplaced == \A key \in Key : map[key] # None => map'[key] \in {map[key], None}

(* How a step may change the table. *)
LEMMA TableSteps ==
  ASSUME PollInv, [Next]_vars
  PROVE  OthersStay /\ NotReplaced
<1>1. CASE map' = map
  BY <1>1 DEF OthersStay, NotReplaced
<1>2. ASSUME NEW key \in Key, Subscribe(key) PROVE OthersStay /\ NotReplaced
  <2>1. PICK entry : Push(entry, key)
    BY <1>2 DEF Subscribe
  <2>2. map[key] = None /\ \A k \in Key : k # key => map'[k] = map[k]
    BY <2>1, Pushes DEF PollInv
  <2> QED
    BY <2>2, NoneAssumption DEF OthersStay, NotReplaced
<1>3. CASE DropPollable
  <2>1. pc = "drop" /\ at < index /\ at \in Nat /\ index \in Nat
    BY <1>3 DEF DropPollable, ToDrop, PollInv, ShapeOK, n
  <2>2. at + 1 \in Held /\ pushed[at + 1] \in Key
    BY <2>1 DEF Held, First, PollInv, ShapeOK
  <2>3. PollableIn(at) = pushed[at + 1] /\ IsPollable(pushed[at + 1])
    BY <2>1, <2>2, ReadsBack DEF PollInv, NoClobber, PollablesOK
  <2>4. Delete(pushed[at + 1])
    BY <1>3, <2>2, <2>3, KeySpaceAssumption DEF DropPollable, IsPollable, Key
  <2> QED
    BY <2>2, <2>3, <2>4, Deletes DEF PollInv, OthersStay, NotReplaced, IsPollable
<1>4. CASE OtherPush
  <2>1. PICK key \in Key : Push(Other, key)
    BY <1>4 DEF OtherPush
  <2> QED
    BY <1>4, <2>1, Pushes DEF PollInv, OthersStay, NotReplaced, OtherPush
<1>5. CASE OtherDelete
  <2>1. PICK key \in Key : Delete(key)
    BY <1>5 DEF OtherDelete, Live
  <2> QED
    BY <1>5, <2>1, Deletes DEF PollInv, OthersStay, NotReplaced, OtherDelete
<1>6. CASE HostStep \/ TimePasses
  BY <1>1, <1>6 DEF HostStep, TimePasses, HostAsks, HostAskTraps, HostInterrupted,
     HostErrorTraps, HostAnswers, Trap
<1>7. CASE SubscribeFails \/ SubscribeTraps \/ HostPoll \/ HostPollTraps
           \/ Dropped \/ WriteEvent \/ Finish \/ Return
  BY <1>1, <1>7 DEF SubscribeFails, SubscribeTraps, HostPoll, HostPollTraps, Trap,
     Dropped, WriteEvent, Finish, Return
<1>8. ASSUME NEW s, Call(s) PROVE OthersStay /\ NotReplaced
  BY <1>1, <1>8 DEF Call
<1>9. CASE UNCHANGED vars
  BY <1>1, <1>9 DEF vars
<1> QED
  BY <1>2, <1>3, <1>4, <1>5, <1>6, <1>7, <1>8, <1>9 DEF Next, AdapterStep

(* During a call no resource of the rest of the program disappears: the    *)
(* pollables a call drops are those it made.                               *)
THEOREM OthersAreKept == Spec => CallsKeepOthers
<1>1. PollInv /\ [Next]_vars => [OthersStay]_vars
  BY TableSteps
<1> QED
  BY Inductive, <1>1, PTL DEF Spec, CallsKeepOthers, OthersStay

(* A key in use is not handed out, for every number of keys and wherever   *)
(* the search for a free key starts.                                       *)
THEOREM KeysAreFresh == Spec => NeverReplaced
<1>1. PollInv /\ [Next]_vars => [NotReplaced]_vars
  BY TableSteps
<1> QED
  BY Inductive, <1>1, PTL DEF Spec, NeverReplaced, NotReplaced
-----------------------------------------------------------------------------
(* Events *)

(* The events written are those of the subscriptions looked at. *)
WrittenUpTo(i) ==
  /\ count = ReadyUpTo(i)
  /\ \A j \in 1..i : vec[j] => \A b \in EventAt(ReadyUpTo(j) - 1) : mem[b] = EventByte(j)

EventsOK ==
  /\ pc = "events" => WrittenUpTo(at)
  /\ pc = "done" /\ errno = "SUCCESS" => WrittenUpTo(n)


LEMMA ReadyTypes ==
  ASSUME NEW i \in Nat
  PROVE  IsFiniteSet({j \in 1..i : vec[j]}) /\ ReadyUpTo(i) \in Nat
<1>1. IsFiniteSet(1..i)
  BY FS_Interval
<1>2. {j \in 1..i : vec[j]} \in SUBSET (1..i)
  OBVIOUS
<1>3. IsFiniteSet({j \in 1..i : vec[j]})
  BY <1>1, <1>2, FS_Subset
<1> QED
  BY <1>3, FS_CardinalityType DEF ReadyUpTo

LEMMA NoneReady == ReadyUpTo(0) = 0
<1>1. {j \in 1..0 : vec[j]} = {}
  OBVIOUS
<1> QED
  BY <1>1, FS_EmptySet DEF ReadyUpTo

LEMMA OneMore ==
  ASSUME NEW i \in Nat
  PROVE  ReadyUpTo(i + 1) = IF vec[i + 1] THEN ReadyUpTo(i) + 1 ELSE ReadyUpTo(i)
<1> DEFINE S == {j \in 1..i : vec[j]}
           T == {j \in 1..(i + 1) : vec[j]}
<1>1. IsFiniteSet(S) /\ i + 1 \notin S /\ Cardinality(S) \in Nat
  BY ReadyTypes DEF ReadyUpTo
<1>2. T = IF vec[i + 1] THEN S \cup {i + 1} ELSE S
  OBVIOUS
<1>3. Cardinality(S \cup {i + 1}) = Cardinality(S) + 1
  BY <1>1, FS_AddElement
<1>4. Cardinality(T) = IF vec[i + 1] THEN Cardinality(S) + 1 ELSE Cardinality(S)
  BY <1>2, <1>3
<1> QED
  BY <1>4 DEF ReadyUpTo

LEMMA ReadyGrows ==
  ASSUME NEW i \in Nat, NEW j \in Nat, i <= j
  PROVE  ReadyUpTo(i) <= ReadyUpTo(j)
<1>1. {k \in 1..i : vec[k]} \in SUBSET {k \in 1..j : vec[k]}
  OBVIOUS
<1> QED
  BY <1>1, ReadyTypes, FS_Subset DEF ReadyUpTo

LEMMA ReadyCounts ==
  ASSUME NEW i \in Nat, NEW j \in 1..i, vec[j]
  PROVE  ReadyUpTo(j) >= 1 /\ ReadyUpTo(i) >= 1
<1>1. j \in {k \in 1..j : vec[k]} /\ j \in Nat /\ j <= i
  OBVIOUS
<1>2. ReadyUpTo(j) # 0 /\ ReadyUpTo(j) \in Nat
  BY <1>1, ReadyTypes, FS_EmptySet DEF ReadyUpTo
<1>3. ReadyUpTo(j) <= ReadyUpTo(i) /\ ReadyUpTo(i) \in Nat
  BY <1>1, ReadyGrows, ReadyTypes
<1> QED
  BY <1>2, <1>3

(* Events are cells of their own. *)
LEMMA EventCells ==
  ASSUME NEW i \in Nat, NEW j \in Nat, i < j, NEW b \in EventAt(i)
  PROVE  b \notin EventAt(j)
<1> SUFFICES ASSUME b \in EventAt(j) PROVE FALSE
  OBVIOUS
<1>1. PICK o \in 0..(EventSize - 1) : b = EventSize * i + o
  BY DEF EventAt
<1>2. PICK u \in 0..(EventSize - 1) : b = EventSize * j + u
  BY DEF EventAt
<1>3. EventSize * i + EventSize <= EventSize * j /\ EventSize \in Nat
  BY Scaled, SizeAssumption
<1>4. EventSize * i \in Nat /\ EventSize * j \in Nat
  BY <1>3
<1> QED
  BY <1>1, <1>2, <1>3, <1>4

LEMMA EventInside ==
  ASSUME n \in Nat, NEW i \in Nat, i < n, NEW b \in EventAt(i)
  PROVE  b \in 0..(EventSize * n - 1)
<1>1. PICK o \in 0..(EventSize - 1) : b = EventSize * i + o
  BY DEF EventAt
<1>2. EventSize * i + EventSize <= EventSize * n /\ EventSize \in Nat
  BY Scaled, SizeAssumption
<1>3. EventSize * i \in Nat /\ EventSize * n \in Nat
  BY <1>2
<1> QED
  BY <1>1, <1>2, <1>3

(* A result is read as the host answered it, and the next event is written *)
(* behind the others.                                                      *)
LEMMA WriteEventEvents ==
  ASSUME PollInv, EventsOK, WriteEvent
  PROVE  EventsOK'
<1>1. /\ pc = "events" /\ pc' = "events" /\ at < n /\ at' = at + 1 /\ vec' = vec /\ n \in Nat
      /\ at \in Nat /\ count \in Nat /\ count <= at
      /\ DOMAIN mem = 0..(EventSize * n - 1)
  BY DEF WriteEvent, PollInv, ShapeOK, n
<1>2. WrittenUpTo(at)
  BY <1>1 DEF EventsOK
<1>3. ReadsReady(mem[ResultAt(at)]) <=> vec[at + 1]
  <2>1. mem[ResultAt(at)] = ResultByte(vec[at + 1])
    BY <1>1 DEF PollInv, NoClobber
  <2> QED
    BY <2>1 DEF ReadsReady, ResultByte
<1>4. ReadyUpTo(at)' = ReadyUpTo(at + 1)
  BY <1>1 DEF ReadyUpTo
<1>5. ReadyUpTo(at + 1) = IF vec[at + 1] THEN ReadyUpTo(at) + 1 ELSE ReadyUpTo(at)
  BY <1>1, OneMore
<1>6. CASE ~vec[at + 1]
  <2>1. mem' = mem /\ count' = count
    BY <1>3, <1>6 DEF WriteEvent
  <2>2. WrittenUpTo(at)'
    <3>1. count' = ReadyUpTo(at)'
      BY <1>1, <1>2, <1>4, <1>5, <1>6, <2>1 DEF WrittenUpTo
    <3>2. ASSUME NEW j \in 1..at', vec'[j], NEW b \in EventAt(ReadyUpTo(j) - 1)
          PROVE  mem'[b] = EventByte(j)
      <4>1. j \in 1..at
        BY <1>1, <1>6, <3>2
      <4> QED
        BY <1>1, <1>2, <2>1, <3>2, <4>1 DEF WrittenUpTo
    <3> QED
      BY <1>1, <3>1, <3>2 DEF WrittenUpTo, ReadyUpTo, EventAt, EventByte
  <2> QED
    BY <1>1, <2>2 DEF EventsOK
<1>7. CASE vec[at + 1]
  <2>1. mem' = Written(EventAt(count), EventByte(at + 1)) /\ count' = count + 1
    BY <1>3, <1>7 DEF WriteEvent, EventSlot
  <2>2. count' = ReadyUpTo(at)' /\ ReadyUpTo(at + 1) = count + 1
    BY <1>1, <1>2, <1>4, <1>5, <1>7, <2>1 DEF WrittenUpTo
  <2>3. ASSUME NEW j \in 1..at', vec'[j], NEW b \in EventAt(ReadyUpTo(j) - 1)
        PROVE  mem'[b] = EventByte(j)
    <3>1. CASE j = at + 1
      <4>1. b \in EventAt(count)
        BY <1>1, <2>2, <2>3, <3>1
      <4>2. count < n
        BY <1>1
      <4>3. b \in DOMAIN mem
        BY <1>1, <4>1, <4>2, EventInside
      <4> QED
        BY <2>1, <3>1, <4>1, <4>3 DEF Written
    <3>2. CASE j # at + 1
      <4>1. j \in 1..at /\ vec[j] /\ j \in Nat /\ j <= at
        BY <1>1, <2>3, <3>2
      <4>2. mem[b] = EventByte(j)
        BY <1>2, <2>3, <4>1 DEF WrittenUpTo
      <4>3. ReadyUpTo(j) >= 1 /\ ReadyUpTo(j) <= count /\ ReadyUpTo(j) \in Nat
        <5>1. ReadyUpTo(j) >= 1
          BY <1>1, <4>1, ReadyCounts
        <5>2. ReadyUpTo(j) <= ReadyUpTo(at)
          BY <1>1, <4>1, ReadyGrows
        <5> QED
          BY <1>2, <4>1, <5>1, <5>2, ReadyTypes DEF WrittenUpTo
      <4>4. ReadyUpTo(j) - 1 \in Nat /\ ReadyUpTo(j) - 1 < count /\ ReadyUpTo(j) - 1 < n
        BY <1>1, <4>3
      <4>5. b \notin EventAt(count) /\ b \in DOMAIN mem
        <5>1. b \notin EventAt(count)
          BY <1>1, <2>3, <4>4, EventCells
        <5>2. b \in 0..(EventSize * n - 1)
          BY <1>1, <2>3, <4>4, EventInside
        <5> QED
          BY <1>1, <5>1, <5>2
      <4> QED
        BY <2>1, <4>2, <4>5 DEF Written
    <3> QED
      BY <3>1, <3>2
  <2>4. WrittenUpTo(at)'
    BY <1>1, <2>2, <2>3 DEF WrittenUpTo, ReadyUpTo, EventAt, EventByte
  <2> QED
    BY <1>1, <2>4 DEF EventsOK
<1> QED
  BY <1>6, <1>7

LEMMA EventsKept ==
  ASSUME PollInv, EventsOK, [Next]_vars
  PROVE  EventsOK'
<1>1. CASE pc' \notin {"events", "done"}
  BY <1>1 DEF EventsOK
<1>2. CASE WriteEvent
  BY <1>2, WriteEventEvents
<1>3. CASE Dropped
  <2>1. pc = "drop" /\ at' = 0 /\ count' = count /\ count = 0
    BY <1>3 DEF Dropped, PollInv, ShapeOK
  <2>2. pc' = "events" \/ (pc' = "done" /\ errno' # "SUCCESS")
    BY <1>3 DEF Dropped
  <2>3. ReadyUpTo(0)' = 0
    BY NoneReady DEF ReadyUpTo
  <2>4. pc' = "events" => WrittenUpTo(at)'
    BY <2>1, <2>3 DEF WrittenUpTo
  <2> QED
    BY <2>2, <2>4 DEF EventsOK
<1>4. CASE Finish
  <2>1. pc = "events" /\ at = n /\ pc' = "done" /\ UNCHANGED <<subs, mem, count, vec>>
    BY <1>4 DEF Finish
  <2>2. WrittenUpTo(n)
    BY <2>1 DEF EventsOK
  <2>3. WrittenUpTo(n)'
    BY <2>1, <2>2 DEF WrittenUpTo, ReadyUpTo, EventAt, EventByte, n
  <2> QED
    BY <2>1, <2>3 DEF EventsOK
<1>5. CASE UNCHANGED <<pc, subs, mem, at, count, errno, vec>>
  BY <1>5 DEF EventsOK, WrittenUpTo, ReadyUpTo, EventAt, EventByte, n
<1>6. ASSUME NEW s, Call(s) PROVE EventsOK'
  <2>1. (pc' = "done" /\ errno' = "INVAL") \/ pc' = "push"
    BY <1>6 DEF Call
  <2> QED
    BY <2>1 DEF EventsOK
<1>7. CASE HostStep \/ TimePasses \/ OtherPush \/ OtherDelete
  <2>1. UNCHANGED <<pc, subs, mem, at, count, errno, vec>> \/ pc' \in {"trapped", "drop"}
    BY <1>7 DEF HostStep, TimePasses, OtherPush, OtherDelete, HostAsks, HostAskTraps,
                HostInterrupted, HostErrorTraps, HostAnswers, Trap, adapterVars
  <2> QED
    BY <1>1, <1>5, <2>1
<1>8. CASE AdapterStep /\ ~(WriteEvent \/ Dropped \/ Finish)
  <2>1. pc' \notin {"events", "done"}
    BY <1>8 DEF AdapterStep, Subscribe, SubscribeFails, AfterError, SubscribeTraps, HostPoll,
                HostPollTraps, DropPollable, Return, Trap
  <2> QED
    BY <1>1, <2>1
<1>9. CASE UNCHANGED vars
  BY <1>5, <1>9 DEF vars, adapterVars
<1> QED
  BY <1>2, <1>3, <1>4, <1>6, <1>7, <1>8, <1>9 DEF Next

(* A call that succeeds leaves in the buffer, from its beginning, one whole *)
(* event for each subscription the host found ready, in their order, and    *)
(* returns their number (lib.rs:1688-1825).                                 *)
THEOREM EventsAreTheReadyOnes == Spec => []EventsMatch
<1>1. Init => EventsOK
  BY DEF Init, EventsOK
<1>2. PollInv /\ EventsOK /\ [Next]_vars => EventsOK'
  BY EventsKept
<1>3. EventsOK => EventsMatch
  BY DEF EventsOK, EventsMatch, WrittenUpTo
<1> QED
  BY Inductive, <1>1, <1>2, <1>3, PTL DEF Spec

(* A set of numbers has a least element: the sets of those below each      *)
(* element are finite, so that one of them has no part that is smaller.    *)
LEMMA LeastOf ==
  ASSUME NEW T \in SUBSET Nat, T # {}
  PROVE  \E x \in T : \A y \in T : x <= y
<1> DEFINE Below(x) == {y \in T : y <= x}
           Belows == {Below(x) : x \in T}
<1>1. Belows \subseteq FiniteSubsetsOf(Nat) /\ Belows # {}
  <2>1. ASSUME NEW x \in T PROVE Below(x) \in FiniteSubsetsOf(Nat)
    <3>1. IsFiniteSet(Below(x))
      BY FS_BoundedSetOfNaturals
    <3> QED
      BY <3>1 DEF FiniteSubsetsOf
  <2> QED
    BY <2>1
<1>2. PICK B \in Belows : \A C \in Belows : ~ (<<C, B>> \in StrictSubsetOrdering(Nat))
  <2>1. IsWellFoundedOn(StrictSubsetOrdering(Nat), FiniteSubsetsOf(Nat))
    BY FS_StrictSubsetOrderingWellFounded
  <2> HIDE DEF Belows
  <2> QED
    BY <1>1, <2>1, WFMin
<1>3. PICK x \in T : B = Below(x)
  OBVIOUS
<1>4. ASSUME NEW y \in T, y < x PROVE FALSE
  <2>1. Below(y) \subseteq Below(x) /\ x \in Below(x) /\ x \notin Below(y)
    <3>1. x \in Nat /\ y \in Nat /\ x <= x /\ ~(x <= y) /\ \A z \in Nat : z <= y => z <= x
      BY <1>4
    <3> QED
      BY <3>1
  <2>2. <<Below(y), B>> \in StrictSubsetOrdering(Nat)
    BY <1>3, <2>1 DEF StrictSubsetOrdering
  <2> QED
    BY <1>2, <2>2
<1> QED
  BY <1>4
-----------------------------------------------------------------------------
(* Waiting *)

(* A clock the table holds has a time. *)
TimesOK ==
  \A key \in Key : IsPollable(key) /\ IsClock(map[key]) => map[key].when \in Nat

OnlyClocks == Streams(waiting.entries) = {}

(* What stays as it was when the host began to wait. *)
WaitShape ==
  /\ waiting = [entries |-> waiting.entries, deadlines |-> waiting.deadlines,
                instant |-> waiting.instant, left |-> waiting.left, awake |-> waiting.awake,
                signals |-> waiting.signals, waited |-> waiting.waited]
  /\ n > 0 /\ Len(waiting.entries) = n
  /\ waiting.deadlines \in [Clocks(waiting.entries) -> Nat]
  /\ waiting.instant \subseteq Streams(waiting.entries)
  /\ waiting.waited \in 0..now

(* Time is up for the operating system only after the earliest deadline:   *)
(* what it still has to wait and what the call has waited reach it, also   *)
(* when the wait begins again after a signal.                              *)
LeftOK ==
  Sane /\ waiting.left \notin {None, -1} =>
    /\ waiting.left \in Nat
    /\ waiting.waited + waiting.left >= Earliest(Deadlines)
    /\ Earliest(Deadlines) \in 0..MaxNow

(* What a poll that has ended has waited for. *)
OverOK ==
  /\ Sane /\ OnlyClocks => waiting.waited >= Earliest(Deadlines)
  /\ Sane => \E i \in 1..n : vec[i]

WaitOK ==
  /\ now \in 0..MaxNow
  /\ TimesOK
  /\ pc = "push" => n > 0 /\ errno = "SUCCESS"
  /\ pc = "wait" => WaitShape /\ LeftOK /\ errno = "SUCCESS"
  /\ pc \in {"drop", "events", "done"} /\ errno = "SUCCESS" => WaitShape /\ OverOK

LEMMA EarliestIs ==
  ASSUME WaitShape, Clocks(waiting.entries) # {}
  PROVE  /\ Deadlines # {} /\ Earliest(Deadlines) \in Nat
         /\ \E i \in Clocks(waiting.entries) : waiting.deadlines[i] = Earliest(Deadlines)
<1>1. Deadlines \in SUBSET Nat /\ Deadlines # {}
  BY DEF Deadlines, WaitShape
<1>2. PICK d \in Deadlines : \A e \in Deadlines : d <= e
  BY <1>1, LeastOf
<1>3. Earliest(Deadlines) \in Deadlines
  BY <1>2 DEF Earliest
<1> QED
  BY <1>1, <1>3 DEF Deadlines

(* The entries of a poll are clocks and streams. *)
LEMMA ClocksOrStreams ==
  ASSUME PollInv, WaitShape
  PROVE  /\ n \in Nat
         /\ OnlyClocks => Clocks(waiting.entries) # {}
         /\ \A i \in Clocks(waiting.entries) : i \in 1..n /\ IsClock(waiting.entries[i])
         /\ \A i \in Streams(waiting.entries) : i \in 1..n /\ ~IsClock(waiting.entries[i])
<1>1. n \in Nat
  BY DEF PollInv, ShapeOK, n
<1>2. 1 \in 1..n /\ Len(waiting.entries) = n
  BY <1>1 DEF WaitShape
<1> QED
  BY <1>1, <1>2 DEF OnlyClocks, Streams, Clocks

(* Rounding up to milliseconds waits no less. *)
LEMMA RoundedUp ==
  ASSUME NEW d \in Nat, d + Millisecond - 1 <= MaxU64
  PROVE  Millis(d) \in Nat /\ Millis(d) * Millisecond >= d
<1> DEFINE m == d + Millisecond - 1
<1>1. Millisecond \in Nat /\ Millisecond > 0 /\ MaxU64 \in Nat
  BY TimeAssumption
<1>2. m \in Nat /\ m < MaxU64 + 1
  BY <1>1
<1>3. m % (MaxU64 + 1) = m
  <2> HIDE DEF m
  <2> QED
    BY <1>1, <1>2
<1>4. Millis(d) = m \div Millisecond
  BY <1>3 DEF Millis
<1>5. m = Millisecond * (m \div Millisecond) + (m % Millisecond)
      /\ (m % Millisecond) \in 0..(Millisecond - 1) /\ m \div Millisecond \in Nat
  <2> HIDE DEF m
  <2> QED
    BY <1>1, <1>2
<1>6. PICK q \in Nat, r \in 0..(Millisecond - 1) :
        q = m \div Millisecond /\ m = Millisecond * q + r
  BY <1>5
<1>7. Millisecond * q = q * Millisecond /\ Millisecond * q \in Nat
  BY <1>1
<1>8. q * Millisecond >= d
  BY <1>1, <1>6, <1>7
<1> QED
  BY <1>4, <1>6, <1>8

(* Nothing of a poll depends on how the wait goes, but `left' and `waited'. *)
LEMMA SamePoll ==
  ASSUME waiting'.entries = waiting.entries, waiting'.deadlines = waiting.deadlines
  PROVE  /\ Deadlines' = Deadlines /\ (Sane' <=> Sane) /\ (OnlyClocks' <=> OnlyClocks)
         /\ Clocks(waiting.entries)' = Clocks(waiting.entries)
         /\ Streams(waiting.entries)' = Streams(waiting.entries)
<1>1. Clocks(waiting.entries)' = Clocks(waiting.entries)
  BY DEF Clocks, IsClock
<1>2. Streams(waiting.entries)' = Streams(waiting.entries)
  BY <1>1 DEF Streams, Clocks, IsClock
<1>3. Deadlines' = Deadlines
  BY <1>1 DEF Deadlines
<1> QED
  BY <1>1, <1>2, <1>3 DEF Sane, OnlyClocks

LEMMA WaitFrame ==
  ASSUME UNCHANGED <<waiting, now, subs, vec>>
  PROVE  /\ WaitShape' <=> WaitShape
         /\ LeftOK' <=> LeftOK
         /\ OverOK' <=> OverOK
<1>1. /\ Deadlines' = Deadlines /\ (Sane' <=> Sane) /\ (OnlyClocks' <=> OnlyClocks)
      /\ Clocks(waiting.entries)' = Clocks(waiting.entries)
      /\ Streams(waiting.entries)' = Streams(waiting.entries)
  BY SamePoll
<1>2. n' = n
  BY DEF n
<1> QED
  BY <1>1, <1>2 DEF WaitShape, LeftOK, OverOK

LEMMA TimesFrame ==
  ASSUME TimesOK, \A key \in Key : map'[key] = map[key] \/ map'[key] \in {None, Other}
  PROVE  TimesOK'
BY DEF TimesOK, IsPollable, IsClock

-----------------------------------------------------------------------------
(* Steps of the wait *)

(* The entries come from the table, where their times are numbers. *)
LEMMA WaitBegins ==
  ASSUME PollInv, WaitOK, HostPoll
  PROVE  WaitOK'
<1>1. /\ pc = "push" /\ pc' = "wait" /\ AllKnown /\ n \in Nat /\ n > 0 /\ now \in 0..MaxNow
      /\ errno = "SUCCESS" /\ now \in Nat
      /\ UNCHANGED <<map, now, subs, errno>>
  BY TimeAssumption DEF HostPoll, PollInv, ShapeOK, WaitOK, n, Collect
<1>2. PICK filled : Collect(Entry, filled)
  BY DEF HostPoll
<1>3. \A i \in 1..n : Handed[i] \in Key /\ Entry[i] = map[Handed[i]] /\ IsPollable(Handed[i])
  <2> SUFFICES ASSUME NEW i \in 1..n
               PROVE  Handed[i] \in Key /\ Entry[i] = map[Handed[i]] /\ IsPollable(Handed[i])
    OBVIOUS
  <2>1. Handed[i] = PollableIn(i - 1) /\ Handed[i] # None /\ IsPollable(Handed[i])
    BY <1>1 DEF AllKnown, Handed
  <2>2. PollableIn(i - 1) \in Key \cup {None}
    BY DEF PollableIn
  <2> QED
    BY <2>1, <2>2 DEF Entry
<1>4. Len(Entry) = n
  BY <1>1 DEF Entry
<1>5. \A i \in Clocks(Entry) : Relative(Entry[i]) \in Nat
  <2> SUFFICES ASSUME NEW i \in Clocks(Entry) PROVE Relative(Entry[i]) \in Nat
    OBVIOUS
  <2>1. i \in 1..n /\ IsClock(Entry[i])
    BY <1>4 DEF Clocks
  <2>2. Entry[i].when \in Nat
    BY <1>3, <2>1 DEF WaitOK, TimesOK
  <2> QED
    BY <1>1, <2>2 DEF Relative
<1>6. /\ waiting'.entries = Entry /\ waiting'.left = None /\ waiting'.waited = 0
      /\ waiting'.deadlines = [i \in Clocks(Entry) |-> Relative(Entry[i])]
      /\ waiting'.instant \subseteq Streams(Entry)
      /\ waiting' = [entries |-> waiting'.entries, deadlines |-> waiting'.deadlines,
                     instant |-> waiting'.instant, left |-> waiting'.left,
                     awake |-> waiting'.awake, signals |-> waiting'.signals,
                     waited |-> waiting'.waited]
  BY <1>2 DEF Collect
<1>7. PICK es, ds : es = Entry /\ ds = [i \in Clocks(Entry) |-> Relative(Entry[i])]
  OBVIOUS
<1>8. ds \in [Clocks(es) -> Nat] /\ waiting'.entries = es /\ waiting'.deadlines = ds /\ Len(es) = n
      /\ waiting'.instant \subseteq Streams(es)
  BY <1>4, <1>5, <1>6, <1>7
<1>9. WaitShape'
  <2>1. Clocks(waiting.entries)' = Clocks(es) /\ Streams(waiting.entries)' = Streams(es)
    BY <1>8 DEF Streams, Clocks, IsClock
  <2>2. n' = n /\ 0 \in 0..now
    BY <1>1 DEF n
  <2> QED
    BY <1>1, <1>6, <1>8, <2>1, <2>2 DEF WaitShape
<1>10. LeftOK'
  BY <1>6 DEF LeftOK
<1>11. TimesOK'
  BY <1>1 DEF WaitOK, TimesOK, IsPollable, IsClock
<1> QED
  BY <1>1, <1>9, <1>10, <1>11 DEF WaitOK

(* The operating system is asked for a time that is long enough. *)
LEMMA AskKeeps ==
  ASSUME PollInv, WaitOK, HostAsks
  PROVE  WaitOK'
<1>1. /\ pc = "wait" /\ WaitShape /\ LeftOK /\ Timeout <= MaxI32
      /\ waiting' = [waiting EXCEPT !.left = IF Timeout = -1 THEN -1 ELSE Timeout * Millisecond]
      /\ UNCHANGED <<map, now, pc, subs, errno, vec>>
  BY DEF HostAsks, OsPoll, WaitOK, adapterVars
<1>2. /\ waiting'.entries = waiting.entries /\ waiting'.deadlines = waiting.deadlines
      /\ waiting'.instant = waiting.instant /\ waiting'.waited = waiting.waited
      /\ waiting'.left = (IF Timeout = -1 THEN -1 ELSE Timeout * Millisecond)
      /\ waiting' = [entries |-> waiting'.entries, deadlines |-> waiting'.deadlines,
                     instant |-> waiting'.instant, left |-> waiting'.left,
                     awake |-> waiting'.awake, signals |-> waiting'.signals,
                     waited |-> waiting'.waited]
  BY <1>1 DEF WaitShape
<1>3. /\ Deadlines' = Deadlines /\ (Sane' <=> Sane) /\ (OnlyClocks' <=> OnlyClocks)
      /\ Clocks(waiting.entries)' = Clocks(waiting.entries)
      /\ Streams(waiting.entries)' = Streams(waiting.entries)
  BY <1>2, SamePoll
<1>4. WaitShape' /\ n' = n
  BY <1>1, <1>2, <1>3 DEF WaitShape, n
<1>5. LeftOK'
  <2>1. CASE Deadlines = {}
    <3>1. waiting'.left = -1
      BY <1>2, <2>1 DEF Timeout
    <3> QED
      BY <3>1 DEF LeftOK
  <2>2. CASE Deadlines # {} /\ Sane
    <3>1. Clocks(waiting.entries) # {}
      BY <2>2 DEF Deadlines
    <3>2. PICK e : e = Earliest(Deadlines)
      OBVIOUS
    <3>3. e \in Nat /\ e \in Deadlines
      BY <1>1, <3>1, <3>2, EarliestIs DEF Deadlines
    <3>4. e + Millisecond - 1 <= MaxU64
      BY <2>2, <3>3 DEF Sane
    <3>5. Timeout = Millis(e)
      BY <2>2, <3>2 DEF Timeout
    <3>6. PICK t : t = Millis(e)
      OBVIOUS
    <3>7. t \in Nat /\ t * Millisecond >= e /\ t <= MaxI32
      BY <1>1, <3>3, <3>4, <3>5, <3>6, RoundedUp
    <3>8. waiting'.left = t * Millisecond
      BY <1>2, <3>5, <3>6, <3>7
    <3>9. t * Millisecond \in Nat /\ t * Millisecond <= MaxI32 * Millisecond
      <4>1. t \in Nat /\ MaxI32 \in Nat /\ Millisecond \in Nat /\ t <= MaxI32
        BY <3>7, TimeAssumption
      <4>2. PICK k \in Nat : MaxI32 = t + k
        <5>1. MaxI32 - t \in Nat /\ MaxI32 = t + (MaxI32 - t)
          BY <4>1
        <5> QED
          BY <5>1
      <4>3. MaxI32 * Millisecond = t * Millisecond + k * Millisecond
            /\ k * Millisecond \in Nat /\ t * Millisecond \in Nat
        BY <4>1, <4>2
      <4> QED
        BY <4>3
    <3>10. e <= MaxNow
      <4>1. MaxI32 * Millisecond <= MaxNow /\ MaxNow \in Nat /\ MaxI32 * Millisecond \in Nat
        BY TimeAssumption
      <4> QED
        BY <3>3, <3>7, <3>9, <4>1
    <3>11. waiting'.waited \in Nat
      <4>1. now \in 0..MaxNow /\ waiting.waited \in 0..now
        BY <1>1 DEF WaitOK, WaitShape
      <4> QED
        BY <1>2, <4>1
    <3>12. waiting'.waited + waiting'.left >= e /\ waiting'.left \in Nat
      BY <3>3, <3>7, <3>8, <3>9, <3>11
    <3>13. e \in 0..MaxNow
      BY <3>3, <3>10, TimeAssumption
    <3> QED
      BY <1>3, <3>2, <3>12, <3>13 DEF LeftOK
  <2>3. CASE ~Sane
    BY <1>3, <2>3 DEF LeftOK
  <2> QED
    BY <2>1, <2>2, <2>3
<1>6. TimesOK'
  BY <1>1 DEF WaitOK, TimesOK, IsPollable, IsClock
<1> QED
  BY <1>1, <1>4, <1>5, <1>6 DEF WaitOK

LEMMA SignalKeeps ==
  ASSUME PollInv, WaitOK, HostInterrupted
  PROVE  WaitOK'
<1>1. /\ pc = "wait" /\ WaitShape
      /\ waiting' = [waiting EXCEPT !.left = None, !.signals = @ - 1]
      /\ UNCHANGED <<map, now, pc, subs, errno, vec>>
  BY DEF HostInterrupted, Signal, WaitOK, adapterVars
<1>2. /\ waiting'.entries = waiting.entries /\ waiting'.deadlines = waiting.deadlines
      /\ waiting'.instant = waiting.instant /\ waiting'.waited = waiting.waited
      /\ waiting'.left = None
      /\ waiting' = [entries |-> waiting'.entries, deadlines |-> waiting'.deadlines,
                     instant |-> waiting'.instant, left |-> waiting'.left,
                     awake |-> waiting'.awake, signals |-> waiting'.signals,
                     waited |-> waiting'.waited]
  BY <1>1 DEF WaitShape
<1>3. /\ Clocks(waiting.entries)' = Clocks(waiting.entries)
      /\ Streams(waiting.entries)' = Streams(waiting.entries)
  BY <1>2, SamePoll
<1>4. WaitShape'
  BY <1>1, <1>2, <1>3 DEF WaitShape, n
<1>5. LeftOK'
  BY <1>2 DEF LeftOK
<1>6. TimesOK'
  BY <1>1 DEF WaitOK, TimesOK, IsPollable, IsClock
<1> QED
  BY <1>1, <1>4, <1>5, <1>6 DEF WaitOK

(* A nanosecond more of waiting is one less to wait, until the bound on    *)
(* time, which no deadline exceeds.                                        *)
LEMMA TickKeeps ==
  ASSUME PollInv, WaitOK, TimePasses
  PROVE  WaitOK'
<1>1. /\ now' = IF now < MaxNow THEN now + 1 ELSE now
      /\ waiting' =
           IF waiting = None THEN None
           ELSE [waiting EXCEPT
                   !.left = IF @ \in {None, -1, 0} THEN @ ELSE @ - 1,
                   !.waited = IF @ < MaxNow THEN @ + 1 ELSE @]
      /\ UNCHANGED <<map, pc, subs, errno, vec>>
  BY DEF TimePasses, Tick, adapterVars
<1>2. now \in 0..MaxNow /\ now' \in 0..MaxNow /\ MaxNow \in Nat /\ now \in Nat /\ now <= now'
  BY <1>1, TimeAssumption DEF WaitOK
<1>3. ASSUME WaitShape
      PROVE  /\ WaitShape' /\ (LeftOK => LeftOK') /\ (OverOK => OverOK')
  <2>1. CASE waiting = None
    <3>1. waiting' = waiting /\ waiting.waited \in 0..now'
      <4>1. waiting.waited \in 0..now
        BY <1>3 DEF WaitShape
      <4> QED
        BY <1>1, <1>2, <2>1, <4>1
    <3>2. /\ Deadlines' = Deadlines /\ (Sane' <=> Sane) /\ (OnlyClocks' <=> OnlyClocks)
          /\ Clocks(waiting.entries)' = Clocks(waiting.entries)
          /\ Streams(waiting.entries)' = Streams(waiting.entries)
      BY <3>1, SamePoll
    <3>3. n' = n
      BY <1>1 DEF n
    <3> QED
      BY <1>1, <1>3, <3>1, <3>2, <3>3 DEF WaitShape, LeftOK, OverOK
  <2>2. CASE waiting # None
    <3>1. /\ waiting'.entries = waiting.entries /\ waiting'.deadlines = waiting.deadlines
          /\ waiting'.instant = waiting.instant
          /\ waiting'.left = (IF waiting.left \in {None, -1, 0} THEN waiting.left
                              ELSE waiting.left - 1)
          /\ waiting'.waited = (IF waiting.waited < MaxNow THEN waiting.waited + 1
                                ELSE waiting.waited)
          /\ waiting' = [entries |-> waiting'.entries, deadlines |-> waiting'.deadlines,
                         instant |-> waiting'.instant, left |-> waiting'.left,
                         awake |-> waiting'.awake, signals |-> waiting'.signals,
                         waited |-> waiting'.waited]
      BY <1>1, <1>3, <2>2 DEF WaitShape
    <3>2. /\ Deadlines' = Deadlines /\ (Sane' <=> Sane) /\ (OnlyClocks' <=> OnlyClocks)
          /\ Clocks(waiting.entries)' = Clocks(waiting.entries)
          /\ Streams(waiting.entries)' = Streams(waiting.entries)
      BY <3>1, SamePoll
    <3>3. n' = n
      BY <1>1 DEF n
    <3>4. waiting.waited \in Nat /\ waiting.waited <= now
      <4>1. waiting.waited \in 0..now
        BY <1>3 DEF WaitShape
      <4> QED
        BY <1>2, <4>1
    <3>5. waiting'.waited \in 0..now' /\ waiting'.waited >= waiting.waited
      BY <1>1, <1>2, <3>1, <3>4
    <3>6. WaitShape'
      BY <1>3, <3>1, <3>2, <3>3, <3>5 DEF WaitShape
    <3>7. LeftOK => LeftOK'
      <4> SUFFICES ASSUME LeftOK, Sane, waiting'.left \notin {None, -1}
                   PROVE  /\ waiting'.left \in Nat
                          /\ waiting'.waited + waiting'.left >= Earliest(Deadlines)
                          /\ Earliest(Deadlines) \in 0..MaxNow
        BY <3>2 DEF LeftOK
      <4>1. waiting.left \notin {None, -1}
        BY <3>1
      <4>2. /\ waiting.left \in Nat
            /\ waiting.waited + waiting.left >= Earliest(Deadlines)
            /\ Earliest(Deadlines) \in 0..MaxNow
        BY <4>1 DEF LeftOK
      <4>3. PICK l \in Nat, w \in Nat, e \in 0..MaxNow :
              l = waiting.left /\ w = waiting.waited /\ e = Earliest(Deadlines)
        BY <3>4, <4>2
      <4>4. waiting'.left = (IF l = 0 THEN 0 ELSE l - 1)
            /\ waiting'.waited = (IF w < MaxNow THEN w + 1 ELSE w) /\ w + l >= e
        BY <3>1, <4>1, <4>2, <4>3
      <4>5. waiting'.left \in Nat /\ waiting'.waited + waiting'.left >= e
        BY <1>2, <4>3, <4>4
      <4> QED
        BY <4>3, <4>5
    <3>8. OverOK => OverOK'
      <4> SUFFICES ASSUME OverOK PROVE OverOK'
        OBVIOUS
      <4>1. Sane /\ OnlyClocks => waiting'.waited >= Earliest(Deadlines)
        <5> SUFFICES ASSUME Sane, OnlyClocks PROVE waiting'.waited >= Earliest(Deadlines)
          OBVIOUS
        <5>1. waiting.waited >= Earliest(Deadlines)
          BY DEF OverOK
        <5>2. Earliest(Deadlines) \in Nat
          BY <1>3, ClocksOrStreams, EarliestIs
        <5> QED
          BY <3>4, <3>5, <5>1, <5>2, <1>2
      <4> QED
        BY <1>1, <3>2, <3>3, <4>1 DEF OverOK
    <3> QED
      BY <3>6, <3>7, <3>8
  <2> QED
    BY <2>1, <2>2
<1>4. TimesOK'
  BY <1>1 DEF WaitOK, TimesOK, IsPollable, IsClock
<1>5. n' = n
  BY <1>1 DEF n
<1> QED
  BY <1>1, <1>2, <1>3, <1>4, <1>5 DEF WaitOK

(* Streams are all reported; without any, time is up, and the clock whose  *)
(* deadline was the earliest is ready.                                     *)
LEMMA AnswerKeeps ==
  ASSUME PollInv, WaitOK, NEW awake, HostAnswers(awake)
  PROVE  WaitOK'
<1>1. /\ pc = "wait" /\ WaitShape /\ LeftOK /\ errno = "SUCCESS" /\ pc' = "drop"
      /\ UNCHANGED <<map, subs, errno>>
  BY DEF HostAnswers, WaitOK
<1>2. PICK completed \in SUBSET Streams(waiting.entries) :
        /\ OsReturns(awake, completed) \/ (awake = {} /\ Instantly(completed))
        /\ vec' = Results(completed)
  BY DEF HostAnswers
<1>3. now' = now /\ \E a, l : waiting' = [waiting EXCEPT !.awake = a, !.left = l]
  <2>1. CASE OsReturns(awake, completed)
    BY <2>1 DEF OsReturns
  <2>2. CASE Instantly(completed)
    <3>1. waiting' = [waiting EXCEPT !.awake = waiting.instant, !.left = waiting.left]
      BY <1>1, <2>2 DEF Instantly, WaitShape
    <3> QED
      BY <2>2, <3>1 DEF Instantly
  <2> QED
    BY <1>2, <2>1, <2>2
<1>4. /\ waiting'.entries = waiting.entries /\ waiting'.deadlines = waiting.deadlines
      /\ waiting'.instant = waiting.instant /\ waiting'.waited = waiting.waited
      /\ waiting' = [entries |-> waiting'.entries, deadlines |-> waiting'.deadlines,
                     instant |-> waiting'.instant, left |-> waiting'.left,
                     awake |-> waiting'.awake, signals |-> waiting'.signals,
                     waited |-> waiting'.waited]
  BY <1>1, <1>3 DEF WaitShape
<1>5. /\ Deadlines' = Deadlines /\ (Sane' <=> Sane) /\ (OnlyClocks' <=> OnlyClocks)
      /\ Clocks(waiting.entries)' = Clocks(waiting.entries)
      /\ Streams(waiting.entries)' = Streams(waiting.entries)
  BY <1>4, SamePoll
<1>6. n' = n /\ n \in Nat
  BY <1>1, ClocksOrStreams DEF n
<1>7. WaitShape'
  BY <1>1, <1>3, <1>4, <1>5, <1>6 DEF WaitShape
<1>8. ASSUME OnlyClocks PROVE OsReturns(awake, completed) /\ waiting.left = 0
  <2>1. OsReturns(awake, completed)
    BY <1>1, <1>2, <1>8 DEF Instantly, WaitShape, OnlyClocks
  <2> QED
    BY <1>8, <2>1 DEF OsReturns, OnlyClocks
<1>9. ASSUME OnlyClocks, Sane PROVE waiting.waited >= Earliest(Deadlines)
  <2>1. waiting.left = 0 /\ 0 \notin {None, -1}
    BY <1>8, <1>9, KeySpaceAssumption
  <2>2. waiting.waited + 0 >= Earliest(Deadlines)
    BY <1>1, <1>9, <2>1 DEF LeftOK
  <2>3. waiting.waited \in Nat /\ Earliest(Deadlines) \in Nat
    <3>1. waiting.waited \in 0..now /\ now \in 0..MaxNow
      BY <1>1 DEF WaitShape, WaitOK
    <3>2. Earliest(Deadlines) \in Nat
      BY <1>1, <1>9, ClocksOrStreams, EarliestIs
    <3> QED
      BY <3>1, <3>2
  <2> QED
    BY <2>2, <2>3
<1>10. ASSUME Sane PROVE \E i \in 1..n : vec'[i]
  <2>1. \A i \in 1..n : vec'[i] <=> (IF IsClock(waiting.entries[i]) THEN Elapsed(i) ELSE i \in completed)
    BY <1>1, <1>2 DEF Results, WaitShape
  <2>2. CASE OnlyClocks
    <3>1. PICK i \in Clocks(waiting.entries) : waiting.deadlines[i] = Earliest(Deadlines)
      BY <1>1, <2>2, ClocksOrStreams, EarliestIs
    <3>2. i \in 1..n /\ IsClock(waiting.entries[i])
      BY <1>1, ClocksOrStreams
    <3>3. Elapsed(i)
      <4>1. waiting.waited >= Earliest(Deadlines)
        BY <1>9, <1>10, <2>2
      <4>2. waiting.waited \in 0..now /\ now \in 0..MaxNow
        BY <1>1 DEF WaitShape, WaitOK
      <4>3. Earliest(Deadlines) \in Nat
        BY <1>1, <2>2, ClocksOrStreams, EarliestIs
      <4> QED
        BY <3>1, <4>1, <4>2, <4>3, TimeAssumption DEF Elapsed
    <3> QED
      BY <2>1, <3>2, <3>3
  <2>3. CASE ~OnlyClocks
    <3>1. completed # {}
      BY <1>2, <2>3 DEF OsReturns, Instantly, Completed, OnlyClocks
    <3>2. PICK i \in completed : i \in Streams(waiting.entries)
      BY <3>1
    <3>3. i \in 1..n /\ ~IsClock(waiting.entries[i])
      BY <1>1, <3>2, ClocksOrStreams
    <3> QED
      BY <2>1, <3>3
  <2> QED
    BY <2>2, <2>3
<1>11. OverOK'
  BY <1>4, <1>5, <1>6, <1>9, <1>10 DEF OverOK
<1>12. TimesOK'
  BY <1>1 DEF WaitOK, TimesOK, IsPollable, IsClock
<1>13. now' \in 0..MaxNow
  BY <1>3 DEF WaitOK
<1> QED
  BY <1>1, <1>7, <1>11, <1>12, <1>13 DEF WaitOK

-----------------------------------------------------------------------------
(* Steps of the adapter *)

LEMMA SubscribeKeeps ==
  ASSUME PollInv, WaitOK, NEW key \in Key, Subscribe(key)
  PROVE  WaitOK'
<1>1. /\ pc = "push" /\ pc' = "push" /\ at < n /\ at \in Nat /\ n' = n
      /\ UNCHANGED <<now, errno>>
  BY DEF Subscribe, PollInv, ShapeOK, n
<1>2. PICK entry \in EntriesOf(subs[at + 1]) : Push(entry, key)
  BY DEF Subscribe
<1>3. IsClock(entry) => entry.when \in Nat
  <2>1. PICK s \in Subscription : s = subs[at + 1]
    BY <1>1 DEF PollInv, ShapeOK, n
  <2>2. CASE s.tag = "clock"
    <3>1. s.timeout \in Nat
      BY <2>1, <2>2, TimeoutAssumption, TimeAssumption
    <3>2. \E t \in Nat : \E a : entry = ClockEntry(t, a)
      <4>1. \/ entry = ClockEntry(s.timeout, s.absolute)
            \/ \E t \in 0..s.timeout : entry = ClockEntry(t, FALSE)
            \/ entry = ClockEntry(s.timeout, FALSE)
        BY <1>2, <2>1, <2>2 DEF EntriesOf
      <4>2. \A t \in 0..s.timeout : t \in Nat
        BY <3>1
      <4>3. CASE \E t \in 0..s.timeout : entry = ClockEntry(t, FALSE)
        BY <4>2, <4>3
      <4> QED
        BY <3>1, <4>1, <4>3
    <3> QED
      BY <3>2 DEF ClockEntry
  <2>3. CASE s.tag # "clock"
    <3>1. entry = ReadEntry(s.fd) \/ entry = WriteEntry(s.fd)
      BY <1>2, <2>1, <2>3 DEF EntriesOf
    <3> QED
      BY <3>1 DEF ReadEntry, WriteEntry, IsClock
  <2> QED
    BY <2>2, <2>3
<1>4. /\ map'[key] = entry /\ \A k \in Key : k # key => map'[k] = map[k]
  BY <1>2, Pushes DEF PollInv
<1>5. TimesOK'
  BY <1>3, <1>4 DEF WaitOK, TimesOK, IsPollable, IsClock
<1> QED
  BY <1>1, <1>5 DEF WaitOK

LEMMA CallKeeps ==
  ASSUME PollInv, WaitOK, NEW len \in 0..MaxSubs, NEW s \in [1..len -> Subscription], Call(s)
  PROVE  WaitOK'
<1>1. /\ UNCHANGED <<map, now>>
      /\ \/ s = <<>> /\ pc' = "done" /\ errno' = "INVAL"
         \/ s # <<>> /\ pc' = "push" /\ errno' = "SUCCESS"
      /\ subs' = s
  BY DEF Call
<1>2. TimesOK'
  BY <1>1 DEF WaitOK, TimesOK, IsPollable, IsClock
<1>3. s # <<>> => n' > 0
  <2>1. len \in Nat /\ s \in Seq(Subscription) /\ Len(s) = len
    BY SizeAssumption
  <2> QED
    BY <1>1, <2>1 DEF n
<1> QED
  BY <1>1, <1>2, <1>3 DEF WaitOK

(* The other steps change neither the wait nor what it found. *)
LEMMA OthersKeep ==
  ASSUME PollInv, WaitOK,
         \/ SubscribeFails \/ SubscribeTraps \/ HostPollTraps \/ HostAskTraps \/ HostErrorTraps
         \/ DropPollable \/ Dropped \/ WriteEvent \/ Finish \/ Return
         \/ OtherPush \/ OtherDelete \/ UNCHANGED vars
  PROVE  WaitOK'
<1>1. now' = now /\ \A key \in Key : map'[key] = map[key] \/ map'[key] \in {None, Other}
  <2>1. CASE \/ SubscribeFails \/ SubscribeTraps \/ HostPollTraps \/ HostAskTraps \/ HostErrorTraps
             \/ Dropped \/ WriteEvent \/ Finish \/ Return \/ UNCHANGED vars
    BY <2>1 DEF SubscribeFails, SubscribeTraps, HostPollTraps, HostAskTraps, OsPollFails,
                HostErrorTraps, OsError, Dropped, WriteEvent, Finish, Return, Trap, vars
  <2>2. CASE DropPollable
    <3>1. now' = now /\ (map' = map \/ \E key : Delete(key))
      BY <2>2 DEF DropPollable, Trap
    <3> QED
      BY <3>1 DEF Delete, PollInv, MapOK
  <2>3. CASE OtherPush
    <3>1. now' = now /\ \E key \in Key : Push(Other, key)
      BY <2>3 DEF OtherPush
    <3> QED
      BY <3>1, Pushes DEF PollInv
  <2>4. CASE OtherDelete
    <3>1. now' = now /\ \E key \in Key : Delete(key)
      BY <2>4 DEF OtherDelete, Live
    <3> QED
      BY <3>1, Deletes DEF PollInv
  <2> QED
    BY <2>1, <2>2, <2>3, <2>4
<1>2. TimesOK' /\ now' \in 0..MaxNow
  BY <1>1, TimesFrame DEF WaitOK
<1>3. CASE pc' \in {"trapped", "idle"}
  BY <1>2, <1>3 DEF WaitOK
<1>4. CASE SubscribeFails
  <2>1. pc' = "drop" /\ errno' # "SUCCESS"
    BY <1>4 DEF SubscribeFails, AfterError, ErrorsOf
  <2> QED
    BY <1>2, <2>1 DEF WaitOK
<1>5. CASE (DropPollable \/ Dropped \/ WriteEvent \/ Finish \/ UNCHANGED vars)
           /\ pc' \notin {"trapped", "idle"}
  <2>1. UNCHANGED <<waiting, now, subs, vec, errno>>
    BY <1>5 DEF DropPollable, Dropped, WriteEvent, Finish, Trap, vars, adapterVars
  <2>2. /\ WaitShape' <=> WaitShape
        /\ LeftOK' <=> LeftOK
        /\ OverOK' <=> OverOK
    BY <2>1, WaitFrame
  <2>3. \/ pc' = pc
        \/ pc \in {"drop", "events"} /\ pc' \in {"events", "done"}
    BY <1>5 DEF DropPollable, Dropped, WriteEvent, Finish, Trap, vars, adapterVars
  <2>4. n' = n
    BY <2>1 DEF n
  <2> QED
    BY <1>2, <2>1, <2>2, <2>3, <2>4 DEF WaitOK
<1>6. \/ SubscribeFails
      \/ DropPollable \/ Dropped \/ WriteEvent \/ Finish \/ UNCHANGED vars
      \/ pc' \in {"trapped", "idle"}
  BY DEF SubscribeTraps, HostPollTraps, HostAskTraps, HostErrorTraps, Trap, Return, OtherPush,
         OtherDelete, adapterVars
<1> QED
  BY <1>3, <1>4, <1>5, <1>6

LEMMA WaitKept ==
  ASSUME PollInv, WaitOK, [Next]_vars
  PROVE  WaitOK'
<1>1. CASE \E len \in 0..MaxSubs : \E s \in [1..len -> Subscription] : Call(s)
  BY <1>1, CallKeeps
<1>2. CASE \E key \in Key : Subscribe(key)
  BY <1>2, SubscribeKeeps
<1>3. CASE \E awake \in SUBSET (1..n) : HostAnswers(awake)
  BY <1>3, AnswerKeeps
<1> QED
  BY <1>1, <1>2, <1>3, WaitBegins, AskKeeps, SignalKeeps, TickKeeps, OthersKeep
  DEF Next, AdapterStep, HostStep

LEMMA WaitCorrect == Spec => []WaitOK
<1>1. Init => WaitOK
  <2> SUFFICES ASSUME Init PROVE WaitOK
    OBVIOUS
  <2>1. pc = "idle" /\ now = 0 /\ \A key \in Key : map[key] = None
    BY DEF Init, TableInit
  <2> QED
    BY <2>1, TimeAssumption DEF WaitOK, TimesOK, IsPollable
<1>2. PollInv /\ WaitOK /\ [Next]_vars => WaitOK'
  BY WaitKept
<1> QED
  BY Inductive, <1>1, <1>2, PTL DEF Spec

(* A poll of clocks only does not return before the earliest of them, for  *)
(* all deadlines whose rounding does not overflow and however often        *)
(* signals make the operating system's poll begin again (sync.rs:80-104).   *)
THEOREM PollsSleep == Spec => []SleepsLongEnough
<1>1. WaitOK => SleepsLongEnough
  BY DEF WaitOK, OverOK, OnlyClocks, SleepsLongEnough
<1> QED
  BY WaitCorrect, <1>1, PTL

(* A poll that succeeds has an event to report: the streams, which are     *)
(* always all reported, or the clock that has run out.                     *)
THEOREM PollsReport == Spec => []SomethingReported
<1>1. PollInv /\ EventsOK /\ WaitOK => SomethingReported
  <2> SUFFICES ASSUME PollInv, EventsOK, WaitOK, pc = "done", errno = "SUCCESS", Sane
               PROVE  count > 0
    BY DEF SomethingReported
  <2>1. count = ReadyUpTo(n) /\ n \in Nat
    BY DEF EventsOK, WrittenUpTo, PollInv, ShapeOK, n
  <2>2. PICK i \in 1..n : vec[i]
    BY DEF WaitOK, OverOK
  <2>3. ReadyUpTo(n) >= 1 /\ ReadyUpTo(n) \in Nat
    BY <2>1, <2>2, ReadyCounts, ReadyTypes
  <2> QED
    BY <2>1, <2>3
<1>2. Init => EventsOK
  BY DEF Init, EventsOK
<1>3. PollInv /\ EventsOK /\ [Next]_vars => EventsOK'
  BY EventsKept
<1> QED
  BY Inductive, WaitCorrect, <1>1, <1>2, <1>3, PTL DEF Spec
=============================================================================
