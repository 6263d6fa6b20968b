----------------------------- MODULE PollOneoff -----------------------------
(***************************************************************************)
(* poll_oneoff of the adapter (lib.rs:1522-1827) on top of HostPoll.  The  *)
(* guest's buffer for the events serves three times: pollables from its    *)
(* beginning, results up to its end, and the events over both, while the   *)
(* results are still being read.                                           *)
(*                                                                         *)
(* Between calls the rest of the program pushes and deletes resources of   *)
(* the table; pollables get whatever keys are next.                        *)
(***************************************************************************)
EXTENDS HostPoll

CONSTANTS
  Subscription,  \* The subscriptions the guest makes.
  MaxSubs,       \* Bound: subscriptions of one call.
  BadFd,         \* Descriptors that name no stream.
  EventSize,     \* size_of::<Event>(), 32.
  PollableSize,  \* size_of::<Pollable>(), 4.
  MaxOthers      \* Bound: the other resources in the table.

(* The assertion of lib.rs:1582-1594, for any number of subscriptions. *)
ASSUME SizeAssumption ==
  /\ MaxSubs \in Nat
  /\ EventSize \in Nat /\ PollableSize \in Nat \ {0}
  /\ EventSize >= PollableSize + 1

(* Timeouts are 64 bits wide. *)
ASSUME TimeoutAssumption ==
  \A s \in Subscription : s.tag = "clock" => s.timeout \in 0..MaxU64

VARIABLES
  pc,       \* "idle", "push", "wait", "drop", "events", "done" or "trapped".
  subs,     \* The subscriptions of the call.
  mem,      \* The bytes of the buffer: what each was last written as.
  index,    \* The pollables pushed.
  at,       \* The position of the loop in progress.
  count,    \* The events written.
  errno,
  pushed,   \* History: the keys of the pollables.
  vec       \* History: what the host answered.

adapterVars == <<pc, subs, mem, index, at, count, errno, pushed, vec>>
vars == <<map, next_key, now, waiting, adapterVars>>

n == Len(subs)

Unwritten == [of |-> "nothing"]
PollableByte(key) == [of |-> "pollable", key |-> key]
ResultByte(ready) == [of |-> "result", ready |-> ready]
EventByte(i) == [of |-> "event", sub |-> i]

(* The resources of the rest of the program. *)
Other == [kind |-> "other"]

(* The bytes of pollable i, result i and event i, counted from 0. *)
PollableAt(i) == {PollableSize * i + b : b \in 0..(PollableSize - 1)}

(* Mutant: the results are at the beginning, too. *)
ResultAt_Start(i) == i

ResultAt(i) == (EventSize - 1) * n + i
EventAt(i) == {EventSize * i + b : b \in 0..(EventSize - 1)}

(* The pollable that memory holds at i, None when its bytes are no key. *)
PollableIn(i) ==
  IF \E key \in Key : \A b \in PollableAt(i) : mem[b] = PollableByte(key)
  THEN CHOOSE key \in Key : \A b \in PollableAt(i) : mem[b] = PollableByte(key)
  ELSE None

(* The table finds a pollable under the key. *)
IsPollable(key) == map[key] \notin {Other, None}

Written(cells, byte) == [b \in DOMAIN mem |-> IF b \in cells THEN byte ELSE mem[b]]

-----------------------------------------------------------------------------
(* Making the pollables *)

(* The call, which has nothing to do for an empty list. *)
Call(s) ==
  /\ pc = "idle"
  /\ subs' = s
  /\ IF s = <<>>
     THEN pc' = "done" /\ errno' = "INVAL"
     ELSE pc' = "push" /\ errno' = "SUCCESS"
  /\ mem' = [b \in 0..(EventSize * Len(s) - 1) |-> Unwritten]
  /\ index' = 0 /\ at' = 0 /\ count' = 0
  /\ pushed' = <<>> /\ vec' = <<>>
  /\ UNCHANGED <<map, next_key, now, waiting>>

(* The entries subscribing to s may make: one that does not depend on the  *)
(* wall clock, or, for an absolute time of the wall clock, the time that   *)
(* is left.                                                                *)
EntriesOf(s) ==
  CASE s.tag = "clock" /\ s.id = "MONOTONIC" -> {ClockEntry(s.timeout, s.absolute)}
    [] s.tag = "clock" /\ s.id = "REALTIME" ->
         IF s.absolute THEN {ClockEntry(t, FALSE) : t \in 0..s.timeout}
         ELSE {ClockEntry(s.timeout, FALSE)}
    [] s.tag = "fd_read" /\ s.fd \notin BadFd -> {ReadEntry(s.fd)}
    [] s.tag = "fd_write" /\ s.fd \notin BadFd -> {WriteEntry(s.fd)}
    [] OTHER -> {}

ASSUME NoneAssumption ==
  None # Other /\ \A s \in Subscription : None \notin EntriesOf(s)

(* Its errors.  A wall-clock time in the past wraps to a duration that     *)
(* overflows.                                                              *)
ErrorsOf(s) ==
  CASE s.tag = "clock" /\ s.id = "MONOTONIC" -> {}
    [] s.tag = "clock" /\ s.id = "REALTIME" -> IF s.absolute THEN {"OVERFLOW"} ELSE {}
    [] s.tag \in {"fd_read", "fd_write"} -> IF s.fd \in BadFd THEN {"BADF"} ELSE {}
    [] OTHER -> {"INVAL"}

(* subscribe of the host, and Pollables::push. *)
Subscribe(key) ==
  /\ pc = "push" /\ at < n
  /\ \E entry \in EntriesOf(subs[at + 1]) : Push(entry, key)
  /\ mem' = Written(PollableAt(index), PollableByte(key))
  /\ index' = index + 1 /\ at' = at + 1
  /\ pushed' = Append(pushed, key)
  /\ UNCHANGED <<now, waiting, pc, subs, count, errno, vec>>

(* Mutant: an error returns without dropping the pollables. *)
AfterError_Return == "done"

(* Leaving with an error drops `pollables'. *)
AfterError == "drop"

SubscribeFails ==
  /\ pc = "push" /\ at < n
  /\ errno' \in ErrorsOf(subs[at + 1])
  /\ pc' = AfterError /\ at' = 0
  /\ UNCHANGED <<map, next_key, now, waiting, subs, mem, index, count, pushed, vec>>

Trap ==
  /\ pc' = "trapped"
  /\ UNCHANGED <<map, next_key, subs, mem, index, at, count, errno, pushed, vec>>

(* The table is full. *)
SubscribeTraps ==
  /\ pc = "push" /\ at < n
  /\ EntriesOf(subs[at + 1]) # {} /\ TableFull
  /\ Trap
  /\ UNCHANGED <<now, waiting>>

-----------------------------------------------------------------------------
(* Waiting *)

Handed == [i \in 1..n |-> PollableIn(i - 1)]
Entry == [i \in 1..n |-> map[Handed[i]]]
AllKnown == \A i \in 1..n : Handed[i] # None /\ IsPollable(Handed[i])

(* poll::poll_oneoff is called with the pollables that memory holds. *)
HostPoll ==
  /\ pc = "push" /\ at = n /\ AllKnown
  /\ \E filled \in SUBSET MemoryStream :
       ~CollectFails(Entry, filled) /\ Collect(Entry, filled)
  /\ pc' = "wait"
  /\ UNCHANGED <<map, next_key, now, subs, mem, index, at, count, errno, pushed, vec>>

HostPollTraps ==
  /\ pc = "push" /\ at = n
  /\ AllKnown => \E filled \in SUBSET MemoryStream : CollectFails(Entry, filled)
  /\ Trap
  /\ UNCHANGED <<now, waiting>>

HostAsks ==
  /\ pc = "wait" /\ OsPoll
  /\ UNCHANGED <<map, next_key, adapterVars>>

HostAskTraps == pc = "wait" /\ OsPollFails /\ Trap

HostInterrupted ==
  /\ pc = "wait" /\ Signal
  /\ UNCHANGED <<map, next_key, adapterVars>>

HostErrorTraps == pc = "wait" /\ OsError /\ Trap

(* The list of the host is allocated where the adapter wants the results. *)
HostAnswers(awake) ==
  /\ pc = "wait"
  /\ \E completed \in SUBSET Streams(waiting.entries) :
       /\ OsReturns(awake, completed) \/ (awake = {} /\ Instantly(completed))
       /\ vec' = Results(completed)
  /\ mem' = [b \in DOMAIN mem |->
               IF \E i \in 0..(n - 1) : b = ResultAt(i)
               THEN ResultByte(vec'[(CHOOSE i \in 0..(n - 1) : b = ResultAt(i)) + 1])
               ELSE mem[b]]
  /\ pc' = "drop" /\ at' = 0
  /\ UNCHANGED <<map, next_key, subs, index, count, errno, pushed>>

-----------------------------------------------------------------------------
(* Dropping the pollables and writing the events *)

(* Mutant: the last pollable is not dropped. *)
ToDrop_OffByOne == index - 1

ToDrop == index

(* drop_pollable of the host traps when it does not know the pollable. *)
DropPollable ==
  /\ pc = "drop" /\ at < ToDrop
  /\ LET key == PollableIn(at) IN
     IF key # None /\ IsPollable(key)
     THEN /\ Delete(key)
          /\ at' = at + 1
          /\ UNCHANGED <<pc, subs, mem, index, count, errno, pushed, vec>>
     ELSE Trap
  /\ UNCHANGED <<now, waiting>>

Dropped ==
  /\ pc = "drop" /\ at >= ToDrop
  /\ pc' = (IF errno = "SUCCESS" THEN "events" ELSE "done")
  /\ at' = 0
  /\ UNCHANGED <<map, next_key, now, waiting, subs, mem, index, count, errno, pushed, vec>>

(* Mutant: events are written where their subscriptions are. *)
EventSlot_OfSub == at

EventSlot == count

(* What the adapter takes for a result: any byte but 0. *)
ReadsReady(byte) ==
  IF byte.of = "result" THEN byte.ready ELSE TRUE

WriteEvent ==
  /\ pc = "events" /\ at < n
  /\ IF ReadsReady(mem[ResultAt(at)])
     THEN /\ mem' = Written(EventAt(EventSlot), EventByte(at + 1))
          /\ count' = count + 1
     ELSE UNCHANGED <<mem, count>>
  /\ at' = at + 1
  /\ UNCHANGED <<map, next_key, now, waiting, pc, subs, index, errno, pushed, vec>>

Finish ==
  /\ pc = "events" /\ at = n
  /\ pc' = "done"
  /\ UNCHANGED <<map, next_key, now, waiting, subs, mem, index, at, count, errno, pushed, vec>>

Return ==
  /\ pc = "done"
  /\ pc' = "idle" /\ subs' = <<>> /\ mem' = <<>>
  /\ index' = 0 /\ at' = 0 /\ count' = 0 /\ errno' = "SUCCESS"
  /\ pushed' = <<>> /\ vec' = <<>> /\ waiting' = None
  /\ UNCHANGED <<map, next_key, now>>

-----------------------------------------------------------------------------
(* The rest of the program, and the specification *)

OtherPush ==
  /\ pc = "idle" /\ Cardinality(Live) < MaxOthers
  /\ \E key \in Key : Push(Other, key)
  /\ UNCHANGED <<now, waiting, adapterVars>>

OtherDelete ==
  /\ pc = "idle"
  /\ \E key \in Live : Delete(key)
  /\ UNCHANGED <<now, waiting, adapterVars>>

TimePasses == Tick /\ UNCHANGED <<map, next_key, adapterVars>>

Init ==
  /\ TableInit
  /\ now = 0 /\ waiting = None
  /\ pc = "idle" /\ subs = <<>> /\ mem = <<>>
  /\ index = 0 /\ at = 0 /\ count = 0 /\ errno = "SUCCESS"
  /\ pushed = <<>> /\ vec = <<>>

AdapterStep ==
  \/ \E key \in Key : Subscribe(key)
  \/ SubscribeFails \/ SubscribeTraps
  \/ HostPoll \/ HostPollTraps
  \/ DropPollable \/ Dropped
  \/ WriteEvent \/ Finish \/ Return

HostStep ==
  \/ HostAsks \/ HostAskTraps \/ HostInterrupted \/ HostErrorTraps
  \/ \E awake \in SUBSET (1..n) : HostAnswers(awake)

Next ==
  \/ \E len \in 0..MaxSubs : \E s \in [1..len -> Subscription] : Call(s)
  \/ AdapterStep \/ HostStep
  \/ TimePasses \/ OtherPush \/ OtherDelete

Spec == Init /\ [][Next]_vars

(* Code that runs goes on, time passes, and the operating system returns   *)
(* when the time is up.  Nothing makes a stream ready.                     *)
Fairness ==
  /\ WF_vars(AdapterStep) /\ WF_vars(TimePasses)
  /\ WF_vars(HostAsks \/ HostAskTraps) /\ WF_vars(HostAnswers({}))

FairSpec == Spec /\ Fairness

-----------------------------------------------------------------------------
(* Properties *)

Entries == [kind : {"Read", "Write"}, stream : OsStream \cup MemoryStream]
             \cup [kind : {"MonotonicClock"}, when : 0..MaxU64, absolute : BOOLEAN]

(* The type invariant. *)
TypeOK ==
  /\ map \in [Key -> Entries \cup {Other, None}] /\ next_key \in Key
  /\ now \in 0..MaxNow
  /\ pc \in {"idle", "push", "wait", "drop", "events", "done", "trapped"}
  /\ n \in 0..MaxSubs /\ \A i \in 1..n : subs[i] \in Subscription
  /\ DOMAIN mem = 0..(EventSize * n - 1)
  /\ index \in 0..n /\ at \in 0..n /\ count \in 0..at
  /\ errno \in {"SUCCESS", "BADF", "INVAL", "OVERFLOW"}

(* What memory serves for at the same time never overlaps: a pollable      *)
(* stays as it was pushed until it is dropped, and a result as the host    *)
(* answered it until it is read, though events are written meanwhile       *)
(* (lib.rs:1577-1598).                                                     *)
NoClobber ==
  /\ pc \in {"push", "wait", "drop"} =>
       \A i \in (IF pc = "drop" THEN at ELSE 0)..(index - 1) :
         \A b \in PollableAt(i) : mem[b] = PollableByte(pushed[i + 1])
  /\ pc = "drop" /\ errno = "SUCCESS" =>
       \A i \in 0..(n - 1) : mem[ResultAt(i)] = ResultByte(vec[i + 1])
  /\ pc = "events" =>
       \A i \in at..(n - 1) : mem[ResultAt(i)] = ResultByte(vec[i + 1])

ReadyUpTo(i) == Cardinality({j \in 1..i : vec[j]})

(* The events a guest gets are those of the subscriptions the host found   *)
(* ready, each once, whole, and in the order of the subscriptions.         *)
EventsMatch ==
  pc = "done" /\ errno = "SUCCESS" =>
    /\ count = ReadyUpTo(n)
    /\ \A i \in 1..n : vec[i] =>
         \A b \in EventAt(ReadyUpTo(i) - 1) : mem[b] = EventByte(i)

(* Whichever way a call returns, none of its pollables stays in the table  *)
(* of the host.                                                            *)
TableRestored ==
  pc \in {"idle", "done"} => \A key \in Key : ~IsPollable(key)

(* A call never deletes a resource that is not its own. *)
CallsKeepOthers ==
  [][pc # "idle" => \A key \in Key : map[key] = Other => map'[key] = Other]_vars

(* No key that is in use is handed out again, even after the keys have     *)
(* wrapped.                                                                *)
NeverReplaced ==
  [][\A key \in Key : map[key] # None => map'[key] \in {map[key], None}]_vars

(* The deadlines of a poll, when none is so late that the sum in Millis    *)
(* wraps around.                                                           *)
Sane == \A d \in Deadlines : d + Millisecond - 1 <= MaxU64

(* A poll of clocks only does not return before the earliest of them has   *)
(* elapsed since the call, whatever signals came ("poll_oneoff should      *)
(* sleep for the specified interval", poll_oneoff_files.rs:124-127).       *)
SleepsLongEnough ==
  pc = "done" /\ errno = "SUCCESS" /\ Streams(waiting.entries) = {} /\ Sane =>
    waiting.waited >= Earliest(Deadlines)

(* A poll that succeeds reports an event. *)
SomethingReported == pc = "done" /\ errno = "SUCCESS" /\ Sane => count > 0

(* A poll with a clock comes to an end: signals delay it, but their number *)
(* is finite.                                                              *)
ClockPollsEnd ==
  (pc = "push" /\ \E i \in 1..n : subs[i].tag = "clock") ~> pc \in {"done", "trapped"}
=============================================================================
