------------------------------ MODULE HostPoll ------------------------------
(***************************************************************************)
(* Waiting in the host: the pollables of the table (preview2/poll.rs) and  *)
(* the synchronous scheduler (sched.rs, sched/sync.rs), which asks the     *)
(* operating system and then decides which subscriptions to report.        *)
(*                                                                         *)
(* External: the clock, the signals, and which streams have something to   *)
(* offer.  A nanosecond is the unit of time.                               *)
(***************************************************************************)
EXTENDS Table, Sequences

CONSTANTS
  OsStream,      \* Streams with a file descriptor: files and stdio.
  MemoryStream,  \* Streams without one: pipes.
  MaxU64,        \* u64::MAX.
  Millisecond,   \* 1000000 in the code.
  MaxI32,        \* The greatest timeout of the operating system's poll.
  MaxNow,        \* Bound: the clock stands still in the model from here on.
  MaxSignals     \* Bound: signals that interrupt one poll.

(* The longest wait the operating system accepts fits the bound on time.   *)
ASSUME TimeAssumption ==
  /\ MaxU64 \in Nat /\ Millisecond \in Nat \ {0}
  /\ MaxI32 \in Nat /\ MaxNow \in Nat /\ MaxSignals \in Nat
  /\ MaxI32 * Millisecond <= MaxNow

VARIABLES
  now,           \* The monotonic clock: the time since the host started.
  waiting        \* The Poll in progress or just ended, or None.

ReadEntry(s) == [kind |-> "Read", stream |-> s]
WriteEntry(s) == [kind |-> "Write", stream |-> s]
ClockEntry(when, absolute) == [kind |-> "MonotonicClock", when |-> when, absolute |-> absolute]

IsClock(entry) == entry.kind = "MonotonicClock"

-----------------------------------------------------------------------------
(* Subscriptions and their results *)

(* An absolute deadline becomes relative when the poll starts. *)
Relative(entry) ==
  IF ~entry.absolute THEN entry.when
  ELSE IF entry.when > now THEN entry.when - now ELSE 0

Clocks(entries) == {i \in 1..Len(entries) : IsClock(entries[i])}
Streams(entries) == (1..Len(entries)) \ Clocks(entries)

(* Mutant: milliseconds are rounded down. *)
Millis_Down(deadline) == deadline \div Millisecond

(* A deadline in milliseconds, rounded up in 64 bits. *)
Millis(deadline) == ((deadline + Millisecond - 1) % (MaxU64 + 1)) \div Millisecond

Earliest(deadlines) == CHOOSE d \in deadlines : \A e \in deadlines : d <= e

(* Streams without a file descriptor can only be read, and only when they  *)
(* have bytes at once.                                                     *)
Unpollable(entry, filled) ==
  /\ ~IsClock(entry) /\ entry.stream \notin OsStream
  /\ entry.kind = "Read" => entry.stream \notin filled

(* Mutant: a deadline that is just reached does not count. *)
Elapsed_Strictly(i) == now > waiting.deadlines[i]

(* A clock is ready when its deadline, which is relative by now, is not    *)
(* after the clock.                                                        *)
Elapsed(i) == now >= waiting.deadlines[i]

Results(completed) ==
  [i \in 1..Len(waiting.entries) |->
     IF IsClock(waiting.entries[i]) THEN Elapsed(i) ELSE i \in completed]

-----------------------------------------------------------------------------
(* poll_oneoff of preview2/poll.rs up to the operating system's poll       *)

(* The pipes in filled have bytes ready now. *)
Collect(entries, filled) ==
  waiting' = [entries   |-> entries,
              deadlines |-> [i \in Clocks(entries) |-> Relative(entries[i])],
              instant   |-> {i \in Streams(entries) : entries[i].stream \in filled},
              left      |-> None,
              awake     |-> {},
              signals   |-> MaxSignals,
              waited    |-> 0]

CollectFails(entries, filled) ==
  \E i \in 1..Len(entries) : Unpollable(entries[i], filled)

(* The deadlines the wait is for. *)
Deadlines == {waiting.deadlines[i] : i \in Clocks(waiting.entries)}

(* Mutant: the wait is without an end even if there are clocks. *)
Timeout_Never == -1

(* The timeout of the operating system's poll, -1 for none. *)
Timeout == IF Deadlines = {} THEN -1 ELSE Millis(Earliest(Deadlines))

AsksSystem == waiting.left = None /\ waiting.instant = {}

(* The call of the operating system starts, with the whole timeout again   *)
(* after a signal.                                                         *)
OsPoll ==
  /\ AsksSystem /\ Timeout <= MaxI32
  /\ waiting' = [waiting EXCEPT !.left = IF Timeout = -1 THEN -1 ELSE Timeout * Millisecond]
  /\ UNCHANGED now

(* The sum in Millis overflows, which panics in a build that checks it; or *)
(* the timeout is out of range.                                            *)
OsPollFails ==
  /\ AsksSystem
  /\ \/ Timeout > MaxI32
     \/ Deadlines # {} /\ Earliest(Deadlines) + Millisecond - 1 > MaxU64
  /\ UNCHANGED <<now, waiting>>

(* Any error of the operating system but an interruption. *)
OsError == waiting.left # None /\ UNCHANGED <<now, waiting>>

Signal ==
  /\ waiting.left # None /\ waiting.signals > 0
  /\ waiting' = [waiting EXCEPT !.left = None, !.signals = @ - 1]
  /\ UNCHANGED now

(* A nanosecond passes. *)
Tick ==
  /\ now' = IF now < MaxNow THEN now + 1 ELSE now
  /\ waiting' =
       IF waiting = None THEN None
       ELSE [waiting EXCEPT
               !.left = IF @ \in {None, -1, 0} THEN @ ELSE @ - 1,
               !.waited = IF @ < MaxNow THEN @ + 1 ELSE @]

(* The loop over the pollfds completes every stream, with or without       *)
(* events: a timeout counts as ready, too.                                 *)
Completed(awake) == Streams(waiting.entries)

(* The operating system reports the streams awake, or that time is up. *)
OsReturns(awake, completed) ==
  /\ waiting.left # None
  /\ awake \subseteq Streams(waiting.entries)
  /\ awake = {} => waiting.left = 0
  /\ completed = Completed(awake)
  /\ waiting' = [waiting EXCEPT !.awake = awake, !.left = None]
  /\ UNCHANGED now

(* Pipes with bytes end the poll without asking the operating system. *)
Instantly(completed) ==
  /\ waiting.left = None /\ waiting.instant # {}
  /\ completed = waiting.instant
  /\ waiting' = [waiting EXCEPT !.awake = waiting.instant]
  /\ UNCHANGED now
=============================================================================
