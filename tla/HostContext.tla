---------------------------- MODULE HostContext ----------------------------
(***************************************************************************)
(* What an embedder gives a guest (wasi-common: ctx.rs), how the host      *)
(* answers the imports that ask for it (preview2/env.rs, clocks.rs,        *)
(* random.rs, exit.rs), and the host's own implementation of preview1 in   *)
(* terms of them (preview1/mod.rs), as far as it is written.               *)
(***************************************************************************)
EXTENDS Table, Sequences, SequencesExt

CONSTANTS
  Builders,   \* WasiCtxBuilders, with the lengths of the strings given to them.
  NsPerSec,   \* 1_000_000_000.
  MaxTime     \* Timestamps are below this, 2^64 in the code.

(* given: what of the standard streams, of random, clocks and the          *)
(* scheduler was set; the others are lengths of strings.                   *)
ASSUME BuildersAssumption ==
  Builders \subseteq
    [given : SUBSET {"stdin", "stdout", "stderr", "random", "clocks", "sched"},
     args : Seq(Nat), env : Seq(Nat \X Nat), dirs : Seq(Nat)]

ASSUME ClockAssumption == NsPerSec \in Nat /\ MaxTime \in Nat

(* An entry of the table is a kind with a number. *)
ASSUME EntryAssumption == None \notin {"stdin", "stdout", "stderr", "dir", "file"} \X Nat

VARIABLES
  builder,    \* The builder that is built.
  pushed,     \* Keys of the entries that WasiCtxBuilder::build has pushed.
  phase,      \* "building", "failed", or "built" when there is a WasiCtx.
  exit        \* The I32Exit of the guest, None while it runs.

hostVars == <<map, next_key, builder, pushed, phase, exit>>

-----------------------------------------------------------------------------
(* The context *)

Text(kind, i, len) == [k \in 1..len |-> <<kind, i, k>>]

Args == [i \in DOMAIN builder.args |-> Text("arg", i, builder.args[i])]
Env == [i \in DOMAIN builder.env |->
         [key |-> Text("key", i, builder.env[i][1]),
          value |-> Text("value", i, builder.env[i][2])]]
DirNames == [i \in DOMAIN builder.dirs |-> Text("dir", i, builder.dirs[i])]

Stdio == <<"stdin", "stdout", "stderr">>
Required == {"random", "clocks", "sched"}

(* What build pushes, in its order. *)
NumEntries == 3 + Len(DirNames)
Entry(i) == IF i <= 3 THEN <<Stdio[i], 0>> ELSE <<"dir", i - 3>>

HostInit ==
  /\ TableInit
  /\ builder \in Builders
  /\ pushed = <<>>
  /\ phase = "building"
  /\ exit = None

EntryPushed == Entry(Len(pushed) + 1)

Missing == Len(pushed) < 3 /\ Stdio[Len(pushed) + 1] \notin builder.given

BuildPushes ==
  /\ phase = "building" /\ Len(pushed) < NumEntries /\ ~Missing
  /\ \E key \in Key :
       Push(EntryPushed, key) /\ pushed' = Append(pushed, key)
  /\ UNCHANGED <<builder, phase, exit>>

BuildFails ==
  \/ Missing
  \/ Len(pushed) < NumEntries /\ TableFull
  \/ Len(pushed) = NumEntries /\ ~(Required \subseteq builder.given)

(* A build that fails leaves in the table what it pushed. *)
BuildEnds ==
  /\ phase = "building"
  /\ \/ BuildFails /\ phase' = "failed"
     \/ /\ Len(pushed) = NumEntries /\ Required \subseteq builder.given
        /\ phase' = "built"
  /\ UNCHANGED <<map, next_key, builder, pushed, exit>>

-----------------------------------------------------------------------------
(* preview1 on the host *)

HostWrites(acc, text) ==
  [ptrs |-> Append(acc.ptrs, Len(acc.bytes)), bytes |-> acc.bytes \o text \o <<"NUL">>]

Nothing == [ptrs |-> <<>>, bytes |-> <<>>]

HostArgsGet == FoldLeft(HostWrites, Nothing, Args)

HostArgsSizesGet ==
  <<Len(Args), FoldLeft(LAMBDA sum, arg : sum + Len(arg) + 1, 0, Args)>>

HostEnvironGet ==
  FoldLeft(LAMBDA acc, var : HostWrites(acc, var.key \o <<"=">> \o var.value), Nothing, Env)

HostEnvironSizesGet ==
  <<Len(Env),
    FoldLeft(LAMBDA sum, var : sum + Len(var.key) + 1 + Len(var.value) + 1, 0, Env)>>

Result(errno, out) == [errno |-> errno, out |-> out]

(* Timestamp::try_from(Datetime). *)
HostTimestamp(datetime) ==
  LET ns == datetime.seconds * NsPerSec + datetime.nanoseconds IN
  IF ns < MaxTime THEN Result("SUCCESS", ns) ELSE Result("OVERFLOW", 0)

(* Clocks are read as a Datetime or, the monotonic one, in nanoseconds. *)
HostClock(id, reading) ==
  CASE id = "realtime" -> HostTimestamp(reading)
    [] id = "monotonic" -> Result("SUCCESS", reading.nanoseconds)
    [] OTHER -> Result("BADF", 0)

RandomBytes(len) == Text("random", 0, len)

(* What it answers to a call that it implements. *)
HostAnswer(c) ==
  CASE c.fn = "args_get" -> Result("SUCCESS", HostArgsGet)
    [] c.fn = "args_sizes_get" -> Result("SUCCESS", HostArgsSizesGet)
    [] c.fn = "environ_get" -> Result("SUCCESS", HostEnvironGet)
    [] c.fn = "environ_sizes_get" -> Result("SUCCESS", HostEnvironSizesGet)
    [] c.fn \in {"clock_res_get", "clock_time_get"} -> HostClock(c.x, c.y)
    [] c.fn = "random_get" -> Result("SUCCESS", RandomBytes(c.x))
    [] c.fn = "sched_yield" -> Result("SUCCESS", 0)

(* exit::Host::exit, and the status it is given by proc_exit. *)
Exits(code) == exit' = IF code = 0 THEN 0 ELSE 1
=============================================================================
