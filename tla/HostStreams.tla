---------------------------- MODULE HostStreams ----------------------------
(***************************************************************************)
(* The byte streams of the host: the traits of wasi-common/src/stream.rs   *)
(* with their loops, the pipes (pipe.rs), files and standard streams that  *)
(* implement them, and the calls of the guest (preview2/io.rs), which find *)
(* a stream by its key in the resource table.                              *)
(*                                                                         *)
(* A stream leads to an end: a pipe, a file, a socket.  Bytes arrive at an *)
(* end while a call is in progress, so that every loop of the code is      *)
(* taken step by step.  Bytes are counted, their values are left out.      *)
(***************************************************************************)
EXTENDS Table

CONSTANTS
  End,          \* What streams lead to.
  Pipe,         \* The ends without a file descriptor of the system.
  File,         \* The ends that use the loops of the traits.
  Sock,         \* The ends that are TCP sockets.
  Fd,           \* What the file descriptor of an end reads: of a socket itself,
                \* of a file the contents at the offset of the system.
  BufferCap,    \* The largest buffer a read allocates: 0x400000 in the code.
  MaxLen,       \* Bound on the lengths a guest asks for (any u64).
  MaxBytes      \* Bound on the bytes that wait at an end.

ASSUME EndAssumption ==
  /\ Pipe \subseteq End /\ File \subseteq End /\ Sock \subseteq End /\ None \notin End
  /\ Sock \cap File = {} /\ Sock \cap Pipe = {}
  /\ Fd \in [End \ Pipe -> End] /\ \A s \in Sock : Fd[s] = s
  /\ BufferCap \in Nat \ {0} /\ MaxLen \in Nat /\ MaxBytes \in Nat

VARIABLES
  arrived,      \* How many bytes wait to be read at each end.
  ended,        \* The ends at which no more bytes will arrive.
  call,         \* The call in progress, or None.
  stopped       \* "no", a "trap" of the guest, a "panic" or an "overflow" of the host.

streamVars == <<arrived, ended, call, stopped>>

LesserOf(a, b) == IF a < b THEN a ELSE b

InputStream(e) == [type |-> "InputStream", end |-> e]
OutputStream(e) == [type |-> "OutputStream", end |-> e]

(* Table::get: NotPresent and WrongType are told apart by no caller. *)
Holds(key, type) == key \in Live /\ map[key].type = type

Running == stopped = "no"
Idle == Running /\ call = None

(* A call in progress: what its loop has counted, and what it has really   *)
(* taken from `from', where it really reads (SpliceSource), and put into   *)
(* `to'.  `held' is the byte buffer of the loop of splice; `odd' tells     *)
(* that a read of it gave nothing or a write wrote nothing.                *)
Loop(op, how, from, to, n) ==
  [op |-> op, how |-> how, from |-> from, to |-> to, asked |-> n, left |-> n,
   moved |-> 0, end |-> FALSE, took |-> 0, put |-> 0,
   held |-> "none", odd |-> FALSE, done |-> FALSE]

Start(op, how, from, to, n) ==
  /\ call' = Loop(op, how, from, to, n)
  /\ UNCHANGED <<arrived, ended, stopped>>

Answer == call' = None /\ UNCHANGED <<arrived, ended, stopped>>

(* TableError::NotPresent and WrongType, and errors of the system, become  *)
(* a StreamError, without a word of what has been moved.                   *)
StreamError == Answer

Stop(how) ==
  /\ stopped' = how
  /\ call' = None
  /\ UNCHANGED <<arrived, ended>>

-----------------------------------------------------------------------------
(* Calls of the guest *)

(* Pipes, standard streams and sockets skip with io::copy, files with the  *)
(* loop of the trait; the same for write_zeroes.                           *)
SkipLoop(e) == IF e \in File THEN "each" ELSE "copy"
ZeroLoop(e) == IF e \in File THEN "zero" ELSE "copy"

Read(key, len) ==
  /\ Idle /\ UNCHANGED tableVars
  /\ IF Holds(key, "InputStream")
     THEN Start("read", "once", map[key].end, None, LesserOf(len, BufferCap))
     ELSE StreamError

Skip(key, len) ==
  /\ Idle /\ UNCHANGED tableVars
  /\ IF Holds(key, "InputStream")
     THEN Start("skip", SkipLoop(map[key].end), map[key].end, None, len)
     ELSE StreamError

Write(key, len) ==
  /\ Idle /\ UNCHANGED tableVars
  /\ IF Holds(key, "OutputStream")
     THEN Start("write", "once", None, map[key].end, len)
     ELSE StreamError

WriteZeroes(key, len) ==
  /\ Idle /\ UNCHANGED tableVars
  /\ IF Holds(key, "OutputStream")
     THEN Start("write_zeroes", ZeroLoop(map[key].end), None, map[key].end, len)
     ELSE StreamError

(* splice and forward are todo!(). *)
SpliceOrForward == Idle /\ Stop("panic") /\ UNCHANGED tableVars

(* A drop of a key that is no such stream traps. *)
DropStream(key, type) ==
  /\ Idle
  /\ IF Holds(key, type)
     THEN Delete(key) /\ Answer
     ELSE Stop("trap") /\ UNCHANGED tableVars

(* The splice of the traits, which an embedder may call on two streams: a  *)
(* socket copies from what has a file descriptor, and falls back to its    *)
(* own splice otherwise; the other streams take the loop of the trait.     *)
SpliceLoop(from, to) ==
  IF to \notin Sock THEN "each" ELSE IF from \in Pipe THEN "recursion" ELSE "copy"

(* The copy bypasses the stream it splices: a file is read at the offset   *)
(* of the system, and the position of the FileInputStream stays; standard  *)
(* input is read behind the buffer of the process.                         *)
SpliceSource(from, to) == IF SpliceLoop(from, to) = "copy" THEN Fd[from] ELSE from

Splice(from, to, len) ==
  /\ Idle /\ UNCHANGED tableVars
  /\ Start("splice", SpliceLoop(from, to), SpliceSource(from, to), to, len)

-----------------------------------------------------------------------------
(* Steps of a call *)

At(how) == Running /\ call # None /\ call.how = how /\ ~call.done
Looping(how) == At(how) /\ call.left > 0
Quiet == UNCHANGED <<ended, stopped>> /\ UNCHANGED tableVars

Took(n) == arrived' = [arrived EXCEPT ![call.from] = @ - n]

(* What one read of at most len bytes may give: bytes that wait, the end,  *)
(* which an empty buffer looks like too, or nothing when interrupted.      *)
Reads(e, len) ==
  {[n |-> k, end |-> FALSE] : k \in 1..LesserOf(len, arrived[e])}
  \cup {[n |-> 0, end |-> TRUE] : x \in IF len = 0 \/ (arrived[e] = 0 /\ e \in ended)
                                         THEN {1} ELSE {}}
  \cup {[n |-> 0, end |-> FALSE]}

(* Mutant: a read that does not fill its buffer is taken for the end. *)
ReadOnce_ShortEnds ==
  /\ At("once") /\ call.op = "read" /\ Quiet
  /\ \E r \in Reads(call.from, call.left) :
       /\ Took(r.n)
       /\ call' = [call EXCEPT !.moved = r.n, !.took = r.n, !.end = r.n < call.left,
                               !.done = TRUE]

(* InputStream::read: one read of the system. *)
ReadOnce ==
  /\ At("once") /\ call.op = "read" /\ Quiet
  /\ \E r \in Reads(call.from, call.left) :
       /\ Took(r.n)
       /\ call' = [call EXCEPT !.moved = r.n, !.took = r.n, !.end = r.end, !.done = TRUE]

(* OutputStream::write: one write of the system, which may be short. *)
WriteOnce ==
  /\ At("once") /\ call.op = "write" /\ Quiet /\ UNCHANGED arrived
  /\ \E n \in 0..call.left :
       call' = [call EXCEPT !.moved = n, !.put = n, !.done = TRUE]

(* Mutant: the loop counts bytes, and goes on at the end. *)
EachRead_CountsBytes ==
  /\ Looping("each") /\ call.held = "none" /\ Quiet
  /\ \E r \in Reads(call.from, 1) :
       /\ Took(r.n)
       /\ call' = [call EXCEPT
            !.moved = @ + r.n, !.took = @ + r.n, !.end = r.end, !.odd = @ \/ r.n = 0,
            !.held = IF call.to = None THEN "none" ELSE IF r.n = 1 THEN "byte" ELSE "zero",
            !.left = IF call.to = None THEN @ - r.n ELSE @]

(* One round of the loops of InputStream::skip and OutputStream::splice:   *)
(* an attempt to read a byte.                                              *)
EachRead ==
  /\ Looping("each") /\ call.held = "none" /\ Quiet
  /\ \E r \in Reads(call.from, 1) :
       /\ Took(r.n)
       /\ call' = [call EXCEPT
            !.moved = @ + r.n, !.took = @ + r.n, !.end = r.end, !.odd = @ \/ r.n = 0,
            !.held = IF call.to = None THEN "none" ELSE IF r.n = 1 THEN "byte" ELSE "zero",
            !.left = IF r.end THEN 0 ELSE IF call.to = None THEN @ - 1 ELSE @]

(* splice then writes its buffer, also when it read nothing, and does not  *)
(* look at how much was written.                                           *)
EachWrite ==
  /\ At("each") /\ call.held # "none" /\ Quiet /\ UNCHANGED arrived
  /\ \E n \in 0..1 :
       call' = [call EXCEPT !.put = @ + n, !.odd = @ \/ n = 0, !.held = "none",
                            !.left = IF call.end THEN 0 ELSE @ - 1]

(* io::copy, of at most n bytes that arrive, to a sink or another end.     *)
(* Interrupted reads are tried again, and chunks are written as a whole.   *)
CopyMoves ==
  /\ Looping("copy") /\ call.from # None /\ Quiet
  /\ \E k \in 1..LesserOf(call.left, arrived[call.from]) :
       /\ Took(k)
       /\ call' = [call EXCEPT !.moved = @ + k, !.took = @ + k, !.left = @ - k,
                               !.put = IF call.to = None THEN 0 ELSE @ + k]

(* Mutant: a copy that has come to the end is counted as complete. *)
CopyEnds_Silently ==
  /\ Looping("copy") /\ call.from # None /\ Quiet /\ UNCHANGED arrived
  /\ arrived[call.from] = 0 /\ call.from \in ended
  /\ call' = [call EXCEPT !.left = 0, !.moved = call.asked]

(* The end came first: num < nelem. *)
CopyEnds ==
  /\ Looping("copy") /\ call.from # None /\ Quiet /\ UNCHANGED arrived
  /\ arrived[call.from] = 0 /\ call.from \in ended
  /\ call' = [call EXCEPT !.left = 0, !.end = TRUE]

(* io::copy of io::repeat(0). *)
CopyZeroes ==
  /\ Looping("copy") /\ call.from = None /\ Quiet /\ UNCHANGED arrived
  /\ \E k \in 1..call.left :
       call' = [call EXCEPT !.moved = @ + k, !.put = @ + k, !.left = @ - k]

(* The write_zeroes of the trait gives up at a write of nothing. *)
ZeroWrite ==
  /\ Looping("zero") /\ Quiet /\ UNCHANGED arrived
  /\ \E n \in 0..1 :
       call' = [call EXCEPT !.moved = @ + n, !.put = @ + n, !.left = IF n = 0 THEN 0 ELSE @ - 1]

(* The fallback of TcpSocket::splice calls itself, until the stack is full. *)
Recurse == At("recursion") /\ Stop("overflow") /\ UNCHANGED tableVars

(* The call returns what it has counted. *)
Finished ==
  /\ Running /\ call # None
  /\ call.done \/ (call.how \in {"each", "copy", "zero"} /\ call.left = 0 /\ call.held = "none")

Finish ==
  /\ Finished
  /\ Answer
  /\ UNCHANGED tableVars

(* A read or a write of the system fails. *)
Fail ==
  /\ Running /\ call # None /\ ~Finished /\ call.how \in {"once", "each", "copy", "zero"}
  /\ StreamError
  /\ UNCHANGED tableVars

Step ==
  \/ ReadOnce \/ WriteOnce \/ EachRead \/ EachWrite
  \/ CopyMoves \/ CopyEnds \/ CopyZeroes \/ ZeroWrite \/ Recurse
  \/ Finish

-----------------------------------------------------------------------------
(* The other side of the ends *)

(* What arrives between two calls is there when the next one begins, and   *)
(* may as well arrive then.                                                *)
BeingRead(e) == Running /\ call # None /\ call.how # "accept" /\ call.from = e

Arrives(e) ==
  /\ BeingRead(e) /\ e \notin ended /\ arrived[e] < MaxBytes
  /\ arrived' = [arrived EXCEPT ![e] = @ + 1]
  /\ UNCHANGED <<ended, call, stopped>> /\ UNCHANGED tableVars

Ends(e) ==
  /\ BeingRead(e) /\ e \notin ended
  /\ ended' = ended \cup {e}
  /\ UNCHANGED <<arrived, call, stopped>> /\ UNCHANGED tableVars

-----------------------------------------------------------------------------
(* Properties *)

(* A call that succeeds returns the number of bytes it took from where it  *)
(* reads, or put into its stream, although its loop counts attempts, not   *)
(* bytes, is interrupted and meets the end half way.  A splice has also    *)
(* put all it took into the other stream, unless a read gave nothing (the  *)
(* buffer is written all the same, stream.rs:127) or a write wrote nothing.*)
BytesAccounted ==
  Finished =>
    /\ call.op \in {"read", "skip", "splice"} => call.moved = call.took
    /\ call.op \in {"write", "write_zeroes"} => call.moved = call.put
    /\ call.op = "splice" /\ ~call.odd => call.put = call.took

(* "a flag indicating whether the end of the stream was reached"           *)
(* (stream.rs:39): a call for at least one byte that reports the end has   *)
(* left nothing behind, and no byte will follow; a skip or splice that     *)
(* stopped early without it was interrupted.  The end that a copy onto a   *)
(* socket reports is that of the file descriptor (SpliceSource), not of    *)
(* the stream it was asked to splice (net.rs:350).                         *)
EndMeansEnd ==
  Finished /\ call.from # None /\ call.asked > 0 =>
    /\ call.end => arrived[call.from] = 0 /\ call.from \in ended
    /\ call.how \in {"each", "copy"} /\ call.moved < call.asked => call.end \/ call.odd
=============================================================================
