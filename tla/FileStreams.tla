---------------------------- MODULE FileStreams ----------------------------
(***************************************************************************)
(* Reading and writing a file through the adapter: fd_read, fd_write,      *)
(* fd_seek, fd_tell, fd_fdstat_set_flags, fd_pread, fd_pwrite and          *)
(* fd_filestat_set_size of lib.rs with the lazily created streams of       *)
(* descriptors.rs, on top of the FileInputStream, FileOutputStream and     *)
(* FileAppendStream of the host (wasi-common filesystem.rs).               *)
(*                                                                         *)
(* Each open file has a position in the adapter, but reads and writes go   *)
(* through host streams that keep positions of their own, taken from the   *)
(* adapter's when they are created.                                        *)
(***************************************************************************)
EXTENDS Integers, Sequences

CONSTANTS
  Fd,          \* Guest descriptors, all opened on one file.
  Byte,        \* What a guest writes.
  Zero,        \* The byte that fills a gap.
  MAX_OFFSET,  \* i64::MAX, the greatest offset the host accepts.
  MaxLen,      \* Bound: the longest buffer of a call.
  None,        \* No stream yet.
  Appending    \* A FileAppendStream, which has no position.

ASSUME OffsetAssumption ==
  /\ MAX_OFFSET \in Nat /\ MaxLen \in Nat
  /\ None \notin Int /\ Appending \notin Int /\ None # Appending

VARIABLES
  content,   \* The bytes of the file.
  position,  \* File::position of each descriptor, a u64.
  append,    \* File::append.
  input,     \* Streams::input: the position of its FileInputStream.
  output,    \* Streams::output: the position of its FileOutputStream.
  ret        \* What the last call returned.

vars == <<content, position, append, input, output, ret>>
streams == <<input, output>>

-----------------------------------------------------------------------------
(* Values *)

U64 == 2 * (MAX_OFFSET + 1)
AsI64(n) == IF n > MAX_OFFSET THEN n - U64 ELSE n

Size == Len(content)
Buffers == UNION {[1..n -> Byte] : n \in 0..MaxLen}

(* The file after bytes are written at an offset. *)
Overwrite(bytes, at) ==
  [i \in 1..(IF at + Len(bytes) > Size THEN at + Len(bytes) ELSE Size) |->
     IF i \in (at + 1)..(at + Len(bytes)) THEN bytes[i - at]
     ELSE IF i <= Size THEN content[i] ELSE Zero]

Resized(size) == [i \in 1..size |-> IF i <= Size THEN content[i] ELSE Zero]

Init ==
  /\ content = <<>>
  /\ position = [fd \in Fd |-> 0]
  /\ append \in [Fd -> BOOLEAN]
  /\ input = [fd \in Fd |-> None]
  /\ output = [fd \in Fd |-> None]
  /\ ret = [errno |-> "SUCCESS", data |-> <<>>, num |-> 0]

Succeed(data, num) == ret' = [errno |-> "SUCCESS", data |-> data, num |-> num]
Fail(errors) == \E e \in errors : ret' = [errno |-> e, data |-> <<>>, num |-> 0]

-----------------------------------------------------------------------------
(* Streams *)

(* Mutant: a new stream starts at the beginning of the file. *)
ReadStream_AtStart(fd) == IF input[fd] # None THEN input[fd] ELSE 0

(* Mutant: a new stream is positional whatever the append flag says. *)
WriteStream_IgnoresAppend(fd) ==
  IF output[fd] # None THEN output[fd] ELSE position[fd]

(* Streams::get_read_stream and get_write_stream: the stream a call uses,  *)
(* created at the position of the file when there is none.                 *)
ReadStream(fd) == IF input[fd] # None THEN input[fd] ELSE position[fd]

WriteStream(fd) ==
  IF output[fd] # None THEN output[fd]
  ELSE IF append[fd] THEN Appending ELSE position[fd]

(* read_at on the host: n bytes at an offset, and no byte only at the end. *)
Found(n, at) ==
  /\ at <= MAX_OFFSET
  /\ n = 0 <=> at >= Size
  /\ n > 0 => at + n <= Size

(* Bound: a run ends where a position would pass u64::MAX, which takes     *)
(* 2^63 bytes written in append mode to reach.                             *)
Representable(fd, n) == position[fd] + n < U64

-----------------------------------------------------------------------------
(* Calls *)

(* An empty list of buffers answers before anything else is looked at. *)
EmptyBuffers == Succeed(<<>>, 0) /\ UNCHANGED <<content, position, append, streams>>

(* fd_read: the position and the stream advance by what was read; a host   *)
(* error, or an interrupted read, leaves a stream that was just created.   *)
ReadFails(fd) ==
  /\ input' = [input EXCEPT ![fd] = ReadStream(fd)]
  /\ Fail({"IO", "INTR"})
  /\ UNCHANGED <<content, position, append, output>>

ReadGets(fd, n) ==
  LET at == ReadStream(fd) IN
  /\ Found(n, at)
  /\ Representable(fd, n)
  /\ input' = [input EXCEPT ![fd] = at + n]
  /\ position' = [position EXCEPT ![fd] = position[fd] + n]
  /\ Succeed(SubSeq(content, at + 1, at + n), n)
  /\ UNCHANGED <<content, append, output>>

Read(fd) ==
  \/ EmptyBuffers
  \/ MaxLen > 0 /\ ReadFails(fd)
  \/ \E len \in 1..MaxLen : \E n \in 0..len : ReadGets(fd, n)

(* fd_write: likewise, but the position only advances when the append flag *)
(* is off.  `bytes' is what the host took of the buffer.                   *)
WriteFails(fd) ==
  /\ output' = [output EXCEPT ![fd] = WriteStream(fd)]
  /\ Fail({"IO"})
  /\ UNCHANGED <<content, position, append, input>>

(* Mutant: the position also advances in append mode. *)
WriteTo_AlwaysAdvances(fd, bytes, at, stream) ==
  /\ at + Len(bytes) <= MAX_OFFSET
  /\ content' = Overwrite(bytes, at)
  /\ output' = [output EXCEPT ![fd] = stream]
  /\ position' = [position EXCEPT ![fd] = position[fd] + Len(bytes)]
  /\ Succeed(<<>>, Len(bytes))
  /\ UNCHANGED <<append, input>>

WriteTo(fd, bytes, at, stream) ==
  /\ at + Len(bytes) <= MAX_OFFSET
  /\ content' = Overwrite(bytes, at)
  /\ output' = [output EXCEPT ![fd] = stream]
  /\ position' = IF append[fd] THEN position
                 ELSE [position EXCEPT ![fd] = position[fd] + Len(bytes)]
  /\ Succeed(<<>>, Len(bytes))
  /\ UNCHANGED <<append, input>>

WriteAppends(fd, bytes) ==
  WriteStream(fd) = Appending /\ WriteTo(fd, bytes, Size, Appending)

WriteAt(fd, bytes) ==
  /\ WriteStream(fd) # Appending
  /\ WriteTo(fd, bytes, WriteStream(fd), WriteStream(fd) + Len(bytes))

Write(fd) ==
  \/ EmptyBuffers
  \/ MaxLen > 0 /\ WriteFails(fd)
  \/ \E bytes \in Buffers \ {<<>>} :
       /\ Representable(fd, Len(bytes))
       /\ WriteAppends(fd, bytes) \/ WriteAt(fd, bytes)

(* Mutant: no test for a negative offset. *)
Seek_Unchecked(fd, base, delta) ==
  IF base + delta <= MAX_OFFSET
  THEN /\ input' = [input EXCEPT ![fd] = None]
       /\ output' = [output EXCEPT ![fd] = None]
       /\ position' = [position EXCEPT ![fd] = base + delta]
       /\ Succeed(<<>>, base + delta)
       /\ UNCHANGED <<content, append>>
  ELSE Fail({"INVAL"}) /\ UNCHANGED <<content, position, append, streams>>

(* fd_seek: from the start, the position or the size of the file, with     *)
(* checked additions in i64.  The streams are forgotten.                   *)
Seek(fd, base, delta) ==
  IF base + delta \in 0..MAX_OFFSET
  THEN /\ input' = [input EXCEPT ![fd] = None]
       /\ output' = [output EXCEPT ![fd] = None]
       /\ position' = [position EXCEPT ![fd] = base + delta]
       /\ Succeed(<<>>, base + delta)
       /\ UNCHANGED <<content, append>>
  ELSE Fail({"INVAL"}) /\ UNCHANGED <<content, position, append, streams>>

FdSeek(fd) ==
  \/ \E delta \in -(MAX_OFFSET + 1)..MAX_OFFSET, base \in {0, AsI64(position[fd]), Size} :
       Seek(fd, base, delta)
  \/ Fail({"HOST"}) /\ UNCHANGED <<content, position, append, streams>>

Tell(fd) ==
  Succeed(<<>>, position[fd]) /\ UNCHANGED <<content, position, append, streams>>

(* fd_fdstat_set_flags: the streams stay as they are. *)
SetFlags(fd, flag) ==
  /\ append' = [append EXCEPT ![fd] = flag]
  /\ Succeed(<<>>, 0)
  /\ UNCHANGED <<content, position, streams>>

(* fd_pread, fd_pwrite and fd_filestat_set_size go to the descriptor. *)
Pread ==
  /\ \/ Succeed(<<>>, 0)
     \/ MaxLen > 0 /\ Fail({"HOST", "INTR"})
     \/ \E at \in 0..MAX_OFFSET, len \in 1..MaxLen : \E n \in 0..len :
          Found(n, at) /\ Succeed(SubSeq(content, at + 1, at + n), n)
  /\ UNCHANGED <<content, position, append, streams>>

Pwrite ==
  /\ \/ content' = content /\ Succeed(<<>>, 0)
     \/ content' = content /\ MaxLen > 0 /\ Fail({"HOST"})
     \/ \E bytes \in Buffers \ {<<>>}, at \in 0..MAX_OFFSET :
          /\ at + Len(bytes) <= MAX_OFFSET
          /\ content' = Overwrite(bytes, at)
          /\ Succeed(<<>>, Len(bytes))
  /\ UNCHANGED <<position, append, streams>>

SetSize ==
  /\ \/ content' = content /\ Fail({"HOST"})
     \/ \E size \in 0..MAX_OFFSET : content' = Resized(size) /\ Succeed(<<>>, 0)
  /\ UNCHANGED <<position, append, streams>>

-----------------------------------------------------------------------------
(* Specifications *)

(* Calls that leave the streams of a descriptor to themselves. *)
Positioned ==
  Pread \/ Pwrite \/ SetSize \/ \E fd \in Fd : FdSeek(fd) \/ Tell(fd)

Next ==
  \/ Positioned
  \/ \E fd \in Fd : Read(fd) \/ Write(fd) \/ \E flag \in BOOLEAN : SetFlags(fd, flag)

(* Any guest, making any sequence of calls. *)
Spec == Init /\ [][Next]_vars

(* The rule of C's stdio: a seek between reads and writes at the position. *)
MayRead(fd) == output[fd] \in {None, Appending}
MayWrite(fd) == append[fd] \/ input[fd] = None

DisciplinedNext ==
  \/ Positioned
  \/ \E fd \in Fd :
       \/ MayRead(fd) /\ Read(fd)
       \/ MayWrite(fd) /\ Write(fd)
       \/ output[fd] = None /\ \E flag \in BOOLEAN : SetFlags(fd, flag)

(* A guest that seeks when it turns from reading to writing or back, and   *)
(* changes the append flag only before it writes.                          *)
DisciplinedSpec == Init /\ [][DisciplinedNext]_vars

-----------------------------------------------------------------------------
(* Properties *)

OptOffset == 0..(U64 - 1) \cup {None}

(* The type invariant. *)
TypeOK ==
  /\ content \in Seq(Byte \cup {Zero}) /\ Size <= MAX_OFFSET
  /\ position \in [Fd -> 0..(U64 - 1)]
  /\ append \in [Fd -> BOOLEAN]
  /\ input \in [Fd -> OptOffset]
  /\ output \in [Fd -> OptOffset \cup {Appending}]
  /\ ret.errno \in {"SUCCESS", "INVAL", "INTR", "IO", "HOST"}
  /\ ret.num \in 0..(U64 - 1)

(* Whatever a guest does, fd_tell never lags behind what fd_read has read: *)
(* writes, failed calls and changed flags only push the position ahead.    *)
TellCoversReads ==
  \A fd \in Fd : input[fd] # None => input[fd] <= position[fd]

(* For a disciplined guest the streams of the host and the position of the *)
(* adapter stay together, through errors and short reads and writes.       *)
InSync ==
  \A fd \in Fd :
    /\ input[fd] \in {None, position[fd]}
    /\ output[fd] \in IF append[fd] THEN {None, Appending} ELSE {None, position[fd]}
    /\ ~append[fd] => input[fd] = None \/ output[fd] = None

(* "In append mode, all writes append to the file" (lib.rs:2053): what was *)
(* in the file before such an fd_write is still there after it.            *)
AppendKeeps ==
  (\E fd \in Fd : append[fd] /\ Write(fd)) =>
    Size <= Len(content') /\ SubSeq(content', 1, Size) = content

AppendsAppend == [][AppendKeeps]_vars

Posix == INSTANCE PosixFile WITH offset <- position

(* A disciplined guest gets files with one offset per descriptor, as if    *)
(* the streams of the host were not there.                                 *)
ImplementsPosixFile == Posix!Spec
=============================================================================
