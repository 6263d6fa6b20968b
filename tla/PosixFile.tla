----------------------------- MODULE PosixFile -----------------------------
(***************************************************************************)
(* What the fd_* calls on files promise (lib.rs describes each as "similar *)
(* to" a call of POSIX): every file descriptor has one offset, which reads *)
(* and writes share, and an append flag that sends writes to the end of    *)
(* the file.  Writing to the end leaves the offset alone, as fd_write says *)
(* it does.  Reads and writes may be short, and any call may fail and then *)
(* changes nothing.                                                        *)
(***************************************************************************)
EXTENDS Integers, Sequences

CONSTANTS
  Fd,          \* Descriptors of one file.
  Byte,        \* What a guest writes.
  Zero,        \* What fills a gap in the file.
  MAX_OFFSET,  \* The greatest offset there is.
  MaxLen       \* The longest buffer of a call.

VARIABLES
  content,   \* The bytes of the file.
  offset,    \* The offset of each descriptor.
  append,    \* Its append flag.
  ret        \* What the last call returned.

vars == <<content, offset, append, ret>>

Size == Len(content)
Buffers == UNION {[1..n -> Byte] : n \in 0..MaxLen}

Overwrite(bytes, at) ==
  [i \in 1..(IF at + Len(bytes) > Size THEN at + Len(bytes) ELSE Size) |->
     IF i \in (at + 1)..(at + Len(bytes)) THEN bytes[i - at]
     ELSE IF i <= Size THEN content[i] ELSE Zero]

Resized(size) == [i \in 1..size |-> IF i <= Size THEN content[i] ELSE Zero]

Fail == \E e \in {"INVAL", "INTR", "IO", "HOST"} :
  ret' = [errno |-> e, data |-> <<>>, num |-> 0] /\ UNCHANGED <<content, offset, append>>

Succeed(data, num) == ret' = [errno |-> "SUCCESS", data |-> data, num |-> num]

(* n bytes found at an offset; none when asked for some is the end of file. *)
Found(n, at, len) ==
  /\ n <= len
  /\ n = 0 => len = 0 \/ at >= Size
  /\ n > 0 => at + n <= Size
  /\ Succeed(SubSeq(content, at + 1, at + n), n)

Read(fd) ==
  /\ \E len \in 0..MaxLen, n \in 0..MaxLen :
       /\ Found(n, offset[fd], len)
       /\ offset' = [offset EXCEPT ![fd] = offset[fd] + n]
  /\ UNCHANGED <<content, append>>

Write(fd) ==
  /\ \E bytes \in Buffers :
       /\ content' = IF bytes = <<>> THEN content
                     ELSE Overwrite(bytes, IF append[fd] THEN Size ELSE offset[fd])
       /\ offset' = IF append[fd] THEN offset
                    ELSE [offset EXCEPT ![fd] = offset[fd] + Len(bytes)]
       /\ Succeed(<<>>, Len(bytes))
  /\ UNCHANGED append

(* Seek and tell: report the new offset. *)
Seek(fd) ==
  /\ \E to \in 0..MAX_OFFSET :
       offset' = [offset EXCEPT ![fd] = to] /\ Succeed(<<>>, to)
  /\ UNCHANGED <<content, append>>

Tell(fd) == Succeed(<<>>, offset[fd]) /\ UNCHANGED <<content, offset, append>>

SetFlags(fd) ==
  /\ \E flag \in BOOLEAN : append' = [append EXCEPT ![fd] = flag]
  /\ Succeed(<<>>, 0)
  /\ UNCHANGED <<content, offset>>

(* Calls that bring their own offset. *)
Pread ==
  /\ \E at \in 0..MAX_OFFSET, len \in 0..MaxLen, n \in 0..MaxLen : Found(n, at, len)
  /\ UNCHANGED <<content, offset, append>>

Pwrite ==
  /\ \E bytes \in Buffers, at \in 0..MAX_OFFSET :
       /\ content' = IF bytes = <<>> THEN content ELSE Overwrite(bytes, at)
       /\ Succeed(<<>>, Len(bytes))
  /\ UNCHANGED <<offset, append>>

SetSize ==
  /\ \E size \in 0..MAX_OFFSET : content' = Resized(size)
  /\ Succeed(<<>>, 0)
  /\ UNCHANGED <<offset, append>>

Init ==
  /\ content = <<>>
  /\ offset = [fd \in Fd |-> 0]
  /\ append \in [Fd -> BOOLEAN]
  /\ ret = [errno |-> "SUCCESS", data |-> <<>>, num |-> 0]

Next ==
  \/ Fail \/ Pread \/ Pwrite \/ SetSize
  \/ \E fd \in Fd : Read(fd) \/ Write(fd) \/ Seek(fd) \/ Tell(fd) \/ SetFlags(fd)

Spec == Init /\ [][Next]_vars
=============================================================================
