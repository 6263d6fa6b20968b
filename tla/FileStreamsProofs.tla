------------------------- MODULE FileStreamsProofs -------------------------
(***************************************************************************)
(* Proofs about FileStreams, for every number of descriptors, greatest     *)
(* offset and length of buffers.                                           *)
(***************************************************************************)
EXTENDS FileStreams, SequenceTheorems, TLAPS

USE OffsetAssumption

LEMMA Offsets ==
  /\ U64 \in Nat /\ MAX_OFFSET < U64
  /\ OptOffset \subseteq Int \cup {None}
  /\ None \in OptOffset
BY DEF U64, OptOffset

LEMMA EmptyBuffer == <<>> \in Buffers
<1>1. <<>> \in [1..0 -> Byte]
  OBVIOUS
<1> QED
  BY <1>1 DEF Buffers

LEMMA BufferIsSeq ==
  ASSUME NEW bytes \in Buffers
  PROVE  bytes \in Seq(Byte) /\ Len(bytes) \in 0..MaxLen
<1>1. PICK n \in 0..MaxLen : bytes \in [1..n -> Byte]
  BY DEF Buffers
<1> QED
  BY <1>1

(* A written file holds bytes and gaps, as long as the farther of its old  *)
(* end and the end of what was written.                                    *)
LEMMA OverwriteIsSeq ==
  ASSUME content \in Seq(Byte \cup {Zero}), NEW bytes \in Buffers, NEW at \in Nat
  PROVE  /\ Overwrite(bytes, at) \in Seq(Byte \cup {Zero})
         /\ Len(Overwrite(bytes, at)) = IF at + Len(bytes) > Size THEN at + Len(bytes) ELSE Size
<1> DEFINE n == IF at + Len(bytes) > Size THEN at + Len(bytes) ELSE Size
           f(i) == IF i \in (at + 1)..(at + Len(bytes)) THEN bytes[i - at]
                   ELSE IF i <= Size THEN content[i] ELSE Zero
<1>1. n \in Nat
  BY BufferIsSeq DEF Size
<1>2. ASSUME NEW i \in 1..n PROVE f(i) \in Byte \cup {Zero}
  <2>1. CASE i \in (at + 1)..(at + Len(bytes))
    <3>1. i - at \in 1..Len(bytes)
      BY <2>1, BufferIsSeq
    <3> QED
      BY <2>1, <3>1, BufferIsSeq
  <2>2. CASE i \notin (at + 1)..(at + Len(bytes)) /\ i <= Size
    BY <2>2 DEF Size
  <2> QED
    BY <2>1, <2>2
<1>3. Overwrite(bytes, at) = [i \in 1..n |-> f(i)]
  BY DEF Overwrite
<1> HIDE DEF n, f
<1>4. [i \in 1..n |-> f(i)] \in Seq(Byte \cup {Zero}) /\ Len([i \in 1..n |-> f(i)]) = n
  BY <1>1, <1>2
<1> QED
  BY <1>3, <1>4 DEF n

LEMMA ResizedIsSeq ==
  ASSUME content \in Seq(Byte \cup {Zero}), NEW size \in Nat
  PROVE  Resized(size) \in Seq(Byte \cup {Zero}) /\ Len(Resized(size)) = size
BY DEF Resized, Size

LEMMA ReadStreamType ==
  ASSUME TypeOK, NEW fd \in Fd
  PROVE  ReadStream(fd) \in 0..(U64 - 1)
BY DEF TypeOK, OptOffset, ReadStream

LEMMA WriteStreamType ==
  ASSUME TypeOK, NEW fd \in Fd
  PROVE  WriteStream(fd) \in 0..(U64 - 1) \cup {Appending}
BY DEF TypeOK, OptOffset, WriteStream

LEMMA ReadType ==
  ASSUME TypeOK, NEW fd \in Fd, Read(fd)
  PROVE  TypeOK'
<1>1. CASE EmptyBuffers
  BY <1>1, Offsets DEF TypeOK, EmptyBuffers, Succeed, streams, Size
<1>2. CASE ReadFails(fd)
  <2>1. input' \in [Fd -> OptOffset]
    BY <1>2, ReadStreamType DEF ReadFails, TypeOK, OptOffset
  <2> QED
    BY <1>2, <2>1, Offsets DEF TypeOK, ReadFails, Fail, Size
<1>3. ASSUME NEW n \in 0..MaxLen, ReadGets(fd, n) PROVE TypeOK'
  <2>1. ReadStream(fd) + n \in 0..(U64 - 1)
    BY <1>3, ReadStreamType, Offsets DEF ReadGets, Found, TypeOK, Size
  <2>2. position[fd] + n \in 0..(U64 - 1)
    BY <1>3, Offsets DEF ReadGets, Representable, TypeOK
  <2>3. input' \in [Fd -> OptOffset] /\ position' \in [Fd -> 0..(U64 - 1)]
    BY <1>3, <2>1, <2>2 DEF ReadGets, TypeOK, OptOffset
  <2>4. n \in 0..(U64 - 1)
    BY <1>3, <2>2, Offsets DEF TypeOK
  <2> QED
    BY <1>3, <2>3, <2>4 DEF TypeOK, ReadGets, Succeed, Size
<1> QED
  BY <1>1, <1>2, <1>3 DEF Read

LEMMA WriteToType ==
  ASSUME TypeOK, NEW fd \in Fd, NEW bytes \in Buffers, NEW at \in Nat,
         NEW stream \in OptOffset \cup {Appending},
         Representable(fd, Len(bytes)), WriteTo(fd, bytes, at, stream)
  PROVE  TypeOK'
<1>1. content' \in Seq(Byte \cup {Zero}) /\ Size' <= MAX_OFFSET
  BY OverwriteIsSeq, BufferIsSeq DEF TypeOK, WriteTo, Size
<1>2. position[fd] + Len(bytes) \in 0..(U64 - 1)
  BY BufferIsSeq, Offsets DEF TypeOK, Representable
<1>3. position' \in [Fd -> 0..(U64 - 1)] /\ output' \in [Fd -> OptOffset \cup {Appending}]
  BY <1>2 DEF TypeOK, WriteTo
<1>4. Len(bytes) \in 0..(U64 - 1)
  BY <1>2, BufferIsSeq, Offsets DEF TypeOK
<1> QED
  BY <1>1, <1>3, <1>4 DEF TypeOK, WriteTo, Succeed

LEMMA WriteType ==
  ASSUME TypeOK, NEW fd \in Fd, Write(fd)
  PROVE  TypeOK'
<1>1. CASE EmptyBuffers
  BY <1>1, Offsets DEF TypeOK, EmptyBuffers, Succeed, streams, Size
<1>2. CASE WriteFails(fd)
  <2>1. output' \in [Fd -> OptOffset \cup {Appending}]
    BY <1>2, WriteStreamType DEF WriteFails, TypeOK, OptOffset
  <2> QED
    BY <1>2, <2>1, Offsets DEF TypeOK, WriteFails, Fail, Size
<1>3. ASSUME NEW bytes \in Buffers, Representable(fd, Len(bytes)), WriteAppends(fd, bytes)
      PROVE  TypeOK'
  BY <1>3, WriteToType DEF WriteAppends, Size, TypeOK
<1>4. ASSUME NEW bytes \in Buffers, Representable(fd, Len(bytes)), WriteAt(fd, bytes)
      PROVE  TypeOK'
  <2>1. WriteStream(fd) \in Nat /\ WriteStream(fd) + Len(bytes) \in OptOffset
    BY <1>4, WriteStreamType, BufferIsSeq, Offsets DEF WriteAt, WriteTo, OptOffset
  <2> QED
    BY <1>4, <2>1, WriteToType DEF WriteAt
<1> QED
  BY <1>1, <1>2, <1>3, <1>4 DEF Write

LEMMA SeekType ==
  ASSUME TypeOK, NEW fd \in Fd, FdSeek(fd)
  PROVE  TypeOK'
<1>1. ASSUME NEW base \in {0, AsI64(position[fd]), Size}, NEW delta \in Int, Seek(fd, base, delta)
      PROVE  TypeOK'
  <2>1. CASE base + delta \in 0..MAX_OFFSET
    <3>1. base + delta \in 0..(U64 - 1)
      BY <2>1, Offsets
    <3>2. position' \in [Fd -> 0..(U64 - 1)]
      BY <1>1, <2>1, <3>1 DEF Seek, TypeOK
    <3>3. input' \in [Fd -> OptOffset] /\ output' \in [Fd -> OptOffset \cup {Appending}]
      BY <1>1, <2>1, Offsets DEF Seek, TypeOK
    <3> QED
      BY <1>1, <2>1, <3>1, <3>2, <3>3 DEF Seek, TypeOK, Succeed, Size
  <2>2. CASE base + delta \notin 0..MAX_OFFSET
    BY <1>1, <2>2, Offsets DEF Seek, TypeOK, Fail, streams, Size
  <2> QED
    BY <2>1, <2>2
<1>2. CASE Fail({"HOST"}) /\ UNCHANGED <<content, position, append, streams>>
  BY <1>2, Offsets DEF TypeOK, Fail, streams, Size
<1> QED
  BY <1>1, <1>2 DEF FdSeek

LEMMA PositionedType ==
  ASSUME TypeOK, Positioned
  PROVE  TypeOK'
<1>1. CASE Pread
  <2>1. ASSUME NEW n \in 0..MaxLen, NEW at \in Nat, Found(n, at) PROVE n \in 0..(U64 - 1)
    BY <2>1, Offsets DEF Found, TypeOK, Size
  <2>2. ret'.errno \in {"SUCCESS", "HOST", "INTR"} /\ ret'.num \in 0..(U64 - 1)
    <3>1. CASE Succeed(<<>>, 0) \/ Fail({"HOST", "INTR"})
      BY <3>1, Offsets DEF Succeed, Fail
    <3>2. CASE \E at \in 0..MAX_OFFSET, len \in 1..MaxLen : \E n \in 0..len :
                 Found(n, at) /\ Succeed(SubSeq(content, at + 1, at + n), n)
      <4>1. PICK at \in 0..MAX_OFFSET, len \in 1..MaxLen :
              \E n \in 0..len : Found(n, at) /\ Succeed(SubSeq(content, at + 1, at + n), n)
        BY <3>2
      <4>2. PICK n \in 0..len : Found(n, at) /\ Succeed(SubSeq(content, at + 1, at + n), n)
        BY <4>1
      <4> QED
        BY <2>1, <4>2 DEF Succeed
    <3> QED
      BY <1>1, <3>1, <3>2 DEF Pread
  <2> QED
    BY <1>1, <2>2 DEF TypeOK, Pread, streams, Size
<1>2. CASE Pwrite
  <2>1. ASSUME NEW bytes \in Buffers, NEW at \in Nat, at + Len(bytes) <= MAX_OFFSET,
               content' = Overwrite(bytes, at), Succeed(<<>>, Len(bytes))
        PROVE  /\ content' \in Seq(Byte \cup {Zero}) /\ Size' <= MAX_OFFSET
               /\ ret'.errno = "SUCCESS" /\ ret'.num \in 0..(U64 - 1)
    BY <2>1, OverwriteIsSeq, BufferIsSeq, Offsets DEF TypeOK, Size, Succeed
  <2>2. CASE content' = content
    <3>1. ret'.errno \in {"SUCCESS", "HOST"} /\ ret'.num \in 0..(U64 - 1)
      BY <1>2, <2>1, Offsets DEF Pwrite, Succeed, Fail
    <3> QED
      BY <1>2, <2>2, <3>1 DEF TypeOK, Pwrite, streams, Size
  <2>3. CASE content' # content
    <3>1. PICK bytes \in Buffers, at \in 0..MAX_OFFSET :
            at + Len(bytes) <= MAX_OFFSET /\ content' = Overwrite(bytes, at) /\ Succeed(<<>>, Len(bytes))
      BY <1>2, <2>3 DEF Pwrite
    <3> QED
      BY <1>2, <2>1, <3>1 DEF TypeOK, Pwrite, streams
  <2> QED
    BY <2>2, <2>3
<1>3. CASE SetSize
  <2>1. content' \in Seq(Byte \cup {Zero}) /\ Size' <= MAX_OFFSET
    BY <1>3, ResizedIsSeq DEF SetSize, TypeOK, Size
  <2>2. ret'.errno \in {"SUCCESS", "HOST"} /\ ret'.num = 0
    BY <1>3 DEF SetSize, Succeed, Fail
  <2> QED
    BY <1>3, <2>1, <2>2, Offsets DEF TypeOK, SetSize, streams
<1>4. ASSUME NEW fd \in Fd, Tell(fd) PROVE TypeOK'
  BY <1>4 DEF TypeOK, Tell, Succeed, streams, Size
<1> QED
  BY <1>1, <1>2, <1>3, <1>4, SeekType DEF Positioned

LEMMA NextType == TypeOK /\ [Next]_vars => TypeOK'
<1> SUFFICES ASSUME TypeOK, [Next]_vars PROVE TypeOK'
  OBVIOUS
<1>1. ASSUME NEW fd \in Fd, NEW flag \in BOOLEAN, SetFlags(fd, flag) PROVE TypeOK'
  BY <1>1, Offsets DEF TypeOK, SetFlags, Succeed, streams, Size
<1>2. CASE UNCHANGED vars
  BY <1>2 DEF TypeOK, vars, Size
<1> QED
  BY <1>1, <1>2, PositionedType, ReadType, WriteType DEF Next

LEMMA InitTypeOK == Init => TypeOK
BY Offsets DEF Init, TypeOK, Size

(* The type invariant: no position, stream or size leaves the range of the *)
(* integers that hold it, whatever calls a guest makes.                    *)
THEOREM TypeCorrect == Spec => []TypeOK
<1> QED
  BY InitTypeOK, NextType, PTL DEF Spec

-----------------------------------------------------------------------------
(* What a guest may rely on whatever it calls. *)

(* A stream that exists is created at the position, and every read moves   *)
(* both; every other call moves the position ahead or resets the stream.   *)
LEMMA NextTell == TypeOK /\ TellCoversReads /\ [Next]_vars => TellCoversReads'
<1> SUFFICES ASSUME TypeOK, TellCoversReads, [Next]_vars PROVE TellCoversReads'
  OBVIOUS
<1>1. CASE UNCHANGED <<position, input>>
  BY <1>1 DEF TellCoversReads
<1>2. ASSUME NEW fd \in Fd, ReadFails(fd) PROVE TellCoversReads'
  <2>1. ReadStream(fd) <= position[fd]
    BY DEF TellCoversReads, ReadStream, TypeOK
  <2> QED
    BY <1>2, <2>1 DEF TellCoversReads, ReadFails, TypeOK
<1>3. ASSUME NEW fd \in Fd, NEW n \in 0..MaxLen, ReadGets(fd, n) PROVE TellCoversReads'
  <2>1. ReadStream(fd) <= position[fd]
    BY DEF TellCoversReads, ReadStream, TypeOK
  <2>2. ReadStream(fd) + n <= position[fd] + n
    BY <2>1, ReadStreamType DEF TypeOK
  <2> QED
    BY <1>3, <2>2 DEF TellCoversReads, ReadGets, TypeOK
<1>4. ASSUME NEW fd \in Fd, Read(fd) PROVE TellCoversReads'
  BY <1>1, <1>2, <1>3, <1>4 DEF Read, EmptyBuffers, streams
<1>5. ASSUME NEW fd \in Fd, NEW bytes \in Buffers, NEW at, NEW stream, WriteTo(fd, bytes, at, stream)
      PROVE  TellCoversReads'
  <2>1. CASE append[fd]
    BY <1>1, <1>5, <2>1 DEF WriteTo
  <2>2. CASE ~append[fd]
    <3>1. position' = [position EXCEPT ![fd] = position[fd] + Len(bytes)] /\ input' = input
      BY <1>5, <2>2 DEF WriteTo
    <3>2. \A g \in Fd : position[g] <= position'[g]
      BY <3>1, BufferIsSeq, Offsets DEF TypeOK
    <3>3. ASSUME NEW g \in Fd, input[g] # None PROVE input[g] <= position'[g]
      <4>1. input[g] \in Int /\ position[g] \in Int /\ position'[g] \in Int
        BY <3>1, <3>3, BufferIsSeq DEF TypeOK, OptOffset
      <4> QED
        BY <3>2, <3>3, <4>1 DEF TellCoversReads
    <3> QED
      BY <3>1, <3>3 DEF TellCoversReads
  <2> QED
    BY <2>1, <2>2
<1>6. ASSUME NEW fd \in Fd, Write(fd) PROVE TellCoversReads'
  BY <1>1, <1>5, <1>6 DEF Write, EmptyBuffers, WriteFails, WriteAppends, WriteAt, streams
<1>7. ASSUME NEW fd \in Fd, FdSeek(fd) PROVE TellCoversReads'
  BY <1>1, <1>7 DEF TellCoversReads, FdSeek, Seek, TypeOK, streams
<1> QED
  BY <1>1, <1>4, <1>6, <1>7
  DEF Next, Positioned, Pread, Pwrite, SetSize, Tell, SetFlags, streams, vars

(* fd_tell never lags behind what fd_read has read.                        *)
THEOREM TellNeverLags == Spec => []TellCoversReads
<1>1. Init => TellCoversReads
  BY DEF Init, TellCoversReads
<1> QED
  BY <1>1, NextTell, TypeCorrect, PTL DEF Spec

-----------------------------------------------------------------------------
(* What a disciplined guest may rely on. *)

LEMMA DisciplinedIsNext == [DisciplinedNext]_vars => [Next]_vars
BY DEF DisciplinedNext, Next

(* The streams of one descriptor against its position. *)
Sync(fd) ==
  /\ input[fd] \in {None, position[fd]}
  /\ output[fd] \in IF append[fd] THEN {None, Appending} ELSE {None, position[fd]}
  /\ ~append[fd] => input[fd] = None \/ output[fd] = None

LEMMA InSyncIsSync == InSync <=> \A fd \in Fd : Sync(fd)
BY DEF InSync, Sync

(* A call for one descriptor leaves the others alone. *)
LEMMA OthersInSync ==
  ASSUME InSync, NEW fd \in Fd, Sync(fd)',
         \A g \in Fd \ {fd} :
           /\ input'[g] = input[g] /\ output'[g] = output[g]
           /\ position'[g] = position[g] /\ append'[g] = append[g]
  PROVE  InSync'
BY DEF InSync, Sync

LEMMA NextInSync == TypeOK /\ InSync /\ [DisciplinedNext]_vars => InSync'
<1> SUFFICES ASSUME TypeOK, InSync, [DisciplinedNext]_vars PROVE InSync'
  OBVIOUS
<1>1. CASE UNCHANGED <<position, append, input, output>>
  BY <1>1 DEF InSync
<1>2. ASSUME NEW fd \in Fd, MayRead(fd), ReadFails(fd) PROVE InSync'
  <2>1. Sync(fd)'
    BY <1>2 DEF Sync, InSync, MayRead, ReadFails, ReadStream, TypeOK, OptOffset
  <2> QED
    BY <1>2, <2>1, OthersInSync DEF ReadFails, TypeOK
<1>3. ASSUME NEW fd \in Fd, NEW n \in 0..MaxLen, MayRead(fd), ReadGets(fd, n) PROVE InSync'
  <2>1. ReadStream(fd) = position[fd]
    BY DEF InSync, ReadStream
  <2>2. append[fd] \/ output[fd] = None
    BY <1>3 DEF InSync, MayRead, TypeOK
  <2>3. Sync(fd)'
    BY <1>3, <2>1, <2>2 DEF Sync, InSync, ReadGets, TypeOK
  <2> QED
    BY <1>3, <2>3, OthersInSync DEF ReadGets, TypeOK
<1>4. ASSUME NEW fd \in Fd, MayWrite(fd), WriteFails(fd) PROVE InSync'
  <2>1. Sync(fd)'
    BY <1>4 DEF Sync, InSync, MayWrite, WriteFails, WriteStream, TypeOK
  <2> QED
    BY <1>4, <2>1, OthersInSync DEF WriteFails, TypeOK
<1>5. ASSUME NEW fd \in Fd, MayWrite(fd), NEW bytes \in Buffers, WriteAppends(fd, bytes) PROVE InSync'
  <2>1. append[fd]
    BY <1>5 DEF WriteAppends, WriteStream, InSync, TypeOK
  <2>2. Sync(fd)'
    BY <1>5, <2>1 DEF Sync, InSync, WriteAppends, WriteTo, TypeOK
  <2> QED
    BY <1>5, <2>1, <2>2, OthersInSync DEF WriteAppends, WriteTo, TypeOK
<1>6. ASSUME NEW fd \in Fd, MayWrite(fd), NEW bytes \in Buffers, WriteAt(fd, bytes) PROVE InSync'
  <2>1. ~append[fd] /\ WriteStream(fd) = position[fd] /\ input[fd] = None
    BY <1>6 DEF WriteAt, WriteStream, InSync, MayWrite, TypeOK
  <2>2. Sync(fd)'
    BY <1>6, <2>1 DEF Sync, WriteAt, WriteTo, TypeOK
  <2> QED
    BY <1>6, <2>1, <2>2, OthersInSync DEF WriteAt, WriteTo, TypeOK
<1>7. ASSUME NEW fd \in Fd, FdSeek(fd) PROVE InSync'
  <2>1. CASE UNCHANGED <<position, append, input, output>>
    BY <1>1, <2>1
  <2>2. ASSUME NEW p, position' = [position EXCEPT ![fd] = p], append' = append,
               input' = [input EXCEPT ![fd] = None], output' = [output EXCEPT ![fd] = None]
        PROVE  InSync'
    BY <2>2 DEF InSync, TypeOK
  <2> QED
    BY <1>7, <2>1, <2>2 DEF FdSeek, Seek, streams
<1>8. ASSUME NEW fd \in Fd, NEW flag \in BOOLEAN, output[fd] = None, SetFlags(fd, flag) PROVE InSync'
  <2>1. Sync(fd)'
    BY <1>8 DEF Sync, InSync, SetFlags, streams, TypeOK
  <2> QED
    BY <1>8, <2>1, OthersInSync DEF SetFlags, streams, TypeOK
<1>9. CASE Positioned
  BY <1>1, <1>7, <1>9 DEF Positioned, Pread, Pwrite, SetSize, Tell, streams
<1>10. ASSUME NEW fd \in Fd, MayRead(fd), Read(fd) PROVE InSync'
  BY <1>1, <1>2, <1>3, <1>10 DEF Read, EmptyBuffers, streams
<1>11. ASSUME NEW fd \in Fd, MayWrite(fd), Write(fd) PROVE InSync'
  BY <1>1, <1>4, <1>5, <1>6, <1>11 DEF Write, EmptyBuffers, streams
<1> QED
  BY <1>1, <1>8, <1>9, <1>10, <1>11 DEF DisciplinedNext, vars

LEMMA DisciplinedInvariants == DisciplinedSpec => [](TypeOK /\ InSync)
<1>1. Init => TypeOK /\ InSync
  BY InitTypeOK DEF Init, InSync
<1>2. TypeOK /\ InSync /\ [DisciplinedNext]_vars => (TypeOK /\ InSync)'
  BY NextType, NextInSync, DisciplinedIsNext
<1> QED
  BY <1>1, <1>2, PTL DEF DisciplinedSpec

(* The streams of a disciplined guest stay at the position of the file.    *)
THEOREM StreamsInSync == DisciplinedSpec => []InSync
BY DisciplinedInvariants, PTL

(* Writing at the end of a file keeps all of it. *)
LEMMA OverwriteAtEnd ==
  ASSUME content \in Seq(Byte \cup {Zero}), NEW bytes \in Buffers
  PROVE  /\ Size <= Len(Overwrite(bytes, Size))
         /\ SubSeq(Overwrite(bytes, Size), 1, Size) = content
<1> DEFINE new == Overwrite(bytes, Size)
<1>1. Size \in Nat /\ new \in Seq(Byte \cup {Zero}) /\ Len(new) = Size + Len(bytes)
  BY OverwriteIsSeq, BufferIsSeq DEF Size
<1>2. \A i \in 1..Size : new[i] = content[i]
  BY BufferIsSeq DEF Overwrite, Size
<1>3. SubSeq(new, 1, Size) \in Seq(Byte \cup {Zero}) /\ Len(SubSeq(new, 1, Size)) = Size
  BY <1>1, BufferIsSeq
<1>4. \A i \in 1..Size : SubSeq(new, 1, Size)[i] = content[i]
  BY <1>1, <1>2, BufferIsSeq
<1> HIDE DEF new
<1>5. SubSeq(new, 1, Size) = content
  BY <1>3, <1>4, SeqEqual DEF Size
<1> QED
  BY <1>1, <1>5, BufferIsSeq DEF new

LEMMA StepAppends == TypeOK /\ InSync => AppendKeeps
<1> SUFFICES ASSUME TypeOK, InSync, NEW fd \in Fd, append[fd], Write(fd)
             PROVE  Size <= Len(content') /\ SubSeq(content', 1, Size) = content
  BY DEF AppendKeeps
<1>1. WriteStream(fd) = Appending
  BY DEF InSync, WriteStream
<1>2. CASE content' = content
  <2>1. SubSeq(content, 1, Size) = content /\ Size \in Nat
    BY DEF TypeOK, Size
  <2> QED
    BY <1>2, <2>1 DEF Size
<1>3. CASE content' # content
  <2>1. PICK bytes \in Buffers : WriteAppends(fd, bytes)
    BY <1>1, <1>3 DEF Write, EmptyBuffers, WriteFails, WriteAt
  <2>2. content' = Overwrite(bytes, Size)
    BY <2>1 DEF WriteAppends, WriteTo
  <2> QED
    BY <2>2, OverwriteAtEnd DEF TypeOK
<1> QED
  BY <1>2, <1>3

(* In append mode, the writes of a disciplined guest keep the whole file.  *)
THEOREM DisciplinedAppends == DisciplinedSpec => AppendsAppend
<1>1. TypeOK /\ InSync /\ [DisciplinedNext]_vars => [AppendKeeps]_vars
  BY StepAppends
<1> QED
  BY <1>1, DisciplinedInvariants, PTL DEF DisciplinedSpec, AppendsAppend

-----------------------------------------------------------------------------
(* A disciplined guest cannot tell the streams are there. *)

LEMMA EmptyCall == EmptyBuffers => Posix!Pwrite
<1> SUFFICES ASSUME EmptyBuffers PROVE Posix!Pwrite
  OBVIOUS
<1>1. <<>> \in Posix!Buffers /\ 0 \in 0..MAX_OFFSET
  BY EmptyBuffer DEF Buffers, Posix!Buffers
<1>2. Posix!Succeed(<<>>, Len(<<>>))
  BY DEF EmptyBuffers, Succeed, Posix!Succeed
<1>3. UNCHANGED <<content, position, append>>
  BY DEF EmptyBuffers
<1> QED
  BY <1>1, <1>2, <1>3 DEF Posix!Pwrite

LEMMA FailedCall ==
  ASSUME NEW errors \in SUBSET {"INVAL", "INTR", "IO", "HOST"}, Fail(errors),
         UNCHANGED <<content, position, append>>
  PROVE  Posix!Fail
BY DEF Fail, Posix!Fail

LEMMA ReadMaps ==
  ASSUME TypeOK, InSync, NEW fd \in Fd, Read(fd)
  PROVE  Posix!Next
<1>1. CASE EmptyBuffers
  BY <1>1, EmptyCall DEF Posix!Next
<1>2. CASE ReadFails(fd)
  BY <1>2, FailedCall DEF ReadFails, Posix!Next
<1>3. ASSUME NEW len \in 1..MaxLen, NEW n \in 0..len, ReadGets(fd, n) PROVE Posix!Next
  <2>1. ReadStream(fd) = position[fd]
    BY DEF InSync, ReadStream
  <2>2. Posix!Found(n, position[fd], len)
    BY <1>3, <2>1 DEF ReadGets, Found, Posix!Found, Posix!Size, Size, Succeed, Posix!Succeed
  <2>3. len \in 0..MaxLen /\ n \in 0..MaxLen
    OBVIOUS
  <2>4. Posix!Read(fd)
    BY <1>3, <2>2, <2>3 DEF ReadGets, Posix!Read
  <2> QED
    BY <2>4 DEF Posix!Next
<1> QED
  BY <1>1, <1>2, <1>3 DEF Read

LEMMA WriteToMaps ==
  ASSUME NEW fd \in Fd, NEW bytes \in Buffers \ {<<>>}, NEW at, NEW stream,
         at = (IF append[fd] THEN Size ELSE position[fd]), WriteTo(fd, bytes, at, stream)
  PROVE  Posix!Next
<1>1. bytes \in Posix!Buffers
  BY DEF Buffers, Posix!Buffers
<1>2. content' = Posix!Overwrite(bytes, IF append[fd] THEN Posix!Size ELSE position[fd])
  BY DEF WriteTo, Overwrite, Posix!Overwrite, Size, Posix!Size
<1>3. Posix!Write(fd)
  BY <1>1, <1>2 DEF WriteTo, Posix!Write, Succeed, Posix!Succeed
<1> QED
  BY <1>3 DEF Posix!Next

LEMMA WriteMaps ==
  ASSUME TypeOK, InSync, NEW fd \in Fd, Write(fd)
  PROVE  Posix!Next
<1>1. CASE EmptyBuffers
  BY <1>1, EmptyCall DEF Posix!Next
<1>2. CASE WriteFails(fd)
  BY <1>2, FailedCall DEF WriteFails, Posix!Next
<1>3. ASSUME NEW bytes \in Buffers \ {<<>>}, WriteAppends(fd, bytes) PROVE Posix!Next
  <2>1. append[fd]
    BY <1>3 DEF WriteAppends, WriteStream, InSync, TypeOK
  <2> QED
    BY <1>3, <2>1, WriteToMaps DEF WriteAppends
<1>4. ASSUME NEW bytes \in Buffers \ {<<>>}, WriteAt(fd, bytes) PROVE Posix!Next
  <2>1. ~append[fd] /\ WriteStream(fd) = position[fd]
    BY <1>4 DEF WriteAt, WriteStream, InSync, TypeOK
  <2> QED
    BY <1>4, <2>1, WriteToMaps DEF WriteAt
<1> QED
  BY <1>1, <1>2, <1>3, <1>4 DEF Write

LEMMA SeekMaps ==
  ASSUME NEW fd \in Fd, FdSeek(fd)
  PROVE  Posix!Next
<1>1. CASE Fail({"HOST"}) /\ UNCHANGED <<content, position, append, streams>>
  BY <1>1, FailedCall DEF Posix!Next
<1>2. ASSUME NEW base, NEW delta, Seek(fd, base, delta) PROVE Posix!Next
  <2>1. CASE base + delta \in 0..MAX_OFFSET
    <3>1. Posix!Seek(fd)
      BY <1>2, <2>1 DEF Seek, Posix!Seek, Succeed, Posix!Succeed
    <3> QED
      BY <3>1 DEF Posix!Next
  <2>2. CASE base + delta \notin 0..MAX_OFFSET
    BY <1>2, <2>2, FailedCall DEF Seek, Posix!Next
  <2> QED
    BY <2>1, <2>2
<1> QED
  BY <1>1, <1>2 DEF FdSeek

LEMMA PreadMaps ==
  ASSUME Pread
  PROVE  Posix!Next
<1>1. CASE Succeed(<<>>, 0)
  BY <1>1, EmptyCall DEF Pread, EmptyBuffers, Posix!Next
<1>2. CASE Fail({"HOST", "INTR"})
  BY <1>2, FailedCall DEF Pread, Posix!Next
<1>3. ASSUME NEW at \in 0..MAX_OFFSET, NEW len \in 1..MaxLen, NEW n \in 0..len,
             Found(n, at), Succeed(SubSeq(content, at + 1, at + n), n)
      PROVE  Posix!Next
  <2>1. Posix!Found(n, at, len)
    BY <1>3 DEF Found, Posix!Found, Posix!Size, Size, Succeed, Posix!Succeed
  <2>2. Posix!Pread
    BY <1>3, <2>1 DEF Pread, Posix!Pread
  <2> QED
    BY <2>2 DEF Posix!Next
<1> QED
  BY <1>1, <1>2, <1>3 DEF Pread

LEMMA PwriteMaps ==
  ASSUME Pwrite
  PROVE  Posix!Next
<1>1. CASE content' = content /\ Succeed(<<>>, 0)
  BY <1>1, EmptyCall DEF Pwrite, EmptyBuffers, Posix!Next
<1>2. CASE content' = content /\ Fail({"HOST"})
  BY <1>2, FailedCall DEF Pwrite, Posix!Next
<1>3. ASSUME NEW bytes \in Buffers \ {<<>>}, NEW at \in 0..MAX_OFFSET,
             content' = Overwrite(bytes, at), Succeed(<<>>, Len(bytes))
      PROVE  Posix!Next
  <2>1. bytes \in Posix!Buffers /\ content' = Posix!Overwrite(bytes, at)
    BY <1>3 DEF Buffers, Posix!Buffers, Overwrite, Posix!Overwrite, Size, Posix!Size
  <2>2. Posix!Pwrite
    BY <1>3, <2>1 DEF Pwrite, Posix!Pwrite, Succeed, Posix!Succeed
  <2> QED
    BY <2>2 DEF Posix!Next
<1> QED
  BY <1>1, <1>2, <1>3 DEF Pwrite

LEMMA SetSizeMaps ==
  ASSUME SetSize
  PROVE  Posix!Next
<1>1. CASE content' = content /\ Fail({"HOST"})
  BY <1>1, FailedCall DEF SetSize, Posix!Next
<1>2. ASSUME NEW size \in 0..MAX_OFFSET, content' = Resized(size), Succeed(<<>>, 0) PROVE Posix!Next
  <2>1. content' = Posix!Resized(size)
    BY <1>2 DEF Resized, Posix!Resized, Size, Posix!Size
  <2>2. Posix!SetSize
    BY <1>2, <2>1 DEF SetSize, Posix!SetSize, Succeed, Posix!Succeed
  <2> QED
    BY <2>2 DEF Posix!Next
<1> QED
  BY <1>1, <1>2 DEF SetSize

LEMMA StepMaps == TypeOK /\ InSync /\ [DisciplinedNext]_vars => [Posix!Next]_(Posix!vars)
<1> SUFFICES ASSUME TypeOK, InSync, [DisciplinedNext]_vars PROVE Posix!Next \/ UNCHANGED Posix!vars
  OBVIOUS
<1>1. ASSUME NEW fd \in Fd, Tell(fd) PROVE Posix!Next
  BY <1>1 DEF Tell, Posix!Tell, Posix!Next, Succeed, Posix!Succeed
<1>2. ASSUME NEW fd \in Fd, NEW flag \in BOOLEAN, SetFlags(fd, flag) PROVE Posix!Next
  BY <1>2 DEF SetFlags, Posix!SetFlags, Posix!Next, Succeed, Posix!Succeed
<1>3. CASE Positioned
  BY <1>1, <1>3, PreadMaps, PwriteMaps, SetSizeMaps, SeekMaps DEF Positioned
<1>4. CASE UNCHANGED vars
  BY <1>4 DEF vars, Posix!vars
<1> QED
  BY <1>2, <1>3, <1>4, ReadMaps, WriteMaps DEF DisciplinedNext

(* The adapter and the host together implement files with one offset per   *)
(* descriptor, for a disciplined guest.                                    *)
THEOREM RefinesPosixFile == DisciplinedSpec => ImplementsPosixFile
<1>1. Init => Posix!Init
  BY DEF Init, Posix!Init
<1> QED
  BY <1>1, StepMaps, DisciplinedInvariants, PTL DEF DisciplinedSpec, ImplementsPosixFile, Posix!Spec

=============================================================================
