--------------------------- MODULE SocketsProofs ---------------------------
(***************************************************************************)
(* Proofs about Sockets, for any number of sockets and of keys and any     *)
(* guest and peers: the counts of references are those of the table and of *)
(* the call in progress, the table holds what the guest was told, calls    *)
(* account for the bytes they move, and the end means the end.             *)
(***************************************************************************)
EXTENDS Sockets, FiniteSetTheorems, TLAPS

(* Only a call that has come to its end pushes. *)
Shape ==
  /\ map \in [Key -> Resource \cup {None}]
  /\ pushes \in Seq(Resource)
  /\ refs \in [Sock -> Nat]
  /\ call # None => pushes = <<>>

(* What the table holds is what the guest was told, and is about to be. *)
Told ==
  /\ pushes = <<>> => keys = {}
  /\ Running => Live = told \cup keys

SocketInv == Shape /\ RefsMatch /\ Told

-----------------------------------------------------------------------------
(* Counting *)

LEMMA TableFinite ==
  ASSUME NEW s
  PROVE  IsFiniteSet(InTable(s)) /\ Cardinality(InTable(s)) \in Nat
<1>1. KeySpace - 1 \in Int /\ InTable(s) \in SUBSET (0..(KeySpace - 1))
  BY KeySpaceAssumption DEF InTable, Live, Key
<1>2. IsFiniteSet(0..(KeySpace - 1))
  BY <1>1, FS_Interval
<1>3. IsFiniteSet(InTable(s))
  BY <1>1, <1>2, FS_Subset
<1> QED
  BY <1>3, FS_CardinalityType

LEMMA LooseFinite ==
  ASSUME pushes \in Seq(Resource), NEW s
  PROVE  IsFiniteSet(Loose(s)) /\ Cardinality(Loose(s)) \in Nat
<1>1. Len(pushes) \in Int /\ Loose(s) \in SUBSET (1..Len(pushes))
  BY DEF Loose
<1>2. IsFiniteSet(1..Len(pushes))
  BY <1>1, FS_Interval
<1>3. IsFiniteSet(Loose(s))
  BY <1>1, <1>2, FS_Subset
<1> QED
  BY <1>3, FS_CardinalityType

LEMMA NothingLoose ==
  ASSUME pushes = <<>>, NEW s
  PROVE  Loose(s) = {} /\ Cardinality(Loose(s)) = 0
<1>1. Loose(s) = {}
  BY DEF Loose
<1> QED
  BY <1>1, FS_EmptySet

(* What is pushed first is one reference less to push. *)
LEMMA TailLoose ==
  ASSUME pushes \in Seq(Resource), pushes # <<>>, pushes' = Tail(pushes), NEW s
  PROVE  Cardinality(Loose(s)) =
           Cardinality(Loose(s)') + (IF Head(pushes).end = s THEN 1 ELSE 0)
<1> DEFINE Rest == Loose(s) \ {1}
           Later == Loose(s)'
           f == [i \in Later |-> i + 1]
<1>1. pushes' \in Seq(Resource) /\ Len(pushes') \in Nat /\ Len(pushes) = Len(pushes') + 1
  OBVIOUS
<1>2. \A i \in 1..Len(pushes') : pushes'[i] = pushes[i + 1]
  OBVIOUS
<1>3. IsFiniteSet(Later)
  <2>1. Later \in SUBSET (1..Len(pushes')) /\ Len(pushes') \in Int
    BY <1>1 DEF Loose
  <2>2. IsFiniteSet(1..Len(pushes'))
    BY <2>1, FS_Interval
  <2> QED
    BY <2>1, <2>2, FS_Subset
<1>4. ExistsBijection(Later, Rest)
  <2>1. \A i \in Later : i \in Nat /\ i >= 1 /\ i + 1 \in Rest
    BY <1>1, <1>2 DEF Loose
  <2>2. f \in [Later -> Rest]
    BY <2>1
  <2>3. \A i, j \in Later : f[i] = f[j] => i = j
    BY <2>1
  <2>4. \A k \in Rest : k - 1 \in Later /\ f[k - 1] = k
    BY <1>1, <1>2 DEF Loose
  <2>5. \A k \in Rest : \E i \in Later : f[i] = k
    BY <2>4
  <2>6. f \in Bijection(Later, Rest)
    BY <2>2, <2>3, <2>5 DEF Bijection, Injection, Surjection, IsInjective
  <2> QED
    BY <2>6 DEF ExistsBijection
<1>5. IsFiniteSet(Rest) /\ Cardinality(Rest) = Cardinality(Later)
  BY <1>3, <1>4, FS_Bijection
<1>6. 1 \in Loose(s) <=> Head(pushes).end = s
  BY <1>1 DEF Loose
<1>7. IsFiniteSet(Loose(s)) /\ Cardinality(Loose(s)) \in Nat
  BY LooseFinite
<1>8. Cardinality(Rest) = IF 1 \in Loose(s) THEN Cardinality(Loose(s)) - 1 ELSE Cardinality(Loose(s))
  BY <1>7, FS_RemoveElement
<1> QED
  BY <1>5, <1>6, <1>7, <1>8
-----------------------------------------------------------------------------
(* Steps *)

LEMMA SocketsAreEnds == None \notin Sock /\ Sock \subseteq End
BY EndAssumption

LEMMA Resources ==
  \A s \in End : TcpSocket(s) \in Resource /\ InputStream(s) \in Resource
                   /\ OutputStream(s) \in Resource /\ Network \in Resource
BY DEF TcpSocket, InputStream, OutputStream, Network, Resource, Types

(* Nothing of the table and the references changes. *)
LEMMA Unchanged ==
  ASSUME SocketInv, UNCHANGED <<map, refs, pushes, keys, told>>, call' # None => pushes = <<>>,
         Running' => Running
  PROVE  SocketInv'
<1>1. Shape'
  BY DEF SocketInv, Shape
<1>2. RefsMatch'
  BY DEF SocketInv, RefsMatch, InTable, Loose, Live
<1>3. Told'
  BY DEF SocketInv, Told, Live
<1> QED
  BY <1>1, <1>2, <1>3 DEF SocketInv

(* An error drops what was to be pushed, and traps. *)
LEMMA Trapped ==
  ASSUME SocketInv, Traps
  PROVE  SocketInv'
<1>1. /\ stopped' = "trap" /\ call' = None /\ pushes' = <<>> /\ keys' = {} /\ map' = map
      /\ refs' = [s \in Sock |-> refs[s] - Cardinality(Loose(s))]
  BY DEF Traps, Stop, DropsLoose, tableVars
<1>2. \A s \in Sock : /\ refs'[s] = Cardinality(InTable(s)) /\ Cardinality(InTable(s)) \in Nat
                       /\ InTable(s)' = InTable(s) /\ Cardinality(Loose(s)') = 0
  <2> TAKE s \in Sock
  <2>1. refs'[s] = refs[s] - Cardinality(Loose(s))
    BY <1>1
  <2>2. refs[s] = Cardinality(InTable(s)) + Cardinality(Loose(s))
    BY DEF SocketInv, RefsMatch
  <2>3. Cardinality(InTable(s)) \in Nat /\ Cardinality(Loose(s)) \in Nat
    BY TableFinite, LooseFinite DEF SocketInv, Shape
  <2>4. InTable(s)' = InTable(s)
    BY <1>1 DEF InTable, Live
  <2>5. Loose(s)' = {}
    BY <1>1 DEF Loose
  <2> QED
    BY <2>1, <2>2, <2>3, <2>4, <2>5, FS_EmptySet
<1>3. Shape'
  BY <1>1, <1>2 DEF SocketInv, Shape
<1>4. RefsMatch'
  BY <1>2 DEF RefsMatch
<1>5. Told'
  BY <1>1 DEF Told, Running
<1> QED
  BY <1>3, <1>4, <1>5 DEF SocketInv

(* A call has resources of one socket to push, each with a reference. *)
LEMMA Returned ==
  ASSUME SocketInv, pushes = <<>>, NEW q \in Seq(Resource), NEW e,
         \A i \in 1..Len(q) : q[i].end = e,
         pushes' = q, call' = None, Running, UNCHANGED <<map, keys, told>>,
         refs' \in [Sock -> Nat],
         \A s \in Sock : refs'[s] = IF s = e THEN refs[s] + Len(q) ELSE refs[s]
  PROVE  SocketInv'
<1>1. Shape'
  BY DEF SocketInv, Shape
<1>2. RefsMatch'
  <2> SUFFICES ASSUME NEW s \in Sock
               PROVE  refs'[s] = Cardinality(InTable(s)') + Cardinality(Loose(s)')
    BY DEF RefsMatch
  <2>1. InTable(s)' = InTable(s)
    BY DEF InTable, Live
  <2>2. Cardinality(Loose(s)') = IF s = e THEN Len(q) ELSE 0
    <3>1. CASE s = e
      <4>1. Loose(s)' = 1..Len(q)
        BY <3>1 DEF Loose
      <4>2. PICK n \in Nat : n = Len(q)
        OBVIOUS
      <4>3. Cardinality(1..n) = IF 1 > n THEN 0 ELSE n - 1 + 1
        BY FS_Interval
      <4> QED
        BY <3>1, <4>1, <4>2, <4>3
    <3>2. CASE s # e
      <4>1. Loose(s)' = {}
        BY <3>2 DEF Loose
      <4> QED
        BY <3>2, <4>1, FS_EmptySet
    <3> QED
      BY <3>1, <3>2
  <2>3. refs[s] = Cardinality(InTable(s))
    <3>1. refs[s] = Cardinality(InTable(s)) + Cardinality(Loose(s))
      BY DEF SocketInv, RefsMatch
    <3> QED
      BY <3>1, NothingLoose, TableFinite
  <2>4. Len(q) \in Nat /\ Cardinality(InTable(s)) \in Nat
    BY TableFinite
  <2> QED
    BY <2>1, <2>2, <2>3, <2>4
<1>3. Told'
  BY DEF SocketInv, Told, Live, Running
<1> QED
  BY <1>1, <1>2, <1>3 DEF SocketInv

LEMMA StreamingKeeps ==
  ASSUME SocketInv, Streaming, UNCHANGED <<socketVars, returnVars, told>>
  PROVE  SocketInv'
<1>1. map' = map /\ refs' = refs /\ pushes' = pushes /\ keys' = keys
  <2>1. StreamCall => UNCHANGED tableVars
    BY DEF StreamCall, Read, Skip, Write, WriteZeroes
  <2>2. SpliceCall => UNCHANGED tableVars
    BY DEF SpliceCall, Splice
  <2>3. SpliceOrForward \/ Fail => UNCHANGED tableVars
    BY DEF SpliceOrForward, Fail
  <2>4. Step => UNCHANGED tableVars
    BY DEF Step, Quiet, ReadOnce, WriteOnce, EachRead, EachWrite, CopyMoves, CopyEnds, CopyZeroes,
           ZeroWrite, Recurse, Finish
  <2> QED
    BY <2>1, <2>2, <2>3, <2>4 DEF Streaming, tableVars, socketVars, returnVars
<1>2. Running
  <2>1. StreamCall \/ SpliceCall => Running
    BY DEF StreamCall, SpliceCall, Splice, Read, Skip, Write, WriteZeroes, Idle
  <2>2. SpliceOrForward \/ Fail => Running
    BY DEF SpliceOrForward, Fail, Idle
  <2>3. Step => Running
    BY DEF Step, ReadOnce, WriteOnce, EachRead, EachWrite, CopyMoves, CopyEnds, CopyZeroes,
           ZeroWrite, Recurse, Finish, Finished, Looping, At
  <2> QED
    BY <2>1, <2>2, <2>3 DEF Streaming
<1>3. pushes = <<>>
  <2>1. StreamCall \/ SpliceCall => pushes = <<>>
    BY DEF StreamCall, SpliceCall
  <2>2. Step \/ Fail => call # None
    BY DEF Step, ReadOnce, WriteOnce, EachRead, EachWrite, CopyMoves, CopyEnds, CopyZeroes,
           ZeroWrite, Recurse, Finish, Finished, Fail, Looping, At
  <2> QED
    BY <2>1, <2>2 DEF Streaming, SocketInv, Shape
<1> QED
  BY <1>1, <1>2, <1>3, Unchanged

(* The socket that accept and create_tcp_socket take is not in use. *)
LEMMA NewSocketIsFree ==
  ASSUME SocketInv, Open # Sock
  PROVE  NewSocket \in Sock /\ refs[NewSocket] = 0
<1>1. \E s \in Sock : s \in Sock \ Open
  BY DEF Open
<1>2. NewSocket \in Sock \ Open
  BY <1>1 DEF NewSocket
<1> QED
  BY <1>2 DEF Open, SocketInv, Shape

LEMMA CreateKeeps ==
  ASSUME SocketInv, CreateTcpSocket
  PROVE  SocketInv'
<1>1. CASE Open # Sock /\ Returns(<<TcpSocket(NewSocket)>>)
           /\ refs' = [refs EXCEPT ![NewSocket] = 1]
           /\ UNCHANGED <<tableVars, streamVars, phase, pending, told>>
  <2>1. PICK s : s = NewSocket
    OBVIOUS
  <2>2. s \in Sock /\ refs[s] = 0
    BY <1>1, <2>1, NewSocketIsFree
  <2>3. PICK r : r = TcpSocket(s)
    OBVIOUS
  <2>4. r \in Resource /\ r.end = s
    BY <2>2, <2>3, SocketsAreEnds, Resources DEF TcpSocket
  <2>5. PICK q : q = <<r>>
    OBVIOUS
  <2>6. q \in Seq(Resource) /\ Len(q) = 1 /\ \A i \in 1..Len(q) : q[i].end = s
    BY <2>4, <2>5
  <2>7. pushes' = q /\ keys' = keys
    BY <1>1, <2>1, <2>3, <2>5 DEF Returns
  <2>8. refs' \in [Sock -> Nat] /\ \A t \in Sock : refs'[t] = IF t = s THEN refs[t] + Len(q) ELSE refs[t]
    BY <1>1, <2>1, <2>2, <2>6 DEF SocketInv, Shape
  <2>9. pushes = <<>> /\ Running /\ call' = None /\ map' = map /\ told' = told
    BY <1>1 DEF CreateTcpSocket, IdleHere, Idle, tableVars, streamVars
  <2> QED
    BY <2>6, <2>7, <2>8, <2>9, Returned, ZenonT(40)
<1> QED
  BY <1>1, Trapped DEF CreateTcpSocket

LEMMA NetworkKeeps ==
  ASSUME SocketInv, InstanceNetwork
  PROVE  SocketInv'
<1>1. Network \in Resource /\ Network.end = None
  BY DEF Network, Resource, Types
<1>2. PICK q : q = <<Network>>
  OBVIOUS
<1>3. q \in Seq(Resource) /\ Len(q) = 1 /\ \A i \in 1..Len(q) : q[i].end = None
  BY <1>1, <1>2
<1>4. pushes' = q /\ keys' = keys /\ refs' = refs
  BY <1>2 DEF InstanceNetwork, Returns, socketVars
<1>5. refs' \in [Sock -> Nat] /\ \A t \in Sock : refs'[t] = IF t = None THEN refs[t] + Len(q) ELSE refs[t]
  BY <1>4, SocketsAreEnds DEF SocketInv, Shape
<1>6. pushes = <<>> /\ Running /\ call' = None /\ map' = map /\ told' = told
  BY DEF InstanceNetwork, IdleHere, Idle, tableVars, streamVars
<1> QED
  BY <1>3, <1>4, <1>5, <1>6, Returned

LEMMA AcceptedKeeps ==
  ASSUME SocketInv, Accepted
  PROVE  SocketInv'
<1>1. PICK s : s = NewSocket
  OBVIOUS
<1>2. s \in Sock /\ refs[s] = 0
  BY <1>1, NewSocketIsFree DEF Accepted
<1>3. PICK a, b, c : a = TcpSocket(s) /\ b = InputStream(s) /\ c = OutputStream(s)
  OBVIOUS
<1>4. a \in Resource /\ b \in Resource /\ c \in Resource /\ a.end = s /\ b.end = s /\ c.end = s
  BY <1>2, <1>3, SocketsAreEnds, Resources DEF TcpSocket, InputStream, OutputStream
<1>5. PICK q : q = <<a, b, c>>
  OBVIOUS
<1>6. q \in Seq(Resource) /\ Len(q) = 3 /\ \A i \in 1..Len(q) : q[i].end = s
  BY <1>4, <1>5
<1>7. pushes' = q /\ keys' = keys /\ refs' = [refs EXCEPT ![s] = 3]
  BY <1>1, <1>3, <1>5 DEF Accepted, Returns
<1>8. refs' \in [Sock -> Nat] /\ \A t \in Sock : refs'[t] = IF t = s THEN refs[t] + Len(q) ELSE refs[t]
  BY <1>2, <1>6, <1>7 DEF SocketInv, Shape
<1>9. pushes = <<>> /\ Running /\ call' = None /\ map' = map /\ told' = told
  BY DEF Accepted, At, Answer, tableVars, SocketInv, Shape
<1> QED
  BY <1>6, <1>7, <1>8, <1>9, Returned

LEMMA ConnectKeeps ==
  ASSUME SocketInv, NEW key \in Key, NEW network \in Key, NEW addr, Connect(key, network, addr)
  PROVE  SocketInv'
<1>1. CASE FindsSocket(key) /\ Connects(map[key].end, addr)
           /\ Returns(<<InputStream(map[key].end), OutputStream(map[key].end)>>)
           /\ Answer /\ UNCHANGED <<tableVars, told>>
  <2>1. PICK s : s = map[key].end
    OBVIOUS
  <2>2. s \in End \cup {None}
    BY <1>1, <2>1, ResourceAssumption DEF FindsSocket, Holds, Live, SocketInv, Shape, Resource
  <2>3. PICK b, c : b = InputStream(s) /\ c = OutputStream(s)
    OBVIOUS
  <2>4. b \in Resource /\ c \in Resource /\ b.end = s /\ c.end = s
    BY <2>2, <2>3 DEF InputStream, OutputStream, Resource, Types
  <2>5. PICK q : q = <<b, c>>
    OBVIOUS
  <2>6. q \in Seq(Resource) /\ Len(q) = 2 /\ \A i \in 1..Len(q) : q[i].end = s
    BY <2>4, <2>5
  <2>7. pushes' = q /\ keys' = keys /\ refs' = [refs EXCEPT ![s] = @ + 2]
    BY <1>1, <2>1, <2>3, <2>5 DEF Returns, Connects
  <2>8. refs' \in [Sock -> Nat] /\ \A t \in Sock : refs'[t] = IF t = s THEN refs[t] + Len(q) ELSE refs[t]
    <3>1. refs \in [Sock -> Nat]
      BY DEF SocketInv, Shape
    <3>2. CASE s \in Sock
      <4>1. refs[s] \in Nat /\ refs' = [refs EXCEPT ![s] = refs[s] + 2]
        BY <2>7, <3>1, <3>2
      <4> QED
        BY <2>6, <3>1, <3>2, <4>1
    <3>3. CASE s \notin Sock
      <4>1. refs' = refs
        BY <2>7, <3>1, <3>3
      <4> QED
        BY <3>1, <3>3, <4>1
    <3> QED
      BY <3>2, <3>3
  <2>9. pushes = <<>> /\ Running /\ call' = None /\ map' = map /\ told' = told
    BY <1>1 DEF Connect, IdleHere, Idle, Answer, tableVars
  <2> QED
    BY <2>6, <2>7, <2>8, <2>9, Returned
<1> QED
  BY <1>1, Trapped DEF Connect

(* The calls that only look at the table, or have something to say to the  *)
(* system. *)
LEMMA InquiryKeeps ==
  ASSUME SocketInv, NEW key \in Key,
         \/ Accept(key) \/ Inquire(key) \/ Unimplemented
         \/ \E how \in {"Receive", "Send", "Both"} : Shutdown(key, how)
         \/ \E network \in Key : Listen(key, network) \/ \E addr \in Addr : Bind(key, network, addr)
  PROVE  SocketInv'
<1>1. CASE Traps
  BY <1>1, Trapped
<1>2. CASE ~Traps
  <2>1. UNCHANGED <<map, refs, pushes, keys, told>>
    BY <1>2 DEF Accept, Inquire, Unimplemented, Shutdown, Listen, Bind, Binds, Listens,
                tableVars, socketVars, returnVars
  <2>2. Running /\ pushes = <<>>
    BY DEF Accept, Inquire, Unimplemented, Shutdown, Listen, Bind, IdleHere, Idle
  <2> QED
    BY <2>1, <2>2, Unchanged
<1> QED
  BY <1>1, <1>2

(* A drop takes one entry out of the table, and its reference with it. *)
LEMMA DropKeeps ==
  ASSUME SocketInv, NEW key \in Key, NEW type \in Types, Drop(key, type)
  PROVE  SocketInv'
<1>1. pushes = <<>> /\ pushes' = <<>> /\ keys = {} /\ keys' = {} /\ Running /\ call = None
  BY DEF Drop, IdleHere, Idle, returnVars, SocketInv, Told
<1>2. Live = told
  BY <1>1 DEF SocketInv, Told
<1>3. CASE Holds(key, type)
  <2>1. map' = [map EXCEPT ![key] = None] /\ call' = None /\ told' = told \ {key}
    BY <1>1, <1>3 DEF Drop, DropStream, Delete, Keeps, Answer
  <2>2. map' \in [Key -> Resource \cup {None}] /\ Live' = Live \ {key}
    BY <2>1 DEF SocketInv, Shape, Live
  <2>3. Told'
    BY <1>1, <1>2, <2>1, <2>2 DEF Told
  <2>4. \A t : InTable(t)' = IF t = map[key].end THEN InTable(t) \ {key} ELSE InTable(t)
    BY <2>1, <2>2 DEF InTable, SocketInv, Shape
  <2>5. \A t \in Sock : /\ refs[t] = Cardinality(InTable(t)) /\ Cardinality(InTable(t)) \in Nat
                        /\ Cardinality(Loose(t)') = 0
    <3> TAKE t \in Sock
    <3>1. refs[t] = Cardinality(InTable(t)) + Cardinality(Loose(t))
      BY DEF SocketInv, RefsMatch
    <3>2. Loose(t)' = {}
      BY <1>1 DEF Loose
    <3> QED
      BY <1>1, <3>1, <3>2, NothingLoose, TableFinite, FS_EmptySet
  <2>6. CASE map[key].end \in Sock
    <3>1. PICK s \in Sock : s = map[key].end
      BY <2>6
    <3>2. refs' = [refs EXCEPT ![s] = refs[s] - 1]
      BY <1>3, <2>6, <3>1 DEF Drop, Keeps, LeftAfter
    <3>3. key \in InTable(s)
      BY <1>3, <3>1 DEF InTable, Holds
    <3>4. Cardinality(InTable(s) \ {key}) = Cardinality(InTable(s)) - 1
          /\ Cardinality(InTable(s) \ {key}) \in Nat
      <4>1. IsFiniteSet(InTable(s))
        BY TableFinite
      <4>2. IsFiniteSet(InTable(s) \ {key})
            /\ Cardinality(InTable(s) \ {key}) = Cardinality(InTable(s)) - 1
        BY <3>3, <4>1, FS_RemoveElement
      <4> QED
        BY <4>2, FS_CardinalityType
    <3>5. refs' \in [Sock -> Nat] /\ \A t \in Sock : refs'[t] = IF t = s THEN refs[t] - 1 ELSE refs[t]
      BY <2>5, <3>2, <3>4 DEF SocketInv, Shape
    <3>6. RefsMatch'
      BY <2>4, <2>5, <3>1, <3>4, <3>5 DEF RefsMatch
    <3> QED
      BY <1>1, <2>1, <2>2, <2>3, <3>5, <3>6 DEF SocketInv, Shape
  <2>7. CASE map[key].end \notin Sock
    <3>1. refs' = refs
      BY <2>7 DEF Drop, socketVars
    <3>2. RefsMatch'
      BY <2>4, <2>5, <2>7, <3>1 DEF RefsMatch
    <3> QED
      BY <1>1, <2>1, <2>2, <2>3, <3>1, <3>2 DEF SocketInv, Shape
  <2> QED
    BY <2>6, <2>7
<1>4. CASE ~Holds(key, type)
  <2>1. UNCHANGED <<map, refs, pushes, keys, told>>
    BY <1>4 DEF Drop, DropStream, tableVars, socketVars, returnVars
  <2> QED
    BY <1>1, <2>1, Unchanged
<1> QED
  BY <1>3, <1>4

(* A push moves one reference from the call into the table. *)
LEMMA PushKeeps ==
  ASSUME SocketInv, PushNext
  PROVE  SocketInv'
<1>1. PICK key \in Key :
        /\ Push(Head(pushes), key)
        /\ keys' = IF Tail(pushes) = <<>> THEN {} ELSE keys \cup {key}
        /\ told' = IF Tail(pushes) = <<>> THEN told \cup keys \cup {key} ELSE told
  BY DEF PushNext
<1>2. pushes # <<>> /\ pushes' = Tail(pushes) /\ Running /\ Running' /\ refs' = refs /\ call' = call
  BY DEF PushNext, streamVars, socketVars, Running
<1>3. PICK r : r = Head(pushes)
  OBVIOUS
<1>4. r \in Resource /\ r # None /\ pushes' \in Seq(Resource)
  BY <1>2, <1>3, ResourceAssumption DEF SocketInv, Shape
<1>5. map[key] = None /\ map' = [map EXCEPT ![key] = r]
  BY <1>1, <1>3 DEF Push, IsNextFree
<1>6. map' \in [Key -> Resource \cup {None}] /\ Live' = Live \cup {key} /\ key \notin Live
  BY <1>4, <1>5 DEF SocketInv, Shape, Live
<1>7. Shape'
  BY <1>2, <1>4, <1>6 DEF SocketInv, Shape
<1>8. Told'
  BY <1>1, <1>2, <1>6 DEF SocketInv, Told
<1>9. RefsMatch'
  <2> SUFFICES ASSUME NEW s \in Sock
               PROVE  refs'[s] = Cardinality(InTable(s)') + Cardinality(Loose(s)')
    BY DEF RefsMatch
  <2>1. refs[s] = Cardinality(InTable(s)) + Cardinality(Loose(s))
    BY DEF SocketInv, RefsMatch
  <2>2. Cardinality(Loose(s)) = Cardinality(Loose(s)') + (IF r.end = s THEN 1 ELSE 0)
    BY <1>2, <1>3, TailLoose DEF SocketInv, Shape
  <2>3. IsFiniteSet(InTable(s)) /\ Cardinality(InTable(s)) \in Nat /\ key \notin InTable(s)
    BY <1>6, TableFinite DEF InTable
  <2>4. InTable(s)' = IF r.end = s THEN InTable(s) \cup {key} ELSE InTable(s)
    BY <1>5, <1>6 DEF InTable, SocketInv, Shape
  <2>5. Cardinality(InTable(s) \cup {key}) = Cardinality(InTable(s)) + 1
    BY <2>3, FS_AddElement
  <2>6. Cardinality(Loose(s)') \in Nat
    <3>1. Loose(s)' \in SUBSET (1..Len(pushes')) /\ Len(pushes') \in Int
      BY <1>4 DEF Loose
    <3>2. IsFiniteSet(1..Len(pushes'))
      BY <3>1, FS_Interval
    <3>3. IsFiniteSet(Loose(s)')
      BY <3>1, <3>2, FS_Subset
    <3> QED
      BY <3>3, FS_CardinalityType
  <2> QED
    BY <1>2, <2>1, <2>2, <2>3, <2>4, <2>5, <2>6
<1> QED
  BY <1>7, <1>8, <1>9 DEF SocketInv

LEMMA PeerKeeps ==
  ASSUME SocketInv, Peer
  PROVE  SocketInv'
<1>1. UNCHANGED <<map, refs, pushes, keys, told, call>> /\ Running
  BY DEF Peer, Arrives, Ends, BeingRead, PeerConnects, tableVars, streamVars, socketVars, returnVars
<1> QED
  BY <1>1, Unchanged DEF SocketInv, Shape

-----------------------------------------------------------------------------
(* The references and the table *)

(* The streams that are there from the start lead to no socket. *)
LEMMA InitKeeps == Init => SocketInv
<1> SUFFICES ASSUME Init PROVE SocketInv
  OBVIOUS
<1>1. PICK i \in Inputs, o \in Outputs :
        map = [k \in Key |-> CASE k = 3 -> InputStream(i) [] k = 4 -> OutputStream(o)
                             [] OTHER -> None]
  BY DEF Init
<1>2. /\ i \in End /\ i \notin Sock /\ o \in End /\ o \notin Sock /\ 3 \in Key /\ 4 \in Key
  BY SocketAssumption, KeySpaceAssumption DEF Key
<1>3. /\ InputStream(i) \in Resource /\ OutputStream(o) \in Resource
      /\ InputStream(i).end = i /\ OutputStream(o).end = o
  BY <1>2 DEF InputStream, OutputStream, Resource, Types
<1>4. /\ map \in [Key -> Resource \cup {None}] /\ map[3] = InputStream(i) /\ map[4] = OutputStream(o)
      /\ \A k \in Key : k \notin {3, 4} => map[k] = None
  BY <1>1, <1>2, <1>3
<1>5. Live = {3, 4}
  BY <1>2, <1>3, <1>4, ResourceAssumption DEF Live
<1>6. /\ call = None /\ stopped = "no" /\ refs = [s \in Sock |-> 0]
      /\ pushes = <<>> /\ keys = {} /\ told = {3, 4}
  BY DEF Init
<1>7. \A s \in Sock : InTable(s) = {}
  BY <1>2, <1>3, <1>4, <1>5 DEF InTable
<1>8. RefsMatch
  <2>1. Cardinality({}) = 0
    BY FS_EmptySet
  <2>2. \A s \in Sock : refs[s] = 0 /\ Cardinality(InTable(s)) = 0 /\ Cardinality(Loose(s)) = 0
    BY <1>6, <1>7, <2>1, NothingLoose
  <2> QED
    BY <2>2 DEF RefsMatch
<1> QED
  BY <1>4, <1>5, <1>6, <1>8 DEF SocketInv, Shape, Told

LEMMA NextKeeps == SocketInv /\ [Next]_vars => SocketInv'
<1> SUFFICES ASSUME SocketInv, [Next]_vars PROVE SocketInv'
  OBVIOUS
<1>1. CASE Streaming /\ UNCHANGED <<socketVars, returnVars, told>>
  BY <1>1, StreamingKeeps
<1>2. CASE SocketCall
  <2>1. CASE CreateTcpSocket \/ InstanceNetwork
    BY <2>1, CreateKeeps, NetworkKeeps
  <2>2. CASE \E key, network \in Key : \E addr \in Addr : Connect(key, network, addr)
    BY <2>2, ConnectKeeps
  <2>3. CASE \E key \in Key : \E type \in Types : Drop(key, type)
    BY <2>3, DropKeeps
  <2>4. CASE \E key \in Key :
               \/ Accept(key) \/ Inquire(key) \/ Unimplemented
               \/ \E how \in {"Receive", "Send", "Both"} : Shutdown(key, how)
               \/ \E network \in Key : Listen(key, network) \/ \E addr \in Addr : Bind(key, network, addr)
    BY <2>4, InquiryKeeps
  <2>5. \E key \in Key : TRUE
    BY KeySpaceAssumption DEF Key
  <2> QED
    BY <1>2, <2>1, <2>2, <2>3, <2>4, <2>5 DEF SocketCall
<1>3. CASE Accepting
  BY <1>3, AcceptedKeeps, Trapped DEF Accepting, AcceptFails
<1>4. CASE Pushing
  BY <1>4, PushKeeps, Trapped DEF Pushing, PushFails
<1>5. CASE Peer
  BY <1>5, PeerKeeps
<1>6. CASE UNCHANGED vars
  <2>1. UNCHANGED <<map, refs, pushes, keys, told, call>> /\ (Running' <=> Running)
    BY <1>6 DEF vars, tableVars, streamVars, socketVars, returnVars, Running
  <2> QED
    BY <2>1, Unchanged DEF SocketInv, Shape
<1> QED
  BY <1>1, <1>2, <1>3, <1>4, <1>5, <1>6 DEF Next

LEMMA SocketCorrect == Spec => []SocketInv
BY InitKeeps, NextKeeps, PTL DEF Spec

(* However a socket and its streams are dropped, and wherever accept and   *)
(* connect fail, a socket of the system is open exactly while something    *)
(* refers to it.                                                           *)
THEOREM ReferencesMatch == Spec => []RefsMatch
<1>1. SocketInv => RefsMatch
  BY DEF SocketInv
<1> QED
  BY <1>1, SocketCorrect, PTL

(* Between calls the guest knows every entry of the table, and every key   *)
(* it knows is there, also when keys wrap around.                          *)
THEOREM EveryEntryIsTold == Spec => []EntriesTold
<1>1. SocketInv => EntriesTold
  BY DEF SocketInv, Told, EntriesTold, IdleHere, Idle
<1> QED
  BY <1>1, SocketCorrect, PTL
-----------------------------------------------------------------------------
(* Calls of streams *)

(* What is not the network is the end of something. *)
Proper == {r \in Resource : r.type = "Network" \/ r.end \in End}

ProperEnds == map \in [Key -> Proper \cup {None}] /\ pushes \in Seq(Proper)

Calls ==
  [op : {"read", "skip", "write", "write_zeroes", "splice", "accept"},
   how : {"once", "each", "copy", "zero", "recursion", "accept"},
   from : End \cup {None}, to : End \cup {None}, asked : Nat, left : Nat,
   moved : Nat, end : BOOLEAN, took : Nat, put : Nat,
   held : {"none", "byte", "zero"}, odd : BOOLEAN, done : BOOLEAN]

(* Which way each call moves bytes, and by which loops. *)
Kind ==
  \/ call.op = "read" /\ call.how = "once" /\ call.from \in End
  \/ call.op = "skip" /\ call.how \in {"each", "copy"} /\ call.from \in End /\ call.to = None
  \/ call.op = "write" /\ call.how = "once" /\ call.from = None
  \/ call.op = "write_zeroes" /\ call.how \in {"zero", "copy"} /\ call.from = None /\ call.to # None
  \/ call.op = "splice" /\ call.how \in {"each", "copy", "recursion"}
       /\ call.from \in End /\ call.to # None
  \/ call.op = "accept" /\ call.how = "accept"

(* Where a loop stands: only splice has a buffer, and while it waits to be *)
(* written its round has not been counted.                                 *)
Progress ==
  /\ call.done => call.how = "once"
  /\ call.how = "once" /\ ~call.done => call.left = call.asked
  /\ call.held # "none" => call.op = "splice" /\ call.how = "each"
  /\ call.held # "none" /\ ~call.end => call.left > 0

Accounts ==
  /\ call.op \in {"read", "skip", "splice"} => call.moved = call.took
  /\ call.op \in {"write", "write_zeroes"} => call.moved = call.put
  /\ call.op = "splice" /\ ~call.odd =>
       call.held # "zero" /\ call.took = call.put + (IF call.held = "byte" THEN 1 ELSE 0)

(* As long as every attempt moves a byte, attempts are bytes. *)
Attempts ==
  /\ call.how = "each" /\ ~call.odd =>
       ~call.end /\ call.moved + call.left = call.asked + (IF call.held = "none" THEN 0 ELSE 1)
  /\ call.how = "copy" /\ call.from # None /\ ~call.end => call.moved + call.left = call.asked

Exhausted ==
  call.end /\ call.from # None /\ call.asked > 0 => arrived[call.from] = 0 /\ call.from \in ended

(* What holds while a call goes on. *)
CallInv == call \in Calls /\ Kind /\ Progress /\ Accounts /\ Attempts /\ Exhausted

StreamInv == ProperEnds /\ arrived \in [End -> Nat] /\ (call # None => CallInv)

-----------------------------------------------------------------------------
(* Steps of a call *)

LEMMA LesserIs ==
  ASSUME NEW a \in Nat, NEW b \in Nat
  PROVE  LesserOf(a, b) \in Nat /\ LesserOf(a, b) <= a /\ LesserOf(a, b) <= b
BY DEF LesserOf

(* A read gives bytes that are there, and the end only where it is. *)
LEMMA ReadsAre ==
  ASSUME arrived \in [End -> Nat], NEW e \in End, NEW len \in Nat, NEW r \in Reads(e, len)
  PROVE  /\ r.n \in Nat /\ r.n <= len /\ r.n <= arrived[e] /\ r.end \in BOOLEAN
         /\ r.end /\ len > 0 => r.n = 0 /\ arrived[e] = 0 /\ e \in ended
<1>1. /\ LesserOf(len, arrived[e]) \in Nat /\ LesserOf(len, arrived[e]) <= len
      /\ LesserOf(len, arrived[e]) <= arrived[e] /\ arrived[e] \in Nat
  BY LesserIs
<1>2. CASE \E k \in 1..LesserOf(len, arrived[e]) : r = [n |-> k, end |-> FALSE]
  BY <1>1, <1>2
<1>3. CASE r = [n |-> 0, end |-> TRUE] /\ (len = 0 \/ (arrived[e] = 0 /\ e \in ended))
  BY <1>1, <1>3
<1>4. CASE r = [n |-> 0, end |-> FALSE]
  BY <1>1, <1>4
<1> QED
  BY <1>2, <1>3, <1>4 DEF Reads

LEMMA ArrivedLess ==
  ASSUME arrived \in [End -> Nat], call.from \in End, NEW k \in Nat, k <= arrived[call.from], Took(k)
  PROVE  arrived' \in [End -> Nat] /\ arrived'[call.from] = arrived[call.from] - k
BY DEF Took

LEMMA ReadOnceKeeps ==
  ASSUME CallInv, arrived \in [End -> Nat], ReadOnce
  PROVE  CallInv' /\ arrived' \in [End -> Nat]
<1>1. call.op = "read" /\ call.how = "once" /\ call.from \in End /\ ~call.done
      /\ call.left \in Nat /\ call.left = call.asked
  BY DEF ReadOnce, At, CallInv, Kind, Progress, Calls
<1>2. PICK r \in Reads(call.from, call.left) :
        /\ Took(r.n)
        /\ call' = [call EXCEPT !.moved = r.n, !.took = r.n, !.end = r.end, !.done = TRUE]
  BY DEF ReadOnce
<1>3. /\ r.n \in Nat /\ r.n <= arrived[call.from] /\ r.end \in BOOLEAN
      /\ r.end /\ call.left > 0 => r.n = 0 /\ arrived[call.from] = 0 /\ call.from \in ended
  BY <1>1, <1>2, ReadsAre
<1>4. arrived' \in [End -> Nat] /\ arrived'[call.from] = arrived[call.from] - r.n /\ ended' = ended
  BY <1>1, <1>2, <1>3, ArrivedLess DEF ReadOnce, Quiet
<1>5. /\ call' \in Calls
      /\ call'.op = call.op /\ call'.how = call.how /\ call'.from = call.from /\ call'.to = call.to
      /\ call'.asked = call.asked /\ call'.left = call.left /\ call'.held = call.held
      /\ call'.moved = r.n /\ call'.took = r.n /\ (call'.end <=> r.end) /\ call'.done
  BY <1>2, <1>3 DEF CallInv, Calls
<1>6. Kind' /\ Progress'
  BY <1>1, <1>5 DEF CallInv, Kind, Progress
<1>7. Accounts' /\ Attempts'
  BY <1>1, <1>5 DEF Accounts, Attempts
<1>8. Exhausted'
  BY <1>1, <1>3, <1>4, <1>5 DEF Exhausted
<1> QED
  BY <1>4, <1>5, <1>6, <1>7, <1>8 DEF CallInv

LEMMA WriteOnceKeeps ==
  ASSUME CallInv, WriteOnce
  PROVE  CallInv'
<1>1. call.op = "write" /\ call.how = "once" /\ call.from = None /\ call.left \in Nat
  BY DEF WriteOnce, At, CallInv, Kind, Calls
<1>2. PICK k \in 0..call.left : call' = [call EXCEPT !.moved = k, !.put = k, !.done = TRUE]
  BY DEF WriteOnce
<1>3. k \in Nat
  BY <1>1, <1>2
<1>4. /\ call' \in Calls
      /\ call'.op = call.op /\ call'.how = call.how /\ call'.from = call.from /\ call'.to = call.to
      /\ call'.held = call.held /\ call'.moved = k /\ call'.put = k /\ call'.done
      /\ (call'.end <=> call.end) /\ call'.left = call.left
  BY <1>2, <1>3 DEF CallInv, Calls
<1>5. Kind' /\ Progress'
  BY <1>1, <1>4 DEF CallInv, Kind, Progress
<1>6. Accounts' /\ Attempts' /\ Exhausted'
  BY <1>1, <1>4 DEF Accounts, Attempts, Exhausted
<1> QED
  BY <1>4, <1>5, <1>6 DEF CallInv

(* A read of the loops: at the end it gives nothing, and the loop is over. *)
LEMMA EachReadKeeps ==
  ASSUME CallInv, arrived \in [End -> Nat], EachRead
  PROVE  CallInv' /\ arrived' \in [End -> Nat]
<1>1. /\ call.op \in {"skip", "splice"} /\ call.how = "each" /\ call.from \in End /\ ~call.done
      /\ call.left \in Nat /\ call.left > 0 /\ call.held = "none"
      /\ call.moved \in Nat /\ call.took \in Nat /\ call.put \in Nat /\ call.asked \in Nat
      /\ call.to = None <=> call.op = "skip"
  BY DEF EachRead, Looping, At, CallInv, Kind, Calls
<1>2. PICK r \in Reads(call.from, 1) :
        /\ Took(r.n)
        /\ call' = [call EXCEPT
             !.moved = @ + r.n, !.took = @ + r.n, !.end = r.end, !.odd = @ \/ r.n = 0,
             !.held = IF call.to = None THEN "none" ELSE IF r.n = 1 THEN "byte" ELSE "zero",
             !.left = IF r.end THEN 0 ELSE IF call.to = None THEN @ - 1 ELSE @]
  BY DEF EachRead
<1>3. /\ r.n \in Nat /\ r.n <= 1 /\ r.n <= arrived[call.from] /\ r.end \in BOOLEAN
      /\ r.end => r.n = 0 /\ arrived[call.from] = 0 /\ call.from \in ended
  BY <1>1, <1>2, ReadsAre
<1>4. arrived' \in [End -> Nat] /\ arrived'[call.from] = arrived[call.from] - r.n /\ ended' = ended
  BY <1>1, <1>2, <1>3, ArrivedLess DEF EachRead, Quiet
<1>5. /\ call'.op = call.op /\ call'.how = call.how /\ call'.from = call.from /\ call'.to = call.to
      /\ call'.asked = call.asked /\ call'.put = call.put /\ (call'.done <=> call.done)
      /\ call'.moved = call.moved + r.n /\ call'.took = call.took + r.n
      /\ (call'.end <=> r.end) /\ (call'.odd <=> (call.odd \/ r.n = 0))
      /\ call'.held = (IF call.to = None THEN "none" ELSE IF r.n = 1 THEN "byte" ELSE "zero")
      /\ call'.left = (IF r.end THEN 0 ELSE IF call.to = None THEN call.left - 1 ELSE call.left)
  BY <1>2, <1>3 DEF CallInv, Calls
<1>6. call' \in Calls
  <2>1. /\ call.moved + r.n \in Nat /\ call.took + r.n \in Nat
        /\ (IF r.end THEN 0 ELSE IF call.to = None THEN call.left - 1 ELSE call.left) \in Nat
    BY <1>1, <1>3
  <2> QED
    BY <1>2, <1>3, <2>1, ZenonT(40) DEF CallInv, Calls
<1>7. Kind' /\ Progress'
  <2>1. Kind'
    BY <1>1, <1>5 DEF CallInv, Kind
  <2>2. Progress'
    BY <1>1, <1>3, <1>5 DEF Progress
  <2> QED
    BY <2>1, <2>2
<1>8. Accounts'
  BY <1>1, <1>3, <1>5 DEF CallInv, Accounts
<1>9. Attempts'
  BY <1>1, <1>3, <1>5 DEF CallInv, Attempts
<1>10. Exhausted'
  BY <1>1, <1>3, <1>4, <1>5 DEF Exhausted
<1> QED
  BY <1>4, <1>6, <1>7, <1>8, <1>9, <1>10 DEF CallInv

(* The write of splice completes the round. *)
LEMMA EachWriteKeeps ==
  ASSUME CallInv, EachWrite
  PROVE  CallInv'
<1>1. /\ call.op = "splice" /\ call.how = "each" /\ call.from \in End /\ call.to # None /\ ~call.done
      /\ call.held \in {"byte", "zero"} /\ call.left \in Nat /\ (~call.end => call.left > 0)
      /\ call.moved \in Nat /\ call.took \in Nat /\ call.put \in Nat /\ call.asked \in Nat
      /\ call.end \in BOOLEAN
  BY DEF EachWrite, At, CallInv, Kind, Progress, Calls
<1>2. PICK k \in 0..1 :
        call' = [call EXCEPT !.put = @ + k, !.odd = @ \/ k = 0, !.held = "none",
                             !.left = IF call.end THEN 0 ELSE @ - 1]
  BY DEF EachWrite
<1>3. arrived' = arrived /\ ended' = ended
  BY DEF EachWrite, Quiet
<1>4. /\ call'.op = call.op /\ call'.how = call.how /\ call'.from = call.from /\ call'.to = call.to
      /\ call'.asked = call.asked /\ (call'.done <=> call.done)
      /\ call'.moved = call.moved /\ call'.took = call.took /\ call'.put = call.put + k
      /\ (call'.end <=> call.end) /\ (call'.odd <=> (call.odd \/ k = 0)) /\ call'.held = "none"
      /\ call'.left = (IF call.end THEN 0 ELSE call.left - 1)
  BY <1>2 DEF CallInv, Calls
<1>5. call' \in Calls
  <2>1. call.put + k \in Nat /\ (IF call.end THEN 0 ELSE call.left - 1) \in Nat
    BY <1>1, <1>2
  <2> QED
    BY <1>2, <2>1 DEF CallInv, Calls
<1>6. Kind' /\ Progress'
  BY <1>1, <1>4 DEF CallInv, Kind, Progress
<1>7. Accounts'
  BY <1>1, <1>2, <1>4 DEF CallInv, Accounts
<1>8. Attempts'
  BY <1>1, <1>2, <1>4 DEF CallInv, Attempts
<1>9. Exhausted'
  BY <1>3, <1>4 DEF CallInv, Exhausted
<1> QED
  BY <1>5, <1>6, <1>7, <1>8, <1>9 DEF CallInv

(* io::copy moves what is there, and is over once the end has been seen. *)
LEMMA CopyMovesKeeps ==
  ASSUME CallInv, arrived \in [End -> Nat], CopyMoves
  PROVE  CallInv' /\ arrived' \in [End -> Nat]
<1>1. /\ call.op \in {"skip", "splice"} /\ call.how = "copy" /\ call.from \in End /\ ~call.done
      /\ call.left \in Nat /\ call.held = "none" /\ call.from # None
      /\ call.moved \in Nat /\ call.took \in Nat /\ call.put \in Nat /\ call.asked \in Nat
      /\ call.end \in BOOLEAN /\ (call.to = None <=> call.op = "skip") /\ arrived[call.from] \in Nat
  BY DEF CopyMoves, Looping, At, CallInv, Kind, Progress, Calls
<1>2. PICK k \in 1..LesserOf(call.left, arrived[call.from]) :
        /\ Took(k)
        /\ call' = [call EXCEPT !.moved = @ + k, !.took = @ + k, !.left = @ - k,
                                !.put = IF call.to = None THEN 0 ELSE @ + k]
  BY DEF CopyMoves
<1>3. k \in Nat /\ k > 0 /\ k <= call.left /\ k <= arrived[call.from]
  BY <1>1, <1>2, LesserIs
<1>4. arrived' \in [End -> Nat] /\ ended' = ended
  BY <1>1, <1>2, <1>3, ArrivedLess DEF CopyMoves, Quiet
<1>5. /\ call'.op = call.op /\ call'.how = call.how /\ call'.from = call.from /\ call'.to = call.to
      /\ call'.asked = call.asked /\ (call'.done <=> call.done) /\ call'.held = call.held
      /\ (call'.end <=> call.end) /\ (call'.odd <=> call.odd)
      /\ call'.moved = call.moved + k /\ call'.took = call.took + k /\ call'.left = call.left - k
      /\ call'.put = (IF call.to = None THEN 0 ELSE call.put + k)
  BY <1>2 DEF CallInv, Calls
<1>6. call' \in Calls
  <2>1. /\ call.moved + k \in Nat /\ call.took + k \in Nat /\ call.left - k \in Nat
        /\ (IF call.to = None THEN 0 ELSE call.put + k) \in Nat
    BY <1>1, <1>3
  <2> QED
    BY <1>2, <2>1 DEF CallInv, Calls
<1>7. Kind' /\ Progress'
  BY <1>1, <1>5 DEF CallInv, Kind, Progress
<1>8. Accounts'
  BY <1>1, <1>3, <1>5 DEF CallInv, Accounts
<1>9. Attempts'
  BY <1>1, <1>3, <1>5 DEF CallInv, Attempts
<1>10. Exhausted'
  BY <1>1, <1>3, <1>5 DEF CallInv, Exhausted
<1> QED
  BY <1>4, <1>6, <1>7, <1>8, <1>9, <1>10 DEF CallInv

LEMMA CopyEndsKeeps ==
  ASSUME CallInv, CopyEnds
  PROVE  CallInv'
<1>1. /\ call.op \in {"skip", "splice"} /\ call.how = "copy" /\ call.from \in End /\ ~call.done
      /\ call.held = "none" /\ arrived' = arrived /\ ended' = ended
      /\ arrived[call.from] = 0 /\ call.from \in ended
  BY DEF CopyEnds, Looping, At, Quiet, CallInv, Kind, Progress, Calls
<1>2. call' = [call EXCEPT !.left = 0, !.end = TRUE]
  BY DEF CopyEnds
<1>3. /\ call' \in Calls
      /\ call'.op = call.op /\ call'.how = call.how /\ call'.from = call.from /\ call'.to = call.to
      /\ (call'.done <=> call.done) /\ call'.held = call.held /\ call'.end
      /\ (call'.odd <=> call.odd) /\ call'.moved = call.moved /\ call'.took = call.took
      /\ call'.put = call.put
  BY <1>2 DEF CallInv, Calls
<1>4. Kind' /\ Progress'
  BY <1>1, <1>3 DEF CallInv, Kind, Progress
<1>5. Accounts' /\ Attempts' /\ Exhausted'
  BY <1>1, <1>3 DEF CallInv, Accounts, Attempts, Exhausted
<1> QED
  BY <1>3, <1>4, <1>5 DEF CallInv

LEMMA ZeroesKeep ==
  ASSUME CallInv, CopyZeroes \/ ZeroWrite
  PROVE  CallInv'
<1>1. /\ call.op = "write_zeroes" /\ call.how \in {"zero", "copy"} /\ call.from = None
      /\ call.held = "none" /\ ~call.done /\ call.left \in Nat /\ call.left > 0
      /\ call.moved \in Nat /\ call.put \in Nat
  BY EndAssumption DEF CopyZeroes, ZeroWrite, Looping, At, CallInv, Kind, Progress, Calls
<1>2. PICK k \in Nat, left \in Nat :
        call' = [call EXCEPT !.moved = @ + k, !.put = @ + k, !.left = left]
  <2>1. CASE CopyZeroes
    <3>1. PICK k \in 1..call.left :
            call' = [call EXCEPT !.moved = @ + k, !.put = @ + k, !.left = @ - k]
      BY <2>1 DEF CopyZeroes
    <3>2. k \in Nat /\ call.left - k \in Nat
      BY <1>1
    <3> QED
      BY <3>1, <3>2
  <2>2. CASE ZeroWrite
    <3>1. PICK k \in 0..1 :
            call' = [call EXCEPT !.moved = @ + k, !.put = @ + k,
                                 !.left = IF k = 0 THEN 0 ELSE @ - 1]
      BY <2>2 DEF ZeroWrite
    <3>2. k \in Nat /\ (IF k = 0 THEN 0 ELSE call.left - 1) \in Nat
      BY <1>1
    <3> QED
      BY <3>1, <3>2
  <2> QED
    BY <2>1, <2>2
<1>3. call.moved + k \in Nat /\ call.put + k \in Nat
  BY <1>1
<1>4. /\ call' \in Calls
      /\ call'.op = call.op /\ call'.how = call.how /\ call'.from = call.from /\ call'.to = call.to
      /\ (call'.done <=> call.done) /\ call'.held = call.held
      /\ call'.moved = call.moved + k /\ call'.put = call.put + k
  BY <1>2, <1>3 DEF CallInv, Calls
<1>5. Kind' /\ Progress'
  BY <1>1, <1>4 DEF CallInv, Kind, Progress
<1>6. Accounts' /\ Attempts' /\ Exhausted'
  BY <1>1, <1>4 DEF CallInv, Accounts, Attempts, Exhausted
<1> QED
  BY <1>4, <1>5, <1>6 DEF CallInv

-----------------------------------------------------------------------------
(* Beginnings of calls *)

(* A call begins with nothing counted. *)
LEMMA StartKeeps ==
  ASSUME NEW op \in {"read", "skip", "write", "write_zeroes", "splice", "accept"},
         NEW how \in {"once", "each", "copy", "zero", "recursion", "accept"},
         NEW from \in End \cup {None}, NEW to \in End \cup {None}, NEW len \in Nat,
         Start(op, how, from, to, len), Kind'
  PROVE  CallInv'
<1>1. /\ call' \in Calls
      /\ call'.op = op /\ call'.how = how /\ call'.from = from /\ call'.asked = len
      /\ call'.left = len /\ call'.moved = 0 /\ ~call'.end /\ call'.took = 0 /\ call'.put = 0
      /\ call'.held = "none" /\ ~call'.odd /\ ~call'.done
  BY DEF Start, Loop, Calls
<1>2. Progress' /\ Accounts' /\ Attempts' /\ Exhausted'
  BY <1>1 DEF Progress, Accounts, Attempts, Exhausted
<1> QED
  BY <1>1, <1>2 DEF CallInv

(* The streams of the table lead to ends. *)
LEMMA HoldsAnEnd ==
  ASSUME ProperEnds, NEW key, NEW type, type # "Network", Holds(key, type)
  PROVE  map[key].end \in End
BY DEF ProperEnds, Holds, Live, Proper

LEMMA ReadStarts ==
  ASSUME ProperEnds, NEW key, NEW len \in Nat, Read(key, len), call' # None
  PROVE  CallInv'
<1>1. Holds(key, "InputStream")
      /\ Start("read", "once", map[key].end, None, LesserOf(len, BufferCap))
  BY DEF Read, StreamError, Answer
<1>2. PICK e \in End : e = map[key].end
  BY <1>1, HoldsAnEnd
<1>3. LesserOf(len, BufferCap) \in Nat
  BY EndAssumption, LesserIs
<1>4. Kind'
  BY <1>1, <1>2 DEF Start, Loop, Kind
<1> QED
  BY <1>1, <1>2, <1>3, <1>4, StartKeeps

LEMMA SkipStarts ==
  ASSUME ProperEnds, NEW key, NEW len \in Nat, Skip(key, len), call' # None
  PROVE  CallInv'
<1>1. Holds(key, "InputStream")
      /\ Start("skip", SkipLoop(map[key].end), map[key].end, None, len)
  BY DEF Skip, StreamError, Answer
<1>2. PICK e \in End, how \in {"each", "copy"} : e = map[key].end /\ how = SkipLoop(map[key].end)
  BY <1>1, HoldsAnEnd DEF SkipLoop
<1>3. Kind'
  BY <1>1, <1>2 DEF Start, Loop, Kind
<1> QED
  BY <1>1, <1>2, <1>3, StartKeeps

LEMMA WriteStarts ==
  ASSUME ProperEnds, NEW key, NEW len \in Nat, Write(key, len), call' # None
  PROVE  CallInv'
<1>1. Holds(key, "OutputStream") /\ Start("write", "once", None, map[key].end, len)
  BY DEF Write, StreamError, Answer
<1>2. PICK e \in End : e = map[key].end
  BY <1>1, HoldsAnEnd
<1>3. Kind'
  BY <1>1, <1>2 DEF Start, Loop, Kind
<1> QED
  BY <1>1, <1>2, <1>3, StartKeeps

LEMMA WriteZeroesStarts ==
  ASSUME ProperEnds, NEW key, NEW len \in Nat, WriteZeroes(key, len), call' # None
  PROVE  CallInv'
<1>1. Holds(key, "OutputStream")
      /\ Start("write_zeroes", ZeroLoop(map[key].end), None, map[key].end, len)
  BY DEF WriteZeroes, StreamError, Answer
<1>2. PICK e \in End, how \in {"zero", "copy"} : e = map[key].end /\ how = ZeroLoop(map[key].end)
  BY <1>1, HoldsAnEnd DEF ZeroLoop
<1>3. Kind'
  BY <1>1, <1>2, EndAssumption DEF Start, Loop, Kind
<1> QED
  BY <1>1, <1>2, <1>3, StartKeeps

LEMMA StreamedAreEnds ==
  ASSUME ProperEnds, NEW type \in {"InputStream", "OutputStream"}, NEW e \in Streamed(type)
  PROVE  e \in End
<1>1. PICK k \in Live : Holds(k, type) /\ e = map[k].end
  BY DEF Streamed
<1> QED
  BY <1>1, HoldsAnEnd

LEMMA SpliceStarts ==
  ASSUME NEW from \in End, NEW to \in End, NEW len \in Nat, Splice(from, to, len)
  PROVE  CallInv'
<1>1. PICK how \in {"each", "copy", "recursion"} : how = SpliceLoop(from, to)
  BY DEF SpliceLoop
<1>2. PICK e \in End : e = SpliceSource(from, to)
  <2>1. SpliceLoop(from, to) = "copy" => from \in End \ Pipe
    BY DEF SpliceLoop
  <2> QED
    BY <2>1, EndAssumption DEF SpliceSource
<1>3. Start("splice", how, e, to, len)
  BY <1>1, <1>2 DEF Splice
<1>4. Kind'
  BY <1>1, <1>3, EndAssumption DEF Start, Loop, Kind
<1> QED
  BY <1>3, <1>4, StartKeeps

LEMMA AcceptStarts ==
  ASSUME ProperEnds, NEW key, Accept(key), call' # None
  PROVE  CallInv'
<1>1. Holds(key, "TcpSocket") /\ Start("accept", "accept", map[key].end, None, 1)
  BY DEF Accept, Traps, Stop, FindsSocket
<1>2. PICK e \in End : e = map[key].end
  BY <1>1, HoldsAnEnd
<1>3. Kind'
  BY <1>1, <1>2 DEF Start, Loop, Kind
<1> QED
  BY <1>1, <1>2, <1>3, StartKeeps

-----------------------------------------------------------------------------
(* Steps of the system *)

LEMMA StepKeepsStreams ==
  ASSUME StreamInv, Step
  PROVE  (call' # None => CallInv') /\ arrived' \in [End -> Nat]
<1>1. CASE ReadOnce \/ WriteOnce \/ EachRead \/ EachWrite \/ CopyMoves \/ CopyEnds
           \/ CopyZeroes \/ ZeroWrite
  <2>1. CallInv /\ arrived \in [End -> Nat]
    BY <1>1 DEF StreamInv, ReadOnce, WriteOnce, EachRead, EachWrite, CopyMoves, CopyEnds,
                CopyZeroes, ZeroWrite, Looping, At
  <2>2. CASE ReadOnce \/ EachRead \/ CopyMoves
    BY <2>1, <2>2, ReadOnceKeeps, EachReadKeeps, CopyMovesKeeps
  <2>3. CASE WriteOnce \/ EachWrite \/ CopyEnds \/ CopyZeroes \/ ZeroWrite
    <3>1. arrived' = arrived
      BY <2>3 DEF WriteOnce, EachWrite, CopyEnds, CopyZeroes, ZeroWrite
    <3> QED
      BY <2>1, <2>3, <3>1, WriteOnceKeeps, EachWriteKeeps, CopyEndsKeeps, ZeroesKeep
  <2> QED
    BY <1>1, <2>2, <2>3
<1>2. CASE Recurse \/ Finish
  BY <1>2 DEF Recurse, Stop, Finish, Answer, StreamInv
<1> QED
  BY <1>1, <1>2 DEF Step

LEMMA StreamingKeepsStreams ==
  ASSUME StreamInv, Streaming
  PROVE  (call' # None => CallInv') /\ arrived' \in [End -> Nat]
<1>1. CASE StreamCall
  <2>1. PICK key \in Key, len \in 0..MaxLen :
          Read(key, len) \/ Skip(key, len) \/ Write(key, len) \/ WriteZeroes(key, len)
    BY <1>1 DEF StreamCall
  <2>2. len \in Nat
    BY EndAssumption
  <2>3. arrived' = arrived
    BY <2>1 DEF Read, Skip, Write, WriteZeroes, Start, StreamError, Answer
  <2> QED
    BY <2>1, <2>2, <2>3, ReadStarts, SkipStarts, WriteStarts, WriteZeroesStarts DEF StreamInv
<1>2. CASE SpliceCall
  <2>1. PICK from \in Streamed("InputStream") \cup Kept, to \in Streamed("OutputStream"),
             len \in 0..MaxLen : Splice(from, to, len)
    BY <1>2 DEF SpliceCall
  <2>2. len \in Nat /\ from \in End /\ to \in End
    BY EndAssumption, SocketAssumption, StreamedAreEnds DEF StreamInv
  <2>3. arrived' = arrived
    BY <2>1 DEF Splice, Start
  <2> QED
    BY <2>1, <2>2, <2>3, SpliceStarts DEF StreamInv
<1>3. CASE SpliceOrForward \/ Fail
  BY <1>3 DEF SpliceOrForward, Fail, Stop, StreamError, Answer, StreamInv
<1>4. CASE Step
  BY <1>4, StepKeepsStreams
<1> QED
  BY <1>1, <1>2, <1>3, <1>4 DEF Streaming

(* What arrives, arrives before the end. *)
LEMMA PeerKeepsStreams ==
  ASSUME StreamInv, Peer
  PROVE  (call' # None => CallInv') /\ arrived' \in [End -> Nat]
<1>1. call' = call
  BY DEF Peer, Arrives, Ends, PeerConnects, streamVars
<1>2. CASE \E e \in End : Arrives(e)
  <2>1. PICK e \in End : Arrives(e)
    BY <1>2
  <2>2. arrived' \in [End -> Nat] /\ ended' = ended /\ e \notin ended
        /\ \A x \in End : x # e => arrived'[x] = arrived[x]
    BY <2>1 DEF Arrives, StreamInv
  <2>3. ASSUME CallInv PROVE CallInv'
    <3>1. Exhausted'
      <4>1. Exhausted /\ call.from \in End \cup {None}
        BY <2>3 DEF CallInv, Calls
      <4> QED
        BY <1>1, <2>2, <4>1 DEF Exhausted
    <3> QED
      BY <1>1, <2>3, <3>1 DEF CallInv, Kind, Progress, Accounts, Attempts
  <2> QED
    BY <1>1, <2>2, <2>3 DEF StreamInv
<1>3. CASE ~\E e \in End : Arrives(e)
  <2>1. arrived' = arrived /\ ended \subseteq ended'
    BY <1>3 DEF Peer, Ends, PeerConnects, streamVars
  <2>2. ASSUME CallInv PROVE CallInv'
    BY <1>1, <2>1, <2>2 DEF CallInv, Kind, Progress, Accounts, Attempts, Exhausted
  <2> QED
    BY <1>1, <2>1, <2>2 DEF StreamInv
<1> QED
  BY <1>2, <1>3

(* A call to a socket leads to ends, and is over unless it is accept. *)
LEMMA TrapsKeepStreams ==
  ASSUME StreamInv, Traps
  PROVE  StreamInv'
<1>1. map' = map /\ pushes' = <<>> /\ call' = None /\ arrived' = arrived
  BY DEF Traps, Stop, DropsLoose, tableVars
<1> QED
  BY <1>1 DEF StreamInv, ProperEnds

LEMMA ReturnsKeepsStreams ==
  ASSUME StreamInv, NEW q \in Seq(Proper), pushes' = q, map' = map, call' = None, arrived' = arrived
  PROVE  StreamInv'
BY DEF StreamInv, ProperEnds

LEMMA StreamsAreProper ==
  ASSUME NEW s \in End
  PROVE  TcpSocket(s) \in Proper /\ InputStream(s) \in Proper /\ OutputStream(s) \in Proper
<1>1. /\ TcpSocket(s) \in Resource /\ InputStream(s) \in Resource /\ OutputStream(s) \in Resource
  BY Resources
<1>2. TcpSocket(s).end = s /\ InputStream(s).end = s /\ OutputStream(s).end = s
  BY DEF TcpSocket, InputStream, OutputStream
<1> QED
  BY <1>1, <1>2 DEF Proper

LEMMA CreateKeepsStreams ==
  ASSUME StreamInv, CreateTcpSocket \/ InstanceNetwork
  PROVE  StreamInv'
<1>1. CASE Traps
  BY <1>1, TrapsKeepStreams
<1>2. CASE InstanceNetwork
  <2>1. Network \in Proper
    BY DEF Network, Proper, Resource, Types
  <2>2. PICK q : q = <<Network>>
    OBVIOUS
  <2>3. q \in Seq(Proper)
    BY <2>1, <2>2
  <2>4. pushes' = q /\ map' = map /\ call' = None /\ arrived' = arrived
    BY <1>2, <2>2 DEF InstanceNetwork, Returns, IdleHere, Idle, tableVars, streamVars
  <2> QED
    BY <2>3, <2>4, ReturnsKeepsStreams
<1>3. CASE CreateTcpSocket /\ ~Traps
  <2>1. PICK s \in End : s = NewSocket
    <3>1. \E s \in Sock : s \in Sock \ Open
      BY <1>3 DEF CreateTcpSocket, Open
    <3> QED
      BY <3>1, SocketsAreEnds DEF NewSocket
  <2>2. PICK q : q = <<TcpSocket(s)>>
    OBVIOUS
  <2>3. q \in Seq(Proper)
    BY <2>2, StreamsAreProper
  <2>4. pushes' = q /\ map' = map /\ call' = None /\ arrived' = arrived
    BY <1>3, <2>1, <2>2 DEF CreateTcpSocket, Returns, IdleHere, Idle, tableVars, streamVars
  <2> QED
    BY <2>3, <2>4, ReturnsKeepsStreams
<1> QED
  BY <1>1, <1>2, <1>3

LEMMA AcceptedKeepsStreams ==
  ASSUME StreamInv, Accepted
  PROVE  StreamInv'
<1>1. PICK s \in End : s = NewSocket
  <2>1. \E s \in Sock : s \in Sock \ Open
    BY DEF Accepted, Open
  <2> QED
    BY <2>1, SocketsAreEnds DEF NewSocket
<1>2. PICK q : q = <<TcpSocket(s), InputStream(s), OutputStream(s)>>
  OBVIOUS
<1>3. q \in Seq(Proper)
  BY <1>2, StreamsAreProper
<1>4. pushes' = q /\ map' = map /\ call' = None /\ arrived' = arrived
  BY <1>1, <1>2 DEF Accepted, Returns, Answer, tableVars
<1> QED
  BY <1>3, <1>4, ReturnsKeepsStreams

LEMMA ConnectKeepsStreams ==
  ASSUME StreamInv, NEW key, NEW network, NEW addr, Connect(key, network, addr)
  PROVE  StreamInv'
<1>1. CASE Traps
  BY <1>1, TrapsKeepStreams
<1>2. CASE FindsSocket(key) /\ ~Traps
  <2>1. PICK s \in End : s = map[key].end
    BY <1>2, HoldsAnEnd DEF StreamInv, FindsSocket
  <2>2. PICK q : q = <<InputStream(s), OutputStream(s)>>
    OBVIOUS
  <2>3. q \in Seq(Proper)
    BY <2>2, StreamsAreProper
  <2>4. pushes' = q /\ map' = map /\ call' = None /\ arrived' = arrived
    BY <1>2, <2>1, <2>2 DEF Connect, Returns, Answer, tableVars
  <2> QED
    BY <2>3, <2>4, ReturnsKeepsStreams
<1> QED
  BY <1>1, <1>2 DEF Connect

LEMMA InquiryKeepsStreams ==
  ASSUME StreamInv, NEW key,
         \/ Accept(key) \/ Inquire(key) \/ Unimplemented
         \/ \E how \in {"Receive", "Send", "Both"} : Shutdown(key, how)
         \/ \E network : Listen(key, network) \/ \E addr : Bind(key, network, addr)
  PROVE  StreamInv'
<1>1. CASE Traps
  BY <1>1, TrapsKeepStreams
<1>2. CASE ~Traps
  <2>1. UNCHANGED <<map, pushes, arrived>>
    BY <1>2 DEF Accept, Inquire, Unimplemented, Shutdown, Listen, Bind, Start, Answer, Stop,
                tableVars, returnVars
  <2>2. ProperEnds' /\ arrived' \in [End -> Nat]
    BY <2>1 DEF StreamInv, ProperEnds
  <2>3. CASE Accept(key)
    BY <2>2, <2>3, AcceptStarts DEF StreamInv
  <2>4. CASE ~Accept(key)
    <3>1. call' = None
      BY <2>4 DEF Inquire, Unimplemented, Shutdown, Listen, Bind, IdleHere, Idle, Answer,
                  Stop, Traps
    <3> QED
      BY <2>2, <3>1 DEF StreamInv
  <2> QED
    BY <2>3, <2>4
<1> QED
  BY <1>1, <1>2

(* Closing a socket discards what waits at it, while no call is at it. *)
LEMMA DropKeepsStreams ==
  ASSUME StreamInv, NEW key \in Key, NEW type, Drop(key, type)
  PROVE  StreamInv'
<1>1. call' = None /\ pushes' = pushes
  BY DEF Drop, DropStream, Answer, Stop, Keeps, IdleHere, Idle, returnVars
<1>2. map' \in [Key -> Proper \cup {None}]
  <2>1. map' = map \/ map' = [map EXCEPT ![key] = None]
    BY DEF Drop, DropStream, Delete, tableVars
  <2> QED
    BY <2>1 DEF StreamInv, ProperEnds
<1>3. arrived' \in [End -> Nat]
  <2>1. arrived' = arrived \/ \E s, left : arrived' = [arrived EXCEPT ![s] = IF left = 0 THEN 0 ELSE @]
    BY DEF Drop, DropStream, Answer, Stop, Keeps
  <2> QED
    BY <2>1 DEF StreamInv
<1> QED
  BY <1>1, <1>2, <1>3 DEF StreamInv, ProperEnds

LEMMA PushKeepsStreams ==
  ASSUME StreamInv, PushNext, call # None => pushes = <<>>
  PROVE  StreamInv'
<1>1. pushes # <<>> /\ pushes' = Tail(pushes) /\ call' = call /\ arrived' = arrived /\ call = None
  BY DEF PushNext, streamVars
<1>2. PICK key \in Key : Push(Head(pushes), key)
  BY DEF PushNext
<1>3. PICK r : r = Head(pushes)
  OBVIOUS
<1>4. r \in Proper /\ pushes' \in Seq(Proper)
  BY <1>1, <1>3 DEF StreamInv, ProperEnds
<1>5. map' = [map EXCEPT ![key] = r]
  BY <1>2, <1>3 DEF Push
<1>6. map' \in [Key -> Proper \cup {None}]
  BY <1>4, <1>5 DEF StreamInv, ProperEnds
<1> QED
  BY <1>1, <1>4, <1>6 DEF StreamInv, ProperEnds

LEMMA InitKeepsStreams == Init => StreamInv
<1> SUFFICES ASSUME Init PROVE StreamInv
  OBVIOUS
<1>1. PICK i \in Inputs, o \in Outputs :
        map = [k \in Key |-> CASE k = 3 -> InputStream(i) [] k = 4 -> OutputStream(o)
                             [] OTHER -> None]
  BY DEF Init
<1>2. InputStream(i) \in Proper /\ OutputStream(o) \in Proper
  BY SocketAssumption, StreamsAreProper
<1>3. map \in [Key -> Proper \cup {None}]
  BY <1>1, <1>2
<1>4. pushes = <<>> /\ call = None /\ arrived = [e \in End |-> 0]
  BY DEF Init
<1> QED
  BY <1>3, <1>4 DEF StreamInv, ProperEnds

LEMMA NextKeepsStreams == SocketInv /\ StreamInv /\ [Next]_vars => StreamInv'
<1> SUFFICES ASSUME SocketInv, StreamInv, [Next]_vars PROVE StreamInv'
  OBVIOUS
<1>1. CASE Streaming /\ UNCHANGED <<socketVars, returnVars, told>>
  <2>1. map' = map
    <3>1. StreamCall => UNCHANGED tableVars
      BY DEF StreamCall, Read, Skip, Write, WriteZeroes
    <3>2. SpliceCall \/ SpliceOrForward \/ Fail => UNCHANGED tableVars
      BY DEF SpliceCall, Splice, SpliceOrForward, Fail
    <3>3. Step => UNCHANGED tableVars
      BY DEF Step, Quiet, ReadOnce, WriteOnce, EachRead, EachWrite, CopyMoves, CopyEnds,
             CopyZeroes, ZeroWrite, Recurse, Finish
    <3> QED
      BY <1>1, <3>1, <3>2, <3>3 DEF Streaming, tableVars
  <2>2. pushes' = pushes
    BY <1>1 DEF returnVars
  <2> QED
    BY <1>1, <2>1, <2>2, StreamingKeepsStreams DEF StreamInv, ProperEnds
<1>2. CASE SocketCall
  <2>1. CASE CreateTcpSocket \/ InstanceNetwork
    BY <2>1, CreateKeepsStreams
  <2>2. CASE \E key, network \in Key : \E addr \in Addr : Connect(key, network, addr)
    BY <2>2, ConnectKeepsStreams
  <2>3. CASE \E key \in Key : \E type \in Types : Drop(key, type)
    BY <2>3, DropKeepsStreams
  <2>4. CASE \E key \in Key :
               \/ Accept(key) \/ Inquire(key) \/ Unimplemented
               \/ \E how \in {"Receive", "Send", "Both"} : Shutdown(key, how)
               \/ \E network : Listen(key, network) \/ \E addr : Bind(key, network, addr)
    BY <2>4, InquiryKeepsStreams
  <2>5. \E key \in Key : TRUE
    BY KeySpaceAssumption DEF Key
  <2> QED
    BY <1>2, <2>1, <2>2, <2>3, <2>4, <2>5 DEF SocketCall
<1>3. CASE Accepting
  BY <1>3, AcceptedKeepsStreams, TrapsKeepStreams DEF Accepting, AcceptFails
<1>4. CASE Pushing
  BY <1>4, PushKeepsStreams, TrapsKeepStreams DEF Pushing, PushFails, SocketInv, Shape
<1>5. CASE Peer
  <2>1. UNCHANGED <<map, pushes>>
    BY <1>5 DEF Peer, Arrives, Ends, PeerConnects, tableVars, returnVars
  <2> QED
    BY <1>5, <2>1, PeerKeepsStreams DEF StreamInv, ProperEnds
<1>6. CASE UNCHANGED vars
  BY <1>6 DEF vars, tableVars, streamVars, returnVars, StreamInv, ProperEnds, CallInv, Kind,
              Progress, Accounts, Attempts, Exhausted
<1> QED
  BY <1>1, <1>2, <1>3, <1>4, <1>5, <1>6 DEF Next

LEMMA StreamsCorrect == Spec => []StreamInv
<1>1. SocketInv /\ StreamInv /\ [Next]_vars => StreamInv'
  BY NextKeepsStreams
<1> QED
  BY <1>1, InitKeepsStreams, SocketCorrect, PTL DEF Spec

(* However short the reads and writes of the system are, and whenever they *)
(* are interrupted, the number a call returns is the number of bytes it    *)
(* took or put; and a splice whose every read and write moved a byte put   *)
(* what it took.  For lengths and buffers of any size.                     *)
THEOREM CallsAccount == Spec => []BytesAccounted
<1>1. StreamInv => BytesAccounted
  <2> SUFFICES ASSUME StreamInv, Finished PROVE BytesAccounted
    BY DEF BytesAccounted
  <2>1. CallInv
    BY DEF StreamInv, Finished
  <2>2. call.op = "splice" => call.held = "none" /\ call.put \in Nat
    BY <2>1 DEF CallInv, Calls, Kind, Progress, Finished
  <2> QED
    BY <2>1, <2>2 DEF BytesAccounted, CallInv, Accounts
<1> QED
  BY <1>1, StreamsCorrect, PTL

(* A call that reports the end has left nothing behind, and nothing will   *)
(* follow; one that moved less without reporting it was interrupted.       *)
THEOREM EndsAreEnds == Spec => []EndMeansEnd
<1>1. StreamInv => EndMeansEnd
  <2> SUFFICES ASSUME StreamInv, Finished, call.from # None, call.asked > 0 PROVE EndMeansEnd
    BY DEF EndMeansEnd
  <2>1. CallInv
    BY DEF StreamInv, Finished
  <2>2. call.how \in {"each", "copy"} => call.left = 0 /\ call.held = "none"
    BY <2>1 DEF CallInv, Progress, Finished
  <2>3. call.moved \in Nat /\ call.asked \in Nat
    BY <2>1 DEF CallInv, Calls
  <2> QED
    BY <2>1, <2>2, <2>3 DEF EndMeansEnd, CallInv, Attempts, Exhausted
<1> QED
  BY <1>1, StreamsCorrect, PTL
=============================================================================
