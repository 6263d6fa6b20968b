------------------------------ MODULE Sockets ------------------------------
(***************************************************************************)
(* TCP sockets (wasi-sockets/src/tcp.rs, network_impl.rs and their         *)
(* implementation in sync/src/net.rs) over the resource table and the      *)
(* streams of the host.  A TcpSocket is a counted reference (an Arc) to a  *)
(* socket of the system: accept and connect make two more references of    *)
(* it, its streams, so that one socket is in the table up to three times   *)
(* and is closed with the last of them.                                    *)
(*                                                                         *)
(* Every error of these calls is returned by `?' and traps; nobody answers *)
(* with an error code.  The ends that are no sockets are open from the     *)
(* start.  Peers connect, send and close at any time.                      *)
(***************************************************************************)
EXTENDS HostStreams, Sequences

CONSTANTS
  Inputs, Outputs,  \* The ends that stdin and stdout may lead to.
  Kept,             \* The ends of streams the embedder keeps out of the table.
  Pool,             \* The addresses a guest may bind and connect to.
  Addr,             \* Addresses.
  MaxPending,       \* Bound on the connections that wait for an accept.
  MaxMade           \* Bound on the resources that are ever pushed.

ASSUME SocketAssumption ==
  /\ Inputs \cup Kept \subseteq End \ Sock /\ Outputs \subseteq End \ Sock
  /\ Pool \subseteq Addr /\ MaxPending \in Nat /\ MaxMade \in Nat
  /\ KeySpace > 4

VARIABLES
  refs,         \* The count of each Arc; a socket is open while it is positive.
  phase,        \* What the system has made of each socket.
  pending,      \* Connections that wait at each listener.
  pushes,       \* Resources that the call in progress still has to push,
  keys,         \* and the keys of those it has pushed.
  told,         \* Keys the guest was given and has not dropped.
  made          \* How many resources have been made.

socketVars == <<refs, phase, pending>>
returnVars == <<pushes, keys, made>>
vars == <<tableVars, streamVars, socketVars, returnVars, told>>

Types == {"TcpSocket", "Network", "InputStream", "OutputStream"}
Resource == [type : Types, end : End \cup {None}]

ASSUME ResourceAssumption == None \notin Resource

TcpSocket(s) == [type |-> "TcpSocket", end |-> s]
Network == [type |-> "Network", end |-> None]

Open == {s \in Sock : refs[s] > 0}

Init ==
  /\ \E i \in Inputs, o \in Outputs :
       map = [k \in Key |-> CASE k = 3 -> InputStream(i) [] k = 4 -> OutputStream(o)
                             [] OTHER -> None]
  /\ next_key = 5 % KeySpace
  /\ arrived = [e \in End |-> 0] /\ ended = {}
  /\ call = None /\ stopped = "no"
  /\ refs = [s \in Sock |-> 0] /\ phase = [s \in Sock |-> "new"]
  /\ pending = [s \in Sock |-> 0]
  /\ pushes = <<>> /\ keys = {} /\ told = {3, 4} /\ made = 0

-----------------------------------------------------------------------------
(* Counted references *)

(* The references of the table, and of the call that has yet to push them. *)
InTable(s) == {k \in Live : map[k].end = s}
Loose(s) == {i \in 1..Len(pushes) : pushes[i].end = s}

(* An error of a call drops what it holds, and keeps what the table holds. *)
DropsLoose ==
  /\ refs' = [s \in Sock |-> refs[s] - Cardinality(Loose(s))]
  /\ pushes' = <<>> /\ keys' = {}
  /\ UNCHANGED <<tableVars, phase, pending, told, made>>

Traps == Stop("trap") /\ DropsLoose

IdleHere == Idle /\ pushes = <<>>

(* The call has new resources to return, which it pushes one by one. *)
Returns(resources) ==
  /\ made + Len(resources) <= MaxMade
  /\ made' = made + Len(resources)
  /\ pushes' = resources
  /\ UNCHANGED keys

FindsSocket(key) == Holds(key, "TcpSocket")
FindsNetwork(key) == Holds(key, "Network")

-----------------------------------------------------------------------------
(* The sockets of the system *)

(* The pool knows the address. *)
Binds(s, addr) ==
  /\ addr \in Pool /\ phase[s] = "new"
  /\ phase' = [phase EXCEPT ![s] = "bound"]
  /\ UNCHANGED <<refs, pending>>

(* The system binds a socket that was not. *)
Listens(s) ==
  /\ phase[s] \in {"new", "bound", "listening"}
  /\ phase' = [phase EXCEPT ![s] = "listening"]
  /\ UNCHANGED <<refs, pending>>

(* Two clones of the socket itself are its streams. *)
Connects(s, addr) ==
  /\ addr \in Pool /\ phase[s] \in {"new", "bound"}
  /\ phase' = [phase EXCEPT ![s] = "connected"]
  /\ refs' = [refs EXCEPT ![s] = @ + 2]
  /\ UNCHANGED pending

(* A new socket of the system. *)
NewSocket == CHOOSE s \in Sock \ Open : TRUE

-----------------------------------------------------------------------------
(* Calls of the guest *)

(* create_tcp_socket: TcpSocket::new, or an error of the system. *)
CreateTcpSocket ==
  /\ IdleHere
  /\ \/ /\ Open # Sock
        /\ Returns(<<TcpSocket(NewSocket)>>)
        /\ refs' = [refs EXCEPT ![NewSocket] = 1]
        /\ UNCHANGED <<tableVars, streamVars, phase, pending, told>>
     \/ Traps

InstanceNetwork ==
  /\ IdleHere
  /\ Returns(<<Network>>)
  /\ UNCHANGED <<tableVars, streamVars, socketVars, told>>

Bind(key, network, addr) ==
  /\ IdleHere
  /\ \/ /\ FindsSocket(key) /\ FindsNetwork(network)
        /\ Binds(map[key].end, addr)
        /\ Answer
        /\ UNCHANGED <<tableVars, returnVars, told>>
     \/ Traps

Listen(key, network) ==
  /\ IdleHere
  /\ \/ /\ FindsSocket(key) /\ FindsNetwork(network)
        /\ Listens(map[key].end)
        /\ Answer
        /\ UNCHANGED <<tableVars, returnVars, told>>
     \/ Traps

(* accept blocks until a connection is there. *)
Accept(key) ==
  /\ IdleHere
  /\ \/ /\ FindsSocket(key) /\ phase[map[key].end] = "listening"
        /\ Start("accept", "accept", map[key].end, None, 1)
        /\ UNCHANGED <<tableVars, socketVars, returnVars, told>>
     \/ Traps

(* Mutant: the output stream shares the reference of the input stream. *)
Accepted_OneCloneLess ==
  /\ At("accept") /\ pending[call.from] > 0 /\ Open # Sock
  /\ LET s == NewSocket IN
     /\ Returns(<<TcpSocket(s), InputStream(s), OutputStream(s)>>)
     /\ pending' = [pending EXCEPT ![call.from] = @ - 1]
     /\ refs' = [refs EXCEPT ![s] = 2]
     /\ phase' = [phase EXCEPT ![s] = "connected"]
  /\ Answer
  /\ UNCHANGED <<tableVars, told>>

(* The connection, and two clones of it as its streams. *)
Accepted ==
  /\ At("accept") /\ pending[call.from] > 0 /\ Open # Sock
  /\ LET s == NewSocket IN
     /\ Returns(<<TcpSocket(s), InputStream(s), OutputStream(s)>>)
     /\ pending' = [pending EXCEPT ![call.from] = @ - 1]
     /\ refs' = [refs EXCEPT ![s] = 3]
     /\ phase' = [phase EXCEPT ![s] = "connected"]
  /\ Answer
  /\ UNCHANGED <<tableVars, told>>

AcceptFails == At("accept") /\ Traps

Connect(key, network, addr) ==
  /\ IdleHere
  /\ \/ /\ FindsSocket(key) /\ FindsNetwork(network)
        /\ Connects(map[key].end, addr)
        /\ Returns(<<InputStream(map[key].end), OutputStream(map[key].end)>>)
        /\ Answer
        /\ UNCHANGED <<tableVars, told>>
     \/ Traps

(* shutdown: after Receive or Both nothing more arrives. *)
Shutdown(key, how) ==
  /\ IdleHere
  /\ \/ /\ FindsSocket(key) /\ phase[map[key].end] = "connected"
        /\ ended' = IF how = "Send" THEN ended ELSE ended \cup {map[key].end}
        /\ UNCHANGED <<tableVars, arrived, call, stopped, socketVars, returnVars, told>>
     \/ Traps

(* Addresses and options: no_delay, ipv6_only and their setters. *)
Inquire(key) ==
  /\ IdleHere
  /\ \/ FindsSocket(key) /\ Answer
        /\ UNCHANGED <<tableVars, socketVars, returnVars, told>>
     \/ Traps

(* Buffer sizes, keep_alive, hop limits, address_family, non_blocking and  *)
(* subscribe are todo!(), which panics.                                    *)
Unimplemented ==
  /\ IdleHere
  /\ Stop("panic")
  /\ UNCHANGED <<tableVars, socketVars, returnVars, told>>

(* What is left of a socket of the system when `left' references are:      *)
(* close discards what waits at it.                                        *)
Keeps(s, left) ==
  /\ refs' = [refs EXCEPT ![s] = left]
  /\ arrived' = [arrived EXCEPT ![s] = IF left = 0 THEN 0 ELSE @]
  /\ ended' = IF left = 0 THEN ended \ {s} ELSE ended
  /\ phase' = [phase EXCEPT ![s] = IF left = 0 THEN "new" ELSE @]
  /\ pending' = [pending EXCEPT ![s] = IF left = 0 THEN 0 ELSE @]
  /\ UNCHANGED <<call, stopped>>

(* Drop of an Arc. *)
LeftAfter(s, type) == refs[s] - 1

(* drop_tcp_socket, drop_network and the drops of streams, each for keys   *)
(* of its type.                                                            *)
Drop(key, type) ==
  /\ IdleHere
  /\ \/ /\ Holds(key, type) /\ map[key].end \in Sock
        /\ Delete(key)
        /\ Keeps(map[key].end, LeftAfter(map[key].end, type))
     \/ /\ ~(Holds(key, type) /\ map[key].end \in Sock)
        /\ DropStream(key, type)
        /\ UNCHANGED socketVars
  /\ told' = IF Holds(key, type) THEN told \ {key} ELSE told
  /\ UNCHANGED returnVars

-----------------------------------------------------------------------------
(* Pushing what a call returns *)

(* Mutant: a full table is an error code for the guest. *)
PushFails_Answers ==
  /\ Running /\ pushes # <<>> /\ TableFull
  /\ Answer
  /\ DropsLoose

(* One push after the other; a table that is full in the middle traps, and *)
(* keeps the entries that have been pushed.                                *)
PushFails == Running /\ pushes # <<>> /\ TableFull /\ Traps

PushNext ==
  /\ Running /\ pushes # <<>>
  /\ \E key \in Key :
       /\ Push(Head(pushes), key)
       /\ keys' = IF Tail(pushes) = <<>> THEN {} ELSE keys \cup {key}
       /\ told' = IF Tail(pushes) = <<>> THEN told \cup keys \cup {key} ELSE told
  /\ pushes' = Tail(pushes)
  /\ UNCHANGED <<streamVars, socketVars, made>>

-----------------------------------------------------------------------------
(* The other side *)

PeerConnects(s) ==
  /\ Running /\ s \in Open /\ phase[s] = "listening" /\ pending[s] < MaxPending
  /\ pending' = [pending EXCEPT ![s] = @ + 1]
  /\ UNCHANGED <<tableVars, streamVars, refs, phase, returnVars, told>>

-----------------------------------------------------------------------------
(* Specification *)

StreamCall ==
  /\ pushes = <<>>
  /\ \E key \in Key, len \in 0..MaxLen :
       Read(key, len) \/ Skip(key, len) \/ Write(key, len) \/ WriteZeroes(key, len)

(* What the streams of the table lead to. *)
Streamed(type) == {map[k].end : k \in {l \in Live : Holds(l, type)}}

(* The embedder splices streams of the table, or one of its own onto a     *)
(* connection.                                                             *)
SpliceCall ==
  /\ pushes = <<>>
  /\ \E from \in Streamed("InputStream") \cup Kept,
        to \in Streamed("OutputStream"), len \in 0..MaxLen :
       /\ from \in Kept \ Streamed("InputStream") => to \in Sock
       /\ Splice(from, to, len)

SocketCall ==
  \/ CreateTcpSocket \/ InstanceNetwork
  \/ \E key, network \in Key :
       \/ \E addr \in Addr : Bind(key, network, addr) \/ Connect(key, network, addr)
       \/ Listen(key, network)
  \/ \E key \in Key :
       \/ Accept(key) \/ Inquire(key)
       \/ \E how \in {"Receive", "Send", "Both"} : Shutdown(key, how)
       \/ \E type \in Types : Drop(key, type)
  \/ Unimplemented

Peer ==
  \/ \E e \in End : (Arrives(e) \/ Ends(e)) /\ UNCHANGED <<socketVars, returnVars, told>>
  \/ \E s \in Sock : PeerConnects(s)

Streaming ==
  \/ StreamCall \/ SpliceCall
  \/ pushes = <<>> /\ SpliceOrForward
  \/ Step \/ Fail
Accepting == Accepted \/ AcceptFails
Pushing == PushNext \/ PushFails

Next ==
  \/ Streaming /\ UNCHANGED <<socketVars, returnVars, told>>
  \/ SocketCall \/ Accepting \/ Pushing \/ Peer

Spec == Init /\ [][Next]_vars

(* Calls take their steps; nothing is assumed of guests and peers. *)
Fairness == WF_vars(Step /\ UNCHANGED <<socketVars, returnVars, told>>)
            /\ WF_vars(Accepting) /\ WF_vars(Pushing)

FairSpec == Spec /\ Fairness

-----------------------------------------------------------------------------
(* Properties *)

(* The type invariant. *)
TypeOK ==
  /\ map \in [Key -> Resource \cup {None}]
  /\ next_key \in Key
  /\ arrived \in [End -> 0..MaxBytes] /\ ended \subseteq End
  /\ refs \in [Sock -> Nat] /\ pending \in [Sock -> 0..MaxPending]
  /\ phase \in [Sock -> {"new", "bound", "listening", "connected"}]
  /\ pushes \in Seq(Resource)
  /\ keys \subseteq Key /\ told \subseteq Key /\ made \in 0..MaxMade
  /\ stopped \in {"no", "trap", "panic", "overflow"}

(* A socket is open exactly while an entry of the table, or the call that  *)
(* is about to push it, refers to it, in whatever order the socket and its *)
(* two streams are dropped: no stream reads from a socket that is closed,  *)
(* and none stays open that nobody can drop.                               *)
RefsMatch ==
  \A s \in Sock : refs[s] = Cardinality(InTable(s)) + Cardinality(Loose(s))

(* Between calls, the table holds what the guest knows of and nothing      *)
(* else: a call that has pushed some of its resources and cannot push the  *)
(* rest (tcp.rs:47-49) leaves entries nobody knows, but only by a trap.    *)
EntriesTold == IdleHere => Live = told

(* A call comes to its end by itself once what it waits for is there: the  *)
(* end of its stream, or a connection to accept.  Counting attempts, the   *)
(* loops of the traits end when every read is interrupted; the splice of a *)
(* pipe onto a socket, which calls itself, does not end (net.rs:357).      *)
Ending ==
  /\ call # None
  /\ CASE call.how = "accept" -> pending[call.from] > 0
       [] call.how = "recursion" -> FALSE
       [] OTHER -> call.from = None \/ call.from \in ended

CallsEnd == Ending ~> (call = None /\ pushes = <<>> /\ stopped # "overflow")
=============================================================================
