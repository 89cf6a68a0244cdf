--------------------------- MODULE EngineSocketInv ---------------------------
(***************************************************************************)
(* The invariant of an Engine.IO session on which the proof that sockets   *)
(* and transports follow each other rests.                                 *)
(***************************************************************************)
EXTENDS EngineSocket

-----------------------------------------------------------------------------
(* The types of what the proof looks at. *)
UpPackets == {Packet("ping"), Packet("pong"), Packet("upgrade")} \cup {Message(i) : i \in Nat}

ClientStates(todo) ==
    [life : {"dial", "open", "closed", "failed"}, rest : Seq(Transports),
     transport : Transports \cup {"none"}, offers : Seq(Streams),
     pc : {"idle", "wait", "fired", "end"}, once : Onces, cb : Callbacks,
     fin : [Transports -> {"none", "read", "set"}], todo : {todo},
     ended : SUBSET Transports, sendClose : BOOLEAN]

ServerStates ==
    [running : BOOLEAN, life : {"none", "checked", "open", "closed"}, stored : BOOLEAN,
     transport : Transports \cup {"none"}, once : Onces, cb : Callbacks,
     upg : [Transports -> {"none", "wait", "fired", "end"}], fin : SUBSET Streams,
     ended : SUBSET Transports, go : SUBSET {"noop", "close", "cycle"},
     ping : {"sleep", "wait"}, pongChan : BOOLEAN]

Histories ==
    [faults : Nat, late : BOOLEAN, zombie : BOOLEAN, overlap : BOOLEAN, stream : BOOLEAN,
     survivor : BOOLEAN]

NetType ==
    n \in [up : [Streams -> Seq(UpPackets)], down : {n.down}, pq : {n.pq}, poll : {n.poll},
           resp : {n.resp}, posts : {n.posts}, broken : BOOLEAN]
DataType == d \in [up : Nat, upRcv : {d.upRcv}, down : {d.down}, downRcv : {d.downRcv}]

Types == c \in ClientStates(c.todo) /\ s \in ServerStates /\ NetType /\ DataType /\ h \in Histories

-----------------------------------------------------------------------------
(* The client.  x is its state. *)

\* The transport at place i of the offers has not been tried yet.
Untried(x, i) == x.pc = "idle" \/ (x.pc \in {"wait", "fired"} /\ i > 1)

\* A transport that nobody has used.
Fresh(x, t) == x.once[t] = "none" /\ x.cb[t] = "probe" /\ x.fin[t] = "none"

Dialling(x) ==
    /\ x.life = "dial" => x.rest # <<>>
    /\ x.life \in {"dial", "failed"} =>
         x.pc = "idle" /\ x.ended = {} /\ \A t \in Transports : Fresh(x, t)

\* maybeUpgrade goes through different transports, none of which is used before its turn.
Upgrading(x) ==
    /\ x.life \in {"open", "closed"} /\ x.pc # "end" => x.offers # <<>>
    /\ \A i, j \in DOMAIN x.offers : i # j => x.offers[i] # x.offers[j]
    /\ x.life \in {"open", "closed"} =>
         \A i \in DOMAIN x.offers : Untried(x, i) => Fresh(x, x.offers[i])

\* Whose the callbacks are: those of the socket's transport are the socket's, and a transport
\* that takes its place is another one.
Owned(x) ==
    /\ x.life \in {"open", "closed"} => x.transport \in Transports /\ x.cb[x.transport] = "socket"
    /\ \A t \in Transports :
         /\ x.fin[t] = "read" => x.cb[t] = "probe"
         /\ x.fin[t] = "set" => x.cb[t] = "socket" /\ t # x.transport
         /\ t \in x.ended => x.cb[t] = "socket" /\ x.once[t] # "live"

ClientInv(x) == Dialling(x) /\ Upgrading(x) /\ Owned(x)

-----------------------------------------------------------------------------
(* The server, and what it has of the client's. *)
ServerInv(y) ==
    /\ y.life # "none" => y.transport \in Transports /\ y.cb[y.transport] = "socket"
    /\ y.stored <=> y.life = "open"
    /\ y.life \in {"none", "checked"} => y.fin = {} /\ \A t \in Transports : y.upg[t] = "none"
    /\ y.life = "none" => \A t \in Transports : y.once[t] = "none"
    /\ y.life = "checked" => y.once[y.transport] = "live"
    /\ \A t \in y.fin : y.cb[t] = "probe"

\* The client's socket has, or has had, each transport that the server's socket has, is about
\* to have, or will be told to have.
Behind(x, y, up) ==
    /\ y.life = "none" => x.life \in {"dial", "failed"}
    /\ y.life = "checked" => x.life = "dial" \/ x.cb[y.transport] = "socket"
    /\ y.life \in {"open", "closed"} => x.cb[y.transport] = "socket"
    /\ \A t \in y.fin : x.cb[t] = "socket"
    /\ \A t \in Streams : \A i \in DOMAIN up[t] : up[t][i][1] = "upgrade" => x.cb[t] = "socket"

(***************************************************************************)
(* The parts of TransportsFollow.                                          *)
(***************************************************************************)
Alive(x, late) ==
    x.life = "open" => x.once[x.transport] = "live" \/ x.transport \in x.ended \/ late
Ended(x, zombie) == x.life = "closed" => x.once[x.transport] # "live" \/ zombie
Stopped(y, survivor) == ~y.running => y.life # "open" \/ survivor

ClientOK(x) == ClientInv(x) /\ Alive(x, h.late) /\ Ended(x, h.zombie)
ServerOK(y) == ServerInv(y) /\ Alive(y, h.late) /\ Stopped(y, h.survivor)

\* Nothing is on its way to a client that has no socket.
Idle ==
    c.life \in {"dial", "failed"} => n.poll = "off" /\ \A t \in Transports : c.todo[t] = <<>>

Inv == Types /\ ClientOK(c) /\ ServerOK(s) /\ Behind(c, s, n.up) /\ Idle
=============================================================================
