----------------------------- MODULE ServerConn -----------------------------
(***************************************************************************)
(* One connection of the server and the sockets it carries: serverConn     *)
(* (server_conn.go), its socket and namespace stores (store.go), the       *)
(* connection path of Namespace (namespace.go, middleware.go) and the life *)
(* cycle of serverSocket (server_socket.go).                               *)
(*                                                                         *)
(* Goroutines: one for each packet that the parser finishes                *)
(* (onParserFinish), the connectTimeout timer, the goroutine that runs the *)
(* closeOnce body of the Engine.IO socket and with it serverConn.onClose,  *)
(* Server.Close, and user goroutines that hold a socket.  A section under  *)
(* a mutex is one step.  sync.Once.Do makes a second caller wait for the   *)
(* first.  The socket that a CONNECT packet creates has the packet's       *)
(* number.                                                                 *)
(***************************************************************************)
EXTENDS Integers, Sequences, FiniteSets

CONSTANTS Nsps,       \* names of namespaces
          Root,       \* the namespace "/"
          Created,    \* the namespaces that exist (all if AcceptAnyNamespace)
          MaxPkts,    \* bound: packets received on the connection
          Users,      \* goroutines of the application
          Shutdown,   \* the goroutine of Server.Close
          Timer,      \* the connectTimeout goroutine
          Eio,        \* the goroutine that closes the Engine.IO socket
          Background, \* which of Shutdown and Timer run while we look
          NoSocket,
          Eager       \* the client sends whatever it likes, not only what it may

Pkts == 1..MaxPkts
Goroutines == Pkts \cup Users \cup {Shutdown, Timer, Eio}
Kinds == {"CONNECT", "EVENT", "DISCONNECT"}

ASSUME ConnAssumption ==
  /\ MaxPkts \in Nat /\ Root \in Nsps /\ Created \subseteq Nsps /\ Eager \in BOOLEAN
  /\ NoSocket \notin Pkts /\ Background \subseteq {Shutdown, Timer}
  /\ {Shutdown, Timer, Eio} \cap (Pkts \cup Users) = {} /\ Users \cap Pkts = {}
  /\ Cardinality({Shutdown, Timer, Eio}) = 3

VARIABLES pc,          \* where each goroutine is
          kind, nsp,   \* type and namespace of each packet received
          cur,         \* the socket a goroutine works on or waits for
          todo,        \* the sockets a loop has still to close
          byID, byNsp, \* serverConn.sockets: socketsByID and socketsByNsp
          nsps,        \* serverConn.nsps
          nspSockets,  \* Namespace.sockets, of all namespaces
          rooms,       \* the adapter: the rooms of each socket
          connected,   \* serverSocket.connected
          joinable,    \* serverSocket.join has not been replaced by the no-op
          onclose,     \* how far serverSocket.onClose is
          inHandler,   \* the socket whose disconnecting handler a user goroutine is
          cli,         \* the client's view of each namespace
          out          \* the packets on their way to the client

sockVars == <<nspSockets, rooms, connected, joinable, onclose>>
storeVars == <<byID, byNsp, nsps>>
cliVars == <<cli, out>>
vars == <<pc, kind, nsp, cur, todo, storeVars, sockVars, inHandler, cliVars>>

\* The room of the socket's own ID, and one that the application uses.
Own == "own"
RoomNames == {Own, "room"}

CloseStages == {"no", "entered", "waiting", "left", "nspRemoved", "removing",
                "unlisting", "removed", "done", "skipped"}
Finished == {"done", "skipped"}

\* The loops that call onClose on sockets, and where each goes on to.
AfterLoop == [single |-> "done", disconnectAll |-> "close",
              shutdown |-> "eioClose", connOnClose |-> "closed"]

PCs == {"idle", "done", "lookup", "add", "middleware", "nspSet", "onConnect", "locked",
        "socketsSet", "nspsSet", "event", "handled", "joining", "close", "eioClose",
        "open", "closing", "closed"} \cup DOMAIN AfterLoop

TypeOK ==
  /\ pc \in [Goroutines -> PCs]
  /\ kind \in [Pkts -> Kinds] /\ nsp \in [Pkts -> Nsps]
  /\ cur \in [Goroutines -> Pkts \cup {NoSocket}]
  /\ todo \in [Goroutines -> SUBSET Pkts]
  /\ byID \subseteq Pkts /\ byNsp \in [Nsps -> Pkts \cup {NoSocket}] /\ nsps \subseteq Nsps
  /\ nspSockets \subseteq Pkts
  /\ rooms \in [Pkts -> SUBSET RoomNames]
  /\ connected \in [Pkts -> BOOLEAN] /\ joinable \in [Pkts -> BOOLEAN]
  /\ onclose \in [Pkts -> CloseStages]
  /\ inHandler \in [Users -> Pkts \cup {NoSocket}]
  /\ cli \in [Nsps -> {"idle", "pending", "on"}]
  /\ out \in Seq([kind : Kinds \cup {"CONNECT_ERROR"}, nsp : Nsps])

Init ==
  /\ pc = [g \in Goroutines |-> IF g = Eio THEN "open" ELSE "idle"]
  /\ kind = [p \in Pkts |-> "CONNECT"] /\ nsp = [p \in Pkts |-> Root]
  /\ cur = [g \in Goroutines |-> NoSocket] /\ todo = [g \in Goroutines |-> {}]
  /\ byID = {} /\ byNsp = [n \in Nsps |-> NoSocket] /\ nsps = {}
  /\ nspSockets = {} /\ rooms = [p \in Pkts |-> {}]
  /\ connected = [p \in Pkts |-> FALSE] /\ joinable = [p \in Pkts |-> TRUE]
  /\ onclose = [p \in Pkts |-> "no"]
  /\ inHandler = [u \in Users |-> NoSocket]
  /\ cli = [n \in Nsps |-> "idle"] /\ out = <<>>

Goto(g, l) == pc' = [pc EXCEPT ![g] = l]

\* An eager client does not look at what it is sent.
SendToClient(k, n) == out' = IF Eager THEN out ELSE Append(out, [kind |-> k, nsp |-> n])

\* onConnect holds connectedMu until it has set connected.
ReadsConnected(s, b) == pc[s] # "locked" /\ connected[s] = b

-----------------------------------------------------------------------------
(* The client.  A client that is not Eager opens a namespace once and uses *)
(* it after the server's CONNECT.                                          *)

ClientSend(p, k, n) ==
  /\ pc[Eio] = "open"
  /\ pc[p] = "idle" /\ \A q \in Pkts : q < p => pc[q] # "idle"
  /\ Eager \/ cli[n] = (IF k = "CONNECT" THEN "idle" ELSE "on")
  /\ Goto(p, "lookup")
  /\ kind' = [kind EXCEPT ![p] = k] /\ nsp' = [nsp EXCEPT ![p] = n]
  /\ cli' = [cli EXCEPT ![n] = CASE Eager \/ k = "EVENT" -> @
                                 [] k = "CONNECT" -> "pending"
                                 [] k = "DISCONNECT" -> "idle"]
  /\ UNCHANGED <<cur, todo, storeVars, sockVars, inHandler, out>>

ClientReceive ==
  /\ out # <<>>
  /\ out' = Tail(out)
  /\ cli' = [cli EXCEPT ![Head(out).nsp] = IF Head(out).kind = "CONNECT" THEN "on" ELSE "idle"]
  /\ UNCHANGED <<pc, kind, nsp, cur, todo, storeVars, sockVars, inHandler>>

-----------------------------------------------------------------------------
(* onParserFinish: the goroutine of packet p looks its namespace up.       *)

\* Faulty variant: a DISCONNECT is not checked for a socket.
PacketLookupUnchecked(p) ==
  LET s == byNsp[nsp[p]]
      target == CASE kind[p] = "CONNECT" /\ s = NoSocket -> "add"
                  [] kind[p] = "EVENT" /\ s # NoSocket -> "event"
                  [] kind[p] = "DISCONNECT" -> "single"
                  [] OTHER -> "close"
  IN /\ pc[p] = "lookup"
     /\ Goto(p, target)
     /\ cur' = [cur EXCEPT ![p] = IF target = "event" THEN s ELSE NoSocket]
     /\ todo' = [todo EXCEPT ![p] = IF target = "single" THEN {s} ELSE {}]
     /\ UNCHANGED <<kind, nsp, storeVars, sockVars, inHandler, cliVars>>

PacketLookup(p) ==
  LET s == byNsp[nsp[p]]
      target == CASE kind[p] = "CONNECT" /\ s = NoSocket -> "add"
                  [] kind[p] = "EVENT" /\ s # NoSocket -> "event"
                  [] kind[p] = "DISCONNECT" /\ s # NoSocket -> "single"
                  [] OTHER -> "close"  \* "Invalid state"
  IN /\ pc[p] = "lookup"
     /\ Goto(p, target)
     /\ cur' = [cur EXCEPT ![p] = IF target = "event" THEN s ELSE NoSocket]
     /\ todo' = [todo EXCEPT ![p] = IF target = "single" THEN {s} ELSE {}]
     /\ UNCHANGED <<kind, nsp, storeVars, sockVars, inHandler, cliVars>>

\* serverSocket.onEvent: an event of a disconnected socket is ignored.
OnEvent(p) ==
  /\ pc[p] = "event"
  /\ \E b \in BOOLEAN : /\ ReadsConnected(cur[p], b)
                        /\ Goto(p, IF b THEN "handled" ELSE "done")
  /\ UNCHANGED <<kind, nsp, cur, todo, storeVars, sockVars, inHandler, cliVars>>

-----------------------------------------------------------------------------
(* serverConn.connect and Namespace.add.                                   *)

ConnectError(p) ==
  /\ Goto(p, "done")
  /\ SendToClient("CONNECT_ERROR", nsp[p])
  /\ UNCHANGED <<kind, nsp, cur, todo, storeVars, sockVars, inHandler, cli>>

\* The namespace is missing, or the auth data is no JSON object.
ConnectRefused(p) == pc[p] = "add" /\ ConnectError(p)

\* decode fails: onFatalError closes the Engine.IO socket in a goroutine.
ConnectFatal(p) ==
  /\ pc[p] = "add" /\ nsp[p] \in Created
  /\ Goto(p, "eioClose")
  /\ UNCHANGED <<kind, nsp, cur, todo, storeVars, sockVars, inHandler, cliVars>>

\* Faulty variant: the connection stores the socket before nsp.add returns.
NewSocketStored(p) ==
  /\ pc[p] = "add" /\ nsp[p] \in Created
  /\ Goto(p, "middleware")
  /\ byID' = byID \cup {p}
  /\ byNsp' = [byNsp EXCEPT ![nsp[p]] = p]
  /\ UNCHANGED <<kind, nsp, cur, todo, nsps, sockVars, inHandler, cliVars>>

NewSocket(p) ==
  /\ pc[p] = "add" /\ nsp[p] \in Created
  /\ Goto(p, "middleware")
  /\ UNCHANGED <<kind, nsp, cur, todo, storeVars, sockVars, inHandler, cliVars>>

\* A middleware gets the socket and may let it join a room.
MiddlewareJoin(p) ==
  /\ pc[p] = "middleware" /\ joinable[p] /\ "room" \notin rooms[p]
  /\ rooms' = [rooms EXCEPT ![p] = @ \cup {"room"}]
  /\ UNCHANGED <<pc, kind, nsp, cur, todo, storeVars, nspSockets, connected, joinable,
                 onclose, inHandler, cliVars>>

MiddlewareFail(p) == pc[p] = "middleware" /\ ConnectError(p)

MiddlewareOk(p) ==
  /\ pc[p] = "middleware"
  /\ Goto(p, "nspSet")
  /\ UNCHANGED <<kind, nsp, cur, todo, storeVars, sockVars, inHandler, cliVars>>

\* Namespace.doConnect: n.sockets.set, then socket.onConnect.
NspSocketsSet(p) ==
  /\ pc[p] = "nspSet"
  /\ nspSockets' = nspSockets \cup {p}
  /\ Goto(p, "onConnect")
  /\ UNCHANGED <<kind, nsp, cur, todo, storeVars, rooms, connected, joinable, onclose,
                 inHandler, cliVars>>

\* onConnect takes connectedMu, joins the socket's own room and sends CONNECT.
OnConnectSend(p) ==
  /\ pc[p] = "onConnect"
  /\ rooms' = IF joinable[p] THEN [rooms EXCEPT ![p] = @ \cup {Own}] ELSE rooms
  /\ SendToClient("CONNECT", nsp[p])
  /\ Goto(p, "locked")
  /\ UNCHANGED <<kind, nsp, cur, todo, storeVars, nspSockets, connected, joinable, onclose,
                 inHandler, cli>>

\* It sets connected and releases connectedMu; the connection handlers start.
OnConnectDone(p) ==
  /\ pc[p] = "locked"
  /\ connected' = [connected EXCEPT ![p] = TRUE]
  /\ Goto(p, "socketsSet")
  /\ UNCHANGED <<kind, nsp, cur, todo, storeVars, nspSockets, rooms, joinable, onclose,
                 inHandler, cliVars>>

\* Faulty variant: set fills one of the two maps only.
ConnSocketsSetByID(p) ==
  /\ pc[p] = "socketsSet"
  /\ byID' = byID \cup {p}
  /\ Goto(p, "nspsSet")
  /\ UNCHANGED <<kind, nsp, cur, todo, byNsp, nsps, sockVars, inHandler, cliVars>>

\* c.sockets.set
ConnSocketsSet(p) ==
  /\ pc[p] = "socketsSet"
  /\ byID' = byID \cup {p}
  /\ byNsp' = [byNsp EXCEPT ![nsp[p]] = p]
  /\ Goto(p, "nspsSet")
  /\ UNCHANGED <<kind, nsp, cur, todo, nsps, sockVars, inHandler, cliVars>>

\* c.nsps.set
ConnNspsSet(p) ==
  /\ pc[p] = "nspsSet"
  /\ nsps' = nsps \cup {nsp[p]}
  /\ Goto(p, "done")
  /\ UNCHANGED <<kind, nsp, cur, todo, byID, byNsp, sockVars, inHandler, cliVars>>

-----------------------------------------------------------------------------
(* serverSocket.onClose: the goroutines that call it, and its body.        *)

\* A loop takes its next socket and calls onClose; closeOnce lets the first
\* caller in.  disconnectAll calls Disconnect(false), which leaves a socket
\* that is not connected alone and sends DISCONNECT to the others.
CallOnClose(g, s) ==
  /\ pc[g] \in DOMAIN AfterLoop /\ cur[g] = NoSocket /\ s \in todo[g]
  /\ todo' = [todo EXCEPT ![g] = @ \ {s}]
  /\ \E b \in BOOLEAN :
       /\ pc[g] = "disconnectAll" => ReadsConnected(s, b)
       /\ b \/ pc[g] = "disconnectAll"
       /\ cur' = [cur EXCEPT ![g] = IF b THEN s ELSE NoSocket]
       /\ onclose' = IF b /\ onclose[s] = "no" THEN [onclose EXCEPT ![s] = "entered"] ELSE onclose
       /\ IF b /\ pc[g] = "disconnectAll" THEN SendToClient("DISCONNECT", nsp[s])
                                          ELSE UNCHANGED out
  /\ UNCHANGED <<pc, kind, nsp, storeVars, nspSockets, rooms, connected, joinable,
                 inHandler, cli>>

\* Once.Do returns when the body has finished, whoever ran it.
ReturnFromOnClose(g) ==
  /\ pc[g] \in DOMAIN AfterLoop /\ cur[g] # NoSocket /\ onclose[cur[g]] \in Finished
  /\ cur' = [cur EXCEPT ![g] = NoSocket]
  /\ UNCHANGED <<pc, kind, nsp, todo, storeVars, sockVars, inHandler, cliVars>>

LoopEnds(g) ==
  /\ pc[g] \in DOMAIN AfterLoop /\ cur[g] = NoSocket /\ todo[g] = {}
  /\ Goto(g, AfterLoop[pc[g]])
  /\ UNCHANGED <<kind, nsp, cur, todo, storeVars, sockVars, inHandler, cliVars>>

OnCloseStep(s, from, to) ==
  /\ onclose[s] = from
  /\ onclose' = [onclose EXCEPT ![s] = to]
  /\ UNCHANGED <<pc, kind, nsp, cur, todo, inHandler, cliVars>>

\* Not connected: the once is used up and nothing is closed.
OnCloseSkip(s) ==
  /\ ReadsConnected(s, FALSE)
  /\ OnCloseStep(s, "entered", "skipped")
  /\ UNCHANGED <<storeVars, nspSockets, rooms, connected, joinable>>

\* The disconnecting handlers start, join becomes a no-op.
OnCloseBegin(s) ==
  /\ ReadsConnected(s, TRUE)
  /\ OnCloseStep(s, "entered", "waiting")
  /\ joinable' = [joinable EXCEPT ![s] = FALSE]
  /\ UNCHANGED <<storeVars, nspSockets, rooms, connected>>

HandlersRunning(s) == \E u \in Users : inHandler[u] = s /\ pc[u] # "done"

\* wg.WaitTimeout returns, because the handlers are done or after 10 seconds;
\* then leaveAll.
LeaveAll(s) ==
  /\ OnCloseStep(s, "waiting", "left")
  /\ rooms' = [rooms EXCEPT ![s] = {}]
  /\ UNCHANGED <<storeVars, nspSockets, connected, joinable>>

HandlersDone(s) == ~HandlersRunning(s) /\ LeaveAll(s)

\* Faulty variant: the wait for the disconnecting handlers has no timeout.
HandlersNoTimeout(s) == FALSE

HandlersTimeout(s) == HandlersRunning(s) /\ LeaveAll(s)

\* Faulty variant: only a socket that the connection still has is removed.
NspRemoveIfStored(s) ==
  /\ OnCloseStep(s, "left", "nspRemoved")
  /\ nspSockets' = IF s \in byID THEN nspSockets \ {s} ELSE nspSockets
  /\ UNCHANGED <<storeVars, rooms, connected, joinable>>

NspRemove(s) ==
  /\ OnCloseStep(s, "left", "nspRemoved")
  /\ nspSockets' = nspSockets \ {s}
  /\ UNCHANGED <<storeVars, rooms, connected, joinable>>

\* serverConn.remove: getByID, removeByID and nsps.remove.
ConnRemove(s) ==
  /\ OnCloseStep(s, "nspRemoved", IF s \in byID THEN "removing" ELSE "removed")
  /\ UNCHANGED <<storeVars, nspSockets, rooms, connected, joinable>>

\* Faulty variant: the entry of the namespace stays behind.
RemoveByIDOnly(s) ==
  /\ OnCloseStep(s, "removing", "unlisting")
  /\ byID' = byID \ {s}
  /\ UNCHANGED <<byNsp, nsps, nspSockets, rooms, connected, joinable>>

RemoveByID(s) ==
  /\ OnCloseStep(s, "removing", "unlisting")
  /\ byID' = byID \ {s}
  /\ byNsp' = IF s \in byID THEN [byNsp EXCEPT ![nsp[s]] = NoSocket] ELSE byNsp
  /\ UNCHANGED <<nsps, nspSockets, rooms, connected, joinable>>

NspsRemove(s) ==
  /\ OnCloseStep(s, "unlisting", "removed")
  /\ nsps' = nsps \ {nsp[s]}
  /\ UNCHANGED <<byID, byNsp, nspSockets, rooms, connected, joinable>>

\* connected becomes false and the disconnect handlers start.
OnCloseEnd(s) ==
  /\ OnCloseStep(s, "removed", "done")
  /\ connected' = [connected EXCEPT ![s] = FALSE]
  /\ UNCHANGED <<storeVars, nspSockets, rooms, joinable>>

-----------------------------------------------------------------------------
(* Closing the connection.                                                 *)

\* eio.Close, called by serverConn.close, by onFatalError and by Server.Close.
\* The first caller starts the closing; every caller waits for its end.
\* serverConn.close then calls onClose, whose once has been used by then.
EioClose(g) ==
  /\ pc[g] \in {"close", "eioClose"} /\ pc[Eio] = "open"
  /\ Goto(Eio, "closing")
  /\ UNCHANGED <<kind, nsp, cur, todo, storeVars, sockVars, inHandler, cliVars>>

EioCloseReturn(g) ==
  /\ pc[g] \in {"close", "eioClose"} /\ pc[Eio] = "closed"
  /\ Goto(g, "done")
  /\ UNCHANGED <<kind, nsp, cur, todo, storeVars, sockVars, inHandler, cliVars>>

\* The transport closes, the ping times out or a packet cannot be parsed.
TransportClose ==
  /\ pc[Eio] = "open"
  /\ Goto(Eio, "closing")
  /\ UNCHANGED <<kind, nsp, cur, todo, storeVars, sockVars, inHandler, cliVars>>

GetAndRemoveAll(g, l) ==
  /\ todo' = [todo EXCEPT ![g] = byID]
  /\ byID' = {} /\ byNsp' = [n \in Nsps |-> NoSocket]
  /\ Goto(g, l)

\* Faulty variant: onClose drops the sockets without closing them.
ConnOnCloseForgets ==
  /\ pc[Eio] = "closing"
  /\ byID' = {} /\ byNsp' = [n \in Nsps |-> NoSocket]
  /\ Goto(Eio, "connOnClose")
  /\ UNCHANGED <<kind, nsp, cur, todo, nsps, sockVars, inHandler, cliVars>>

\* serverConn.onClose, the OnClose callback of the Engine.IO socket.
ConnOnClose ==
  /\ pc[Eio] = "closing"
  /\ GetAndRemoveAll(Eio, "connOnClose")
  /\ UNCHANGED <<kind, nsp, cur, nsps, sockVars, inHandler, cliVars>>

\* Faulty variant: the test of the timer is the wrong way round.
ConnectTimeoutInverted ==
  /\ pc[Timer] = "idle" /\ Timer \in Background
  /\ Goto(Timer, IF nsps # {} THEN "close" ELSE "done")
  /\ UNCHANGED <<kind, nsp, cur, todo, storeVars, sockVars, inHandler, cliVars>>

\* The connectTimeout goroutine wakes up.
ConnectTimeout ==
  /\ pc[Timer] = "idle" /\ Timer \in Background
  /\ Goto(Timer, IF nsps = {} THEN "close" ELSE "done")
  /\ UNCHANGED <<kind, nsp, cur, todo, storeVars, sockVars, inHandler, cliVars>>

\* Server.Close closes the sockets of "/", then the Engine.IO server.
ServerClose ==
  /\ pc[Shutdown] = "idle" /\ Shutdown \in Background
  /\ todo' = [todo EXCEPT ![Shutdown] = {s \in nspSockets : nsp[s] = Root}]
  /\ Goto(Shutdown, "shutdown")
  /\ UNCHANGED <<kind, nsp, cur, storeVars, sockVars, inHandler, cliVars>>

-----------------------------------------------------------------------------
(* The application.  It has a socket from the connection handler on.       *)

HasSocket(u, s) == pc[u] = "idle" /\ ReadsConnected(s, TRUE)

\* Disconnect(false)
Disconnect(u, s) ==
  /\ HasSocket(u, s)
  /\ Goto(u, "single")
  /\ todo' = [todo EXCEPT ![u] = {s}]
  /\ SendToClient("DISCONNECT", nsp[s])
  /\ UNCHANGED <<kind, nsp, cur, storeVars, sockVars, inHandler, cli>>

\* Disconnect(true), possibly in a disconnecting handler of s.
DisconnectClose(u, s) ==
  /\ HasSocket(u, s)
  /\ GetAndRemoveAll(u, "disconnectAll")
  /\ \E h \in {s, NoSocket} : /\ h = s => onclose[s] = "waiting"
                              /\ inHandler' = [inHandler EXCEPT ![u] = h]
  /\ UNCHANGED <<kind, nsp, cur, nsps, sockVars, cliVars>>

\* Join reads s.join under joinMu and calls it after unlocking.
Join(u, s) ==
  /\ pc[u] = "idle" /\ s \in nspSockets /\ joinable[s]
  /\ Goto(u, "joining")
  /\ cur' = [cur EXCEPT ![u] = s]
  /\ UNCHANGED <<kind, nsp, todo, storeVars, sockVars, inHandler, cliVars>>

JoinAddAll(u) ==
  /\ pc[u] = "joining"
  /\ rooms' = [rooms EXCEPT ![cur[u]] = @ \cup {"room"}]
  /\ Goto(u, "done")
  /\ UNCHANGED <<kind, nsp, cur, todo, storeVars, nspSockets, connected, joinable, onclose,
                 inHandler, cliVars>>

-----------------------------------------------------------------------------
PacketStep(p) ==
  \/ PacketLookup(p) \/ OnEvent(p) \/ ConnectRefused(p) \/ ConnectFatal(p) \/ NewSocket(p)
  \/ MiddlewareJoin(p) \/ MiddlewareFail(p) \/ MiddlewareOk(p) \/ NspSocketsSet(p)
  \/ OnConnectSend(p) \/ OnConnectDone(p) \/ ConnSocketsSet(p) \/ ConnNspsSet(p)

OnCloseBody(s) ==
  \/ OnCloseSkip(s) \/ OnCloseBegin(s) \/ HandlersDone(s) \/ HandlersTimeout(s)
  \/ NspRemove(s) \/ ConnRemove(s) \/ RemoveByID(s) \/ NspsRemove(s) \/ OnCloseEnd(s)

CloseStep(g) ==
  \/ \E s \in Pkts : CallOnClose(g, s)
  \/ ReturnFromOnClose(g) \/ LoopEnds(g) \/ EioClose(g) \/ EioCloseReturn(g)

Application(u) ==
  \/ \E s \in Pkts : Disconnect(u, s) \/ DisconnectClose(u, s) \/ Join(u, s)
  \/ JoinAddAll(u)

Next ==
  \/ \E p \in Pkts, k \in Kinds, n \in Nsps : ClientSend(p, k, n)
  \/ ClientReceive
  \/ \E p \in Pkts : PacketStep(p) \/ OnCloseBody(p)
  \/ \E g \in Goroutines : CloseStep(g)
  \/ TransportClose \/ ConnOnClose \/ ConnectTimeout \/ ServerClose
  \/ \E u \in Users : Application(u)

Spec == Init /\ [][Next]_vars

\* Every goroutine runs, timers fire, middlewares and handlers return.  The
\* client, the transport and the application need not do anything.
FairSpec ==
  /\ Spec
  /\ \A p \in Pkts : WF_vars(PacketStep(p) \/ CloseStep(p)) /\ WF_vars(OnCloseBody(p))
  /\ \A u \in Users : WF_vars(JoinAddAll(u) \/ CloseStep(u))
  /\ WF_vars(ConnOnClose \/ CloseStep(Eio))
  /\ WF_vars(ConnectTimeout \/ CloseStep(Timer))
  /\ WF_vars(CloseStep(Shutdown))

-----------------------------------------------------------------------------
(* Properties.                                                             *)

\* The two maps of serverSocketStore agree: a namespace leads to a socket of
\* that namespace which is also stored under its ID, whatever set, removeByID
\* and getAndRemoveAll of several goroutines do.
StoreIndex ==
  \A n \in Nsps : byNsp[n] # NoSocket => byNsp[n] \in byID /\ nsp[byNsp[n]] = n

\* The namespace lists exactly the sockets that are being connected or are
\* connected, until onClose removes them: doConnect lists a socket before
\* onConnect, so that an onClose that finds it connected also finds it listed.
NamespaceListsConnected ==
  \A s \in Pkts :
    s \in nspSockets <=> \/ pc[s] \in {"onConnect", "locked"}
                         \/ connected[s] /\ onclose[s] \in {"no", "entered", "waiting", "left",
                                                            "skipped"}

\* A socket that has left its rooms is not in the room of its own ID any more,
\* so that an emit to that ID does not reach a socket that is closed.
OwnRoomLeft ==
  \A s \in Pkts :
    onclose[s] \notin {"no", "entered", "waiting", "skipped"} => Own \notin rooms[s]

\* A packet for a connected socket fails the lookup, and so closes the
\* connection, only in these windows: connect has not stored the socket yet,
\* a loop is about to close it, the connection is going down, or a second
\* socket of the namespace has been closed and took the entry with it.
UnindexedOnlyInWindows ==
  \A s \in Pkts :
    connected[s] /\ onclose[s] = "no" /\ byNsp[nsp[s]] = NoSocket =>
      \/ pc[s] = "socketsSet"
      \/ \E g \in Goroutines : s \in todo[g]
      \/ pc[Eio] # "open"
      \/ \E t \in Pkts \ {s} : kind[t] = "CONNECT" /\ nsp[t] = nsp[s] /\ onclose[t] # "no"

\* The once of a socket is used up without closing it only if Server.Close
\* met the socket between n.sockets.set and onConnect: all other callers of
\* onClose have a socket that is connected or was.
SkipOnlyOnShutdown ==
  \A s \in Pkts : onclose[s] = "skipped" => pc[Shutdown] # "idle"

Closing(g) == pc[g] \in {"close", "eioClose", "closing"} \cup DOMAIN AfterLoop

\* Whoever closes the connection or a socket gets to an end: the goroutines
\* that wait for each other in Once.Do, also those of a disconnecting handler
\* that calls Disconnect(true), are released by the 10 second timeout.
ClosersReturn ==
  (\E g \in Goroutines : Closing(g)) ~> (\A g \in Goroutines : ~Closing(g))

\* Every socket that the connection knows when it starts to close is closed.
ListedAreClosed ==
  \A s \in Pkts :
    s \in byID /\ pc[Eio] = "closing" ~> onclose[s] = "done" \/ pc[Shutdown] # "idle"

\* connectTimeout: a client that never gets into a namespace is disconnected.
IdleClientClosed == Timer \in Background => <>(nsps # {} \/ pc[Eio] = "closed")
=============================================================================
