--------------------------- MODULE ClientManager ---------------------------
(***************************************************************************)
(* The client: Manager (client_manager.go, client_manager_conn.go) with    *)
(* its connect, reconnect and close goroutines, and one clientSocket       *)
(* (client_socket.go) that follows the manager's open and close events.    *)
(*                                                                         *)
(* Goroutines come and go, so they are a bag of tasks: a task is where the *)
(* goroutine is, what it was started for, the Engine.IO connection it      *)
(* works on and, in an event, the handlers it has still to call.  A        *)
(* section under a mutex is one step.  Engine.IO connections are numbered  *)
(* in the order of the calls of eio.Dial.                                  *)
(***************************************************************************)
EXTENDS Goroutines, FiniteSets

CONSTANTS MaxDials,              \* bound: calls of eio.Dial
          MaxEvents,             \* bound: faults and calls of the user, together
          ReconnectionAttempts   \* ManagerConfig.ReconnectionAttempts, 0 for no limit

ASSUME ManagerAssumption ==
  MaxDials \in Nat /\ MaxEvents \in Nat /\ ReconnectionAttempts \in Nat

VARIABLES tasks,       \* the goroutines
          state,       \* Manager.state
          skip,        \* Manager.skipReconnect
          connectMu,   \* Manager.connectMu is held
          eioMu,       \* Manager.eioMu is held by connect
          attempts,    \* Manager.backoff.attempts
          dials,       \* number of calls of eio.Dial
          eio,         \* state of each Engine.IO connection
          active,      \* the connections whose callbacks are active
          subs,        \* Manager.subs: the connections that cleanup silences
          meio,        \* Manager.eio
          queue,       \* the connection that Manager.eioPacketQueue sends to
          sock,        \* clientSocket.state
          sockActive,  \* clientSocket.active
          handlers,    \* the socket's registrations in openHandlers and closeHandlers
          dereg,       \* the registration that subDeregister removes
          heard,       \* connections on which the server has the socket's CONNECT
          faults, ops  \* faults so far; calls of Connect and Disconnect so far

mgrVars == <<state, skip, connectMu, eioMu, attempts>>
eioVars == <<dials, eio, active, subs, meio, queue>>
sockVars == <<sock, sockActive, handlers, dereg, heard>>
vars == <<tasks, mgrVars, eioVars, sockVars, faults, ops>>

Conns == 1..MaxDials
None == 0

\* Where a goroutine can be in: connect, open, reconnect, onClose, Close,
\* the socket's Connect and Disconnect, the handlers of an open or a close
\* event, the goroutine that sends CONNECT and the one of the server's CONNECT.
PCs == {"connLock", "connState", "eioLock", "dial", "setState", "setEio", "subscribe",
        "newQueue", "reconnected", "openCleanup", "openMaybe",
        "recLock", "recState", "recAttempts", "recSleep", "recReady", "recError",
        "ocCleanup", "ocReset", "ocState", "ocEvent", "ocSkip",
        "mcState", "mcSkip", "mcEio",
        "connect", "sendDisconnect", "destroy", "mgrDestroy", "disconnected",
        "openEvent", "closeEvent", "sendConnect", "answer", "onConnect"}
Causes == {"open", "reconnect", "callback", "user", "server", "event"}
Tasks == [pc : PCs, cause : Causes, conn : 0..MaxDials, todo : SUBSET (1..MaxEvents)]
Task(p, c) == [pc |-> p, cause |-> c, conn |-> None, todo |-> {}]

TypeOK ==
  /\ IsBagOf(tasks, Tasks)
  /\ state \in {"connecting", "connected", "reconnecting", "disconnected"}
  /\ skip \in BOOLEAN /\ connectMu \in BOOLEAN /\ eioMu \in BOOLEAN
  /\ attempts \in Nat /\ dials \in 0..MaxDials
  /\ eio \in [Conns -> {"none", "up", "closing", "closed"}]
  /\ active \subseteq Conns /\ subs \subseteq Conns
  /\ meio \in Conns \cup {None} /\ queue \in Conns \cup {None}
  /\ sock \in {"connected", "pending", "disconnected"} /\ sockActive \in BOOLEAN
  /\ handlers \subseteq 1..MaxEvents /\ dereg \in 0..MaxEvents
  /\ heard \subseteq Conns
  /\ faults \in Nat /\ ops \in Nat /\ faults + ops <= MaxEvents

Init ==
  /\ tasks = NoTasks
  /\ state = "connecting"  \* the zero value of the type
  /\ skip = FALSE /\ connectMu = FALSE /\ eioMu = FALSE
  /\ attempts = 0 /\ dials = 0
  /\ eio = [i \in Conns |-> "none"]
  /\ active = {} /\ subs = {} /\ meio = None /\ queue = None
  /\ sock = "disconnected" /\ sockActive = FALSE /\ handlers = {} /\ dereg = None
  /\ heard = {}
  /\ faults = 0 /\ ops = 0

-----------------------------------------------------------------------------
(* Steps of goroutines.                                                    *)

\* Task t goes on as the tasks of S; with S = {} it ends.
Becomes(t, S) == tasks' = Starting(Ending(tasks, t), S)
Starts(t) == tasks' = Starting(tasks, {t})

MoreEvents == faults + ops < MaxEvents

At(t, p) == t \in DOMAIN tasks /\ t.pc = p
To(t, p) == [t EXCEPT !.pc = p]

\* handlerStore.forEach reads the handlers now and calls them in a goroutine.
Event(p) ==
  IF handlers = {} THEN {} ELSE {[Task(p, "event") EXCEPT !.todo = handlers]}

Cleanup ==
  /\ active' = active \ subs
  /\ subs' = {}
  /\ UNCHANGED <<dials, eio, meio, queue>>

-----------------------------------------------------------------------------
(* Manager.connect and Manager.open.                                       *)

\* connect(false) takes connectMu and clears skipReconnect.
ConnectLock(t) ==
  /\ At(t, "connLock") /\ ~connectMu
  /\ connectMu' = TRUE /\ skip' = FALSE
  /\ Becomes(t, {To(t, "connState")})
  /\ UNCHANGED <<state, eioMu, attempts, eioVars, sockVars, faults, ops>>

\* Connected already: connect returns nil.
ConnectState(t) ==
  /\ At(t, "connState")
  /\ IF state # "connected"
       THEN /\ state' = "connecting"
            /\ Becomes(t, {To(t, "eioLock")})
            /\ UNCHANGED connectMu
       ELSE /\ connectMu' = (t.cause = "reconnect")
            /\ Becomes(t, IF t.cause = "reconnect" THEN {To(t, "reconnected")} ELSE {})
            /\ UNCHANGED state
  /\ UNCHANGED <<skip, eioMu, attempts, eioVars, sockVars, faults, ops>>

EioLock(t) ==
  /\ At(t, "eioLock") /\ ~eioMu
  /\ dials < MaxDials
  /\ eioMu' = TRUE
  /\ dials' = dials + 1
  /\ active' = active \cup {dials + 1}
  /\ Becomes(t, {[To(t, "dial") EXCEPT !.conn = dials + 1]})
  /\ UNCHANGED <<state, skip, connectMu, attempts, eio, subs, meio, queue, sockVars, faults, ops>>

\* Faulty variant: eioMu is not released.
DialErrorKeepsLock(t) ==
  /\ At(t, "dial") /\ MoreEvents
  /\ faults' = faults + 1
  /\ state' = "disconnected" /\ UNCHANGED eioMu
  /\ connectMu' = (t.cause = "reconnect")
  /\ Becomes(t, {To(t, IF t.cause = "reconnect" THEN "recError" ELSE "openCleanup")})
  /\ UNCHANGED <<skip, attempts, eioVars, sockVars, ops>>

\* eio.Dial fails: connect sets the state and returns the error.
DialError(t) ==
  /\ At(t, "dial") /\ MoreEvents
  /\ faults' = faults + 1
  /\ state' = "disconnected" /\ eioMu' = FALSE
  /\ connectMu' = (t.cause = "reconnect")
  /\ Becomes(t, {To(t, IF t.cause = "reconnect" THEN "recError" ELSE "openCleanup")})
  /\ UNCHANGED <<skip, attempts, eioVars, sockVars, ops>>

\* eio.Dial succeeds: the connection is up, its callbacks may run.
Dial(t) ==
  /\ At(t, "dial")
  /\ eio' = [eio EXCEPT ![t.conn] = "up"]
  /\ Becomes(t, {To(t, "setState")})
  /\ UNCHANGED <<mgrVars, dials, active, subs, meio, queue, sockVars, faults, ops>>

SetConnected(t) ==
  /\ At(t, "setState")
  /\ state' = "connected"
  /\ Becomes(t, {To(t, "setEio")})
  /\ UNCHANGED <<skip, connectMu, eioMu, attempts, eioVars, sockVars, faults, ops>>

\* Faulty variant: the old connection is not silenced.
SetEioWithoutCleanup(t) ==
  /\ At(t, "setEio")
  /\ meio' = t.conn
  /\ UNCHANGED <<active, subs>>
  /\ Becomes(t, {To(t, "subscribe")})
  /\ UNCHANGED <<mgrVars, dials, eio, queue, sockVars, faults, ops>>

\* m.eio is set, which only holders of eioMu read, the old packet queue
\* closed, and the callbacks of the old connection are silenced.
SetEio(t) ==
  /\ At(t, "setEio")
  /\ meio' = t.conn
  /\ active' = active \ subs /\ subs' = {}
  /\ Becomes(t, {To(t, "subscribe")})
  /\ UNCHANGED <<mgrVars, dials, eio, queue, sockVars, faults, ops>>

Subscribe(t) ==
  /\ At(t, "subscribe")
  /\ subs' = subs \cup ({t.conn} \cap active)
  /\ Becomes(t, {To(t, "newQueue")})
  /\ UNCHANGED <<mgrVars, dials, eio, active, meio, queue, sockVars, faults, ops>>

\* Faulty variant: packets still go to the old queue.
NewQueueKept(t) ==
  /\ At(t, "newQueue")
  /\ queue' = queue
  /\ eioMu' = FALSE
  /\ connectMu' = (t.cause = "reconnect")
  /\ Becomes(t, Event("openEvent") \cup
                (IF t.cause = "reconnect" THEN {To(t, "reconnected")} ELSE {}))
  /\ UNCHANGED <<state, skip, attempts, dials, eio, active, subs, meio, sockVars, faults, ops>>

\* The new packet queue, the open event, and the return from connect.
NewQueue(t) ==
  /\ At(t, "newQueue")
  /\ queue' = t.conn
  /\ eioMu' = FALSE
  /\ connectMu' = (t.cause = "reconnect")
  /\ Becomes(t, Event("openEvent") \cup
                (IF t.cause = "reconnect" THEN {To(t, "reconnected")} ELSE {}))
  /\ UNCHANGED <<state, skip, attempts, dials, eio, active, subs, meio, sockVars, faults, ops>>

\* open: connect has failed.
OpenCleanup(t) ==
  /\ At(t, "openCleanup")
  /\ Cleanup
  /\ Becomes(t, {To(t, "openMaybe")})
  /\ UNCHANGED <<mgrVars, sockVars, faults, ops>>

MaybeReconnectOnOpen(t) ==
  /\ At(t, "openMaybe")
  /\ Becomes(t, IF attempts = 0 THEN {Task("recLock", "reconnect")} ELSE {})
  /\ UNCHANGED <<mgrVars, eioVars, sockVars, faults, ops>>

-----------------------------------------------------------------------------
(* Manager.reconnect.                                                      *)

ReconnectEnds(t) ==
  /\ connectMu' = FALSE
  /\ Becomes(t, {})

ReconnectLock(t) ==
  /\ At(t, "recLock") /\ ~connectMu
  /\ IF skip THEN ReconnectEnds(t)
             ELSE connectMu' = TRUE /\ Becomes(t, {To(t, "recState")})
  /\ UNCHANGED <<state, skip, eioMu, attempts, eioVars, sockVars, faults, ops>>

ReconnectState(t) ==
  /\ At(t, "recState")
  /\ IF state # "disconnected"
       THEN ReconnectEnds(t) /\ UNCHANGED state
       ELSE state' = "reconnecting" /\ Becomes(t, {To(t, "recAttempts")}) /\ UNCHANGED connectMu
  /\ UNCHANGED <<skip, eioMu, attempts, eioVars, sockVars, faults, ops>>

\* Too many attempts, or the delay of backoff.duration starts.
ReconnectAttempts(t) ==
  /\ At(t, "recAttempts")
  /\ IF ReconnectionAttempts > 0 /\ attempts >= ReconnectionAttempts
       THEN attempts' = 0 /\ state' = "disconnected" /\ ReconnectEnds(t)
       ELSE attempts' = attempts + 1 /\ Becomes(t, {To(t, "recSleep")}) /\ UNCHANGED <<state, connectMu>>
  /\ UNCHANGED <<skip, eioMu, eioVars, sockVars, faults, ops>>

\* skipReconnect is read after the delay and again before connect(true).
ReconnectSkip(t) ==
  /\ At(t, "recSleep") \/ At(t, "recReady")
  /\ IF skip
       THEN ReconnectEnds(t)
       ELSE /\ Becomes(t, {To(t, IF t.pc = "recSleep" THEN "recReady" ELSE "connState")})
            /\ UNCHANGED connectMu
  /\ UNCHANGED <<state, skip, eioMu, attempts, eioVars, sockVars, faults, ops>>

\* connect(true) has failed: reconnect calls itself.
ReconnectError(t) ==
  /\ At(t, "recError")
  /\ state' = "disconnected"
  /\ Becomes(t, {[To(t, "recState") EXCEPT !.conn = None]})
  /\ UNCHANGED <<skip, connectMu, eioMu, attempts, eioVars, sockVars, faults, ops>>

\* Faulty variant: the attempt is taken back instead of a reset.
OnReconnectDecrement(t) ==
  /\ At(t, "reconnected")
  /\ attempts' = attempts - 1
  /\ ReconnectEnds(t)
  /\ UNCHANGED <<state, skip, eioMu, eioVars, sockVars, faults, ops>>

OnReconnect(t) ==
  /\ At(t, "reconnected")
  /\ attempts' = 0
  /\ ReconnectEnds(t)
  /\ UNCHANGED <<state, skip, eioMu, eioVars, sockVars, faults, ops>>

-----------------------------------------------------------------------------
(* Manager.onClose, called by the OnClose callback of a connection and by  *)
(* Manager.Close, and Manager.Close, called when the last socket goes.     *)

OnCloseCleanup(t) ==
  /\ At(t, "ocCleanup")
  /\ Cleanup
  /\ Becomes(t, {To(t, "ocReset")})
  /\ UNCHANGED <<mgrVars, sockVars, faults, ops>>

OnCloseReset(t) ==
  /\ At(t, "ocReset")
  /\ attempts' = 0
  /\ Becomes(t, {To(t, "ocState")})
  /\ UNCHANGED <<state, skip, connectMu, eioMu, eioVars, sockVars, faults, ops>>

OnCloseState(t) ==
  /\ At(t, "ocState")
  /\ state' = "disconnected"
  /\ Becomes(t, {To(t, "ocEvent")})
  /\ UNCHANGED <<skip, connectMu, eioMu, attempts, eioVars, sockVars, faults, ops>>

OnCloseEvent(t) ==
  /\ At(t, "ocEvent")
  /\ Becomes(t, {To(t, "ocSkip")} \cup Event("closeEvent"))
  /\ UNCHANGED <<mgrVars, eioVars, sockVars, faults, ops>>

OnCloseSkip(t) ==
  /\ At(t, "ocSkip")
  /\ Becomes(t, (IF skip THEN {} ELSE {Task("recLock", "reconnect")}) \cup
                (IF t.cause = "callback" THEN {} ELSE {To(t, "mcEio")}))
  /\ UNCHANGED <<mgrVars, eioVars, sockVars, faults, ops>>

CloseState(t) ==
  /\ At(t, "mcState")
  /\ state' = "disconnected"
  /\ Becomes(t, {To(t, "mcSkip")})
  /\ UNCHANGED <<skip, connectMu, eioMu, attempts, eioVars, sockVars, faults, ops>>

CloseSkip(t) ==
  /\ At(t, "mcSkip")
  /\ skip' = TRUE
  /\ Becomes(t, {To(t, "ocCleanup")})
  /\ UNCHANGED <<state, connectMu, eioMu, attempts, eioVars, sockVars, faults, ops>>

\* eio.Close and the end of the packet queue are goroutines of their own.
CloseEio(t) ==
  /\ At(t, "mcEio") /\ ~eioMu
  /\ eio' = [i \in Conns |-> IF i = meio /\ eio[i] = "up" THEN "closing" ELSE eio[i]]
  /\ Becomes(t, {To(t, "disconnected")})
  /\ UNCHANGED <<mgrVars, dials, active, subs, meio, queue, sockVars, faults, ops>>

-----------------------------------------------------------------------------
(* The Engine.IO connection (engine.io/client_socket.go) and the server.   *)

\* The transport fails, the ping times out, or the server closes.
Break(i) ==
  /\ eio[i] = "up" /\ MoreEvents
  /\ faults' = faults + 1
  /\ eio' = [eio EXCEPT ![i] = "closing"]
  /\ UNCHANGED <<tasks, mgrVars, dials, active, subs, meio, queue, sockVars, ops>>

\* The OnClose callback that connect has given to eio.Dial.
EioOnClose(i) ==
  /\ eio[i] = "closing"
  /\ eio' = [eio EXCEPT ![i] = "closed"]
  /\ IF i \in active THEN Starts(Task("ocCleanup", "callback")) ELSE UNCHANGED tasks
  /\ UNCHANGED <<mgrVars, dials, active, subs, meio, queue, sockVars, faults, ops>>

\* The OnPacket callback with the server's CONNECT.
EioOnPacket(t) ==
  /\ At(t, "answer")
  /\ Becomes(t, IF eio[t.conn] = "up" /\ t.conn \in active THEN {To(t, "onConnect")} ELSE {})
  /\ UNCHANGED <<mgrVars, eioVars, sockVars, faults, ops>>

\* The server disconnects the socket.
ServerDisconnect(i) ==
  /\ eio[i] = "up" /\ i \in heard \cap active /\ MoreEvents
  /\ faults' = faults + 1
  /\ heard' = heard \ {i}
  /\ Starts(Task("destroy", "server"))
  /\ UNCHANGED <<mgrVars, eioVars, sock, sockActive, handlers, dereg, ops>>

-----------------------------------------------------------------------------
(* The socket.  Connect holds clientSocket.stateMu from its first step to  *)
(* its second.                                                             *)

SocketLocked == \E t \in DOMAIN tasks : t.pc = "connect"

UserIdle == \A t \in DOMAIN tasks : t.cause # "user"

\* Connect registers the socket for the manager's events.
Connect ==
  /\ UserIdle /\ MoreEvents
  /\ ops' = ops + 1
  /\ IF sock = "connected"
       THEN UNCHANGED <<tasks, sockVars>>
       ELSE /\ Starts(Task("connect", "user"))
            /\ sockActive' = TRUE
            /\ handlers' = handlers \cup {ops + 1}
            /\ dereg' = ops + 1
            /\ UNCHANGED <<sock, heard>>
  /\ UNCHANGED <<mgrVars, eioVars, faults>>

\* Faulty variant: the manager is opened only when it is disconnected.
ConnectManagerIfDisconnected(t) ==
  LET send == state = "connected" /\ sock # "pending" IN
  /\ At(t, "connect")
  /\ Becomes(t, (IF state = "disconnected" THEN {Task("connLock", "open")} ELSE {}) \cup
                (IF send THEN {Task("sendConnect", "event")} ELSE {}))
  /\ sock' = IF send THEN "pending" ELSE sock
  /\ UNCHANGED <<mgrVars, eioVars, sockActive, handlers, dereg, heard, faults, ops>>

\* It reads the manager's state, opens the manager and sends CONNECT.
ConnectManager(t) ==
  LET send == state = "connected" /\ sock # "pending" IN
  /\ At(t, "connect")
  /\ Becomes(t, (IF state # "reconnecting" THEN {Task("connLock", "open")} ELSE {}) \cup
                (IF send THEN {Task("sendConnect", "event")} ELSE {}))
  /\ sock' = IF send THEN "pending" ELSE sock
  /\ UNCHANGED <<mgrVars, eioVars, sockActive, handlers, dereg, heard, faults, ops>>

\* openFunc and closeFunc, for the registrations in turn.
OpenFunc(t) ==
  /\ At(t, "openEvent") /\ ~SocketLocked
  /\ \E h \in t.todo :
       /\ \A k \in t.todo : h <= k
       /\ sock' = "pending"
       /\ Becomes(t, (IF sock = "pending" THEN {} ELSE {Task("sendConnect", "event")}) \cup
                     (IF t.todo = {h} THEN {} ELSE {[t EXCEPT !.todo = @ \ {h}]}))
  /\ UNCHANGED <<mgrVars, eioVars, sockActive, handlers, dereg, heard, faults, ops>>

CloseFunc(t) ==
  /\ At(t, "closeEvent") /\ ~SocketLocked
  /\ \E h \in t.todo :
       /\ \A k \in t.todo : h <= k
       /\ sock' = "disconnected"
       /\ Becomes(t, IF t.todo = {h} THEN {} ELSE {[t EXCEPT !.todo = @ \ {h}]})
  /\ UNCHANGED <<mgrVars, eioVars, sockActive, handlers, dereg, heard, faults, ops>>

\* The CONNECT goes to the packet queue of the moment; a server that gets it
\* answers.
SendConnect(t) ==
  LET arrives == queue # None /\ eio[queue] = "up" IN
  /\ At(t, "sendConnect") /\ ~eioMu
  /\ heard' = IF arrives THEN heard \cup {queue} ELSE heard
  /\ Becomes(t, IF arrives THEN {[To(t, "answer") EXCEPT !.conn = queue]} ELSE {})
  /\ UNCHANGED <<mgrVars, eioVars, sock, sockActive, handlers, dereg, faults, ops>>

OnConnect(t) ==
  /\ At(t, "onConnect") /\ ~SocketLocked
  /\ sock' = "connected"
  /\ Becomes(t, {})
  /\ UNCHANGED <<mgrVars, eioVars, sockActive, handlers, dereg, heard, faults, ops>>

\* Disconnect: a DISCONNECT packet, if connected; destroy; onClose.
Disconnect ==
  /\ UserIdle /\ MoreEvents
  /\ ops' = ops + 1
  /\ Starts(Task(IF state = "connected" /\ sock # "disconnected" THEN "sendDisconnect"
                 ELSE "destroy", "user"))
  /\ UNCHANGED <<mgrVars, eioVars, sockVars, faults>>

SendDisconnect(t) ==
  /\ At(t, "sendDisconnect") /\ ~eioMu
  /\ heard' = heard \ {queue}
  /\ Becomes(t, {To(t, "destroy")})
  /\ UNCHANGED <<mgrVars, eioVars, sock, sockActive, handlers, dereg, faults, ops>>

Deregister(t) ==
  /\ At(t, "destroy")
  /\ sockActive' = FALSE
  /\ handlers' = handlers \ {dereg}
  /\ dereg' = None
  /\ Becomes(t, {To(t, "mgrDestroy")})
  /\ UNCHANGED <<mgrVars, eioVars, sock, heard, faults, ops>>

Destroy(t) ==
  /\ At(t, "mgrDestroy")
  /\ Becomes(t, {To(t, IF sockActive THEN "disconnected" ELSE "mcState")})
  /\ UNCHANGED <<mgrVars, eioVars, sockVars, faults, ops>>

Disconnected(t) ==
  /\ At(t, "disconnected") /\ ~SocketLocked
  /\ sock' = "disconnected"
  /\ Becomes(t, {})
  /\ UNCHANGED <<mgrVars, eioVars, sockActive, handlers, dereg, heard, faults, ops>>

-----------------------------------------------------------------------------

OpenStep(t) ==
  \/ ConnectLock(t) \/ ConnectState(t) \/ EioLock(t) \/ DialError(t) \/ Dial(t)
  \/ SetConnected(t) \/ SetEio(t) \/ Subscribe(t) \/ NewQueue(t)
  \/ OpenCleanup(t) \/ MaybeReconnectOnOpen(t)

ReconnectStep(t) ==
  \/ ReconnectLock(t) \/ ReconnectState(t) \/ ReconnectAttempts(t) \/ ReconnectSkip(t)
  \/ ReconnectError(t) \/ OnReconnect(t)

CloseStep(t) ==
  \/ OnCloseCleanup(t) \/ OnCloseReset(t) \/ OnCloseState(t) \/ OnCloseEvent(t)
  \/ OnCloseSkip(t) \/ CloseState(t) \/ CloseSkip(t) \/ CloseEio(t)

SocketStep(t) ==
  \/ ConnectManager(t) \/ OpenFunc(t) \/ CloseFunc(t) \/ SendConnect(t) \/ EioOnPacket(t)
  \/ OnConnect(t) \/ SendDisconnect(t) \/ Deregister(t) \/ Destroy(t) \/ Disconnected(t)

Goroutine == \E t \in DOMAIN tasks :
  OpenStep(t) \/ ReconnectStep(t) \/ CloseStep(t) \/ SocketStep(t)

Network == \E i \in Conns : Break(i) \/ EioOnClose(i) \/ ServerDisconnect(i)

Next == Goroutine \/ Network \/ Connect \/ Disconnect

Spec == Init /\ [][Next]_vars

\* The scheduler runs some goroutine that can run, a closing connection gets
\* to its callback.  Nothing makes a connection break or the user call.
FairSpec ==
  /\ Spec
  /\ WF_vars(Goroutine)
  /\ WF_vars(\E i \in Conns : EioOnClose(i))

-----------------------------------------------------------------------------
(* Properties.                                                             *)

\* The connection whose callbacks Manager.cleanup can silence is the one that
\* Manager.eio and the packet queue belong to, except inside connect: no
\* close, in whatever order it runs, leaves the callbacks of an older
\* connection behind.
SubscribedIsCurrent == ~eioMu => subs \subseteq {meio} /\ queue = meio

\* Of the connections that are up and whose callbacks reach the manager at
\* most one is not the manager's own: the one that connect is setting up.
OneListener ==
  \A i, j \in {k \in active : eio[k] = "up"} :
    i # j => eioMu /\ dials \in {i, j} /\ \E t \in DOMAIN tasks : t.pc \in {"setState", "setEio"}

\* The goroutines of connect, reconnect, Close and the events never block
\* each other for good: after the last call and fault all of them end.
GoroutinesEnd == <>[](tasks = NoTasks)

\* Without faults and without a Disconnect the socket gets connected and
\* stays so, also when Connect is called again while the manager is opening.
WantedConnects ==
  [](faults = 0 /\ (ops > 0 => sockActive)) /\ <>(ops > 0) => <>[](sock = "connected")
=============================================================================
