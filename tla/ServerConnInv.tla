--------------------------- MODULE ServerConnInv ----------------------------
(***************************************************************************)
(* The inductive invariant of ServerConn.                                  *)
(*                                                                         *)
(* The properties hold together, not one by one: the stores agree because  *)
(* a socket that is stored keeps its namespace, which is because it is     *)
(* past its connection; that a once is wasted by Server.Close only rests   *)
(* on every other caller of onClose having got its socket from the stores. *)
(***************************************************************************)
EXTENDS ServerConn

\* A packet that has no socket in the namespace yet, and one whose socket is not
\* connected yet.
Early == {"idle", "lookup", "add", "middleware", "nspSet"}
Before == Early \cup {"onConnect", "locked"}

\* A goroutine in a loop that closes sockets.
InLoop == {"single", "disconnectAll", "shutdown", "connOnClose"}

\* onClose has got past its check of connected, and not to its end.
Bodies == {"waiting", "left", "nspRemoved", "removing", "unlisting", "removed"}

WasConnected(s) == connected[s] \/ onclose[s] = "done"

Types ==
  /\ pc \in [Goroutines -> PCs]
  /\ kind \in [Pkts -> Kinds] /\ nsp \in [Pkts -> Nsps]
  /\ cur \in [Goroutines -> Pkts \cup {NoSocket}]
  /\ todo \in [Goroutines -> SUBSET Pkts]
  /\ byID \in SUBSET Pkts /\ byNsp \in [Nsps -> Pkts \cup {NoSocket}]
  /\ nspSockets \in SUBSET Pkts
  /\ rooms \in [Pkts -> SUBSET RoomNames]
  /\ connected \in [Pkts -> BOOLEAN]
  /\ onclose \in [Pkts -> CloseStages]

\* The order of connecting and closing a socket.
Lives ==
  \A s \in Pkts :
    /\ pc[s] \in Before => ~connected[s] /\ onclose[s] \in {"no", "entered", "skipped"}
    /\ pc[s] \in Early => onclose[s] = "no"
    /\ pc[s] \in Before \ {"idle", "lookup"} => kind[s] = "CONNECT"
    /\ pc[s] = "socketsSet" => kind[s] = "CONNECT" /\ WasConnected(s)
    /\ onclose[s] \in Bodies => connected[s]
    /\ onclose[s] = "entered" => connected[s] \/ pc[Shutdown] # "idle"

\* The sockets in the stores have been connected.
Stored ==
  \A s \in byID : pc[s] \in {"nspsSet", "done"} /\ kind[s] = "CONNECT" /\ WasConnected(s)

\* The loops that close sockets have theirs from the stores, Server.Close from
\* the namespace.
Loops ==
  \A g \in Goroutines :
    /\ todo[g] # {} => pc[g] \in InLoop
    /\ \A s \in todo[g] : pc[s] \notin Early /\ (g # Shutdown => WasConnected(s))

\* Where a connected socket is, and how the entry of its namespace is lost.
Whereabouts ==
  \A s \in Pkts :
    /\ connected[s] /\ onclose[s] = "no" =>
         \/ s \in byID \/ pc[s] = "socketsSet" \/ pc[Eio] # "open"
         \/ \E g \in Goroutines : s \in todo[g]
    /\ s \in byID /\ byNsp[nsp[s]] = NoSocket =>
         \E t \in Pkts \ {s} : kind[t] = "CONNECT" /\ nsp[t] = nsp[s] /\ onclose[t] # "no"

Inv ==
  /\ Types /\ Lives /\ Stored /\ Loops /\ Whereabouts
  /\ StoreIndex /\ NamespaceListsConnected /\ OwnRoomLeft /\ SkipOnlyOnShutdown
=============================================================================
