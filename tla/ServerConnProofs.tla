-------------------------- MODULE ServerConnProofs --------------------------
(***************************************************************************)
(* The safety properties of ServerConn for any number of packets, users    *)
(* and namespaces: they follow from the invariant of ServerConnInv.  Every *)
(* step keeps it: those of a packet, from the client to its socket, of an  *)
(* application that joins a room, of a socket's onClose, and of the loops  *)
(* that close sockets and whoever starts one.  The types of the rest are   *)
(* proved beside it.                                                       *)
(***************************************************************************)
EXTENDS ServerConnInv, TLAPS

\* Zenon checks the steps that name no prover; those with arithmetic, records and
\* functions to be computed name SMT.
USE ZenonT(60)

\* The goroutines are different ones, and no socket is "none".
LEMMA Disjoint ==
  /\ \A p \in Pkts : p \in Goroutines /\ p \notin {NoSocket, Shutdown, Timer, Eio}
  /\ \A u \in Users : u \in Goroutines /\ u \notin Pkts /\ u \notin {Shutdown, Timer, Eio}
  /\ Shutdown \in Goroutines /\ Timer \in Goroutines /\ Eio \in Goroutines
  BY ConnAssumption DEF Goroutines

\* The loops are those that know what comes after them.
LEMMA LoopNames == InLoop = DOMAIN AfterLoop
  BY DEF InLoop, AfterLoop

\* A conjunct of Inv is kept if what it speaks of is left alone.
LEMMA LeftAlone ==
  /\ Lives /\ UNCHANGED <<pc, connected, onclose, kind>> => Lives'
  /\ Stored /\ UNCHANGED <<byID, pc, kind, connected, onclose>> => Stored'
  /\ Loops /\ UNCHANGED <<todo, pc, connected, onclose>> => Loops'
  /\ Whereabouts /\ UNCHANGED <<connected, onclose, byID, pc, todo, byNsp, nsp, kind>>
       => Whereabouts'
  /\ StoreIndex /\ UNCHANGED <<byNsp, byID, nsp>> => StoreIndex'
  /\ NamespaceListsConnected /\ UNCHANGED <<nspSockets, pc, connected, onclose>>
       => NamespaceListsConnected'
  /\ OwnRoomLeft /\ UNCHANGED <<onclose, rooms>> => OwnRoomLeft'
  /\ SkipOnlyOnShutdown /\ UNCHANGED <<onclose, pc>> => SkipOnlyOnShutdown'
  <1>1. Lives /\ UNCHANGED <<pc, connected, onclose, kind>> => Lives'
    BY Zenon DEF Lives, WasConnected
  <1>2. Stored /\ UNCHANGED <<byID, pc, kind, connected, onclose>> => Stored'
    BY Zenon DEF Stored, WasConnected
  <1>3. Loops /\ UNCHANGED <<todo, pc, connected, onclose>> => Loops'
    BY Zenon DEF Loops, WasConnected
  <1>4. Whereabouts /\ UNCHANGED <<connected, onclose, byID, pc, todo, byNsp, nsp, kind>>
       => Whereabouts'
    BY SMT DEF Whereabouts
  <1>5. StoreIndex /\ UNCHANGED <<byNsp, byID, nsp>> => StoreIndex'
    BY Zenon DEF StoreIndex
  <1>6. NamespaceListsConnected /\ UNCHANGED <<nspSockets, pc, connected, onclose>>
       => NamespaceListsConnected'
    BY Zenon DEF NamespaceListsConnected
  <1>7. OwnRoomLeft /\ UNCHANGED <<onclose, rooms>> => OwnRoomLeft'
    BY Zenon DEF OwnRoomLeft
  <1>8. SkipOnlyOnShutdown /\ UNCHANGED <<onclose, pc>> => SkipOnlyOnShutdown'
    BY Zenon DEF SkipOnlyOnShutdown
  <1> QED BY <1>1, <1>2, <1>3, <1>4, <1>5, <1>6, <1>7, <1>8

\* A goroutine goes from its place to l without a socket being connected or stored.
GoesTo(g, l) ==
  /\ g \in Goroutines /\ Goto(g, l)
  /\ l \in PCs \ {"idle", "lookup", "onConnect", "locked", "socketsSet", "nspsSet", "open"}
  /\ pc[g] \notin {"onConnect", "locked", "socketsSet", "done"}
  /\ pc[g] = "nspsSet" => l = "done"
  /\ l \in Early => pc[g] \in Early /\ kind[g] = "CONNECT"
  /\ todo[g] = {}
  /\ cur' \in [Goroutines -> Pkts \cup {NoSocket}]
  /\ UNCHANGED <<kind, nsp, todo, byID, byNsp, nspSockets, rooms, connected, onclose>>

\* Such a step keeps the invariant.
LEMMA GoesToKeeps ==
  ASSUME Inv, NEW g, NEW l, GoesTo(g, l)
  PROVE  Inv'
  <1>1. Types'
    BY Disjoint DEF Inv, GoesTo, Goto, Types
  <1>2. Lives'
    BY SMT, Disjoint DEF Inv, GoesTo, Goto, Types, Lives, WasConnected, Before, Early, Bodies
  <1>3. Stored'
    BY SMT, Disjoint DEF Inv, GoesTo, Goto, Types, Stored, WasConnected
  <1>4. Loops'
    BY SMT, Disjoint DEF Inv, GoesTo, Goto, Types, Loops, WasConnected, Early, InLoop
  <1>5. Whereabouts'
    BY SMT, Disjoint DEF Inv, GoesTo, Goto, Types, Whereabouts
  <1>6. NamespaceListsConnected'
    BY SMT, Disjoint DEF Inv, GoesTo, Goto, Types, NamespaceListsConnected
  <1>7. SkipOnlyOnShutdown'
    BY SMT, Disjoint DEF Inv, GoesTo, Goto, Types, SkipOnlyOnShutdown
  <1>8. (StoreIndex /\ OwnRoomLeft)'
    BY LeftAlone DEF Inv, GoesTo
  <1> QED BY <1>1, <1>2, <1>3, <1>4, <1>5, <1>6, <1>7, <1>8 DEF Inv

\* A packet for a socket is handled.
LEMMA OnEventKeeps ==
  ASSUME Inv, NEW p \in Pkts, OnEvent(p)
  PROVE  Inv'
  <1>1. pc[p] \in {"event"} /\ todo[p] = {}
    BY Disjoint DEF Inv, OnEvent, Loops, InLoop
  <1>2. PICK l \in {"handled", "done"} : Goto(p, l)
    BY DEF OnEvent
  <1>3. /\ UNCHANGED <<kind, nsp, todo, byID, byNsp, nspSockets, rooms, connected, onclose>>
        /\ cur' \in [Goroutines -> Pkts \cup {NoSocket}]
    BY DEF Inv, OnEvent, storeVars, sockVars, Types
  <1>4. GoesTo(p, l)
    BY Disjoint, <1>1, <1>2, <1>3 DEF GoesTo, PCs, Early
  <1> QED BY <1>4, GoesToKeeps

\* A CONNECT is refused, by the namespace or by a middleware.
LEMMA ConnectRefusedKeeps ==
  ASSUME Inv, NEW p \in Pkts, ConnectRefused(p) \/ MiddlewareFail(p)
  PROVE  Inv'
  <1>1. pc[p] \in {"add", "middleware"} /\ todo[p] = {}
    BY Disjoint DEF Inv, ConnectRefused, MiddlewareFail, ConnectError, Loops, InLoop
  <1>2. Goto(p, "done")
    BY Zenon DEF ConnectRefused, MiddlewareFail, ConnectError
  <1>3. /\ UNCHANGED <<kind, nsp, todo, byID, byNsp, nspSockets, rooms, connected, onclose>>
        /\ cur' \in [Goroutines -> Pkts \cup {NoSocket}]
    BY DEF Inv, ConnectRefused, MiddlewareFail, ConnectError, storeVars, sockVars, Types
  <1>4. GoesTo(p, "done")
    BY Disjoint, <1>1, <1>2, <1>3 DEF GoesTo, PCs, Early
  <1> QED BY <1>4, GoesToKeeps

\* A packet that cannot be for this connection closes it.
LEMMA ConnectFatalKeeps ==
  ASSUME Inv, NEW p \in Pkts, ConnectFatal(p)
  PROVE  Inv'
  <1>1. pc[p] \in {"add"} /\ todo[p] = {}
    BY Disjoint DEF Inv, ConnectFatal, Loops, InLoop
  <1>2. Goto(p, "eioClose")
    BY Zenon DEF ConnectFatal
  <1>3. /\ UNCHANGED <<kind, nsp, todo, byID, byNsp, nspSockets, rooms, connected, onclose>>
        /\ cur' \in [Goroutines -> Pkts \cup {NoSocket}]
    BY DEF Inv, ConnectFatal, storeVars, sockVars, Types
  <1>4. GoesTo(p, "eioClose")
    BY Disjoint, <1>1, <1>2, <1>3 DEF GoesTo, PCs, Early
  <1> QED BY <1>4, GoesToKeeps

\* namespace.add makes the socket.
LEMMA NewSocketKeeps ==
  ASSUME Inv, NEW p \in Pkts, NewSocket(p)
  PROVE  Inv'
  <1>1. pc[p] \in {"add"} /\ todo[p] = {}
    BY Disjoint DEF Inv, NewSocket, Loops, InLoop
  <1>2. Goto(p, "middleware")
    BY Zenon DEF NewSocket
  <1>3. /\ UNCHANGED <<kind, nsp, todo, byID, byNsp, nspSockets, rooms, connected, onclose>>
        /\ cur' \in [Goroutines -> Pkts \cup {NoSocket}]
    BY DEF Inv, NewSocket, storeVars, sockVars, Types
  <1>4. kind[p] = "CONNECT"
    BY <1>1 DEF Inv, Lives, Before, Early
  <1>5. GoesTo(p, "middleware")
    BY Disjoint, <1>1, <1>2, <1>3, <1>4 DEF GoesTo, PCs, Early
  <1> QED BY <1>5, GoesToKeeps

\* The middlewares let the socket in.
LEMMA MiddlewareOkKeeps ==
  ASSUME Inv, NEW p \in Pkts, MiddlewareOk(p)
  PROVE  Inv'
  <1>1. pc[p] \in {"middleware"} /\ todo[p] = {}
    BY Disjoint DEF Inv, MiddlewareOk, Loops, InLoop
  <1>2. Goto(p, "nspSet")
    BY Zenon DEF MiddlewareOk
  <1>3. /\ UNCHANGED <<kind, nsp, todo, byID, byNsp, nspSockets, rooms, connected, onclose>>
        /\ cur' \in [Goroutines -> Pkts \cup {NoSocket}]
    BY DEF Inv, MiddlewareOk, storeVars, sockVars, Types
  <1>4. kind[p] = "CONNECT"
    BY <1>1 DEF Inv, Lives, Before, Early
  <1>5. GoesTo(p, "nspSet")
    BY Disjoint, <1>1, <1>2, <1>3, <1>4 DEF GoesTo, PCs, Early
  <1> QED BY <1>5, GoesToKeeps

\* The connection lists the namespace.
LEMMA ConnNspsSetKeeps ==
  ASSUME Inv, NEW p \in Pkts, ConnNspsSet(p)
  PROVE  Inv'
  <1>1. pc[p] \in {"nspsSet"} /\ todo[p] = {}
    BY Disjoint DEF Inv, ConnNspsSet, Loops, InLoop
  <1>2. Goto(p, "done")
    BY Zenon DEF ConnNspsSet
  <1>3. /\ UNCHANGED <<kind, nsp, todo, byID, byNsp, nspSockets, rooms, connected, onclose>>
        /\ cur' \in [Goroutines -> Pkts \cup {NoSocket}]
    BY DEF Inv, ConnNspsSet, storeVars, sockVars, Types
  <1>4. GoesTo(p, "done")
    BY Disjoint, <1>1, <1>2, <1>3 DEF GoesTo, PCs, Early
  <1> QED BY <1>4, GoesToKeeps

\* A loop has closed all of its sockets.
LEMMA LoopEndsKeeps ==
  ASSUME Inv, NEW g \in Goroutines, LoopEnds(g)
  PROVE  Inv'
  <1>1. pc[g] \in InLoop /\ todo[g] = {}
    BY LoopNames DEF Inv, LoopEnds, Loops, InLoop
  <1>2. PICK l \in {"done", "close", "eioClose", "closed"} : Goto(g, l)
    BY SMT, <1>1 DEF LoopEnds, AfterLoop, InLoop
  <1>3. /\ UNCHANGED <<kind, nsp, todo, byID, byNsp, nspSockets, rooms, connected, onclose>>
        /\ cur' \in [Goroutines -> Pkts \cup {NoSocket}]
    BY DEF Inv, LoopEnds, storeVars, sockVars, Types
  <1>4. GoesTo(g, l)
    BY Disjoint, <1>1, <1>2, <1>3 DEF GoesTo, PCs, Early, InLoop
  <1> QED BY <1>4, GoesToKeeps

\* The engine socket begins to close.
LEMMA EioCloseKeeps ==
  ASSUME Inv, NEW g \in Goroutines, EioClose(g)
  PROVE  Inv'
  <1>1. pc[Eio] \in {"open"} /\ todo[Eio] = {}
    BY Disjoint DEF Inv, EioClose, Loops, InLoop
  <1>2. Goto(Eio, "closing")
    BY Zenon DEF EioClose
  <1>3. /\ UNCHANGED <<kind, nsp, todo, byID, byNsp, nspSockets, rooms, connected, onclose>>
        /\ cur' \in [Goroutines -> Pkts \cup {NoSocket}]
    BY DEF Inv, EioClose, storeVars, sockVars, Types
  <1>4. GoesTo(Eio, "closing")
    BY Disjoint, <1>1, <1>2, <1>3 DEF GoesTo, PCs, Early
  <1> QED BY <1>4, GoesToKeeps

\* Its Close returns.
LEMMA EioCloseReturnKeeps ==
  ASSUME Inv, NEW g \in Goroutines, EioCloseReturn(g)
  PROVE  Inv'
  <1>1. pc[g] \in {"close", "eioClose"} /\ todo[g] = {}
    BY Disjoint DEF Inv, EioCloseReturn, Loops, InLoop
  <1>2. Goto(g, "done")
    BY Zenon DEF EioCloseReturn
  <1>3. /\ UNCHANGED <<kind, nsp, todo, byID, byNsp, nspSockets, rooms, connected, onclose>>
        /\ cur' \in [Goroutines -> Pkts \cup {NoSocket}]
    BY DEF Inv, EioCloseReturn, storeVars, sockVars, Types
  <1>4. GoesTo(g, "done")
    BY Disjoint, <1>1, <1>2, <1>3 DEF GoesTo, PCs, Early
  <1> QED BY <1>4, GoesToKeeps

\* The transport fails.
LEMMA TransportCloseKeeps ==
  ASSUME Inv, TransportClose
  PROVE  Inv'
  <1>1. pc[Eio] \in {"open"} /\ todo[Eio] = {}
    BY Disjoint DEF Inv, TransportClose, Loops, InLoop
  <1>2. Goto(Eio, "closing")
    BY Zenon DEF TransportClose
  <1>3. /\ UNCHANGED <<kind, nsp, todo, byID, byNsp, nspSockets, rooms, connected, onclose>>
        /\ cur' \in [Goroutines -> Pkts \cup {NoSocket}]
    BY DEF Inv, TransportClose, storeVars, sockVars, Types
  <1>4. GoesTo(Eio, "closing")
    BY Disjoint, <1>1, <1>2, <1>3 DEF GoesTo, PCs, Early
  <1> QED BY <1>4, GoesToKeeps

\* The connect timer closes the connection, or finds a socket.
LEMMA ConnectTimeoutKeeps ==
  ASSUME Inv, ConnectTimeout
  PROVE  Inv'
  <1>1. pc[Timer] \in {"idle"} /\ todo[Timer] = {}
    BY Disjoint DEF Inv, ConnectTimeout, Loops, InLoop
  <1>2. PICK l \in {"close", "done"} : Goto(Timer, l)
    BY DEF ConnectTimeout
  <1>3. /\ UNCHANGED <<kind, nsp, todo, byID, byNsp, nspSockets, rooms, connected, onclose>>
        /\ cur' \in [Goroutines -> Pkts \cup {NoSocket}]
    BY DEF Inv, ConnectTimeout, storeVars, sockVars, Types
  <1>4. GoesTo(Timer, l)
    BY Disjoint, <1>1, <1>2, <1>3 DEF GoesTo, PCs, Early
  <1> QED BY <1>4, GoesToKeeps

\* An application goroutine is about to join a room.
LEMMA JoinKeeps ==
  ASSUME Inv, NEW u \in Users, NEW s \in Pkts, Join(u, s)
  PROVE  Inv'
  <1>1. pc[u] \in {"idle"} /\ todo[u] = {}
    BY Disjoint DEF Inv, Join, Loops, InLoop
  <1>2. Goto(u, "joining")
    BY Zenon DEF Join
  <1>3. /\ UNCHANGED <<kind, nsp, todo, byID, byNsp, nspSockets, rooms, connected, onclose>>
        /\ cur' \in [Goroutines -> Pkts \cup {NoSocket}]
    BY Zenon DEF Inv, Join, storeVars, sockVars, Types
  <1>4. GoesTo(u, "joining")
    BY Disjoint, <1>1, <1>2, <1>3 DEF GoesTo, PCs, Early
  <1> QED BY <1>4, GoesToKeeps


-----------------------------------------------------------------------------
(* A packet, and a join.                                                   *)

\* A packet begins; its socket is in no store.
LEMMA ClientSendKeeps ==
  ASSUME Inv, NEW p \in Pkts, NEW k \in Kinds, NEW n \in Nsps, ClientSend(p, k, n)
  PROVE  Inv'
  <1>1. Types'
    BY Disjoint DEF Inv, ClientSend, Goto, storeVars, sockVars, Types, PCs
  <1>2. Lives'
    BY SMT, Disjoint DEF Inv, ClientSend, Goto, storeVars, sockVars, Types, Lives,
       WasConnected, Before, Early, Bodies
  <1>3. Stored'
    BY Disjoint DEF Inv, ClientSend, Goto, storeVars, sockVars, Types, Stored,
       WasConnected
  <1>4. Loops'
    BY SMT, Disjoint DEF Inv, ClientSend, Goto, storeVars, sockVars, Types, Loops,
       WasConnected, Early, InLoop
  <1>5. Whereabouts'
    BY SMT, Disjoint DEF Inv, ClientSend, Goto, storeVars, sockVars, Types, Whereabouts,
       Stored, Lives, Before, Early
  <1>6. StoreIndex'
    BY SMT, Disjoint DEF Inv, ClientSend, Goto, storeVars, sockVars, Types, StoreIndex, Stored
  <1>7. NamespaceListsConnected'
    BY Disjoint DEF Inv, ClientSend, Goto, storeVars, sockVars, Types,
       NamespaceListsConnected
  <1>8. SkipOnlyOnShutdown'
    BY Disjoint DEF Inv, ClientSend, Goto, storeVars, sockVars, Types, SkipOnlyOnShutdown
  <1>9. OwnRoomLeft'
    BY LeftAlone DEF Inv, ClientSend, storeVars, sockVars
  <1> QED BY <1>1, <1>2, <1>3, <1>4, <1>5, <1>6, <1>7, <1>8, <1>9 DEF Inv

\* The packet of a DISCONNECT closes the socket of its namespace; any other goes on.
LEMMA PacketLookupKeeps ==
  ASSUME Inv, NEW p \in Pkts, PacketLookup(p)
  PROVE  Inv'
  <1> DEFINE s == byNsp[nsp[p]]
  <1>0. /\ pc[p] = "lookup" /\ todo[p] = {}
        /\ UNCHANGED <<kind, nsp, byID, byNsp, nspSockets, rooms, connected, onclose>>
    BY Disjoint DEF Inv, PacketLookup, storeVars, sockVars, Loops, InLoop
  <1>1. CASE kind[p] = "DISCONNECT" /\ s # NoSocket
    <2>1. s \in Pkts /\ s \in byID
      BY <1>1 DEF Inv, Types, StoreIndex
    <2>2. pc[s] \notin Early /\ WasConnected(s)
      BY <2>1 DEF Inv, Stored, Early
    <2>3. /\ pc' = [pc EXCEPT ![p] = "single"] /\ cur' = [cur EXCEPT ![p] = NoSocket]
          /\ todo' = [todo EXCEPT ![p] = {s}]
      BY <1>1 DEF PacketLookup, Goto
    <2> HIDE DEF s
    <2>4. Types'
      BY SMT, Disjoint, <1>0, <2>1, <2>3 DEF Inv, Types, PCs, AfterLoop
    <2>5. Lives'
      BY SMT, Disjoint, <1>0, <2>3 DEF Inv, Types, Lives, WasConnected, Before, Early, Bodies
    <2>6. Stored'
      BY Disjoint, <1>0, <2>3 DEF Inv, Types, Stored, WasConnected
    <2>7. Loops'
      <3>1. \A x \in Goroutines : todo'[x] = IF x = p THEN {s} ELSE todo[x]
        BY <2>3 DEF Inv, Types
      <3>2. \A x \in Goroutines : pc'[x] = IF x = p THEN "single" ELSE pc[x]
        BY <2>3 DEF Inv, Types
      <3>3. s \in Goroutines
        BY <2>1, Disjoint
      <3> QED BY SMT, Disjoint, <1>0, <2>1, <2>2, <3>1, <3>2, <3>3
              DEF Inv, Types, Loops, WasConnected, Early, InLoop
    <2>8. Whereabouts'
      BY SMT, Disjoint, <1>0, <2>3 DEF Inv, Types, Whereabouts
    <2>9. (StoreIndex /\ OwnRoomLeft)'
      BY <1>0, LeftAlone DEF Inv
    <2>10. NamespaceListsConnected' /\ SkipOnlyOnShutdown'
      BY SMT, Disjoint, <1>0, <2>3 DEF Inv, Types, NamespaceListsConnected, SkipOnlyOnShutdown
    <2> QED BY <2>4, <2>5, <2>6, <2>7, <2>8, <2>9, <2>10 DEF Inv
  <1>2. CASE ~(kind[p] = "DISCONNECT" /\ s # NoSocket)
    <2>1. PICK l \in {"add", "event", "close"} :
            Goto(p, l) /\ (l = "add" => kind[p] = "CONNECT")
      BY <1>2 DEF PacketLookup
    <2>2. todo' = todo
      BY <1>0, <1>2 DEF Inv, Types, PacketLookup
    <2>3. cur' \in [Goroutines -> Pkts \cup {NoSocket}]
      BY DEF Inv, Types, PacketLookup
    <2>4. GoesTo(p, l)
      BY Disjoint, <1>0, <2>1, <2>2, <2>3 DEF GoesTo, PCs, Early
    <2> QED BY <2>4, GoesToKeeps
  <1> QED BY <1>1, <1>2

\* A middleware joins rooms: the socket is not closed by then.
LEMMA MiddlewareJoinKeeps ==
  ASSUME Inv, NEW p \in Pkts, MiddlewareJoin(p)
  PROVE  Inv'
  <1>1. Types'
    BY Disjoint DEF Inv, MiddlewareJoin, storeVars, Types, RoomNames, Own
  <1>2. OwnRoomLeft'
    BY Disjoint DEF Inv, MiddlewareJoin, storeVars, Types, OwnRoomLeft, Own
  <1>3. (Lives /\ Stored /\ Loops /\ Whereabouts
         /\ StoreIndex /\ NamespaceListsConnected /\ SkipOnlyOnShutdown)'
    BY LeftAlone DEF Inv, MiddlewareJoin, storeVars
  <1> QED BY <1>1, <1>2, <1>3 DEF Inv

\* The namespace lists the socket.
LEMMA NspSocketsSetKeeps ==
  ASSUME Inv, NEW p \in Pkts, NspSocketsSet(p)
  PROVE  Inv'
  <1>1. Types'
    BY Disjoint DEF Inv, NspSocketsSet, Goto, storeVars, Types, PCs
  <1>2. Lives'
    BY SMT, Disjoint DEF Inv, NspSocketsSet, Goto, storeVars, Types, Lives, WasConnected,
       Before, Early, Bodies
  <1>3. Stored'
    BY Disjoint DEF Inv, NspSocketsSet, Goto, storeVars, Types, Stored, WasConnected
  <1>4. Loops'
    BY SMT, Disjoint DEF Inv, NspSocketsSet, Goto, storeVars, Types, Loops, WasConnected,
       Early, InLoop
  <1>5. Whereabouts'
    BY SMT, Disjoint DEF Inv, NspSocketsSet, Goto, storeVars, Types, Whereabouts
  <1>6. NamespaceListsConnected'
    BY Disjoint DEF Inv, NspSocketsSet, Goto, storeVars, Types, NamespaceListsConnected
  <1>7. SkipOnlyOnShutdown'
    BY Disjoint DEF Inv, NspSocketsSet, Goto, storeVars, Types, SkipOnlyOnShutdown
  <1>8. (StoreIndex /\ OwnRoomLeft)'
    BY LeftAlone DEF Inv, NspSocketsSet, storeVars
  <1> QED BY <1>1, <1>2, <1>3, <1>4, <1>5, <1>6, <1>7, <1>8 DEF Inv

\* The socket joins its own room.
LEMMA OnConnectSendKeeps ==
  ASSUME Inv, NEW p \in Pkts, OnConnectSend(p)
  PROVE  Inv'
  <1>1. Types'
    BY Disjoint DEF Inv, OnConnectSend, Goto, storeVars, Types, PCs, RoomNames, Own
  <1>2. Lives'
    BY SMT, Disjoint DEF Inv, OnConnectSend, Goto, storeVars, Types, Lives, WasConnected,
       Before, Early, Bodies
  <1>3. Stored'
    BY Disjoint DEF Inv, OnConnectSend, Goto, storeVars, Types, Stored, WasConnected
  <1>4. Loops'
    BY SMT, Disjoint DEF Inv, OnConnectSend, Goto, storeVars, Types, Loops, WasConnected,
       Early, InLoop
  <1>5. Whereabouts'
    BY SMT, Disjoint DEF Inv, OnConnectSend, Goto, storeVars, Types, Whereabouts
  <1>6. NamespaceListsConnected'
    BY Disjoint DEF Inv, OnConnectSend, Goto, storeVars, Types, NamespaceListsConnected
  <1>7. OwnRoomLeft'
    BY SMT, Disjoint DEF Inv, OnConnectSend, Goto, storeVars, Types, OwnRoomLeft, Own, Lives,
       Before, Early
  <1>8. SkipOnlyOnShutdown'
    BY Disjoint DEF Inv, OnConnectSend, Goto, storeVars, Types, SkipOnlyOnShutdown
  <1>9. StoreIndex'
    BY LeftAlone DEF Inv, OnConnectSend, storeVars
  <1> QED BY <1>1, <1>2, <1>3, <1>4, <1>5, <1>6, <1>7, <1>8, <1>9 DEF Inv

\* The socket is connected.
LEMMA OnConnectDoneKeeps ==
  ASSUME Inv, NEW p \in Pkts, OnConnectDone(p)
  PROVE  Inv'
  <1>1. Types'
    BY Disjoint DEF Inv, OnConnectDone, Goto, storeVars, Types, PCs
  <1>2. Lives'
    BY SMT, Disjoint DEF Inv, OnConnectDone, Goto, storeVars, Types, Lives, WasConnected,
       Before, Early, Bodies
  <1>3. Stored'
    BY Disjoint DEF Inv, OnConnectDone, Goto, storeVars, Types, Stored, WasConnected
  <1>4. Loops'
    BY SMT, Disjoint DEF Inv, OnConnectDone, Goto, storeVars, Types, Loops, WasConnected,
       Early, InLoop
  <1>5. Whereabouts'
    BY SMT, Disjoint DEF Inv, OnConnectDone, Goto, storeVars, Types, Whereabouts
  <1>6. NamespaceListsConnected'
    BY Disjoint DEF Inv, OnConnectDone, Goto, storeVars, Types, NamespaceListsConnected,
       Lives, Before, Early
  <1>7. SkipOnlyOnShutdown'
    BY Disjoint DEF Inv, OnConnectDone, Goto, storeVars, Types, SkipOnlyOnShutdown
  <1>8. (StoreIndex /\ OwnRoomLeft)'
    BY LeftAlone DEF Inv, OnConnectDone, storeVars
  <1> QED BY <1>1, <1>2, <1>3, <1>4, <1>5, <1>6, <1>7, <1>8 DEF Inv

\* The stores of the connection get the socket, which has been connected.
LEMMA ConnSocketsSetKeeps ==
  ASSUME Inv, NEW p \in Pkts, ConnSocketsSet(p)
  PROVE  Inv'
  <1>1. Types'
    BY Disjoint DEF Inv, ConnSocketsSet, Goto, sockVars, Types, PCs
  <1>2. Lives'
    BY SMT, Disjoint DEF Inv, ConnSocketsSet, Goto, sockVars, Types, Lives, WasConnected,
       Before, Early, Bodies
  <1>3. Stored'
    BY SMT, Disjoint DEF Inv, ConnSocketsSet, Goto, sockVars, Types, Stored, WasConnected,
       Lives
  <1>4. Loops'
    BY SMT, Disjoint DEF Inv, ConnSocketsSet, Goto, sockVars, Types, Loops, WasConnected,
       Early, InLoop
  <1>5. Whereabouts'
    BY SMT, Disjoint DEF Inv, ConnSocketsSet, Goto, sockVars, Types, Whereabouts
  <1>6. StoreIndex'
    BY SMT, Disjoint DEF Inv, ConnSocketsSet, Goto, sockVars, Types, StoreIndex
  <1>7. NamespaceListsConnected'
    BY Disjoint DEF Inv, ConnSocketsSet, Goto, sockVars, Types, NamespaceListsConnected
  <1>8. SkipOnlyOnShutdown'
    BY Disjoint DEF Inv, ConnSocketsSet, Goto, sockVars, Types, SkipOnlyOnShutdown
  <1>9. OwnRoomLeft'
    BY LeftAlone DEF Inv, ConnSocketsSet, sockVars
  <1> QED BY <1>1, <1>2, <1>3, <1>4, <1>5, <1>6, <1>7, <1>8, <1>9 DEF Inv

\* It joins, unless the socket has dropped its joins: a closed socket is not disturbed.
LEMMA JoinAddAllKeeps ==
  ASSUME Inv, NEW u \in Users, JoinAddAll(u)
  PROVE  Inv'
  <1>1. Types'
    BY Disjoint DEF Inv, JoinAddAll, Goto, storeVars, Types, PCs, RoomNames, Own
  <1>2. Lives'
    BY SMT, Disjoint DEF Inv, JoinAddAll, Goto, storeVars, Types, Lives, WasConnected,
       Before, Early, Bodies
  <1>3. Stored'
    BY Disjoint DEF Inv, JoinAddAll, Goto, storeVars, Types, Stored, WasConnected
  <1>4. Loops'
    BY SMT, Disjoint DEF Inv, JoinAddAll, Goto, storeVars, Types, Loops, WasConnected, Early,
       InLoop
  <1>5. Whereabouts'
    BY SMT, Disjoint DEF Inv, JoinAddAll, Goto, storeVars, Types, Whereabouts
  <1>6. NamespaceListsConnected'
    BY Disjoint DEF Inv, JoinAddAll, Goto, storeVars, Types, NamespaceListsConnected
  <1>7. OwnRoomLeft'
    BY Disjoint DEF Inv, JoinAddAll, Goto, storeVars, Types, OwnRoomLeft, Own
  <1>8. SkipOnlyOnShutdown'
    BY Disjoint DEF Inv, JoinAddAll, Goto, storeVars, Types, SkipOnlyOnShutdown
  <1>9. StoreIndex'
    BY LeftAlone DEF Inv, JoinAddAll, storeVars
  <1> QED BY <1>1, <1>2, <1>3, <1>4, <1>5, <1>6, <1>7, <1>8, <1>9 DEF Inv

-----------------------------------------------------------------------------
(* A socket's onClose.                                                     *)

\* onClose finds connected false: the caller is Server.Close.
LEMMA OnCloseSkipKeeps ==
  ASSUME Inv, NEW s \in Pkts, OnCloseSkip(s)
  PROVE  Inv'
  <1>1. Types'
    BY Disjoint DEF Inv, OnCloseSkip, ReadsConnected, OnCloseStep, storeVars, Types,
       CloseStages
  <1>2. Lives'
    BY SMT, Disjoint DEF Inv, OnCloseSkip, ReadsConnected, OnCloseStep, storeVars, Types,
       Lives, WasConnected, Before, Early, Bodies
  <1>3. Stored'
    BY Disjoint DEF Inv, OnCloseSkip, ReadsConnected, OnCloseStep, storeVars, Types,
       Stored, WasConnected
  <1>4. Loops'
    BY SMT, Disjoint DEF Inv, OnCloseSkip, ReadsConnected, OnCloseStep, storeVars, Types,
       Loops, WasConnected, Early, InLoop
  <1>5. Whereabouts'
    BY SMT, Disjoint DEF Inv, OnCloseSkip, ReadsConnected, OnCloseStep, storeVars, Types,
       Whereabouts
  <1>6. NamespaceListsConnected'
    BY SMT, Disjoint DEF Inv, OnCloseSkip, ReadsConnected, OnCloseStep, storeVars, Types,
       NamespaceListsConnected
  <1>7. OwnRoomLeft'
    BY Disjoint DEF Inv, OnCloseSkip, ReadsConnected, OnCloseStep, storeVars, Types,
       OwnRoomLeft, Own
  <1>8. SkipOnlyOnShutdown'
    BY Disjoint DEF Inv, OnCloseSkip, ReadsConnected, OnCloseStep, storeVars, Types,
       SkipOnlyOnShutdown, Lives
  <1>9. StoreIndex'
    BY LeftAlone DEF Inv, OnCloseSkip, OnCloseStep, storeVars
  <1> QED BY <1>1, <1>2, <1>3, <1>4, <1>5, <1>6, <1>7, <1>8, <1>9 DEF Inv

\* onClose finds connected true.
LEMMA OnCloseBeginKeeps ==
  ASSUME Inv, NEW s \in Pkts, OnCloseBegin(s)
  PROVE  Inv'
  <1>1. Types'
    BY Disjoint DEF Inv, OnCloseBegin, ReadsConnected, OnCloseStep, storeVars, Types,
       CloseStages
  <1>2. Lives'
    BY SMT, Disjoint DEF Inv, OnCloseBegin, ReadsConnected, OnCloseStep, storeVars, Types,
       Lives, WasConnected, Before, Early, Bodies
  <1>3. Stored'
    BY Disjoint DEF Inv, OnCloseBegin, ReadsConnected, OnCloseStep, storeVars, Types,
       Stored, WasConnected
  <1>4. Loops'
    BY SMT, Disjoint DEF Inv, OnCloseBegin, ReadsConnected, OnCloseStep, storeVars, Types,
       Loops, WasConnected, Early, InLoop
  <1>5. Whereabouts'
    BY SMT, Disjoint DEF Inv, OnCloseBegin, ReadsConnected, OnCloseStep, storeVars, Types,
       Whereabouts
  <1>6. NamespaceListsConnected'
    BY SMT, Disjoint DEF Inv, OnCloseBegin, ReadsConnected, OnCloseStep, storeVars, Types,
       NamespaceListsConnected
  <1>7. OwnRoomLeft'
    BY Disjoint DEF Inv, OnCloseBegin, ReadsConnected, OnCloseStep, storeVars, Types,
       OwnRoomLeft, Own
  <1>8. SkipOnlyOnShutdown'
    BY Disjoint DEF Inv, OnCloseBegin, ReadsConnected, OnCloseStep, storeVars, Types,
       SkipOnlyOnShutdown
  <1>9. StoreIndex'
    BY LeftAlone DEF Inv, OnCloseBegin, OnCloseStep, storeVars
  <1> QED BY <1>1, <1>2, <1>3, <1>4, <1>5, <1>6, <1>7, <1>8, <1>9 DEF Inv

\* The socket leaves its rooms.
LEMMA LeaveAllKeeps ==
  ASSUME Inv, NEW s \in Pkts, LeaveAll(s)
  PROVE  Inv'
  <1>1. Types'
    BY Disjoint DEF Inv, LeaveAll, OnCloseStep, storeVars, Types, CloseStages,
       RoomNames, Own
  <1>2. Lives'
    BY SMT, Disjoint DEF Inv, LeaveAll, OnCloseStep, storeVars, Types, Lives, WasConnected,
       Before, Early, Bodies
  <1>3. Stored'
    BY Disjoint DEF Inv, LeaveAll, OnCloseStep, storeVars, Types, Stored, WasConnected
  <1>4. Loops'
    BY SMT, Disjoint DEF Inv, LeaveAll, OnCloseStep, storeVars, Types, Loops, WasConnected,
       Early, InLoop
  <1>5. Whereabouts'
    BY SMT, Disjoint DEF Inv, LeaveAll, OnCloseStep, storeVars, Types, Whereabouts
  <1>6. NamespaceListsConnected'
    BY SMT, Disjoint DEF Inv, LeaveAll, OnCloseStep, storeVars, Types, NamespaceListsConnected
  <1>7. OwnRoomLeft'
    BY Disjoint DEF Inv, LeaveAll, OnCloseStep, storeVars, Types, OwnRoomLeft, Own
  <1>8. SkipOnlyOnShutdown'
    BY Disjoint DEF Inv, LeaveAll, OnCloseStep, storeVars, Types, SkipOnlyOnShutdown
  <1>9. StoreIndex'
    BY LeftAlone DEF Inv, LeaveAll, OnCloseStep, storeVars
  <1> QED BY <1>1, <1>2, <1>3, <1>4, <1>5, <1>6, <1>7, <1>8, <1>9 DEF Inv

\* The namespace forgets the socket.
LEMMA NspRemoveKeeps ==
  ASSUME Inv, NEW s \in Pkts, NspRemove(s)
  PROVE  Inv'
  <1>1. Types'
    BY Disjoint DEF Inv, NspRemove, OnCloseStep, storeVars, Types, CloseStages
  <1>2. Lives'
    BY SMT, Disjoint DEF Inv, NspRemove, OnCloseStep, storeVars, Types, Lives, WasConnected,
       Before, Early, Bodies
  <1>3. Stored'
    BY Disjoint DEF Inv, NspRemove, OnCloseStep, storeVars, Types, Stored, WasConnected
  <1>4. Loops'
    BY SMT, Disjoint DEF Inv, NspRemove, OnCloseStep, storeVars, Types, Loops, WasConnected,
       Early, InLoop
  <1>5. Whereabouts'
    BY SMT, Disjoint DEF Inv, NspRemove, OnCloseStep, storeVars, Types, Whereabouts
  <1>6. NamespaceListsConnected'
    BY SMT, Disjoint DEF Inv, NspRemove, OnCloseStep, storeVars, Types,
       NamespaceListsConnected, Lives, Before, Early
  <1>7. OwnRoomLeft'
    BY Disjoint DEF Inv, NspRemove, OnCloseStep, storeVars, Types, OwnRoomLeft, Own
  <1>8. SkipOnlyOnShutdown'
    BY Disjoint DEF Inv, NspRemove, OnCloseStep, storeVars, Types, SkipOnlyOnShutdown
  <1>9. StoreIndex'
    BY LeftAlone DEF Inv, NspRemove, OnCloseStep, storeVars
  <1> QED BY <1>1, <1>2, <1>3, <1>4, <1>5, <1>6, <1>7, <1>8, <1>9 DEF Inv

\* onClose gets to the stores.
LEMMA ConnRemoveKeeps ==
  ASSUME Inv, NEW s \in Pkts, ConnRemove(s)
  PROVE  Inv'
  <1>1. Types'
    BY Disjoint DEF Inv, ConnRemove, OnCloseStep, storeVars, Types, CloseStages
  <1>2. Lives'
    BY SMT, Disjoint DEF Inv, ConnRemove, OnCloseStep, storeVars, Types, Lives, WasConnected,
       Before, Early, Bodies
  <1>3. Stored'
    BY Disjoint DEF Inv, ConnRemove, OnCloseStep, storeVars, Types, Stored, WasConnected
  <1>4. Loops'
    BY SMT, Disjoint DEF Inv, ConnRemove, OnCloseStep, storeVars, Types, Loops, WasConnected,
       Early, InLoop
  <1>5. Whereabouts'
    BY SMT, Disjoint DEF Inv, ConnRemove, OnCloseStep, storeVars, Types, Whereabouts
  <1>6. NamespaceListsConnected'
    BY SMT, Disjoint DEF Inv, ConnRemove, OnCloseStep, storeVars, Types,
       NamespaceListsConnected
  <1>7. OwnRoomLeft'
    BY Disjoint DEF Inv, ConnRemove, OnCloseStep, storeVars, Types, OwnRoomLeft, Own
  <1>8. SkipOnlyOnShutdown'
    BY Disjoint DEF Inv, ConnRemove, OnCloseStep, storeVars, Types, SkipOnlyOnShutdown
  <1>9. StoreIndex'
    BY LeftAlone DEF Inv, ConnRemove, OnCloseStep, storeVars
  <1> QED BY <1>1, <1>2, <1>3, <1>4, <1>5, <1>6, <1>7, <1>8, <1>9 DEF Inv

\* The stores forget the socket; another one of the namespace may lose its entry.
LEMMA RemoveByIDKeeps ==
  ASSUME Inv, NEW s \in Pkts, RemoveByID(s)
  PROVE  Inv'
  <1>1. Types'
    BY Disjoint DEF Inv, RemoveByID, OnCloseStep, Types, CloseStages
  <1>2. Lives'
    BY SMT, Disjoint DEF Inv, RemoveByID, OnCloseStep, Types, Lives, WasConnected, Before,
       Early, Bodies
  <1>3. Stored'
    BY Disjoint DEF Inv, RemoveByID, OnCloseStep, Types, Stored, WasConnected
  <1>4. Loops'
    BY SMT, Disjoint DEF Inv, RemoveByID, OnCloseStep, Types, Loops, WasConnected, Early,
       InLoop
  <1>5. Whereabouts'
    BY SMT, Disjoint DEF Inv, RemoveByID, OnCloseStep, Types, Whereabouts, Stored, StoreIndex
  <1>6. StoreIndex'
    BY SMT, Disjoint DEF Inv, RemoveByID, OnCloseStep, Types, StoreIndex
  <1>7. NamespaceListsConnected'
    BY SMT, Disjoint DEF Inv, RemoveByID, OnCloseStep, Types, NamespaceListsConnected
  <1>8. OwnRoomLeft'
    BY Disjoint DEF Inv, RemoveByID, OnCloseStep, Types, OwnRoomLeft, Own
  <1>9. SkipOnlyOnShutdown'
    BY Disjoint DEF Inv, RemoveByID, OnCloseStep, Types, SkipOnlyOnShutdown
  <1> QED BY <1>1, <1>2, <1>3, <1>4, <1>5, <1>6, <1>7, <1>8, <1>9 DEF Inv

\* The connection forgets the namespace.
LEMMA NspsRemoveKeeps ==
  ASSUME Inv, NEW s \in Pkts, NspsRemove(s)
  PROVE  Inv'
  <1>1. Types'
    BY Disjoint DEF Inv, NspsRemove, OnCloseStep, Types, CloseStages
  <1>2. Lives'
    BY SMT, Disjoint DEF Inv, NspsRemove, OnCloseStep, Types, Lives, WasConnected, Before,
       Early, Bodies
  <1>3. Stored'
    BY Disjoint DEF Inv, NspsRemove, OnCloseStep, Types, Stored, WasConnected
  <1>4. Loops'
    BY SMT, Disjoint DEF Inv, NspsRemove, OnCloseStep, Types, Loops, WasConnected, Early,
       InLoop
  <1>5. Whereabouts'
    BY SMT, Disjoint DEF Inv, NspsRemove, OnCloseStep, Types, Whereabouts
  <1>6. NamespaceListsConnected'
    BY SMT, Disjoint DEF Inv, NspsRemove, OnCloseStep, Types, NamespaceListsConnected
  <1>7. OwnRoomLeft'
    BY Disjoint DEF Inv, NspsRemove, OnCloseStep, Types, OwnRoomLeft, Own
  <1>8. SkipOnlyOnShutdown'
    BY Disjoint DEF Inv, NspsRemove, OnCloseStep, Types, SkipOnlyOnShutdown
  <1>9. StoreIndex'
    BY LeftAlone DEF Inv, NspsRemove, OnCloseStep
  <1> QED BY <1>1, <1>2, <1>3, <1>4, <1>5, <1>6, <1>7, <1>8, <1>9 DEF Inv

\* connected becomes false, last of all.
LEMMA OnCloseEndKeeps ==
  ASSUME Inv, NEW s \in Pkts, OnCloseEnd(s)
  PROVE  Inv'
  <1>1. Types'
    BY Disjoint DEF Inv, OnCloseEnd, OnCloseStep, storeVars, Types, CloseStages
  <1>2. Lives'
    BY SMT, Disjoint DEF Inv, OnCloseEnd, OnCloseStep, storeVars, Types, Lives, WasConnected,
       Before, Early, Bodies
  <1>3. Stored'
    BY Disjoint DEF Inv, OnCloseEnd, OnCloseStep, storeVars, Types, Stored, WasConnected
  <1>4. Loops'
    BY SMT, Disjoint DEF Inv, OnCloseEnd, OnCloseStep, storeVars, Types, Loops, WasConnected,
       Early, InLoop
  <1>5. Whereabouts'
    BY SMT, Disjoint DEF Inv, OnCloseEnd, OnCloseStep, storeVars, Types, Whereabouts
  <1>6. NamespaceListsConnected'
    BY SMT, Disjoint DEF Inv, OnCloseEnd, OnCloseStep, storeVars, Types,
       NamespaceListsConnected, Lives, Before, Early
  <1>7. OwnRoomLeft'
    BY Disjoint DEF Inv, OnCloseEnd, OnCloseStep, storeVars, Types, OwnRoomLeft, Own
  <1>8. SkipOnlyOnShutdown'
    BY Disjoint DEF Inv, OnCloseEnd, OnCloseStep, storeVars, Types, SkipOnlyOnShutdown
  <1>9. StoreIndex'
    BY LeftAlone DEF Inv, OnCloseEnd, OnCloseStep, storeVars
  <1> QED BY <1>1, <1>2, <1>3, <1>4, <1>5, <1>6, <1>7, <1>8, <1>9 DEF Inv

-----------------------------------------------------------------------------
(* The loops that close sockets, and whoever starts one.                   *)

\* A loop calls onClose of a socket that has been connected, or it is Server.Close.
LEMMA CallOnCloseKeeps ==
  ASSUME Inv, NEW g \in Goroutines, NEW s \in Pkts, CallOnClose(g, s)
  PROVE  Inv'
  <1>1. /\ pc[s] \notin Early
        /\ connected[s] \/ pc[Shutdown] # "idle" \/ onclose[s] # "no"
    BY Disjoint DEF Inv, CallOnClose, Loops, WasConnected, InLoop
  <1>2. Types'
    BY SMT, Disjoint DEF Inv, CallOnClose, ReadsConnected, storeVars, Types, CloseStages
  <1>3. Lives'
    BY SMT, <1>1, Disjoint DEF Inv, CallOnClose, ReadsConnected, storeVars, Types, Lives,
       WasConnected, Before, Early, Bodies
  <1>4. Stored'
    BY SMT, Disjoint DEF Inv, CallOnClose, ReadsConnected, storeVars, Types, Stored,
       WasConnected
  <1>5. Loops'
    BY SMT, <1>1, Disjoint DEF Inv, CallOnClose, ReadsConnected, storeVars, Types, Loops,
       WasConnected, Early, InLoop
  <1>6. Whereabouts'
    BY SMT, <1>1, Disjoint DEF Inv, CallOnClose, ReadsConnected, storeVars, Types, Whereabouts
  <1>7. NamespaceListsConnected'
    BY SMT, Disjoint DEF Inv, CallOnClose, ReadsConnected, storeVars, Types,
       NamespaceListsConnected
  <1>8. OwnRoomLeft'
    BY SMT, Disjoint DEF Inv, CallOnClose, ReadsConnected, storeVars, Types, OwnRoomLeft, Own
  <1>9. SkipOnlyOnShutdown'
    BY SMT, Disjoint DEF Inv, CallOnClose, ReadsConnected, storeVars, Types, SkipOnlyOnShutdown
  <1>10. StoreIndex'
    BY LeftAlone DEF Inv, CallOnClose, storeVars
  <1> QED BY <1>2, <1>3, <1>4, <1>5, <1>6, <1>7, <1>8, <1>9, <1>10 DEF Inv

\* onClose returns to the loop.
LEMMA ReturnFromOnCloseKeeps ==
  ASSUME Inv, NEW g \in Goroutines, ReturnFromOnClose(g)
  PROVE  Inv'
  <1>1. Types'
    BY DEF Inv, ReturnFromOnClose, storeVars, sockVars, Types
  <1>2. (Lives /\ Stored /\ Loops /\ Whereabouts)'
    BY LeftAlone DEF Inv, ReturnFromOnClose, storeVars, sockVars
  <1>3. (StoreIndex /\ NamespaceListsConnected /\ OwnRoomLeft /\ SkipOnlyOnShutdown)'
    BY LeftAlone DEF Inv, ReturnFromOnClose, storeVars, sockVars
  <1> QED BY <1>1, <1>2, <1>3 DEF Inv

\* The closing connection takes every socket out of the stores.
LEMMA ConnOnCloseKeeps ==
  ASSUME Inv, ConnOnClose
  PROVE  Inv'
  <1>1. todo[Eio] = {}
    BY Disjoint DEF Inv, ConnOnClose, Loops, InLoop
  <1>2. Types'
    BY LoopNames, Disjoint DEF Inv, ConnOnClose, GetAndRemoveAll, Goto, sockVars, Types,
       PCs, InLoop
  <1>3. Lives'
    BY SMT, <1>1, Disjoint DEF Inv, ConnOnClose, GetAndRemoveAll, Goto, sockVars, Types,
       Lives, WasConnected, Before, Early, Bodies
  <1>4. Stored'
    BY Disjoint DEF Inv, ConnOnClose, GetAndRemoveAll, Goto, sockVars, Types, Stored,
       WasConnected
  <1>5. Loops'
    BY SMT, <1>1, Disjoint DEF Inv, ConnOnClose, GetAndRemoveAll, Goto, sockVars, Types,
       Loops, WasConnected, Early, InLoop, Stored
  <1>6. Whereabouts'
    BY SMT, <1>1, Disjoint DEF Inv, ConnOnClose, GetAndRemoveAll, Goto, sockVars, Types,
       Whereabouts
  <1>7. StoreIndex'
    BY Disjoint DEF Inv, ConnOnClose, GetAndRemoveAll, Goto, sockVars, Types, StoreIndex
  <1>8. NamespaceListsConnected'
    BY Disjoint DEF Inv, ConnOnClose, GetAndRemoveAll, Goto, sockVars, Types,
       NamespaceListsConnected
  <1>9. SkipOnlyOnShutdown'
    BY Disjoint DEF Inv, ConnOnClose, GetAndRemoveAll, Goto, sockVars, Types,
       SkipOnlyOnShutdown
  <1>10. OwnRoomLeft'
    BY LeftAlone DEF Inv, ConnOnClose, GetAndRemoveAll, sockVars
  <1> QED BY <1>2, <1>3, <1>4, <1>5, <1>6, <1>7, <1>8, <1>9, <1>10 DEF Inv

\* Server.Close takes the sockets of the namespace.
LEMMA ServerCloseKeeps ==
  ASSUME Inv, ServerClose
  PROVE  Inv'
  <1>1. todo[Shutdown] = {}
    BY Disjoint DEF Inv, ServerClose, Loops, InLoop
  <1>2. Types'
    BY LoopNames, Disjoint DEF Inv, ServerClose, Goto, storeVars, sockVars, Types, PCs,
       InLoop
  <1>3. Lives'
    BY SMT, <1>1, Disjoint DEF Inv, ServerClose, Goto, storeVars, sockVars, Types, Lives,
       WasConnected, Before, Early, Bodies
  <1>4. Stored'
    BY Disjoint DEF Inv, ServerClose, Goto, storeVars, sockVars, Types, Stored,
       WasConnected
  <1>5. Loops'
    BY SMT, <1>1, Disjoint DEF Inv, ServerClose, Goto, storeVars, sockVars, Types, Loops,
       WasConnected, Early, InLoop, NamespaceListsConnected, Lives, Before
  <1>6. Whereabouts'
    BY SMT, <1>1, Disjoint DEF Inv, ServerClose, Goto, storeVars, sockVars, Types, Whereabouts
  <1>7. NamespaceListsConnected'
    BY Disjoint DEF Inv, ServerClose, Goto, storeVars, sockVars, Types,
       NamespaceListsConnected
  <1>8. SkipOnlyOnShutdown'
    BY Disjoint DEF Inv, ServerClose, Goto, storeVars, sockVars, Types, SkipOnlyOnShutdown
  <1>9. (StoreIndex /\ OwnRoomLeft)'
    BY LeftAlone DEF Inv, ServerClose, storeVars, sockVars
  <1> QED BY <1>2, <1>3, <1>4, <1>5, <1>6, <1>7, <1>8, <1>9 DEF Inv

\* Disconnect(false) closes a socket the application holds.
LEMMA DisconnectKeeps ==
  ASSUME Inv, NEW u \in Users, NEW s \in Pkts, Disconnect(u, s)
  PROVE  Inv'
  <1>1. todo[u] = {}
    BY Disjoint DEF Inv, Disconnect, HasSocket, Loops, InLoop
  <1>2. Types'
    BY SMT, LoopNames, Disjoint DEF Inv, Disconnect, HasSocket, ReadsConnected, Goto,
       storeVars, sockVars, Types, PCs, InLoop
  <1>3. Lives'
    BY SMT, <1>1, Disjoint DEF Inv, Disconnect, HasSocket, ReadsConnected, Goto, storeVars,
       sockVars, Types, Lives, WasConnected, Before, Early, Bodies
  <1>4. Stored'
    BY Disjoint DEF Inv, Disconnect, HasSocket, ReadsConnected, Goto, storeVars,
       sockVars, Types, Stored, WasConnected
  <1>5. Loops'
    BY SMT, <1>1, Disjoint DEF Inv, Disconnect, HasSocket, ReadsConnected, Goto, storeVars,
       sockVars, Types, Loops, WasConnected, Early, InLoop, Lives, Before
  <1>6. Whereabouts'
    BY SMT, <1>1, Disjoint DEF Inv, Disconnect, HasSocket, ReadsConnected, Goto, storeVars,
       sockVars, Types, Whereabouts
  <1>7. NamespaceListsConnected'
    BY Disjoint DEF Inv, Disconnect, HasSocket, ReadsConnected, Goto, storeVars,
       sockVars, Types, NamespaceListsConnected
  <1>8. SkipOnlyOnShutdown'
    BY Disjoint DEF Inv, Disconnect, HasSocket, ReadsConnected, Goto, storeVars,
       sockVars, Types, SkipOnlyOnShutdown
  <1>9. (StoreIndex /\ OwnRoomLeft)'
    BY LeftAlone DEF Inv, Disconnect, storeVars, sockVars
  <1> QED BY <1>2, <1>3, <1>4, <1>5, <1>6, <1>7, <1>8, <1>9 DEF Inv

\* Disconnect(true) takes every socket out of the stores.
LEMMA DisconnectCloseKeeps ==
  ASSUME Inv, NEW u \in Users, NEW s \in Pkts, DisconnectClose(u, s)
  PROVE  Inv'
  <1>1. todo[u] = {}
    BY Disjoint DEF Inv, DisconnectClose, HasSocket, Loops, InLoop
  <1>2. Types'
    BY LoopNames, Disjoint DEF Inv, DisconnectClose, HasSocket, ReadsConnected,
       GetAndRemoveAll, Goto, sockVars, Types, PCs, InLoop
  <1>3. Lives'
    BY SMT, <1>1, Disjoint DEF Inv, DisconnectClose, HasSocket, ReadsConnected,
       GetAndRemoveAll, Goto, sockVars, Types, Lives, WasConnected, Before, Early,
       Bodies
  <1>4. Stored'
    BY Disjoint DEF Inv, DisconnectClose, HasSocket, ReadsConnected, GetAndRemoveAll,
       Goto, sockVars, Types, Stored, WasConnected
  <1>5. Loops'
    BY SMT, <1>1, Disjoint DEF Inv, DisconnectClose, HasSocket, ReadsConnected,
       GetAndRemoveAll, Goto, sockVars, Types, Loops, WasConnected, Early, InLoop,
       Stored
  <1>6. Whereabouts'
    BY SMT, <1>1, Disjoint DEF Inv, DisconnectClose, HasSocket, ReadsConnected,
       GetAndRemoveAll, Goto, sockVars, Types, Whereabouts
  <1>7. StoreIndex'
    BY Disjoint DEF Inv, DisconnectClose, HasSocket, ReadsConnected, GetAndRemoveAll,
       Goto, sockVars, Types, StoreIndex
  <1>8. NamespaceListsConnected'
    BY Disjoint DEF Inv, DisconnectClose, HasSocket, ReadsConnected, GetAndRemoveAll,
       Goto, sockVars, Types, NamespaceListsConnected
  <1>9. SkipOnlyOnShutdown'
    BY Disjoint DEF Inv, DisconnectClose, HasSocket, ReadsConnected, GetAndRemoveAll,
       Goto, sockVars, Types, SkipOnlyOnShutdown
  <1>10. OwnRoomLeft'
    BY LeftAlone DEF Inv, DisconnectClose, GetAndRemoveAll, sockVars
  <1> QED BY <1>2, <1>3, <1>4, <1>5, <1>6, <1>7, <1>8, <1>9, <1>10 DEF Inv

-----------------------------------------------------------------------------
(* The invariant, and what follows from it.                                *)


\* Every step keeps the invariant.
LEMMA NextKeepsInv == Inv /\ [Next]_vars => Inv'
  <1> SUFFICES ASSUME Inv, [Next]_vars PROVE Inv'
    OBVIOUS
  <1>1. CASE ClientReceive \/ UNCHANGED vars
    <2>1. UNCHANGED <<pc, kind, nsp, cur, todo, byID, byNsp, nspSockets, rooms, connected,
                      onclose>>
      BY <1>1 DEF ClientReceive, vars, storeVars, sockVars
    <2>2. Types'
      BY <2>1 DEF Inv, Types
    <2>3. (Lives /\ Stored /\ Loops /\ Whereabouts)'
      BY <2>1, LeftAlone DEF Inv
    <2>4. (StoreIndex /\ NamespaceListsConnected /\ OwnRoomLeft /\ SkipOnlyOnShutdown)'
      BY <2>1, LeftAlone DEF Inv
    <2> QED BY <2>2, <2>3, <2>4 DEF Inv
  <1>2. ASSUME NEW p \in Pkts, PacketStep(p) PROVE Inv'
    BY <1>2, PacketLookupKeeps, OnEventKeeps, ConnectRefusedKeeps,
       ConnectFatalKeeps, NewSocketKeeps, MiddlewareJoinKeeps, MiddlewareOkKeeps,
       NspSocketsSetKeeps, OnConnectSendKeeps, OnConnectDoneKeeps, ConnSocketsSetKeeps,
       ConnNspsSetKeeps
       DEF PacketStep
  <1>3. ASSUME NEW s \in Pkts, OnCloseBody(s) PROVE Inv'
    BY <1>3, OnCloseSkipKeeps, OnCloseBeginKeeps, LeaveAllKeeps, NspRemoveKeeps,
       ConnRemoveKeeps, RemoveByIDKeeps, NspsRemoveKeeps, OnCloseEndKeeps
       DEF OnCloseBody, HandlersDone, HandlersTimeout
  <1>4. ASSUME NEW g \in Goroutines, CloseStep(g) PROVE Inv'
    BY <1>4, CallOnCloseKeeps, ReturnFromOnCloseKeeps, LoopEndsKeeps,
       EioCloseKeeps, EioCloseReturnKeeps DEF CloseStep
  <1>5. ASSUME NEW u \in Users, Application(u) PROVE Inv'
    BY <1>5, DisconnectKeeps, DisconnectCloseKeeps, JoinKeeps, JoinAddAllKeeps
       DEF Application
  <1> QED BY <1>1, <1>2, <1>3, <1>4, <1>5, ClientSendKeeps, TransportCloseKeeps,
             ConnOnCloseKeeps, ConnectTimeoutKeeps, ServerCloseKeeps DEF Next

\* The invariant holds before the first packet.
LEMMA InitInv == Init => Inv
  <1> SUFFICES ASSUME Init PROVE Inv
    OBVIOUS
  <1>1. Types
    BY Disjoint, ConnAssumption DEF Init, Types, PCs, Kinds, RoomNames, CloseStages
  <1>2. Lives /\ Stored /\ Loops /\ Whereabouts
    BY Disjoint DEF Init, Lives, Stored, Loops, Whereabouts, Before, Early, Bodies
  <1>3. StoreIndex /\ NamespaceListsConnected /\ OwnRoomLeft /\ SkipOnlyOnShutdown
    BY Disjoint DEF Init, StoreIndex, NamespaceListsConnected, OwnRoomLeft,
       SkipOnlyOnShutdown
  <1> QED BY <1>1, <1>2, <1>3 DEF Inv

\* So it always holds.
LEMMA InvHolds == Spec => []Inv
  BY InitInv, NextKeepsInv, PTL DEF Spec

-----------------------------------------------------------------------------
\* The two maps of serverSocketStore agree, however many goroutines set and
\* remove sockets.
THEOREM StoreIndexHolds == Spec => []StoreIndex
  <1>1. Inv => StoreIndex
    BY DEF Inv
  <1> QED BY <1>1, InvHolds, PTL

\* The namespace lists exactly the sockets between doConnect and onClose.
THEOREM NamespaceListsConnectedHolds == Spec => []NamespaceListsConnected
  <1>1. Inv => NamespaceListsConnected
    BY DEF Inv
  <1> QED BY <1>1, InvHolds, PTL

\* A closed socket is not in the room of its own ID.
THEOREM OwnRoomLeftHolds == Spec => []OwnRoomLeft
  <1>1. Inv => OwnRoomLeft
    BY DEF Inv
  <1> QED BY <1>1, InvHolds, PTL

\* Only Server.Close wastes the once of a socket that is not connected yet.
THEOREM SkipOnlyOnShutdownHolds == Spec => []SkipOnlyOnShutdown
  <1>1. Inv => SkipOnlyOnShutdown
    BY DEF Inv
  <1> QED BY <1>1, InvHolds, PTL

\* The lookup of a connected socket fails only in the windows that the property
\* lists: connect, a loop that closes, the end of the connection, and a second
\* socket of the namespace that has been closed.
THEOREM UnindexedOnlyInWindowsHolds == Spec => []UnindexedOnlyInWindows
  <1>1. Inv => UnindexedOnlyInWindows
    BY DEF Inv, Whereabouts, UnindexedOnlyInWindows
  <1> QED BY <1>1, InvHolds, PTL

-----------------------------------------------------------------------------
\* The types of what the invariant does not speak of.
Answers == [kind : Kinds \cup {"CONNECT_ERROR"}, nsp : Nsps]

RestTypes ==
  /\ nsps \subseteq Nsps
  /\ joinable \in [Pkts -> BOOLEAN]
  /\ inHandler \in [Users -> Pkts \cup {NoSocket}]
  /\ cli \in [Nsps -> {"idle", "pending", "on"}]
  /\ out \in Seq(Answers)

\* A packet for the client is an answer about one of the namespaces.
LEMMA SendKeepsAnswers ==
  ASSUME NEW k \in Kinds \cup {"CONNECT_ERROR"}, NEW n \in Nsps, out \in Seq(Answers),
         SendToClient(k, n)
  PROVE  out' \in Seq(Answers)
  <1>1. [kind |-> k, nsp |-> n] \in Answers
    BY DEF Answers
  <1>2. Append(out, [kind |-> k, nsp |-> n]) \in Seq(Answers)
    BY SMT, <1>1
  <1> QED BY <1>2 DEF SendToClient

\* Every step keeps those types.
LEMMA NextKeepsRestTypes == Inv /\ RestTypes /\ [Next]_vars => RestTypes'
  <1> SUFFICES ASSUME Inv, RestTypes, [Next]_vars PROVE RestTypes'
    OBVIOUS
  <1> USE DEF RestTypes
  <1>0. nsp \in [Pkts -> Nsps] /\ out \in Seq(Answers)
    BY DEF Inv, Types
  <1>1. CASE UNCHANGED vars
    BY <1>1 DEF vars, storeVars, sockVars, cliVars
  <1>2. ASSUME NEW p \in Pkts, NEW k \in Kinds, NEW n \in Nsps, ClientSend(p, k, n)
        PROVE  RestTypes'
    <2>1. cli' \in [Nsps -> {"idle", "pending", "on"}]
      BY <1>2 DEF ClientSend, Kinds
    <2> QED BY <1>2, <2>1 DEF ClientSend, storeVars, sockVars
  <1>3. CASE ClientReceive
    <2>1. Head(out) \in Answers /\ Tail(out) \in Seq(Answers)
      BY SMT, <1>0, <1>3 DEF ClientReceive
    <2>2. cli' \in [Nsps -> {"idle", "pending", "on"}]
      BY <1>3, <2>1 DEF ClientReceive
    <2> QED BY <1>3, <2>1, <2>2 DEF ClientReceive, storeVars, sockVars
  <1>4. ASSUME NEW p \in Pkts, PacketStep(p) PROVE RestTypes'
    <2>1. CASE ConnectRefused(p) \/ MiddlewareFail(p) \/ OnConnectSend(p)
      <3>1. out' \in Seq(Answers)
        BY <1>0, <2>1, SendKeepsAnswers
           DEF ConnectRefused, MiddlewareFail, ConnectError, OnConnectSend, Kinds
      <3> QED BY <2>1, <3>1
              DEF ConnectRefused, MiddlewareFail, ConnectError, OnConnectSend, storeVars, sockVars
    <2>2. CASE ConnNspsSet(p)
      BY <1>0, <2>2 DEF ConnNspsSet, sockVars, cliVars
    <2>3. CASE UNCHANGED <<nsps, joinable, inHandler, cli, out>>
      BY <2>3
    <2> QED BY <1>4, <2>1, <2>2, <2>3
            DEF PacketStep, PacketLookup, OnEvent, ConnectFatal, NewSocket, MiddlewareJoin,
                MiddlewareOk, NspSocketsSet, OnConnectDone, ConnSocketsSet, storeVars, sockVars,
                cliVars
  <1>5. ASSUME NEW s \in Pkts, OnCloseBody(s) PROVE RestTypes'
    <2>1. CASE OnCloseBegin(s)
      BY <2>1 DEF OnCloseBegin, OnCloseStep, storeVars, cliVars
    <2>2. CASE NspsRemove(s)
      BY <2>2 DEF NspsRemove, OnCloseStep, cliVars
    <2>3. CASE UNCHANGED <<nsps, joinable, inHandler, cli, out>>
      BY <2>3
    <2> QED BY <1>5, <2>1, <2>2, <2>3
            DEF OnCloseBody, OnCloseSkip, HandlersDone, HandlersTimeout, LeaveAll, NspRemove,
                ConnRemove, RemoveByID, OnCloseEnd, OnCloseStep, storeVars, cliVars
  <1>6. ASSUME NEW g \in Goroutines, CloseStep(g) PROVE RestTypes'
    <2>1. ASSUME NEW s \in Pkts, CallOnClose(g, s) PROVE RestTypes'
      <3>1. out' = out \/ SendToClient("DISCONNECT", nsp[s])
        BY <2>1 DEF CallOnClose
      <3>2. out' \in Seq(Answers)
        BY <1>0, <3>1, SendKeepsAnswers DEF Kinds
      <3> QED BY <2>1, <3>2, ZenonT(30) DEF CallOnClose, storeVars
    <2>2. CASE UNCHANGED <<nsps, joinable, inHandler, cli, out>>
      BY <2>2
    <2> QED BY <1>6, <2>1, <2>2, ZenonT(30)
            DEF CloseStep, ReturnFromOnClose, LoopEnds, EioClose, EioCloseReturn, storeVars,
                sockVars, cliVars
  <1>7. ASSUME NEW u \in Users, Application(u) PROVE RestTypes'
    <2>1. ASSUME NEW s \in Pkts, Disconnect(u, s) PROVE RestTypes'
      <3>1. out' \in Seq(Answers)
        BY <1>0, <2>1, SendKeepsAnswers DEF Disconnect, Kinds
      <3> QED BY <2>1, <3>1 DEF Disconnect, storeVars, sockVars
    <2>2. ASSUME NEW s \in Pkts, DisconnectClose(u, s) PROVE RestTypes'
      BY SMT, <2>2 DEF DisconnectClose, GetAndRemoveAll, sockVars, cliVars
    <2>3. CASE UNCHANGED <<nsps, joinable, inHandler, cli, out>>
      BY <2>3
    <2> QED BY <1>7, <2>1, <2>2, <2>3 DEF Application, Join, JoinAddAll, storeVars, sockVars, cliVars
  <1>8. CASE TransportClose \/ ConnOnClose \/ ConnectTimeout \/ ServerClose
    BY <1>8 DEF TransportClose, ConnOnClose, GetAndRemoveAll, ConnectTimeout, ServerClose,
       storeVars, sockVars, cliVars
  <1> QED BY <1>1, <1>2, <1>3, <1>4, <1>5, <1>6, <1>7, <1>8 DEF Next

\* The connection, its stores, its sockets and its client keep to their types,
\* whatever packets come and whoever closes what.
THEOREM TypeOKHolds == Spec => []TypeOK
  <1>1. Init => RestTypes
    BY SMT, ConnAssumption DEF Init, RestTypes
  <1>2. Inv /\ RestTypes => TypeOK
    BY DEF Inv, Types, RestTypes, Answers, TypeOK
  <1>3. Inv /\ RestTypes /\ [Next]_vars => (Inv /\ RestTypes)'
    BY NextKeepsInv, NextKeepsRestTypes
  <1> QED BY <1>1, <1>2, <1>3, InitInv, PTL DEF Spec

=============================================================================
