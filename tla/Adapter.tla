------------------------------- MODULE Adapter -------------------------------
(***************************************************************************)
(* The rooms of one namespace: the two indexes of an adapter (which rooms  *)
(* a socket is in, which sockets a room has), the namespace's socket       *)
(* store, and apply, the loop behind Emit, FetchSockets, SocketsJoin,      *)
(* SocketsLeave and DisconnectSockets of a broadcast operator.             *)
(*                                                                         *)
(* apply holds the adapter's mutex while it looks for the next socket and  *)
(* releases it around every callback, so that joins, leaves, closes and    *)
(* other calls happen between two sockets of one call, while the call is   *)
(* in the middle of a range over a map that they change.  What Go says of  *)
(* such a range is kept: an element that stays is produced, once; one that *)
(* is removed first is not; one that is added may or may not be.           *)
(*                                                                         *)
(* The in-memory adapter and the Redis streams adapter have the same code  *)
(* here.  A socket's identifier is also the name of its own room.          *)
(***************************************************************************)
EXTENDS Naturals, FiniteSets, TLC

CONSTANTS
    Sids,       \* identifiers of the sockets
    Rooms,      \* rooms other than the sockets' own
    All,        \* stands for "range over sids": the call names no room
    NoRoom,     \* the call has no range over a room open
    MaxCalls,   \* bound: concurrent and successive calls of apply
    MaxActs     \* bound: joins, leaves, closes and calls of the application

ASSUME AdapterAssumption ==
    /\ MaxCalls \in Nat /\ MaxActs \in Nat
    /\ Sids \cap Rooms = {}
    /\ {All, NoRoom} \cap (Sids \cup Rooms) = {} /\ All # NoRoom

AllRooms == Rooms \cup Sids

VARIABLES
    rooms,      \* adapter.rooms: a function on the rooms that have an entry
    sids,       \* adapter.sids: a function on the sockets that have an entry
    sockets,    \* the identifiers in the namespace's socket store
    life,       \* how far each socket's connection or close has come
    joins,      \* Join calls between reading s.join and calling it
    racing,     \* the Join calls that were there when their socket closed
    calls,      \* the calls of apply
    acts        \* joins, leaves, closes and calls so far

vars == <<rooms, sids, sockets, life, joins, racing, calls, acts>>

-----------------------------------------------------------------------------
(* The indexes *)

Empty == [x \in {} |-> {}]

\* The entry of a map of sets, or nothing.
Entry(m, k) == IF k \in DOMAIN m THEN m[k] ELSE {}

\* AddAll: creates the entries that are missing.
AddRooms(R, S, s, new) ==
    [r \in DOMAIN R \cup new |-> IF r \in new THEN Entry(R, r) \cup {s} ELSE R[r]]

AddSids(R, S, s, new) ==
    [x \in DOMAIN S \cup {s} |-> IF x = s THEN Entry(S, s) \cup new ELSE S[x]]

\* delete, once for every room of old: a room that is empty loses its entry.
\* Faulty variant: the entry of an empty room stays.
DropFromRoomsKeeping(R, s, old) ==
    [r \in DOMAIN R |-> IF r \in old THEN R[r] \ {s} ELSE R[r]]

DropFromRooms(R, s, old) ==
    [r \in {r \in DOMAIN R : ~(r \in old /\ R[r] \subseteq {s})} |->
        IF r \in old THEN R[r] \ {s} ELSE R[r]]

\* Delete: the socket keeps its entry.
DropRoom(S, s, r) ==
    [x \in DOMAIN S |-> IF x = s THEN S[x] \ {r} ELSE S[x]]

\* The rooms a call ranges over, the map of all sockets being one.
Members(r) == IF r = All THEN DOMAIN sids ELSE Entry(rooms, r)

computeExceptSids(except) == UNION {Entry(rooms, r) : r \in except}

-----------------------------------------------------------------------------
(* Calls of apply *)

Ops == {"send", "join", "leave", "disconnect"}

Idle == [op |-> "idle"]

\* A call of apply that has just taken the mutex.
Call(op, target, except, room) ==
    LET out == computeExceptSids(except)
        start == IF target = {} THEN {All} ELSE target
    IN  [op |-> op, room |-> room,
         except |-> out,
         left |-> start,        \* rooms still to visit, the current one included
         cur |-> NoRoom,        \* room being ranged over
         must |-> {},           \* members of cur that the range still has to produce
         seen |-> {},           \* members of cur that it has produced
         ids |-> {},            \* sockets called back, kept when rooms are named
         on |-> {},             \* socket whose Disconnect has not returned
         reached |-> [s \in Sids |-> 0],
         due |-> {p \in start \X sockets : p[2] \in Members(p[1]) \ out}]

\* A range that is open when s leaves the rooms of old: s is not produced any
\* more.  A room that lost its entry in the index is empty, also for the call
\* that still ranges over its set.
Forget(c, s, old, gone) ==
    IF c.op \in {"idle", "done"} THEN c
    ELSE [c EXCEPT !.must = IF c.cur \in old THEN @ \ {s} ELSE @,
                   !.seen = IF c.cur \in old THEN @ \ {s} ELSE @,
                   !.left = IF c.cur \in gone THEN @ \ {c.cur} ELSE @,
                   !.cur = IF @ \in gone THEN NoRoom ELSE @,
                   !.due = @ \ (old \X {s})]

ForgetAll(C, s, old, gone) == [i \in DOMAIN C |-> Forget(C[i], s, old, gone)]

\* Sockets that apply calls back when the range produces them.
\* Faulty variant: a socket in two of the rooms is called back twice.
CandidatesTwice(c) == sockets \ c.except

Candidates(c) == sockets \ (c.except \cup c.ids)

\* The range over r ends without another call back.
Passed(c, r) == (IF r = c.cur THEN c.must ELSE Members(r)) \cap Candidates(c) = {}

\* The call after the range over r has produced s, the rooms of over before it
\* and, without calling them back, the sockets of skip.
Visited(c, r, s, over, skip) ==
    [c EXCEPT !.left = @ \ over,
              !.cur = r,
              !.must = (IF r = c.cur THEN @ ELSE Members(r)) \ (skip \cup {s}),
              !.seen = (IF r = c.cur THEN @ ELSE {}) \cup skip \cup {s},
              !.ids = IF r = All THEN @ ELSE @ \cup {s},
              !.on = IF c.op = "disconnect" THEN {s} ELSE {},
              !.reached[s] = IF @ < 2 THEN @ + 1 ELSE @]

\* onClose, once: the join function is replaced by one that does nothing.
OnClose(s) ==
    /\ life' = [life EXCEPT ![s] = "closing"]
    /\ racing' = racing \cup {p \in joins : p[1] = s}

\* The callback of call d on s, d having been updated.
CallBack(i, d, s) ==
    LET C == [calls EXCEPT ![i] = d]
        gone == {d.room} \ DOMAIN DropFromRooms(rooms, s, {d.room})
    IN  \/ /\ d.op = "send"
           /\ calls' = C /\ UNCHANGED <<rooms, sids, life, racing>>
        \/ /\ d.op = "join"
           /\ calls' = C /\ UNCHANGED <<life, racing>>
           /\ IF life[s] = "up"
              THEN /\ rooms' = AddRooms(rooms, sids, s, {d.room})
                   /\ sids' = AddSids(rooms, sids, s, {d.room})
              ELSE UNCHANGED <<rooms, sids>>
        \/ /\ d.op = "leave"
           /\ rooms' = DropFromRooms(rooms, s, {d.room})
           /\ sids' = DropRoom(sids, s, d.room)
           /\ calls' = ForgetAll(C, s, {d.room}, gone)
           /\ UNCHANGED <<life, racing>>
        \/ /\ d.op = "disconnect"
           /\ IF life[s] = "up" THEN OnClose(s) ELSE UNCHANGED <<life, racing>>
           /\ calls' = C /\ UNCHANGED <<rooms, sids>>

\* From one Lock of apply's loop to the next Unlock, and the callback.
Visit(i, c) ==
    \E r \in c.left : \E over \in SUBSET (c.left \ {r}) :
      /\ \A x \in over : Passed(c, x)
      /\ c.cur \in over \cup {r, NoRoom}
      /\ LET fresh == Members(r) \ (IF r = c.cur THEN c.seen ELSE {})
         IN  \E s \in fresh \cap Candidates(c), skip \in SUBSET (fresh \ (sockets \cup c.except)) :
               /\ CallBack(i, Visited(c, r, s, over, skip), s)
               /\ UNCHANGED <<sockets, joins>>

\* What is kept of a call that has returned.
Done(c) ==
    [op |-> "done",
     missed |-> {p[2] : p \in {q \in c.due : c.reached[q[2]] = 0}},
     twice |-> {s \in Sids : c.reached[s] > 1}]

\* The loops end: Unlock and return.
Return(i, c) ==
    /\ \A r \in c.left : Passed(c, r)
    /\ calls' = [calls EXCEPT ![i] = Done(c)]
    /\ UNCHANGED <<rooms, sids, sockets, life, joins, racing>>

Returned(c) == \A s \in c.on : life[s] = "gone"

\* A broadcast operator's To and Except, and the room of SocketsJoin or Leave.
Start(i, op, target, except, room) ==
    /\ acts < MaxActs /\ acts' = acts + 1
    /\ calls[i].op = "idle"
    /\ \A j \in DOMAIN calls : j < i => calls[j].op # "idle"
    /\ LET c == Call(op, target, except, room) IN Visit(i, c) \/ Return(i, c)

Continue(i) ==
    /\ calls[i].op \in Ops
    /\ Returned(calls[i])
    /\ Visit(i, calls[i]) \/ Return(i, calls[i])
    /\ UNCHANGED acts

-----------------------------------------------------------------------------
(* Sockets *)

Init ==
    /\ rooms = Empty /\ sids = Empty /\ sockets = {}
    /\ life = [s \in Sids |-> "new"]
    /\ joins = {} /\ racing = {}
    /\ calls = [i \in 1..MaxCalls |-> Idle]
    /\ acts = 0

\* doConnect: the socket enters the store and joins its own room.  onConnect
\* holds connectedMu, for which onClose waits.
\* Faulty variant: it joins before it has an identifier.
ConnectUnnamed(s) ==
    /\ life[s] = "new"
    /\ life' = [life EXCEPT ![s] = "up"]
    /\ sockets' = sockets \cup {s}
    /\ rooms' = AddRooms(rooms, sids, s, {NoRoom})
    /\ sids' = AddSids(rooms, sids, s, {NoRoom})
    /\ UNCHANGED <<joins, racing, calls, acts>>

Connect(s) ==
    /\ life[s] = "new"
    /\ life' = [life EXCEPT ![s] = "up"]
    /\ sockets' = sockets \cup {s}
    /\ rooms' = AddRooms(rooms, sids, s, {s})
    /\ sids' = AddSids(rooms, sids, s, {s})
    /\ UNCHANGED <<joins, racing, calls, acts>>

\* Join reads s.join; onClose has replaced it by a function that does nothing.
\* Faulty variant: it is not replaced.
ReadJoinAlways(s, r) ==
    /\ acts < MaxActs /\ acts' = acts + 1
    /\ life[s] # "new" /\ <<s, r>> \notin joins
    /\ joins' = joins \cup {<<s, r>>}
    /\ UNCHANGED <<rooms, sids, sockets, life, racing, calls>>

ReadJoin(s, r) ==
    /\ acts < MaxActs /\ acts' = acts + 1
    /\ life[s] = "up" /\ <<s, r>> \notin joins
    /\ joins' = joins \cup {<<s, r>>}
    /\ UNCHANGED <<rooms, sids, sockets, life, racing, calls>>

Join(s, r) ==
    /\ <<s, r>> \in joins
    /\ joins' = joins \ {<<s, r>>}
    /\ rooms' = AddRooms(rooms, sids, s, {r})
    /\ sids' = AddSids(rooms, sids, s, {r})
    /\ UNCHANGED <<sockets, life, racing, calls, acts>>

Leave(s, r) ==
    /\ acts < MaxActs /\ acts' = acts + 1
    /\ life[s] # "new"
    /\ rooms' = DropFromRooms(rooms, s, {r})
    /\ sids' = DropRoom(sids, s, r)
    /\ calls' = ForgetAll(calls, s, {r}, {r} \ DOMAIN rooms')
    /\ UNCHANGED <<sockets, life, joins, racing>>

Close(s) ==
    /\ acts < MaxActs /\ acts' = acts + 1
    /\ life[s] = "up"
    /\ OnClose(s)
    /\ UNCHANGED <<rooms, sids, sockets, joins, calls>>

\* leaveAll: DeleteAll drops the socket from every room of its entry.
DeleteAll(s) ==
    LET old == Entry(sids, s)
    IN  /\ rooms' = DropFromRooms(rooms, s, old)
        /\ sids' = [x \in DOMAIN sids \ {s} |-> sids[x]]
        /\ calls' = ForgetAll(calls, s, old \cup {All}, old \ DOMAIN rooms')

LeaveAll(s) ==
    /\ life[s] = "closing"
    /\ life' = [life EXCEPT ![s] = "left"]
    /\ DeleteAll(s)
    /\ UNCHANGED <<sockets, joins, racing, acts>>

\* Namespace.remove; no call has to reach the socket any more.
Remove(s) ==
    /\ life[s] = "left"
    /\ life' = [life EXCEPT ![s] = "gone"]
    /\ sockets' = sockets \ {s}
    /\ calls' = ForgetAll(calls, s, AllRooms \cup {All}, {})
    /\ UNCHANGED <<rooms, sids, joins, racing, acts>>

\* Bound: the rooms that a broadcast operator names.  Those it excepts matter
\* only to computeExceptSids, which is the same for every operation.
Targets == (SUBSET Rooms) \cup {{s} : s \in Sids}

Excepts == {R \in SUBSET AllRooms : Cardinality(R) <= 1}

Next ==
    \/ \E s \in Sids : Connect(s) \/ Close(s) \/ LeaveAll(s) \/ Remove(s)
    \/ \E s \in Sids, r \in Rooms : ReadJoin(s, r) \/ Join(s, r) \/ Leave(s, r)
    \/ \E i \in 1..MaxCalls :
         \/ Continue(i)
         \/ \E target \in Targets :
              \/ \E except \in Excepts : Start(i, "send", target, except, NoRoom)
              \/ Start(i, "disconnect", target, {}, NoRoom)
              \/ \E op \in {"join", "leave"}, r \in Rooms : Start(i, op, target, {}, r)

Spec == Init /\ [][Next]_vars

\* Sockets are interchangeable, and so are rooms.
Symmetry == Permutations(Sids) \cup Permutations(Rooms)

-----------------------------------------------------------------------------
(* Properties *)

TypeOK ==
    /\ DOMAIN rooms \subseteq AllRooms /\ \A r \in DOMAIN rooms : rooms[r] \subseteq Sids
    /\ DOMAIN sids \subseteq Sids /\ \A s \in DOMAIN sids : sids[s] \subseteq AllRooms
    /\ sockets \subseteq Sids
    /\ life \in [Sids -> {"new", "up", "closing", "left", "gone"}]
    /\ joins \subseteq Sids \X Rooms /\ racing \subseteq Sids \X Rooms
    /\ acts \in 0..MaxActs
    /\ DOMAIN calls = 1..MaxCalls

\* The two indexes say the same, and no empty room keeps an entry: what AddAll,
\* Delete and DeleteAll write under the mutex fits together whatever the calls
\* of apply do in between (adapter_memory.go:39-100).
RoomsAgree ==
    /\ \A r \in DOMAIN rooms : rooms[r] # {}
    /\ \A r \in AllRooms, s \in Sids : s \in Entry(rooms, r) <=> r \in Entry(sids, s)

\* A call of apply that has returned has called back every socket that was in
\* the store and in one of the named rooms, and not excepted, when the call took
\* the mutex, and that stayed there: changes to the maps in between lose nobody
\* else (adapter_memory.go:172-217).  It has called none back twice, even if it is
\* in several of the rooms or leaves and joins again while the call runs; only a
\* socket that a racing Join brings back after it has left everything can be met
\* twice, by a call that names no room and so keeps no ids.
ReachedOnce ==
    \A i \in 1..MaxCalls : calls[i].op = "done" =>
      /\ calls[i].missed = {}
      /\ \A s \in calls[i].twice : \E r \in Rooms : <<s, r>> \in racing

\* A socket that has left all its rooms on closing is in none of them again,
\* except for those that a Join had asked for before onClose replaced the join
\* function: Join reads it under joinMu and calls it after (server_socket.go:275).
ClosedLeavesNothing ==
    \A s \in Sids : life[s] \in {"left", "gone"} =>
      \A r \in Entry(sids, s) : <<s, r>> \in racing
=============================================================================
