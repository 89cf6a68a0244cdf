--------------------------- MODULE AdapterProofs ---------------------------
(***************************************************************************)
(* The indexes of an adapter agree, a socket that has closed is left in no *)
(* room but those of racing Joins, and a call of apply misses nobody and   *)
(* calls nobody back twice, for any sets of sockets and rooms and any      *)
(* number of calls.                                                        *)
(*                                                                         *)
(* The first rests on what one socket's joins and leaves do to the two     *)
(* maps, and on the rooms that a call of apply joins or leaves being named *)
(* rooms.  The second needs to know that every Join that is under way for  *)
(* a socket whose onClose has begun is a racing one.                       *)
(*                                                                         *)
(* For the third every call in progress is given an invariant of its own   *)
(* (Running), about the members of the rooms, the store, the sockets that  *)
(* have left and those with a racing Join.  A step of anybody changes      *)
(* those four in one of two ways, Grows or Leaves, and both keep it; so do *)
(* the call's own visits.  A call over all sockets needs one more fact,    *)
(* Entries: a socket can be met again only after it has left, and is back  *)
(* in the map then only by a racing Join.                                  *)
(***************************************************************************)
EXTENDS Adapter, TLAPS


\* Zenon checks the steps that name no prover; those with arithmetic, records and
\* functions to be computed name SMT.
USE ZenonT(20)

\* Two maps of sets that are indexes of one relation between rooms and sockets.
Indexes(R, S) ==
    /\ R = [r \in DOMAIN R |-> R[r]] /\ S = [s \in DOMAIN S |-> S[s]]
    /\ DOMAIN R \subseteq AllRooms /\ \A r \in DOMAIN R : R[r] \subseteq Sids
    /\ DOMAIN S \subseteq Sids /\ \A s \in DOMAIN S : S[s] \subseteq AllRooms
    /\ \A r \in DOMAIN R : R[r] # {}
    /\ \A r \in AllRooms, s \in Sids : s \in Entry(R, r) <=> r \in Entry(S, s)

\* AddAll keeps the indexes together.
LEMMA AddKeepsIndexes ==
    ASSUME NEW R, NEW S, Indexes(R, S), NEW s \in Sids, NEW new \in SUBSET AllRooms
    PROVE  Indexes(AddRooms(R, S, s, new), AddSids(R, S, s, new))
  BY SMT DEF Indexes, AddRooms, AddSids, Entry

\* So does Delete of one room.
LEMMA DropKeepsIndexes ==
    ASSUME NEW R, NEW S, Indexes(R, S), NEW s \in Sids, NEW r \in AllRooms
    PROVE  Indexes(DropFromRooms(R, s, {r}), DropRoom(S, s, r))
  BY SMT DEF Indexes, DropFromRooms, DropRoom, Entry

\* And DeleteAll, which forgets the socket.
LEMMA DropAllKeepsIndexes ==
    ASSUME NEW R, NEW S, Indexes(R, S), NEW s \in Sids
    PROVE  Indexes(DropFromRooms(R, s, Entry(S, s)), [x \in DOMAIN S \ {s} |-> S[x]])
  BY SMT DEF Indexes, DropFromRooms, Entry

-----------------------------------------------------------------------------
\* Calls under way are records; those of SocketsJoin and SocketsLeave name a room.
CallTyped(c) ==
    /\ c.op \in Ops \cup {"idle", "done"}
    /\ c.op \in Ops => {"op", "room"} \subseteq DOMAIN c
    /\ c.op \in {"join", "leave"} => c.room \in Rooms

CallsTyped(C) == DOMAIN C = 1..MaxCalls /\ \A i \in 1..MaxCalls : CallTyped(C[i])

\* The Joins under way for a socket whose onClose has begun are racing ones.
JoinsRace ==
    \A p \in joins : life[p[1]] \in {"closing", "left", "gone"} => p \in racing

Inv ==
    /\ sockets \subseteq Sids
    /\ life \in [Sids -> {"new", "up", "closing", "left", "gone"}]
    /\ joins \subseteq Sids \X Rooms
    /\ Indexes(rooms, sids)
    /\ CallsTyped(calls)
    /\ JoinsRace
    /\ ClosedLeavesNothing

\* Forget changes neither the operation nor the room of a call.
LEMMA ForgetKeepsCalls ==
    ASSUME NEW C, CallsTyped(C), NEW s, NEW old, NEW gone
    PROVE  CallsTyped(ForgetAll(C, s, old, gone))
  <1>1. ASSUME NEW c, CallTyped(c)
        PROVE  CallTyped(Forget(c, s, old, gone))
    <2>1. CASE c.op \in {"idle", "done"}
      BY <1>1, <2>1 DEF Forget
    <2>2. CASE c.op \notin {"idle", "done"}
      <3> DEFINE f == Forget(c, s, old, gone)
      <3>1. {"op", "room"} \subseteq DOMAIN c
        BY <1>1, <2>2 DEF CallTyped
      <3>2. DOMAIN f = DOMAIN c /\ f.op = c.op /\ f.room = c.room
        BY <2>2, <3>1 DEF Forget
      <3> QED BY <1>1, <3>2 DEF CallTyped
    <2> QED BY <2>1, <2>2
  <1> QED BY <1>1 DEF CallsTyped, ForgetAll

\* Nor does a visit.
LEMMA VisitedKeepsCall ==
    ASSUME NEW c, CallTyped(c), c.op \in Ops, NEW r, NEW s, NEW over, NEW skip
    PROVE  /\ CallTyped(Visited(c, r, s, over, skip))
           /\ Visited(c, r, s, over, skip).op \in Ops
  <1> DEFINE v == Visited(c, r, s, over, skip)
  <1>1. {"op", "room"} \subseteq DOMAIN c
    BY DEF CallTyped
  <1>2. DOMAIN v = DOMAIN c /\ v.op = c.op /\ v.room = c.room
    BY <1>1 DEF Visited
  <1> QED BY <1>2 DEF CallTyped

-----------------------------------------------------------------------------
\* What a join of a socket that is up, a leave and the start of an onClose keep.
LEMMA OnCloseKeepsInv ==
    ASSUME Inv, NEW s \in Sids, life[s] = "up", OnClose(s), UNCHANGED <<sids, joins>>
    PROVE  /\ life' \in [Sids -> {"new", "up", "closing", "left", "gone"}]
           /\ JoinsRace'
           /\ ClosedLeavesNothing'
  <1>1. life' \in [Sids -> {"new", "up", "closing", "left", "gone"}]
    BY DEF Inv, OnClose
  <1>2. JoinsRace'
    BY DEF Inv, OnClose, JoinsRace
  <1>3. ClosedLeavesNothing'
    BY DEF Inv, OnClose, ClosedLeavesNothing
  <1> QED BY <1>1, <1>2, <1>3

\* Leaving a room keeps ClosedLeavesNothing.
LEMMA LeaveKeepsClosed ==
    ASSUME Inv, NEW s \in Sids, NEW r \in AllRooms, sids' = DropRoom(sids, s, r),
           UNCHANGED <<life, racing>>
    PROVE  ClosedLeavesNothing'
  <1>1. \A x \in Sids : Entry(sids', x) \subseteq Entry(sids, x)
    BY DEF DropRoom, Entry
  <1> QED BY <1>1 DEF Inv, ClosedLeavesNothing

\* A socket's join keeps ClosedLeavesNothing if it is up or the Join is a racing one.
LEMMA JoinKeepsClosed ==
    ASSUME Inv, NEW s \in Sids, NEW r \in AllRooms, sids' = AddSids(rooms, sids, s, {r}),
           UNCHANGED <<life, racing>>, life[s] \in {"left", "gone"} => <<s, r>> \in racing
    PROVE  ClosedLeavesNothing'
  <1>1. \A x \in Sids : Entry(sids', x) \subseteq Entry(sids, x) \cup (IF x = s THEN {r} ELSE {})
    BY DEF AddSids, Entry
  <1> QED BY <1>1 DEF Inv, ClosedLeavesNothing

\* The callback of a call of apply.
LEMMA CallBackKeepsInv ==
    ASSUME Inv, NEW i \in 1..MaxCalls, NEW d, CallTyped(d), d.op \in Ops, NEW s \in Sids,
           CallBack(i, d, s), UNCHANGED <<sockets, joins>>
    PROVE  Inv'
  <1> DEFINE C == [calls EXCEPT ![i] = d]
  <1>0. CallsTyped(C)
    BY DEF Inv, CallsTyped
  <1>1. CASE d.op = "send" /\ calls' = C /\ UNCHANGED <<rooms, sids, life, racing>>
    BY <1>0, <1>1 DEF Inv, JoinsRace, ClosedLeavesNothing
  <1>2. CASE /\ d.op = "join"
             /\ calls' = C /\ UNCHANGED <<life, racing>>
             /\ IF life[s] = "up"
                THEN /\ rooms' = AddRooms(rooms, sids, s, {d.room})
                     /\ sids' = AddSids(rooms, sids, s, {d.room})
                ELSE UNCHANGED <<rooms, sids>>
    <2>1. d.room \in AllRooms
      BY <1>2 DEF CallTyped, AllRooms
    <2>2. Indexes(rooms', sids')
      BY SMT, <1>2, <2>1, AddKeepsIndexes DEF Inv
    <2>3. ClosedLeavesNothing'
      <3>1. CASE life[s] = "up"
        BY <1>2, <2>1, <3>1, JoinKeepsClosed
      <3>2. CASE life[s] # "up"
        BY <1>2, <3>2 DEF Inv, ClosedLeavesNothing
      <3> QED BY <3>1, <3>2
    <2> QED BY <1>0, <1>2, <2>2, <2>3 DEF Inv, JoinsRace
  <1>3. CASE /\ d.op = "leave"
             /\ rooms' = DropFromRooms(rooms, s, {d.room})
             /\ sids' = DropRoom(sids, s, d.room)
             /\ \E gone : calls' = ForgetAll(C, s, {d.room}, gone)
             /\ UNCHANGED <<life, racing>>
    <2>1. d.room \in AllRooms
      BY <1>3 DEF CallTyped, AllRooms
    <2>2. Indexes(rooms', sids')
      BY <1>3, <2>1, DropKeepsIndexes DEF Inv
    <2>3. CallsTyped(calls')
      BY SMT, <1>0, <1>3, ForgetKeepsCalls
    <2>4. ClosedLeavesNothing'
      BY <1>3, <2>1, LeaveKeepsClosed
    <2> QED BY <1>3, <2>2, <2>3, <2>4 DEF Inv, JoinsRace
  <1>4. CASE /\ d.op = "disconnect"
             /\ IF life[s] = "up" THEN OnClose(s) ELSE UNCHANGED <<life, racing>>
             /\ calls' = C /\ UNCHANGED <<rooms, sids>>
    <2>1. CASE life[s] = "up"
      BY <1>0, <1>4, <2>1, OnCloseKeepsInv DEF Inv
    <2>2. CASE life[s] # "up"
      BY <1>0, <1>4, <2>2 DEF Inv, JoinsRace, ClosedLeavesNothing
    <2> QED BY <2>1, <2>2
  <1> QED BY <1>1, <1>2, <1>3, <1>4 DEF CallBack

\* One turn of apply, or its end.
LEMMA ApplyKeepsInv ==
    ASSUME Inv, NEW i \in 1..MaxCalls, NEW c, CallTyped(c), c.op \in Ops,
           Visit(i, c) \/ Return(i, c)
    PROVE  Inv'
  <1>1. CASE Visit(i, c)
    <2>1. UNCHANGED <<sockets, joins>>
      BY <1>1 DEF Visit
    <2>2. PICK r, over, skip, s :
             s \in sockets /\ CallBack(i, Visited(c, r, s, over, skip), s)
      BY <1>1 DEF Visit, Candidates
    <2>3. s \in Sids
      BY <2>2 DEF Inv
    <2>4. CallTyped(Visited(c, r, s, over, skip)) /\ Visited(c, r, s, over, skip).op \in Ops
      BY VisitedKeepsCall
    <2> QED BY <2>1, <2>2, <2>3, <2>4, CallBackKeepsInv
  <1>2. CASE Return(i, c)
    <2>1. CallTyped(Done(c))
      BY DEF CallTyped, Done, Ops
    <2>2. CallsTyped(calls')
      BY <1>2, <2>1 DEF Inv, CallsTyped, Return
    <2> QED BY <1>2, <2>2 DEF Return, Inv, JoinsRace, ClosedLeavesNothing
  <1> QED BY <1>1, <1>2

-----------------------------------------------------------------------------
\* The adapter starts empty.
LEMMA InitInv == Init => Inv
  <1> SUFFICES ASSUME Init PROVE Inv
    OBVIOUS
  <1>1. Indexes(rooms, sids)
    BY DEF Init, Empty, Indexes, Entry
  <1>2. CallsTyped(calls)
    BY DEF Init, CallsTyped, CallTyped, Idle, Ops
  <1> QED BY <1>1, <1>2 DEF Init, Inv, JoinsRace, ClosedLeavesNothing

\* Every step of a socket, an application or a call keeps the invariant.
LEMMA NextKeepsInv == Inv /\ [Next]_vars => Inv'
  <1> SUFFICES ASSUME Inv, [Next]_vars PROVE Inv'
    OBVIOUS
  <1>1. CASE UNCHANGED vars
    BY <1>1 DEF vars, Inv, JoinsRace, ClosedLeavesNothing
  <1>2. ASSUME NEW s \in Sids, Connect(s) PROVE Inv'
    <2>1. Indexes(rooms', sids')
      BY <1>2, AddKeepsIndexes DEF Connect, Inv, AllRooms
    <2>2. life' \in [Sids -> {"new", "up", "closing", "left", "gone"}]
      BY <1>2 DEF Connect, Inv
    <2>3. ClosedLeavesNothing'
      BY <1>2 DEF Connect, Inv, ClosedLeavesNothing, AddSids, Entry
    <2>4. JoinsRace'
      BY <1>2 DEF Connect, Inv, JoinsRace
    <2> QED BY <1>2, <2>1, <2>2, <2>3, <2>4 DEF Connect, Inv
  <1>3. ASSUME NEW s \in Sids, Close(s) PROVE Inv'
    BY <1>3, OnCloseKeepsInv DEF Close, Inv
  <1>4. ASSUME NEW s \in Sids, LeaveAll(s) PROVE Inv'
    <2>1. Indexes(rooms', sids')
      BY <1>4, DropAllKeepsIndexes DEF LeaveAll, DeleteAll, Inv
    <2>2. CallsTyped(calls')
      BY <1>4, ForgetKeepsCalls DEF LeaveAll, DeleteAll, Inv
    <2>3. life' \in [Sids -> {"new", "up", "closing", "left", "gone"}] /\ JoinsRace'
      BY <1>4 DEF LeaveAll, Inv, JoinsRace
    <2>4. ClosedLeavesNothing'
      BY <1>4 DEF LeaveAll, DeleteAll, Inv, ClosedLeavesNothing, Entry
    <2> QED BY <1>4, <2>1, <2>2, <2>3, <2>4 DEF LeaveAll, Inv
  <1>5. ASSUME NEW s \in Sids, Remove(s) PROVE Inv'
    <2>1. CallsTyped(calls')
      BY <1>5, ForgetKeepsCalls DEF Remove, Inv
    <2>2. life' \in [Sids -> {"new", "up", "closing", "left", "gone"}] /\ JoinsRace'
      BY <1>5 DEF Remove, Inv, JoinsRace
    <2> QED BY <1>5, <2>1, <2>2 DEF Remove, Inv, ClosedLeavesNothing
  <1>6. ASSUME NEW s \in Sids, NEW r \in Rooms, ReadJoin(s, r) PROVE Inv'
    BY SMT, <1>6 DEF ReadJoin, Inv, JoinsRace, ClosedLeavesNothing
  <1>7. ASSUME NEW s \in Sids, NEW r \in Rooms, Join(s, r) PROVE Inv'
    <2>1. Indexes(rooms', sids')
      BY <1>7, AddKeepsIndexes DEF Join, Inv, AllRooms
    <2>2. life[s] \in {"left", "gone"} => <<s, r>> \in racing
      BY <1>7 DEF Join, Inv, JoinsRace
    <2>3. ClosedLeavesNothing'
      BY <1>7, <2>2, JoinKeepsClosed DEF Join, AllRooms
    <2> QED BY <1>7, <2>1, <2>3 DEF Join, Inv, JoinsRace
  <1>8. ASSUME NEW s \in Sids, NEW r \in Rooms, Leave(s, r) PROVE Inv'
    <2>1. Indexes(rooms', sids')
      BY <1>8, DropKeepsIndexes DEF Leave, Inv, AllRooms
    <2>2. CallsTyped(calls')
      BY <1>8, ForgetKeepsCalls DEF Leave, Inv
    <2>3. ClosedLeavesNothing'
      BY <1>8, LeaveKeepsClosed DEF Leave, AllRooms
    <2> QED BY <1>8, <2>1, <2>2, <2>3 DEF Leave, Inv, JoinsRace
  <1>9. ASSUME NEW i \in 1..MaxCalls, Continue(i) PROVE Inv'
    BY <1>9, ApplyKeepsInv DEF Continue, Inv, CallsTyped
  <1>10. ASSUME NEW i \in 1..MaxCalls, NEW op \in Ops, NEW target, NEW except, NEW room,
                op \in {"join", "leave"} => room \in Rooms,
                Start(i, op, target, except, room)
         PROVE  Inv'
    <2> DEFINE c == Call(op, target, except, room)
    <2>1. CallTyped(c) /\ c.op \in Ops
      BY <1>10 DEF CallTyped, Call
    <2>2. Visit(i, c) \/ Return(i, c)
      BY <1>10 DEF Start
    <2> HIDE DEF c
    <2> QED BY <2>1, <2>2, ApplyKeepsInv
  <1>11. CASE \E s \in Sids : Connect(s) \/ Close(s) \/ LeaveAll(s) \/ Remove(s)
    BY <1>2, <1>3, <1>4, <1>5, <1>11
  <1>12. CASE \E s \in Sids, r \in Rooms : ReadJoin(s, r) \/ Join(s, r) \/ Leave(s, r)
    BY <1>6, <1>7, <1>8, <1>12
  <1>13. CASE \E i \in 1..MaxCalls, target \in Targets :
                \/ \E except \in Excepts : Start(i, "send", target, except, NoRoom)
                \/ Start(i, "disconnect", target, {}, NoRoom)
                \/ \E op \in {"join", "leave"}, r \in Rooms : Start(i, op, target, {}, r)
    BY <1>10, <1>13 DEF Ops
  <1> QED BY <1>1, <1>9, <1>11, <1>12, <1>13 DEF Next

\* The two indexes of the adapter agree in every reachable state, and no empty
\* room keeps an entry (AddAll, Delete and DeleteAll of adapter_memory.go).
THEOREM RoomsAgreeHolds == Spec => []RoomsAgree
  <1>1. Inv => RoomsAgree
    BY DEF Inv, Indexes, RoomsAgree
  <1> QED BY <1>1, InitInv, NextKeepsInv, PTL DEF Spec

\* A socket that has left its rooms on closing is in none again but for the
\* Joins that had read their function before onClose replaced it.
THEOREM ClosedLeavesNothingHolds == Spec => []ClosedLeavesNothing
  <1>1. Inv => ClosedLeavesNothing
    BY DEF Inv
  <1> QED BY <1>1, InitInv, NextKeepsInv, PTL DEF Spec

-----------------------------------------------------------------------------
(* Calls of apply reach whom they have to, once.                           *)

\* What a call can range over, the members of all of that, the sockets that have
\* left their rooms on closing and those with a racing Join.
Ranges == AllRooms \cup {All}
M == [r \in Ranges |-> Members(r)]
Left == {s \in Sids : life[s] \in {"left", "gone"}}
Raced == {s \in Sids : \E r \in Rooms : <<s, r>> \in racing}

Fields ==
    {"op", "room", "except", "left", "cur", "must", "seen", "ids", "on", "reached", "due"}

\* A pair that is still due is a member that was not called back, of a room that
\* the call has still to visit and, if it is in the middle of it, to produce.
Due(c, m, K) ==
    \A r \in Ranges, s \in Sids : <<r, s>> \in c.due =>
      /\ s \in K /\ s \in m[r] /\ s \notin c.except
      /\ c.reached[s] = 0 => r \in c.left /\ (r = c.cur => s \in c.must)

\* A call with named rooms keeps whom it has called back; one over all sockets
\* has produced it, unless it has left in the meantime.
Kept(c, L) ==
    \/ c.left \subseteq AllRooms /\ \A s \in Sids : c.reached[s] > 0 => s \in c.ids
    \/ /\ c.left \subseteq {All}
       /\ \A s \in Sids : c.reached[s] > 0 => (c.cur = All /\ s \in c.seen) \/ s \in L

Running(c, m, K, L, Q) ==
    /\ DOMAIN c = Fields
    /\ c.reached \in [Sids -> 0..2]
    /\ c.due \subseteq Ranges \X Sids
    /\ c.ids \subseteq Sids /\ \A s \in c.ids : c.reached[s] > 0
    /\ Due(c, m, K)
    /\ Kept(c, L)
    /\ \A s \in Sids : c.reached[s] > 1 => s \in Q

CallReach(c, m, K, L, Q) ==
    /\ c.op \in Ops => Running(c, m, K, L, Q)
    /\ c.op = "done" => c.missed = {} /\ c.twice \subseteq Q

\* A socket in the store has connected; one that has not begun to leave has an
\* entry, and one that has left and has an entry again has had a racing Join.
Entries ==
    /\ \A s \in Sids : life[s] = "new" => s \notin sockets
    /\ \A s \in Sids : life[s] \in {"up", "closing"} => s \in DOMAIN sids
    /\ Left \cap DOMAIN sids \subseteq Raced

CallsReach == \A i \in 1..MaxCalls : CallReach(calls[i], M, sockets, Left, Raced)

\* A step that takes nothing away leaves every call as it was.
LEMMA GrowthKeepsReach ==
    ASSUME NEW c, NEW m, NEW K, NEW L, NEW Q, CallReach(c, m, K, L, Q),
           NEW n, NEW N, NEW O, NEW P, K \subseteq N, L \subseteq O, Q \subseteq P,
           \A r \in Ranges : m[r] \subseteq n[r]
    PROVE  CallReach(c, n, N, O, P)
  <1>1. Due(c, m, K) => Due(c, n, N)
    BY DEF Due
  <1>2. Kept(c, L) => Kept(c, O)
    BY DEF Kept
  <1> QED BY <1>1, <1>2 DEF CallReach, Running

\* A step in which s leaves the rooms of old, those of gone being empty then: all
\* calls forget s there.  It leaves the store only together with all rooms, and
\* the map of all sockets only when it closes.
LEMMA ForgetKeepsReach ==
    ASSUME NEW c, c.op \in Ops \cup {"idle", "done"},
           NEW m, NEW K, NEW L, NEW Q, CallReach(c, m, K, L, Q),
           NEW n, NEW N, NEW O, NEW P, L \subseteq O, Q \subseteq P,
           NEW s, NEW old, NEW gone \in SUBSET AllRooms, gone \subseteq old,
           K \subseteq N \/ (K \subseteq N \cup {s} /\ Ranges \subseteq old),
           \A r \in Ranges : m[r] \subseteq n[r] \cup (IF r \in old THEN {s} ELSE {}),
           \A r \in gone : m[r] \subseteq {s},
           All \in old => s \in O
    PROVE  CallReach(Forget(c, s, old, gone), n, N, O, P)
  <1>1. CASE c.op \in {"idle", "done"}
    BY <1>1 DEF CallReach, Forget, Ops
  <1>2. CASE c.op \in Ops
    <2> DEFINE f == Forget(c, s, old, gone)
    <2>1. Running(c, m, K, L, Q)
      BY <1>2 DEF CallReach
    <2>2. DOMAIN c = Fields
      BY <2>1 DEF Running
    <2>3. /\ DOMAIN f = Fields /\ f.op = c.op
          /\ f.reached = c.reached /\ f.ids = c.ids /\ f.except = c.except
          /\ f.must = IF c.cur \in old THEN c.must \ {s} ELSE c.must
          /\ f.seen = IF c.cur \in old THEN c.seen \ {s} ELSE c.seen
          /\ f.left = IF c.cur \in gone THEN c.left \ {c.cur} ELSE c.left
          /\ f.cur = IF c.cur \in gone THEN NoRoom ELSE c.cur
          /\ f.due = c.due \ (old \X {s})
      BY <1>2, <2>2 DEF Forget, Fields, Ops
    <2> HIDE DEF f
    <2>4. Due(f, n, N)
      <3> SUFFICES ASSUME NEW r \in Ranges, NEW t \in Sids, <<r, t>> \in f.due
                   PROVE  /\ t \in N /\ t \in n[r] /\ t \notin f.except
                          /\ f.reached[t] = 0 => r \in f.left /\ (r = f.cur => t \in f.must)
        BY DEF Due
      <3>1. <<r, t>> \in c.due /\ (t # s \/ r \notin old)
        BY <2>3
      <3>2. /\ t \in K /\ t \in m[r] /\ t \notin c.except
            /\ c.reached[t] = 0 => r \in c.left /\ (r = c.cur => t \in c.must)
        BY <2>1, <3>1 DEF Running, Due
      <3>3. t \in N /\ t \in n[r] /\ r \notin gone /\ r # NoRoom
        BY SMT, <3>1, <3>2, AdapterAssumption DEF Ranges, AllRooms
      <3> QED BY SMT, <2>3, <3>1, <3>2, <3>3
    <2>5. Kept(f, O)
      <3>1. CASE c.left \subseteq AllRooms /\ \A t \in Sids : c.reached[t] > 0 => t \in c.ids
        BY <2>3, <3>1 DEF Kept
      <3>2. CASE /\ c.left \subseteq {All}
                 /\ \A t \in Sids : c.reached[t] > 0 => (c.cur = All /\ t \in c.seen) \/ t \in L
        <4>1. All \notin gone
          BY AdapterAssumption DEF AllRooms
        <4> QED BY SMT, <2>3, <3>2, <4>1 DEF Kept
      <3> QED BY <2>1, <3>1, <3>2 DEF Running, Kept
    <2>6. /\ f.due \subseteq Ranges \X Sids /\ f.reached \in [Sids -> 0..2]
          /\ f.ids \subseteq Sids /\ \A t \in f.ids : f.reached[t] > 0
          /\ \A t \in Sids : f.reached[t] > 1 => t \in P
      BY <2>1, <2>3 DEF Running
    <2>7. Running(f, n, N, O, P)
      BY <2>3, <2>4, <2>5, <2>6 DEF Running
    <2>8. f.op # "done"
      BY <1>2, <2>3 DEF Ops
    <2> QED BY <2>7, <2>8 DEF CallReach, f
  <1> QED BY <1>1, <1>2

\* The call that has just taken the mutex.
LEMMA CallReaches ==
    ASSUME sockets \subseteq Sids, NEW op \in Ops, NEW target \in Targets, NEW except, NEW room
    PROVE  CallReach(Call(op, target, except, room), M, sockets, Left, Raced)
  <1> DEFINE c == Call(op, target, except, room)
             start == IF target = {} THEN {All} ELSE target
  <1>1. /\ DOMAIN c = Fields /\ c.op = op /\ c.reached = [s \in Sids |-> 0] /\ c.ids = {}
        /\ c.left = start /\ c.cur = NoRoom /\ c.except = computeExceptSids(except)
        /\ c.due = {p \in start \X sockets : p[2] \in Members(p[1]) \ computeExceptSids(except)}
    <2>1. DOMAIN c = Fields
      BY DEF Call, Fields
    <2>2. c.op = op /\ c.left = start /\ c.cur = NoRoom /\ c.ids = {}
      BY DEF Call
    <2>3. c.reached = [s \in Sids |-> 0]
      BY DEF Call
    <2>4. c.except = computeExceptSids(except)
      BY DEF Call
    <2>5. c.due = {p \in start \X sockets : p[2] \in Members(p[1]) \ computeExceptSids(except)}
      BY DEF Call
    <2> HIDE DEF c, start
    <2> QED BY <2>1, <2>2, <2>3, <2>4, <2>5
  <1>2. start \subseteq AllRooms \/ start = {All}
    BY DEF Targets, AllRooms
  <1>3. start \subseteq Ranges /\ NoRoom \notin Ranges
    BY <1>2, AdapterAssumption DEF Ranges, AllRooms
  <1> HIDE DEF c, start
  <1>4. Due(c, M, sockets)
    BY <1>1, <1>3 DEF Due, M
  <1>5. Kept(c, Left)
    BY SMT, <1>1, <1>2 DEF Kept
  <1>6. c.due \subseteq Ranges \X Sids /\ c.reached \in [Sids -> 0..2]
    BY SMT, <1>1, <1>3
  <1>7. \A s \in Sids : ~(c.reached[s] > 1)
    BY SMT, <1>1
  <1>8. Running(c, M, sockets, Left, Raced)
    BY <1>1, <1>4, <1>5, <1>6, <1>7 DEF Running
  <1>9. c.op # "done"
    BY <1>1 DEF Ops
  <1> QED BY <1>8, <1>9 DEF CallReach, c

\* The range over r produces s: of the rooms it has passed nothing is due, and a
\* socket that it may produce again has left and come back.
LEMMA VisitedReaches ==
    ASSUME Inv, Entries, NEW c, c.op \in Ops, CallReach(c, M, sockets, Left, Raced),
           NEW r \in c.left, NEW over \in SUBSET (c.left \ {r}),
           \A x \in over : Passed(c, x), c.cur \in over \cup {r, NoRoom},
           NEW s, s \in Members(r), s \notin (IF r = c.cur THEN c.seen ELSE {}), s \in Candidates(c),
           NEW skip, skip \cap sockets = {}
    PROVE  CallReach(Visited(c, r, s, over, skip), M, sockets, Left, Raced)
  <1> DEFINE v == Visited(c, r, s, over, skip)
  <1>1. Running(c, M, sockets, Left, Raced)
    BY DEF CallReach
  <1>2. /\ DOMAIN c = Fields /\ c.reached \in [Sids -> 0..2] /\ c.due \subseteq Ranges \X Sids
        /\ c.ids \subseteq Sids /\ (\A t \in c.ids : c.reached[t] > 0)
        /\ \A t \in Sids : c.reached[t] > 1 => t \in Raced
    BY <1>1 DEF Running
  <1>3. /\ DOMAIN v = Fields /\ v.op = c.op /\ v.except = c.except /\ v.due = c.due
        /\ v.left = c.left \ over /\ v.cur = r
        /\ v.must = (IF r = c.cur THEN c.must ELSE Members(r)) \ (skip \cup {s})
        /\ v.seen = (IF r = c.cur THEN c.seen ELSE {}) \cup skip \cup {s}
        /\ v.ids = IF r = All THEN c.ids ELSE c.ids \cup {s}
        /\ v.reached = [c.reached EXCEPT ![s] = IF @ < 2 THEN @ + 1 ELSE @]
    BY <1>2 DEF Visited, Fields
  <1>4. s \in sockets /\ s \notin c.except /\ s \notin c.ids /\ s \in Sids
    BY DEF Candidates, Inv
  <1> HIDE DEF v
  <1>5. /\ v.reached \in [Sids -> 0..2] /\ v.reached[s] > 0
        /\ v.reached[s] > 1 => c.reached[s] > 0
        /\ \A t \in Sids : t # s => v.reached[t] = c.reached[t]
    BY SMT, <1>2, <1>3, <1>4
  <1>6. Due(v, M, sockets)
    <2> SUFFICES ASSUME NEW x \in Ranges, NEW t \in Sids, <<x, t>> \in v.due
                 PROVE  /\ t \in sockets /\ t \in M[x] /\ t \notin v.except
                        /\ v.reached[t] = 0 => x \in v.left /\ (x = v.cur => t \in v.must)
      BY DEF Due
    <2>1. /\ t \in sockets /\ t \in M[x] /\ t \notin c.except
          /\ c.reached[t] = 0 => x \in c.left /\ (x = c.cur => t \in c.must)
      BY <1>1, <1>3 DEF Running, Due
    <2>2. ASSUME v.reached[t] = 0 PROVE x \in v.left /\ (x = v.cur => t \in v.must)
      <3>1. t # s /\ c.reached[t] = 0
        BY SMT, <1>5, <2>2
      <3>2. t \in Candidates(c) /\ t \notin skip
        BY SMT, <1>2, <2>1, <3>1 DEF Candidates
      <3>3. t \in Members(x)
        BY <2>1 DEF M
      <3>4. x \notin over
        BY <2>1, <3>1, <3>2, <3>3 DEF Passed
      <3> QED BY <1>3, <2>1, <3>1, <3>2, <3>3, <3>4
    <2> QED BY <1>3, <2>1, <2>2
  <1>7. c.reached[s] > 0 => s \in Raced
    <2>1. SUFFICES ASSUME c.reached[s] > 0 PROVE s \in Raced
      OBVIOUS
    <2>2. c.left \subseteq {All} /\ ((c.cur = All /\ s \in c.seen) \/ s \in Left)
      BY <1>1, <1>4, <2>1 DEF Running, Kept
    <2>3. r = All /\ s \in Left /\ s \in DOMAIN sids
      BY <2>2 DEF Members
    <2> QED BY <2>3 DEF Entries
  <1>8. Kept(v, Left)
    <2>1. CASE c.left \subseteq AllRooms /\ \A t \in Sids : c.reached[t] > 0 => t \in c.ids
      <3>1. r # All
        BY <2>1, AdapterAssumption DEF AllRooms
      <3> QED BY SMT, <1>3, <1>5, <2>1, <3>1 DEF Kept
    <2>2. CASE /\ c.left \subseteq {All}
               /\ \A t \in Sids : c.reached[t] > 0 => (c.cur = All /\ t \in c.seen) \/ t \in Left
      <3>1. r = All
        BY <2>2
      <3> QED BY <1>3, <1>5, <2>2, <3>1 DEF Kept
    <2> QED BY <1>1, <2>1, <2>2 DEF Running, Kept
  <1>9. v.ids \subseteq Sids /\ \A t \in v.ids : v.reached[t] > 0
    BY SMT, <1>2, <1>3, <1>4, <1>5
  <1>10. \A t \in Sids : v.reached[t] > 1 => t \in Raced
    BY <1>2, <1>5, <1>7
  <1>11. v.due \subseteq Ranges \X Sids
    BY <1>2, <1>3
  <1>12. Running(v, M, sockets, Left, Raced)
    BY <1>3, <1>5, <1>6, <1>8, <1>9, <1>10, <1>11 DEF Running
  <1>13. v.op # "done"
    BY <1>3 DEF Ops
  <1> QED BY <1>12, <1>13 DEF CallReach, v

\* When apply returns nothing is due any more.
LEMMA DoneReaches ==
    ASSUME NEW c, Running(c, M, sockets, Left, Raced), \A r \in c.left : Passed(c, r)
    PROVE  CallReach(Done(c), M, sockets, Left, Raced)
  <1>1. /\ c.reached \in [Sids -> 0..2] /\ c.due \subseteq Ranges \X Sids
        /\ \A t \in c.ids : c.reached[t] > 0
        /\ \A t \in Sids : c.reached[t] > 1 => t \in Raced
    BY DEF Running
  <1>2. ASSUME NEW x \in Ranges, NEW t \in Sids, <<x, t>> \in c.due, c.reached[t] = 0
        PROVE  FALSE
    <2>1. /\ t \in sockets /\ t \in M[x] /\ t \notin c.except
          /\ x \in c.left /\ (x = c.cur => t \in c.must)
      BY <1>2 DEF Running, Due
    <2>2. t \in Candidates(c) /\ t \in Members(x)
      BY SMT, <1>1, <1>2, <2>1 DEF Candidates, M
    <2> QED BY <2>1, <2>2 DEF Passed
  <1>3. {p[2] : p \in {q \in c.due : c.reached[q[2]] = 0}} = {}
    BY SMT, <1>1, <1>2
  <1>4. {s \in Sids : c.reached[s] > 1} \subseteq Raced
    BY <1>1
  <1>5. Done(c).op = "done" /\ Done(c).missed = {} /\ Done(c).twice \subseteq Raced
    BY <1>3, <1>4 DEF Done
  <1> QED BY <1>5 DEF CallReach, Ops

\* What a step does to whom the calls are about: members and store may only grow,
\* and who has left or raced stays so.
Grows ==
    /\ \A r \in Ranges : M[r] \subseteq M'[r]
    /\ sockets \subseteq sockets' /\ Left \subseteq Left' /\ Raced \subseteq Raced'

\* Or s leaves the rooms of old.
Leaves(s, old, gone) ==
    /\ gone \subseteq AllRooms /\ gone \subseteq old
    /\ sockets \subseteq sockets' \/ (sockets \subseteq sockets' \cup {s} /\ Ranges \subseteq old)
    /\ \A r \in Ranges : M[r] \subseteq M'[r] \cup (IF r \in old THEN {s} ELSE {})
    /\ \A r \in gone : M[r] \subseteq {s}
    /\ All \in old => s \in Left'
    /\ Left \subseteq Left' /\ Raced \subseteq Raced'

\* All calls after a step that takes nothing away.
LEMMA GrowsKeepsCalls ==
    ASSUME Grows, NEW C, DOMAIN C = 1..MaxCalls,
           \A i \in 1..MaxCalls : CallReach(C[i], M, sockets, Left, Raced), calls' = C
    PROVE  CallsReach'
  <1> SUFFICES ASSUME NEW i \in 1..MaxCalls
               PROVE  CallReach(C[i], M', sockets', Left', Raced')
    BY DEF CallsReach
  <1> QED BY GrowthKeepsReach DEF Grows

\* The calls forget the socket that leaves.
LEMMA LeavesKeepsCalls ==
    ASSUME NEW s, NEW old, NEW gone, Leaves(s, old, gone), NEW C, CallsTyped(C),
           \A i \in 1..MaxCalls : CallReach(C[i], M, sockets, Left, Raced),
           calls' = ForgetAll(C, s, old, gone)
    PROVE  CallsReach'
  <1> SUFFICES ASSUME NEW i \in 1..MaxCalls
               PROVE  CallReach(Forget(C[i], s, old, gone), M', sockets', Left', Raced')
    BY DEF CallsReach, CallsTyped, ForgetAll
  <1>1. CallReach(C[i], M, sockets, Left, Raced) /\ C[i].op \in Ops \cup {"idle", "done"}
    BY DEF CallsTyped, CallTyped
  <1> QED BY SMT, <1>1, ForgetKeepsReach DEF Leaves

\* A join only adds members.
LEMMA JoinGrows ==
    ASSUME NEW s \in Sids, NEW r \in AllRooms,
           rooms' = AddRooms(rooms, sids, s, {r}), sids' = AddSids(rooms, sids, s, {r})
    PROVE  /\ \A x \in Ranges : M[x] \subseteq M'[x]
           /\ DOMAIN sids' = DOMAIN sids \cup {s}
  BY DEF M, Members, Ranges, Entry, AddRooms, AddSids

\* A leave takes s from the one room, and the entry only from an empty one.
LEMMA LeaveShrinks ==
    ASSUME NEW s \in Sids, NEW r \in AllRooms,
           rooms' = DropFromRooms(rooms, s, {r}), sids' = DropRoom(sids, s, r)
    PROVE  /\ \A x \in Ranges : M[x] \subseteq M'[x] \cup (IF x \in {r} THEN {s} ELSE {})
           /\ \A x \in {r} \ DOMAIN rooms' : M[x] \subseteq {s}
           /\ DOMAIN sids' = DOMAIN sids
  <1>1. All \notin AllRooms
    BY AdapterAssumption DEF AllRooms
  <1> QED BY <1>1 DEF M, Members, Ranges, Entry, DropFromRooms, DropRoom

\* The callback of a call of apply.
LEMMA CallBackKeepsReach ==
    ASSUME Inv, Entries, CallsReach, NEW i \in 1..MaxCalls, NEW d, CallTyped(d), d.op \in Ops,
           CallReach(d, M, sockets, Left, Raced), NEW s \in Sids,
           CallBack(i, d, s), UNCHANGED <<sockets, joins>>
    PROVE  Entries' /\ CallsReach'
  <1> DEFINE C == [calls EXCEPT ![i] = d]
  <1>0. /\ CallsTyped(C) /\ DOMAIN C = 1..MaxCalls
        /\ \A j \in 1..MaxCalls : CallReach(C[j], M, sockets, Left, Raced)
    BY DEF Inv, CallsTyped, CallsReach
  <1>1. CASE d.op = "send" /\ calls' = C /\ UNCHANGED <<rooms, sids, life, racing>>
    <2>1. M' = M /\ Left' = Left /\ Raced' = Raced
      BY <1>1 DEF M, Members, Left, Raced
    <2>2. Entries'
      BY <1>1, <2>1 DEF Entries
    <2>3. Grows
      BY <2>1 DEF Grows
    <2> QED BY <1>0, <1>1, <2>2, <2>3, GrowsKeepsCalls
  <1>2. CASE /\ d.op = "join"
             /\ calls' = C /\ UNCHANGED <<life, racing>>
             /\ IF life[s] = "up"
                THEN /\ rooms' = AddRooms(rooms, sids, s, {d.room})
                     /\ sids' = AddSids(rooms, sids, s, {d.room})
                ELSE UNCHANGED <<rooms, sids>>
    <2>1. d.room \in AllRooms /\ Left' = Left /\ Raced' = Raced
      BY <1>2 DEF CallTyped, AllRooms, Left, Raced
    <2>2. (\A x \in Ranges : M[x] \subseteq M'[x]) /\ DOMAIN sids' = DOMAIN sids
      <3>1. CASE life[s] = "up"
        BY <1>2, <2>1, <3>1, JoinGrows DEF Entries
      <3>2. CASE life[s] # "up"
        BY <1>2, <3>2 DEF M, Members
      <3> QED BY <3>1, <3>2
    <2>3. Entries'
      BY <1>2, <2>1, <2>2 DEF Entries
    <2>4. Grows
      BY <2>1, <2>2 DEF Grows
    <2> QED BY <1>0, <1>2, <2>3, <2>4, GrowsKeepsCalls
  <1>3. CASE /\ d.op = "leave"
             /\ rooms' = DropFromRooms(rooms, s, {d.room})
             /\ sids' = DropRoom(sids, s, d.room)
             /\ calls' = ForgetAll(C, s, {d.room}, {d.room} \ DOMAIN rooms')
             /\ UNCHANGED <<life, racing>>
    <2>1. d.room \in AllRooms /\ Left' = Left /\ Raced' = Raced /\ d.room # All
      BY <1>3, AdapterAssumption DEF CallTyped, AllRooms, Left, Raced
    <2>2. /\ \A x \in Ranges : M[x] \subseteq M'[x] \cup (IF x \in {d.room} THEN {s} ELSE {})
          /\ \A x \in {d.room} \ DOMAIN rooms' : M[x] \subseteq {s}
          /\ DOMAIN sids' = DOMAIN sids
      BY <1>3, <2>1, LeaveShrinks
    <2>3. Entries'
      BY <1>3, <2>1, <2>2 DEF Entries
    <2>4. Leaves(s, {d.room}, {d.room} \ DOMAIN rooms')
      BY <2>1, <2>2 DEF Leaves
    <2>5. PICK g : g = {d.room} \ DOMAIN rooms'
      OBVIOUS
    <2> QED BY <1>0, <1>3, <2>3, <2>4, <2>5, LeavesKeepsCalls
  <1>4. CASE /\ d.op = "disconnect"
             /\ IF life[s] = "up" THEN OnClose(s) ELSE UNCHANGED <<life, racing>>
             /\ calls' = C /\ UNCHANGED <<rooms, sids>>
    <2>1. M' = M /\ Left' = Left /\ Raced \subseteq Raced'
      BY <1>4 DEF M, Members, Left, Raced, OnClose, Inv
    <2>2. Entries'
      BY <1>4, <2>1 DEF Entries, OnClose, Inv
    <2>3. Grows
      BY <2>1 DEF Grows
    <2> QED BY <1>0, <1>4, <2>2, <2>3, GrowsKeepsCalls
  <1> QED BY <1>1, <1>2, <1>3, <1>4 DEF CallBack

\* One turn of apply, or its end.
LEMMA ApplyKeepsReach ==
    ASSUME Inv, Entries, CallsReach, NEW i \in 1..MaxCalls, NEW c, CallTyped(c), c.op \in Ops,
           CallReach(c, M, sockets, Left, Raced), Visit(i, c) \/ Return(i, c)
    PROVE  Entries' /\ CallsReach'
  <1>1. CASE Visit(i, c)
    <2>1. UNCHANGED <<sockets, joins>>
      BY <1>1 DEF Visit
    <2>2. PICK r, over, s, skip :
             /\ r \in c.left /\ over \in SUBSET (c.left \ {r})
             /\ \A x \in over : Passed(c, x)
             /\ c.cur \in over \cup {r, NoRoom}
             /\ s \in Members(r) /\ s \notin (IF r = c.cur THEN c.seen ELSE {}) /\ s \in Candidates(c)
             /\ skip \cap sockets = {}
             /\ CallBack(i, Visited(c, r, s, over, skip), s)
      BY <1>1 DEF Visit
    <2>3. s \in Sids
      BY <2>2 DEF Inv, Candidates
    <2>4. CallTyped(Visited(c, r, s, over, skip)) /\ Visited(c, r, s, over, skip).op \in Ops
      BY VisitedKeepsCall
    <2>5. CallReach(Visited(c, r, s, over, skip), M, sockets, Left, Raced)
      BY <2>2, VisitedReaches
    <2>6. PICK d : d = Visited(c, r, s, over, skip)
      OBVIOUS
    <2> QED BY <2>1, <2>2, <2>3, <2>4, <2>5, <2>6, CallBackKeepsReach
  <1>2. CASE Return(i, c)
    <2>1. CallReach(Done(c), M, sockets, Left, Raced)
      BY <1>2, DoneReaches DEF CallReach, Return
    <2> DEFINE C == [calls EXCEPT ![i] = Done(c)]
    <2>2. DOMAIN C = 1..MaxCalls /\ \A j \in 1..MaxCalls : CallReach(C[j], M, sockets, Left, Raced)
      BY <2>1 DEF Inv, CallsTyped, CallsReach
    <2>3. M' = M /\ Left' = Left /\ Raced' = Raced /\ sockets' = sockets /\ calls' = C
      BY <1>2 DEF Return, M, Members, Left, Raced
    <2>4. Grows
      BY <2>3 DEF Grows
    <2>5. CallsReach'
      BY <2>2, <2>3, <2>4, GrowsKeepsCalls
    <2> QED BY <1>2, <2>3, <2>5 DEF Return, Entries
  <1> QED BY <1>1, <1>2

\* The adapter starts without calls.
LEMMA InitReach == Init => Entries /\ CallsReach
  BY SMT DEF Init, Entries, CallsReach, CallReach, Idle, Ops, Left, Empty

\* Every step keeps what is known of the sockets and of the calls.
LEMMA NextKeepsReach == Inv /\ Entries /\ CallsReach /\ [Next]_vars => Entries' /\ CallsReach'
  <1> SUFFICES ASSUME Inv, Entries, CallsReach, [Next]_vars PROVE Entries' /\ CallsReach'
    OBVIOUS
  <1>0. /\ CallsTyped(calls) /\ DOMAIN calls = 1..MaxCalls
        /\ \A i \in 1..MaxCalls : CallReach(calls[i], M, sockets, Left, Raced)
    BY DEF Inv, CallsTyped, CallsReach
  <1>1. CASE UNCHANGED vars
    <2>1. M' = M /\ Left' = Left /\ Raced' = Raced
      BY <1>1 DEF vars, M, Members, Left, Raced
    <2> QED BY <1>1, <2>1 DEF vars, Entries, CallsReach
  <1>2. ASSUME NEW s \in Sids, Connect(s) PROVE Entries' /\ CallsReach'
    <2>1. (\A x \in Ranges : M[x] \subseteq M'[x]) /\ DOMAIN sids' = DOMAIN sids \cup {s}
      BY <1>2, JoinGrows DEF Connect, AllRooms
    <2>2. Left' = Left /\ Raced' = Raced
      BY <1>2 DEF Connect, Left, Raced, Inv
    <2>3. Grows
      BY <1>2, <2>1, <2>2 DEF Grows, Connect
    <2>4. Entries'
      <3>1. s \notin Left
        BY <1>2 DEF Connect, Left
      <3> QED BY <1>2, <2>1, <2>2, <3>1 DEF Entries, Connect, Inv
    <2> QED BY <1>0, <1>2, <2>3, <2>4, GrowsKeepsCalls DEF Connect
  <1>3. ASSUME NEW s \in Sids, Close(s) PROVE Entries' /\ CallsReach'
    <2>1. M' = M /\ Left' = Left /\ Raced \subseteq Raced'
      BY <1>3 DEF Close, OnClose, M, Members, Left, Raced, Inv
    <2>2. Grows
      BY <1>3, <2>1 DEF Grows, Close
    <2>3. Entries'
      BY <1>3, <2>1 DEF Close, OnClose, Entries, Inv
    <2> QED BY <1>0, <1>3, <2>2, <2>3, GrowsKeepsCalls DEF Close
  <1>4. ASSUME NEW s \in Sids, LeaveAll(s) PROVE Entries' /\ CallsReach'
    <2> DEFINE old == Entry(sids, s)
    <2>1. /\ rooms' = DropFromRooms(rooms, s, old)
          /\ sids' = [x \in DOMAIN sids \ {s} |-> sids[x]]
          /\ calls' = ForgetAll(calls, s, old \cup {All}, old \ DOMAIN rooms')
          /\ sockets' = sockets /\ racing' = racing
          /\ life[s] = "closing" /\ life' = [life EXCEPT ![s] = "left"]
      BY <1>4 DEF LeaveAll, DeleteAll
    <2>2. Left' = Left \cup {s} /\ Raced' = Raced
      BY <2>1 DEF Left, Raced, Inv
    <2>3. old \subseteq AllRooms /\ \A r \in AllRooms : s \in Entry(rooms, r) => r \in old
      BY DEF Inv, Indexes, Entry
    <2>4. PICK o : o = old
      OBVIOUS
    <2>5. PICK g : g = old \ DOMAIN rooms'
      OBVIOUS
    <2>6. All \notin AllRooms
      BY AdapterAssumption DEF AllRooms
    <2>7. /\ \A x \in Ranges : M[x] \subseteq M'[x] \cup (IF x \in o \cup {All} THEN {s} ELSE {})
          /\ \A x \in g : M[x] \subseteq {s}
      <3> HIDE DEF old
      <3> QED BY <2>1, <2>3, <2>4, <2>5, <2>6 DEF M, Members, Ranges, Entry, DropFromRooms
    <2>8. Leaves(s, o \cup {All}, g)
      BY <2>1, <2>2, <2>3, <2>4, <2>5, <2>7 DEF Leaves
    <2>9. CallsReach'
      BY <1>0, <2>1, <2>4, <2>5, <2>8, LeavesKeepsCalls
    <2>10. Entries'
      BY <2>1, <2>2 DEF Entries, Inv
    <2> QED BY <2>9, <2>10
  <1>5. ASSUME NEW s \in Sids, Remove(s) PROVE Entries' /\ CallsReach'
    <2>1. M' = M /\ Left' = Left /\ Raced' = Raced /\ s \in Left
      BY <1>5 DEF Remove, M, Members, Left, Raced, Inv
    <2>2. Leaves(s, AllRooms \cup {All}, {})
      BY <1>5, <2>1 DEF Leaves, Remove, Ranges
    <2>3. CallsReach'
      BY <1>0, <1>5, <2>2, LeavesKeepsCalls DEF Remove
    <2>4. Entries'
      BY <1>5, <2>1 DEF Entries, Remove, Inv
    <2> QED BY <2>3, <2>4
  <1>6. ASSUME NEW s \in Sids, NEW r \in Rooms, ReadJoin(s, r) PROVE Entries' /\ CallsReach'
    <2>1. M' = M /\ Left' = Left /\ Raced' = Raced
      BY <1>6 DEF ReadJoin, M, Members, Left, Raced
    <2> QED BY <1>6, <2>1 DEF ReadJoin, Entries, CallsReach
  <1>7. ASSUME NEW s \in Sids, NEW r \in Rooms, Join(s, r) PROVE Entries' /\ CallsReach'
    <2>1. (\A x \in Ranges : M[x] \subseteq M'[x]) /\ DOMAIN sids' = DOMAIN sids \cup {s}
      BY <1>7, JoinGrows DEF Join, AllRooms
    <2>2. Left' = Left /\ Raced' = Raced
      BY <1>7 DEF Join, Left, Raced
    <2>3. Grows
      BY <1>7, <2>1, <2>2 DEF Grows, Join
    <2>4. s \in Left => s \in Raced
      BY <1>7 DEF Join, Left, Raced, Inv, JoinsRace
    <2>5. Entries'
      BY <1>7, <2>1, <2>2, <2>4 DEF Entries, Join
    <2> QED BY <1>0, <1>7, <2>3, <2>5, GrowsKeepsCalls DEF Join
  <1>8. ASSUME NEW s \in Sids, NEW r \in Rooms, Leave(s, r) PROVE Entries' /\ CallsReach'
    <2>1. r \in AllRooms /\ r # All /\ Left' = Left /\ Raced' = Raced
      BY <1>8, AdapterAssumption DEF Leave, AllRooms, Left, Raced
    <2>2. /\ \A x \in Ranges : M[x] \subseteq M'[x] \cup (IF x \in {r} THEN {s} ELSE {})
          /\ \A x \in {r} \ DOMAIN rooms' : M[x] \subseteq {s}
          /\ DOMAIN sids' = DOMAIN sids
      BY <1>8, <2>1, LeaveShrinks DEF Leave
    <2>3. PICK g : g = {r} \ DOMAIN rooms'
      OBVIOUS
    <2>4. Leaves(s, {r}, g)
      BY <1>8, <2>1, <2>2, <2>3 DEF Leaves, Leave
    <2>5. CallsReach'
      BY <1>0, <1>8, <2>3, <2>4, LeavesKeepsCalls DEF Leave
    <2>6. Entries'
      BY <1>8, <2>1, <2>2 DEF Entries, Leave
    <2> QED BY <2>5, <2>6
  <1>9. ASSUME NEW i \in 1..MaxCalls, Continue(i) PROVE Entries' /\ CallsReach'
    <2>1. PICK c : c = calls[i]
      OBVIOUS
    <2> QED BY <1>0, <1>9, <2>1, ApplyKeepsReach DEF Continue, CallsTyped
  <1>10. ASSUME NEW i \in 1..MaxCalls, NEW op \in Ops, NEW target \in Targets, NEW except, NEW room,
                op \in {"join", "leave"} => room \in Rooms,
                Start(i, op, target, except, room)
         PROVE  Entries' /\ CallsReach'
    <2>1. PICK c : c = Call(op, target, except, room)
      OBVIOUS
    <2>2. CallTyped(c) /\ c.op \in Ops
      BY <1>10, <2>1 DEF CallTyped, Call
    <2>3. Visit(i, c) \/ Return(i, c)
      BY <1>10, <2>1 DEF Start
    <2>4. CallReach(c, M, sockets, Left, Raced)
      BY <2>1, CallReaches DEF Inv
    <2> QED BY <2>2, <2>3, <2>4, ApplyKeepsReach
  <1>11. CASE \E s \in Sids : Connect(s) \/ Close(s) \/ LeaveAll(s) \/ Remove(s)
    BY <1>2, <1>3, <1>4, <1>5, <1>11
  <1>12. CASE \E s \in Sids, r \in Rooms : ReadJoin(s, r) \/ Join(s, r) \/ Leave(s, r)
    BY <1>6, <1>7, <1>8, <1>12
  <1>13. CASE \E i \in 1..MaxCalls, target \in Targets :
                \/ \E except \in Excepts : Start(i, "send", target, except, NoRoom)
                \/ Start(i, "disconnect", target, {}, NoRoom)
                \/ \E op \in {"join", "leave"}, r \in Rooms : Start(i, op, target, {}, r)
    BY <1>10, <1>13 DEF Ops
  <1> QED BY <1>1, <1>9, <1>11, <1>12, <1>13 DEF Next

\* A call of apply that has returned has missed no socket that was there when it
\* began and stayed, and has called none back twice unless a racing Join brought it
\* back: however joins, leaves, closes and other calls come between two of its
\* callbacks (apply of adapter_memory.go).
THEOREM ReachedOnceHolds == Spec => []ReachedOnce
  <1>1. CallsReach => ReachedOnce
    BY DEF CallsReach, CallReach, Raced, ReachedOnce
  <1>2. Inv /\ Entries /\ CallsReach /\ [Next]_vars => (Inv /\ Entries /\ CallsReach)'
    BY NextKeepsInv, NextKeepsReach
  <1> QED BY <1>1, <1>2, InitInv, InitReach, PTL DEF Spec

\* The maps, the store, the sockets' lives and the calls keep to their types.
THEOREM TypeOKHolds == Spec => []TypeOK
  <1> DEFINE Rest == acts \in 0..MaxActs /\ racing \subseteq Sids \X Rooms
  <1>1. Inv /\ Rest => TypeOK
    BY DEF Inv, Indexes, CallsTyped, TypeOK
  <1>2. Init => Rest
    BY SMT, AdapterAssumption DEF Init
  <1>3. Inv /\ Rest /\ [Next]_vars => Rest'
    <2> SUFFICES ASSUME Inv, Rest, [Next]_vars PROVE Rest'
      OBVIOUS
    <2>1. racing' \subseteq racing \cup joins
      <3>1. ASSUME NEW i, NEW c, Visit(i, c) \/ Return(i, c) PROVE racing' \subseteq racing \cup joins
        <4>1. ASSUME NEW d, NEW s, CallBack(i, d, s) PROVE racing' \subseteq racing \cup joins
          <5>1. racing' = racing \/ racing' = racing \cup {p \in joins : p[1] = s}
            BY <4>1 DEF CallBack, OnClose
          <5> QED BY <5>1
        <4>2. CASE Visit(i, c)
          BY <4>1, <4>2 DEF Visit
        <4>3. CASE Return(i, c)
          BY <4>3 DEF Return
        <4> QED BY <3>1, <4>2, <4>3
      <3>2. ASSUME NEW s \in Sids, Close(s) PROVE racing' \subseteq racing \cup joins
        BY <3>2 DEF Close, OnClose
      <3> QED BY <3>1, <3>2 DEF Next, vars, Connect, LeaveAll, Remove, ReadJoin, Join, Leave,
              Continue, Start
    <2>2. acts' = acts \/ (acts < MaxActs /\ acts' = acts + 1)
      BY DEF Next, vars, Connect, Close, LeaveAll, Remove, ReadJoin, Join, Leave, Continue, Start
    <2> QED BY SMT, <2>1, <2>2, AdapterAssumption DEF Inv
  <1> QED BY <1>1, <1>2, <1>3, InitInv, NextKeepsInv, PTL DEF Spec
=============================================================================
