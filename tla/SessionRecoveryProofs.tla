------------------------- MODULE SessionRecoveryProofs -------------------------
(***************************************************************************)
(* Proofs about connection state recovery: who has a session, and what the *)
(* store and the adapter know of a connected socket.                       *)
(***************************************************************************)
EXTENDS SessionRecovery, TLAPS


\* Zenon checks the steps that name no prover; those with arithmetic, records and
\* functions to be computed name SMT.
USE ZenonT(20)

Lives == {"none", "connecting", "joined", "up", "closing", "gone"}
Sessions == [in : BOOLEAN, age : Nat]

\* The fields of the records.
ClientRecord(r) ==
    r = [pid |-> r.pid, offset |-> r.offset, conn |-> r.conn, up |-> r.up,
         partial |-> r.partial, inbox |-> r.inbox]
HistoryRecord(r) ==
    r = [sess |-> r.sess, due |-> r.due, got |-> r.got, resent |-> r.resent, loss |-> r.loss,
         twice |-> r.twice, swept |-> r.swept, usurped |-> r.usurped, cut |-> r.cut]
SocketRecord(r) ==
    r = [life |-> r.life, sid |-> r.sid, pid |-> r.pid, offset |-> r.offset]

Shapes ==
    /\ ClientRecord(client) /\ HistoryRecord(h)
    /\ srv = [k \in Conns |-> srv[k]] /\ \A k \in Conns : SocketRecord(srv[k])
    /\ \A p \in DOMAIN sessions : sessions[p] \in Sessions
    /\ config.in \in BOOLEAN /\ h.swept \in BOOLEAN /\ h.usurped \in BOOLEAN

\* A private identifier is the number of the connection that had it first, so a connection
\* comes with an earlier one than its own; frames are under way on an open connection.
Numbered ==
    /\ client.conn \in Conns /\ link \in {0, client.conn}
    /\ wire # <<>> => link # 0
    /\ client.pid \in Conns /\ client.pid <= client.conn
    /\ \A k \in Conns :
         /\ srv[k].life \in Lives
         /\ srv[k].sid \in Conns /\ srv[k].sid <= k
         /\ srv[k].life \in {"none", "connecting"} => srv[k].sid = k
         /\ srv[k].life = "connecting" => srv[k].pid \in Conns /\ srv[k].pid < k
         /\ k > client.conn => srv[k].life = "none"

\* No socket has undone what another one with its identifier has done.
Undisturbed == ~h.swept /\ ~h.usurped

\* The rooms that are kept, with a session or with a socket, are those of the client.
RoomsKept ==
    Undisturbed =>
      /\ \A p \in DOMAIN sessions : sessions[p].in = config.in
      /\ \A s \in DOMAIN sids : sids[s] = config.in

\* Socket k is connected, or restored and about to be.
Entered(k) == srv[k].life = "up" \/ (srv[k].life = "joined" /\ srv[k].sid # k)

\* Such a socket has its rooms.
Joined == Undisturbed => \A k \in Conns : Entered(k) => srv[k].sid \in DOMAIN sids

\* The newest socket, once connected, is what its identifier finds.
Stored ==
    Undisturbed =>
      \A k \in Conns : k = client.conn /\ srv[k].life = "up" =>
         srv[k].sid \in DOMAIN store /\ store[srv[k].sid] = k

Inv == Shapes /\ Numbered /\ RoomsKept /\ Joined /\ Stored

-----------------------------------------------------------------------------
\* The invariant holds of the first connection.
LEMMA InitInv == Init => Inv
<1> SUFFICES ASSUME Init PROVE Inv
  OBVIOUS
<1> USE RecoveryAssumption DEF Init, None, With
<1>1. Shapes
  <2>1. config.in = TRUE \/ config.in = FALSE
    BY SMT DEF Configs
  <2> QED
    BY <2>1 DEF Shapes, ClientRecord, HistoryRecord, SocketRecord, Conns, Sessions
<1>2. Numbered
  BY SMT DEF Numbered, Conns, Lives
<1>3. RoomsKept
  BY DEF RoomsKept
<1>4. Joined
  BY DEF Joined, Entered, Conns
<1>5. Stored
  BY DEF Stored, Conns
<1> QED
  BY <1>1, <1>2, <1>3, <1>4, <1>5 DEF Inv

\* A step that changes neither the sockets nor the sessions, rooms and store keeps the invariant.
LEMMA QuietStep ==
  ASSUME Inv,
         UNCHANGED <<config, srv, sessions, sids, store, link>>,
         client'.conn = client.conn, client'.pid = client.pid,
         h'.swept = h.swept, h'.usurped = h.usurped,
         (wire' # <<>> => link # 0),
         Shapes'
  PROVE  Inv'
<1>1. Numbered'
  BY DEF Inv, Numbered
<1>2. RoomsKept'
  BY DEF Inv, RoomsKept, Undisturbed
<1>3. Joined'
  BY DEF Inv, Joined, Entered, Undisturbed
<1>4. Stored'
  BY DEF Inv, Stored, Undisturbed
<1> QED
  BY <1>1, <1>2, <1>3, <1>4 DEF Inv

\* Delivering a packet is such a step as far as the wire and the history go.
LEMMA DeliverQuiet ==
  ASSUME Inv, NEW id, Deliver(id)
  PROVE  /\ wire' # <<>> => link # 0
         /\ h'.swept = h.swept /\ h'.usurped = h.usurped
         /\ HistoryRecord(h')
  BY DEF Inv, Shapes, HistoryRecord, Numbered, Deliver, Sent

\* A broadcast changes neither sockets nor sessions.
LEMMA BroadcastKeepsInv ==
  ASSUME Inv, NEW opts, NEW binary, Broadcast(opts, binary)
  PROVE  Inv'
<1>1. HistoryRecord(h') /\ h'.swept = h.swept /\ h'.usurped = h.usurped
  BY DEF Inv, Shapes, HistoryRecord, Broadcast
<1>2. UNCHANGED <<config, srv, sessions, sids, store, link, client, wire>>
  BY DEF Broadcast, serverVars, clientVars
<1>3. Shapes'
  BY <1>1, <1>2 DEF Inv, Shapes
<1> QED
  BY <1>1, <1>2, <1>3, QuietStep DEF Inv, Numbered

\* The key of a packet and the start of the reader change none of it.
LEMMA SetKeyKeepsInv ==
  ASSUME Inv, (\E id \in pending : SetKey(id)) \/ StartReader
  PROVE  Inv'
<1>1. UNCHANGED <<config, srv, sessions, sids, store, link, client, wire, h>>
  BY DEF SetKey, StartReader, serverVars, clientVars
<1>2. Shapes'
  BY <1>1 DEF Inv, Shapes
<1> QED
  BY <1>1, <1>2, QuietStep DEF Inv, Numbered

\* Nor does the in-memory adapter when it sends a packet,
LEMMA ApplyKeepsInv ==
  ASSUME Inv, NEW id, Apply(id)
  PROVE  Inv'
<1>1. UNCHANGED <<config, srv, sessions, sids, store, link, client>> /\ Deliver(id)
  BY DEF Apply, serverVars
<1>2. Shapes'
  BY <1>1, DeliverQuiet DEF Inv, Shapes
<1> QED
  BY <1>1, <1>2, DeliverQuiet, QuietStep

\* the Redis reader,
LEMMA ReaderKeepsInv ==
  ASSUME Inv, NEW n, Reader(n)
  PROVE  Inv'
<1>1. UNCHANGED <<config, srv, sessions, sids, store, link, client>>
  BY DEF Reader, serverVars
<1>2. /\ wire' # <<>> => link # 0
      /\ h'.swept = h.swept /\ h'.usurped = h.usurped
      /\ HistoryRecord(h')
  <2>1. PICK i \in DOMAIN log :
          Deliver(log[i]) \/ (UNCHANGED h /\ \E ok : wire' = Sent(log[i], ok))
    BY DEF Reader
  <2>2. CASE Deliver(log[i])
    BY <2>2, DeliverQuiet
  <2>3. CASE UNCHANGED h /\ \E ok : wire' = Sent(log[i], ok)
    BY <2>3 DEF Sent, Inv, Numbered, Shapes
  <2> QED
    BY <2>1, <2>2, <2>3
<1>3. Shapes'
  BY <1>1, <1>2 DEF Inv, Shapes
<1> QED
  BY <1>1, <1>2, <1>3, QuietStep

\* or a handler of the client.
LEMMA HandleKeepsInv ==
  ASSUME Inv, NEW i, Handle(i)
  PROVE  Inv'
<1>1. UNCHANGED <<config, srv, sessions, sids, store, link, wire>>
  BY DEF Handle, serverVars
<1>2. /\ ClientRecord(client') /\ client'.conn = client.conn /\ client'.pid = client.pid
  BY DEF Handle, Inv, Shapes, ClientRecord
<1>3. HistoryRecord(h') /\ h'.swept = h.swept /\ h'.usurped = h.usurped
  BY DEF Handle, Inv, Shapes, HistoryRecord
<1>4. Shapes'
  BY <1>1, <1>2, <1>3 DEF Inv, Shapes
<1> QED
  BY <1>1, <1>2, <1>3, <1>4, QuietStep DEF Inv, Numbered

\* Time and the cleaner: sessions get older and are dropped.
LEMMA SessionsAgeKeepsInv ==
  ASSUME Inv, Tick \/ cleaner
  PROVE  Inv'
<1>1. UNCHANGED <<config, srv, sids, store, link, wire, client>>
  BY DEF Tick, cleaner, clientVars
<1>2. HistoryRecord(h') /\ h'.swept = h.swept /\ h'.usurped = h.usurped
  BY DEF Tick, cleaner, Inv, Shapes, HistoryRecord
<1>3. /\ DOMAIN sessions' \subseteq DOMAIN sessions
      /\ \A p \in DOMAIN sessions' : sessions'[p] \in Sessions /\ sessions'[p].in = sessions[p].in
  <2>1. CASE Tick
    BY SMT, <2>1 DEF Tick, Older, Sessions, Inv, Shapes
  <2>2. CASE cleaner
    BY <2>2 DEF cleaner, Inv, Shapes
  <2> QED
    BY <2>1, <2>2
<1>4. Shapes'
  BY <1>1, <1>2, <1>3 DEF Inv, Shapes
<1>5. Numbered'
  BY <1>1 DEF Inv, Numbered
<1>6. RoomsKept'
  BY <1>1, <1>2, <1>3 DEF Inv, RoomsKept, Undisturbed
<1>7. Joined' /\ Stored'
  BY <1>1, <1>2 DEF Inv, Joined, Entered, Stored, Undisturbed
<1> QED
  BY <1>4, <1>5, <1>6, <1>7 DEF Inv

-----------------------------------------------------------------------------
\* Updates of several fields of a socket's record.
LEMMA RestoredRecord ==
  ASSUME NEW q, SocketRecord(q), NEW a, NEW b
  PROVE  [q EXCEPT !.life = a, !.sid = b]
         = [life |-> a, sid |-> b, pid |-> q.pid, offset |-> q.offset]
<1>1. PICK g : g = [q EXCEPT !.life = a]
  OBVIOUS
<1>2. g = [life |-> a, sid |-> q.sid, pid |-> q.pid, offset |-> q.offset]
  BY <1>1 DEF SocketRecord
<1>3. PICK e : e = [g EXCEPT !.sid = b]
  OBVIOUS
<1>4. e = [life |-> a, sid |-> b, pid |-> q.pid, offset |-> q.offset]
  BY <1>2, <1>3
<1>5. [q EXCEPT !.life = a, !.sid = b] = e
  BY <1>1, <1>3
<1> QED
  BY <1>4, <1>5

\* The same for the record of a socket whose connection is dialled.
LEMMA DialledRecord ==
  ASSUME NEW q, SocketRecord(q), NEW a, NEW b, NEW c
  PROVE  [q EXCEPT !.life = a, !.pid = b, !.offset = c]
         = [life |-> a, sid |-> q.sid, pid |-> b, offset |-> c]
<1>1. PICK g : g = [q EXCEPT !.life = a]
  OBVIOUS
<1>2. g = [life |-> a, sid |-> q.sid, pid |-> q.pid, offset |-> q.offset]
  BY <1>1 DEF SocketRecord
<1>3. PICK e : e = [g EXCEPT !.pid = b]
  OBVIOUS
<1>4. e = [life |-> a, sid |-> q.sid, pid |-> b, offset |-> q.offset]
  BY <1>2, <1>3
<1>5. PICK f : f = [e EXCEPT !.offset = c]
  OBVIOUS
<1>6. f = [life |-> a, sid |-> q.sid, pid |-> b, offset |-> c]
  BY <1>4, <1>5
<1>7. [q EXCEPT !.life = a, !.pid = b, !.offset = c] = f
  BY <1>1, <1>3, <1>5
<1> QED
  BY <1>6, <1>7

\* What an update of one socket's record changes.
LEMMA SocketUpdate ==
  ASSUME NEW f, f = [i \in Conns |-> f[i]], \A i \in Conns : SocketRecord(f[i]),
         NEW k \in Conns, NEW r, SocketRecord(r),
         NEW g, g = [f EXCEPT ![k] = r]
  PROVE  /\ g = [i \in Conns |-> g[i]] /\ \A i \in Conns : SocketRecord(g[i])
         /\ g[k] = r /\ \A i \in Conns : i # k => g[i] = f[i]
<1>1. g[k] = r /\ \A i \in Conns : i # k => g[i] = f[i]
  OBVIOUS
<1>2. g = [i \in Conns |-> g[i]]
  OBVIOUS
<1> QED
  BY <1>1, <1>2

\* The client dials: the new connection's socket carries what the client knows.
LEMMA DialSocket ==
  ASSUME Inv, Dial
  PROVE  LET k == client.conn + 1
         IN  /\ k \in Conns /\ srv[k].life = "none" /\ srv[k].sid = k
             /\ srv' = [i \in Conns |-> srv'[i]]
             /\ \A i \in Conns : SocketRecord(srv'[i])
             /\ srv'[k].life = "connecting" /\ srv'[k].sid = k /\ srv'[k].pid = client.pid
             /\ \A i \in Conns : i # k => srv'[i] = srv[i]
<1> DEFINE k == client.conn + 1
<1>0. k \in Conns /\ srv[k].life = "none" /\ srv[k].sid = k
  <2>1. ConnLimit \in Int /\ ConnLimit <= MaxConns
    BY SMT, RecoveryAssumption DEF ConnLimit
  <2>2. client.conn < ConnLimit
    BY DEF Dial
  <2>3. client.conn \in Conns
    BY DEF Inv, Numbered
  <2>4. k \in Conns /\ k > client.conn
    BY SMT, <2>1, <2>2, <2>3, RecoveryAssumption DEF Conns
  <2>5. srv[k].life = "none"
    BY <2>4 DEF Inv, Numbered
  <2>6. srv[k].sid = k
    BY <2>4, <2>5 DEF Inv, Numbered
  <2> QED
    BY <2>4, <2>5, <2>6
<1>1. PICK r : r = [srv[k] EXCEPT !.life = "connecting", !.pid = client.pid,
                                  !.offset = client.offset]
  OBVIOUS
<1>2. srv' = [srv EXCEPT ![k] = r]
  BY <1>1 DEF Dial
<1> HIDE DEF k
<1>3. SocketRecord(r) /\ r.life = "connecting" /\ r.sid = srv[k].sid /\ r.pid = client.pid
  <2>1. SocketRecord(srv[k])
    BY <1>0 DEF Inv, Shapes
  <2>2. r = [life |-> "connecting", sid |-> srv[k].sid, pid |-> client.pid,
             offset |-> client.offset]
    BY <1>1, <2>1, DialledRecord
  <2> QED
    BY <2>2 DEF SocketRecord
<1>4. /\ srv' = [i \in Conns |-> srv'[i]] /\ \A i \in Conns : SocketRecord(srv'[i])
      /\ srv'[k] = r /\ \A i \in Conns : i # k => srv'[i] = srv[i]
  BY <1>0, <1>2, <1>3, SocketUpdate DEF Inv, Shapes
<1> QED
  BY <1>0, <1>3, <1>4 DEF k

\* The new connection is the newest one and nobody has its identifier.
LEMMA DialKeepsInv ==
  ASSUME Inv, Dial
  PROVE  Inv'
<1> DEFINE k == client.conn + 1
<1>0. k \in Conns /\ srv[k].life = "none" /\ srv[k].sid = k
  BY DialSocket
<1>1. UNCHANGED <<config, sessions, sids, store, wire>>
  BY DEF Dial
<1>2. HistoryRecord(h') /\ h'.swept = h.swept /\ h'.usurped = h.usurped
  BY DEF Dial, Inv, Shapes, HistoryRecord
<1>3. ClientRecord(client') /\ client'.conn = k /\ client'.pid = client.pid /\ link' = k
  BY DEF Dial, Inv, Shapes, ClientRecord
<1>4. /\ srv' = [i \in Conns |-> srv'[i]]
      /\ \A i \in Conns : SocketRecord(srv'[i])
      /\ srv'[k].life = "connecting" /\ srv'[k].sid = k /\ srv'[k].pid = client.pid
      /\ \A i \in Conns : i # k => srv'[i] = srv[i]
  BY DialSocket
<1>5. Shapes'
  BY <1>1, <1>2, <1>3, <1>4 DEF Inv, Shapes
<1>6. Numbered'
  BY SMT, <1>0, <1>1, <1>3, <1>4 DEF Inv, Numbered, Conns, Lives
<1>7. RoomsKept'
  BY <1>1, <1>2 DEF Inv, RoomsKept, Undisturbed
<1>8. Joined'
  BY <1>0, <1>1, <1>2, <1>4 DEF Inv, Joined, Entered, Undisturbed
<1>9. Stored'
  BY <1>3, <1>4 DEF Stored
<1> QED
  BY <1>5, <1>6, <1>7, <1>8, <1>9 DEF Inv

\* The end of a connection changes nothing at the server.
LEMMA BreakKeepsInv ==
  ASSUME Inv, Break
  PROVE  Inv'
<1>1. UNCHANGED <<config, srv, sessions, sids, store, h>> /\ link' = 0 /\ wire' = <<>>
  BY DEF Break, serverVars
<1>2. ClientRecord(client') /\ client'.conn = client.conn /\ client'.pid = client.pid
  BY DEF Break, Inv, Shapes, ClientRecord
<1>3. Shapes'
  BY <1>1, <1>2 DEF Inv, Shapes
<1>4. Numbered'
  BY <1>1, <1>2 DEF Inv, Numbered
<1>5. RoomsKept' /\ Joined' /\ Stored'
  BY <1>1, <1>2 DEF Inv, RoomsKept, Joined, Entered, Stored, Undisturbed
<1> QED
  BY <1>3, <1>4, <1>5 DEF Inv

\* The identifier the client learns is that of its connection's socket.
LEMMA ArriveKeepsInv ==
  ASSUME Inv, Arrive
  PROVE  Inv'
<1>1. UNCHANGED <<config, srv, sessions, sids, store, h, link>> /\ wire # <<>>
  BY DEF Arrive, serverVars
<1>2. link = client.conn /\ link \in Conns
  BY <1>1 DEF Inv, Numbered
<1>3. /\ ClientRecord(client') /\ client'.conn = client.conn
      /\ client'.pid \in {client.pid, srv[link].sid}
  BY DEF Arrive, Inv, Shapes, ClientRecord
<1>4. Shapes'
  BY <1>1, <1>3 DEF Inv, Shapes
<1>5. Numbered'
  BY <1>1, <1>2, <1>3 DEF Inv, Numbered, Conns
<1>6. RoomsKept' /\ Joined' /\ Stored'
  BY <1>1, <1>3 DEF Inv, RoomsKept, Joined, Entered, Stored, Undisturbed
<1> QED
  BY <1>4, <1>5, <1>6 DEF Inv

-----------------------------------------------------------------------------
\* A step that only gives socket k another life.
LEMMA LifeUpdate ==
  ASSUME Inv, NEW k \in Conns, NEW a, srv' = [srv EXCEPT ![k].life = a]
  PROVE  /\ srv' = [i \in Conns |-> srv'[i]]
         /\ \A i \in Conns : /\ SocketRecord(srv'[i]) /\ (i # k => srv'[i] = srv[i])
                              /\ srv'[i].sid = srv[i].sid /\ srv'[i].pid = srv[i].pid
         /\ srv'[k].life = a
  BY SMT DEF Inv, Shapes, SocketRecord

\* The server's side.  Namespace.add: a restored socket takes over the identifier of a
\* session that was found, and its rooms.
LEMMA AddRestores ==
  ASSUME Inv, NEW k \in Conns, Add(k)
  PROVE  /\ UNCHANGED <<config, store, link, client>>
         /\ HistoryRecord(h') /\ h'.swept = h.swept /\ h'.usurped = h.usurped
         /\ wire' # <<>> => link # 0
         /\ srv' = [i \in Conns |-> srv'[i]]
         /\ \A i \in Conns : SocketRecord(srv'[i]) /\ (i # k => srv'[i] = srv[i])
         /\ srv[k].life = "connecting" /\ srv'[k].life = "joined"
         /\ DOMAIN sessions' \subseteq DOMAIN sessions
         /\ \A p \in DOMAIN sessions' : sessions'[p] = sessions[p]
         /\ \/ srv'[k].sid = k /\ sids' = sids
            \/ LET pid == srv[k].pid
               IN  /\ srv'[k].sid = pid /\ Found(pid)
                   /\ sids' = With(sids, pid, sessions[pid].in \/ (pid \in DOMAIN sids /\ sids[pid]))
<1>1. /\ UNCHANGED <<config, store, link, client>> /\ srv[k].life = "connecting"
      /\ sessions' = SessionsAfter(srv[k].pid)
  BY DEF Add
<1>2. HistoryRecord(h') /\ h'.swept = h.swept /\ h'.usurped = h.usurped
  BY DEF Add, Inv, Shapes, HistoryRecord
<1>3. /\ DOMAIN sessions' \subseteq DOMAIN sessions
      /\ \A p \in DOMAIN sessions' : sessions'[p] = sessions[p]
  BY <1>1 DEF SessionsAfter, Without
<1>4. PICK missed : missed = Missed(srv[k].pid, srv[k].offset)
  OBVIOUS
<1>5. \/ Found(srv[k].pid) /\ Restored(k, srv[k].pid, missed)
      \/ srv' = [srv EXCEPT ![k].life = "joined"] /\ UNCHANGED <<sids, wire>>
  BY <1>4 DEF Add
<1>6. CASE Found(srv[k].pid) /\ Restored(k, srv[k].pid, missed)
  <2>1. wire' # <<>> => link # 0
    BY SMT, <1>6 DEF Restored, Inv, Numbered, Conns
  <2>2. /\ srv' = [i \in Conns |-> srv'[i]]
        /\ \A i \in Conns : SocketRecord(srv'[i]) /\ (i # k => srv'[i] = srv[i])
        /\ srv'[k].life = "joined" /\ srv'[k].sid = srv[k].pid
    <3>1. PICK r : r = [srv[k] EXCEPT !.life = "joined", !.sid = srv[k].pid]
      OBVIOUS
    <3>2. srv' = [srv EXCEPT ![k] = r]
      BY <1>6, <3>1 DEF Restored
    <3>3. SocketRecord(r) /\ r.life = "joined" /\ r.sid = srv[k].pid
      <4>1. SocketRecord(srv[k])
        BY DEF Inv, Shapes
      <4>2. r = [life |-> "joined", sid |-> srv[k].pid, pid |-> srv[k].pid,
                 offset |-> srv[k].offset]
        BY <3>1, <4>1, RestoredRecord
      <4> QED
        BY <4>2 DEF SocketRecord
    <3>4. /\ srv' = [i \in Conns |-> srv'[i]] /\ \A i \in Conns : SocketRecord(srv'[i])
          /\ srv'[k] = r /\ \A i \in Conns : i # k => srv'[i] = srv[i]
      BY <3>2, <3>3, SocketUpdate DEF Inv, Shapes
    <3> QED
      BY <3>3, <3>4
  <2> QED
    BY <1>1, <1>2, <1>3, <1>6, <2>1, <2>2 DEF Restored
<1>7. CASE srv' = [srv EXCEPT ![k].life = "joined"] /\ UNCHANGED <<sids, wire>>
  <2>1. wire' # <<>> => link # 0
    BY <1>7 DEF Inv, Numbered
  <2>2. /\ srv' = [i \in Conns |-> srv'[i]]
        /\ \A i \in Conns : SocketRecord(srv'[i]) /\ (i # k => srv'[i] = srv[i])
        /\ srv'[k].life = "joined" /\ srv'[k].sid = k
    <3>1. srv[k].sid = k
      BY <1>1 DEF Inv, Numbered
    <3> QED
      BY <1>7, <3>1, LifeUpdate
  <2> QED
    BY <1>1, <1>2, <1>3, <1>7, <2>1, <2>2
<1> QED
  BY <1>5, <1>6, <1>7

\* So the rooms of a restored socket are those of the client.
LEMMA AddKeepsInv ==
  ASSUME Inv, NEW k \in Conns, Add(k)
  PROVE  Inv'
<1> DEFINE pid == srv[k].pid
<1>1. Shapes'
  BY AddRestores DEF Inv, Shapes
<1>2. Found(pid) => pid \in DOMAIN sessions
  BY DEF Found
<1>3. pid \in Conns /\ pid < k
  BY AddRestores DEF Inv, Numbered
<1>4. Numbered'
  BY SMT, AddRestores, <1>3 DEF Inv, Numbered, Conns, Lives
<1>5. \/ srv'[k].sid = k /\ sids' = sids
      \/ /\ srv'[k].sid = pid /\ Found(pid)
         /\ sids' = With(sids, pid, sessions[pid].in \/ (pid \in DOMAIN sids /\ sids[pid]))
  BY AddRestores
<1>6. RoomsKept' /\ Joined'
  <2>1. CASE srv'[k].sid = k /\ sids' = sids
    BY SMT, AddRestores, <2>1 DEF Inv, RoomsKept, Joined, Entered, Undisturbed
  <2>2. CASE /\ srv'[k].sid = pid /\ Found(pid)
             /\ sids' = With(sids, pid, sessions[pid].in \/ (pid \in DOMAIN sids /\ sids[pid]))
    <3>1. /\ DOMAIN sids' = DOMAIN sids \cup {pid}
          /\ \A s \in DOMAIN sids : s # pid => sids'[s] = sids[s]
          /\ sids'[pid] = (sessions[pid].in \/ (pid \in DOMAIN sids /\ sids[pid]))
      BY <2>2 DEF With
    <3>2. Undisturbed => sids'[pid] = config.in
      <4>1. config.in \in BOOLEAN
        BY DEF Inv, Shapes
      <4>2. Undisturbed => sessions[pid].in = config.in
        BY <1>2, <2>2 DEF Inv, RoomsKept
      <4>3. Undisturbed /\ pid \in DOMAIN sids => sids[pid] = config.in
        BY DEF Inv, RoomsKept
      <4> QED
        BY <3>1, <4>1, <4>2, <4>3
    <3>3. Undisturbed' = Undisturbed
      BY AddRestores DEF Undisturbed
    <3>4. RoomsKept'
      BY SMT, AddRestores, <3>1, <3>2, <3>3 DEF Inv, RoomsKept
    <3>5. Joined'
      <4>1. \A i \in Conns : i # k => srv'[i] = srv[i]
        BY AddRestores
      <4> QED
        BY <2>2, <3>1, <3>3, <4>1 DEF Inv, Joined, Entered
    <3> QED
      BY <3>4, <3>5
  <2> QED
    BY <1>5, <2>1, <2>2
<1>7. Stored'
  BY SMT, AddRestores DEF Inv, Stored, Undisturbed
<1> QED
  BY <1>1, <1>4, <1>6, <1>7 DEF Inv

\* doConnect: the socket enters the store; it is the newest one with its identifier that has
\* been connected, or the history says that it was not.
LEMMA DoConnectKeepsInv ==
  ASSUME Inv, NEW k \in Conns, DoConnect(k)
  PROVE  Inv'
<1> DEFINE s == srv[k].sid
           v == IF s = k THEN config.in ELSE s \in DOMAIN sids /\ sids[s]
<1>1. /\ UNCHANGED <<config, sessions, link, client>> /\ srv[k].life = "joined"
      /\ srv' = [srv EXCEPT ![k].life = "up"]
      /\ store' = With(store, s, k) /\ sids' = With(sids, s, v)
  BY DEF DoConnect
<1>2. HistoryRecord(h') /\ h'.swept = h.swept /\ h'.usurped \in BOOLEAN
  BY DEF DoConnect, Inv, Shapes, HistoryRecord
<1>3. wire' # <<>> => link # 0
  BY SMT DEF DoConnect, Inv, Numbered, Conns
<1>4. k <= client.conn
  BY SMT, <1>1 DEF Inv, Numbered, Conns
<1>5. ~h'.usurped => /\ ~h.usurped
                     /\ \A i \in Conns : i > k => ~(srv[i].sid = s /\ srv[i].life = "up")
  <2>1. CASE s = h.sess \/ k # client.conn
    BY <2>1 DEF DoConnect, Inv, Shapes, HistoryRecord
  <2>2. CASE ~(s = h.sess \/ k # client.conn)
    <3>1. h'.usurped = h.usurped
      BY <2>2 DEF DoConnect, Inv, Shapes, HistoryRecord
    <3> QED
      BY <2>2, <3>1 DEF Inv, Numbered
  <2> QED
    BY <2>1, <2>2
<1>6. Undisturbed' => Undisturbed
  BY <1>2, <1>5 DEF Undisturbed
<1>7. Shapes'
  BY <1>1, <1>2, LifeUpdate DEF Inv, Shapes
<1>8. Numbered'
  BY SMT, <1>1, <1>3, <1>4, LifeUpdate DEF Inv, Numbered, Lives, Conns
<1>13. /\ DOMAIN sids' = DOMAIN sids \cup {s} /\ sids'[s] = v
       /\ \A y \in DOMAIN sids : y # s => sids'[y] = sids[y]
  BY <1>1 DEF With
<1>14. /\ DOMAIN store' = DOMAIN store \cup {s} /\ store'[s] = k
       /\ \A y \in DOMAIN store : y # s => store'[y] = store[y]
  BY <1>1 DEF With
<1>9. Undisturbed => v = config.in
  <2>1. config.in \in BOOLEAN
    BY DEF Inv, Shapes
  <2>2. Undisturbed /\ s # k => s \in DOMAIN sids /\ sids[s] = config.in
    BY <1>1 DEF Inv, RoomsKept, Joined, Entered
  <2> QED
    BY <2>1, <2>2
<1> HIDE DEF v
<1>10. RoomsKept'
  BY <1>1, <1>6, <1>9, <1>13 DEF Inv, RoomsKept
<1>11. Joined'
  <2>1. \A i \in Conns : srv'[i].sid = srv[i].sid /\ (i # k => srv'[i] = srv[i])
    BY <1>1, LifeUpdate
  <2> QED
    BY <1>6, <1>13, <2>1 DEF Inv, Joined, Entered
<1>12. Stored'
  <2> SUFFICES ASSUME Undisturbed', NEW i \in Conns, i = client.conn, srv'[i].life = "up"
               PROVE  srv'[i].sid \in DOMAIN store' /\ store'[srv'[i].sid] = i
    BY <1>1 DEF Stored
  <2>1. srv'[i].sid = srv[i].sid
    BY SMT, <1>1, LifeUpdate
  <2>2. CASE i = k
    BY <1>14, <2>1, <2>2
  <2>3. CASE i # k
    <3>1. srv[i].life = "up" /\ i > k
      BY SMT, <1>1, <1>4, <2>3, LifeUpdate DEF Conns
    <3>2. srv[i].sid # s
      BY <1>5, <3>1 DEF Undisturbed
    <3>3. srv[i].sid \in DOMAIN store /\ store[srv[i].sid] = i
      BY <1>6, <3>1 DEF Inv, Stored
    <3> QED
      BY <1>14, <2>1, <3>2, <3>3
  <2> QED
    BY <2>2, <2>3
<1> QED
  BY <1>7, <1>8, <1>10, <1>11, <1>12 DEF Inv

\* onClose: the rooms of the session that is persisted are those of the client.
LEMMA OnCloseKeepsInv ==
  ASSUME Inv, NEW k \in Conns, OnClose(k)
  PROVE  Inv'
<1>1. UNCHANGED <<config, sids, store, link, wire, client, h>>
  BY DEF OnClose, clientVars
<1>2. CASE srv[k].life # "up"
  <2>1. UNCHANGED <<srv, sessions>>
    BY <1>2 DEF OnClose
  <2>2. Shapes'
    BY <1>1, <2>1 DEF Inv, Shapes
  <2> QED
    BY <1>1, <2>1, <2>2, QuietStep DEF Inv, Numbered
<1>3. CASE srv[k].life = "up"
  <2> DEFINE s == srv[k].sid
             r == [in |-> s \in DOMAIN sids /\ sids[s], age |-> 0]
  <2>1. sessions' = With(sessions, s, r) /\ srv' = [srv EXCEPT ![k].life = "closing"]
    BY <1>3 DEF OnClose, PersistSession
  <2>2. r \in Sessions
    BY DEF Sessions
  <2>3. Undisturbed => r.in = config.in
    <3>1. config.in \in BOOLEAN
      BY DEF Inv, Shapes
    <3>2. Undisturbed => s \in DOMAIN sids /\ sids[s] = config.in
      BY <1>3 DEF Inv, RoomsKept, Joined, Entered
    <3>3. r.in = (s \in DOMAIN sids /\ sids[s])
      OBVIOUS
    <3> QED
      BY <3>1, <3>2, <3>3
  <2> HIDE DEF r
  <2>8. /\ DOMAIN sessions' = DOMAIN sessions \cup {s} /\ sessions'[s] = r
        /\ \A y \in DOMAIN sessions : y # s => sessions'[y] = sessions[y]
    BY <2>1 DEF With
  <2>4. Shapes'
    BY <1>1, <2>1, <2>2, <2>8, LifeUpdate DEF Inv, Shapes
  <2>5. Numbered'
    BY SMT, <1>1, <1>3, <2>1, LifeUpdate DEF Inv, Numbered, Lives
  <2>6. RoomsKept'
    BY <1>1, <2>3, <2>8 DEF Inv, RoomsKept, Undisturbed
  <2>7. Joined' /\ Stored'
    BY SMT, <1>1, <2>1, LifeUpdate DEF Inv, Joined, Stored, Entered, Undisturbed
  <2> QED
    BY <2>4, <2>5, <2>6, <2>7 DEF Inv
<1> QED
  BY <1>2, <1>3

\* The rest of onClose: nobody else has the identifier, or the history says that one had.
LEMMA LeaveAllKeepsInv ==
  ASSUME Inv, NEW k \in Conns, LeaveAll(k)
  PROVE  Inv'
<1> DEFINE s == srv[k].sid
<1>1. /\ UNCHANGED <<config, sessions, link, client, wire>> /\ srv[k].life = "closing"
      /\ srv' = [srv EXCEPT ![k].life = "gone"]
      /\ store' = Without(store, s) /\ sids' = Without(sids, s)
  BY DEF LeaveAll, clientVars
<1>2. HistoryRecord(h') /\ h'.swept \in BOOLEAN /\ h'.usurped = h.usurped
  BY DEF LeaveAll, Inv, Shapes, HistoryRecord
<1>3. ~h'.swept => /\ ~h.swept
                   /\ \A i \in Conns : i # k /\ srv[i].life \in {"joined", "up"} => srv[i].sid # s
  BY DEF LeaveAll, Inv, Shapes, HistoryRecord
<1>4. Undisturbed' => Undisturbed
  BY <1>2, <1>3 DEF Undisturbed
<1>5. Shapes'
  BY <1>1, <1>2, LifeUpdate DEF Inv, Shapes
<1>6. Numbered'
  BY SMT, <1>1, LifeUpdate DEF Inv, Numbered, Lives
<1>10. /\ DOMAIN sids' = DOMAIN sids \ {s} /\ \A y \in DOMAIN sids' : sids'[y] = sids[y]
       /\ DOMAIN store' = DOMAIN store \ {s} /\ \A y \in DOMAIN store' : store'[y] = store[y]
  BY <1>1 DEF Without
<1>11. /\ \A i \in Conns : srv'[i].sid = srv[i].sid /\ (i # k => srv'[i] = srv[i])
       /\ srv'[k].life = "gone"
  BY <1>1, LifeUpdate
<1>12. Undisturbed' => ~h'.swept
  BY DEF Undisturbed
<1>7. RoomsKept'
  BY <1>1, <1>4, <1>10 DEF Inv, RoomsKept
<1>8. Joined'
  BY <1>3, <1>4, <1>10, <1>11, <1>12 DEF Inv, Joined, Entered
<1>9. Stored'
  BY SMT, <1>1, <1>3, <1>4, <1>10, <1>11, <1>12 DEF Inv, Stored
<1> QED
  BY <1>5, <1>6, <1>7, <1>8, <1>9 DEF Inv

-----------------------------------------------------------------------------
\* Every step keeps the invariant.
LEMMA NextInv == Inv /\ [Next]_vars => Inv'
<1> SUFFICES ASSUME Inv, [Next]_vars PROVE Inv'
  OBVIOUS
<1>1. CASE UNCHANGED vars
  <2>1. UNCHANGED <<config, srv, sessions, sids, store, link, client, wire, h>>
    BY <1>1 DEF vars, clientVars
  <2>2. Shapes'
    BY <2>1 DEF Inv, Shapes
  <2> QED
    BY <2>1, <2>2, QuietStep DEF Inv, Numbered
<1>2. CASE Next
  BY <1>2, SessionsAgeKeepsInv, DialKeepsInv, BreakKeepsInv, ArriveKeepsInv,
     BroadcastKeepsInv, ApplyKeepsInv, SetKeyKeepsInv, ReaderKeepsInv, AddKeepsInv,
     DoConnectKeepsInv, OnCloseKeepsInv, LeaveAllKeepsInv, HandleKeepsInv DEF Next
<1> QED
  BY <1>1, <1>2

\* The invariant holds in every reachable state.
THEOREM InvHolds == Spec => []Inv
  BY InitInv, NextInv, PTL DEF Spec

\* The socket of the open connection, once doConnect has run, is the one its identifier
\* finds in the namespace's store, and the adapter has it in the rooms of its session, for
\* any number of connections and whatever order add, doConnect and the two parts of onClose
\* run in: unless the onClose or the doConnect of another socket with its identifier came
\* after it.
THEOREM ConnectedIsRegisteredHolds == Spec => []ConnectedIsRegistered
<1>1. Inv => ConnectedIsRegistered
  <2> SUFFICES ASSUME Inv, NEW k \in Conns, k = link, srv[k].life = "up", Undisturbed
               PROVE  /\ srv[k].sid \in DOMAIN store /\ store[srv[k].sid] = k
                      /\ srv[k].sid \in DOMAIN sids /\ (sids[srv[k].sid] <=> config.in)
    BY DEF ConnectedIsRegistered, Undisturbed
  <2>1. k = client.conn
    BY SMT DEF Inv, Numbered, Conns
  <2>2. srv[k].sid \in DOMAIN store /\ store[srv[k].sid] = k
    BY <2>1 DEF Inv, Stored
  <2>3. srv[k].sid \in DOMAIN sids /\ sids[srv[k].sid] = config.in
    BY DEF Inv, Joined, Entered, RoomsKept
  <2> QED
    BY <2>2, <2>3
<1> QED
  BY <1>1, InvHolds, PTL

-----------------------------------------------------------------------------
\* Socket k has closed, or has begun to.
Ended(k) == srv[k].life \in {"closing", "gone"}

\* Who has a session.  It is persisted, or taken over, only when the socket whose session it
\* was has closed; and with Redis it is persisted or one socket has it, not both and not two.
Held ==
    /\ config.kind \in {"memory", "redis"}
    /\ \A p \in DOMAIN sessions : p \in Conns /\ Ended(p)
    /\ \A k \in Conns : Holds(k) /\ srv[k].sid # k => Ended(srv[k].sid)
    /\ config.kind = "redis" =>
         /\ \A k \in Conns : Holds(k) => srv[k].sid \notin DOMAIN sessions
         /\ \A j, k \in Conns : j # k /\ Holds(j) /\ Holds(k) => srv[j].sid # srv[k].sid

\* At first there is one socket and no session.
LEMMA InitHeld == Init => Held
<1> SUFFICES ASSUME Init PROVE Held
  OBVIOUS
<1>1. config.kind \in {"memory", "redis"}
  BY SMT DEF Init, Configs
<1>2. DOMAIN sessions = {}
  BY DEF Init, None
<1>3. \A k \in Conns : srv[k].sid = k
  BY DEF Init
<1> QED
  BY <1>1, <1>2, <1>3 DEF Held

\* A step that changes no socket and persists no session.
LEMMA HeldQuiet ==
  ASSUME Held, UNCHANGED <<config, srv>>, DOMAIN sessions' \subseteq DOMAIN sessions
  PROVE  Held'
  BY DEF Held, Holds, Ended

\* A step in which socket k stays with its identifier, and does not begin to hold it.
LEMMA HeldStep ==
  ASSUME Inv, Held, UNCHANGED config, NEW k \in Conns,
         \A i \in Conns : srv'[i].sid = srv[i].sid /\ (i # k => srv'[i] = srv[i]),
         Holds(k)' => Holds(k), Ended(k) => Ended(k)',
         DOMAIN sessions' \subseteq DOMAIN sessions
  PROVE  Held'
<1>1. \A i \in Conns : (Holds(i)' => Holds(i)) /\ (Ended(i) => Ended(i)')
  BY DEF Holds, Ended
<1>2. \A i \in Conns : srv[i].sid \in Conns
  BY DEF Inv, Numbered
<1> QED
  BY <1>1, <1>2 DEF Held, Ended

\* Namespace.add: the session that the socket takes over is persisted, so nobody else has it,
\* and GETDEL removes it; a socket that takes none over has its own identifier, which nobody
\* has had.
LEMMA AddKeepsHeld ==
  ASSUME Inv, Held, NEW k \in Conns, Add(k)
  PROVE  Held'
<1> DEFINE pid == srv[k].pid
<1>1. /\ UNCHANGED config /\ srv[k].life = "connecting" /\ srv'[k].life = "joined"
      /\ \A i \in Conns : i # k => srv'[i] = srv[i]
      /\ DOMAIN sessions' \subseteq DOMAIN sessions
  BY AddRestores
<1>2. srv'[k].sid = k \/ (srv'[k].sid = pid /\ pid \in DOMAIN sessions)
  BY AddRestores DEF Found
<1>3. config.kind = "redis" => pid \notin DOMAIN sessions'
  <2>1. sessions' = SessionsAfter(pid)
    BY DEF Add
  <2> QED
    BY <2>1 DEF SessionsAfter, Without
<1>4. ~Holds(k) /\ ~Ended(k) /\ srv[k].sid = k
  BY <1>1 DEF Holds, Ended, Inv, Numbered
<1>5. \A i \in Conns : Ended(i) => i # k /\ Ended(i)'
  BY <1>1, <1>4 DEF Ended
<1>6. \A i \in Conns : i # k => srv'[i].sid = srv[i].sid /\ (Holds(i)' <=> Holds(i))
  BY <1>1 DEF Holds
<1>7. \A i \in Conns : i # k /\ Holds(i) => srv[i].sid # k
  BY <1>4 DEF Held
<1>8. k \notin DOMAIN sessions
  BY <1>4 DEF Held
<1>9. \A i \in Conns : srv[i].sid \in Conns
  BY DEF Inv, Numbered
<1>10. \A p \in DOMAIN sessions' : p \in Conns /\ Ended(p)'
  BY <1>1, <1>5 DEF Held
<1>11. \A i \in Conns : Holds(i)' /\ srv'[i].sid # i => Ended(srv[i].sid)'
  <2> SUFFICES ASSUME NEW i \in Conns, Holds(i)', srv'[i].sid # i
               PROVE  Ended(srv[i].sid)'
    OBVIOUS
  <2>1. srv'[i].sid \in Conns /\ Ended(srv'[i].sid)
    BY <1>2, <1>6, <1>9 DEF Held
  <2>2. srv'[i].sid # k
    BY <2>1, <1>4
  <2> QED
    BY <1>1, <2>1, <2>2 DEF Ended
<1>12. ASSUME config.kind = "redis"
       PROVE  /\ \A i \in Conns : Holds(i)' => srv'[i].sid \notin DOMAIN sessions'
              /\ \A i \in Conns : i # k /\ Holds(i)' => srv'[i].sid # srv'[k].sid
  <2>1. \A i \in Conns : i # k /\ Holds(i) => srv[i].sid \notin DOMAIN sessions
    BY <1>12 DEF Held
  <2>2. srv'[k].sid \notin DOMAIN sessions'
    BY <1>1, <1>2, <1>3, <1>8, <1>12
  <2>3. \A i \in Conns : i # k /\ Holds(i) => srv[i].sid # srv'[k].sid
    BY <1>2, <1>7, <2>1
  <2> QED
    BY <1>1, <1>6, <2>1, <2>2, <2>3
<1>13. ASSUME config.kind = "redis"
       PROVE  \A i, j \in Conns : i # j /\ Holds(i)' /\ Holds(j)' => srv'[i].sid # srv'[j].sid
  <2>1. \A i, j \in Conns : i # j /\ Holds(i) /\ Holds(j) => srv[i].sid # srv[j].sid
    BY <1>13 DEF Held
  <2> QED
    BY <1>6, <1>12, <1>13, <2>1
<1> QED
  BY <1>1, <1>10, <1>11, <1>12, <1>13 DEF Held

\* onClose: the socket gives its session up.
LEMMA OnCloseKeepsHeld ==
  ASSUME Inv, Held, NEW k \in Conns, OnClose(k)
  PROVE  Held'
<1>1. CASE srv[k].life # "up"
  BY <1>1, HeldQuiet DEF OnClose
<1>2. CASE srv[k].life = "up"
  <2>0. PICK s : s = srv[k].sid
    OBVIOUS
  <2>1. /\ UNCHANGED config /\ srv' = [srv EXCEPT ![k].life = "closing"]
        /\ DOMAIN sessions' = DOMAIN sessions \cup {s}
    BY <1>2, <2>0 DEF OnClose, PersistSession, With
  <2>2. /\ \A i \in Conns : srv'[i].sid = srv[i].sid /\ (i # k => srv'[i] = srv[i])
        /\ srv'[k].life = "closing"
    BY <2>1, LifeUpdate
  <2>3. Holds(k) /\ ~Holds(k)' /\ Ended(k)'
    BY <1>2, <2>2 DEF Holds, Ended
  <2>4. \A i \in Conns : (Holds(i)' => i # k /\ Holds(i)) /\ (Ended(i) => Ended(i)')
    BY <2>2, <2>3 DEF Holds, Ended
  <2>5. \A i \in Conns : srv[i].sid \in Conns
    BY DEF Inv, Numbered
  <2>6. Ended(s)'
    <3>1. CASE s = k
      BY <2>3, <3>1
    <3>2. CASE s # k
      BY <2>0, <2>3, <2>4, <2>5, <3>2 DEF Held
    <3> QED
      BY <3>1, <3>2
  <2>7. \A p \in DOMAIN sessions' : p \in Conns /\ Ended(p)'
    BY <2>0, <2>1, <2>4, <2>5, <2>6 DEF Held
  <2>8. \A i \in Conns : Holds(i)' /\ srv'[i].sid # i => Ended(srv[i].sid)'
    BY <2>2, <2>4, <2>5 DEF Held, Ended
  <2>9. config.kind = "redis" =>
          /\ \A i \in Conns : Holds(i)' => srv[i].sid \notin DOMAIN sessions'
          /\ \A i, j \in Conns : i # j /\ Holds(i)' /\ Holds(j)' => srv[i].sid # srv[j].sid
    BY <2>0, <2>1, <2>3, <2>4 DEF Held
  <2>10. \A i \in Conns : srv'[i].sid = srv[i].sid
    BY <2>2
  <2> QED
    BY <2>1, <2>7, <2>8, <2>9, <2>10 DEF Held, Ended
<1> QED
  BY <1>1, <1>2

\* Every step keeps it; all but Namespace.add and onClose leave who has what as it is.
LEMMA NextHeld == Inv /\ Held /\ [Next]_vars => Held'
<1> SUFFICES ASSUME Inv, Held, [Next]_vars PROVE Held'
  OBVIOUS
<1>1. CASE Dial
  <2>1. PICK k \in Conns :
          /\ srv[k].life = "none" /\ srv[k].sid = k
          /\ srv'[k].life = "connecting" /\ srv'[k].sid = k
          /\ \A i \in Conns : i # k => srv'[i] = srv[i]
    BY <1>1, DialSocket
  <2>2. UNCHANGED <<config, sessions>>
    BY <1>1 DEF Dial
  <2>3. ~Holds(k)' /\ ~Ended(k)
    BY <2>1 DEF Holds, Ended
  <2> QED
    BY <2>1, <2>2, <2>3, HeldStep
<1>2. CASE \E k \in Conns : DoConnect(k) \/ LeaveAll(k)
  <2>1. PICK k \in Conns : DoConnect(k) \/ LeaveAll(k)
    BY <1>2
  <2>2. UNCHANGED <<config, sessions>>
    BY <2>1 DEF DoConnect, LeaveAll
  <2>3. \/ srv[k].life = "joined" /\ srv' = [srv EXCEPT ![k].life = "up"]
        \/ srv[k].life = "closing" /\ srv' = [srv EXCEPT ![k].life = "gone"]
    BY <2>1 DEF DoConnect, LeaveAll
  <2>4. \A i \in Conns : srv'[i].sid = srv[i].sid /\ (i # k => srv'[i] = srv[i])
    BY <2>3, LifeUpdate
  <2>5. \/ srv[k].life = "joined" /\ srv'[k].life = "up"
        \/ srv[k].life = "closing" /\ srv'[k].life = "gone"
    BY <2>3, LifeUpdate
  <2>6. (Holds(k)' => Holds(k)) /\ (Ended(k) => Ended(k)')
    BY <2>5 DEF Holds, Ended
  <2> QED
    BY <2>2, <2>4, <2>6, HeldStep
<1>3. CASE \E k \in Conns : Add(k) \/ OnClose(k)
  BY <1>3, AddKeepsHeld, OnCloseKeepsHeld
<1>4. CASE Tick \/ cleaner
  <2>1. UNCHANGED <<config, srv>> /\ DOMAIN sessions' \subseteq DOMAIN sessions
    BY <1>4 DEF Tick, cleaner
  <2> QED
    BY <2>1, HeldQuiet
<1>5. CASE UNCHANGED <<config, srv, sessions>>
  BY <1>5, HeldQuiet
<1> QED
  BY <1>1, <1>2, <1>3, <1>4, <1>5
     DEF Next, vars, Break, Arrive, Broadcast, Apply, SetKey, StartReader, Reader, Handle, serverVars

\* A session has one holder: GETDEL hands it to one connection, and that connection's socket
\* gives it up in onClose before another one can have it, however late the server notices
\* that a connection has ended and in whatever order add, doConnect and onClose run, for any
\* number of connections.  With the session aware adapter two sockets restored from one
\* session may be connected at once, but never one of them beside the socket whose session
\* it was.
THEOREM SessionHeldOnceHolds == Spec => []SessionHeldOnce
<1>1. Held => SessionHeldOnce
  <2> SUFFICES ASSUME Held, NEW j \in Conns, NEW k \in Conns, j # k, Holds(j), Holds(k),
                      srv[j].sid = srv[k].sid
               PROVE  config.kind = "memory" /\ srv[j].sid \notin {j, k}
    BY DEF SessionHeldOnce
  <2>1. config.kind = "memory"
    BY DEF Held
  <2>2. ~Ended(j) /\ ~Ended(k)
    BY DEF Holds, Ended
  <2>3. srv[j].sid # j
    BY <2>2 DEF Held
  <2>4. srv[j].sid # k
    BY <2>2 DEF Held
  <2> QED
    BY <2>1, <2>3, <2>4
<1>2. Spec => []Held
  BY InitHeld, NextHeld, InvHolds, PTL DEF Spec
<1> QED
  BY <1>1, <1>2, PTL
=============================================================================
