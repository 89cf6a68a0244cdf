---------------------------- MODULE SessionRecovery ----------------------------
(***************************************************************************)
(* Connection state recovery: a client whose connection breaks comes back  *)
(* with its private session identifier and the offset of the last event it *)
(* handled; the adapter restores the session and the server sends what was *)
(* broadcast in between.                                                   *)
(*                                                                         *)
(* One client, one namespace, one room besides the socket's own, and       *)
(* either the session aware in-memory adapter or the Redis streams one.    *)
(* Broadcasts, the close of the previous server socket, the connection of  *)
(* the next, the cleaner and the Redis reader are goroutines of their own. *)
(* Of the adapter's indexes (module Adapter) only sids is kept, without    *)
(* the sockets' own rooms; one call of apply is one step, as there is one  *)
(* client.  Redis is modelled by the commands the adapter sends.           *)
(***************************************************************************)
EXTENDS Integers, Sequences, FiniteSets, Functions

CONSTANTS
    D,              \* MaxDisconnectionDuration, in ticks
    MaxConns,       \* bound: connections of the client
    MaxPackets,     \* bound: broadcasts
    MaxBoth,        \* bound: connections and broadcasts together
    MaxLen          \* length to which the Redis stream is trimmed

ASSUME RecoveryAssumption ==
    /\ {D, MaxPackets, MaxBoth} \subseteq Nat
    /\ {MaxConns, MaxLen} \subseteq Nat \ {0}

Conns == 1..MaxConns
Ids == 1..MaxPackets

\* The adapter, whether the application makes its sockets join room r, and
\* whether the client has a socket in a second namespace too.
Configs == {[kind |-> "memory", in |-> TRUE, second |-> FALSE],
            [kind |-> "memory", in |-> FALSE, second |-> FALSE],
            [kind |-> "redis", in |-> TRUE, second |-> FALSE],
            [kind |-> "redis", in |-> FALSE, second |-> TRUE]}

VARIABLES
    config,
    packet,     \* what was broadcast: options, binary or not, age
    log,        \* retained packets: adapter.packets, or the Redis stream
    pending,    \* broadcasts logged and not yet applied, or without a key yet
    keys,       \* Redis: the message id keys and their ages
    read,       \* Redis: last entry each reader has applied; -1 stands for none yet
    sessions,   \* persisted sessions: rooms and age, by private identifier
    sids,       \* adapter.sids: room memberships by socket identifier
    store,      \* the namespace's socket store: the server socket by identifier
    srv,        \* per connection: the server socket on it
    link,       \* number of the open connection, 0 if it is broken
    seen,       \* connections whose end the server has noticed
    wire,       \* frames under way on the open connection
    client,     \* the client socket
    h           \* history

vars == <<config, packet, log, pending, keys, read, sessions, sids, store,
          srv, link, seen, wire, client, h>>

clientVars == <<client, wire>>
adapterVars == <<packet, log, pending, keys, read>>
serverVars == <<sessions, sids, store, srv, seen>>

Without(f, x) == [y \in DOMAIN f \ {x} |-> f[y]]
With(f, x, v) == [y \in DOMAIN f \cup {x} |-> IF y = x THEN v ELSE f[y]]
\* As in SequencesExt, most of which the proofs have no use for.
RemoveAt(s, i) == SubSeq(s, 1, i - 1) \o SubSeq(s, i + 1, Len(s))
None == [x \in {} |-> 0]

-----------------------------------------------------------------------------
(* Time and packets *)

\* Options of a broadcast: to room r, or to all except room r.
Options == {"r", "except"}

\* shouldIncludePacket, and apply's choice of sockets: in says whether the
\* session or socket is in room r.
shouldIncludePacket(opts, in) == (opts = "r") <=> in

\* sessionWithTimestamp.hasExpired; a Redis key is gone when its time is up.
hasExpired(s) ==
    IF config.kind = "memory" THEN s.age > D ELSE s.age >= D

\* PersistedPacket.HasExpired, true of the packets that have not expired.
HasExpired(id) == packet[id].age < D

\* The index of a packet in the log, 0 if it is not there.
Index(id) == IF id \in Range(log) THEN CHOOSE i \in DOMAIN log : log[i] = id ELSE 0

\* Where RestoreSession starts to collect missed packets: after the client's
\* offset, or with it (XRANGE includes its ends).
\* Faulty variant: one packet too late.
FirstMissedLate(id) == Index(id) + 2

FirstMissed(id) == IF config.kind = "memory" THEN Index(id) + 1 ELSE Index(id)

\* Redis finds the offset by its key, and the stream entry may be trimmed.
OffsetKnown(id) ==
    IF config.kind = "memory" THEN Index(id) # 0
    ELSE id \in DOMAIN keys /\ keys[id] < D

\* A trimmed entry is older than all that are left.
\* Faulty variant: everything in the log is taken.
MissedFromStart(pid, id) ==
    SelectSeq(log, LAMBDA i : shouldIncludePacket(packet[i].opts, sessions[pid].in))

Missed(pid, id) ==
    LET from == IF Index(id) = 0 THEN 1 ELSE FirstMissed(id)
    IN  SelectSeq(SubSeq(log, from, Len(log)),
                  LAMBDA i : shouldIncludePacket(packet[i].opts, sessions[pid].in))

\* A tick makes everything older whose age is looked at, up to the age at which it
\* has expired.
Older(age, max) == IF age < max THEN age + 1 ELSE age

Tick ==
    /\ packet' = [id \in DOMAIN packet |->
                    IF config.kind = "memory" /\ id \in Range(log)
                    THEN [packet[id] EXCEPT !.age = Older(@, D)] ELSE packet[id]]
    /\ sessions' = [p \in DOMAIN sessions |-> [sessions[p] EXCEPT !.age = Older(@, D + 1)]]
    /\ keys' = [id \in DOMAIN keys |-> Older(keys[id], D)]
    /\ UNCHANGED <<config, log, pending, read, sids, store, srv, link, seen, clientVars, h>>

\* The client's first connection is up, and nothing was broadcast so far.  With two
\* namespaces the Redis readers already wait for entries.
Init ==
    /\ config \in Configs
    /\ packet = None /\ log = <<>> /\ pending = {} /\ keys = None
    /\ read = [n \in {"own", "other"} |-> IF config.second THEN 0 ELSE -1]
    /\ sessions = None /\ sids = With(None, 1, config.in) /\ store = With(None, 1, 1)
    /\ srv = [k \in Conns |-> [life |-> IF k = 1 THEN "up" ELSE "none", sid |-> k,
                               pid |-> 0, offset |-> 0]]
    /\ link = 1 /\ seen = {}
    /\ wire = <<>>
    /\ client = [pid |-> 1, offset |-> 0, conn |-> 1, up |-> TRUE,
                 partial |-> 0, inbox |-> <<>>]
    /\ h = [sess |-> 1, due |-> {}, got |-> [id \in Ids |-> 0], resent |-> {},
            loss |-> {}, twice |-> {}, swept |-> FALSE, usurped |-> FALSE,
            cut |-> FALSE]

-----------------------------------------------------------------------------
(* Broadcasts *)

\* The server socket that apply finds for a packet has the open connection.
Reaches(id) ==
    \E s \in DOMAIN sids \cap DOMAIN store :
      /\ shouldIncludePacket(packet[id].opts, sids[s])
      /\ store[s] = link

\* sendBuffers: what goes to a broken connection is lost.
Sent(id, ok) == IF ok /\ link # 0 THEN Append(wire, [id |-> id, whole |-> TRUE]) ELSE wire

\* Packet id is applied while a socket is restored and not in the store yet.
InWindow(id) == id \notin h.resent /\ \E k \in Conns : srv[k].life = "joined"

\* Besides sending, notes which packets that are due may be missed: this one in the
\* window, and those logged before it that are not applied yet; and whether this
\* one was among the missed packets of a restored session.
Deliver(id) ==
    /\ wire' = Sent(id, Reaches(id))
    /\ h' = [h EXCEPT !.loss = @ \cup {i \in h.due : \/ i \in pending /\ i < id
                                                     \/ i = id /\ InWindow(id)},
                      !.twice = @ \cup (h.resent \cap {id})]

\* XADD with a maximal length; the session aware adapter's log is not bounded.
Trimmed(all) ==
    IF config.kind = "memory" \/ Len(all) <= MaxLen THEN all ELSE Tail(all)

\* Bounds: a connection less for a client that is not in room r, and an act less with
\* two namespaces.
ConnLimit == IF config.in THEN MaxConns ELSE MaxConns - 1
BothLimit == IF config.second THEN MaxBoth - 1 ELSE MaxBoth

\* Broadcast up to the first point where another goroutine can run: the packet
\* gets its identifier and is in the log, or in the stream, which is trimmed.
Broadcast(opts, binary) ==
    LET id == Cardinality(DOMAIN packet) + 1
        all == Append(log, id)
        kept == Trimmed(all)
    IN  /\ id \in Ids /\ client.conn + id <= BothLimit
        /\ packet' = With(packet, id, [opts |-> opts, binary |-> binary, age |-> 0])
        /\ log' = kept
        /\ pending' = pending \cup {id}
        /\ h' = [h EXCEPT
                   !.due = IF shouldIncludePacket(opts, config.in) THEN @ \cup {id} ELSE @,
                   !.loss = @ \cup ((h.due \cap Range(all)) \ Range(kept))
                              \cup IF config.kind = "redis" /\ read["own"] = -1
                                   THEN {id} ELSE {}]
        /\ UNCHANGED <<config, keys, read, serverVars, link, clientVars>>

\* The in-memory adapter sends the packet after it has released the mutex.
Apply(id) ==
    /\ config.kind = "memory"
    /\ id \in pending
    /\ pending' = pending \ {id}
    /\ Deliver(id)
    /\ UNCHANGED <<config, packet, log, keys, read, serverVars, link, client>>

\* The Redis adapter sets the key that maps the identifier to the stream entry.
SetKey(id) ==
    /\ config.kind = "redis"
    /\ id \in pending
    /\ pending' = pending \ {id}
    /\ keys' = With(keys, id, 0)
    /\ UNCHANGED <<config, packet, log, read, serverVars, link, clientVars, h>>

\* A reader starts with the entries that are added after its first XREAD.
StartReader ==
    /\ config.kind = "redis" /\ read["own"] = -1
    /\ read' = [read EXCEPT !["own"] = Cardinality(DOMAIN packet)]
    /\ UNCHANGED <<config, packet, log, pending, keys, serverVars, link, clientVars, h>>

\* XREAD and apply for the next entry.  Every namespace's adapter reads the same
\* stream and applies what it finds to its own sockets, here one that is in no room.
Reader(n) ==
    /\ read[n] # -1
    /\ \E i \in DOMAIN log :
         /\ log[i] > read[n] /\ \A j \in 1..(i - 1) : log[j] <= read[n]
         /\ read' = [read EXCEPT ![n] = log[i]]
         /\ IF n = "own" THEN Deliver(log[i])
            ELSE /\ wire' = Sent(log[i], /\ link # 0 /\ srv[link].life = "up"
                                         /\ shouldIncludePacket(packet[log[i]].opts, FALSE))
                 /\ UNCHANGED h
    /\ UNCHANGED <<config, packet, log, pending, keys, serverVars, link, client>>

\* The cleaner drops expired sessions, and the newest packet HasExpired is true of.
cleaner ==
    /\ config.kind = "memory"
    /\ sessions' = [p \in {p \in DOMAIN sessions : ~hasExpired(sessions[p])} |-> sessions[p]]
    /\ LET old == {i \in DOMAIN log : HasExpired(log[i])}
           newest == CHOOSE i \in old : \A j \in old : j <= i
       IN  IF old = {} THEN UNCHANGED <<log, h>>
           ELSE /\ log' = RemoveAt(log, newest)
                /\ h' = [h EXCEPT !.loss = @ \cup (h.due \cap {log[newest]})]
    /\ sessions' # sessions \/ log' # log
    /\ UNCHANGED <<config, packet, pending, keys, read, sids, store, srv, seen, link, clientVars>>

-----------------------------------------------------------------------------
(* Connections *)

\* The client opens its next connection and sends CONNECT with what it knows.
Dial ==
    /\ link = 0 /\ client.conn < ConnLimit
    /\ client.conn + Cardinality(DOMAIN packet) < BothLimit
    /\ LET k == client.conn + 1
       IN  /\ link' = k
           /\ client' = [client EXCEPT !.conn = k]
           /\ srv' = [srv EXCEPT ![k] = [@ EXCEPT !.life = "connecting", !.pid = client.pid,
                                                  !.offset = client.offset]]
    /\ h' = [h EXCEPT !.twice = @ \cup Range(client.inbox)]
    /\ UNCHANGED <<config, adapterVars, sessions, sids, store, seen, wire>>

\* The connection breaks: frames under way are lost, the client's parser is reset.
Break ==
    /\ link # 0
    /\ link' = 0
    /\ wire' = <<>>
    /\ client' = [client EXCEPT !.up = FALSE, !.partial = 0]
    /\ UNCHANGED <<config, adapterVars, serverVars, h>>

\* newServerSocket encodes a missed packet of the in-memory adapter again.  Its
\* header is that of a binary event since the first time, so Encode takes its
\* data for text that has no attachments; the Redis adapter keeps the frames.
Resent(id) ==
    [id |-> id, whole |-> config.kind = "redis" \/ ~packet[id].binary]

\* newServerSocket for a restored session: the socket joins the session's rooms
\* and the missed packets are sent.
\* Faulty variant: it joins no room.
RestoredInNoRoom(k, pid, missed) ==
    /\ srv' = [srv EXCEPT ![k].life = "joined", ![k].sid = pid]
    /\ sids' = sids
    /\ wire' = IF link = k THEN wire \o [i \in DOMAIN missed |-> Resent(missed[i])] ELSE wire

\* Faulty variant: the socket does not take over the identifier of the session.
RestoredUnnamed(k, pid, missed) ==
    /\ srv' = [srv EXCEPT ![k].life = "joined", ![k].sid = 0]
    /\ sids' = sids
    /\ wire' = wire

Restored(k, pid, missed) ==
    /\ srv' = [srv EXCEPT ![k] = [@ EXCEPT !.life = "joined", !.sid = pid]]
    /\ sids' = With(sids, pid, sessions[pid].in \/ (pid \in DOMAIN sids /\ sids[pid]))
    /\ wire' = IF link = k THEN wire \o [i \in DOMAIN missed |-> Resent(missed[i])] ELSE wire

\* The session is there and has not expired.
Found(pid) == pid \in DOMAIN sessions /\ ~hasExpired(sessions[pid])

\* Faulty variant: GET in the place of GETDEL.
SessionsAfterGet(pid) == IF ~Found(pid) THEN Without(sessions, pid) ELSE sessions

\* GETDEL drops the session in any case; the session aware adapter keeps it unless
\* it has expired.
SessionsAfter(pid) ==
    IF config.kind = "redis" \/ ~Found(pid) THEN Without(sessions, pid) ELSE sessions

\* Namespace.add: RestoreSession, and newServerSocket with the session or without.
Add(k) ==
    LET pid == srv[k].pid
        missed == Missed(pid, srv[k].offset)
    IN  /\ srv[k].life = "connecting"
        /\ IF Found(pid) /\ OffsetKnown(srv[k].offset)
           THEN /\ Restored(k, pid, missed)
                /\ h' = [h EXCEPT !.resent = Range(missed),
                           !.twice = @ \cup (Range(missed) \cap {srv[k].offset}),
                           !.cut = @ \/ \E id \in Range(missed) : ~Resent(id).whole]
           ELSE /\ srv' = [srv EXCEPT ![k].life = "joined"]
                /\ UNCHANGED <<sids, wire, h>>
        /\ sessions' = SessionsAfter(pid)
        /\ UNCHANGED <<config, adapterVars, store, seen, link, client>>

\* doConnect: the socket enters the store, joins its own room, and sends CONNECT;
\* the application's connection handler makes a new one join r.
\* A connection that has already ended is not noticed any more (module ServerConn).
\* Noted: the doConnect of an earlier connection comes after that of a later one.
DoConnect(k) ==
    LET s == srv[k].sid
    IN  /\ srv[k].life = "joined"
        /\ srv' = [srv EXCEPT ![k].life = "up"]
        /\ store' = With(store, s, k)
        /\ sids' = With(sids, s, IF s = k THEN config.in ELSE s \in DOMAIN sids /\ sids[s])
        /\ wire' = IF link = k THEN Append(wire, [id |-> 0, whole |-> TRUE]) ELSE wire
        /\ h' = IF s = h.sess \/ k # client.conn
                THEN [h EXCEPT !.usurped = @ \/ \E i \in Conns :
                        i > k /\ srv[i].sid = s /\ srv[i].life \in {"up", "closing", "gone"}]
                ELSE [h EXCEPT !.sess = s, !.due = {}, !.loss = {}, !.resent = {}]
        /\ UNCHANGED <<config, adapterVars, sessions, seen, link, client>>

\* The rooms at this moment, under the private identifier.
PersistSession(s) ==
    sessions' = With(sessions, s, [in |-> s \in DOMAIN sids /\ sids[s], age |-> 0])

\* The server notices the end of connection k.  onClose of its socket, if the
\* socket is connected: the session is persisted, Join is disabled.
OnClose(k) ==
    /\ client.conn >= k /\ link # k /\ k \notin seen
    /\ seen' = seen \cup {k}
    /\ IF srv[k].life = "up"
       THEN PersistSession(srv[k].sid) /\ srv' = [srv EXCEPT ![k].life = "closing"]
       ELSE UNCHANGED <<sessions, srv>>
    /\ UNCHANGED <<config, adapterVars, sids, store, link, clientVars, h>>

\* The rest of onClose, up to 10 seconds later, when the disconnecting handlers
\* are over: leaveAll and Namespace.remove go by the socket's identifier.
\* Noted: another socket with that identifier is connected or about to be.
LeaveAll(k) ==
    LET s == srv[k].sid
    IN  /\ srv[k].life = "closing"
        /\ srv' = [srv EXCEPT ![k].life = "gone"]
        /\ sids' = Without(sids, s)
        /\ store' = Without(store, s)
        /\ h' = [h EXCEPT !.swept = @ \/ \E i \in Conns :
                   i # k /\ srv[i].sid = s /\ srv[i].life \in {"joined", "up"}]
        /\ UNCHANGED <<config, adapterVars, sessions, seen, link, clientVars>>

\* The client's parser takes the next frame: as the attachment it is waiting for,
\* as the start of a packet that still needs one, or as a whole packet.
Arrive ==
    /\ wire # <<>>
    /\ LET f == Head(wire)
       IN  client' =
             IF client.partial # 0
             THEN [client EXCEPT !.partial = 0, !.inbox = Append(@, client.partial)]
             ELSE IF ~f.whole THEN [client EXCEPT !.partial = f.id]
             ELSE IF f.id = 0 THEN [client EXCEPT !.up = TRUE, !.pid = srv[link].sid]
             ELSE [client EXCEPT !.inbox = Append(@, f.id)]
    /\ wire' = Tail(wire)
    /\ UNCHANGED <<config, adapterVars, serverVars, link, h>>

\* callEvent, in a goroutine of its own or when the receive buffer is flushed:
\* the handler declares the offset as its last argument.
Handle(i) ==
    /\ client.up /\ i \in DOMAIN client.inbox
    /\ LET id == client.inbox[i]
       IN  /\ client' = [client EXCEPT !.inbox = RemoveAt(@, i), !.offset = id]
           /\ h' = [h EXCEPT !.got[id] = @ + 1,
                      !.twice = @ \cup (id + 1 .. client.offset)]
    /\ UNCHANGED <<config, adapterVars, serverVars, link, wire>>

\* A packet has attachments where that makes a difference: the in-memory adapter has
\* to encode it again, and the client is in the room.
Next ==
    \/ Tick \/ Dial \/ Break \/ Arrive \/ cleaner
    \/ \E opts \in Options, binary \in BOOLEAN :
         (binary => config.kind = "memory" /\ config.in /\ opts = "r") /\ Broadcast(opts, binary)
    \/ \E id \in pending : Apply(id) \/ SetKey(id)
    \/ StartReader \/ Reader("own") \/ Reader("other")
    \/ \E k \in Conns : Add(k) \/ DoConnect(k) \/ OnClose(k) \/ LeaveAll(k)
    \/ \E i \in DOMAIN client.inbox : Handle(i)

Spec == Init /\ [][Next]_vars

-----------------------------------------------------------------------------
(* Properties *)

TypeOK ==
    /\ config \in Configs
    /\ DOMAIN packet \subseteq Ids /\ Range(log) \subseteq DOMAIN packet
    /\ pending \subseteq DOMAIN packet /\ DOMAIN keys \subseteq DOMAIN packet
    /\ read \in [{"own", "other"} -> -1..MaxPackets]
    /\ DOMAIN sessions \subseteq Conns /\ DOMAIN sids \subseteq Conns
    /\ \A s \in DOMAIN sids : sids[s] \in BOOLEAN
    /\ DOMAIN store \subseteq Conns /\ \A s \in DOMAIN store : store[s] \in Conns
    /\ \A k \in Conns : /\ srv[k].life \in {"none", "connecting", "joined", "up", "closing", "gone"}
                        /\ srv[k].sid \in Conns /\ srv[k].pid \in {0} \cup Conns
    /\ link \in {0} \cup Conns /\ seen \subseteq Conns
    /\ client.pid \in {0} \cup Conns /\ client.offset \in {0} \cup Ids

\* Nothing is under way between the server and the client.
Quiet ==
    /\ link # 0 /\ srv[link].life = "up" /\ wire = <<>> /\ client.inbox = <<>>
    /\ config.kind = "memory" => pending = {}
    /\ config.kind = "redis" => read["own"] = Cardinality(DOMAIN packet)

\* Once everything under way has arrived, the client is connected, and if it was
\* recovered it has got every packet that was broadcast to its session, unless
\* the packet was applied between RestoreSession and the
\* socket's entry in the store, was dropped from the log, was overtaken by a
\* later one, was added before the Redis reader's first XREAD, or the onClose or
\* doConnect of another socket with its identifier undid what it had done, or a
\* packet was sent without its attachments (namespace.go:195-231,
\* adapter_session_aware.go:77-83,161-180).
NothingMissed ==
    Quiet => \/ h.cut
             \/ client.up /\ \A id \in h.due : h.got[id] > 0 \/ id \in h.loss \/ h.swept \/ h.usurped

\* No packet is handled twice, unless it was applied after it had been restored,
\* or was still unhandled when the client named its offset, or the offset went
\* back; with the Redis adapter also when it is the offset itself, or when two
\* namespaces read the stream.
NothingRepeated ==
    \A id \in Ids : h.got[id] > 1 => id \in h.twice \/ config.second

\* A connected server socket is the one its identifier finds in the store and is
\* in the rooms of its session, unless the onClose of another socket with its
\* identifier has come after it (server_socket.go:382-385), or the doConnect of
\* one from an earlier connection: the session aware adapter keeps a session that
\* it has restored, and restores it again.
ConnectedIsRegistered ==
    \A k \in Conns : k = link /\ srv[k].life = "up" /\ ~h.swept /\ ~h.usurped =>
      /\ srv[k].sid \in DOMAIN store /\ store[srv[k].sid] = k
      /\ srv[k].sid \in DOMAIN sids /\ (sids[srv[k].sid] <=> config.in)

\* Server socket k is connected, or is about to be.
Holds(k) == srv[k].life \in {"joined", "up"}

\* A session is taken over by one connection: no two server sockets that are connected, or
\* about to be, have the same identifier, whichever connections break, are noticed late or
\* overtake each other (RestoreSession, newServerSocket and onClose together; GETDEL in
\* adapter_redis_stream.go).  With the session aware adapter, which keeps the session that
\* it restores (adapter_session_aware.go:98-138), two sockets that were both restored from
\* it may have one, but none of them has it beside the socket whose session it was.
SessionHeldOnce ==
    \A j, k \in Conns : j # k /\ Holds(j) /\ Holds(k) /\ srv[j].sid = srv[k].sid =>
        config.kind = "memory" /\ srv[j].sid \notin {j, k}
=============================================================================
