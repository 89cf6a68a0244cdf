# A TLA+ model of socket.io-go

This directory holds a formal model of the Socket.IO library in `src/`: TLA+
modules, the TLC configurations that check them on small instances, and proofs
that the TLA+ proof system (TLAPS) checks for every instance. `PROJECT.json`
lists the components, runs, mutants, findings, hazards and theorems, and maps
every definition to the lines it models.

## The system

The library implements Socket.IO protocol 5 on Engine.IO protocol 4, server and
client. From the wire upwards:

| part | code | model |
| --- | --- | --- |
| transports: polling, websocket, webtransport | `engine.io/transport/` | `EngineSocket` (queues, readers, close), `Wire` (frames and limits) |
| Engine.IO server and sockets: handshake, upgrade, heartbeat | `engine.io/*.go` | `EngineSocket` |
| packets, payloads, JSON parser, attachments | `engine.io/parser/`, `parser/json/` | `Wire` |
| packet queue between Socket.IO and Engine.IO | `packet_queue.go` | `PacketQueue`, `FifoChannel` |
| server connection, namespaces, server sockets, stores | `server_conn.go`, `namespace.go`, `server_socket.go`, `middleware.go`, `store.go` | `ServerConn` |
| rooms and broadcasts | `adapter/adapter_memory.go`, `adapter/broadcast_operator.go` | `Adapter` |
| connection state recovery, in memory and with Redis | `adapter/adapter_session_aware.go`, `adapter/adapter_redis_stream.go` | `SessionRecovery` |
| client manager and client socket, reconnection | `client_manager*.go`, `client_socket.go` | `ClientManager` |
| client emits, buffers, acks, timeouts, retry queue | `client_socket.go`, `handler.go`, `client_packet_queue.go` | `ClientEmit` |

An event travels down this table at one side and up at the other. The modules
meet where the code has a narrow interface. `PacketQueue` implements
`FifoChannel`, and the modules above it treat the queue as that channel.
`ServerConn` and `ClientManager` see an Engine.IO socket as something that is
open, closing or closed and whose close runs once, which is what `EngineSocket`
has inside. `SessionRecovery` keeps of `Adapter` the entry of one socket.

A Go program is modelled as its goroutines. A section under a mutex is one
step; everything between two sections can be interleaved. A second caller of
`sync.Once.Do` waits for the first. A panic inside a handler is recovered, but
a mutex that is not released by a `defer` stays locked. Timers may fire at any
time they are armed. Definitions keep the names of the source.

Faulty variants of actions and helpers, marked as such, stand before the
definition they vary. They are mistakes the code does not make; `PROJECT.json`
names for each the property that it breaks.

**History and blame.** Several modules carry a record `h` that steers no action,
but for counting faults and emits up to their bounds. It remembers what was sent, received or lost, and which races have happened.
Where the code does lose, repeat or reorder something, the property names the
race: it says that nothing is lost *except* through this window. Such a
property says more than one that excludes the window from the model, since it
also says that there is no other.

## Modules

**`FifoChannel`** is what a packet queue promises: packets are appended at one
end, leave at the other in order, and may be discarded.

**`PacketQueue`** is `packetQueue` with its goroutines: adders (`add` appends
under the mutex and then signals `ready`), the poller (`poll`, `get`,
`pollAndSend`), `reset`, and goroutines that wait for a drain and close the
queue (`closePacketQueue` of the manager). Packets are numbered in the order of
the appends; `sent`, `dropped` and `added` are history.

**`ServerConn`** is one connection of the server: a goroutine for each packet
(`onParserFinish` looks up the namespace; CONNECT goes through `Namespace.add`,
the middlewares, `doConnect`, `onConnect`, `sockets.set`, `nsps.set`), the
connect timer, `Server.Close`, application goroutines that call `Disconnect`
and `Join`, also from a `disconnecting` handler, and the Engine.IO goroutine
that runs `serverConn.onClose`. The state is that of the two socket indexes,
the namespace's sockets, the rooms, and for each socket `connected`, whether
`join` has been replaced, and how far `onClose` is. With `Eager` the client
sends any packet at any time, otherwise it follows the protocol.

**`Adapter`** is the rooms of a namespace: the maps `rooms` and `sids` under
`AddAll`, `Delete` and `DeleteAll`, the sockets' connects, closes, `Join` and
`Leave`, and concurrent calls of `apply`, the loop behind `Emit`,
`FetchSockets`, `SocketsJoin`, `SocketsLeave` and `DisconnectSockets`. `apply`
releases the mutex around every callback while it ranges over a map; the model
keeps what Go says of such a range and no more. The in-memory and the Redis
adapter share this code.

**`SessionRecovery`** is a client that breaks off and comes back with its
private session ID and its offset: `PersistSession`, `RestoreSession`,
`Broadcast`, the cleaner, the Redis reader, `Namespace.add` and the `onClose` of
the previous socket are goroutines of their own. Redis is the commands the
adapter sends (`XADD`, `XRANGE`, `XREAD`, `SET`, `GETDEL`), marked external.
A private identifier is the number of the connection that had it first.

**`ClientManager`** is the `Manager` with one socket. Goroutines are a bag of
tasks (**`Goroutines`**: two operations, start and end, in a form the prover
can reason about), because `open`, `reconnect`, callbacks and events start new
ones. It has
`connect` with its two mutexes, `open`, `reconnect` with its two checks of
`skipReconnect`, `onClose`, `Close`, the callbacks with their `active` flag, the
registrations of the socket for open and close events, and its `Connect`,
`Disconnect`, `onConnect` and `onDisconnect`. The server is reduced to its
answer to CONNECT and to a disconnection.

**`ClientEmit`** is what a client socket does with packets, with its goroutines
in a bag of `Goroutines` too: `Emit`, the send and the receive buffer, `emitBuffered`, the acks with their timeouts, and the queue
of `Retries` with its forced drain after a reconnection. The manager is a link
that breaks and comes back.

**`EngineSocket`** is one Engine.IO session, both ends and the network: dialing
along `Transports`, `maybeUpgrade` and `finishUpgradeTo` at the client,
`upgradeTo` at the server, the poll queue with its polls and posts, the streams
and their readers, heartbeats, `Close` of both ends and of the server. A
transport ends through its once, as `closed` (its callbacks hear of it) or
`discarded` (they do not).

**`Wire`** is the way of an event's arguments: `deconstruct` takes `Binary`
values out of a tree of Go containers and writes placeholders into the caller's
values, `writeWritablePackets` splits the frames into posts at `maxPayload`,
frames of websocket and webtransport have their length prefix and limits,
`Parser.Add` collects attachments and `reconstruct` puts them back. Texts are
kept as lengths. Where a length was misread, what follows in the stream depends on
the user's bytes, and `ReadAstray` reads it as any packet or fails.

**Proofs**: `PacketQueueProofs`; `AdapterProofs`; `ClientManagerProofs`;
`SessionRecoveryProofs`; `ServerConnProofs`; `EngineSocketProofs`;
`ClientEmitKeeps` and `ClientEmitProofs`. The inductive invariants of the last
three components are in modules of their own, `ServerConnInv`,
`EngineSocketInv` and `ClientEmitInv`.

## Runs

| run | checks | bounds |
| --- | --- | --- |
| `packet_queue` | no lost wake-up, refinement of `FifoChannel`; every packet is sent unless the queue is closed or reset; a closed queue ends its poller | two adders, two closers, three packets, a reset |
| `server_conn` | the socket indexes agree; the namespace lists exactly the sockets between `doConnect` and `onClose`; where a connected socket cannot be looked up; who may waste a socket's `once` | two packets of any kind on two namespaces, one user, `Server.Close` |
| `server_conn_live` | closers return, also a `disconnecting` handler that closes the connection again; stored sockets are closed; an idle client is closed | two packets, one namespace, one user, the timer |
| `adapter` | the indexes agree; a call of `apply` reaches every socket that stays and none twice; closed sockets leave nothing behind but what a racing `Join` adds | two sockets, two rooms, two calls of `apply`, four acts |
| `session_recovery` | CONNECT arrives; what a recovered client misses or gets twice, and through which races only; a connected socket is registered; a session has one holder, or with the session aware adapter several restored ones | three connections and one broadcast or two of each, both adapters; two connections outside the room, and one act less with two namespaces; binary broadcasts only to the room, with the client in it and the in-memory adapter, the one that encodes a missed packet again |
| `client_manager` | the callbacks that can be silenced, the queue and the connection belong together; one listener | two dials, three faults and calls together, one reconnection attempt |
| `client_manager_live` | goroutines end; without faults and `Disconnect` the socket gets connected | three dials, two events |
| `client_emit` | what the retry queue drops or overlaps; nothing is left in a buffer, and when its mutex stays locked; ack and event handlers are called once | two emits, one event, three acts, `Retries` 0 or 1, with and without `AckTimeout` |
| `engine` | packets arrive once and in order in both directions through upgrades; nothing is lost; an open socket has a transport that reports its end, a closed one lets go of its own, a closed server has no open socket | every list of transports, two packets each way, one fault |
| `engine_live` | when one end has closed, so does the other | heartbeats, one fault, no packets |
| `engine_poll` | **violation**: a poll waits while its queue has a packet | one packet |
| `wire` | events arrive once, in order, with their own data; the parser does not get stuck; when `Emit` fails; what a handler gets; what closes the connection | three emits of two values out of every container, limits that are met and exceeded; after a length that was misread, no more than three events |

The bounds are the smallest that have the interesting cases. Two packets are
enough for a CONNECT to race with a second CONNECT, an event or a disconnect;
two adders for an append to come before the signal of another; two calls of
`apply` for one to change what the other ranges over; two connections for a
recovery, and three for a session that is restored twice. A third broadcast or a third emit with retries repeats what two
show. In `client_manager` and `client_emit` calls and faults share one bound,
so that the run has three of either and all mixtures. A dial beyond the bound
waits for ever in `client_manager`; in `client_manager_live` three dials are
never the obstacle. In `engine` the fault may be a `Close` of either end or of
the server, a break, or a timer that comes before an answer. `Large` in `wire`
is over 65535 and `Limit` is exceeded by a few short packets, so that both
sides of every comparison occur. `adapter` uses the symmetry of sockets and
rooms, which its specification does not tell apart.

Deadlock is not checked: these systems may stop, when the connection is closed
or the user makes no more calls. What must not stop is stated as liveness.

Fairness is weak fairness of the goroutines the Go scheduler runs, of timers
that are overdue, of requests that are under way and of the callback of a
closing connection. The one strong fairness is in `PacketQueue`: a `select` with
`_close` and `ready` both ready chooses at random, so it does not pass over
`_close` for ever. Clients, users, faults and the network's losses are under no
obligation.

## What the model shows of the code

**Violation run.** `engine_poll`: `poll_queue.go:23` says that a poll returns
at once if there is a packet and otherwise waits for one. `ready` has no buffer
and `add` does not wait for a receiver, so that a packet added between the
check and the wait is signalled to nobody; the poll waits until the next
packet or `pollTimeout`.

The other behaviours below are exceptions that the properties name, or are
reached by the model without a property against them.

*Packet queue.* The `select` in `poll` gives `_close` no precedence
(`packet_queue.go:39`); a drain can be missed, and a drain of an older batch
lets `close` discard newer packets.

*Server connection.* A connection that closes during a CONNECT leaves a
connected socket in the namespace. Rooms joined in a middleware outlive a
refused socket. Two CONNECTs of one namespace can both succeed, and the close
of one socket deletes the namespace's entry of the other. `Server.Close` uses
up the once of a socket that is about to be connected. A `Join` that has read
its function before `onClose` replaced it enters a room for good.

*Client manager.* `Close` between two steps of `reconnect` leaves the manager
`reconnecting` with no goroutine. A connection that breaks while `connect` sets
it up leaves the manager `connected` to it.

*Client emits.* A forced drain overlaps an attempt that is unanswered; the two
answers remove two packets, or find an empty queue and leave its mutex locked.
A packet with attachments is sent by one attempt only, because `Encode` has
replaced its arguments. `emitBuffered` returns at an event whose handler
acknowledges at once, and leaves both buffers. The loop that takes a timed out
packet out of the send buffer shrinks the slice it ranges over and may panic
with the mutex locked, and it mixes up ack IDs of both directions. A goroutine
that has read the state before a flush appends after it.

*Recovery.* A packet broadcast between `RestoreSession` and the socket's entry
in the store is missed; one that is logged and not yet sent comes twice. The
`onClose` of the previous socket removes the entries of the recovered one. The
session aware adapter keeps a session it has restored, so that two connections
get sockets with one identifier; if the earlier one's `doConnect` is late, the
store finds its socket and not the one in use. A
missed packet with attachments is sent without them, and the client takes what
follows, the CONNECT packet perhaps, for an attachment. The cleaner drops a
packet that has not expired. With Redis, the range includes the offset itself,
the stream is trimmed, the reader misses what is added before its first read,
and the adapters of all namespaces read one stream.

*Engine.IO.* The answer of a poll that is under way races with the transport
the session is upgraded to. An upgrade from websocket to webtransport loses the
frames that were not read. A timeout that comes between a probe's answer and
the swap leaves a socket with a dead transport until the heartbeat. A socket
that is closed during a probe is still upgraded and goes on answering pings. A
handshake that has passed the check survives `Server.Close`.

*Wire.* A second `Emit` of the same list or map with a `Binary` fails or sends a
placeholder, and plain bytes beside a `Binary`, typed maps of `Binary` and
structs in maps fail. Placeholders in arrays in maps, or decoded into
interfaces, are not restored. The first packet after a split at `maxPayload` is
not counted, nor is an empty one, and such a post can be over the limit, which
closes the connection. Frames of 65536 bytes or more are read with length 0 on
webtransport. A text frame then closes the connection. An attachment is taken for
an empty one: the handler is called with an empty `Binary`, the connection stays
open, and the bytes of the attachment are read as frames.

## Proofs

All theorems hold for every value of the constants that the named assumptions
of the modules allow: `AdapterAssumption` (rooms, sockets and the two marks are
different), `ConnAssumption` (the goroutines are), and bounds that are natural
numbers in the others. Order and conservation of the queue and `OwnRoomLeft`
are left to the proofs; the other proved properties are also properties of the
runs. The inductive invariants were also model-checked on the instances of the runs.

**`PacketQueueProofs`**: `PacketQueue` keeps its types (`TypeCorrect`), loses no
wake-up (`NoLostWakeupHolds`), delivers in order (`InOrderHolds`), conserves
packets (`ConservationHolds`) and implements `FifoChannel`
(`QueueRefinesFifo`). Order and conservation are inductive once the types are
known: numbers grow along `sent \o batch \o packets` and are at most `added`,
which makes a new packet larger than all before it. The wake-up invariant says
that a poller that has found the queue empty, whether or not it has reached its
select, and now has packets in the queue, has a token in `ready` or an adder
that has appended and not signalled. The refinement maps the channel's contents
to `batch \o packets`.

**`AdapterProofs`**: the two indexes agree (`RoomsAgreeHolds`), a closed socket
is left in no room but those of racing `Join`s (`ClosedLeavesNothingHolds`), and
a call of `apply` reaches every socket that stays, and none twice
(`ReachedOnceHolds`, with `TypeOKHolds`). Lemmas say what `AddAll`, `Delete` and
`DeleteAll` of one socket do to a pair of indexes. The invariant adds that every
call of `apply` names rooms that exist, since its callbacks join and leave them,
and that every `Join` under way for a socket whose `onClose` has begun is in
`racing`. For `ReachedOnce` every call under way has an invariant of its own
(`Running`) about the members of its rooms, the store, the sockets that have
left and those with a racing `Join`. Whatever another goroutine does changes
these four in one of two ways, `Grows` or `Leaves`, and both keep it.

**`ServerConnProofs`**: the indexes of the socket store agree
(`StoreIndexHolds`), the namespace lists exactly the sockets between `doConnect`
and `onClose` (`NamespaceListsConnectedHolds`), the types are kept
(`TypeOKHolds`), a closed socket has left its own room (`OwnRoomLeftHolds`), only `Server.Close` wastes a once
(`SkipOnlyOnShutdownHolds`), and a connected socket cannot be looked up only in
the windows named (`UnindexedOnlyInWindowsHolds`). None of them is inductive
alone. `Inv` of `ServerConnInv` adds, besides the types, four facts: the order of a socket's life
(`Lives`: `onClose` gets past its check only if the socket is connected, and
the socket is not connected before `onConnect`), that stored sockets have been
connected (`Stored`), that the loops that call `onClose` have sockets from the
stores, or from the namespace if it is `Server.Close` (`Loops`), and where a
connected socket is when it is not stored (`Whereabouts`). Each action has a
lemma; an action that only moves a goroutine goes through `GoesToKeeps`.

**`ClientManagerProofs`**: the callbacks that can be silenced, the packet queue
and the manager's connection belong together (`SubscribedIsCurrentHolds`), and
at most one connection reaches the manager besides the one that `connect` sets
up (`OneListenerHolds`, with `TypeOKHolds`). The invariant follows `connect`
through its section under `eioMu`: at most one goroutine is in it, counted in
the bag (`Holder`), what it has replaced so far depends on where it is
(`Progress`), and a connection that is up and reaches the manager is subscribed
to, or was dialled last and has not got that far (`Listeners`). All other steps
leave that goroutine alone, which `OutsideKeeps` shows once for all of them.

**`SessionRecoveryProofs`**: a connected socket is the one its identifier finds
and is in the rooms of its session, with the two exceptions the property names
(`ConnectedIsRegisteredHolds`), and a session has one holder with Redis, while
with the session aware adapter no restored socket has it beside the one whose
session it was (`SessionHeldOnceHolds`). The first needs to know that an identifier is that of
an earlier connection or one's own (`Numbered`), that persisted rooms are those
of the application (`RoomsKept`), and that a socket which has joined and has not
been disturbed keeps its rooms until it is connected and its store entry after
that (`Joined`, `Stored`). The second follows the session (`Held`): it is
persisted or taken over only when its first socket has closed, and with Redis it
is in the store of sessions or with one socket, because `GETDEL` takes it from
the one and `onClose` from the other.

**`ClientEmitProofs`**, for any number of emits, events and broken connections and
any `Retries`: while no forced drain has overlapped an attempt, the retry queue
drops no packet and leaves its mutex free (`RetryQueueKeepsPacketsHolds`). An
ack handler is called at most once, and an event is handled and acknowledged at
most once unless a flush has returned early (`HandlersCalledOnceHolds`). What is
left in a buffer of a connected socket came there through a race that is named
(`NothingStrandedHolds`). The types are kept (`TypeOKHolds`).
The invariant of `ClientEmitInv` has five parts:

- `Base`: besides the types, what a goroutine or a frame may carry where it is,
  e.g. that a goroutine past the registration of its ack has an ID that was
  given out.
- `Calls`: an ID has at most one goroutine of a timeout, and how far that is
  agrees with the state of the handler and with the calls counted.
- `Retry`: as long as no forced drain has overlapped an attempt, only the head
  of the queue waits for an ACK (`Queueing`), and its attempt is in one place: a
  goroutine about to send it, a live handler, or an expired timeout (`Trying`).
  This is what makes the answer that removes the head be the head's answer.
- `Once`: unless a flush returned early, an event not yet handled is in one
  place (`EventsOnce`), and so is an ACK not yet sent, whose event was handled
  (`RepliesOnce`).
- `Stranded`: a packet with an ack ID is in the send buffer once (`FirstsOnce`),
  so that the loop which removes a timed out packet panics only where
  two frames have its ID: those of a packet with an attachment, or of an ACK
  whose ID is the same number.

The invariant looks at little of what a step does. `ClientEmitInv` states that
little for each step as an effect, such as `SendDoes`; one set of lemmas proves
the effects from the actions, the other that each part is kept from the effects.
Two loops of the code are in the effects: the one over the send buffer in
`TimeOut` and the one over the receive buffer in `EmitBuffered`. They are
recursive functions over the index. What they compute is proved by induction in
the form that every set of numbers has a least element, since the induction
rules of the library cannot be instantiated.

**`EngineSocketProofs`**: sockets and transports follow each other
(`TransportsFollowHolds`). The four clauses of the property are far from
inductive: whether an open socket's transport is live depends on which probe
callbacks are armed, whether an upgrade's timeout has fired, and who has taken
the transport's once. `Inv` has for each end which transport owns the callbacks
and where an upgrade stands (`ClientOK`, `ServerOK`), and between the ends
`Behind`: the server has swapped its transport only after the UPGRADE packet
that the client sends when it has, so a packet of that kind on a stream means
that the client is past the swap. The functions of the model that take a state
to a state each have a lemma that says what they change.

**Only model-checked:**

- All liveness (fairness and `ENABLED` are outside the prover's reach).
- `PacketsInOrder` and `NothingLost` of `EngineSocket`, `NothingMissed` and
  `NothingRepeated` of `SessionRecovery`, and the types of both. They are about
  filtered sequences (`SelectSeq`), which the provers do not see through, and
  about every packet under way at once; the inductive invariants they need
  have not been worked out.
- `Wire`: its values are trees with recursive operators.

## Not modelled

- The server's own acks and per-event middlewares. They use the `ackHandler` of
  `ClientEmit` and have no buffers.
- The stores of user handlers (`store.go`): `on`, `once` and `off`, which removes
  elements of the slice it ranges over.
- The durations of the backoff: a wait takes any time in `ClientManager`.
- `ServerSideEmit`, remote sockets of other servers, and more than one server on
  a Redis stream.
- The order of two events of one client: the server handles each packet in a
  goroutine of its own, and nothing in the code orders them.
- Several sockets of one manager; they share it through the registrations that
  `ClientManager` has for one.
- The text of packet headers and payloads (`parseHeader`, base64, separators),
  JSONP, CORS, authentication and malformed requests.
- Serializers, debug output and examples: no state of the system.
