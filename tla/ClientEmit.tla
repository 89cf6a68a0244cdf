----------------------------- MODULE ClientEmit -----------------------------
(***************************************************************************)
(* What a clientSocket does with the packets of its user and of the server *)
(* (client_socket.go, client_packet_queue.go, handler.go): the send buffer *)
(* and the receive buffer of a socket that is not connected, the acks and  *)
(* their timeouts, and the queue that retries unacknowledged packets.      *)
(*                                                                         *)
(* Goroutines are a bag of tasks; a section under a mutex is one step.  A  *)
(* panic inside such a section is recovered by handler.go, but leaves the  *)
(* mutex locked.  The manager is reduced to a link that breaks and comes   *)
(* back; its close and open events reach the socket in that order.         *)
(***************************************************************************)
EXTENDS Integers, Sequences, FiniteSets, Goroutines

CONSTANTS Retries,     \* ClientSocketConfig.Retries, where it is set
          MaxEmits,    \* bound: calls of Emit
          MaxEvents,   \* bound: events of the server
          MaxActs,     \* bound: calls of Emit, events and broken connections, together
          MaxIds       \* bound: ack IDs in use

ASSUME EmitAssumption ==
  /\ Retries \in Nat
  /\ MaxEmits \in Nat /\ MaxEvents \in Nat /\ MaxActs \in Nat /\ MaxIds \in Nat

VARIABLES config,      \* clientSocket.config: Retries or 0, and whether AckTimeout is set
          tasks,       \* the goroutines
          link,        \* the connection: up, lost but not noticed, or down
          joined,      \* the server has the socket
          state,       \* clientSocket.state
          sendBuffer, sendMu,      \* clientSocket.sendBuffer; its mutex is left locked
          receiveBuffer, recvMu,   \* clientSocket.receiveBuffer; its mutex is held
          nextId, acks, handler,   \* clientSocket.ackID and acks; the state of each ackHandler
          queue, queueMu,          \* clientPacketQueue.queuedPackets; its mutex is left locked
          pending, tries,          \* queuedPacket.pending and tryCount
          spoiled,     \* queued packets whose arguments Encode has replaced
          kind, ekind, \* what each Emit and each event of the server is
          breaks,      \* times the link has broken
          h            \* history of what the user, the server and the queue saw

linkVars == <<link, joined, state, breaks>>
bufVars == <<sendBuffer, sendMu, receiveBuffer, recvMu>>
ackVars == <<nextId, acks, handler>>
queueVars == <<queue, queueMu, pending, tries, spoiled>>
vars == <<config, tasks, linkVars, bufVars, ackVars, queueVars, kind, ekind, h>>

Configs == [retries : {0, Retries}, timeout : BOOLEAN]
Emits == 1..MaxEmits
Events == 1..MaxEvents
Ids == 1..MaxIds
None == 0

\* An Emit without an ack function, with one, with one and an attachment, and
\* a volatile one; an event of the server without an ID, and with one whose
\* handler acknowledges before or after it returns, or has no ack function.
\* With Retries an Emit without an ack function is queued like one with, and a
\* volatile one is sent like without Retries.  Packets with attachments are left
\* to the configuration in which only a reconnection sends them again.
EmitKinds == {"event", "ack", "binary", "volatile"}
Emittable == IF config.retries = 0 THEN EmitKinds
             ELSE IF config.timeout THEN {"ack"} ELSE {"ack", "binary"}
EventKinds == {"plain", "acks", "acksLater", "noAck"}

Task(p, m, i) == [pc |-> p, m |-> m, id |-> i, reply |-> FALSE]
\* A frame in the send buffer: of Emit m, or of the ACK of
\* event m.  A packet with an attachment has two.
Frame(m, i, r, p) == [m |-> m, id |-> i, reply |-> r, part |-> p]

PCs == {"drain", "drainForced", "send", "buffer", "sleep", "unbuffer", "onAck",
        "sendConnect", "onConnect", "flush", "onEvent",
        "bufferEvent"}
Tasks == [pc : PCs, m : Nat, id : Nat, reply : BOOLEAN]
FrameSet == [m : Nat, id : Nat, reply : BOOLEAN, part : 1..2]

TypeOK ==
  /\ config \in Configs
  /\ IsBagOf(tasks, Tasks)
  /\ link \in {"up", "lost", "down"} /\ joined \in BOOLEAN
  /\ state \in {"disconnected", "pending", "connected"}
  /\ sendBuffer \in Seq(FrameSet)
  /\ receiveBuffer \in Seq(Events)
  /\ sendMu \in BOOLEAN /\ recvMu \in BOOLEAN /\ queueMu \in BOOLEAN
  /\ nextId \in Ids \cup {MaxIds + 1} /\ acks \subseteq Ids
  /\ handler \in [Ids -> {"none", "live", "called", "timedOut"}]
  /\ queue \in Seq(Emits) /\ pending \subseteq Emits /\ spoiled \subseteq Emits
  /\ tries \in [Emits -> Nat]
  /\ kind \in [Emits -> EmitKinds \cup {"none"}]
  /\ ekind \in [Events -> EventKinds \cup {"none"}]
  /\ breaks \in 0..MaxActs

Init ==
  /\ config \in Configs
  /\ tasks = NoTasks
  /\ link = "down" /\ joined = FALSE /\ state = "disconnected" /\ breaks = 0
  /\ sendBuffer = <<>> /\ sendMu = FALSE /\ receiveBuffer = <<>> /\ recvMu = FALSE
  /\ nextId = 1 /\ acks = {} /\ handler = [i \in Ids |-> "none"]
  /\ queue = <<>> /\ queueMu = FALSE /\ pending = {} /\ spoiled = {}
  /\ tries = [m \in Emits |-> 0]
  /\ kind = [m \in Emits |-> "none"] /\ ekind = [e \in Events |-> "none"]
  /\ h = [calls |-> [i \in Ids |-> 0],        \* calls of each ack handler
          delivered |-> [e \in Events |-> 0], \* calls of the handler of an event
          replied |-> [e \in Events |-> 0],   \* ACK packets of an event
          left |-> [m \in Emits |-> "no"],    \* how a packet left the retry queue
          overlap |-> FALSE,   \* a forced drain sent a packet that was pending
          aborted |-> FALSE,   \* emitBuffered returned early
          raced |-> FALSE]     \* a buffer got an item while the socket was connected

-----------------------------------------------------------------------------
(* Steps of goroutines, and the link.                                      *)

\* Task t goes on as the tasks of S; with S = {} it ends.
Becomes(t, S) == tasks' = Starting(Ending(tasks, t), S)
Starts(t) == tasks' = Starting(tasks, {t})
At(t, p) == t \in DOMAIN tasks /\ t.pc = p
To(t, p) == [t EXCEPT !.pc = p]

MoreActs ==
  Cardinality({m \in Emits : kind[m] # "none"}) + Cardinality({e \in Events : ekind[e] # "none"})
    + breaks < MaxActs

Connected == link # "down" /\ state = "connected"
HasAck(m) == kind[m] \in {"ack", "binary"}
Queued(m) == config.retries > 0 /\ kind[m] # "volatile"

Lost == link' = "lost" /\ joined' = FALSE

\* Manager.packet by task t, which goes on as S.  What is sent on a broken
\* connection is lost.  The server closes a connection on which it gets a packet
\* of a socket it does not have, or an attachment without its packet.  It
\* acknowledges a packet or does not; the ACK arrives at any later time.
Packet(t, S, frames) ==
  LET orphan(k) == frames[k].part = 2 /\ (k = 1 \/ frames[k - 1] # [frames[k] EXCEPT !.part = 1])
      asked == {k \in DOMAIN frames : frames[k].part = 1 /\ ~frames[k].reply /\ frames[k].id # None}
  IN  IF link # "up" \/ frames = <<>>
        THEN Becomes(t, S) /\ UNCHANGED <<link, joined>>
      ELSE IF ~joined \/ \E k \in DOMAIN frames : orphan(k)
        THEN Becomes(t, S) /\ Lost
      ELSE /\ \E A \in SUBSET asked :
                Becomes(t, S \cup {Task("onAck", frames[k].m, frames[k].id) : k \in A})
           /\ UNCHANGED <<link, joined>>

Frames(t) ==
  IF ~t.reply /\ kind[t.m] = "binary"
    THEN <<Frame(t.m, t.id, FALSE, 1), Frame(t.m, t.id, FALSE, 2)>>
    ELSE <<Frame(t.m, t.id, t.reply, 1)>>
CountReplies(hh, frames) ==
  LET n(e) == Cardinality({k \in DOMAIN frames : frames[k].m = e /\ frames[k].reply})
  IN  [hh EXCEPT !.replied = [e \in Events |-> hh.replied[e] + n(e)]]

-----------------------------------------------------------------------------
(* clientSocket.emit and clientPacketQueue.addToQueue.                     *)

\* Faulty variant: a packet that waits for its ACK is sent again.
MaySendAlways(q, force) == Connected /\ q # <<>>

\* drainQueue(force) sends the packet at the head of queue q.
MaySend(q, force) == Connected /\ q # <<>> /\ (Head(q) \in pending => force)

\* Faulty variant: the tries count down.
NextTryDown(m) == tries[m] - 1

NextTry(m) == tries[m] + 1

\* drainQueue(force) on queue q: beside the goroutines of bag B there is now one
\* that sends the packet at the head, or there is none.
DrainQueue(B, q, force) ==
  LET m == Head(q)
  IN  IF MaySend(q, force)
        THEN /\ pending' = pending \cup {m}
             /\ tries' = [tries EXCEPT ![m] = NextTry(m)]
             /\ tasks' = Starting(B, {Task("send", m, None)})
             /\ h' = [h EXCEPT !.overlap = @ \/ (m \in pending /\ force)]
        ELSE tasks' = B /\ UNCHANGED <<pending, tries, h>>

AddToQueue(m) ==
  /\ ~queueMu
  /\ queue' = Append(queue, m)
  /\ DrainQueue(tasks, queue', FALSE)

\* The user calls Emit.  With Retries the packet joins the queue; otherwise it
\* is sent.
Emit(m, k) ==
  /\ MoreActs /\ kind[m] = "none" /\ \A n \in Emits : n < m => kind[n] # "none"
  /\ kind' = [kind EXCEPT ![m] = k]
  /\ IF config.retries > 0 /\ k # "volatile"
       THEN AddToQueue(m)
       ELSE Starts(Task("send", m, None)) /\ UNCHANGED <<queue, pending, tries, h>>
  /\ UNCHANGED <<config, linkVars, bufVars, ackVars, queueMu, spoiled, ekind>>

\* drainQueue after a packet has left the queue, and when the socket connects.
Drain(t) ==
  /\ At(t, "drain") \/ At(t, "drainForced")
  /\ ~queueMu
  /\ DrainQueue(Ending(tasks, t), queue, t.pc = "drainForced")
  /\ UNCHANGED <<config, linkVars, bufVars, ackVars, queue, queueMu, spoiled, kind, ekind>>

\* registerAckHandler for an Emit with an ack function, or of the retry queue: a
\* new ID, its entry in acks, and the goroutine of the timeout.
NeedsAck(t) == ~t.reply /\ (Queued(t.m) \/ HasAck(t.m))
Register(t) ==
  IF ~NeedsAck(t) THEN UNCHANGED ackVars
  ELSE /\ nextId \in Ids
       /\ nextId' = nextId + 1
       /\ handler' = [handler EXCEPT ![nextId] = "live"]
       /\ acks' = acks \cup {nextId}
Registered(t) == IF NeedsAck(t) THEN [t EXCEPT !.id = nextId] ELSE t
Timers(t) == IF NeedsAck(t) /\ config.timeout THEN {To(Registered(t), "sleep")} ELSE {}

\* _sendBuffers: the frames go to the manager, or the goroutine will append them
\* to the send buffer.
SendBuffers(t) ==
  LET r == Registered(t)
  IN  IF state # "disconnected"
        THEN Packet(t, Timers(t), Frames(r)) /\ h' = CountReplies(h, Frames(r))
        ELSE /\ Becomes(t, Timers(t) \cup IF ~t.reply /\ kind[t.m] = "volatile" THEN {}
                                          ELSE {To(r, "buffer")})
             /\ UNCHANGED <<link, joined, h>>

\* The rest of emit, and of sendAckPacket.  Encode puts placeholders for
\* attachments into the arguments it is given, which for a queued packet are the
\* ones that all its attempts use: it rejects them the next time.
Send(t) ==
  /\ At(t, "send")
  /\ Register(t)
  /\ LET consumes == ~t.reply /\ Queued(t.m) /\ kind[t.m] = "binary"
     IN  /\ spoiled' = IF consumes THEN spoiled \cup {t.m} ELSE spoiled
         /\ IF consumes /\ t.m \in spoiled
              THEN Becomes(t, Timers(t)) /\ UNCHANGED <<link, joined, h>>
              ELSE SendBuffers(t)
  /\ UNCHANGED <<config, state, breaks, bufVars, queue, queueMu, pending, tries, kind, ekind>>

\* The socket may have connected since its state was read.
AppendSendBuffer(t) ==
  /\ At(t, "buffer") /\ ~sendMu
  /\ sendBuffer' = sendBuffer \o Frames(t)
  /\ h' = [h EXCEPT !.raced = @ \/ state = "connected"]
  /\ Becomes(t, {})
  /\ UNCHANGED <<config, linkVars, sendMu, receiveBuffer, recvMu, ackVars, queueVars, kind, ekind>>

-----------------------------------------------------------------------------
(* Acks: the handler's timeout goroutine, and the ACK packet.              *)

\* Faulty variant: the timeout does not look whether the handler was called.
ExpireAnyway(t) ==
  /\ At(t, "sleep")
  /\ handler' = [handler EXCEPT ![t.id] = "timedOut"]
  /\ Becomes(t, {To(t, "unbuffer")})
  /\ UNCHANGED <<config, linkVars, bufVars, nextId, acks, queueVars, kind, ekind, h>>

\* The timeout expires before the handler is called.
Expire(t) ==
  /\ At(t, "sleep")
  /\ IF handler[t.id] = "called"
       THEN Becomes(t, {}) /\ UNCHANGED handler
       ELSE /\ handler' = [handler EXCEPT ![t.id] = "timedOut"]
            /\ Becomes(t, {To(t, "unbuffer")})
  /\ UNCHANGED <<config, linkVars, bufVars, nextId, acks, queueVars, kind, ekind, h>>

\* Faulty variant: the bound is taken one too low.
RemoveFramesOffByOne(buf, i) ==
  [buffer |-> SelectSeq(buf, LAMBDA f : f.id # i),
   panic |-> buf # <<>> /\ buf[Len(buf)].id = i]

\* The loop that removes the frames with ack ID i from the send buffer while it
\* ranges over it: it sees the array that the removals shift, up to the length
\* the buffer had before, and panics when it removes beyond the present one.
RemoveFrame(acc, k, i) ==
  IF acc.panic \/ acc.array[k].id # i THEN acc
  ELSE IF k > acc.len THEN [array |-> acc.array, len |-> acc.len, panic |-> TRUE]
  ELSE [array |-> [j \in DOMAIN acc.array |->
                     IF j \in k..(acc.len - 1) THEN acc.array[j + 1] ELSE acc.array[j]],
        len |-> acc.len - 1, panic |-> FALSE]
RemoveLoop(buf, i) ==
  LET after[k \in 0..Len(buf)] ==
        IF k = 0 THEN [array |-> buf, len |-> Len(buf), panic |-> FALSE]
        ELSE RemoveFrame(after[k - 1], k, i)
  IN  after
RemoveFrames(buf, i) ==
  LET end == RemoveLoop(buf, i)[Len(buf)]
  IN  [buffer |-> SubSeq(end.array, 1, end.len), panic |-> end.panic]

\* The call of an ack handler: of the user's function, or of replacementAck.  In
\* this one the packet at the head of the queue leaves it when the packet of the
\* handler was acknowledged or has been tried Retries + 1 times; removing from an
\* empty queue panics.
Called(t, failed) ==
  LET count == [h EXCEPT !.calls[t.id] = @ + 1]
  IN  IF ~Queued(t.m)
        THEN h' = count /\ Becomes(t, {}) /\ UNCHANGED queueVars
      ELSE IF failed /\ tries[t.m] <= config.retries
        THEN /\ h' = count
             /\ pending' = pending \ {t.m}
             /\ Becomes(t, {Task("drain", t.m, None)})
             /\ UNCHANGED <<queue, queueMu, tries, spoiled>>
      ELSE IF queue = <<>>
        THEN /\ ~queueMu /\ queueMu' = TRUE
             /\ h' = count /\ Becomes(t, {})
             /\ UNCHANGED <<queue, pending, tries, spoiled>>
      ELSE /\ ~queueMu
           /\ queue' = Tail(queue)
           /\ pending' = pending \ {t.m}
           /\ h' = [count EXCEPT !.left[Head(queue)] =
                      IF Head(queue) # t.m THEN "dropped"
                      ELSE IF failed THEN "discarded" ELSE "acknowledged"]
           /\ Becomes(t, {Task("drain", t.m, None)})
           /\ UNCHANGED <<queueMu, tries, spoiled>>

\* The rest of the timeout goroutine: timeoutFunc, and the call of the handler.
TimeOut(t) ==
  /\ At(t, "unbuffer") /\ ~sendMu
  /\ acks' = acks \ {t.id}
  /\ LET r == RemoveFrames(sendBuffer, t.id)
     IN  /\ sendBuffer' = r.buffer
         /\ sendMu' = r.panic
         /\ IF r.panic THEN Becomes(t, {}) /\ UNCHANGED <<queueVars, h>> ELSE Called(t, TRUE)
  /\ UNCHANGED <<config, linkVars, receiveBuffer, recvMu, nextId, handler, kind, ekind>>

\* ackHandler.call.
CallAck(t) ==
  IF handler[t.id] = "timedOut"
    THEN Becomes(t, {}) /\ UNCHANGED <<handler, queueVars, h>>
    ELSE handler' = [handler EXCEPT ![t.id] = "called"] /\ Called(t, FALSE)

\* onAck.  Without AckTimeout a handler of the retry queue is not known to take
\* an error: values in the ACK do not decode, and it is never called.
OnAck(t) ==
  /\ At(t, "onAck")
  /\ acks' = acks \ {t.id}
  /\ \E values \in BOOLEAN :
       IF t.id \notin acks \/ (values /\ Queued(t.m) /\ ~config.timeout)
         THEN Becomes(t, {}) /\ UNCHANGED <<handler, queueVars, h>>
         ELSE CallAck(t)
  /\ UNCHANGED <<config, linkVars, bufVars, nextId, kind, ekind>>

-----------------------------------------------------------------------------
(* The connection: open and close events, CONNECT, and emitBuffered.       *)

\* The manager connects; its open event makes the socket send CONNECT.  The
\* goroutines of the last CONNECT are over (ClientManager has those that are not).
Open ==
  /\ link = "down"
  /\ \A t \in DOMAIN tasks : t.pc \notin {"sendConnect", "onConnect"}
  /\ link' = "up" /\ state' = "pending"
  /\ Starts(Task("sendConnect", None, None))
  /\ UNCHANGED <<config, joined, breaks, bufVars, ackVars, queueVars, kind, ekind, h>>

\* The server answers CONNECT, unless the connection is lost.
SendConnect(t) ==
  /\ At(t, "sendConnect")
  /\ joined' = (link = "up")
  /\ Becomes(t, IF link = "up" THEN {To(t, "onConnect")} ELSE {})
  /\ UNCHANGED <<config, link, state, breaks, bufVars, ackVars, queueVars, kind, ekind, h>>

Break ==
  /\ link = "up" /\ MoreActs
  /\ breaks' = breaks + 1
  /\ Lost
  /\ UNCHANGED <<config, tasks, state, bufVars, ackVars, queueVars, kind, ekind, h>>

\* The manager's close event.
OnClose ==
  /\ link = "lost"
  /\ link' = "down" /\ state' = "disconnected"
  /\ UNCHANGED <<config, tasks, joined, breaks, bufVars, ackVars, queueVars, kind, ekind, h>>

OnConnect(t) ==
  /\ At(t, "onConnect")
  /\ state' = "connected"
  /\ Becomes(t, {To(t, "flush")})
  /\ UNCHANGED <<config, link, joined, breaks, bufVars, ackVars, queueVars, kind, ekind, h>>

\* The events that emitBuffered hands to their handlers: it returns after the
\* first one whose handler has acknowledged, because the ID is marked as sent.
Flushed ==
  LET stops == {i \in DOMAIN receiveBuffer : ekind[receiveBuffer[i]] = "acks"}
      first == CHOOSE i \in stops : \A j \in stops : i <= j
  IN  IF stops = {} THEN receiveBuffer ELSE SubSeq(receiveBuffer, 1, first)

\* The ACKs of the events of s: of a handler without an ack function, and of one
\* that acknowledges before it returns.  For one that acknowledges later the
\* loop marks the ID, so that its ACK is not sent any more.
Reply(e) == IF ekind[e] \in {"acks", "noAck"} THEN <<Frame(e, e, TRUE, 1)>> ELSE <<>>
Replies(s) ==
  LET after[k \in 0..Len(s)] == IF k = 0 THEN <<>> ELSE after[k - 1] \o Reply(s[k])
  IN  after
FlushReplies == Replies(Flushed)[Len(Flushed)]

\* What emitBuffered leaves in the receive buffer.
KeptEvents(aborts) == IF aborts THEN receiveBuffer ELSE <<>>

\* emitBuffered, under receiveBufferMu and then sendBufferMu, which it waits for
\* with the other one held; onConnect then drains the retry queue.
EmitBuffered(t) ==
  /\ At(t, "flush") /\ ~recvMu
  /\ LET aborts == Flushed # <<>> /\ ekind[Flushed[Len(Flushed)]] = "acks"
         out == IF state # "disconnected" THEN FlushReplies ELSE <<>>
         kept == IF state # "disconnected" THEN sendBuffer ELSE sendBuffer \o FlushReplies
         rest == IF aborts THEN <<>> ELSE kept
         hd == [h EXCEPT !.aborted = @ \/ aborts,
                         !.delivered = [e \in Events |->
                           @[e] + Cardinality({i \in DOMAIN Flushed : Flushed[i] = e})]]
         blocked == sendMu /\ (~aborts \/ kept # sendBuffer)
     IN  /\ receiveBuffer' = KeptEvents(aborts)
         /\ recvMu' = blocked
         /\ h' = CountReplies(hd, IF blocked THEN out ELSE out \o rest)
         /\ sendBuffer' = IF blocked THEN sendBuffer ELSE IF aborts THEN kept ELSE <<>>
         /\ Packet(t, IF blocked THEN {} ELSE {Task("drainForced", None, None)},
                   IF blocked THEN out ELSE out \o rest)
  /\ UNCHANGED <<config, state, breaks, sendMu, ackVars, queueVars, kind, ekind>>

-----------------------------------------------------------------------------
(* The server, and the events it emits.                                    *)

\* An event arrives; each packet has a goroutine, also the one of CONNECT.
ServerEmit(e, k) ==
  /\ link = "up" /\ joined /\ MoreActs
  /\ ekind[e] = "none" /\ \A d \in Events : d < e => ekind[d] # "none"
  /\ ekind' = [ekind EXCEPT ![e] = k]
  /\ Starts(Task("onEvent", e, e))
  /\ UNCHANGED <<config, linkVars, bufVars, ackVars, queueVars, kind, h>>

\* callEvent: the handler runs, and its ACK is sent.
CallEvent(t) ==
  /\ h' = [h EXCEPT !.delivered[t.m] = @ + 1]
  /\ Becomes(t, IF ekind[t.m] \in {"acks", "acksLater"}
                  THEN {[t EXCEPT !.pc = "send", !.reply = TRUE]} ELSE {})

\* onEvent: the handler is called, or the goroutine will append the event to the
\* receive buffer.
OnEvent(t) ==
  /\ At(t, "onEvent")
  /\ IF state = "connected" THEN CallEvent(t)
     ELSE Becomes(t, {To(t, "bufferEvent")}) /\ UNCHANGED h
  /\ UNCHANGED <<config, linkVars, bufVars, ackVars, queueVars, kind, ekind>>

BufferEvent(t) ==
  /\ At(t, "bufferEvent") /\ ~recvMu
  /\ receiveBuffer' = Append(receiveBuffer, t.m)
  /\ h' = [h EXCEPT !.raced = @ \/ state = "connected"]
  /\ Becomes(t, {})
  /\ UNCHANGED <<config, linkVars, sendBuffer, sendMu, recvMu, ackVars, queueVars, kind, ekind>>

-----------------------------------------------------------------------------
EmitStep(t) ==
  \/ Drain(t) \/ Send(t) \/ AppendSendBuffer(t)
AckStep(t) ==
  \/ Expire(t) \/ TimeOut(t) \/ OnAck(t)
ConnStep(t) ==
  \/ SendConnect(t) \/ OnConnect(t) \/ EmitBuffered(t) \/ OnEvent(t) \/ BufferEvent(t)
Step(t) == EmitStep(t) \/ AckStep(t) \/ ConnStep(t)

Next ==
  \/ \E t \in DOMAIN tasks : Step(t)
  \/ \E m \in Emits, k \in Emittable : Emit(m, k)
  \/ config.retries = 0 /\ \E e \in Events, k \in EventKinds : ServerEmit(e, k)
  \/ Open \/ Break \/ OnClose

Spec == Init /\ [][Next]_vars

-----------------------------------------------------------------------------
(* Properties.                                                             *)

Flushing == \E t \in DOMAIN tasks : t.pc \in {"onConnect", "flush"}

\* replacementAck removes whatever packet is at the head of the retry queue.
\* As long as no forced drain has sent a packet that was still waiting for its
\* ACK, that is the packet the ACK or the timeout belongs to: no packet leaves
\* the queue before it was acknowledged or tried Retries + 1 times, none is
\* tried more often, and the queue never waits for two attempts at once.
RetryQueueKeepsPackets ==
  \/ h.overlap
  \/ /\ ~queueMu /\ \A m \in Emits : h.left[m] # "dropped"
     /\ config.retries > 0 =>
          /\ \A m \in Emits : tries[m] <= config.retries + 1
          /\ \A i, j \in Ids : handler[i] = "live" /\ handler[j] = "live" => i = j

\* When a socket is connected and emitBuffered is over, no packet and no event
\* is left behind in a buffer, unless it was added after the flush by a
\* goroutine that had read the state before, emitBuffered returned at an event
\* that was acknowledged, or the send buffer's mutex is locked for good.  That
\* happens only at the timeout of a packet with an attachment, or of an ack
\* whose ID is also the ID of a buffered ACK of an event: the frames in the
\* buffer do not tell the two kinds of IDs apart.
NothingStranded ==
  /\ state = "connected" /\ ~Flushing =>
       \/ sendBuffer = <<>> /\ receiveBuffer = <<>>
       \/ h.raced \/ h.aborted \/ sendMu
  /\ sendMu =>
       \/ \E m \in Emits : kind[m] = "binary"
       \/ \E e \in Events \cap Ids :
            ekind[e] \in {"acks", "acksLater", "noAck"} /\ handler[e] = "timedOut"

\* The timeout goroutine and an ACK that arrives late race for the same
\* ackHandler (handler.go): its function is called once, or not at all.  An
\* event of the server reaches its handler once and is acknowledged at most
\* once, unless an aborted emitBuffered left it in the receive buffer, from
\* where the next one replays it.
HandlersCalledOnce ==
  /\ \A i \in Ids : h.calls[i] <= 1
  /\ h.aborted \/ \A e \in Events : h.delivered[e] <= 1 /\ h.replied[e] <= 1
=============================================================================
