--------------------------- MODULE ClientEmitInv ---------------------------
(***************************************************************************)
(* The inductive invariant of ClientEmit, and what each of its steps does  *)
(* as far as that invariant tells: the proofs that the parts of the        *)
(* invariant are kept start from these effects, and lemmas of their own    *)
(* show that the steps have them.                                          *)
(***************************************************************************)
EXTENDS ClientEmit

-----------------------------------------------------------------------------
(* The invariant.                                                          *)

Histories ==
  [calls : [Ids -> Nat], delivered : [Events -> Nat], replied : [Events -> Nat],
   left : [Emits -> {"no", "dropped", "discarded", "acknowledged"}],
   overlap : BOOLEAN, aborted : BOOLEAN, raced : BOOLEAN]
HistoryOK == h \in Histories

\* The kinds of events that have an ID, which their ACK carries.
Acking == {"acks", "acksLater", "noAck"}

\* A frame or a goroutine with the ACK of an event; one with a packet of Emit.
IsReply(x) == x.m \in Events /\ x.id = x.m /\ ekind[x.m] \in Acking
IsEmitted(x) == x.m \in Emits /\ kind[x.m] # "none" /\ x.id < nextId

TaskOK(t) ==
  /\ t.reply => t.pc \in {"send", "buffer"} /\ IsReply(t)
  /\ ~t.reply /\ t.pc \in {"send", "buffer", "sleep", "unbuffer", "onAck"} => IsEmitted(t)
  /\ ~t.reply /\ t.pc = "send" => t.id = None
  /\ t.pc \in {"sleep", "unbuffer", "onAck"} => t.id # None
  /\ t.pc \in {"onEvent", "bufferEvent"} => t.m \in Events /\ t.id = t.m /\ ekind[t.m] # "none"

FrameOK(f) ==
  /\ f.reply => IsReply(f)
  /\ ~f.reply => IsEmitted(f)
  /\ f.part = 2 => ~f.reply /\ kind[f.m] = "binary"

TasksOK == IsBagOf(tasks, Tasks) /\ \A t \in DOMAIN tasks : TaskOK(t)
LinkOK ==
  /\ config \in Configs
  /\ link \in {"up", "lost", "down"} /\ joined \in BOOLEAN
  /\ state \in {"disconnected", "pending", "connected"}
  /\ breaks \in 0..MaxActs
BuffersOK ==
  /\ sendBuffer \in Seq(FrameSet) /\ receiveBuffer \in Seq(Events)
  /\ sendMu \in BOOLEAN /\ recvMu \in BOOLEAN
  /\ \A k \in DOMAIN sendBuffer : FrameOK(sendBuffer[k])
  /\ \A k \in DOMAIN receiveBuffer : ekind[receiveBuffer[k]] # "none"
AcksOK ==
  /\ nextId \in Ids \cup {MaxIds + 1} /\ acks \subseteq Ids
  /\ handler \in [Ids -> {"none", "live", "called", "timedOut"}]
  /\ \A i \in Ids : handler[i] = "none" <=> i >= nextId
QueueOK ==
  /\ queue \in Seq(Emits) /\ queueMu \in BOOLEAN /\ pending \subseteq Emits /\ spoiled \subseteq Emits
  /\ tries \in [Emits -> Nat]
  /\ \A k \in DOMAIN queue : kind[queue[k]] # "none"
KindsOK ==
  /\ kind \in [Emits -> EmitKinds \cup {"none"}]
  /\ ekind \in [Events -> EventKinds \cup {"none"}]
  /\ config.retries > 0 => /\ \A m \in Emits : kind[m] \in {"none", "ack", "binary"}
                           /\ \A e \in Events : ekind[e] = "none"

Base == TasksOK /\ LinkOK /\ BuffersOK /\ AcksOK /\ QueueOK /\ KindsOK /\ HistoryOK

\* The goroutines of the timeouts.
Timing == {t \in DOMAIN tasks : t.pc \in {"sleep", "unbuffer"}}

Calls ==
  /\ \A t \in Timing : tasks[t] = 1 /\ \A u \in Timing : u.id = t.id => u = t
  /\ \A t \in Timing :
       IF t.pc = "sleep" THEN handler[t.id] \in {"live", "called"}
       ELSE handler[t.id] = "timedOut" /\ h.calls[t.id] = 0
  /\ \A i \in Ids :
       /\ handler[i] = "called" => i \notin acks
       /\ handler[i] \in {"none", "live"} => h.calls[i] = 0
       /\ h.calls[i] <= 1

\* An attempt to send packet m of the retry queue goes on.
Sending == {t \in DOMAIN tasks : t.pc = "send"}
Expired == {t \in DOMAIN tasks : t.pc = "unbuffer"}
Live == {i \in Ids : handler[i] = "live"}

\* The retry queue: only the packet at its head waits for an ACK, and a packet
\* that does not wait may be tried once more.
Queueing ==
  /\ ~queueMu /\ \A m \in Emits : h.left[m] # "dropped"
  /\ \A j, k \in DOMAIN queue : queue[j] = queue[k] => j = k
  /\ \A m \in pending : queue # <<>> /\ m = Head(queue)
  /\ \A k \in DOMAIN queue : queue[k] \notin pending => tries[queue[k]] <= config.retries
  /\ \A m \in Emits : /\ tries[m] <= config.retries + 1
                      /\ kind[m] = "none" => tries[m] = 0

\* The attempt of the packet at its head is in one place: a goroutine that will
\* send it, a handler that waits, or the goroutine of a timeout that has expired.
Trying ==
  /\ \A t \in Sending : /\ tasks[t] = 1 /\ t.m \in pending
                        /\ Live = {} /\ Expired = {} /\ \A u \in Sending : u = t
  /\ \A t \in Expired : t.m \in pending /\ Live = {} /\ \A u \in Expired : u = t
  /\ \A i, j \in Live : i = j
  /\ Live # {} => pending # {}
  /\ \A t \in DOMAIN tasks : t.pc \in {"buffer", "sleep", "onAck"} /\ t.id \in Live => t.m \in pending
  /\ \A k \in DOMAIN sendBuffer : sendBuffer[k].id \in Live => sendBuffer[k].m \in pending

Retry ==
  /\ config.retries = 0 => queue = <<>> /\ ~queueMu /\ \A m \in Emits : h.left[m] # "dropped"
  /\ config.retries > 0 /\ ~h.overlap => Queueing /\ Trying

\* Where event e, and its ACK, are under way.
Coming == {t \in DOMAIN tasks : t.pc \in {"onEvent", "bufferEvent"}}
Replying == {t \in DOMAIN tasks : t.reply}
Buffered == {k \in DOMAIN sendBuffer : sendBuffer[k].reply}

\* An event that has not reached its handler is in one place.
EventsOnce ==
  /\ \A t \in Coming :
       /\ tasks[t] = 1 /\ \A u \in Coming : u.m = t.m => u = t
       /\ \A k \in DOMAIN receiveBuffer : receiveBuffer[k] # t.m
       /\ h.delivered[t.m] = 0
  /\ \A j, k \in DOMAIN receiveBuffer : receiveBuffer[j] = receiveBuffer[k] => j = k
  /\ \A k \in DOMAIN receiveBuffer : h.delivered[receiveBuffer[k]] = 0
  /\ \A e \in Events : h.delivered[e] <= 1 /\ (ekind[e] = "none" => h.delivered[e] = 0)

\* An ACK that has not been sent is in one place, and its event was handled.
RepliesOnce ==
  /\ \A t \in Replying :
       /\ tasks[t] = 1 /\ \A u \in Replying : u.m = t.m => u = t
       /\ \A k \in Buffered : sendBuffer[k].m # t.m
       /\ h.replied[t.m] = 0 /\ h.delivered[t.m] = 1
  /\ \A j, k \in Buffered : sendBuffer[j].m = sendBuffer[k].m => j = k
  /\ \A k \in Buffered : h.replied[sendBuffer[k].m] = 0 /\ h.delivered[sendBuffer[k].m] = 1
  /\ \A e \in Events : h.replied[e] <= h.delivered[e]

Once == h.aborted \/ (EventsOnce /\ RepliesOnce)

\* The first frames of packets with an ack ID.
Firsts == {k \in DOMAIN sendBuffer : ~sendBuffer[k].reply /\ sendBuffer[k].part = 1 /\ sendBuffer[k].id # None}
Buffering == {t \in DOMAIN tasks : t.pc = "buffer" /\ ~t.reply /\ t.id # None}

\* A packet with an ack ID is buffered once.
FirstsOnce ==
  /\ \A t \in Buffering :
       /\ tasks[t] = 1 /\ \A u \in Buffering : u.id = t.id => u = t
       /\ \A k \in Firsts : sendBuffer[k].id # t.id
  /\ \A j, k \in Firsts : sendBuffer[j].id = sendBuffer[k].id => j = k

Stranded == FirstsOnce /\ NothingStranded

-----------------------------------------------------------------------------
(* What the steps do.                                                      *)

\* With the goroutines: one of task t goes on as those of S, or with t = NoTask
\* those of S start.
NoTask == [pc |-> "none", m |-> None, id |-> None, reply |-> FALSE]
Moves(t, S) ==
  /\ IsBagOf(tasks', Tasks)
  /\ DOMAIN tasks' \subseteq DOMAIN tasks \cup S
  /\ DOMAIN tasks \ {t} \subseteq DOMAIN tasks' /\ S \subseteq DOMAIN tasks'
  /\ \A u \in DOMAIN tasks' \ S : u # t => tasks'[u] = tasks[u]
  /\ \A u \in DOMAIN tasks' \ DOMAIN tasks : tasks'[u] = 1
  /\ t \in DOMAIN tasks /\ tasks[t] = 1 /\ t \notin S => t \notin DOMAIN tasks'

\* With a count: it grows by the number of elements of P.
Added(new, old, P) ==
  /\ new \in Nat /\ new >= old
  /\ P = {} => new = old
  /\ P # {} => new # old
  /\ (\A x, y \in P : x = y) => new <= old + 1

\* drainQueue starts nothing, or one goroutine of S that sends the packet at the
\* head of queue q.
Draws(S, q) ==
  /\ h' \in Histories /\ (h.overlap => h'.overlap)
  /\ h'.calls = h.calls /\ h'.delivered = h.delivered /\ h'.replied = h.replied
  /\ h'.left = h.left /\ h'.aborted = h.aborted /\ h'.raced = h.raced
  /\ \A u \in S : /\ u \in Tasks /\ u.pc = "send" /\ u.m = Head(q) /\ u.id = None /\ u.reply = FALSE
                  /\ \A v \in S : v = u
  /\ \/ S = {} /\ UNCHANGED <<pending, tries>>
     \/ /\ q # <<>> /\ pending' = pending \cup {Head(q)}
        /\ tries' = [tries EXCEPT ![Head(q)] = tries[Head(q)] + 1]
        /\ Head(q) \in pending => h'.overlap

DrainDoes(t) ==
  /\ t \in DOMAIN tasks /\ t.pc \in {"drain", "drainForced"}
  /\ UNCHANGED <<config, kind, ekind, queue, queueMu, spoiled>>
  /\ UNCHANGED linkVars /\ UNCHANGED bufVars /\ UNCHANGED ackVars
  /\ \E S : Moves(t, S) /\ Draws(S, queue)

EmitDoes(m, k) ==
  /\ kind[m] = "none" /\ kind' = [kind EXCEPT ![m] = k]
  /\ k \in EmitKinds /\ k # "none" /\ (config.retries > 0 => k \in {"ack", "binary"})
  /\ UNCHANGED <<config, ekind, queueMu, spoiled>>
  /\ UNCHANGED linkVars /\ UNCHANGED bufVars /\ UNCHANGED ackVars
  /\ config.retries > 0 => /\ queue' = Append(queue, m) /\ queue' \in Seq(Emits)
                           /\ \E S : Moves(NoTask, S) /\ Draws(S, queue')
  /\ ~(config.retries > 0) =>
       /\ UNCHANGED <<queue, pending, tries, h>>
       /\ \E u : /\ Moves(NoTask, {u})
                 /\ u \in Tasks /\ u.pc = "send" /\ u.m = m /\ u.id = None /\ u.reply = FALSE

\* Goroutine u comes from the goroutine t that sends the packet of task r, which
\* is t with its ack ID.
IsSent(u, t, r) ==
  /\ u \in Tasks /\ u.m = t.m /\ u.id = r.id /\ u.reply = t.reply
  /\ \/ u.pc = "sleep" /\ NeedsAck(t)
     \/ u.pc = "buffer"
     \/ u.pc = "onAck" /\ u.reply = FALSE /\ u.id # None

\* The places of the ACKs of event e among frames.
RepliesOf(frames, e) == {k \in DOMAIN frames : frames[k].m = e /\ frames[k].reply}

\* The ACKs among the frames that are sent are counted.
Replied(frames) ==
  /\ h' \in Histories /\ \A e \in Events : Added(h'.replied[e], h.replied[e], RepliesOf(frames, e))
  /\ h'.calls = h.calls /\ h'.delivered = h.delivered /\ h'.left = h.left
  /\ h'.overlap = h.overlap /\ h'.aborted = h.aborted /\ h'.raced = h.raced

SendDoes(t) ==
  /\ t \in DOMAIN tasks /\ t.pc = "send"
  /\ UNCHANGED <<config, state, breaks, queue, queueMu, pending, tries, kind, ekind>> /\ UNCHANGED bufVars
  /\ LinkOK' /\ (spoiled' = spoiled \/ (spoiled' = spoiled \cup {t.m} /\ ~t.reply))
  /\ \E r, S : /\ r \in Tasks /\ r.m = t.m /\ r.reply = t.reply
               /\ NeedsAck(t) => /\ t.reply = FALSE /\ r.id = nextId /\ nextId \in Ids /\ nextId' = nextId + 1
                                 /\ handler' = [handler EXCEPT ![nextId] = "live"] /\ acks' = acks \cup {nextId}
               /\ ~NeedsAck(t) => r = t /\ UNCHANGED ackVars
               /\ Moves(t, S) /\ \A u \in S : IsSent(u, t, r)
               /\ \/ UNCHANGED h
                  \/ Replied(Frames(r)) /\ \A u \in S : u.pc # "buffer"

\* A buffer got an item, and goroutine t is over.
Buffers(t) ==
  /\ t \in DOMAIN tasks /\ Moves(t, {})
  /\ h' \in Histories /\ h'.raced = (h.raced \/ state = "connected")
  /\ h'.calls = h.calls /\ h'.delivered = h.delivered /\ h'.replied = h.replied
  /\ h'.left = h.left /\ h'.overlap = h.overlap /\ h'.aborted = h.aborted
  /\ UNCHANGED <<config, kind, ekind, sendMu, recvMu>>
  /\ UNCHANGED linkVars /\ UNCHANGED ackVars /\ UNCHANGED queueVars

AppendDoes(t) ==
  /\ Buffers(t) /\ t.pc = "buffer"
  /\ sendBuffer' = sendBuffer \o Frames(t) /\ UNCHANGED receiveBuffer

BufferEventDoes(t) ==
  /\ Buffers(t) /\ t.pc = "bufferEvent"
  /\ receiveBuffer' = Append(receiveBuffer, t.m) /\ UNCHANGED sendBuffer

ExpireDoes(t) ==
  /\ t \in DOMAIN tasks /\ t.pc = "sleep"
  /\ UNCHANGED <<config, kind, ekind, nextId, acks, h>>
  /\ UNCHANGED linkVars /\ UNCHANGED bufVars /\ UNCHANGED queueVars
  /\ \/ UNCHANGED handler /\ Moves(t, {})
     \/ /\ handler[t.id] # "called" /\ handler' = [handler EXCEPT ![t.id] = "timedOut"]
        /\ \E u : /\ Moves(t, {u}) /\ u \in Tasks
                  /\ u.pc = "unbuffer" /\ u.m = t.m /\ u.id = t.id /\ u.reply = FALSE

\* The call of the handler of goroutine t, with the retry queue and the history.
QueueMoves(t, failed) ==
  \/ ~Queued(t.m) /\ UNCHANGED queueVars /\ h'.left = h.left
  \/ /\ Queued(t.m) /\ failed /\ tries[t.m] <= config.retries
     /\ pending' = pending \ {t.m} /\ UNCHANGED <<queue, queueMu, tries, spoiled>> /\ h'.left = h.left
  \/ /\ Queued(t.m) /\ queue = <<>> /\ queueMu' = TRUE
     /\ UNCHANGED <<queue, pending, tries, spoiled>> /\ h'.left = h.left
  \/ /\ Queued(t.m) /\ ~(failed /\ tries[t.m] <= config.retries) /\ queue # <<>>
     /\ queue' = Tail(queue) /\ pending' = pending \ {t.m} /\ UNCHANGED <<queueMu, tries, spoiled>>
     /\ \E l \in {"no", "dropped", "discarded", "acknowledged"} :
          /\ h'.left = [h.left EXCEPT ![Head(queue)] = l]
          /\ Head(queue) = t.m => l # "dropped"

HandlerCalled(t, failed) ==
  /\ QueueMoves(t, failed) /\ h' \in Histories
  /\ h'.calls = [h.calls EXCEPT ![t.id] = h.calls[t.id] + 1]
  /\ h'.delivered = h.delivered /\ h'.replied = h.replied
  /\ h'.overlap = h.overlap /\ h'.aborted = h.aborted /\ h'.raced = h.raced

\* A goroutine ends, or goes on to drain the retry queue.
Drains(S) == \A u \in S : u \in Tasks /\ u.pc = "drain" /\ u.reply = FALSE

\* Buffer b has frames of buffer a, in places of their own.
Subbuffer(b, a) ==
  \E f \in [DOMAIN b -> DOMAIN a] :
    /\ \A k \in DOMAIN b : b[k] = a[f[k]]
    /\ \A j, k \in DOMAIN b : f[j] = f[k] => j = k

\* The loop of the timeout keeps frames; where it panics, two frames had the ID.
TimeOutDoes(t) ==
  /\ t \in DOMAIN tasks /\ t.pc = "unbuffer" /\ t.id \in Ids /\ t.m \in Emits /\ t.reply = FALSE /\ ~sendMu
  /\ acks' = acks \ {t.id}
  /\ sendBuffer' \in Seq(FrameSet) /\ Subbuffer(sendBuffer', sendBuffer) /\ sendMu' \in BOOLEAN
  /\ sendBuffer = <<>> => sendBuffer' = <<>>
  /\ sendMu' => \E p, q \in DOMAIN sendBuffer : p # q /\ sendBuffer[p].id = t.id /\ sendBuffer[q].id = t.id
  /\ UNCHANGED linkVars /\ UNCHANGED <<config, receiveBuffer, recvMu, nextId, handler, kind, ekind>>
  /\ \E S : /\ Moves(t, S) /\ Drains(S)
            /\ \/ sendMu' /\ UNCHANGED queueVars /\ UNCHANGED h
               \/ ~sendMu' /\ HandlerCalled(t, TRUE)

OnAckDoes(t) ==
  /\ t \in DOMAIN tasks /\ t.pc = "onAck" /\ t.id \in Ids /\ t.m \in Emits /\ t.reply = FALSE
  /\ acks' = acks \ {t.id}
  /\ UNCHANGED linkVars /\ UNCHANGED bufVars /\ UNCHANGED <<config, nextId, kind, ekind>>
  /\ \E S : /\ Moves(t, S) /\ Drains(S)
            /\ \/ UNCHANGED handler /\ UNCHANGED queueVars /\ UNCHANGED h
               \/ /\ t.id \in acks /\ handler[t.id] # "timedOut"
                  /\ handler' = [handler EXCEPT ![t.id] = "called"] /\ HandlerCalled(t, FALSE)

\* The steps of the link and of CONNECT: a socket that gets connected has a
\* goroutine that will flush its buffers.
ConnDoes ==
  /\ UNCHANGED <<config, kind, ekind, h>> /\ UNCHANGED bufVars /\ UNCHANGED ackVars /\ UNCHANGED queueVars
  /\ LinkOK'
  /\ state' = "connected" /\ ~Flushing' => state = "connected" /\ ~Flushing
  /\ \E w, S : /\ Moves(w, S) /\ w.pc \in {"none", "sendConnect", "onConnect"} /\ w.reply = FALSE
               /\ \A u \in S : u \in Tasks /\ u.pc \in {"sendConnect", "onConnect", "flush"} /\ u.reply = FALSE

ServerEmitDoes(e, k) ==
  /\ ekind[e] = "none" /\ ekind' = [ekind EXCEPT ![e] = k]
  /\ UNCHANGED <<config, kind, h>> /\ UNCHANGED linkVars /\ UNCHANGED bufVars /\ UNCHANGED ackVars
  /\ UNCHANGED queueVars
  /\ \E u : /\ Moves(NoTask, {u}) /\ u \in Tasks /\ u.pc = "onEvent" /\ u.m = e /\ u.id = e /\ u.reply = FALSE

\* Goroutine u sends the ACK of the event of goroutine t.
IsReplyTo(u, t) ==
  /\ u \in Tasks /\ u.pc = "send" /\ u.m = t.m /\ u.id = t.id /\ u.reply = TRUE
  /\ ekind[t.m] \in {"acks", "acksLater"}

OnEventDoes(t) ==
  /\ t \in DOMAIN tasks /\ t.pc = "onEvent" /\ t \in Tasks
  /\ t.m \in Events /\ t.id = t.m /\ ekind[t.m] # "none"
  /\ UNCHANGED <<config, kind, ekind>>
  /\ UNCHANGED linkVars /\ UNCHANGED bufVars /\ UNCHANGED ackVars /\ UNCHANGED queueVars
  /\ \E S : /\ Moves(t, S)
            /\ \/ /\ h' \in Histories /\ h'.delivered = [h.delivered EXCEPT ![t.m] = h.delivered[t.m] + 1]
                  /\ h'.calls = h.calls /\ h'.replied = h.replied /\ h'.left = h.left
                  /\ h'.overlap = h.overlap /\ h'.aborted = h.aborted /\ h'.raced = h.raced
                  /\ \A u \in S : IsReplyTo(u, t) /\ (\A v \in S : v = u)
               \/ /\ UNCHANGED h
                  /\ \A u \in S : /\ u \in Tasks /\ u.pc = "bufferEvent" /\ u.m = t.m /\ u.id = t.id
                                  /\ u.reply = FALSE /\ \A v \in S : v = u

\* Goroutine u handles the ACK of a packet among frames.
IsAckOf(u, frames) ==
  /\ u \in Tasks /\ u.pc = "onAck" /\ u.reply = FALSE /\ u.id # None
  /\ \E k \in DOMAIN frames : ~frames[k].reply /\ u.m = frames[k].m /\ u.id = frames[k].id

\* emitBuffered hands over the events of the receive buffer, up to the first one
\* that is acknowledged, sends frames, and may start the drain of the queue.
HandedOver(e) == {i \in DOMAIN Flushed : Flushed[i] = e}

FlushTasks(S, sent) ==
  \A u \in S : u \in Tasks /\ u.reply = FALSE /\ (u.pc = "drainForced" \/ IsAckOf(u, sent))

FlushCounts(sent, aborts) ==
  /\ h' \in Histories
  /\ \A e \in Events : /\ Added(h'.delivered[e], h.delivered[e], HandedOver(e))
                       /\ Added(h'.replied[e], h.replied[e], RepliesOf(sent, e))
  /\ h'.aborted = (h.aborted \/ aborts)
  /\ h'.calls = h.calls /\ h'.left = h.left /\ h'.overlap = h.overlap /\ h'.raced = h.raced

FlushBuffers(sent, aborts) ==
  /\ recvMu' \in BOOLEAN /\ (recvMu' => sendMu)
  /\ aborts => /\ receiveBuffer' = receiveBuffer
               /\ sendBuffer' = sendBuffer \/ sendBuffer' = sendBuffer \o FlushReplies
               /\ sent = <<>> \/ sent = FlushReplies
  /\ ~aborts => /\ receiveBuffer' = <<>> /\ Flushed = receiveBuffer
                /\ \/ sent = FlushReplies \o sendBuffer /\ sendBuffer' = <<>>
                   \/ sent = sendBuffer \o FlushReplies /\ sendBuffer' = <<>>
                   \/ sent = FlushReplies /\ sendBuffer' = sendBuffer /\ sendMu
                   \/ sent = <<>> /\ sendBuffer' = sendBuffer /\ sendMu

\* The ACKs it sends: of different events, which it has handed over.
FlushAnswers ==
  /\ \A i \in DOMAIN Flushed : i \in DOMAIN receiveBuffer /\ Flushed[i] = receiveBuffer[i]
  /\ FlushReplies \in Seq(FrameSet)
  /\ \A p \in DOMAIN FlushReplies :
       /\ FrameOK(FlushReplies[p]) /\ FlushReplies[p].reply = TRUE
       /\ \E j \in DOMAIN Flushed : FlushReplies[p].m = Flushed[j]
  /\ (\A i, j \in DOMAIN Flushed : Flushed[i] = Flushed[j] => i = j) =>
       \A p, q \in DOMAIN FlushReplies : FlushReplies[p].m = FlushReplies[q].m => p = q

EmitBufferedDoes(t) ==
  /\ t \in DOMAIN tasks /\ t.pc = "flush"
  /\ UNCHANGED <<config, state, breaks, sendMu, kind, ekind>> /\ UNCHANGED ackVars /\ UNCHANGED queueVars
  /\ LinkOK' /\ FlushAnswers
  /\ \E S, sent, aborts : /\ sent \in Seq(FrameSet) /\ aborts \in BOOLEAN
                          /\ Moves(t, S) /\ FlushTasks(S, sent)
                          /\ FlushCounts(sent, aborts) /\ FlushBuffers(sent, aborts)
=============================================================================
