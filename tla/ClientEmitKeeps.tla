--------------------------- MODULE ClientEmitKeeps --------------------------
(***************************************************************************)
(* Each part of the inductive invariant of ClientEmit is kept by every     *)
(* step.  The lemmas start from the effects of steps in ClientEmitInv.     *)
(* That the steps have them is shown here for those without a loop or a    *)
(* count, and in ClientEmitProofs for the others.                          *)
(***************************************************************************)
EXTENDS ClientEmitInv, TLAPS

USE ZenonT(60)

\* The fields of a task.
LEMMA TaskForms ==
  ASSUME NEW t \in Tasks
  PROVE  t.pc \in PCs /\ t.m \in Nat /\ t.id \in Nat /\ t.reply \in BOOLEAN
  BY SMT DEF Tasks

\* The frames of a packet.
LEMMA FramesForm ==
  ASSUME NEW t \in Tasks
  PROVE  /\ Frames(t) \in Seq(FrameSet) /\ Frames(t) # <<>>
         /\ \A k \in DOMAIN Frames(t) :
              /\ Frames(t)[k].m = t.m /\ Frames(t)[k].id = t.id /\ Frames(t)[k].reply = t.reply
              /\ Frames(t)[k].part = k
              /\ k \in 1..2 /\ (k = 2 => ~t.reply /\ kind[t.m] = "binary")
  <1>1. t.m \in Nat /\ t.id \in Nat /\ t.reply \in BOOLEAN
    BY TaskForms
  <1>2. CASE ~t.reply /\ kind[t.m] = "binary"
    <2> DEFINE f == Frame(t.m, t.id, FALSE, 1)
               g == Frame(t.m, t.id, FALSE, 2)
    <2>1. Frames(t) = <<f, g>>
      BY <1>2 DEF Frames
    <2>2. /\ f \in FrameSet /\ f.m = t.m /\ f.id = t.id /\ f.reply = FALSE /\ f.part = 1
          /\ g \in FrameSet /\ g.m = t.m /\ g.id = t.id /\ g.reply = FALSE /\ g.part = 2
      BY SMT, <1>1 DEF Frame, FrameSet
    <2> HIDE DEF f, g
    <2>3. Frames(t) \in Seq(FrameSet) /\ Frames(t) # <<>> /\ DOMAIN Frames(t) = 1..2
          /\ Frames(t)[1] = f /\ Frames(t)[2] = g
      BY SMT, <2>1, <2>2
    <2>4. \A k \in 1..2 : k = 1 \/ k = 2
      BY SMT
    <2>5. t.reply = FALSE
      BY <1>1, <1>2
    <2> QED BY <1>2, <2>2, <2>3, <2>4, <2>5
  <1>3. CASE ~(~t.reply /\ kind[t.m] = "binary")
    <2> DEFINE f == Frame(t.m, t.id, t.reply, 1)
    <2>1. Frames(t) = <<f>>
      BY <1>3 DEF Frames
    <2>2. f \in FrameSet /\ f.m = t.m /\ f.id = t.id /\ f.reply = t.reply /\ f.part = 1
      BY SMT, <1>1 DEF Frame, FrameSet
    <2> HIDE DEF f
    <2>3. Frames(t) \in Seq(FrameSet) /\ Frames(t) # <<>> /\ DOMAIN Frames(t) = 1..1
          /\ Frames(t)[1] = f
      BY SMT, <2>1, <2>2
    <2>4. \A k \in 1..1 : k = 1 /\ k \in 1..2 /\ k # 2
      BY SMT
    <2> QED BY <1>3, <2>2, <2>3, <2>4
  <1> QED BY <1>2, <1>3

\* What Base says of a goroutine.
LEMMA TaskFacts ==
  ASSUME Base, NEW t \in DOMAIN tasks
  PROVE  /\ t \in Tasks /\ TaskOK(t) /\ IsBagOf(tasks, Tasks)
         /\ ~t.reply /\ t.pc \in {"send", "buffer", "sleep", "unbuffer", "onAck"} =>
              t.m \in Emits /\ kind[t.m] # "none" /\ t.id < nextId
         /\ t.pc \in {"sleep", "unbuffer", "onAck"} => t.reply = FALSE /\ t.m \in Emits /\ t.id \in Ids
         /\ t.pc \in {"onEvent", "bufferEvent"} => t.reply = FALSE /\ t.m \in Events
         /\ t.pc \notin {"send", "buffer"} => t.reply = FALSE
  <1>1. t \in Tasks /\ TaskOK(t) /\ IsBagOf(tasks, Tasks)
    BY DEF Base, TasksOK, IsBagOf
  <1>2. t.id \in Nat /\ t.reply \in BOOLEAN
    BY <1>1, TaskForms
  <1>3. \A i \in Nat : i < nextId /\ i # None => i \in Ids
    BY SMT, EmitAssumption DEF Base, AcksOK, Ids, None
  <1>4. t.pc \notin {"send", "buffer"} => t.reply = FALSE
    BY <1>1, <1>2 DEF TaskOK
  <1>5. ~t.reply /\ t.pc \in {"send", "buffer", "sleep", "unbuffer", "onAck"} => IsEmitted(t)
    BY <1>1 DEF TaskOK
  <1>6. t.pc \in {"sleep", "unbuffer", "onAck"} => t.reply = FALSE /\ t.m \in Emits /\ t.id \in Ids
    BY <1>1, <1>2, <1>3, <1>4, <1>5 DEF TaskOK, IsEmitted
  <1>7. t.pc \in {"onEvent", "bufferEvent"} => t.reply = FALSE /\ t.m \in Events
    BY <1>1, <1>4 DEF TaskOK
  <1> QED BY <1>1, <1>4, <1>5, <1>6, <1>7 DEF IsEmitted

-----------------------------------------------------------------------------
(* How goroutines go on, and the effects of steps.                         *)

\* The goroutines after one of task t has gone on as the tasks of S.
LEMMA GoingOn ==
  ASSUME NEW T, NEW B, IsBagOf(B, T), NEW t \in DOMAIN B, NEW S, S \subseteq T
  PROVE  LET C == Starting(Ending(B, t), S)
         IN  /\ IsBagOf(C, T)
             /\ DOMAIN C \subseteq DOMAIN B \cup S
             /\ DOMAIN B \ {t} \subseteq DOMAIN C /\ S \subseteq DOMAIN C
             /\ \A u \in DOMAIN C \ S : C[u] = IF u = t THEN B[u] - 1 ELSE B[u]
             /\ \A u \in DOMAIN C \ DOMAIN B : C[u] = 1
             /\ B[t] = 1 /\ t \notin S => t \notin DOMAIN C
             /\ B[t] = 1 /\ t \in S => C[t] = 1
  <1> DEFINE D == Ending(B, t)
             C == Starting(D, S)
  <1>1. \A u \in DOMAIN B : B[u] \in Nat \ {0}
    BY DEF IsBagOf
  <1>2. /\ IsBagOf(D, T)
        /\ DOMAIN D = {u \in DOMAIN B : u # t \/ B[u] > 1}
        /\ \A u \in DOMAIN D : D[u] = IF u = t THEN B[u] - 1 ELSE B[u]
    BY SMT, <1>1 DEF IsBagOf, Ending
  <1> HIDE DEF D
  <1>3. /\ IsBagOf(C, T)
        /\ DOMAIN C = DOMAIN D \cup S
        /\ \A u \in DOMAIN C : C[u] = (IF u \in DOMAIN D THEN D[u] ELSE 0) + (IF u \in S THEN 1 ELSE 0)
    BY SMT, <1>2 DEF IsBagOf, Starting, Copies
  <1> HIDE DEF C
  <1>4. /\ DOMAIN C \subseteq DOMAIN B \cup S
        /\ DOMAIN B \ {t} \subseteq DOMAIN C /\ S \subseteq DOMAIN C
        /\ \A u \in DOMAIN C \ S : C[u] = IF u = t THEN B[u] - 1 ELSE B[u]
        /\ \A u \in DOMAIN C \ DOMAIN B : C[u] = 1
        /\ B[t] = 1 /\ t \notin S => t \notin DOMAIN C
        /\ B[t] = 1 /\ t \in S => C[t] = 1
    BY SMT, <1>1, <1>2, <1>3
  <1> QED BY <1>3, <1>4 DEF C, D

\* A goroutine that goes on moves.
LEMMA BecomesMoves ==
  ASSUME IsBagOf(tasks, Tasks), NEW t \in DOMAIN tasks, NEW S, S \subseteq Tasks, Becomes(t, S)
  PROVE  Moves(t, S)
  <1> DEFINE C == Starting(Ending(tasks, t), S)
  <1>1. /\ IsBagOf(C, Tasks)
        /\ DOMAIN C \subseteq DOMAIN tasks \cup S
        /\ DOMAIN tasks \ {t} \subseteq DOMAIN C /\ S \subseteq DOMAIN C
        /\ \A u \in DOMAIN C \ S : C[u] = IF u = t THEN tasks[u] - 1 ELSE tasks[u]
        /\ \A u \in DOMAIN C \ DOMAIN tasks : C[u] = 1
        /\ tasks[t] = 1 /\ t \notin S => t \notin DOMAIN C
    BY SMT, GoingOn
  <1>2. tasks' = C
    BY DEF Becomes
  <1> HIDE DEF C
  <1> QED BY <1>1, <1>2 DEF Moves

\* So does the bag when goroutines start.
LEMMA StartingMoves ==
  ASSUME IsBagOf(tasks, Tasks), NEW S, S \subseteq Tasks, tasks' = Starting(tasks, S)
  PROVE  Moves(NoTask, S)
  <1>1. \A u \in DOMAIN tasks : tasks[u] \in Nat \ {0}
    BY DEF IsBagOf
  <1>2. /\ IsBagOf(tasks', Tasks)
        /\ DOMAIN tasks' = DOMAIN tasks \cup S
        /\ \A u \in DOMAIN tasks' : tasks'[u] = (IF u \in DOMAIN tasks THEN tasks[u] ELSE 0) + (IF u \in S THEN 1 ELSE 0)
    BY SMT, <1>1 DEF IsBagOf, Starting, Copies
  <1>3. \A u \in DOMAIN tasks' \ S : tasks'[u] = tasks[u]
    BY SMT, <1>1, <1>2
  <1>4. \A u \in DOMAIN tasks' \ DOMAIN tasks : tasks'[u] = 1
    BY SMT, <1>2
  <1>5. NoTask \notin DOMAIN tasks
    <2>1. NoTask.pc = "none" /\ "none" \notin PCs /\ \A u \in Tasks : u.pc \in PCs
      BY SMT DEF NoTask, PCs, Tasks
    <2> QED BY <2>1 DEF IsBagOf
  <1> QED BY <1>2, <1>3, <1>4, <1>5 DEF Moves

\* And when they stay as they are.
LEMMA SameMoves ==
  ASSUME IsBagOf(tasks, Tasks), tasks' = tasks
  PROVE  Moves(NoTask, {})
  <1>1. NoTask \notin DOMAIN tasks
    <2>1. NoTask.pc = "none" /\ "none" \notin PCs /\ \A u \in Tasks : u.pc \in PCs
      BY SMT DEF NoTask, PCs, Tasks
    <2> QED BY <2>1 DEF IsBagOf
  <1> QED BY <1>1 DEF Moves

\* A goroutine that ends moves.
LEMMA EndingMoves ==
  ASSUME IsBagOf(tasks, Tasks), NEW t \in DOMAIN tasks, tasks' = Ending(tasks, t)
  PROVE  Moves(t, {})
  <1>1. \A u \in DOMAIN tasks : tasks[u] \in Nat \ {0}
    BY DEF IsBagOf
  <1>2. /\ IsBagOf(tasks', Tasks)
        /\ DOMAIN tasks' = {u \in DOMAIN tasks : u # t \/ tasks[u] > 1}
        /\ \A u \in DOMAIN tasks' : u # t => tasks'[u] = tasks[u]
    BY SMT, <1>1 DEF IsBagOf, Ending
  <1>3. ~(1 > 1)
    BY SMT
  <1> QED BY <1>2, <1>3 DEF Moves

\* The places that the steps name.
LEMMA Places ==
  /\ "drain" \in PCs /\ "drainForced" \in PCs /\ "send" \in PCs /\ "buffer" \in PCs
  /\ "sleep" \in PCs /\ "unbuffer" \in PCs /\ "onAck" \in PCs /\ "sendConnect" \in PCs
  /\ "onConnect" \in PCs /\ "flush" \in PCs /\ "onEvent" \in PCs /\ "bufferEvent" \in PCs
  BY DEF PCs

\* What Manager.packet does: the goroutine goes on, and ACKs may come.
LEMMA PacketMoves ==
  ASSUME IsBagOf(tasks, Tasks), LinkOK, NEW t \in DOMAIN tasks, NEW S, S \subseteq Tasks,
         NEW frames \in Seq(FrameSet), Packet(t, S, frames)
  PROVE  /\ link' \in {"up", "lost", "down"} /\ joined' \in BOOLEAN
         /\ \E X : Moves(t, S \cup X) /\ \A u \in X : IsAckOf(u, frames)
  <1> DEFINE asked == {k \in DOMAIN frames : frames[k].part = 1 /\ ~frames[k].reply /\ frames[k].id # None}
  <1>1. CASE Becomes(t, S) /\ (UNCHANGED <<link, joined>> \/ Lost)
    <2> DEFINE X == {}
    <2>0. S \cup X = S
      OBVIOUS
    <2>1. Moves(t, S)
      BY <1>1, BecomesMoves
    <2>2. link' \in {"up", "lost", "down"} /\ joined' \in BOOLEAN
      BY <1>1 DEF LinkOK, Lost
    <2>3. \A u \in X : IsAckOf(u, frames)
      OBVIOUS
    <2> HIDE DEF X
    <2> QED BY <2>0, <2>1, <2>2, <2>3
  <1>2. CASE /\ \E A \in SUBSET asked : Becomes(t, S \cup {Task("onAck", frames[k].m, frames[k].id) : k \in A})
             /\ UNCHANGED <<link, joined>>
    <2>1. PICK A \in SUBSET asked : Becomes(t, S \cup {Task("onAck", frames[k].m, frames[k].id) : k \in A})
      BY <1>2
    <2> DEFINE X == {Task("onAck", frames[k].m, frames[k].id) : k \in A}
    <2>2. \A u \in X : IsAckOf(u, frames)
      <3> SUFFICES ASSUME NEW k \in A PROVE IsAckOf(Task("onAck", frames[k].m, frames[k].id), frames)
        OBVIOUS
      <3>1. k \in DOMAIN frames /\ ~frames[k].reply /\ frames[k].id # None
        BY <2>1
      <3>2. frames[k].m \in Nat /\ frames[k].id \in Nat
        <4>1. frames[k] \in FrameSet
          BY SMT, <3>1
        <4> QED BY SMT, <4>1 DEF FrameSet
      <3> DEFINE u == Task("onAck", frames[k].m, frames[k].id)
      <3>3. u \in Tasks /\ u.pc = "onAck" /\ u.m = frames[k].m /\ u.id = frames[k].id /\ u.reply = FALSE
        BY SMT, <3>2, Places DEF Task, Tasks
      <3> HIDE DEF u
      <3>4. IsAckOf(u, frames)
        BY <3>1, <3>3 DEF IsAckOf
      <3> QED BY <3>4 DEF u
    <2> HIDE DEF X
    <2>3. S \cup X \subseteq Tasks
      BY <2>2 DEF IsAckOf
    <2>4. Moves(t, S \cup X)
      BY <2>1, <2>3, BecomesMoves DEF X
    <2> QED BY <1>2, <2>2, <2>4 DEF LinkOK
  <1> QED BY <1>1, <1>2 DEF Packet

\* The history with one of its flags set.
LEMMA HistoryOverlap ==
  ASSUME NEW x \in Histories, NEW b \in BOOLEAN
  PROVE  LET y == [x EXCEPT !.overlap = b]
         IN  /\ y \in Histories /\ y.overlap = b
             /\ y.calls = x.calls /\ y.delivered = x.delivered /\ y.replied = x.replied
             /\ y.left = x.left /\ y.aborted = x.aborted /\ y.raced = x.raced
  BY SMT DEF Histories

\* Likewise.
LEMMA HistoryRaced ==
  ASSUME NEW x \in Histories, NEW b \in BOOLEAN
  PROVE  LET y == [x EXCEPT !.raced = b]
         IN  /\ y \in Histories /\ y.raced = b
             /\ y.calls = x.calls /\ y.delivered = x.delivered /\ y.replied = x.replied
             /\ y.left = x.left /\ y.overlap = x.overlap /\ y.aborted = x.aborted
  BY SMT DEF Histories

\* The history with the call of an ack handler.
LEMMA HistoryCalls ==
  ASSUME NEW x \in Histories, NEW i \in Ids
  PROVE  LET y == [x EXCEPT !.calls[i] = @ + 1]
         IN  /\ y \in Histories /\ y.calls = [x.calls EXCEPT ![i] = x.calls[i] + 1]
             /\ y.delivered = x.delivered /\ y.replied = x.replied /\ y.left = x.left
             /\ y.overlap = x.overlap /\ y.aborted = x.aborted /\ y.raced = x.raced
  BY SMT DEF Histories

\* The history with ACKs counted.
LEMMA HistoryReplied ==
  ASSUME NEW x \in Histories, NEW d \in [Events -> Nat]
  PROVE  LET y == [x EXCEPT !.replied = d]
         IN  /\ y \in Histories /\ y.replied = d
             /\ y.calls = x.calls /\ y.delivered = x.delivered /\ y.left = x.left
             /\ y.overlap = x.overlap /\ y.aborted = x.aborted /\ y.raced = x.raced
  BY SMT DEF Histories

\* The history with an event counted.
LEMMA HistoryEvent ==
  ASSUME NEW x \in Histories, NEW e \in Events
  PROVE  LET y == [x EXCEPT !.delivered[e] = @ + 1]
         IN  /\ y \in Histories /\ y.delivered = [x.delivered EXCEPT ![e] = x.delivered[e] + 1]
             /\ y.calls = x.calls /\ y.replied = x.replied /\ y.left = x.left
             /\ y.overlap = x.overlap /\ y.aborted = x.aborted /\ y.raced = x.raced
  BY SMT DEF Histories

\* drainQueue on queue q, by a goroutine or by none.
LEMMA DrainQueueMoves ==
  ASSUME Base, NEW B, NEW t, NEW q \in Seq(Emits),
         \/ t \in DOMAIN tasks /\ B = Ending(tasks, t)
         \/ t = NoTask /\ B = tasks,
         NEW force \in BOOLEAN, DrainQueue(B, q, force)
  PROVE  \E S : Moves(t, S) /\ Draws(S, q)
  <1>1. IsBagOf(tasks, Tasks) /\ h \in Histories
    BY DEF Base, TasksOK, HistoryOK
  <1> DEFINE m == Head(q)
             u == Task("send", m, None)
  <1>2. CASE MaySend(q, force)
    <2>1. /\ pending' = pending \cup {m} /\ tries' = [tries EXCEPT ![m] = NextTry(m)]
          /\ tasks' = Starting(B, {u})
          /\ h' = [h EXCEPT !.overlap = @ \/ (m \in pending /\ force)]
      BY <1>2 DEF DrainQueue
    <2>2. q # <<>> /\ (m \in pending => force)
      BY <1>2 DEF MaySend
    <2>3. m \in Nat
      BY SMT, <2>2, EmitAssumption DEF Emits
    <2> HIDE DEF m
    <2>4. tries' = [tries EXCEPT ![m] = tries[m] + 1]
      BY <2>1 DEF NextTry
    <2>5. /\ h' \in Histories /\ h'.calls = h.calls /\ h'.delivered = h.delivered /\ h'.replied = h.replied
          /\ h'.left = h.left /\ h'.aborted = h.aborted /\ h'.raced = h.raced
          /\ (h.overlap => h'.overlap) /\ (m \in pending => h'.overlap)
      <3> DEFINE b == h.overlap \/ (m \in pending /\ force)
      <3>1. h' = [h EXCEPT !.overlap = b] /\ b \in BOOLEAN
        BY <2>1
      <3>2. (h.overlap => b) /\ (m \in pending => b)
        BY <2>2
      <3> HIDE DEF b
      <3>3. /\ h' \in Histories /\ h'.calls = h.calls /\ h'.delivered = h.delivered /\ h'.replied = h.replied
            /\ h'.left = h.left /\ h'.aborted = h.aborted /\ h'.raced = h.raced /\ h'.overlap = b
        BY <1>1, <3>1, HistoryOverlap
      <3> QED BY <3>2, <3>3
    <2>6. /\ u \in Tasks /\ u.pc = "send" /\ u.m = m /\ u.id = None /\ u.reply = FALSE
      BY SMT, <2>3, Places DEF Task, Tasks, None
    <2> HIDE DEF u
    <2>7. Moves(t, {u})
      <3>1. CASE t \in DOMAIN tasks /\ B = Ending(tasks, t)
        BY <1>1, <2>1, <2>6, <3>1, BecomesMoves DEF Becomes
      <3>2. CASE t = NoTask /\ B = tasks
        BY <1>1, <2>1, <2>6, <3>2, StartingMoves
      <3> QED BY <3>1, <3>2
    <2>8. PICK S : S = {u}
      OBVIOUS
    <2>9. \A v \in S : /\ v \in Tasks /\ v.pc = "send" /\ v.m = m /\ v.id = None /\ v.reply = FALSE
                       /\ \A w \in S : w = v
      BY <2>6, <2>8
    <2>10. Draws(S, q)
      BY <2>1, <2>2, <2>4, <2>5, <2>9 DEF Draws, m
    <2> QED BY <2>7, <2>8, <2>10
  <1>3. CASE ~MaySend(q, force)
    <2>1. tasks' = B /\ UNCHANGED <<pending, tries, h>>
      BY <1>3 DEF DrainQueue
    <2>2. PICK S : S = {}
      OBVIOUS
    <2>3. Moves(t, S)
      BY <1>1, <2>1, <2>2, EndingMoves, SameMoves
    <2>4. Draws(S, q)
      BY <1>1, <2>1, <2>2 DEF Draws
    <2> QED BY <2>3, <2>4
  <1> QED BY <1>2, <1>3

\* Drain draws from the queue.
LEMMA DrainDoing ==
  ASSUME Base, NEW t, Drain(t) PROVE DrainDoes(t)
  <1>1. /\ t \in DOMAIN tasks /\ DrainQueue(Ending(tasks, t), queue, t.pc = "drainForced")
        /\ config' = config /\ UNCHANGED linkVars /\ UNCHANGED bufVars /\ UNCHANGED ackVars
        /\ UNCHANGED <<kind, ekind>> /\ queue' = queue /\ UNCHANGED <<queueMu, spoiled>>
        /\ t.pc \in {"drain", "drainForced"}
    BY DEF Drain, At
  <1>2. (t.pc = "drainForced") \in BOOLEAN /\ queue \in Seq(Emits)
    BY DEF Base, QueueOK
  <1>3. \E S : Moves(t, S) /\ Draws(S, queue)
    BY <1>1, <1>2, DrainQueueMoves
  <1> QED BY <1>1, <1>3 DEF DrainDoes

\* What Emit does: with Retries the packet joins the queue, otherwise it is sent.
LEMMA EmitDoing ==
  ASSUME Base, NEW m \in Emits, NEW k \in Emittable, Emit(m, k)
  PROVE  EmitDoes(m, k)
  <1>1. /\ kind[m] = "none" /\ kind' = [kind EXCEPT ![m] = k] /\ ekind' = ekind
        /\ config' = config /\ UNCHANGED linkVars /\ UNCHANGED bufVars /\ UNCHANGED ackVars
        /\ UNCHANGED <<queueMu, spoiled>>
    BY DEF Emit
  <1>2. /\ k \in EmitKinds /\ k # "none" /\ (config.retries > 0 => k \in {"ack", "binary"})
    <2>1. config.retries > 0 => config.retries # 0
      BY SMT, EmitAssumption DEF Base, LinkOK, Configs
    <2> QED BY <2>1 DEF Emittable, EmitKinds
  <1>3. m \in Nat /\ queue \in Seq(Emits)
    BY SMT, EmitAssumption DEF Emits, Base, QueueOK
  <1>4. CASE config.retries > 0
    <2>1. queue' = Append(queue, m) /\ DrainQueue(tasks, queue', FALSE)
      BY <1>2, <1>4 DEF Emit, AddToQueue
    <2>2. queue' \in Seq(Emits)
      BY SMT, <1>3, <2>1
    <2>3. FALSE \in BOOLEAN
      OBVIOUS
    <2>4. PICK q : q = queue'
      OBVIOUS
    <2>5. \E S : Moves(NoTask, S) /\ Draws(S, q)
      BY <2>1, <2>2, <2>3, <2>4, DrainQueueMoves
    <2>6. \E S : Moves(NoTask, S) /\ Draws(S, queue')
      BY <2>4, <2>5
    <2> QED BY <1>1, <1>2, <1>4, <2>1, <2>2, <2>6 DEF EmitDoes
  <1>5. CASE ~(config.retries > 0)
    <2> DEFINE u == Task("send", m, None)
    <2>1. Starts(u) /\ UNCHANGED <<queue, pending, tries, h>>
      BY <1>5 DEF Emit
    <2>2. /\ u \in Tasks /\ u.pc = "send" /\ u.m = m /\ u.id = None /\ u.reply = FALSE
      BY SMT, <1>3, Places DEF Task, Tasks, None
    <2> HIDE DEF u
    <2>3. Moves(NoTask, {u})
      BY <2>1, <2>2, StartingMoves DEF Starts, Base, TasksOK
    <2> QED BY <1>1, <1>2, <1>5, <2>1, <2>2, <2>3 DEF EmitDoes
  <1> QED BY <1>4, <1>5

\* registerAckHandler, and what it makes of the goroutine.
LEMMA RegisterForm ==
  ASSUME Base, NEW t \in DOMAIN tasks, t.pc = "send", NEW r, r = Registered(t), Register(t)
  PROVE  /\ r \in Tasks /\ r.m = t.m /\ r.reply = t.reply
         /\ NeedsAck(t) => /\ t.reply = FALSE /\ r.id = nextId /\ nextId \in Ids /\ nextId' = nextId + 1
                           /\ handler' = [handler EXCEPT ![nextId] = "live"] /\ acks' = acks \cup {nextId}
         /\ ~NeedsAck(t) => r = t /\ UNCHANGED ackVars
  <1>1. t \in Tasks /\ t.reply \in BOOLEAN
    BY TaskFacts, TaskForms
  <1>2. CASE NeedsAck(t)
    <2>1. /\ nextId \in Ids /\ nextId' = nextId + 1
          /\ handler' = [handler EXCEPT ![nextId] = "live"] /\ acks' = acks \cup {nextId}
      BY <1>2 DEF Register
    <2>2. r = [t EXCEPT !.id = nextId]
      BY <1>2 DEF Registered
    <2>3. nextId \in Nat
      BY SMT, <2>1, EmitAssumption DEF Ids
    <2>4. r \in Tasks /\ r.m = t.m /\ r.reply = t.reply /\ r.id = nextId
      BY SMT, <1>1, <2>2, <2>3 DEF Tasks
    <2>5. t.reply = FALSE
      BY <1>1, <1>2 DEF NeedsAck
    <2> QED BY <1>2, <2>1, <2>4, <2>5
  <1>3. CASE ~NeedsAck(t)
    BY <1>1, <1>3 DEF Register, Registered
  <1> QED BY <1>2, <1>3

\* AppendSendBuffer and BufferEvent end a goroutine.
LEMMA BufferingDoing ==
  ASSUME Base, NEW t, AppendSendBuffer(t) \/ BufferEvent(t)
  PROVE  Buffers(t)
  <1>1. /\ t \in DOMAIN tasks /\ t.pc \in {"buffer", "bufferEvent"} /\ Becomes(t, {})
        /\ UNCHANGED <<config, kind, ekind, sendMu, recvMu>>
        /\ UNCHANGED linkVars /\ UNCHANGED ackVars /\ UNCHANGED queueVars
    BY DEF AppendSendBuffer, BufferEvent, At
  <1>2. t \in Tasks /\ IsBagOf(tasks, Tasks)
    BY <1>1, TaskFacts
  <1>3. Moves(t, {})
    BY <1>1, <1>2, BecomesMoves
  <1> DEFINE b == h.raced \/ state = "connected"
  <1>4. h' = [h EXCEPT !.raced = b] /\ b \in BOOLEAN /\ h \in Histories
    BY DEF AppendSendBuffer, BufferEvent, Base, HistoryOK
  <1>5. b = (h.raced \/ state = "connected")
    OBVIOUS
  <1> HIDE DEF b
  <1>6. /\ h' \in Histories /\ h'.raced = b
        /\ h'.calls = h.calls /\ h'.delivered = h.delivered /\ h'.replied = h.replied
        /\ h'.left = h.left /\ h'.overlap = h.overlap /\ h'.aborted = h.aborted
    BY <1>4, HistoryRaced
  <1> QED BY <1>1, <1>3, <1>5, <1>6 DEF Buffers

\* The one appends the frames of a packet.
LEMMA AppendDoing ==
  ASSUME Base, NEW t, AppendSendBuffer(t) PROVE AppendDoes(t)
  <1>1. Buffers(t)
    BY BufferingDoing
  <1>2. t.pc = "buffer" /\ sendBuffer' = sendBuffer \o Frames(t) /\ UNCHANGED receiveBuffer
    BY DEF AppendSendBuffer, At
  <1> QED BY <1>1, <1>2 DEF AppendDoes

\* The other one appends an event.
LEMMA BufferEventDoing ==
  ASSUME Base, NEW t, BufferEvent(t) PROVE BufferEventDoes(t)
  <1>1. Buffers(t)
    BY BufferingDoing
  <1>2. t.pc = "bufferEvent" /\ receiveBuffer' = Append(receiveBuffer, t.m) /\ UNCHANGED sendBuffer
    BY DEF BufferEvent, At
  <1> QED BY <1>1, <1>2 DEF BufferEventDoes

\* Expire ends the goroutine, or goes on to remove the packet's frames.
LEMMA ExpireDoing ==
  ASSUME Base, NEW t, Expire(t) PROVE ExpireDoes(t)
  <1> DEFINE u == To(t, "unbuffer")
  <1>1. /\ t \in DOMAIN tasks /\ t.pc = "sleep"
        /\ UNCHANGED <<config, kind, ekind, nextId, acks, h>>
        /\ UNCHANGED linkVars /\ UNCHANGED bufVars /\ UNCHANGED queueVars
        /\ \/ UNCHANGED handler /\ Becomes(t, {})
           \/ /\ handler[t.id] # "called" /\ handler' = [handler EXCEPT ![t.id] = "timedOut"]
              /\ Becomes(t, {u})
    BY DEF Expire, At
  <1>2. t \in Tasks /\ IsBagOf(tasks, Tasks) /\ t.reply = FALSE
    BY <1>1, TaskFacts
  <1>3. u \in Tasks /\ u.pc = "unbuffer" /\ u.m = t.m /\ u.id = t.id /\ u.reply = FALSE
    BY SMT, <1>2, Places DEF To, Tasks
  <1> HIDE DEF u
  <1>4. CASE UNCHANGED handler /\ Becomes(t, {})
    <2>1. Moves(t, {})
      BY <1>1, <1>2, <1>4, BecomesMoves
    <2> QED BY <1>1, <1>4, <2>1 DEF ExpireDoes
  <1>5. CASE /\ handler[t.id] # "called" /\ handler' = [handler EXCEPT ![t.id] = "timedOut"]
             /\ Becomes(t, {u})
    <2>1. {u} \subseteq Tasks
      BY <1>3
    <2>2. Moves(t, {u})
      BY <1>1, <1>2, <1>5, <2>1, BecomesMoves
    <2> QED BY <1>1, <1>3, <1>5, <2>2 DEF ExpireDoes
  <1> QED BY <1>1, <1>4, <1>5

\* The call of a handler: the goroutine ends or goes on to drain the queue, and
\* the history counts the call.
LEMMA CalledMoves ==
  ASSUME Base, NEW t \in DOMAIN tasks, t.pc \in {"unbuffer", "onAck"}, NEW failed \in BOOLEAN,
         Called(t, failed)
  PROVE  HandlerCalled(t, failed) /\ \E S : Moves(t, S) /\ Drains(S)
  <1> DEFINE c == [h EXCEPT !.calls[t.id] = @ + 1]
             u == Task("drain", t.m, None)
  <1>1. t \in Tasks /\ IsBagOf(tasks, Tasks) /\ t.id \in Ids /\ t.m \in Emits /\ t.m \in Nat
    BY TaskFacts, TaskForms
  <1>2. h \in Histories
    BY DEF Base, HistoryOK
  <1>3. /\ c \in Histories /\ c.calls = [h.calls EXCEPT ![t.id] = h.calls[t.id] + 1]
        /\ c.delivered = h.delivered /\ c.replied = h.replied /\ c.left = h.left
        /\ c.overlap = h.overlap /\ c.aborted = h.aborted /\ c.raced = h.raced
    BY SMT, <1>1, <1>2, HistoryCalls
  <1>4. u \in Tasks /\ u.pc = "drain" /\ u.reply = FALSE
    BY SMT, <1>1, Places DEF Task, Tasks, None
  <1>5. \/ ~Queued(t.m) /\ h' = c /\ Becomes(t, {}) /\ UNCHANGED queueVars
        \/ /\ Queued(t.m) /\ failed /\ tries[t.m] <= config.retries /\ h' = c
           /\ pending' = pending \ {t.m} /\ Becomes(t, {u}) /\ UNCHANGED <<queue, queueMu, tries, spoiled>>
        \/ /\ Queued(t.m) /\ queue = <<>> /\ queueMu' = TRUE /\ h' = c /\ Becomes(t, {})
           /\ UNCHANGED <<queue, pending, tries, spoiled>>
        \/ /\ Queued(t.m) /\ ~(failed /\ tries[t.m] <= config.retries) /\ queue # <<>>
           /\ queue' = Tail(queue) /\ pending' = pending \ {t.m}
           /\ h' = [c EXCEPT !.left[Head(queue)] =
                      IF Head(queue) # t.m THEN "dropped" ELSE IF failed THEN "discarded" ELSE "acknowledged"]
           /\ Becomes(t, {u}) /\ UNCHANGED <<queueMu, tries, spoiled>>
    BY DEF Called
  <1> HIDE DEF c, u
  <1>6. PICK S : (S = {} \/ S = {u}) /\ Becomes(t, S)
    BY <1>5
  <1>7. Moves(t, S) /\ Drains(S)
    <2>1. \A v \in S : v \in Tasks /\ v.pc = "drain" /\ v.reply = FALSE
      BY <1>4, <1>6
    <2>2. Moves(t, S)
      BY <1>1, <1>6, <2>1, BecomesMoves
    <2> QED BY <2>1, <2>2 DEF Drains
  <1>8. CASE h' = c /\ ( \/ ~Queued(t.m) /\ UNCHANGED queueVars
                         \/ /\ Queued(t.m) /\ failed /\ tries[t.m] <= config.retries
                            /\ pending' = pending \ {t.m} /\ UNCHANGED <<queue, queueMu, tries, spoiled>>
                         \/ /\ Queued(t.m) /\ queue = <<>> /\ queueMu' = TRUE
                            /\ UNCHANGED <<queue, pending, tries, spoiled>> )
    <2>1. h'.left = h.left
      BY <1>3, <1>8
    <2>2. QueueMoves(t, failed)
      BY <1>8, <2>1 DEF QueueMoves
    <2> QED BY <1>3, <1>7, <1>8, <2>2 DEF HandlerCalled
  <1>9. CASE /\ Queued(t.m) /\ ~(failed /\ tries[t.m] <= config.retries) /\ queue # <<>>
             /\ queue' = Tail(queue) /\ pending' = pending \ {t.m}
             /\ h' = [c EXCEPT !.left[Head(queue)] =
                      IF Head(queue) # t.m THEN "dropped" ELSE IF failed THEN "discarded" ELSE "acknowledged"]
             /\ UNCHANGED <<queueMu, tries, spoiled>>
    <2> DEFINE l == IF Head(queue) # t.m THEN "dropped" ELSE IF failed THEN "discarded" ELSE "acknowledged"
               m == Head(queue)
    <2>1. /\ Queued(t.m) /\ ~(failed /\ tries[t.m] <= config.retries) /\ queue # <<>>
          /\ queue' = Tail(queue) /\ pending' = pending \ {t.m}
          /\ h' = [c EXCEPT !.left[m] = l] /\ UNCHANGED <<queueMu, tries, spoiled>>
      BY <1>9
    <2>2. l \in {"no", "dropped", "discarded", "acknowledged"} /\ (m = t.m => l # "dropped")
      OBVIOUS
    <2>3. m \in Emits
      BY SMT, <2>1 DEF Base, QueueOK
    <2> HIDE DEF l
    <2>5. /\ h' \in Histories /\ h'.left = [c.left EXCEPT ![m] = l]
          /\ h'.calls = c.calls /\ h'.delivered = c.delivered /\ h'.replied = c.replied
          /\ h'.overlap = c.overlap /\ h'.aborted = c.aborted /\ h'.raced = c.raced
      <3> HIDE DEF m
      <3> DEFINE y == [c EXCEPT !.left[m] = l]
      <3>1. /\ y \in Histories /\ y.left = [c.left EXCEPT ![m] = l]
            /\ y.calls = c.calls /\ y.delivered = c.delivered /\ y.replied = c.replied
            /\ y.overlap = c.overlap /\ y.aborted = c.aborted /\ y.raced = c.raced
        <4>1. c \in Histories /\ m \in Emits /\ l \in {"no", "dropped", "discarded", "acknowledged"}
          BY <1>3, <2>2, <2>3
        <4> QED BY SMT, <4>1 DEF Histories
      <3>2. h' = y
        BY <2>1
      <3> HIDE DEF y
      <3> QED BY <3>1, <3>2
    <2>6. h'.left = [h.left EXCEPT ![Head(queue)] = l] /\ (Head(queue) = t.m => l # "dropped")
      BY <1>3, <2>2, <2>5
    <2>7. QueueMoves(t, failed)
      BY <2>1, <2>2, <2>6 DEF QueueMoves
    <2> QED BY <1>3, <1>7, <2>5, <2>7 DEF HandlerCalled
  <1> QED BY <1>5, <1>8, <1>9

\* OnAck calls the handler, or finds no use for the ACK.
LEMMA OnAckDoing ==
  ASSUME Base, NEW t, OnAck(t)
  PROVE  OnAckDoes(t)
  <1>1. /\ t \in DOMAIN tasks /\ t.pc = "onAck" /\ acks' = acks \ {t.id}
        /\ UNCHANGED linkVars /\ UNCHANGED bufVars /\ UNCHANGED <<config, nextId, kind, ekind>>
        /\ \/ Becomes(t, {}) /\ UNCHANGED handler /\ UNCHANGED queueVars /\ UNCHANGED h
           \/ /\ t.id \in acks /\ handler[t.id] # "timedOut"
              /\ handler' = [handler EXCEPT ![t.id] = "called"] /\ Called(t, FALSE)
    BY DEF OnAck, At, CallAck
  <1>2. IsBagOf(tasks, Tasks) /\ t.id \in Ids /\ t.m \in Emits /\ t.reply = FALSE
    BY <1>1, TaskFacts
  <1>3. CASE Becomes(t, {}) /\ UNCHANGED handler /\ UNCHANGED queueVars /\ UNCHANGED h
    <2>1. PICK S : S = {}
      OBVIOUS
    <2>2. Moves(t, S)
      BY <1>1, <1>2, <1>3, <2>1, BecomesMoves
    <2>3. Drains(S)
      BY <2>1 DEF Drains
    <2> QED BY <1>1, <1>2, <1>3, <2>2, <2>3 DEF OnAckDoes
  <1>4. CASE t.id \in acks /\ handler[t.id] # "timedOut" /\ handler' = [handler EXCEPT ![t.id] = "called"] /\ Called(t, FALSE)
    <2>1. /\ \E S : Moves(t, S) /\ Drains(S)
          /\ HandlerCalled(t, FALSE)
      BY <1>1, <1>4, CalledMoves
    <2> QED BY <1>1, <1>2, <1>4, <2>1 DEF OnAckDoes
  <1> QED BY <1>1, <1>3, <1>4

\* What the steps of the link and of CONNECT do with goroutines.
LEMMA ConnMoves ==
  ASSUME Base, NEW t, (Open \/ Break \/ OnClose \/ SendConnect(t) \/ OnConnect(t))
  PROVE  /\ UNCHANGED <<config, kind, ekind, h>> /\ UNCHANGED bufVars /\ UNCHANGED ackVars /\ UNCHANGED queueVars
         /\ \E w, S : /\ Moves(w, S) /\ w.pc \in {"none", "sendConnect", "onConnect"} /\ w.reply = FALSE
                      /\ \A u \in S : u \in Tasks /\ u.pc \in {"sendConnect", "onConnect", "flush"} /\ u.reply = FALSE
  <1>1. /\ UNCHANGED <<config, kind, ekind, h>> /\ UNCHANGED bufVars /\ UNCHANGED ackVars /\ UNCHANGED queueVars
    BY DEF Open, Break, OnClose, SendConnect, OnConnect
  <1>2. IsBagOf(tasks, Tasks)
    BY DEF Base, TasksOK
  <1>3. NoTask.pc = "none" /\ NoTask.reply = FALSE
    BY DEF NoTask
  <1>4. CASE Open
    <2> DEFINE u == Task("sendConnect", None, None)
    <2>1. Starts(u)
      BY <1>4 DEF Open
    <2>2. u \in Tasks /\ u.pc = "sendConnect" /\ u.reply = FALSE
      BY SMT, Places DEF Task, Tasks, None
    <2> HIDE DEF u
    <2>3. PICK S : S = {u}
      OBVIOUS
    <2>4. Moves(NoTask, S)
      BY <1>2, <2>1, <2>2, <2>3, StartingMoves DEF Starts
    <2>5. \A v \in S : v \in Tasks /\ v.pc \in {"sendConnect", "onConnect", "flush"} /\ v.reply = FALSE
      BY <2>2, <2>3
    <2>6. PICK w : w = NoTask
      OBVIOUS
    <2>7. Moves(w, S) /\ w.pc \in {"none", "sendConnect", "onConnect"} /\ w.reply = FALSE
      BY <1>3, <2>4, <2>6
    <2> QED BY <1>1, <2>5, <2>7
  <1>5. CASE Break \/ OnClose
    <2>1. tasks' = tasks
      BY <1>5 DEF Break, OnClose
    <2>2. PICK S : S = {}
      OBVIOUS
    <2>3. Moves(NoTask, S)
      BY <1>2, <2>1, <2>2, SameMoves
    <2>4. \A v \in S : v \in Tasks /\ v.pc \in {"sendConnect", "onConnect", "flush"} /\ v.reply = FALSE
      BY <2>2
    <2>5. PICK w : w = NoTask
      OBVIOUS
    <2>6. Moves(w, S) /\ w.pc \in {"none", "sendConnect", "onConnect"} /\ w.reply = FALSE
      BY <1>3, <2>3, <2>5
    <2> QED BY <1>1, <2>4, <2>6
  <1>6. CASE SendConnect(t) \/ OnConnect(t)
    <2> DEFINE u == To(t, "onConnect")
               v == To(t, "flush")
    <2>1. /\ t \in DOMAIN tasks /\ t.pc \in {"sendConnect", "onConnect"}
          /\ Becomes(t, {}) \/ Becomes(t, {u}) \/ Becomes(t, {v})
      BY <1>6 DEF SendConnect, OnConnect, At
    <2>2. t \in Tasks /\ t.reply = FALSE
      BY <2>1, TaskFacts
    <2>3. /\ u \in Tasks /\ u.pc = "onConnect" /\ u.reply = FALSE
          /\ v \in Tasks /\ v.pc = "flush" /\ v.reply = FALSE
      BY SMT, <2>2, Places DEF To, Tasks
    <2> HIDE DEF u, v
    <2>4. PICK S : Becomes(t, S) /\ (S = {} \/ S = {u} \/ S = {v})
      BY <2>1
    <2>5. \A w \in S : w \in Tasks /\ w.pc \in {"sendConnect", "onConnect", "flush"} /\ w.reply = FALSE
      BY <2>3, <2>4
    <2>6. Moves(t, S)
      BY <1>2, <2>1, <2>4, <2>5, BecomesMoves
    <2> QED BY <1>1, <2>1, <2>2, <2>5, <2>6
  <1> QED BY <1>4, <1>5, <1>6

\* ServerEmit starts the goroutine of an event.
LEMMA ServerEmitDoing ==
  ASSUME Base, NEW e \in Events, NEW k, ServerEmit(e, k)
  PROVE  ServerEmitDoes(e, k)
  <1> DEFINE u == Task("onEvent", e, e)
  <1>1. /\ ekind[e] = "none" /\ ekind' = [ekind EXCEPT ![e] = k] /\ Starts(u)
        /\ UNCHANGED <<config, kind, h>> /\ UNCHANGED linkVars /\ UNCHANGED bufVars /\ UNCHANGED ackVars
        /\ UNCHANGED queueVars
    BY DEF ServerEmit
  <1>2. u \in Tasks /\ u.pc = "onEvent" /\ u.m = e /\ u.id = e /\ u.reply = FALSE
    BY SMT, Places, EmitAssumption DEF Task, Tasks, Events
  <1> HIDE DEF u
  <1>3. Moves(NoTask, {u})
    BY <1>1, <1>2, StartingMoves DEF Starts, Base, TasksOK
  <1> QED BY <1>1, <1>2, <1>3 DEF ServerEmitDoes

\* OnEvent calls the handler of the event, or will buffer it.
LEMMA OnEventDoing ==
  ASSUME Base, NEW t, OnEvent(t)
  PROVE  OnEventDoes(t)
  <1> DEFINE u == [t EXCEPT !.pc = "send", !.reply = TRUE]
             v == To(t, "bufferEvent")
  <1>1. /\ t \in DOMAIN tasks /\ t.pc = "onEvent"
        /\ \/ h' = [h EXCEPT !.delivered[t.m] = @ + 1] /\ ekind[t.m] \in {"acks", "acksLater"} /\ Becomes(t, {u})
           \/ h' = [h EXCEPT !.delivered[t.m] = @ + 1] /\ Becomes(t, {})
           \/ h' = h /\ Becomes(t, {v})
    BY DEF OnEvent, At, CallEvent
  <1>2. /\ t \in Tasks /\ IsBagOf(tasks, Tasks) /\ t.reply = FALSE /\ t.m \in Events /\ t.id = t.m /\ ekind[t.m] # "none"
    BY <1>1, TaskFacts DEF TaskOK
  <1>3. u \in Tasks /\ u.pc = "send" /\ u.m = t.m /\ u.id = t.id /\ u.reply = TRUE
    <2>1. TRUE \in BOOLEAN
      OBVIOUS
    <2> QED BY <1>2, <2>1, Places DEF Tasks
  <1>4. v \in Tasks /\ v.pc = "bufferEvent" /\ v.m = t.m /\ v.id = t.id /\ v.reply = FALSE
    BY SMT, <1>2, Places DEF To, Tasks
  <1>5. PICK S : /\ Becomes(t, S)
                 /\ \/ /\ h' = [h EXCEPT !.delivered[t.m] = @ + 1]
                       /\ S = {} \/ (S = {u} /\ ekind[t.m] \in {"acks", "acksLater"})
                    \/ h' = h /\ S = {v}
    <2> HIDE DEF u, v
    <2> QED BY <1>1
  <1> HIDE DEF u, v
  <1>6. S \subseteq Tasks
    BY <1>3, <1>4, <1>5
  <1>7. Moves(t, S)
    BY <1>1, <1>2, <1>5, <1>6, BecomesMoves
  <1>8. \/ /\ h' = [h EXCEPT !.delivered[t.m] = @ + 1]
           /\ \A w \in S : IsReplyTo(w, t) /\ (\A x \in S : x = w)
        \/ /\ h' = h
           /\ \A w \in S : /\ w \in Tasks /\ w.pc = "bufferEvent" /\ w.m = t.m /\ w.id = t.id /\ w.reply = FALSE
                           /\ \A x \in S : x = w
    <2>1. CASE h' = [h EXCEPT !.delivered[t.m] = @ + 1] /\ S = {}
      <3>1. \A w \in S : IsReplyTo(w, t) /\ (\A x \in S : x = w)
        BY <2>1
      <3> QED BY <2>1, <3>1
    <2>2. CASE h' = [h EXCEPT !.delivered[t.m] = @ + 1] /\ S = {u} /\ ekind[t.m] \in {"acks", "acksLater"}
      <3>1. \A w \in S : IsReplyTo(w, t) /\ (\A x \in S : x = w)
        BY <1>3, <2>2 DEF IsReplyTo
      <3> QED BY <2>2, <3>1
    <2>3. CASE h' = h /\ S = {v}
      BY <1>4, <2>3
    <2> QED BY <1>5, <2>1, <2>2, <2>3
  <1>9. /\ UNCHANGED <<config, kind, ekind>>
        /\ UNCHANGED linkVars /\ UNCHANGED bufVars /\ UNCHANGED ackVars /\ UNCHANGED queueVars
    BY DEF OnEvent
  <1>10. h' = [h EXCEPT !.delivered[t.m] = @ + 1] =>
           /\ h' \in Histories /\ h'.delivered = [h.delivered EXCEPT ![t.m] = h.delivered[t.m] + 1]
           /\ h'.calls = h.calls /\ h'.replied = h.replied /\ h'.left = h.left
           /\ h'.overlap = h.overlap /\ h'.aborted = h.aborted /\ h'.raced = h.raced
    <2>1. h \in Histories
      BY DEF Base, HistoryOK
    <2> DEFINE y == [h EXCEPT !.delivered[t.m] = @ + 1]
    <2>2. /\ y \in Histories /\ y.delivered = [h.delivered EXCEPT ![t.m] = h.delivered[t.m] + 1]
          /\ y.calls = h.calls /\ y.replied = h.replied /\ y.left = h.left
          /\ y.overlap = h.overlap /\ y.aborted = h.aborted /\ y.raced = h.raced
      BY <1>2, <2>1, HistoryEvent
    <2> QED BY <2>2
  <1>11. \/ /\ h' \in Histories /\ h'.delivered = [h.delivered EXCEPT ![t.m] = h.delivered[t.m] + 1]
            /\ h'.calls = h.calls /\ h'.replied = h.replied /\ h'.left = h.left
            /\ h'.overlap = h.overlap /\ h'.aborted = h.aborted /\ h'.raced = h.raced
            /\ \A w \in S : IsReplyTo(w, t) /\ (\A x \in S : x = w)
         \/ /\ UNCHANGED h
            /\ \A w \in S : /\ w \in Tasks /\ w.pc = "bufferEvent" /\ w.m = t.m /\ w.id = t.id /\ w.reply = FALSE
                            /\ \A x \in S : x = w
    BY <1>8, <1>10
  <1> QED BY <1>1, <1>2, <1>7, <1>9, <1>11 DEF OnEventDoes

-----------------------------------------------------------------------------
(* The types, and the forms of goroutines and frames.                      *)

\* Kinds stay as they are once they are chosen, and IDs are given out in order.
Grows ==
  /\ \A m \in Emits : kind[m] # "none" => kind'[m] = kind[m]
  /\ \A e \in Events : ekind[e] # "none" => ekind'[e] = ekind[e]
  /\ nextId \in Nat /\ nextId' \in Nat /\ nextId <= nextId'

\* So a task and a frame stay what they are.
LEMMA GrowsKeeps ==
  ASSUME Grows
  PROVE  /\ \A t \in Tasks : TaskOK(t) => TaskOK(t)'
         /\ \A f \in FrameSet : FrameOK(f) => FrameOK(f)'
  <1>1. ASSUME NEW x, x.id \in Nat, IsEmitted(x)
        PROVE  IsEmitted(x)' /\ kind'[x.m] = kind[x.m]
    <2>1. x.m \in Emits /\ kind[x.m] # "none" /\ x.id < nextId
      BY <1>1 DEF IsEmitted
    <2>2. kind'[x.m] = kind[x.m]
      BY <2>1 DEF Grows
    <2>3. x.id < nextId'
      BY SMT, <1>1, <2>1 DEF Grows
    <2> QED BY <2>1, <2>2, <2>3 DEF IsEmitted
  <1>2. ASSUME NEW x, IsReply(x)
        PROVE  IsReply(x)'
    <2>1. x.m \in Events /\ x.id = x.m /\ ekind[x.m] \in Acking /\ ekind[x.m] # "none"
      BY <1>2 DEF IsReply, Acking
    <2> QED BY <2>1 DEF IsReply, Grows
  <1>3. ASSUME NEW t \in Tasks, TaskOK(t)
        PROVE  TaskOK(t)'
    <2>1. t.id \in Nat
      BY SMT DEF Tasks
    <2>2. t.m \in Events /\ ekind[t.m] # "none" => ekind'[t.m] # "none"
      BY DEF Grows
    <2> QED BY <1>1, <1>2, <1>3, <2>1, <2>2 DEF TaskOK
  <1>4. ASSUME NEW f \in FrameSet, FrameOK(f)
        PROVE  FrameOK(f)'
    <2>1. f.id \in Nat
      BY SMT DEF FrameSet
    <2> QED BY <1>1, <1>2, <1>4, <2>1 DEF FrameOK
  <1> QED BY <1>3, <1>4

\* The goroutines are what they should be when the new ones are.
LEMMA TasksKeep ==
  ASSUME TasksOK, Grows, NEW t, NEW S, Moves(t, S), \A u \in S : TaskOK(u)'
  PROVE  TasksOK'
  <1>1. \A u \in DOMAIN tasks : u \in Tasks /\ TaskOK(u)
    BY DEF TasksOK, IsBagOf
  <1>2. \A u \in DOMAIN tasks : TaskOK(u)'
    BY <1>1, GrowsKeeps
  <1> QED BY <1>2 DEF Moves, TasksOK

\* They are when one ends.
LEMMA TasksEnd ==
  ASSUME TasksOK, Grows, NEW t, Moves(t, {}) PROVE TasksOK'
  <1>1. PICK S : S = {}
    OBVIOUS
  <1>2. \A u \in S : TaskOK(u)'
    BY <1>1
  <1>3. Moves(t, S)
    BY <1>1
  <1> QED BY <1>2, <1>3, TasksKeep

\* The buffers, when the step leaves them alone.
LEMMA BuffersKeep ==
  ASSUME BuffersOK, Grows, UNCHANGED bufVars
  PROVE  BuffersOK'
  <1>1. /\ sendBuffer' = sendBuffer /\ receiveBuffer' = receiveBuffer
        /\ sendMu' = sendMu /\ recvMu' = recvMu
    BY DEF bufVars
  <1>2. \A k \in DOMAIN sendBuffer : sendBuffer[k] \in FrameSet
    BY SMT DEF BuffersOK
  <1>3. \A k \in DOMAIN receiveBuffer : receiveBuffer[k] \in Events
    BY SMT DEF BuffersOK
  <1>4. \A k \in DOMAIN sendBuffer : FrameOK(sendBuffer[k])'
    <2> SUFFICES ASSUME NEW k \in DOMAIN sendBuffer PROVE FrameOK(sendBuffer[k])'
      OBVIOUS
    <2> QED BY <1>1, <1>2, GrowsKeeps DEF BuffersOK
  <1> QED BY <1>1, <1>3, <1>4 DEF BuffersOK, Grows

\* The parts of the state that a step leaves alone stay what they should be.
LEMMA LeftAlone ==
  ASSUME Base, config' = config
  PROVE  /\ UNCHANGED linkVars => LinkOK'
         /\ UNCHANGED ackVars => AcksOK'
         /\ UNCHANGED queueVars /\ Grows => QueueOK'
         /\ UNCHANGED <<kind, ekind>> => KindsOK'
         /\ UNCHANGED h => HistoryOK'
         /\ UNCHANGED <<kind, ekind>> /\ nextId' = nextId => Grows
         /\ UNCHANGED <<kind, ekind>> /\ UNCHANGED ackVars => Grows
         /\ nextId \in Nat
  <1>1. nextId \in Nat /\ nextId <= nextId
    BY SMT, EmitAssumption DEF Base, AcksOK, Ids
  <1>2. UNCHANGED <<kind, ekind>> /\ nextId' = nextId => Grows
    BY <1>1 DEF Grows
  <1>3. UNCHANGED ackVars => nextId' = nextId
    BY DEF ackVars
  <1>4. UNCHANGED queueVars /\ Grows => QueueOK'
    <2> SUFFICES ASSUME UNCHANGED queueVars, Grows PROVE QueueOK'
      OBVIOUS
    <2>1. queue' = queue /\ queueMu' = queueMu /\ pending' = pending /\ tries' = tries /\ spoiled' = spoiled
      BY DEF queueVars
    <2>2. \A k \in DOMAIN queue : queue[k] \in Emits /\ kind[queue[k]] # "none"
      BY SMT DEF Base, QueueOK
    <2>3. \A k \in DOMAIN queue : kind'[queue[k]] # "none"
      BY <2>2 DEF Grows
    <2> QED BY <2>1, <2>3 DEF Base, QueueOK
  <1>5. UNCHANGED linkVars => LinkOK'
    BY DEF Base, LinkOK, linkVars
  <1>6. UNCHANGED ackVars => AcksOK'
    BY DEF Base, AcksOK, ackVars
  <1>7. UNCHANGED <<kind, ekind>> => KindsOK'
    BY DEF Base, KindsOK
  <1>8. UNCHANGED h => HistoryOK'
    BY DEF Base, HistoryOK
  <1> QED BY <1>1, <1>2, <1>3, <1>4, <1>5, <1>6, <1>7, <1>8

\* What Base says of the queue, the history and the goroutines that drainQueue starts.
LEMMA DrawsKeeps ==
  ASSUME Base, UNCHANGED <<ackVars, queueMu, spoiled>>,
         NEW q \in Seq(Emits), \A k \in DOMAIN q : kind'[q[k]] # "none", queue' = q,
         NEW S, Draws(S, q)
  PROVE  QueueOK' /\ HistoryOK' /\ \A u \in S : TaskOK(u)'
  <1>1. /\ pending \subseteq Emits /\ tries \in [Emits -> Nat] /\ queueMu \in BOOLEAN /\ spoiled \subseteq Emits
    BY DEF Base, QueueOK
  <1>2. CASE S = {} /\ UNCHANGED <<pending, tries>>
    BY <1>1, <1>2 DEF QueueOK, Draws, HistoryOK
  <1>3. CASE /\ q # <<>> /\ pending' = pending \cup {Head(q)}
             /\ tries' = [tries EXCEPT ![Head(q)] = tries[Head(q)] + 1]
    <2> DEFINE m == Head(q)
    <2>1. m \in Emits /\ kind'[m] # "none"
      <3>1. 1 \in DOMAIN q /\ m = q[1] /\ m \in Emits
        BY SMT, <1>3
      <3> QED BY <3>1
    <2> HIDE DEF m
    <2>2. tries' \in [Emits -> Nat]
      BY SMT, <1>1, <1>3, <2>1 DEF m
    <2>3. pending' \subseteq Emits
      BY <1>1, <1>3, <2>1 DEF m
    <2>4. QueueOK'
      BY <1>1, <2>2, <2>3 DEF QueueOK
    <2>5. None < nextId'
      BY SMT, EmitAssumption DEF Base, AcksOK, Ids, ackVars, None
    <2>6. \A u \in S : TaskOK(u)'
      BY <2>1, <2>5 DEF TaskOK, IsEmitted, Draws, m
    <2> QED BY <2>4, <2>6 DEF Draws, HistoryOK
  <1> QED BY <1>2, <1>3 DEF Draws

\* drainQueue.
LEMMA DrainBase ==
  ASSUME Base, NEW t, DrainDoes(t) PROVE Base'
  <1>1. /\ UNCHANGED <<config, kind, ekind, queue, queueMu, spoiled>>
        /\ UNCHANGED linkVars /\ UNCHANGED bufVars /\ UNCHANGED ackVars
    BY DEF DrainDoes
  <1>2. Grows
    BY <1>1, LeftAlone
  <1>3. queue \in Seq(Emits) /\ \A k \in DOMAIN queue : kind'[queue[k]] # "none"
    BY <1>1 DEF Base, QueueOK
  <1>4. PICK S : Moves(t, S) /\ Draws(S, queue)
    BY DEF DrainDoes
  <1>5. QueueOK' /\ HistoryOK' /\ \A u \in S : TaskOK(u)'
    BY <1>1, <1>3, <1>4, DrawsKeeps
  <1>6. TasksOK'
    BY <1>2, <1>4, <1>5, TasksKeep DEF Base
  <1>7. BuffersOK'
    BY <1>1, <1>2, BuffersKeep DEF Base
  <1> QED BY <1>1, <1>5, <1>6, <1>7, LeftAlone DEF Base

\* The user's call of Emit.
LEMMA EmitBase ==
  ASSUME Base, NEW m \in Emits, NEW k, EmitDoes(m, k) PROVE Base'
  <1>1. /\ kind[m] = "none" /\ kind' = [kind EXCEPT ![m] = k] /\ ekind' = ekind
        /\ config' = config /\ UNCHANGED linkVars /\ UNCHANGED bufVars /\ UNCHANGED ackVars
        /\ UNCHANGED <<queueMu, spoiled>>
    BY DEF EmitDoes
  <1>2. /\ k \in EmitKinds /\ k # "none" /\ (config.retries > 0 => k \in {"ack", "binary"})
    BY DEF EmitDoes
  <1>3. kind \in [Emits -> EmitKinds \cup {"none"}]
    BY DEF Base, KindsOK
  <1>4. kind'[m] = k /\ \A n \in Emits : n # m => kind'[n] = kind[n]
    BY <1>1, <1>3
  <1>5. KindsOK'
    <2>1. kind' \in [Emits -> EmitKinds \cup {"none"}]
      BY <1>1, <1>2, <1>3
    <2> QED BY <1>1, <1>2, <1>4, <2>1 DEF Base, KindsOK
  <1>6. Grows
    <2>1. nextId \in Nat /\ nextId' = nextId
      BY <1>1, LeftAlone DEF ackVars
    <2>2. nextId <= nextId
      BY SMT, <2>1
    <2> QED BY <1>1, <1>4, <2>1, <2>2 DEF Grows
  <1>7. BuffersOK'
    BY <1>1, <1>6, BuffersKeep DEF Base
  <1>8. CASE config.retries > 0
    <2>1. queue' = Append(queue, m) /\ queue' \in Seq(Emits)
      BY <1>8 DEF EmitDoes
    <2>2. \A j \in DOMAIN queue' : kind'[queue'[j]] # "none"
      <3>1. queue \in Seq(Emits) /\ \A j \in DOMAIN queue : kind[queue[j]] # "none"
        BY DEF Base, QueueOK
      <3>2. \A j \in DOMAIN queue' : \/ queue'[j] = m
                                     \/ j \in DOMAIN queue /\ queue'[j] = queue[j]
        BY SMT, <2>1, <3>1
      <3>3. \A j \in DOMAIN queue : queue[j] \in Emits
        BY SMT, <3>1
      <3> QED BY <1>2, <1>4, <3>1, <3>2, <3>3
    <2>3. PICK S : Moves(NoTask, S) /\ Draws(S, queue')
      BY <1>8 DEF EmitDoes
    <2>4. PICK q : q = queue'
      OBVIOUS
    <2>5. q \in Seq(Emits) /\ (\A j \in DOMAIN q : kind'[q[j]] # "none") /\ queue' = q /\ Draws(S, q)
      BY <2>1, <2>2, <2>3, <2>4
    <2>6. QueueOK' /\ HistoryOK' /\ \A u \in S : TaskOK(u)'
      BY <1>1, <2>5, DrawsKeeps
    <2>7. TasksOK'
      BY <1>6, <2>3, <2>6, TasksKeep DEF Base
    <2> QED BY <1>1, <1>5, <1>7, <2>6, <2>7, LeftAlone DEF Base
  <1>9. CASE ~(config.retries > 0)
    <2>1. UNCHANGED <<queue, pending, tries, h>>
      BY <1>9 DEF EmitDoes
    <2>2. PICK u : /\ Moves(NoTask, {u})
                   /\ u \in Tasks /\ u.pc = "send" /\ u.m = m /\ u.id = None /\ u.reply = FALSE
      BY <1>9 DEF EmitDoes
    <2>3. TaskOK(u)'
      <3>1. None < nextId'
        BY SMT, <1>1, EmitAssumption DEF Base, AcksOK, Ids, ackVars, None
      <3> QED BY <1>2, <1>4, <2>2, <3>1 DEF TaskOK, IsEmitted
    <2>4. TasksOK'
      BY <1>6, <2>2, <2>3, TasksKeep DEF Base
    <2>5. UNCHANGED queueVars /\ UNCHANGED h
      BY <1>1, <2>1 DEF queueVars
    <2> QED BY <1>1, <1>5, <1>6, <1>7, <2>4, <2>5, LeftAlone DEF Base
  <1> QED BY <1>8, <1>9

\* The rest of emit: the ID it gives the packet is a new one.
LEMMA SendBase ==
  ASSUME Base, NEW t, SendDoes(t) PROVE Base'
  <1>1. /\ t \in DOMAIN tasks /\ t.pc = "send" /\ LinkOK'
        /\ UNCHANGED <<config, state, breaks, queue, queueMu, pending, tries, kind, ekind>> /\ UNCHANGED bufVars
        /\ spoiled' = spoiled \/ (spoiled' = spoiled \cup {t.m} /\ ~t.reply)
    BY DEF SendDoes
  <1>2. PICK r, S : /\ r \in Tasks /\ r.m = t.m /\ r.reply = t.reply
                    /\ NeedsAck(t) => /\ t.reply = FALSE /\ r.id = nextId /\ nextId \in Ids /\ nextId' = nextId + 1
                                      /\ handler' = [handler EXCEPT ![nextId] = "live"]
                                      /\ acks' = acks \cup {nextId}
                    /\ ~NeedsAck(t) => r = t /\ UNCHANGED ackVars
                    /\ Moves(t, S) /\ (\A u \in S : IsSent(u, t, r))
                    /\ h' = h \/ h' \in Histories
    BY DEF SendDoes, Replied
  <1>3. t \in Tasks /\ TaskOK(t) /\ (~t.reply => t.m \in Emits /\ kind[t.m] # "none")
    BY <1>1, TaskFacts
  <1>4. /\ AcksOK' /\ Grows /\ (~t.reply => r.id < nextId') /\ (NeedsAck(t) => r.id # None)
    <2>1. CASE NeedsAck(t)
      <3>1. /\ nextId \in Ids /\ nextId' = nextId + 1 /\ r.id = nextId
            /\ handler' = [handler EXCEPT ![nextId] = "live"] /\ acks' = acks \cup {nextId}
        BY <1>2, <2>1
      <3>2. AcksOK'
        BY SMT, <3>1, EmitAssumption DEF Base, AcksOK, Ids
      <3>3. nextId \in Nat /\ nextId' \in Nat /\ nextId <= nextId' /\ nextId < nextId' /\ nextId # None
        BY SMT, <3>1, EmitAssumption DEF Ids, None
      <3> QED BY <1>1, <3>1, <3>2, <3>3 DEF Grows
    <2>2. CASE ~NeedsAck(t)
      <3>1. UNCHANGED ackVars /\ r = t
        BY <1>2, <2>2
      <3>2. ~t.reply => r.id < nextId'
        BY <1>1, <3>1, TaskFacts DEF ackVars
      <3> QED BY <1>1, <2>2, <3>1, <3>2, LeftAlone
    <2> QED BY <2>1, <2>2
  <1>5. \A u \in S : TaskOK(u)'
    <2> SUFFICES ASSUME NEW u \in S PROVE TaskOK(u)'
      OBVIOUS
    <2>1. /\ u.m = t.m /\ u.id = r.id /\ u.reply = t.reply /\ u.reply \in BOOLEAN
          /\ \/ u.pc = "sleep" /\ NeedsAck(t)
             \/ u.pc = "buffer"
             \/ u.pc = "onAck" /\ u.reply = FALSE /\ u.id # None
      BY <1>2, TaskForms DEF IsSent
    <2>2. u.pc = "sleep" => u.reply = FALSE /\ u.id # None
      BY <1>2, <1>4, <2>1
    <2>3. ~t.reply => IsEmitted(u)'
      BY <1>1, <1>3, <1>4, <2>1 DEF IsEmitted
    <2>4. t.reply => IsReply(u)'
      <3>1. t.reply => ~NeedsAck(t) /\ IsReply(t)
        BY <1>3 DEF NeedsAck, TaskOK
      <3> QED BY <1>1, <1>2, <2>1, <3>1 DEF IsReply
    <2> QED BY <2>1, <2>2, <2>3, <2>4 DEF TaskOK
  <1>6. TasksOK'
    BY <1>2, <1>4, <1>5, TasksKeep DEF Base
  <1>7. BuffersOK'
    BY <1>1, <1>4, BuffersKeep DEF Base
  <1>8. QueueOK'
    BY <1>1, <1>3 DEF Base, QueueOK
  <1>9. HistoryOK'
    BY <1>2 DEF Base, HistoryOK
  <1>10. KindsOK'
    BY <1>1, LeftAlone
  <1> QED BY <1>1, <1>4, <1>6, <1>7, <1>8, <1>9, <1>10 DEF Base

\* A goroutine appends to a buffer.
LEMMA BufferingBase ==
  ASSUME Base, NEW t, Buffers(t)
  PROVE  /\ TasksOK' /\ LinkOK' /\ AcksOK' /\ QueueOK' /\ KindsOK' /\ HistoryOK' /\ Grows
         /\ sendMu' \in BOOLEAN /\ recvMu' \in BOOLEAN
  <1>1. /\ Moves(t, {}) /\ h' \in Histories
        /\ UNCHANGED <<config, kind, ekind, sendMu, recvMu>>
        /\ UNCHANGED linkVars /\ UNCHANGED ackVars /\ UNCHANGED queueVars
    BY DEF Buffers
  <1>2. Grows
    BY <1>1, LeftAlone
  <1>3. TasksOK'
    BY <1>1, <1>2, TasksEnd DEF Base
  <1>4. HistoryOK'
    BY <1>1 DEF HistoryOK
  <1>5. sendMu' \in BOOLEAN /\ recvMu' \in BOOLEAN
    BY <1>1 DEF Base, BuffersOK
  <1> QED BY <1>1, <1>2, <1>3, <1>4, <1>5, LeftAlone

\* A frame stays what it is when no kind and no ID changes.
LEMMA FramesStay ==
  ASSUME UNCHANGED <<kind, ekind, nextId>>, \A k \in DOMAIN sendBuffer' : FrameOK(sendBuffer'[k])
  PROVE  \A k \in DOMAIN sendBuffer' : FrameOK(sendBuffer[k])'
  BY DEF FrameOK, IsReply, IsEmitted

\* A packet is appended to the send buffer.
LEMMA AppendBase ==
  ASSUME Base, NEW t, AppendDoes(t) PROVE Base'
  <1>1. /\ Buffers(t) /\ t.pc = "buffer" /\ sendBuffer' = sendBuffer \o Frames(t) /\ UNCHANGED receiveBuffer
    BY DEF AppendDoes
  <1>2. t \in DOMAIN tasks /\ UNCHANGED <<kind, ekind, nextId>>
    BY <1>1 DEF Buffers, ackVars
  <1>3. t \in Tasks /\ TaskOK(t)
    BY <1>2, TaskFacts
  <1>4. /\ TasksOK' /\ LinkOK' /\ AcksOK' /\ QueueOK' /\ KindsOK' /\ HistoryOK' /\ Grows
        /\ sendMu' \in BOOLEAN /\ recvMu' \in BOOLEAN
    BY <1>1, BufferingBase
  <1>5. /\ Frames(t) \in Seq(FrameSet)
        /\ \A k \in DOMAIN Frames(t) :
             /\ Frames(t)[k].m = t.m /\ Frames(t)[k].id = t.id /\ Frames(t)[k].reply = t.reply
             /\ Frames(t)[k].part = k
             /\ (k = 2 => ~t.reply /\ kind[t.m] = "binary")
    BY <1>3, FramesForm
  <1>6. \A k \in DOMAIN Frames(t) : FrameOK(Frames(t)[k])
    <2>1. (t.reply => IsReply(t)) /\ (~t.reply => IsEmitted(t))
      BY <1>1, <1>3 DEF TaskOK
    <2> QED BY <1>5, <2>1 DEF FrameOK, IsReply, IsEmitted
  <1>7. sendBuffer \in Seq(FrameSet) /\ \A k \in DOMAIN sendBuffer : FrameOK(sendBuffer[k])
    BY DEF Base, BuffersOK
  <1>8. /\ sendBuffer' \in Seq(FrameSet)
        /\ \A k \in DOMAIN sendBuffer' :
             \/ k \in DOMAIN sendBuffer /\ sendBuffer'[k] = sendBuffer[k]
             \/ \E j \in DOMAIN Frames(t) : sendBuffer'[k] = Frames(t)[j]
    <2>1. PICK b : b = Frames(t)
      OBVIOUS
    <2>2. b \in Seq(FrameSet) /\ sendBuffer' = sendBuffer \o b
      BY <1>1, <1>5, <2>1
    <2>3. /\ sendBuffer' \in Seq(FrameSet)
          /\ \A k \in DOMAIN sendBuffer' :
               \/ k \in DOMAIN sendBuffer /\ sendBuffer'[k] = sendBuffer[k]
               \/ k - Len(sendBuffer) \in DOMAIN b /\ sendBuffer'[k] = b[k - Len(sendBuffer)]
      BY SMT, <1>7, <2>2
    <2> QED BY <2>1, <2>3
  <1>9. \A k \in DOMAIN sendBuffer' : FrameOK(sendBuffer[k])'
    <2>1. \A k \in DOMAIN sendBuffer' : FrameOK(sendBuffer'[k])
      BY <1>6, <1>7, <1>8
    <2> QED BY <1>2, <2>1, FramesStay
  <1>10. BuffersOK'
    BY <1>1, <1>2, <1>4, <1>8, <1>9 DEF Base, BuffersOK
  <1> QED BY <1>4, <1>10 DEF Base

\* An event is appended to the receive buffer.
LEMMA BufferEventBase ==
  ASSUME Base, NEW t, BufferEventDoes(t) PROVE Base'
  <1>1. /\ Buffers(t) /\ t.pc = "bufferEvent" /\ receiveBuffer' = Append(receiveBuffer, t.m)
        /\ UNCHANGED sendBuffer
    BY DEF BufferEventDoes
  <1>2. t \in DOMAIN tasks /\ UNCHANGED <<kind, ekind, nextId>>
    BY <1>1 DEF Buffers, ackVars
  <1>3. t.m \in Events /\ ekind[t.m] # "none"
    BY <1>1, <1>2, TaskFacts DEF TaskOK
  <1>4. /\ TasksOK' /\ LinkOK' /\ AcksOK' /\ QueueOK' /\ KindsOK' /\ HistoryOK' /\ Grows
        /\ sendMu' \in BOOLEAN /\ recvMu' \in BOOLEAN
    BY <1>1, BufferingBase
  <1>5. /\ receiveBuffer' \in Seq(Events)
        /\ \A k \in DOMAIN receiveBuffer' : \/ k \in DOMAIN receiveBuffer /\ receiveBuffer'[k] = receiveBuffer[k]
                                            \/ receiveBuffer'[k] = t.m
    BY SMT, <1>1, <1>3 DEF Base, BuffersOK
  <1>6. \A k \in DOMAIN receiveBuffer' : ekind'[receiveBuffer'[k]] # "none"
    BY <1>2, <1>3, <1>5 DEF Base, BuffersOK
  <1>7. sendBuffer' \in Seq(FrameSet) /\ \A k \in DOMAIN sendBuffer' : FrameOK(sendBuffer[k])'
    <2>1. sendBuffer' \in Seq(FrameSet) /\ \A k \in DOMAIN sendBuffer' : FrameOK(sendBuffer'[k])
      BY <1>1 DEF Base, BuffersOK
    <2> QED BY <1>2, <2>1, FramesStay
  <1>8. BuffersOK'
    BY <1>4, <1>5, <1>6, <1>7 DEF BuffersOK
  <1> QED BY <1>4, <1>8 DEF Base

\* A timeout expires, and its goroutine goes on.
LEMMA ExpireBase ==
  ASSUME Base, NEW t, ExpireDoes(t) PROVE Base'
  <1>1. /\ t \in DOMAIN tasks /\ t.pc = "sleep"
        /\ UNCHANGED <<config, kind, ekind, nextId, acks, h>>
        /\ UNCHANGED linkVars /\ UNCHANGED bufVars /\ UNCHANGED queueVars
    BY DEF ExpireDoes
  <1>2. \/ UNCHANGED handler /\ Moves(t, {})
        \/ /\ handler[t.id] # "called" /\ handler' = [handler EXCEPT ![t.id] = "timedOut"]
           /\ \E u : /\ Moves(t, {u}) /\ u \in Tasks
                     /\ u.pc = "unbuffer" /\ u.m = t.m /\ u.id = t.id /\ u.reply = FALSE
    BY DEF ExpireDoes
  <1>3. t.id \in Ids /\ t.reply = FALSE /\ t.id # None /\ IsEmitted(t) /\ t.id < nextId
    BY <1>1, TaskFacts DEF TaskOK, IsEmitted
  <1>4. Grows
    BY <1>1, LeftAlone
  <1>5. AcksOK'
    <2>1. CASE handler' = handler
      BY <1>1, <2>1 DEF Base, AcksOK
    <2>2. CASE handler' = [handler EXCEPT ![t.id] = "timedOut"]
      <3>1. handler \in [Ids -> {"none", "live", "called", "timedOut"}]
        BY DEF Base, AcksOK
      <3>2. ~(t.id >= nextId)
        BY SMT, <1>3, EmitAssumption DEF Base, AcksOK, Ids
      <3>3. handler[t.id] # "none"
        BY <1>3, <3>2 DEF Base, AcksOK
      <3>4. /\ handler' \in [Ids -> {"none", "live", "called", "timedOut"}]
            /\ handler'[t.id] = "timedOut" /\ \A i \in Ids : i # t.id => handler'[i] = handler[i]
        BY <1>3, <2>2, <3>1
      <3> QED BY <1>1, <1>3, <3>2, <3>3, <3>4 DEF Base, AcksOK
    <2> QED BY <1>2, <2>1, <2>2
  <1>6. TasksOK'
    <2>1. CASE Moves(t, {})
      BY <1>4, <2>1, TasksEnd DEF Base
    <2>2. CASE \E u : /\ Moves(t, {u}) /\ u \in Tasks
                      /\ u.pc = "unbuffer" /\ u.m = t.m /\ u.id = t.id /\ u.reply = FALSE
      <3>1. PICK u : /\ Moves(t, {u}) /\ u \in Tasks
                     /\ u.pc = "unbuffer" /\ u.m = t.m /\ u.id = t.id /\ u.reply = FALSE
        BY <2>2
      <3>2. TaskOK(u)'
        BY <1>1, <1>3, <3>1 DEF TaskOK, IsEmitted
      <3> QED BY <1>4, <3>1, <3>2, TasksKeep DEF Base
    <2> QED BY <1>2, <2>1, <2>2
  <1>7. BuffersOK'
    BY <1>1, <1>4, BuffersKeep DEF Base
  <1> QED BY <1>1, <1>4, <1>5, <1>6, <1>7, LeftAlone DEF Base

\* The call of an ack handler, with the retry queue and the history.
LEMMA QueueMovesKeeps ==
  ASSUME Base, NEW t, NEW failed, QueueMoves(t, failed), UNCHANGED <<kind, ekind>>
  PROVE  QueueOK'
  <1>1. /\ queue \in Seq(Emits) /\ queueMu \in BOOLEAN /\ pending \subseteq Emits /\ spoiled \subseteq Emits
        /\ tries \in [Emits -> Nat] /\ \A k \in DOMAIN queue : kind[queue[k]] # "none"
    BY DEF Base, QueueOK
  <1>2. CASE queue' = queue
    BY <1>1, <1>2 DEF QueueMoves, queueVars, QueueOK
  <1>3. CASE queue # <<>> /\ queue' = Tail(queue) /\ pending' = pending \ {t.m} /\ UNCHANGED <<queueMu, tries, spoiled>>
    <2>1. queue' \in Seq(Emits) /\ \A k \in DOMAIN queue' : k + 1 \in DOMAIN queue /\ queue'[k] = queue[k + 1]
      BY SMT, <1>1, <1>3
    <2> QED BY <1>1, <1>3, <2>1 DEF QueueOK
  <1> QED BY <1>2, <1>3 DEF QueueMoves, queueVars

\* The goroutines that drain the queue need no packet.
LEMMA DrainsKeeps ==
  ASSUME Base, Grows, NEW t, NEW S, Moves(t, S), Drains(S) PROVE TasksOK'
  <1>1. \A u \in S : TaskOK(u)'
    BY DEF Drains, TaskOK
  <1> QED BY <1>1, TasksKeep DEF Base

\* The rest of the timeout: the buffer keeps frames that it had.
LEMMA TimeOutBase ==
  ASSUME Base, NEW t, TimeOutDoes(t) PROVE Base'
  <1>1. /\ acks' = acks \ {t.id} /\ sendBuffer' \in Seq(FrameSet) /\ Subbuffer(sendBuffer', sendBuffer)
        /\ sendMu' \in BOOLEAN /\ UNCHANGED linkVars
        /\ UNCHANGED <<config, receiveBuffer, recvMu, nextId, handler, kind, ekind>>
    BY DEF TimeOutDoes
  <1>2. PICK S : /\ Moves(t, S) /\ Drains(S)
                 /\ \/ sendMu' /\ UNCHANGED queueVars /\ UNCHANGED h
                    \/ ~sendMu' /\ HandlerCalled(t, TRUE)
    BY DEF TimeOutDoes
  <1>3. Grows
    BY <1>1, LeftAlone
  <1>4. AcksOK'
    BY <1>1 DEF Base, AcksOK
  <1>5. TasksOK'
    BY <1>2, <1>3, DrainsKeeps
  <1>6. QueueOK' /\ HistoryOK'
    BY <1>1, <1>2, <1>3, LeftAlone, QueueMovesKeeps DEF HandlerCalled, HistoryOK
  <1>7. \A k \in DOMAIN sendBuffer' : FrameOK(sendBuffer[k])'
    <2>1. PICK f \in [DOMAIN sendBuffer' -> DOMAIN sendBuffer] :
            \A k \in DOMAIN sendBuffer' : sendBuffer'[k] = sendBuffer[f[k]]
      BY <1>1 DEF Subbuffer
    <2>2. \A k \in DOMAIN sendBuffer : FrameOK(sendBuffer[k])
      BY DEF Base, BuffersOK
    <2>3. \A k \in DOMAIN sendBuffer' : FrameOK(sendBuffer'[k])
      <3> SUFFICES ASSUME NEW k \in DOMAIN sendBuffer' PROVE FrameOK(sendBuffer'[k])
        OBVIOUS
      <3>1. f[k] \in DOMAIN sendBuffer /\ sendBuffer'[k] = sendBuffer[f[k]]
        BY <2>1
      <3> QED BY <2>2, <3>1
    <2> QED BY <1>1, <2>3, FramesStay
  <1>8. BuffersOK'
    BY <1>1, <1>7 DEF Base, BuffersOK
  <1> QED BY <1>1, <1>4, <1>5, <1>6, <1>8, LeftAlone DEF Base

\* An ACK.
LEMMA OnAckBase ==
  ASSUME Base, NEW t, OnAckDoes(t) PROVE Base'
  <1>1. /\ t \in DOMAIN tasks /\ t.pc = "onAck" /\ t.id \in Ids /\ acks' = acks \ {t.id}
        /\ UNCHANGED linkVars /\ UNCHANGED bufVars /\ UNCHANGED <<config, nextId, kind, ekind>>
    BY DEF OnAckDoes
  <1>2. PICK S : /\ Moves(t, S) /\ Drains(S)
                 /\ \/ UNCHANGED handler /\ UNCHANGED queueVars /\ UNCHANGED h
                    \/ /\ handler' = [handler EXCEPT ![t.id] = "called"] /\ HandlerCalled(t, FALSE)
    BY DEF OnAckDoes
  <1>3. Grows
    BY <1>1, LeftAlone
  <1>4. AcksOK'
    <2>1. CASE handler' = handler
      BY <1>1, <2>1 DEF Base, AcksOK
    <2>2. CASE handler' = [handler EXCEPT ![t.id] = "called"]
      <3>1. handler \in [Ids -> {"none", "live", "called", "timedOut"}]
        BY DEF Base, AcksOK
      <3>2. t.id < nextId
        BY <1>1, TaskFacts
      <3>3. ~(t.id >= nextId)
        BY SMT, <1>1, <3>2, EmitAssumption DEF Base, AcksOK, Ids
      <3>4. handler[t.id] # "none"
        BY <1>1, <3>3 DEF Base, AcksOK
      <3>5. /\ handler' \in [Ids -> {"none", "live", "called", "timedOut"}]
            /\ handler'[t.id] = "called" /\ \A i \in Ids : i # t.id => handler'[i] = handler[i]
        BY <1>1, <2>2, <3>1
      <3> QED BY <1>1, <3>3, <3>4, <3>5 DEF Base, AcksOK
    <2> QED BY <1>2, <2>1, <2>2
  <1>5. TasksOK'
    BY <1>2, <1>3, DrainsKeeps
  <1>6. QueueOK' /\ HistoryOK'
    BY <1>1, <1>2, <1>3, LeftAlone, QueueMovesKeeps DEF HandlerCalled, HistoryOK
  <1>7. BuffersOK'
    BY <1>1, <1>3, BuffersKeep DEF Base
  <1> QED BY <1>1, <1>4, <1>5, <1>6, <1>7, LeftAlone DEF Base

\* The link and CONNECT.
LEMMA ConnBase ==
  ASSUME Base, ConnDoes PROVE Base'
  <1>1. /\ UNCHANGED <<config, kind, ekind, h>> /\ UNCHANGED bufVars /\ UNCHANGED ackVars /\ UNCHANGED queueVars
        /\ LinkOK'
    BY DEF ConnDoes
  <1>2. PICK w, S : /\ Moves(w, S)
                    /\ \A u \in S : u \in Tasks /\ u.pc \in {"sendConnect", "onConnect", "flush"} /\ u.reply = FALSE
    BY DEF ConnDoes
  <1>3. Grows
    BY <1>1, LeftAlone
  <1>4. \A u \in S : TaskOK(u)'
    BY <1>2 DEF TaskOK
  <1>5. TasksOK'
    BY <1>2, <1>3, <1>4, TasksKeep DEF Base
  <1>6. BuffersOK'
    BY <1>1, <1>3, BuffersKeep DEF Base
  <1> QED BY <1>1, <1>3, <1>5, <1>6, LeftAlone DEF Base

\* An event of the server.
LEMMA ServerEmitBase ==
  ASSUME Base, NEW e \in Events, NEW k \in EventKinds, config.retries = 0, ServerEmitDoes(e, k) PROVE Base'
  <1>1. /\ ekind[e] = "none" /\ ekind' = [ekind EXCEPT ![e] = k]
        /\ UNCHANGED <<config, kind, h>> /\ UNCHANGED linkVars /\ UNCHANGED bufVars /\ UNCHANGED ackVars
        /\ UNCHANGED queueVars
    BY DEF ServerEmitDoes
  <1>2. PICK u : /\ Moves(NoTask, {u}) /\ u \in Tasks /\ u.pc = "onEvent" /\ u.m = e /\ u.id = e /\ u.reply = FALSE
    BY DEF ServerEmitDoes
  <1>3. ekind \in [Events -> EventKinds \cup {"none"}]
    BY DEF Base, KindsOK
  <1>4. /\ ekind' \in [Events -> EventKinds \cup {"none"}]
        /\ ekind'[e] = k /\ (\A d \in Events : d # e => ekind'[d] = ekind[d])
    BY <1>1, <1>3
  <1>5. k # "none"
    BY DEF EventKinds
  <1>6. Grows
    <2>1. nextId \in Nat /\ nextId' = nextId
      BY <1>1, LeftAlone DEF ackVars
    <2>2. nextId <= nextId
      BY SMT, <2>1
    <2> QED BY <1>1, <1>4, <2>1, <2>2 DEF Grows
  <1>7. KindsOK'
    <2>1. ~(config.retries > 0)
      BY SMT
    <2> QED BY <1>1, <1>4, <2>1 DEF Base, KindsOK
  <1>8. TaskOK(u)'
    BY <1>2, <1>4, <1>5 DEF TaskOK
  <1>9. TasksOK'
    BY <1>2, <1>6, <1>8, TasksKeep DEF Base
  <1>10. BuffersOK'
    BY <1>1, <1>6, BuffersKeep DEF Base
  <1> QED BY <1>1, <1>6, <1>7, <1>9, <1>10, LeftAlone DEF Base

\* An event reaches its handler or waits for the connection.
LEMMA OnEventBase ==
  ASSUME Base, NEW t, OnEventDoes(t) PROVE Base'
  <1>1. /\ t.m \in Events /\ t.id = t.m /\ ekind[t.m] # "none" /\ UNCHANGED <<config, kind, ekind>>
        /\ UNCHANGED linkVars /\ UNCHANGED bufVars /\ UNCHANGED ackVars /\ UNCHANGED queueVars
    BY DEF OnEventDoes
  <1>2. PICK S : /\ Moves(t, S) /\ (UNCHANGED h \/ h' \in Histories)
                 /\ \A u \in S : \/ IsReplyTo(u, t)
                                 \/ /\ u.pc = "bufferEvent" /\ u.m = t.m /\ u.id = t.id /\ u.reply = FALSE
    <2>1. PICK S : /\ Moves(t, S)
            /\ \/ h' \in Histories /\ \A u \in S : IsReplyTo(u, t)
               \/ UNCHANGED h /\ \A u \in S : u.pc = "bufferEvent" /\ u.m = t.m /\ u.id = t.id /\ u.reply = FALSE
      BY DEF OnEventDoes
    <2> QED BY <2>1
  <1>3. Grows
    BY <1>1, LeftAlone
  <1>4. \A u \in S : TaskOK(u)'
    <2> SUFFICES ASSUME NEW u \in S PROVE TaskOK(u)'
      OBVIOUS
    <2>1. CASE IsReplyTo(u, t)
      BY <1>1, <2>1 DEF IsReplyTo, TaskOK, IsReply, Acking
    <2>2. CASE u.pc = "bufferEvent" /\ u.m = t.m /\ u.id = t.id /\ u.reply = FALSE
      BY <1>1, <2>2 DEF TaskOK
    <2> QED BY <1>2, <2>1, <2>2
  <1>5. TasksOK'
    BY <1>2, <1>3, <1>4, TasksKeep DEF Base
  <1>6. BuffersOK'
    BY <1>1, <1>3, BuffersKeep DEF Base
  <1>7. HistoryOK'
    BY <1>2 DEF Base, HistoryOK
  <1> QED BY <1>1, <1>3, <1>5, <1>6, <1>7, LeftAlone DEF Base

\* The flush: what it leaves in the buffers, and the goroutines of the ACKs.
LEMMA EmitBufferedBase ==
  ASSUME Base, NEW t, EmitBufferedDoes(t) PROVE Base'
  <1>1. /\ UNCHANGED <<config, state, breaks, sendMu, kind, ekind>> /\ UNCHANGED ackVars /\ UNCHANGED queueVars
        /\ LinkOK' /\ FlushAnswers
    BY DEF EmitBufferedDoes
  <1>2. PICK S, sent, aborts : /\ sent \in Seq(FrameSet) /\ aborts \in BOOLEAN
                               /\ Moves(t, S) /\ FlushTasks(S, sent)
                               /\ FlushCounts(sent, aborts) /\ FlushBuffers(sent, aborts)
    BY DEF EmitBufferedDoes
  <1>3. Grows
    BY <1>1, LeftAlone
  <1>4. /\ sendBuffer \in Seq(FrameSet) /\ FlushReplies \in Seq(FrameSet)
        /\ \A k \in DOMAIN sendBuffer : FrameOK(sendBuffer[k])
        /\ \A k \in DOMAIN FlushReplies : FrameOK(FlushReplies[k])
    BY <1>1 DEF Base, BuffersOK, FlushAnswers
  <1>5. \A s1, s2 \in Seq(FrameSet) :
          /\ s1 \o s2 \in Seq(FrameSet)
          /\ \A k \in DOMAIN (s1 \o s2) : \/ k \in DOMAIN s1 /\ (s1 \o s2)[k] = s1[k]
                                          \/ k - Len(s1) \in DOMAIN s2 /\ (s1 \o s2)[k] = s2[k - Len(s1)]
    BY SMT
  <1>6. \A s1, s2 \in Seq(FrameSet) :
          (\A k \in DOMAIN s1 : FrameOK(s1[k])) /\ (\A k \in DOMAIN s2 : FrameOK(s2[k])) =>
            s1 \o s2 \in Seq(FrameSet) /\ \A k \in DOMAIN (s1 \o s2) : FrameOK((s1 \o s2)[k])
    BY <1>5
  <1>7. << >> \in Seq(FrameSet) /\ \A k \in DOMAIN << >> : FALSE
    BY SMT
  <1>8. \A k \in DOMAIN sent : FrameOK(sent[k])
    <2>1. \/ sent = <<>> \/ sent = FlushReplies
          \/ sent = FlushReplies \o sendBuffer \/ sent = sendBuffer \o FlushReplies
      BY <1>2 DEF FlushBuffers
    <2> QED BY <1>4, <1>6, <1>7, <2>1
  <1>9. sendBuffer' \in Seq(FrameSet) /\ \A k \in DOMAIN sendBuffer' : FrameOK(sendBuffer'[k])
    <2>1. \/ sendBuffer' = <<>> \/ sendBuffer' = sendBuffer \/ sendBuffer' = sendBuffer \o FlushReplies
      BY <1>2 DEF FlushBuffers
    <2> QED BY <1>4, <1>6, <1>7, <2>1
  <1>10. \A k \in DOMAIN sendBuffer' : FrameOK(sendBuffer[k])'
    BY <1>1, <1>9, FramesStay DEF ackVars
  <1>11. receiveBuffer' \in Seq(Events) /\ \A k \in DOMAIN receiveBuffer' : ekind'[receiveBuffer'[k]] # "none"
    <2>1. receiveBuffer' = <<>> \/ receiveBuffer' = receiveBuffer
      BY <1>2 DEF FlushBuffers
    <2>2. << >> \in Seq(Events)
      BY SMT
    <2> QED BY <1>1, <1>7, <2>1, <2>2 DEF Base, BuffersOK
  <1>12. BuffersOK'
    <2>1. recvMu' \in BOOLEAN /\ sendMu' \in BOOLEAN
      BY <1>1, <1>2 DEF FlushBuffers, Base, BuffersOK
    <2> QED BY <1>9, <1>10, <1>11, <2>1 DEF BuffersOK
  <1>13. \A u \in S : TaskOK(u)'
    <2> SUFFICES ASSUME NEW u \in S PROVE TaskOK(u)'
      OBVIOUS
    <2>1. u.reply = FALSE /\ (u.pc = "drainForced" \/ IsAckOf(u, sent))
      BY <1>2 DEF FlushTasks
    <2>2. CASE u.pc = "drainForced"
      BY <2>1, <2>2 DEF TaskOK
    <2>3. CASE IsAckOf(u, sent)
      <3>1. PICK k \in DOMAIN sent : ~sent[k].reply /\ u.m = sent[k].m /\ u.id = sent[k].id
        BY <2>3 DEF IsAckOf
      <3>2. IsEmitted(sent[k])
        BY <1>8, <3>1 DEF FrameOK
      <3>3. IsEmitted(u)'
        BY <1>1, <3>1, <3>2 DEF IsEmitted, ackVars
      <3> QED BY <2>1, <2>3, <3>3 DEF TaskOK, IsAckOf
    <2> QED BY <2>1, <2>2, <2>3
  <1>14. TasksOK'
    BY <1>2, <1>3, <1>13, TasksKeep DEF Base
  <1>15. HistoryOK'
    BY <1>2 DEF FlushCounts, HistoryOK
  <1> QED BY <1>1, <1>3, <1>12, <1>14, <1>15, LeftAlone DEF Base

-----------------------------------------------------------------------------
(* The calls of ack handlers.                                              *)

\* Calls, when a step leaves the goroutines of timeouts alone.
LEMMA CallsSame ==
  ASSUME Calls, NEW t, NEW S, Moves(t, S), t.pc \notin {"sleep", "unbuffer"},
         \A u \in S : u.pc \notin {"sleep", "unbuffer"}, UNCHANGED <<acks, handler>>, h'.calls = h.calls
  PROVE  Calls'
  <1>1. \A u \in Timing' : u \in Timing /\ tasks'[u] = tasks[u]
    <2> SUFFICES ASSUME NEW u \in Timing' PROVE u \in Timing /\ tasks'[u] = tasks[u]
      OBVIOUS
    <2>1. u \in DOMAIN tasks' /\ u.pc \in {"sleep", "unbuffer"}
      BY DEF Timing
    <2>2. u \notin S /\ u # t
      BY <2>1
    <2> QED BY <2>1, <2>2 DEF Moves, Timing
  <1> QED BY <1>1 DEF Calls

\* Calls, when a goroutine of a timeout ends.
LEMMA CallsEnd ==
  ASSUME Base, Calls, NEW t \in Timing, NEW S, Moves(t, S), \A u \in S : u.pc \notin {"sleep", "unbuffer"}
  PROVE  \A u \in Timing' : u \in Timing /\ u.id # t.id /\ tasks'[u] = tasks[u]
  <1> SUFFICES ASSUME NEW u \in Timing' PROVE u \in Timing /\ u.id # t.id /\ tasks'[u] = tasks[u]
    OBVIOUS
  <1>1. u \in DOMAIN tasks' /\ u.pc \in {"sleep", "unbuffer"} /\ u \notin S
    BY DEF Timing
  <1>2. u \in DOMAIN tasks /\ u \in Timing
    BY <1>1 DEF Moves, Timing
  <1>3. tasks[t] = 1 /\ t \in DOMAIN tasks /\ t \notin S
    BY DEF Calls, Timing
  <1>4. u # t
    BY <1>1, <1>3 DEF Moves
  <1>5. tasks'[u] = tasks[u]
    BY <1>1, <1>4 DEF Moves
  <1> QED BY <1>2, <1>4, <1>5 DEF Calls

\* A handler is registered.
LEMMA SendCalls ==
  ASSUME Base, Calls, NEW t, SendDoes(t) PROVE Calls'
  <1>2. t \in DOMAIN tasks /\ t.pc = "send"
    BY DEF SendDoes
  <1>3. PICK r, S : /\ Moves(t, S) /\ (\A u \in S : IsSent(u, t, r)) /\ h'.calls = h.calls
                    /\ NeedsAck(t) => /\ r.id = nextId /\ nextId \in Ids /\ t.reply = FALSE
                                      /\ handler' = [handler EXCEPT ![nextId] = "live"] /\ acks' = acks \cup {nextId}
                    /\ ~NeedsAck(t) => UNCHANGED ackVars
    BY DEF SendDoes, Replied
  <1>5. /\ NeedsAck(t) => /\ r.id = nextId /\ nextId \in Ids /\ t.reply = FALSE
                          /\ handler' = [handler EXCEPT ![nextId] = "live"] /\ acks' = acks \cup {nextId}
        /\ ~NeedsAck(t) => UNCHANGED ackVars
    BY <1>3
  <1>6. h'.calls = h.calls
    BY <1>3
  <1>7. CASE ~NeedsAck(t)
    <2>1. \A u \in S : u.pc \notin {"sleep", "unbuffer"}
      BY <1>3, <1>7 DEF IsSent
    <2> QED BY <1>2, <1>3, <1>5, <1>6, <1>7, <2>1, CallsSame DEF ackVars
  <1>8. CASE NeedsAck(t)
    <2>1. \A u \in Timing : u.id \in Ids /\ u.id < nextId /\ u.id # nextId
      <3> SUFFICES ASSUME NEW u \in Timing PROVE u.id \in Ids /\ u.id < nextId /\ u.id # nextId
        OBVIOUS
      <3>1. u \in DOMAIN tasks /\ u.pc \in {"sleep", "unbuffer"}
        BY DEF Timing
      <3>2. u.id \in Ids /\ u.id < nextId /\ nextId \in Ids
        BY <1>5, <1>8, <3>1, TaskFacts
      <3>3. u.id # nextId
        BY SMT, <3>2, EmitAssumption DEF Ids
      <3> QED BY <3>2, <3>3
    <2>2. /\ handler \in [Ids -> {"none", "live", "called", "timedOut"}]
          /\ handler[nextId] = "none"
      <3>1. nextId \in Ids /\ nextId >= nextId
        BY SMT, <1>5, <1>8, EmitAssumption DEF Ids
      <3> QED BY <3>1 DEF Base, AcksOK
    <2>3. /\ handler'[nextId] = "live" /\ \A i \in Ids : i # nextId => handler'[i] = handler[i]
      BY <1>5, <1>8, <2>2
    <2>4. \A u \in S : u.pc \in {"sleep", "unbuffer"} => /\ u.pc = "sleep" /\ u.id = nextId
                                                          /\ u \notin DOMAIN tasks
      <3> SUFFICES ASSUME NEW u \in S, u.pc \in {"sleep", "unbuffer"}
                   PROVE  u.pc = "sleep" /\ u.id = nextId /\ u \notin DOMAIN tasks
        OBVIOUS
      <3>1. u.pc = "sleep" /\ u.id = nextId
        BY <1>3, <1>5, <1>8 DEF IsSent
      <3> QED BY <2>1, <3>1 DEF Timing
    <2>5. \A u, v \in S : u.pc = "sleep" /\ v.pc = "sleep" => u = v
      <3>1. \A u, v \in S : /\ u \in Tasks /\ v \in Tasks /\ u.m = v.m /\ u.id = v.id /\ u.reply = FALSE /\ v.reply = FALSE
        BY <1>3, <1>5, <1>8 DEF IsSent
      <3> SUFFICES ASSUME NEW u \in S, NEW v \in S, u.pc = "sleep", v.pc = "sleep" PROVE u = v
        OBVIOUS
      <3>2. u \in Tasks /\ v \in Tasks /\ u.m = v.m /\ u.id = v.id /\ u.reply = FALSE /\ v.reply = FALSE
        BY <3>1
      <3> QED BY SMT, <3>2 DEF Tasks
    <2>6. ASSUME NEW u \in Timing'
          PROVE  \/ u \in Timing /\ tasks'[u] = tasks[u]
                 \/ u \in S /\ u.pc = "sleep" /\ u.id = nextId /\ tasks'[u] = 1
      <3>1. u \in DOMAIN tasks' /\ u.pc \in {"sleep", "unbuffer"}
        BY DEF Timing
      <3>2. CASE u \in S
        BY <1>3, <2>4, <3>1, <3>2 DEF Moves
      <3>3. CASE u \notin S
        BY <1>2, <1>3, <3>1, <3>3 DEF Moves, Timing
      <3> QED BY <3>2, <3>3
    <2>7. \A u \in Timing' : tasks'[u] = 1 /\ \A v \in Timing' : v.id = u.id => v = u
      <3> SUFFICES ASSUME NEW u \in Timing' PROVE tasks'[u] = 1 /\ \A v \in Timing' : v.id = u.id => v = u
        OBVIOUS
      <3>1. CASE u \in Timing /\ tasks'[u] = tasks[u]
        BY <2>1, <2>6, <3>1 DEF Calls
      <3>2. CASE u \in S /\ u.pc = "sleep" /\ u.id = nextId /\ tasks'[u] = 1
        BY <2>1, <2>5, <2>6, <3>2
      <3> QED BY <2>6, <3>1, <3>2
    <2>8. \A u \in Timing' : IF u.pc = "sleep" THEN handler'[u.id] \in {"live", "called"}
                             ELSE handler'[u.id] = "timedOut" /\ h'.calls[u.id] = 0
      <3> SUFFICES ASSUME NEW u \in Timing'
                   PROVE  IF u.pc = "sleep" THEN handler'[u.id] \in {"live", "called"}
                          ELSE handler'[u.id] = "timedOut" /\ h'.calls[u.id] = 0
        OBVIOUS
      <3>1. CASE u \in Timing
        <4>1. handler'[u.id] = handler[u.id]
          BY <2>1, <2>3, <3>1
        <4> QED BY <1>6, <3>1, <4>1 DEF Calls
      <3>2. CASE u \in S /\ u.pc = "sleep" /\ u.id = nextId
        BY <2>3, <3>2
      <3> QED BY <2>6, <3>1, <3>2
    <2>9. \A i \in Ids : /\ handler'[i] = "called" => i \notin acks'
                         /\ handler'[i] \in {"none", "live"} => h'.calls[i] = 0
                         /\ h'.calls[i] <= 1
      <3> SUFFICES ASSUME NEW i \in Ids
                   PROVE  /\ handler'[i] = "called" => i \notin acks'
                          /\ handler'[i] \in {"none", "live"} => h'.calls[i] = 0
                          /\ h'.calls[i] <= 1
        OBVIOUS
      <3>1. CASE i = nextId
        BY <1>6, <2>2, <2>3, <3>1 DEF Calls
      <3>2. CASE i # nextId
        BY <1>5, <1>6, <1>8, <2>3, <3>2 DEF Calls
      <3> QED BY <3>1, <3>2
    <2> QED BY <2>7, <2>8, <2>9 DEF Calls
  <1> QED BY <1>7, <1>8

\* A timeout expires.
LEMMA ExpireCalls ==
  ASSUME Base, Calls, NEW t, ExpireDoes(t) PROVE Calls'
  <1>1. /\ t \in DOMAIN tasks /\ t.pc = "sleep" /\ UNCHANGED <<acks, h>>
        /\ \/ UNCHANGED handler /\ Moves(t, {})
           \/ /\ handler[t.id] # "called" /\ handler' = [handler EXCEPT ![t.id] = "timedOut"]
              /\ \E u : Moves(t, {u}) /\ u \in Tasks /\ u.pc = "unbuffer" /\ u.id = t.id
    BY DEF ExpireDoes
  <1>2. t.id \in Ids /\ t \in Timing
    BY <1>1, TaskFacts DEF Timing
  <1>4. /\ handler[t.id] \in {"live", "called"} /\ tasks[t] = 1
        /\ handler \in [Ids -> {"none", "live", "called", "timedOut"}]
    BY <1>1, <1>2 DEF Calls, Base, AcksOK
  <1>5. CASE UNCHANGED handler /\ Moves(t, {})
    <2>1. PICK S : S = {}
      OBVIOUS
    <2>2. Moves(t, S)
      BY <1>5, <2>1
    <2>4. \A v \in S : v.pc \notin {"sleep", "unbuffer"}
      BY <2>1
    <2>3. \A v \in Timing' : v \in Timing /\ tasks'[v] = tasks[v]
      BY <1>2, <2>2, <2>4, CallsEnd
    <2> QED BY <1>1, <1>5, <2>3 DEF Calls
  <1>6. CASE /\ handler[t.id] # "called" /\ handler' = [handler EXCEPT ![t.id] = "timedOut"]
             /\ \E u : Moves(t, {u}) /\ u \in Tasks /\ u.pc = "unbuffer" /\ u.id = t.id
    <2>1. PICK u : Moves(t, {u}) /\ u \in Tasks /\ u.pc = "unbuffer" /\ u.id = t.id
      BY <1>6
    <2>2. handler'[t.id] = "timedOut" /\ \A i \in Ids : i # t.id => handler'[i] = handler[i]
      BY <1>2, <1>4, <1>6
    <2>3. t # u
      BY <1>1, <2>1
    <2>4. u \notin DOMAIN tasks
      BY <1>2, <2>1, <2>3 DEF Calls, Timing
    <2>5. ASSUME NEW v \in Timing' PROVE \/ v \in Timing /\ v.id # t.id /\ tasks'[v] = tasks[v]
                                         \/ v = u /\ tasks'[v] = 1
      <3>1. v \in DOMAIN tasks' /\ v.pc \in {"sleep", "unbuffer"}
        BY DEF Timing
      <3>2. CASE v = u
        BY <2>1, <2>4, <3>1, <3>2 DEF Moves
      <3>3. CASE v # u
        <4>1. v \in Timing /\ v # t
          BY <1>1, <1>4, <2>1, <2>3, <3>1, <3>3 DEF Moves, Timing
        <4>2. tasks'[v] = tasks[v]
          BY <2>1, <3>1, <3>3, <4>1 DEF Moves
        <4> QED BY <1>2, <4>1, <4>2 DEF Calls
      <3> QED BY <3>2, <3>3
    <2>6. \A v \in Timing' : tasks'[v] = 1 /\ \A w \in Timing' : w.id = v.id => w = v
      <3> SUFFICES ASSUME NEW v \in Timing' PROVE tasks'[v] = 1 /\ \A w \in Timing' : w.id = v.id => w = v
        OBVIOUS
      <3>1. CASE v = u
        BY <2>1, <2>5, <3>1
      <3>2. CASE v # u
        <4>1. v \in Timing /\ v.id # t.id /\ tasks'[v] = tasks[v]
          BY <2>5, <3>2
        <4> QED BY <2>1, <2>5, <4>1 DEF Calls
      <3> QED BY <3>1, <3>2
    <2>7. \A v \in Timing : v.id \in Ids
      BY TaskFacts DEF Timing
    <2>8. h.calls[t.id] = 0
      BY <1>2, <1>4, <1>6 DEF Calls
    <2>9. \A v \in Timing' : IF v.pc = "sleep" THEN handler'[v.id] \in {"live", "called"}
                             ELSE handler'[v.id] = "timedOut" /\ h'.calls[v.id] = 0
      <3> SUFFICES ASSUME NEW v \in Timing'
                   PROVE  IF v.pc = "sleep" THEN handler'[v.id] \in {"live", "called"}
                          ELSE handler'[v.id] = "timedOut" /\ h'.calls[v.id] = 0
        OBVIOUS
      <3>1. CASE v = u
        BY <1>1, <2>1, <2>2, <2>8, <3>1
      <3>2. CASE v \in Timing /\ v.id # t.id
        <4>1. handler'[v.id] = handler[v.id]
          BY <2>2, <2>7, <3>2
        <4> QED BY <1>1, <3>2, <4>1 DEF Calls
      <3> QED BY <2>5, <3>1, <3>2
    <2>10. \A i \in Ids : /\ handler'[i] = "called" => i \notin acks'
                          /\ handler'[i] \in {"none", "live"} => h'.calls[i] = 0
                          /\ h'.calls[i] <= 1
      BY <1>1, <2>2 DEF Calls
    <2> QED BY <2>6, <2>9, <2>10 DEF Calls
  <1> QED BY <1>1, <1>5, <1>6

\* The handler of a timeout is called.
LEMMA TimeOutCalls ==
  ASSUME Base, Calls, NEW t, TimeOutDoes(t) PROVE Calls'
  <1>1. /\ t \in DOMAIN tasks /\ t.pc = "unbuffer" /\ t.id \in Ids /\ acks' = acks \ {t.id} /\ UNCHANGED handler
    BY DEF TimeOutDoes
  <1>2. PICK S : Moves(t, S) /\ Drains(S)
    BY DEF TimeOutDoes
  <1>3. h'.calls = h.calls \/ h'.calls = [h.calls EXCEPT ![t.id] = h.calls[t.id] + 1]
    BY DEF TimeOutDoes, HandlerCalled
  <1>4. t \in Timing
    BY <1>1 DEF Timing
  <1>5. \A u \in Timing' : u \in Timing /\ u.id # t.id /\ tasks'[u] = tasks[u]
    BY <1>2, <1>4, CallsEnd DEF Drains
  <1>6. handler[t.id] = "timedOut" /\ h.calls[t.id] = 0 /\ h.calls \in [Ids -> Nat]
    <2>1. h.calls \in [Ids -> Nat]
      BY SMT DEF Base, HistoryOK, Histories
    <2>2. handler[t.id] = "timedOut" /\ h.calls[t.id] = 0
      BY <1>1, <1>4 DEF Calls
    <2> QED BY <2>1, <2>2
  <1>7. \A u \in Timing : u.id \in Ids
    BY TaskFacts DEF Timing
  <1>8. h'.calls[t.id] <= 1 /\ \A i \in Ids : i # t.id => h'.calls[i] = h.calls[i]
    BY SMT, <1>1, <1>3, <1>6
  <1>9. ASSUME NEW i \in Ids
        PROVE  /\ handler'[i] = "called" => i \notin acks'
               /\ handler'[i] \in {"none", "live"} => h'.calls[i] = 0
               /\ h'.calls[i] <= 1
    <2>1. CASE i = t.id
      BY <1>1, <1>6, <1>8, <2>1
    <2>2. CASE i # t.id
      BY <1>1, <1>8, <2>2 DEF Calls
    <2> QED BY <2>1, <2>2
  <1>10. \A u \in Timing' : h'.calls[u.id] = h.calls[u.id]
    <2> SUFFICES ASSUME NEW u \in Timing' PROVE h'.calls[u.id] = h.calls[u.id]
      OBVIOUS
    <2> QED BY <1>5, <1>7, <1>8
  <1> QED BY <1>1, <1>5, <1>9, <1>10 DEF Calls

\* The handler of an ACK is called.
LEMMA OnAckCalls ==
  ASSUME Base, Calls, NEW t, OnAckDoes(t) PROVE Calls'
  <1>1. /\ t \in DOMAIN tasks /\ t.pc = "onAck" /\ t.id \in Ids /\ acks' = acks \ {t.id}
    BY DEF OnAckDoes
  <1>2. PICK S : /\ Moves(t, S) /\ Drains(S)
                 /\ \/ UNCHANGED handler /\ UNCHANGED h
                    \/ /\ t.id \in acks /\ handler[t.id] # "timedOut"
                       /\ handler' = [handler EXCEPT ![t.id] = "called"]
                       /\ h'.calls = [h.calls EXCEPT ![t.id] = h.calls[t.id] + 1]
    BY DEF OnAckDoes, HandlerCalled
  <1>3. /\ h.calls \in [Ids -> Nat]
        /\ handler \in [Ids -> {"none", "live", "called", "timedOut"}]
    <2>1. h.calls \in [Ids -> Nat]
      BY SMT DEF Base, HistoryOK, Histories
    <2> QED BY <2>1 DEF Base, AcksOK
  <1>4. \A u \in Timing' : u \in Timing /\ tasks'[u] = tasks[u]
    <2> SUFFICES ASSUME NEW u \in Timing' PROVE u \in Timing /\ tasks'[u] = tasks[u]
      OBVIOUS
    <2>1. u \in DOMAIN tasks' /\ u.pc \in {"sleep", "unbuffer"}
      BY DEF Timing
    <2>2. u \notin S /\ u # t
      BY <1>1, <1>2, <2>1 DEF Drains
    <2> QED BY <1>2, <2>1, <2>2 DEF Moves, Timing
  <1>5. CASE UNCHANGED handler /\ UNCHANGED h
    <2>1. \A i \in Ids : handler'[i] = "called" => i \notin acks'
      BY <1>1, <1>5 DEF Calls
    <2> QED BY <1>4, <1>5, <2>1 DEF Calls
  <1>6. CASE /\ t.id \in acks /\ handler[t.id] # "timedOut"
             /\ handler' = [handler EXCEPT ![t.id] = "called"]
             /\ h'.calls = [h.calls EXCEPT ![t.id] = h.calls[t.id] + 1]
    <2>1. handler[t.id] \in {"none", "live"} /\ h.calls[t.id] = 0
      BY <1>1, <1>3, <1>6 DEF Calls
    <2>2. /\ handler'[t.id] = "called" /\ \A i \in Ids : i # t.id => handler'[i] = handler[i]
      BY <1>1, <1>3, <1>6
    <2>3. h'.calls[t.id] <= 1 /\ \A i \in Ids : i # t.id => h'.calls[i] = h.calls[i]
      BY SMT, <1>1, <1>3, <1>6, <2>1
    <2>4. \A u \in Timing : u.id \in Ids
      BY TaskFacts DEF Timing
    <2>5. \A u \in Timing' : IF u.pc = "sleep" THEN handler'[u.id] \in {"live", "called"}
                             ELSE handler'[u.id] = "timedOut" /\ h'.calls[u.id] = 0
      <3> SUFFICES ASSUME NEW u \in Timing'
                   PROVE  IF u.pc = "sleep" THEN handler'[u.id] \in {"live", "called"}
                          ELSE handler'[u.id] = "timedOut" /\ h'.calls[u.id] = 0
        OBVIOUS
      <3>1. u \in Timing /\ u.id \in Ids
        BY <1>4, <2>4
      <3>2. CASE u.id = t.id
        BY <1>6, <2>2, <3>1, <3>2 DEF Calls
      <3>3. CASE u.id # t.id
        BY <2>2, <2>3, <3>1, <3>3 DEF Calls
      <3> QED BY <3>2, <3>3
    <2>6. ASSUME NEW i \in Ids
          PROVE  /\ handler'[i] = "called" => i \notin acks'
                 /\ handler'[i] \in {"none", "live"} => h'.calls[i] = 0
                 /\ h'.calls[i] <= 1
      <3>1. CASE i = t.id
        BY <1>1, <2>2, <2>3, <3>1
      <3>2. CASE i # t.id
        BY <1>1, <2>2, <2>3, <3>2 DEF Calls
      <3> QED BY <3>1, <3>2
    <2> QED BY <1>4, <2>5, <2>6 DEF Calls
  <1> QED BY <1>2, <1>5, <1>6

\* The other steps leave the goroutines of timeouts alone.
LEMMA OtherCalls ==
  ASSUME Base, Calls, NEW t,
         \/ DrainDoes(t) \/ AppendDoes(t) \/ EmitBufferedDoes(t) \/ OnEventDoes(t) \/ BufferEventDoes(t) \/ ConnDoes
         \/ \E m, k : EmitDoes(m, k)
         \/ \E e, k : ServerEmitDoes(e, k)
  PROVE  Calls'
  <1> DEFINE Other(w, S) == /\ Moves(w, S) /\ w.pc \notin {"sleep", "unbuffer"}
                            /\ \A u \in S : u.pc \notin {"sleep", "unbuffer"}
             Quiet == UNCHANGED <<acks, handler>> /\ h'.calls = h.calls
  <1>1. ASSUME Quiet, \E w, S : Other(w, S) PROVE Calls'
    BY <1>1, CallsSame
  <1>2. ASSUME NEW w, NEW u, Moves(w, {u}), w.pc \notin {"sleep", "unbuffer"}, u.pc \notin {"sleep", "unbuffer"}
        PROVE  \E v, S : Other(v, S)
    <2>1. PICK S : S = {u}
      OBVIOUS
    <2>2. Other(w, S)
      BY <1>2, <2>1
    <2> HIDE DEF Other
    <2> QED BY <2>2
  <1>3. NoTask.pc = "none"
    BY DEF NoTask
  <1>4. CASE DrainDoes(t)
    <2>1. PICK S : Moves(t, S) /\ Draws(S, queue)
      BY <1>4 DEF DrainDoes
    <2>2. Quiet /\ t.pc \in {"drain", "drainForced"}
      BY <1>4, <2>1 DEF DrainDoes, Draws, ackVars
    <2>3. Other(t, S)
      BY <2>1, <2>2 DEF Draws
    <2> HIDE DEF Other, Quiet
    <2> QED BY <1>1, <2>2, <2>3
  <1>5. CASE AppendDoes(t) \/ BufferEventDoes(t)
    <2>1. Moves(t, {}) /\ t.pc \in {"buffer", "bufferEvent"} /\ Quiet
      BY <1>5 DEF AppendDoes, BufferEventDoes, Buffers, ackVars
    <2>2. PICK S : S = {}
      OBVIOUS
    <2>3. Other(t, S)
      BY <2>1, <2>2
    <2> HIDE DEF Other, Quiet
    <2> QED BY <1>1, <2>1, <2>3
  <1>6. CASE EmitBufferedDoes(t)
    <2>1. t.pc = "flush" /\ UNCHANGED ackVars
      BY <1>6 DEF EmitBufferedDoes
    <2>2. PICK S, sent, aborts : Moves(t, S) /\ FlushTasks(S, sent) /\ FlushCounts(sent, aborts)
      BY <1>6 DEF EmitBufferedDoes
    <2>3. Quiet
      BY <2>1, <2>2 DEF FlushCounts, ackVars
    <2>4. Other(t, S)
      BY <2>1, <2>2 DEF FlushTasks, IsAckOf
    <2> HIDE DEF Other, Quiet
    <2> QED BY <1>1, <2>3, <2>4
  <1>7. CASE OnEventDoes(t)
    <2>1. t.pc = "onEvent" /\ t.m \in Events
      BY <1>7 DEF OnEventDoes
    <2>2. PICK S : Moves(t, S) /\ h'.calls = h.calls /\ \A u \in S : u.pc \in {"send", "bufferEvent"}
      BY <1>7 DEF OnEventDoes, IsReplyTo
    <2>4. Quiet
      BY <1>7, <2>2 DEF OnEventDoes, ackVars
    <2>5. Other(t, S)
      BY <2>1, <2>2
    <2> HIDE DEF Other, Quiet
    <2> QED BY <1>1, <2>4, <2>5
  <1>8. CASE ConnDoes
    <2>1. UNCHANGED h /\ UNCHANGED ackVars
      BY <1>8 DEF ConnDoes
    <2>2. PICK w, S : /\ Moves(w, S) /\ w.pc \in {"none", "sendConnect", "onConnect"} /\ w.reply = FALSE
                      /\ \A u \in S : u \in Tasks /\ u.pc \in {"sendConnect", "onConnect", "flush"} /\ u.reply = FALSE
      BY <1>8 DEF ConnDoes
    <2>3. Quiet
      BY <2>1 DEF ackVars
    <2>4. Other(w, S)
      BY <2>2
    <2> HIDE DEF Other, Quiet
    <2> QED BY <1>1, <2>3, <2>4
  <1>9. CASE \E m, k : EmitDoes(m, k)
    <2>1. PICK m, k : EmitDoes(m, k)
      BY <1>9
    <2>2. CASE config.retries > 0
      <3>1. PICK S : Moves(NoTask, S) /\ Draws(S, queue')
        BY <2>1, <2>2 DEF EmitDoes
      <3>2. Quiet
        BY <2>1, <3>1 DEF EmitDoes, Draws, ackVars
      <3>3. Other(NoTask, S)
        BY <1>3, <3>1 DEF Draws
      <3> HIDE DEF Other, Quiet
      <3> QED BY <1>1, <3>2, <3>3
    <2>3. CASE ~(config.retries > 0)
      <3>1. PICK u : Moves(NoTask, {u}) /\ u.pc = "send"
        BY <2>1, <2>3 DEF EmitDoes
      <3>2. Quiet
        BY <2>1, <2>3 DEF EmitDoes, ackVars
      <3>3. \E w, S : Other(w, S)
        <4> HIDE DEF Other
        <4> QED BY <1>2, <1>3, <3>1
      <3> HIDE DEF Other, Quiet
      <3> QED BY <1>1, <3>2, <3>3
    <2> QED BY <2>2, <2>3
  <1>10. CASE \E e, k : ServerEmitDoes(e, k)
    <2>1. PICK e, k : ServerEmitDoes(e, k)
      BY <1>10
    <2>2. PICK u : Moves(NoTask, {u}) /\ u.pc = "onEvent"
      BY <2>1 DEF ServerEmitDoes
    <2>3. Quiet
      BY <2>1 DEF ServerEmitDoes, ackVars
    <2>4. \E w, S : Other(w, S)
      <3> HIDE DEF Other
      <3> QED BY <1>2, <1>3, <2>2
    <2> HIDE DEF Other, Quiet
    <2> QED BY <1>1, <2>3, <2>4
  <1> QED BY <1>4, <1>5, <1>6, <1>7, <1>8, <1>9, <1>10

-----------------------------------------------------------------------------
(* The retry queue.                                                        *)

\* Two sequences whose frames are in a set, one after the other.
LEMMA JoinIn ==
  ASSUME NEW x \in Seq(FrameSet), NEW y \in Seq(FrameSet), NEW G,
         \A k \in DOMAIN x : x[k] \in G, \A k \in DOMAIN y : y[k] \in G
  PROVE  \A k \in DOMAIN (x \o y) : (x \o y)[k] \in G
  <1> DEFINE z == x \o y
  <1>1. \A k \in DOMAIN z : \/ k \in DOMAIN x /\ z[k] = x[k]
                            \/ k - Len(x) \in DOMAIN y /\ z[k] = y[k - Len(x)]
    BY SMT
  <1> HIDE DEF z
  <1>2. \A k \in DOMAIN z : z[k] \in G
    BY <1>1
  <1> QED BY <1>2 DEF z

\* With Retries there are no events: no ACK of one is under way, and every packet
\* needs an ack handler.
LEMMA NoEvents ==
  ASSUME Base, config.retries > 0
  PROVE  /\ \A e \in Events : ekind[e] = "none"
         /\ \A t \in DOMAIN tasks : t.reply = FALSE
         /\ \A k \in DOMAIN sendBuffer : ~sendBuffer[k].reply /\ sendBuffer[k].id < nextId
         /\ \A t \in DOMAIN tasks : t.pc = "send" => NeedsAck(t)
         /\ \A m \in Emits : kind[m] # "none" => Queued(m)
  <1>1. /\ \A e \in Events : ekind[e] = "none"
        /\ \A m \in Emits : kind[m] \in {"none", "ack", "binary"}
    BY DEF Base, KindsOK
  <1>2. \A t \in DOMAIN tasks : t.reply = FALSE
    <2> SUFFICES ASSUME NEW t \in DOMAIN tasks PROVE t.reply = FALSE
      OBVIOUS
    <2>1. t \in Tasks /\ TaskOK(t) /\ t.reply \in BOOLEAN
      BY TaskFacts, TaskForms
    <2>2. ~t.reply
      BY <1>1, <2>1 DEF TaskOK, IsReply, Acking
    <2> QED BY <2>1, <2>2
  <1>3. \A k \in DOMAIN sendBuffer : ~sendBuffer[k].reply /\ sendBuffer[k].id < nextId
    BY <1>1 DEF Base, BuffersOK, FrameOK, IsReply, Acking, IsEmitted
  <1>5. \A m \in Emits : kind[m] # "none" => Queued(m)
    BY <1>1 DEF Queued
  <1>6. \A t \in DOMAIN tasks : t.pc = "send" => NeedsAck(t)
    BY <1>2, <1>5, TaskFacts DEF NeedsAck
  <1> QED BY <1>1, <1>2, <1>3, <1>5, <1>6

\* When nothing is tried there is nothing to say.
LEMMA TryingNone ==
  ASSUME Live' = {}, Sending' = {}, Expired' = {} PROVE Trying'
  BY DEF Trying

\* The attempt stays where it is.
LEMMA TryingSame ==
  ASSUME Trying, NEW t, NEW S, Moves(t, S), t.pc \notin {"send", "unbuffer"},
         \A u \in S : /\ u.pc \notin {"send", "unbuffer"}
                      /\ u.pc \in {"buffer", "sleep", "onAck"} /\ u.id \in Live => u.m \in pending,
         UNCHANGED handler, UNCHANGED pending,
         \A k \in DOMAIN sendBuffer' : sendBuffer'[k].id \in Live => sendBuffer'[k].m \in pending
  PROVE  Trying'
  <1>1. Live' = Live
    BY DEF Live
  <1>2. \A u \in Sending' : u \in Sending /\ tasks'[u] = tasks[u]
    BY DEF Sending, Moves
  <1>3. \A u \in Expired' : u \in Expired
    BY DEF Expired, Moves
  <1>4. Expired = {} => Expired' = {}
    BY <1>3
  <1>5. \A u \in DOMAIN tasks' : u.pc \in {"buffer", "sleep", "onAck"} /\ u.id \in Live => u.m \in pending
    BY DEF Moves, Trying
  <1>6. \A u \in Sending' : /\ tasks'[u] = 1 /\ u.m \in pending' /\ Live' = {} /\ Expired' = {}
                            /\ \A v \in Sending' : v = u
    BY <1>1, <1>2, <1>4 DEF Trying
  <1>7. \A u \in Expired' : u.m \in pending' /\ Live' = {} /\ \A v \in Expired' : v = u
    BY <1>1, <1>3 DEF Trying
  <1>8. (\A i, j \in Live' : i = j) /\ (Live' # {} => pending' # {})
    BY <1>1 DEF Trying
  <1> QED BY <1>1, <1>5, <1>6, <1>7, <1>8 DEF Trying

\* drainQueue sends the packet at the head of queue q only when none waits.
LEMMA DrawsRetry ==
  ASSUME Base, Trying, NEW q \in Seq(Emits), queue' = q, UNCHANGED <<config, queueMu, handler, sendBuffer>>,
         ~queueMu, \A m \in Emits : h.left[m] # "dropped",
         \A j, k \in DOMAIN q : q[j] = q[k] => j = k,
         \A m \in pending : q # <<>> /\ m = Head(q),
         \A k \in DOMAIN q : q[k] \notin pending => tries[q[k]] <= config.retries,
         \A m \in Emits : tries[m] <= config.retries + 1 /\ (kind'[m] = "none" => tries[m] = 0),
         \A k \in DOMAIN q : kind'[q[k]] # "none",
         NEW t, NEW S, Moves(t, S), t.pc \notin {"send", "unbuffer"}, Draws(S, q), ~h'.overlap
  PROVE  Queueing' /\ Trying'
  <1>1. h'.left = h.left
    BY DEF Draws
  <1>2. CASE S = {} /\ UNCHANGED <<pending, tries>>
    <2>1. Queueing'
      BY <1>1, <1>2 DEF Queueing
    <2>2. \A u \in S : /\ u.pc \notin {"send", "unbuffer"}
                       /\ u.pc \in {"buffer", "sleep", "onAck"} /\ u.id \in Live => u.m \in pending
      BY <1>2
    <2>3. \A k \in DOMAIN sendBuffer' : sendBuffer'[k].id \in Live => sendBuffer'[k].m \in pending
      BY DEF Trying
    <2>4. Trying'
      BY <1>2, <2>2, <2>3, TryingSame
    <2> QED BY <2>1, <2>4
  <1>3. CASE /\ q # <<>> /\ pending' = pending \cup {Head(q)}
             /\ tries' = [tries EXCEPT ![Head(q)] = tries[Head(q)] + 1]
             /\ Head(q) \in pending => h'.overlap
    <2> DEFINE m == Head(q)
    <2>1. m \in Emits /\ 1 \in DOMAIN q /\ q[1] = m
      BY SMT, <1>3
    <2>2. m \notin pending /\ pending = {} /\ pending' = {m}
      BY <1>3
    <2>3. /\ tries \in [Emits -> Nat] /\ config.retries \in Nat
      BY SMT, EmitAssumption DEF Base, QueueOK, LinkOK, Configs
    <2> HIDE DEF m
    <2>4. tries[m] <= config.retries
      BY <2>1, <2>2
    <2>5. tries' = [tries EXCEPT ![m] = tries[m] + 1]
      BY <1>3 DEF m
    <2>6. /\ tries'[m] = tries[m] + 1 /\ \A n \in Emits : n # m => tries'[n] = tries[n]
      BY <2>1, <2>3, <2>5
    <2>7. tries'[m] <= config.retries + 1
      <3>1. tries[m] \in Nat
        BY <2>1, <2>3
      <3> QED BY SMT, <2>3, <2>4, <2>6, <3>1
    <2>8. kind'[m] # "none"
      BY <2>1
    <2>9. \A n \in Emits : tries'[n] <= config.retries + 1 /\ (kind'[n] = "none" => tries'[n] = 0)
      BY <2>6, <2>7, <2>8
    <2>10. \A k \in DOMAIN q : q[k] \notin pending' => tries'[q[k]] <= config.retries
      <3>1. \A k \in DOMAIN q : q[k] \in Emits
        BY SMT
      <3> QED BY <2>2, <2>6, <3>1
    <2>11. Queueing'
      BY <1>1, <1>3, <2>2, <2>9, <2>10 DEF Queueing, m
    <2>12. Live = {} /\ Sending = {} /\ Expired = {}
      BY <2>2 DEF Trying
    <2>13. \A u \in S : u.pc = "send" /\ u.m = m /\ \A v \in S : v = u
      BY DEF Draws, m
    <2>14. Live' = {}
      BY <2>12 DEF Live
    <2>15. Expired' = {}
      BY <2>12, <2>13 DEF Expired, Moves
    <2>16. \A u \in Sending' : u \in S /\ tasks'[u] = 1
      BY <2>12 DEF Sending, Moves
    <2>17. Trying'
      BY <2>2, <2>13, <2>14, <2>15, <2>16 DEF Trying
    <2> QED BY <2>11, <2>17
  <1> QED BY <1>2, <1>3 DEF Draws

\* Without Retries the queue is not used; with them an overlap remains one.
Idle == queue = <<>> /\ ~queueMu /\ \A m \in Emits : h.left[m] # "dropped"

\* The two cases of Retry.
LEMMA RetryCases ==
  ASSUME Base, Retry, config' = config,
         config.retries = 0 /\ Idle => Idle',
         h.overlap => h'.overlap,
         config.retries > 0 /\ ~h.overlap /\ ~h'.overlap /\ Queueing /\ Trying => Queueing' /\ Trying'
  PROVE  Retry'
  BY DEF Retry, Idle

\* The queue after the call of the handler of a packet that waits.
LEMMA CalledRetry ==
  ASSUME Base, config.retries > 0, Queueing, NEW t, t.m \in pending, NEW failed, QueueMoves(t, failed),
         UNCHANGED <<config, kind>>
  PROVE  Queueing'
  <1>1. /\ queue \in Seq(Emits) /\ queue # <<>> /\ t.m = Head(queue) /\ pending = {t.m} /\ t.m \in Emits
    BY DEF Queueing, Base, QueueOK
  <1>2. /\ 1 \in DOMAIN queue /\ queue[1] = t.m
    BY SMT, <1>1
  <1>3. Queued(t.m)
    BY <1>1, <1>2, NoEvents DEF Base, QueueOK
  <1>4. CASE failed /\ tries[t.m] <= config.retries /\ pending' = pending \ {t.m}
             /\ UNCHANGED <<queue, queueMu, tries, spoiled>> /\ h'.left = h.left
    <2>1. pending' = {}
      BY <1>1, <1>4
    <2>2. \A k \in DOMAIN queue' : queue'[k] \notin pending' => tries'[queue'[k]] <= config'.retries
      BY <1>1, <1>4 DEF Queueing
    <2> QED BY <1>4, <2>1, <2>2 DEF Queueing
  <1>5. CASE /\ queue' = Tail(queue) /\ pending' = pending \ {t.m} /\ UNCHANGED <<queueMu, tries, spoiled>>
             /\ \E l \in {"no", "dropped", "discarded", "acknowledged"} :
                  /\ h'.left = [h.left EXCEPT ![Head(queue)] = l]
                  /\ Head(queue) = t.m => l # "dropped"
    <2>1. pending' = {}
      BY <1>1, <1>5
    <2>2. \A k \in DOMAIN queue' : k + 1 \in DOMAIN queue /\ k + 1 # 1 /\ queue'[k] = queue[k + 1]
      BY SMT, <1>1, <1>5
    <2>3. \A j, k \in DOMAIN queue' : j + 1 = k + 1 => j = k
      BY SMT, <1>1, <1>5
    <2>4. \A j, k \in DOMAIN queue' : queue'[j] = queue'[k] => j = k
      <3> SUFFICES ASSUME NEW j \in DOMAIN queue', NEW k \in DOMAIN queue', queue'[j] = queue'[k] PROVE j = k
        OBVIOUS
      <3>1. j + 1 \in DOMAIN queue /\ k + 1 \in DOMAIN queue /\ queue[j + 1] = queue[k + 1]
        BY <2>2
      <3>2. j + 1 = k + 1
        BY <3>1 DEF Queueing
      <3> QED BY <2>3, <3>2
    <2>5. \A k \in DOMAIN queue' : queue'[k] \notin pending
      <3> SUFFICES ASSUME NEW k \in DOMAIN queue' PROVE queue'[k] \notin pending
        OBVIOUS
      <3>1. k + 1 \in DOMAIN queue /\ k + 1 # 1 /\ queue'[k] = queue[k + 1]
        BY <2>2
      <3>2. queue[k + 1] # queue[1]
        BY <1>2, <3>1 DEF Queueing
      <3> QED BY <1>1, <1>2, <3>1, <3>2
    <2>6. \A k \in DOMAIN queue' : tries'[queue'[k]] <= config'.retries
      BY <1>5, <2>2, <2>5 DEF Queueing
    <2>7. PICK l \in {"no", "dropped", "discarded", "acknowledged"} :
            h'.left = [h.left EXCEPT ![t.m] = l] /\ l # "dropped"
      BY <1>1, <1>5
    <2>8. h.left \in [Emits -> {"no", "dropped", "discarded", "acknowledged"}]
      BY SMT DEF Base, HistoryOK, Histories
    <2>9. \A m \in Emits : h'.left[m] # "dropped"
      BY <1>1, <2>7, <2>8 DEF Queueing
    <2> QED BY <1>5, <2>1, <2>4, <2>6, <2>9 DEF Queueing
  <1> QED BY <1>1, <1>3, <1>4, <1>5 DEF QueueMoves

\* The calls of handlers without Retries.
LEMMA CalledIdle ==
  ASSUME Idle, NEW t, ~(config.retries > 0), NEW failed, QueueMoves(t, failed) PROVE Idle'
  <1>1. ~Queued(t.m)
    BY DEF Queued
  <1>2. UNCHANGED queueVars /\ h'.left = h.left
    BY <1>1 DEF QueueMoves
  <1> QED BY <1>2 DEF Idle, queueVars

\* With Retries, or without.
LEMMA NotBoth ==
  ASSUME config.retries = 0 PROVE ~(config.retries > 0)
  BY SMT

\* drainQueue sends a packet.
LEMMA DrainRetry ==
  ASSUME Base, Retry, NEW t, DrainDoes(t) PROVE Retry'
  <1>1. /\ t.pc \in {"drain", "drainForced"} /\ UNCHANGED <<config, kind, ekind, queue, queueMu, spoiled>>
        /\ UNCHANGED bufVars /\ UNCHANGED ackVars
    BY DEF DrainDoes
  <1>2. PICK S : Moves(t, S) /\ Draws(S, queue)
    BY DEF DrainDoes
  <1>3. Idle => Idle'
    BY <1>1, <1>2 DEF Idle, Draws
  <1>4. h.overlap => h'.overlap
    BY <1>2 DEF Draws
  <1>5. ASSUME ~h'.overlap, Queueing, Trying PROVE Queueing' /\ Trying'
    <2>1. PICK q : q = queue
      OBVIOUS
    <2>2. q \in Seq(Emits) /\ \A k \in DOMAIN q : kind'[q[k]] # "none"
      BY <1>1, <2>1 DEF Base, QueueOK
    <2>3. UNCHANGED <<config, queueMu, handler, sendBuffer>> /\ queue' = q /\ Draws(S, q)
      BY <1>1, <1>2, <2>1 DEF ackVars, bufVars
    <2>4. /\ ~queueMu /\ \A m \in Emits : h.left[m] # "dropped"
          /\ \A j, k \in DOMAIN q : q[j] = q[k] => j = k
          /\ \A m \in pending : q # <<>> /\ m = Head(q)
          /\ \A k \in DOMAIN q : q[k] \notin pending => tries[q[k]] <= config.retries
          /\ \A m \in Emits : tries[m] <= config.retries + 1 /\ (kind'[m] = "none" => tries[m] = 0)
      BY <1>1, <1>5, <2>1 DEF Queueing
    <2> QED BY <1>1, <1>2, <1>5, <2>2, <2>3, <2>4, DrawsRetry
  <1> QED BY <1>1, <1>3, <1>4, <1>5, RetryCases

\* addToQueue appends a packet.
LEMMA EmitRetry ==
  ASSUME Base, Retry, NEW m \in Emits, NEW k, EmitDoes(m, k) PROVE Retry'
  <1>1. /\ UNCHANGED <<config, queueMu, spoiled>> /\ UNCHANGED bufVars /\ UNCHANGED ackVars
        /\ kind[m] = "none" /\ kind' = [kind EXCEPT ![m] = k] /\ k # "none"
    BY DEF EmitDoes
  <1>2. CASE ~(config.retries > 0)
    <2>1. UNCHANGED <<queue, pending, tries, h>>
      BY <1>2 DEF EmitDoes
    <2>2. Idle => Idle'
      BY <1>1, <2>1 DEF Idle
    <2> QED BY <1>1, <1>2, <2>1, <2>2, RetryCases
  <1>3. CASE config.retries > 0
    <2>1. queue' = Append(queue, m) /\ queue' \in Seq(Emits)
      BY <1>3 DEF EmitDoes
    <2>2. PICK S : Moves(NoTask, S) /\ Draws(S, queue')
      BY <1>3 DEF EmitDoes
    <2>3. h.overlap => h'.overlap
      BY <2>2 DEF Draws
    <2>4. ASSUME ~h'.overlap, Queueing, Trying PROVE Queueing' /\ Trying'
      <3>1. PICK q : q = queue'
        OBVIOUS
      <3>2. queue \in Seq(Emits) /\ (\A j \in DOMAIN queue : kind[queue[j]] # "none") /\ pending \subseteq Emits
        BY DEF Base, QueueOK
      <3>3. /\ q \in Seq(Emits) /\ q # <<>> /\ queue' = q
            /\ \A j \in DOMAIN q : \/ j \in DOMAIN queue /\ q[j] = queue[j]
                                   \/ j \notin DOMAIN queue /\ q[j] = m /\ j = Len(queue) + 1
            /\ queue # <<>> => Head(q) = Head(queue)
        BY SMT, <2>1, <3>1, <3>2
      <3>4. \A j \in DOMAIN queue : queue[j] # m /\ queue[j] \in Emits
        <4>1. \A j \in DOMAIN queue : queue[j] \in Emits
          BY SMT, <3>2
        <4> QED BY <1>1, <3>2, <4>1
      <3>5. kind \in [Emits -> EmitKinds \cup {"none"}]
        BY DEF Base, KindsOK
      <3>6. kind'[m] = k /\ \A n \in Emits : n # m => kind'[n] = kind[n]
        BY <1>1, <3>5
      <3>7. \A j \in DOMAIN q : kind'[q[j]] # "none"
        BY <1>1, <3>2, <3>3, <3>4, <3>6
      <3>8. UNCHANGED <<config, queueMu, handler, sendBuffer>> /\ Draws(S, q)
        BY <1>1, <2>2, <3>1 DEF ackVars, bufVars
      <3>9. \A i, j \in DOMAIN q : q[i] = q[j] => i = j
        BY <2>4, <3>3, <3>4 DEF Queueing
      <3>10. \A n \in pending : q # <<>> /\ n = Head(q)
        BY <2>4, <3>3 DEF Queueing
      <3>11. tries[m] = 0 /\ tries[m] <= config.retries
        <4>1. tries[m] = 0
          BY <1>1, <2>4 DEF Queueing
        <4>2. config.retries \in Nat
          BY SMT, EmitAssumption DEF Base, LinkOK, Configs
        <4> QED BY SMT, <4>1, <4>2
      <3>12. \A j \in DOMAIN q : q[j] \notin pending => tries[q[j]] <= config.retries
        BY <2>4, <3>3, <3>11 DEF Queueing
      <3>13. \A n \in Emits : tries[n] <= config.retries + 1 /\ (kind'[n] = "none" => tries[n] = 0)
        BY <1>1, <2>4, <3>6 DEF Queueing
      <3>14. ~queueMu /\ \A n \in Emits : h.left[n] # "dropped"
        BY <2>4 DEF Queueing
      <3>15. NoTask.pc \notin {"send", "unbuffer"}
        BY DEF NoTask
      <3> QED BY <2>2, <2>4, <3>3, <3>7, <3>8, <3>9, <3>10, <3>12, <3>13, <3>14, <3>15, DrawsRetry
    <2>5. config.retries # 0
      BY SMT, <1>3
    <2> QED BY <1>1, <2>3, <2>4, <2>5, RetryCases
  <1> QED BY <1>2, <1>3

\* The packet is sent, and its handler is registered.
LEMMA SendRetry ==
  ASSUME Base, Retry, NEW t, SendDoes(t) PROVE Retry'
  <1>2. t \in DOMAIN tasks /\ t.pc = "send"
    BY DEF SendDoes
  <1>3. PICK r, S : /\ Moves(t, S) /\ (\A u \in S : IsSent(u, t, r))
                    /\ h'.left = h.left /\ h'.overlap = h.overlap
                    /\ NeedsAck(t) => r.id = nextId /\ nextId \in Ids /\ handler' = [handler EXCEPT ![nextId] = "live"]
    BY DEF SendDoes, Replied
  <1>4. UNCHANGED <<config, kind, ekind, queue, queueMu, pending, tries>> /\ UNCHANGED bufVars
    BY DEF SendDoes
  <1>5. NeedsAck(t) => r.id = nextId /\ nextId \in Ids /\ handler' = [handler EXCEPT ![nextId] = "live"]
    BY <1>3
  <1>6. h'.left = h.left /\ h'.overlap = h.overlap
    BY <1>3
  <1>7. Idle => Idle'
    BY <1>4, <1>6 DEF Idle
  <1>8. ASSUME config.retries > 0, Queueing, Trying PROVE Queueing' /\ Trying'
    <2>1. Queueing'
      BY <1>4, <1>6, <1>8 DEF Queueing
    <2>2. NeedsAck(t)
      BY <1>2, <1>8, NoEvents
    <2>3. t \in Sending
      BY <1>2 DEF Sending
    <2>4. tasks[t] = 1 /\ t.m \in pending /\ Live = {} /\ Expired = {} /\ \A u \in Sending : u = t
      BY <1>8, <2>3 DEF Trying
    <2>5. handler \in [Ids -> {"none", "live", "called", "timedOut"}]
      BY DEF Base, AcksOK
    <2>6. \A i \in Live' : i = nextId
      BY <1>5, <2>2, <2>4, <2>5 DEF Live
    <2>7. \A u \in S : u.pc \in {"sleep", "buffer", "onAck"} /\ u.m = t.m
      BY <1>3 DEF IsSent
    <2>8. \A u \in Sending' : FALSE
      <3> SUFFICES ASSUME NEW u \in Sending' PROVE FALSE
        OBVIOUS
      <3>1. u \in DOMAIN tasks' /\ u.pc = "send"
        BY DEF Sending
      <3>2. u \notin S /\ u \in DOMAIN tasks
        BY <1>3, <2>7, <3>1 DEF Moves
      <3>3. u = t
        BY <2>4, <3>1, <3>2 DEF Sending
      <3> QED BY <1>2, <1>3, <2>4, <3>1, <3>2, <3>3 DEF Moves
    <2>9. \A u \in Expired' : FALSE
      BY <1>3, <2>4, <2>7 DEF Expired, Moves
    <2>10. nextId \in Ids /\ ~(nextId < nextId)
      <3>1. nextId \in Ids
        BY <1>5, <2>2
      <3> QED BY SMT, <3>1, EmitAssumption DEF Ids
    <2>11. \A u \in DOMAIN tasks' : u.pc \in {"buffer", "sleep", "onAck"} /\ u.id \in Live' => u.m \in pending'
      <3> SUFFICES ASSUME NEW u \in DOMAIN tasks', u.pc \in {"buffer", "sleep", "onAck"}, u.id \in Live'
                   PROVE  u.m \in pending'
        OBVIOUS
      <3>1. u.id = nextId
        BY <2>6
      <3>2. u \in DOMAIN tasks => u.id < nextId
        BY <1>8, NoEvents, TaskFacts
      <3>3. u \in S
        BY <1>3, <2>10, <3>1, <3>2 DEF Moves
      <3> QED BY <1>4, <2>4, <2>7, <3>3
    <2>12. \A k \in DOMAIN sendBuffer' : sendBuffer'[k].id \in Live' => sendBuffer'[k].m \in pending'
      <3>1. \A k \in DOMAIN sendBuffer : sendBuffer[k].id < nextId
        BY <1>8, NoEvents
      <3> QED BY <1>4, <2>6, <2>10, <3>1 DEF bufVars
    <2>13. (\A i, j \in Live' : i = j) /\ pending' # {}
      BY <1>4, <2>4, <2>6
    <2>14. Trying'
      BY <2>8, <2>9, <2>11, <2>12, <2>13 DEF Trying
    <2> QED BY <2>1, <2>14
  <1> QED BY <1>4, <1>6, <1>7, <1>8, RetryCases

\* Retry, when a step leaves the queue alone.
LEMMA RetryAlone ==
  ASSUME Base, Retry, UNCHANGED <<config, kind>>, UNCHANGED queueVars, h'.left = h.left, h'.overlap = h.overlap,
         config.retries > 0 /\ Trying => Trying'
  PROVE  Retry'
  <1>1. UNCHANGED <<queue, queueMu, pending, tries>>
    BY DEF queueVars
  <1>2. Idle => Idle'
    BY <1>1 DEF Idle
  <1>3. Queueing => Queueing'
    BY <1>1 DEF Queueing
  <1> QED BY <1>2, <1>3, RetryCases

\* The packet is appended to the send buffer.
LEMMA AppendRetry ==
  ASSUME Base, Retry, NEW t, AppendDoes(t) PROVE Retry'
  <1>1. /\ t \in DOMAIN tasks /\ Moves(t, {})
        /\ h'.left = h.left /\ h'.overlap = h.overlap
        /\ UNCHANGED <<config, kind>> /\ UNCHANGED ackVars /\ UNCHANGED queueVars
    BY DEF AppendDoes, Buffers
  <1>2. t.pc = "buffer" /\ sendBuffer' = sendBuffer \o Frames(t) /\ t \in Tasks
    BY <1>1, TaskFacts DEF AppendDoes
  <1>3. ASSUME Trying PROVE Trying'
    <2> DEFINE G == {f \in FrameSet : f.id \in Live => f.m \in pending}
    <2>1. sendBuffer \in Seq(FrameSet) /\ Frames(t) \in Seq(FrameSet)
      BY <1>2, FramesForm DEF Base, BuffersOK
    <2>2. /\ \A k \in DOMAIN sendBuffer : sendBuffer[k] \in FrameSet
          /\ \A k \in DOMAIN Frames(t) : Frames(t)[k] \in FrameSet
      BY SMT, <2>1
    <2>3. \A k \in DOMAIN sendBuffer : sendBuffer[k] \in G
      BY <1>3, <2>2 DEF Trying
    <2>4. t.id \in Live => t.m \in pending
      BY <1>1, <1>2, <1>3 DEF Trying
    <2>5. \A k \in DOMAIN Frames(t) : Frames(t)[k] \in G
      BY <1>2, <2>2, <2>4, FramesForm
    <2>6. \A k \in DOMAIN sendBuffer' : sendBuffer'[k] \in G
      <3> HIDE DEF G
      <3> QED BY <1>2, <2>1, <2>3, <2>5, JoinIn
    <2>7. \A k \in DOMAIN sendBuffer' : sendBuffer'[k].id \in Live => sendBuffer'[k].m \in pending
      BY <2>6
    <2>8. PICK S : S = {}
      OBVIOUS
    <2>9. Moves(t, S) /\ \A u \in S : /\ u.pc \notin {"send", "unbuffer"}
                                      /\ u.pc \in {"buffer", "sleep", "onAck"} /\ u.id \in Live => u.m \in pending
      BY <1>1, <2>8
    <2>10. UNCHANGED handler /\ UNCHANGED pending
      BY <1>1 DEF ackVars, queueVars
    <2> QED BY <1>2, <1>3, <2>7, <2>9, <2>10, TryingSame
  <1> QED BY <1>1, <1>3, RetryAlone

\* A timeout expires.
LEMMA ExpireRetry ==
  ASSUME Base, Calls, Retry, NEW t, ExpireDoes(t) PROVE Retry'
  <1>1. /\ t \in DOMAIN tasks /\ t.pc = "sleep" /\ UNCHANGED <<config, kind, h>>
        /\ UNCHANGED bufVars /\ UNCHANGED queueVars
        /\ \/ UNCHANGED handler /\ Moves(t, {})
           \/ /\ handler[t.id] # "called" /\ handler' = [handler EXCEPT ![t.id] = "timedOut"]
              /\ \E u : Moves(t, {u}) /\ u.pc = "unbuffer" /\ u.m = t.m
    BY DEF ExpireDoes
  <1>2. t.id \in Ids
    BY <1>1, TaskFacts
  <1>4. handler[t.id] \in {"live", "called"}
    BY <1>1 DEF Calls, Timing
  <1>5. ASSUME Trying PROVE Trying'
    <2>1. CASE UNCHANGED handler /\ Moves(t, {})
      <3>1. PICK S : S = {}
        OBVIOUS
      <3>2. Moves(t, S)
        BY <2>1, <3>1
      <3>3. \A v \in S : /\ v.pc \notin {"send", "unbuffer"}
                         /\ v.pc \in {"buffer", "sleep", "onAck"} /\ v.id \in Live => v.m \in pending
        BY <3>1
      <3>4. UNCHANGED pending /\ \A k \in DOMAIN sendBuffer' : sendBuffer'[k].id \in Live => sendBuffer'[k].m \in pending
        BY <1>1, <1>5 DEF bufVars, queueVars, Trying
      <3> QED BY <1>1, <1>5, <2>1, <3>2, <3>3, <3>4, TryingSame
    <2>2. CASE /\ handler[t.id] # "called" /\ handler' = [handler EXCEPT ![t.id] = "timedOut"]
               /\ \E u : Moves(t, {u}) /\ u.pc = "unbuffer" /\ u.m = t.m
      <3>6. PICK u : Moves(t, {u}) /\ u.pc = "unbuffer" /\ u.m = t.m
        BY <2>2
      <3>1. t.id \in Live
        BY <1>2, <1>4, <2>2 DEF Live
      <3>2. t.m \in pending /\ Sending = {} /\ Expired = {} /\ \A i \in Live : i = t.id
        BY <1>1, <1>5, <3>1 DEF Trying
      <3>3. handler \in [Ids -> {"none", "live", "called", "timedOut"}]
        BY DEF Base, AcksOK
      <3>4. \A i \in Ids : handler'[i] = IF i = t.id THEN "timedOut" ELSE handler[i]
        BY <2>2, <3>3
      <3>5. Live' = {}
        BY <3>2, <3>4 DEF Live
      <3>7. Sending' = {}
        BY <3>2, <3>6 DEF Sending, Moves
      <3>8. \A v \in Expired' : v = u
        BY <3>2, <3>6 DEF Expired, Moves
      <3>9. u.m \in pending'
        BY <1>1, <3>2, <3>6 DEF queueVars
      <3> QED BY <3>5, <3>7, <3>8, <3>9 DEF Trying
    <2> QED BY <1>1, <2>1, <2>2
  <1> QED BY <1>1, <1>5, RetryAlone

\* The handler of a timeout is called.
LEMMA TimeOutRetry ==
  ASSUME Base, Calls, Retry, NEW t, TimeOutDoes(t) PROVE Retry'
  <1>1. /\ t \in DOMAIN tasks /\ t.pc = "unbuffer" /\ UNCHANGED <<config, kind, handler>>
    BY DEF TimeOutDoes
  <1>2. PICK S : /\ Moves(t, S) /\ Drains(S)
                 /\ \/ UNCHANGED queueVars /\ UNCHANGED h
                    \/ HandlerCalled(t, TRUE)
    BY DEF TimeOutDoes
  <1>3. ASSUME Trying PROVE Trying' /\ t.m \in pending
    <2>1. t \in Expired
      BY <1>1 DEF Expired
    <2>2. t.m \in pending /\ Live = {} /\ \A v \in Expired : v = t
      BY <1>3, <2>1 DEF Trying
    <2>3. Sending = {}
      BY <1>3, <2>1 DEF Trying
    <2>4. tasks[t] = 1
      BY <1>1 DEF Calls, Timing
    <2>5. \A v \in S : v.pc = "drain"
      BY <1>2 DEF Drains
    <2>6. t \notin DOMAIN tasks'
      BY <1>1, <1>2, <2>4, <2>5 DEF Moves
    <2>7. Expired' = {}
      BY <1>2, <2>2, <2>5, <2>6 DEF Expired, Moves
    <2>8. Sending' = {}
      BY <1>2, <2>3, <2>5 DEF Sending, Moves
    <2>9. Live' = {}
      BY <1>1, <2>2 DEF Live
    <2> QED BY <2>2, <2>7, <2>8, <2>9, TryingNone
  <1>4. CASE UNCHANGED queueVars /\ UNCHANGED h
    BY <1>1, <1>3, <1>4, RetryAlone
  <1>5. CASE HandlerCalled(t, TRUE)
    <2>1. QueueMoves(t, TRUE) /\ h'.overlap = h.overlap
      BY <1>5 DEF HandlerCalled
    <2>2. config.retries = 0 /\ Idle => Idle'
      BY <2>1, CalledIdle, NotBoth
    <2>3. config.retries > 0 /\ Queueing /\ Trying => Queueing' /\ Trying'
      BY <1>1, <1>3, <2>1, CalledRetry
    <2> QED BY <1>1, <2>1, <2>2, <2>3, RetryCases
  <1> QED BY <1>2, <1>4, <1>5

\* The handler of an ACK is called.
LEMMA OnAckRetry ==
  ASSUME Base, Calls, Retry, NEW t, OnAckDoes(t) PROVE Retry'
  <1>1. /\ t \in DOMAIN tasks /\ t.pc = "onAck" /\ t.id \in Ids /\ t.m \in Emits /\ UNCHANGED <<config, kind>> /\ UNCHANGED bufVars
    BY DEF OnAckDoes
  <1>2. PICK S : /\ Moves(t, S) /\ Drains(S)
                 /\ \/ UNCHANGED handler /\ UNCHANGED queueVars /\ UNCHANGED h
                    \/ /\ t.id \in acks /\ handler[t.id] # "timedOut"
                       /\ handler' = [handler EXCEPT ![t.id] = "called"] /\ HandlerCalled(t, FALSE)
    BY DEF OnAckDoes
  <1>3. \A v \in S : v.pc = "drain"
    BY <1>2 DEF Drains
  <1>4. CASE UNCHANGED handler /\ UNCHANGED queueVars /\ UNCHANGED h
    <2>1. ASSUME Trying PROVE Trying'
      <3>1. \A v \in S : /\ v.pc \notin {"send", "unbuffer"}
                         /\ v.pc \in {"buffer", "sleep", "onAck"} /\ v.id \in Live => v.m \in pending
        BY <1>3
      <3>2. UNCHANGED pending /\ \A k \in DOMAIN sendBuffer' : sendBuffer'[k].id \in Live => sendBuffer'[k].m \in pending
        BY <1>1, <1>4, <2>1 DEF bufVars, queueVars, Trying
      <3> QED BY <1>1, <1>2, <1>4, <2>1, <3>1, <3>2, TryingSame
    <2> QED BY <1>1, <1>4, <2>1, RetryAlone
  <1>5. CASE /\ t.id \in acks /\ handler[t.id] # "timedOut"
             /\ handler' = [handler EXCEPT ![t.id] = "called"] /\ HandlerCalled(t, FALSE)
    <2>1. QueueMoves(t, FALSE) /\ h'.overlap = h.overlap
      BY <1>5 DEF HandlerCalled
    <2>2. config.retries = 0 /\ Idle => Idle'
      BY <2>1, CalledIdle, NotBoth
    <2>3. /\ handler \in [Ids -> {"none", "live", "called", "timedOut"}]
          /\ handler[t.id] # "none"
      <3>1. t.id \in Nat /\ nextId \in Nat /\ t.id < nextId
        <4>1. nextId \in Nat
          BY SMT, EmitAssumption DEF Base, AcksOK, Ids
        <4> QED BY <1>1, <4>1, TaskFacts, TaskForms
      <3>2. ~(t.id >= nextId)
        BY SMT, <3>1
      <3> QED BY <1>1, <3>2 DEF Base, AcksOK
    <2>4. t.id \in Live
      BY <1>1, <1>5, <2>3 DEF Calls, Live
    <2>5. ASSUME Trying PROVE Trying' /\ t.m \in pending
      <3>1. t.m \in pending /\ Sending = {} /\ Expired = {} /\ \A i \in Live : i = t.id
        BY <1>1, <2>4, <2>5 DEF Trying
      <3>2. \A i \in Ids : handler'[i] = IF i = t.id THEN "called" ELSE handler[i]
        BY <1>5, <2>3
      <3>3. Live' = {}
        BY <3>1, <3>2 DEF Live
      <3>4. Sending' = {} /\ Expired' = {}
        BY <1>2, <1>3, <3>1 DEF Sending, Expired, Moves
      <3> QED BY <3>1, <3>3, <3>4, TryingNone
    <2>6. config.retries > 0 /\ Queueing /\ Trying => Queueing' /\ Trying'
      BY <1>1, <2>1, <2>5, CalledRetry
    <2> QED BY <1>1, <2>1, <2>2, <2>6, RetryCases
  <1> QED BY <1>2, <1>4, <1>5

\* The frames that emitBuffered sends and keeps are its ACKs or were in the buffer.
LEMMA FlushIn ==
  ASSUME Base, NEW sent, NEW aborts, FlushAnswers, FlushBuffers(sent, aborts), aborts \in BOOLEAN, NEW G,
         \A k \in DOMAIN sendBuffer : sendBuffer[k] \in G, \A k \in DOMAIN FlushReplies : FlushReplies[k] \in G
  PROVE  /\ \A k \in DOMAIN sent : sent[k] \in G
         /\ \A k \in DOMAIN sendBuffer' : sendBuffer'[k] \in G
  <1>1. sendBuffer \in Seq(FrameSet) /\ FlushReplies \in Seq(FrameSet)
    BY DEF FlushAnswers, Base, BuffersOK
  <1>2. \A k \in DOMAIN << >> : FALSE
    BY SMT
  <1> DEFINE In(x) == \A k \in DOMAIN x : x[k] \in G
  <1>3. In(<<>>) /\ In(sendBuffer) /\ In(FlushReplies)
    BY <1>2
  <1>4. In(sendBuffer \o FlushReplies) /\ In(FlushReplies \o sendBuffer)
    BY <1>1, <1>3, JoinIn
  <1>5. /\ sent \in {<<>>, FlushReplies, sendBuffer \o FlushReplies, FlushReplies \o sendBuffer}
        /\ sendBuffer' \in {<<>>, sendBuffer, sendBuffer \o FlushReplies}
    BY DEF FlushBuffers
  <1> HIDE DEF In
  <1>6. In(sent) /\ In(sendBuffer')
    BY <1>3, <1>4, <1>5
  <1> QED BY <1>6 DEF In

\* The buffers are flushed.
LEMMA EmitBufferedRetry ==
  ASSUME Base, Retry, NEW t, EmitBufferedDoes(t) PROVE Retry'
  <1>1. t.pc = "flush" /\ UNCHANGED <<config, kind>> /\ UNCHANGED ackVars /\ UNCHANGED queueVars /\ FlushAnswers
    BY DEF EmitBufferedDoes
  <1>2. PICK S, sent, aborts : /\ sent \in Seq(FrameSet) /\ aborts \in BOOLEAN
                               /\ Moves(t, S) /\ FlushTasks(S, sent)
                               /\ FlushCounts(sent, aborts) /\ FlushBuffers(sent, aborts)
    BY DEF EmitBufferedDoes
  <1>3. h'.left = h.left /\ h'.overlap = h.overlap
    BY <1>2 DEF FlushCounts
  <1>4. ASSUME config.retries > 0, Trying PROVE Trying'
    <2> DEFINE G == {f \in FrameSet : f.id \in Live => f.m \in pending}
    <2>1. \A k \in DOMAIN sendBuffer : sendBuffer[k] \in G
      <3>1. \A k \in DOMAIN sendBuffer : sendBuffer[k] \in FrameSet
        BY SMT DEF Base, BuffersOK
      <3> QED BY <1>4, <3>1 DEF Trying
    <2>2. \A k \in DOMAIN FlushReplies : FlushReplies[k] \in G
      <3> SUFFICES ASSUME NEW k \in DOMAIN FlushReplies PROVE FALSE
        OBVIOUS
      <3>1. PICK j \in DOMAIN receiveBuffer : FlushReplies[k].m = receiveBuffer[j]
        BY <1>1 DEF FlushAnswers
      <3>2. receiveBuffer[j] \in Events
        BY SMT, <3>1 DEF Base, BuffersOK
      <3> QED BY <1>4, <3>1, <3>2, NoEvents DEF Base, BuffersOK
    <2>3. /\ \A k \in DOMAIN sent : sent[k] \in G
          /\ \A k \in DOMAIN sendBuffer' : sendBuffer'[k] \in G
      <3> HIDE DEF G
      <3> QED BY <1>1, <1>2, <2>1, <2>2, FlushIn
    <2>4. \A k \in DOMAIN sendBuffer' : sendBuffer'[k].id \in Live => sendBuffer'[k].m \in pending
      BY <2>3
    <2>5. \A u \in S : /\ u.pc \notin {"send", "unbuffer"}
                       /\ u.pc \in {"buffer", "sleep", "onAck"} /\ u.id \in Live => u.m \in pending
      <3> SUFFICES ASSUME NEW u \in S
                   PROVE  /\ u.pc \notin {"send", "unbuffer"}
                          /\ u.pc \in {"buffer", "sleep", "onAck"} /\ u.id \in Live => u.m \in pending
        OBVIOUS
      <3>1. CASE u.pc = "drainForced"
        BY <3>1
      <3>2. CASE IsAckOf(u, sent)
        <4>1. PICK k \in DOMAIN sent : u.m = sent[k].m /\ u.id = sent[k].id
          BY <3>2 DEF IsAckOf
        <4>2. u.pc = "onAck"
          BY <3>2 DEF IsAckOf
        <4> QED BY <2>3, <4>1, <4>2
      <3> QED BY <1>2, <3>1, <3>2 DEF FlushTasks
    <2>6. UNCHANGED handler /\ UNCHANGED pending
      BY <1>1 DEF ackVars, queueVars
    <2> QED BY <1>1, <1>2, <1>4, <2>4, <2>5, <2>6, TryingSame
  <1> QED BY <1>1, <1>3, <1>4, RetryAlone

\* The other steps: those of the link, and events, which do not occur with Retries.
LEMMA OtherRetry ==
  ASSUME Base, Retry, NEW t,
         \/ ConnDoes \/ OnEventDoes(t) \/ BufferEventDoes(t)
         \/ config.retries = 0 /\ \E e, k : ServerEmitDoes(e, k)
  PROVE  Retry'
  <1>1. CASE ConnDoes
    <2>1. UNCHANGED <<config, kind, h>> /\ UNCHANGED bufVars /\ UNCHANGED ackVars /\ UNCHANGED queueVars
      BY <1>1 DEF ConnDoes
    <2>2. PICK w, S : /\ Moves(w, S) /\ w.pc \in {"none", "sendConnect", "onConnect"}
                      /\ \A u \in S : u \in Tasks /\ u.pc \in {"sendConnect", "onConnect", "flush"} /\ u.reply = FALSE
      BY <1>1 DEF ConnDoes
    <2>3. \A u \in S : /\ u.pc \notin {"send", "unbuffer"}
                       /\ u.pc \in {"buffer", "sleep", "onAck"} /\ u.id \in Live => u.m \in pending
      BY <2>2
    <2>4. Trying => /\ UNCHANGED handler /\ UNCHANGED pending
                    /\ \A k \in DOMAIN sendBuffer' : sendBuffer'[k].id \in Live => sendBuffer'[k].m \in pending
      BY <2>1 DEF ackVars, bufVars, queueVars, Trying
    <2>5. w.pc \notin {"send", "unbuffer"}
      BY <2>2
    <2>6. Trying => Trying'
      BY <2>2, <2>3, <2>4, <2>5, TryingSame
    <2> QED BY <2>1, <2>6, RetryAlone
  <1>2. CASE OnEventDoes(t)
    <2>1. t.m \in Events /\ ekind[t.m] # "none"
      BY <1>2 DEF OnEventDoes
    <2>2. ~(config.retries > 0)
      BY <2>1, NoEvents
    <2>3. UNCHANGED <<config, kind>> /\ UNCHANGED queueVars
      BY <1>2 DEF OnEventDoes
    <2>5. h'.left = h.left /\ h'.overlap = h.overlap
      BY <1>2 DEF OnEventDoes
    <2> QED BY <2>2, <2>3, <2>5, RetryAlone
  <1>3. CASE BufferEventDoes(t)
    <2>1. /\ t \in DOMAIN tasks /\ t.pc = "bufferEvent"
      BY <1>3 DEF BufferEventDoes, Buffers
    <2>2. t.m \in Events /\ ekind[t.m] # "none"
      BY <2>1, TaskFacts DEF TaskOK
    <2>3. ~(config.retries > 0)
      BY <2>2, NoEvents
    <2>4. UNCHANGED <<config, kind>> /\ UNCHANGED queueVars /\ h'.left = h.left /\ h'.overlap = h.overlap
      BY <1>3 DEF AppendDoes, BufferEventDoes, Buffers
    <2> QED BY <2>3, <2>4, RetryAlone
  <1>4. CASE config.retries = 0 /\ \E e, k : ServerEmitDoes(e, k)
    <2>1. PICK e, k : ServerEmitDoes(e, k)
      BY <1>4
    <2>2. UNCHANGED <<config, kind, h>> /\ UNCHANGED queueVars
      BY <2>1 DEF ServerEmitDoes
    <2>3. ~(config.retries > 0)
      BY <1>4, NotBoth
    <2> QED BY <2>2, <2>3, RetryAlone
  <1> QED BY <1>1, <1>2, <1>3, <1>4

-----------------------------------------------------------------------------
(* Events and their ACKs.                                                  *)

\* The events under way stay where they are.
LEMMA EventsSame ==
  ASSUME EventsOnce, NEW t, NEW S, Moves(t, S), t.pc \notin {"onEvent", "bufferEvent"},
         \A u \in S : u.pc \notin {"onEvent", "bufferEvent"},
         UNCHANGED <<receiveBuffer, ekind>>, h'.delivered = h.delivered
  PROVE  EventsOnce'
  <1>1. \A u \in Coming' : u \in Coming /\ tasks'[u] = tasks[u]
    BY DEF Coming, Moves
  <1>2. \A u \in Coming : /\ tasks[u] = 1 /\ (\A v \in Coming : v.m = u.m => v = u)
                          /\ (\A k \in DOMAIN receiveBuffer : receiveBuffer[k] # u.m)
                          /\ h.delivered[u.m] = 0
    BY DEF EventsOnce
  <1>3. \A u \in Coming' : /\ tasks'[u] = 1 /\ (\A v \in Coming' : v.m = u.m => v = u)
                           /\ (\A k \in DOMAIN receiveBuffer' : receiveBuffer'[k] # u.m)
                           /\ h'.delivered[u.m] = 0
    <2> SUFFICES ASSUME NEW u \in Coming'
                 PROVE  /\ tasks'[u] = 1 /\ (\A v \in Coming' : v.m = u.m => v = u)
                        /\ (\A k \in DOMAIN receiveBuffer' : receiveBuffer'[k] # u.m)
                        /\ h'.delivered[u.m] = 0
      OBVIOUS
    <2> QED BY <1>1, <1>2
  <1>4. /\ \A j, k \in DOMAIN receiveBuffer' : receiveBuffer'[j] = receiveBuffer'[k] => j = k
        /\ \A k \in DOMAIN receiveBuffer' : h'.delivered[receiveBuffer'[k]] = 0
        /\ \A e \in Events : h'.delivered[e] <= 1 /\ (ekind'[e] = "none" => h'.delivered[e] = 0)
    BY DEF EventsOnce
  <1> QED BY <1>3, <1>4 DEF EventsOnce

\* The ACKs under way stay where they are, or are lost.
LEMMA RepliesSame ==
  ASSUME RepliesOnce, NEW t, NEW S, Moves(t, S), t.reply = FALSE, \A u \in S : u.reply = FALSE,
         h'.delivered = h.delivered, h'.replied = h.replied,
         \A j \in Buffered' : \E k \in Buffered : sendBuffer'[j].m = sendBuffer[k].m,
         \A j, k \in Buffered' : sendBuffer'[j].m = sendBuffer'[k].m => j = k
  PROVE  RepliesOnce'
  <1>1. \A u \in Replying' : u \in Replying /\ tasks'[u] = tasks[u]
    BY DEF Replying, Moves
  <1>2. \A u \in Replying : \A k \in Buffered : sendBuffer[k].m # u.m
    BY DEF RepliesOnce
  <1>3. \A k \in Buffered : h.replied[sendBuffer[k].m] = 0 /\ h.delivered[sendBuffer[k].m] = 1
    BY DEF RepliesOnce
  <1>4. \A u \in Replying : tasks[u] = 1 /\ h.replied[u.m] = 0 /\ h.delivered[u.m] = 1
    BY DEF RepliesOnce
  <1>5. \A u, v \in Replying : v.m = u.m => v = u
    BY DEF RepliesOnce
  <1>6. \A e \in Events : h'.replied[e] <= h'.delivered[e]
    BY DEF RepliesOnce
  <1>7. \A u \in Replying' : \A k \in Buffered' : sendBuffer'[k].m # u.m
    <2> SUFFICES ASSUME NEW u \in Replying', NEW k \in Buffered' PROVE sendBuffer'[k].m # u.m
      OBVIOUS
    <2>1. PICK j \in Buffered : sendBuffer'[k].m = sendBuffer[j].m
      OBVIOUS
    <2>2. u \in Replying
      BY <1>1
    <2>3. sendBuffer[j].m # u.m
      BY <1>2, <2>2
    <2> QED BY <2>1, <2>3
  <1>8. \A k \in Buffered' : h'.replied[sendBuffer'[k].m] = 0 /\ h'.delivered[sendBuffer'[k].m] = 1
    <2> SUFFICES ASSUME NEW k \in Buffered' PROVE h'.replied[sendBuffer'[k].m] = 0 /\ h'.delivered[sendBuffer'[k].m] = 1
      OBVIOUS
    <2>1. PICK j \in Buffered : sendBuffer'[k].m = sendBuffer[j].m
      OBVIOUS
    <2>2. h.replied[sendBuffer[j].m] = 0 /\ h.delivered[sendBuffer[j].m] = 1
      BY <1>3
    <2> QED BY <2>1, <2>2
  <1>9. \A u \in Replying' : tasks'[u] = 1 /\ h'.replied[u.m] = 0 /\ h'.delivered[u.m] = 1
    <2> SUFFICES ASSUME NEW u \in Replying' PROVE tasks'[u] = 1 /\ h'.replied[u.m] = 0 /\ h'.delivered[u.m] = 1
      OBVIOUS
    <2>1. u \in Replying /\ tasks'[u] = tasks[u]
      BY <1>1
    <2> QED BY <1>4, <2>1
  <1>10. \A u, v \in Replying' : v.m = u.m => v = u
    BY <1>1, <1>5
  <1> QED BY <1>6, <1>7, <1>8, <1>9, <1>10 DEF RepliesOnce

\* The same, when the send buffer stays as it is.
LEMMA RepliesStay ==
  ASSUME RepliesOnce, NEW t, NEW S, Moves(t, S), t.reply = FALSE, \A u \in S : u.reply = FALSE,
         h'.delivered = h.delivered, h'.replied = h.replied, sendBuffer' = sendBuffer
  PROVE  RepliesOnce'
  <1>1. Buffered' = Buffered
    BY DEF Buffered
  <1>2. \A j \in Buffered' : \E k \in Buffered : sendBuffer'[j].m = sendBuffer[k].m
    BY <1>1
  <1>3. \A j, k \in Buffered' : sendBuffer'[j].m = sendBuffer'[k].m => j = k
    <2>1. \A j, k \in Buffered : sendBuffer[j].m = sendBuffer[k].m => j = k
      BY DEF RepliesOnce
    <2> QED BY <1>1, <2>1
  <1> QED BY <1>2, <1>3, RepliesSame

\* Steps that have nothing to do with events.
LEMMA OnceSame ==
  ASSUME Once, NEW t, NEW S, Moves(t, S), t.pc \notin {"onEvent", "bufferEvent"}, t.reply = FALSE,
         \A u \in S : u.pc \notin {"onEvent", "bufferEvent"} /\ u.reply = FALSE,
         UNCHANGED <<receiveBuffer, ekind, sendBuffer>>,
         h'.delivered = h.delivered, h'.replied = h.replied, h'.aborted = h.aborted
  PROVE  Once'
  <1>1. EventsOnce => EventsOnce'
    BY EventsSame
  <1>2. RepliesOnce => RepliesOnce'
    BY RepliesStay
  <1> QED BY <1>1, <1>2 DEF Once

\* The history's counts.
LEMMA Counts ==
  ASSUME Base
  PROVE  /\ h.delivered \in [Events -> Nat] /\ h.replied \in [Events -> Nat]
         /\ \A e \in Events : h.delivered[e] \in Nat /\ h.replied[e] \in Nat
  <1>1. h.delivered \in [Events -> Nat] /\ h.replied \in [Events -> Nat]
    BY SMT DEF Base, HistoryOK, Histories
  <1> QED BY <1>1

\* Events and ACKs under way are of events.
LEMMA UnderWay ==
  ASSUME Base
  PROVE  /\ \A t \in Coming : t \in DOMAIN tasks /\ t \in Tasks /\ t.m \in Events /\ t.id = t.m /\ t.reply = FALSE /\ ekind[t.m] # "none"
         /\ \A t \in Replying : t \in DOMAIN tasks /\ t \in Tasks /\ t.m \in Events /\ t.id = t.m /\ t.pc \in {"send", "buffer"}
         /\ \A k \in Buffered : k \in DOMAIN sendBuffer /\ sendBuffer[k].m \in Events
         /\ \A k \in DOMAIN receiveBuffer : receiveBuffer[k] \in Events /\ ekind[receiveBuffer[k]] # "none"
  <1>1. \A t \in Coming : t \in DOMAIN tasks /\ t \in Tasks /\ t.m \in Events /\ t.id = t.m /\ t.reply = FALSE /\ ekind[t.m] # "none"
    BY TaskFacts DEF Coming, TaskOK
  <1>2. \A t \in Replying : t \in DOMAIN tasks /\ t \in Tasks /\ t.m \in Events /\ t.id = t.m /\ t.pc \in {"send", "buffer"}
    BY TaskFacts DEF Replying, TaskOK, IsReply
  <1>3. \A k \in Buffered : k \in DOMAIN sendBuffer /\ sendBuffer[k].m \in Events
    BY DEF Base, BuffersOK, Buffered, FrameOK, IsReply
  <1>4. \A k \in DOMAIN receiveBuffer : receiveBuffer[k] \in Events
    BY SMT DEF Base, BuffersOK
  <1> QED BY <1>1, <1>2, <1>3, <1>4 DEF Base, BuffersOK

\* The handler of an event is called, or the event will be buffered.
LEMMA OnEventOnce ==
  ASSUME Base, Once, NEW t, OnEventDoes(t) PROVE Once'
  <1>1. /\ t \in DOMAIN tasks /\ t.pc = "onEvent" /\ t \in Tasks /\ t.m \in Events /\ ekind[t.m] # "none"
    BY DEF OnEventDoes
  <1>2. UNCHANGED ekind /\ UNCHANGED <<receiveBuffer, sendBuffer>>
    BY DEF OnEventDoes, bufVars
  <1>3. t \in Coming /\ t.reply = FALSE
    BY <1>1, TaskFacts DEF Coming
  <1>4. PICK S : /\ Moves(t, S)
                 /\ \/ /\ h'.replied = h.replied /\ h'.aborted = h.aborted
                       /\ h'.delivered = [h.delivered EXCEPT ![t.m] = h.delivered[t.m] + 1]
                       /\ \A u \in S : IsReplyTo(u, t) /\ (\A v \in S : v = u)
                    \/ /\ h' = h
                       /\ \A u \in S : /\ u \in Tasks /\ u.pc = "bufferEvent" /\ u.m = t.m /\ u.id = t.id /\ u.reply = FALSE
                                       /\ \A v \in S : v = u
    BY DEF OnEventDoes
  <1>5. ASSUME EventsOnce PROVE t \notin S => t \notin DOMAIN tasks'
    BY <1>1, <1>3, <1>4, <1>5 DEF EventsOnce, Moves
  <1>6. CASE h' = h /\ \A u \in S : /\ u \in Tasks /\ u.pc = "bufferEvent" /\ u.m = t.m /\ u.id = t.id /\ u.reply = FALSE
                                    /\ \A v \in S : v = u
    <2>1. ASSUME EventsOnce PROVE EventsOnce'
      <3>1. t \notin DOMAIN tasks'
        BY <1>1, <1>5, <1>6, <2>1
      <3>2. \A u \in S : u \notin DOMAIN tasks
        BY <1>1, <1>3, <1>6, <2>1 DEF EventsOnce, Coming
      <3>3. \A u \in Coming' : \/ u \in Coming /\ u # t /\ tasks'[u] = tasks[u]
                               \/ u \in S /\ tasks'[u] = 1
        BY <1>4, <3>1, <3>2 DEF Moves, Coming
      <3>4. \A u \in Coming' : \/ u \in Coming /\ u.m # t.m /\ tasks'[u] = 1
                               \/ u \in S /\ u.m = t.m /\ tasks'[u] = 1
        BY <1>3, <1>6, <2>1, <3>3 DEF EventsOnce
      <3>5. \A u, v \in Coming : v.m = u.m => v = u
        BY <2>1 DEF EventsOnce
      <3>6. \A u, v \in S : v = u
        BY <1>6
      <3>7. \A u, v \in Coming' : v.m = u.m => v = u
        <4> SUFFICES ASSUME NEW u \in Coming', NEW v \in Coming', v.m = u.m PROVE v = u
          OBVIOUS
        <4>1. CASE u \in S /\ u.m = t.m
          BY <3>4, <3>6, <4>1
        <4>2. CASE u \in Coming /\ u.m # t.m
          BY <3>4, <3>5, <4>2
        <4> QED BY <3>4, <4>1, <4>2
      <3>8. \A u \in Coming : /\ \A k \in DOMAIN receiveBuffer : receiveBuffer[k] # u.m
                              /\ h.delivered[u.m] = 0
        BY <2>1 DEF EventsOnce
      <3>9. \A u \in Coming' : /\ \A k \in DOMAIN receiveBuffer : receiveBuffer[k] # u.m
                               /\ h.delivered[u.m] = 0
        <4> SUFFICES ASSUME NEW u \in Coming'
                     PROVE  (\A k \in DOMAIN receiveBuffer : receiveBuffer[k] # u.m) /\ h.delivered[u.m] = 0
          OBVIOUS
        <4>1. CASE u \in Coming
          BY <3>8, <4>1
        <4>2. CASE u.m = t.m
          <5>1. (\A k \in DOMAIN receiveBuffer : receiveBuffer[k] # t.m) /\ h.delivered[t.m] = 0
            BY <1>3, <3>8
          <5> QED BY <4>2, <5>1
        <4> QED BY <3>4, <4>1, <4>2
      <3> QED BY <1>2, <1>6, <2>1, <3>4, <3>7, <3>9 DEF EventsOnce
    <2>2. RepliesOnce => RepliesOnce'
      BY <1>2, <1>3, <1>4, <1>6, RepliesStay
    <2> QED BY <1>6, <2>1, <2>2 DEF Once
  <1>7. CASE /\ h'.replied = h.replied /\ h'.aborted = h.aborted
             /\ h'.delivered = [h.delivered EXCEPT ![t.m] = h.delivered[t.m] + 1]
             /\ \A u \in S : IsReplyTo(u, t) /\ (\A v \in S : v = u)
    <2>1. h'.replied = h.replied /\ h'.aborted = h.aborted /\ h'.delivered = [h.delivered EXCEPT ![t.m] = h.delivered[t.m] + 1]
      BY <1>7
    <2>2. ASSUME EventsOnce, RepliesOnce PROVE EventsOnce' /\ RepliesOnce'
      <3>1. /\ h'.delivered[t.m] = h.delivered[t.m] + 1 /\ \A e \in Events : e # t.m => h'.delivered[e] = h.delivered[e]
        BY <1>1, <2>1, Counts
      <3>2. h.delivered[t.m] = 0 /\ h'.delivered[t.m] = 1 /\ h'.delivered[t.m] <= 1
        <4>1. h.delivered[t.m] = 0
          BY <1>3, <2>2 DEF EventsOnce
        <4> QED BY SMT, <3>1, <4>1
      <3>3. \A u \in S : u.pc = "send" /\ u.m = t.m /\ u.reply = TRUE
        BY <1>7 DEF IsReplyTo
      <3>4. t \notin DOMAIN tasks'
        BY <1>1, <1>5, <2>2, <3>3
      <3>5. \A u \in Coming' : u \in Coming /\ u # t /\ tasks'[u] = tasks[u]
        BY <1>4, <3>3, <3>4 DEF Moves, Coming
      <3>6. \A u \in Coming' : u.m \in Events /\ u.m # t.m
        BY <1>3, <2>2, <3>5, UnderWay DEF EventsOnce
      <3>7. \A k \in DOMAIN receiveBuffer : receiveBuffer[k] \in Events /\ receiveBuffer[k] # t.m
        BY <1>3, <2>2, UnderWay DEF EventsOnce
      <3>8. \A e \in Events : h'.delivered[e] <= 1 /\ (ekind[e] = "none" => h'.delivered[e] = 0)
        BY <1>1, <2>2, <3>1, <3>2 DEF EventsOnce
      <3>9. EventsOnce'
        <4>1. \A u \in Coming' : /\ tasks'[u] = 1 /\ (\A v \in Coming' : v.m = u.m => v = u)
                                 /\ \A k \in DOMAIN receiveBuffer : receiveBuffer[k] # u.m
                                 /\ h'.delivered[u.m] = 0
          BY <2>2, <3>1, <3>5, <3>6 DEF EventsOnce
        <4>2. \A k \in DOMAIN receiveBuffer : h'.delivered[receiveBuffer[k]] = 0
          BY <2>2, <3>1, <3>7 DEF EventsOnce
        <4>3. \A j, k \in DOMAIN receiveBuffer : receiveBuffer[j] = receiveBuffer[k] => j = k
          BY <2>2 DEF EventsOnce
        <4> QED BY <1>2, <3>8, <4>1, <4>2, <4>3 DEF EventsOnce
      <3>10. 0 # 1
        BY SMT
      <3>11. \A u \in Replying : u.m \in Events /\ u.m # t.m
        BY <2>2, <3>2, <3>10, UnderWay DEF RepliesOnce
      <3>12. \A k \in Buffered : sendBuffer[k].m \in Events /\ sendBuffer[k].m # t.m
        BY <2>2, <3>2, <3>10, UnderWay DEF RepliesOnce
      <3>13. \A u \in Replying' : \/ u \in Replying /\ tasks'[u] = tasks[u]
                                  \/ u \in S /\ u.m = t.m /\ tasks'[u] = 1
        <4>1. \A u \in S : u \notin DOMAIN tasks
          BY <3>3, <3>11 DEF Replying
        <4> QED BY <1>3, <1>4, <3>3, <4>1 DEF Moves, Replying
      <3>14. Buffered' = Buffered
        BY <1>2 DEF Buffered
      <3>15. h.replied[t.m] = 0
        <4>1. h.replied[t.m] <= 0 /\ h.replied[t.m] \in Nat
          BY <1>1, <2>2, <3>2, Counts DEF RepliesOnce
        <4> QED BY SMT, <4>1
      <3>16. \A u \in Replying' : /\ tasks'[u] = 1 /\ (\A k \in Buffered : sendBuffer[k].m # u.m)
                                  /\ h'.replied[u.m] = 0 /\ h'.delivered[u.m] = 1
        <4> SUFFICES ASSUME NEW u \in Replying'
                     PROVE  /\ tasks'[u] = 1 /\ (\A k \in Buffered : sendBuffer[k].m # u.m)
                            /\ h'.replied[u.m] = 0 /\ h'.delivered[u.m] = 1
          OBVIOUS
        <4>1. CASE u \in Replying /\ tasks'[u] = tasks[u]
          BY <2>1, <2>2, <3>1, <3>11, <4>1 DEF RepliesOnce
        <4>2. CASE u \in S /\ u.m = t.m /\ tasks'[u] = 1
          BY <2>1, <3>2, <3>12, <3>15, <4>2
        <4> QED BY <3>13, <4>1, <4>2
      <3>17. \A u, v \in Replying' : v.m = u.m => v = u
        <4> SUFFICES ASSUME NEW u \in Replying', NEW v \in Replying', v.m = u.m PROVE v = u
          OBVIOUS
        <4>1. CASE u \in Replying /\ v \in Replying
          BY <2>2, <4>1 DEF RepliesOnce
        <4>2. CASE u \in S /\ u.m = t.m
          BY <1>7, <3>11, <3>13, <4>2
        <4>3. CASE v \in S /\ v.m = t.m
          BY <1>7, <3>11, <3>13, <4>3
        <4> QED BY <3>13, <4>1, <4>2, <4>3
      <3>18. \A k \in Buffered : h'.replied[sendBuffer[k].m] = 0 /\ h'.delivered[sendBuffer[k].m] = 1
        BY <2>1, <2>2, <3>1, <3>12 DEF RepliesOnce
      <3>19. \A e \in Events : h'.replied[e] <= h'.delivered[e]
        <4>1. 0 <= 1
          BY SMT
        <4> QED BY <2>1, <2>2, <3>1, <3>2, <3>15, <4>1 DEF RepliesOnce
      <3>20. \A j, k \in Buffered : sendBuffer[j].m = sendBuffer[k].m => j = k
        BY <2>2 DEF RepliesOnce
      <3>21. RepliesOnce'
        BY <1>2, <3>14, <3>16, <3>17, <3>18, <3>19, <3>20 DEF RepliesOnce
      <3> QED BY <3>9, <3>21
    <2> QED BY <2>1, <2>2 DEF Once
  <1> QED BY <1>4, <1>6, <1>7

\* An event that was being handled goes to the receive buffer.
LEMMA BufferEventOnce ==
  ASSUME Base, Once, NEW t, BufferEventDoes(t) PROVE Once'
  <1>1. /\ t \in DOMAIN tasks /\ t.pc = "bufferEvent" /\ receiveBuffer' = Append(receiveBuffer, t.m)
        /\ UNCHANGED sendBuffer /\ UNCHANGED ekind
    BY DEF BufferEventDoes, Buffers
  <1>2. /\ Moves(t, {}) /\ h'.delivered = h.delivered /\ h'.replied = h.replied /\ h'.aborted = h.aborted
    BY DEF BufferEventDoes, Buffers
  <1>3. t \in Coming /\ t.reply = FALSE
    BY <1>1, UnderWay DEF Coming
  <1>4. ASSUME RepliesOnce PROVE RepliesOnce'
    <2>1. PICK S : S = {}
      OBVIOUS
    <2>2. Moves(t, S) /\ \A u \in S : u.reply = FALSE
      BY <1>2, <2>1
    <2> QED BY <1>1, <1>2, <1>3, <1>4, <2>2, RepliesStay
  <1>5. ASSUME EventsOnce PROVE EventsOnce'
    <2> DEFINE N == Len(receiveBuffer) + 1
    <2>1. /\ \A k \in DOMAIN receiveBuffer' : \/ k \in DOMAIN receiveBuffer /\ receiveBuffer'[k] = receiveBuffer[k]
                                              \/ k = N /\ receiveBuffer'[k] = t.m
      <3>1. receiveBuffer \in Seq(Events)
        BY DEF Base, BuffersOK
      <3>2. t.m \in Events
        BY <1>3, UnderWay
      <3> QED BY SMT, <1>1, <3>1, <3>2
    <2> HIDE DEF N
    <2>2. tasks[t] = 1 /\ (\A u \in Coming : u.m = t.m => u = t) /\ (\A k \in DOMAIN receiveBuffer : receiveBuffer[k] # t.m)
      BY <1>3, <1>5 DEF EventsOnce
    <2>3. h.delivered[t.m] = 0
      BY <1>3, <1>5 DEF EventsOnce
    <2>4. \A u \in Coming' : u \in Coming /\ u.m # t.m /\ tasks'[u] = tasks[u]
      <3>1. t \notin DOMAIN tasks'
        BY <1>1, <1>2, <2>2 DEF Moves
      <3> QED BY <1>2, <2>2, <3>1 DEF Moves, Coming
    <2>5. \A u \in Coming : (\A k \in DOMAIN receiveBuffer : receiveBuffer[k] # u.m) /\ h.delivered[u.m] = 0
      BY <1>5 DEF EventsOnce
    <2>6. \A u \in Coming' : \A k \in DOMAIN receiveBuffer' : receiveBuffer'[k] # u.m
      BY <2>1, <2>4, <2>5
    <2>7. \A u \in Coming : tasks[u] = 1 /\ \A v \in Coming : v.m = u.m => v = u
      BY <1>5 DEF EventsOnce
    <2>8. \A j, k \in DOMAIN receiveBuffer : receiveBuffer[j] = receiveBuffer[k] => j = k
      BY <1>5 DEF EventsOnce
    <2>9. \A j, k \in DOMAIN receiveBuffer' : receiveBuffer'[j] = receiveBuffer'[k] => j = k
      BY <2>1, <2>2, <2>8
    <2>10. \A k \in DOMAIN receiveBuffer : h.delivered[receiveBuffer[k]] = 0
      BY <1>5 DEF EventsOnce
    <2>11. \A k \in DOMAIN receiveBuffer' : h'.delivered[receiveBuffer'[k]] = 0
      <3> SUFFICES ASSUME NEW k \in DOMAIN receiveBuffer' PROVE h.delivered[receiveBuffer'[k]] = 0
        BY <1>2
      <3>1. CASE k \in DOMAIN receiveBuffer /\ receiveBuffer'[k] = receiveBuffer[k]
        BY <2>10, <3>1
      <3>2. CASE receiveBuffer'[k] = t.m
        BY <2>3, <3>2
      <3> QED BY <2>1, <3>1, <3>2
    <2>12. \A u \in Coming' : /\ tasks'[u] = 1 /\ \A v \in Coming' : v.m = u.m => v = u
                              /\ h'.delivered[u.m] = 0
      BY <1>2, <2>4, <2>5, <2>7
    <2>13. \A e \in Events : h'.delivered[e] <= 1 /\ (ekind'[e] = "none" => h'.delivered[e] = 0)
      BY <1>1, <1>2, <1>5 DEF EventsOnce
    <2> QED BY <2>6, <2>9, <2>11, <2>12, <2>13 DEF EventsOnce
  <1> QED BY <1>2, <1>4, <1>5 DEF Once

\* A new event of the server arrives.
LEMMA ServerEmitOnce ==
  ASSUME Base, Once, NEW e \in Events, NEW k \in EventKinds, ServerEmitDoes(e, k) PROVE Once'
  <1>1. PICK u : /\ Moves(NoTask, {u}) /\ u \in Tasks /\ u.pc = "onEvent" /\ u.m = e /\ u.id = e /\ u.reply = FALSE
    BY DEF ServerEmitDoes
  <1>2. /\ ekind[e] = "none" /\ ekind' = [ekind EXCEPT ![e] = k] /\ h' = h
        /\ receiveBuffer' = receiveBuffer /\ sendBuffer' = sendBuffer
    <2>1. /\ ekind[e] = "none" /\ ekind' = [ekind EXCEPT ![e] = k] /\ UNCHANGED h /\ UNCHANGED bufVars
      BY DEF ServerEmitDoes
    <2> QED BY <2>1 DEF bufVars
  <1>3. NoTask.reply = FALSE /\ NoTask.pc = "none"
    BY SMT DEF NoTask
  <1>4. RepliesOnce => RepliesOnce'
    BY <1>1, <1>2, <1>3, RepliesStay
  <1>5. ASSUME EventsOnce PROVE EventsOnce'
    <2>1. \A v \in Coming : v.m # e /\ v # u
      BY <1>1, <1>2, UnderWay
    <2>2. u \notin DOMAIN tasks
      BY <1>1, <2>1 DEF Coming
    <2>3. \A v \in Coming' : \/ v \in Coming /\ tasks'[v] = tasks[v]
                             \/ v = u /\ tasks'[v] = 1
      BY <1>1, <1>3, <2>2 DEF Moves, Coming
    <2>4. \A j \in DOMAIN receiveBuffer : receiveBuffer[j] # e
      BY <1>2, UnderWay
    <2>5. h.delivered[e] = 0
      BY <1>2, <1>5 DEF EventsOnce
    <2>6. \A v \in Coming : /\ tasks[v] = 1 /\ (\A j \in DOMAIN receiveBuffer : receiveBuffer[j] # v.m)
                            /\ h.delivered[v.m] = 0
      BY <1>5 DEF EventsOnce
    <2>7. \A v \in Coming' : /\ tasks'[v] = 1 /\ (\A j \in DOMAIN receiveBuffer : receiveBuffer[j] # v.m)
                             /\ h.delivered[v.m] = 0
      BY <1>1, <2>3, <2>4, <2>5, <2>6
    <2>8. \A v, w \in Coming : w.m = v.m => w = v
      BY <1>5 DEF EventsOnce
    <2>9. \A v, w \in Coming' : w.m = v.m => w = v
      BY <1>1, <2>1, <2>3, <2>8
    <2>10. \A d \in Events : ekind'[d] = "none" => ekind[d] = "none"
      <3>1. ekind \in [Events -> EventKinds \cup {"none"}]
        BY DEF Base, KindsOK
      <3>2. k # "none"
        BY DEF EventKinds
      <3> QED BY <1>2, <3>1, <3>2
    <2> QED BY <1>2, <1>5, <2>7, <2>9, <2>10 DEF EventsOnce
  <1> QED BY <1>2, <1>4, <1>5 DEF Once

\* The steps that have nothing to do with events.
LEMMA OtherOnce ==
  ASSUME Base, Once, NEW t,
         \/ DrainDoes(t) \/ ExpireDoes(t) \/ OnAckDoes(t) \/ ConnDoes
         \/ \E m, k : EmitDoes(m, k)
  PROVE  Once'
  <1> DEFINE Quiet(w, S) == /\ Moves(w, S) /\ w.pc \notin {"onEvent", "bufferEvent"} /\ w.reply = FALSE
                            /\ \A u \in S : u.pc \notin {"onEvent", "bufferEvent"} /\ u.reply = FALSE
             Still == /\ UNCHANGED <<receiveBuffer, ekind, sendBuffer>>
                      /\ h'.delivered = h.delivered /\ h'.replied = h.replied /\ h'.aborted = h.aborted
  <1>0. NoTask.reply = FALSE /\ NoTask.pc = "none"
    BY SMT DEF NoTask
  <1>1. CASE DrainDoes(t)
    <2>1. t \in DOMAIN tasks /\ t.pc \in {"drain", "drainForced"} /\ UNCHANGED ekind /\ UNCHANGED bufVars
      BY <1>1 DEF DrainDoes
    <2>2. PICK S : Moves(t, S) /\ Draws(S, queue)
      BY <1>1 DEF DrainDoes
    <2>3. t.reply = FALSE
      BY <2>1, TaskFacts
    <2>4. Quiet(t, S)
      BY <2>1, <2>2, <2>3 DEF Draws
    <2>5. Still
      BY <2>1, <2>2 DEF Draws, bufVars
    <2> QED BY <2>4, <2>5, OnceSame
  <1>2. CASE ExpireDoes(t)
    <2>1. t \in DOMAIN tasks /\ t.pc = "sleep" /\ UNCHANGED <<ekind, h>> /\ UNCHANGED bufVars
      BY <1>2 DEF ExpireDoes
    <2>2. t.reply = FALSE
      BY <2>1, TaskFacts
    <2>4. PICK u : u.pc = "unbuffer" /\ u.reply = FALSE /\ (Moves(t, {}) \/ Moves(t, {u}))
      <3>1. CASE Moves(t, {})
        <4>1. PICK u : u = [pc |-> "unbuffer", reply |-> FALSE]
          OBVIOUS
        <4>2. u.pc = "unbuffer" /\ u.reply = FALSE
          BY <4>1
        <4> QED BY <3>1, <4>2
      <3> QED BY <1>2, <3>1 DEF ExpireDoes
    <2>7. PICK S : Moves(t, S) /\ S \subseteq {u}
      <3>1. PICK P, R : P = {} /\ R = {u}
        OBVIOUS
      <3>2. P \subseteq {u} /\ R \subseteq {u} /\ (Moves(t, P) \/ Moves(t, R))
        BY <2>4, <3>1
      <3> QED BY <3>2
    <2>8. Quiet(t, S)
      BY <2>1, <2>2, <2>4, <2>7
    <2>9. Still
      BY <2>1 DEF bufVars
    <2> QED BY <2>8, <2>9, OnceSame
  <1>3. CASE OnAckDoes(t)
    <2>1. t.pc = "onAck" /\ t.reply = FALSE /\ UNCHANGED ekind /\ UNCHANGED bufVars
      BY <1>3 DEF OnAckDoes
    <2>2. PICK S : /\ Moves(t, S) /\ Drains(S) /\ (UNCHANGED h \/ HandlerCalled(t, FALSE))
      BY <1>3 DEF OnAckDoes
    <2>3. Quiet(t, S)
      BY <2>1, <2>2 DEF Drains
    <2>4. Still
      BY <2>1, <2>2 DEF HandlerCalled, bufVars
    <2> QED BY <2>3, <2>4, OnceSame
  <1>4. CASE ConnDoes
    <2>1. UNCHANGED <<ekind, h>> /\ UNCHANGED bufVars
      BY <1>4 DEF ConnDoes
    <2>2. PICK w, S : /\ Moves(w, S) /\ w.pc \in {"none", "sendConnect", "onConnect"} /\ w.reply = FALSE
                      /\ \A u \in S : u \in Tasks /\ u.pc \in {"sendConnect", "onConnect", "flush"} /\ u.reply = FALSE
      BY <1>4 DEF ConnDoes
    <2>3. Quiet(w, S)
      BY <2>2
    <2>4. Still
      BY <2>1 DEF bufVars
    <2> QED BY <2>3, <2>4, OnceSame
  <1>5. CASE \E m, k : EmitDoes(m, k)
    <2>1. PICK m, k : EmitDoes(m, k)
      BY <1>5
    <2>2. UNCHANGED ekind /\ UNCHANGED bufVars
      BY <2>1 DEF EmitDoes
    <2>3. CASE config.retries > 0
      <3>1. PICK S : Moves(NoTask, S) /\ Draws(S, queue')
        BY <2>1, <2>3 DEF EmitDoes
      <3>2. Quiet(NoTask, S)
        BY <1>0, <3>1 DEF Draws
      <3>3. Still
        BY <2>2, <3>1 DEF Draws, bufVars
      <3> QED BY <3>2, <3>3, OnceSame
    <2>4. CASE ~(config.retries > 0)
      <3>1. PICK u : /\ Moves(NoTask, {u}) /\ u.pc = "send" /\ u.reply = FALSE
        BY <2>1, <2>4 DEF EmitDoes
      <3>2. h' = h
        BY <2>1, <2>4 DEF EmitDoes
      <3>3. Quiet(NoTask, {u})
        BY <1>0, <3>1
      <3>4. Still
        BY <2>2, <3>2 DEF bufVars
      <3> QED BY <3>3, <3>4, OnceSame
    <2> QED BY <2>3, <2>4
  <1> QED BY <1>1, <1>2, <1>3, <1>4, <1>5

\* The goroutine that sends an ACK ends, and may become one that buffers it.
LEMMA ReplyMoves ==
  ASSUME Base, RepliesOnce, NEW t \in Replying, NEW S, Moves(t, S),
         \A u \in S : u \in Tasks /\ u.pc = "buffer" /\ u.m = t.m /\ u.reply = TRUE /\ \A v \in S : v = u,
         S = {} \/ t.pc = "send"
  PROVE  /\ \A u \in Replying' : \/ u \in Replying /\ u.m # t.m /\ tasks'[u] = 1
                                 \/ u \in S /\ u.m = t.m /\ tasks'[u] = 1
         /\ \A u, v \in Replying' : v.m = u.m => v = u
  <1>1. tasks[t] = 1 /\ \A u \in Replying : u.m = t.m => u = t
    BY DEF RepliesOnce
  <1>2. \A u \in Replying : tasks[u] = 1
    BY DEF RepliesOnce
  <1>3. t \notin S
    OBVIOUS
  <1>4. t \notin DOMAIN tasks'
    BY <1>1, <1>3, UnderWay DEF Moves
  <1>5. \A u \in S : u \notin DOMAIN tasks
    BY <1>1, <1>3 DEF Replying
  <1>6. \A u \in Replying' : \/ u \in Replying /\ u # t /\ tasks'[u] = tasks[u]
                             \/ u \in S /\ tasks'[u] = 1
    BY <1>4, <1>5 DEF Replying, Moves
  <1>7. \A u \in Replying' : \/ u \in Replying /\ u.m # t.m /\ tasks'[u] = 1
                             \/ u \in S /\ u.m = t.m /\ tasks'[u] = 1
    BY <1>1, <1>2, <1>6
  <1>8. \A u, v \in Replying : v.m = u.m => v = u
    BY DEF RepliesOnce
  <1>9. \A u, v \in Replying' : v.m = u.m => v = u
    <2> SUFFICES ASSUME NEW u \in Replying', NEW v \in Replying', v.m = u.m PROVE v = u
      OBVIOUS
    <2>1. CASE u \in S /\ u.m = t.m
      BY <1>7, <2>1
    <2>2. CASE u \in Replying /\ u.m # t.m
      BY <1>7, <1>8, <2>2
    <2> QED BY <1>7, <2>1, <2>2
  <1> QED BY <1>7, <1>9

\* An ACK is sent, or will be buffered.
LEMMA SendOnce ==
  ASSUME Base, Once, NEW t, SendDoes(t) PROVE Once'
  <1>2. t \in DOMAIN tasks /\ t.pc = "send"
    BY DEF SendDoes
  <1>3. PICK r, S : /\ r \in Tasks /\ r.m = t.m /\ r.reply = t.reply
                    /\ Moves(t, S) /\ (\A u \in S : IsSent(u, t, r))
                    /\ UNCHANGED h \/ (Replied(Frames(r)) /\ \A u \in S : u.pc # "buffer")
    BY DEF SendDoes
  <1>4. UNCHANGED <<receiveBuffer, ekind, sendBuffer>>
    BY DEF SendDoes, bufVars
  <1>5. r \in Tasks /\ r.m = t.m /\ r.reply = t.reply /\ t.reply \in BOOLEAN
    BY <1>2, <1>3, TaskFacts, TaskForms
  <1>6. h \in Histories
    BY DEF Base, HistoryOK
  <1>7. Frames(r) \in Seq(FrameSet) /\ \A k \in DOMAIN Frames(r) : /\ Frames(r)[k].m = t.m /\ Frames(r)[k].reply = t.reply
                                                                  /\ k \in 1..2 /\ (k = 2 => ~t.reply)
    <2>1. Frames(r) \in Seq(FrameSet) /\ \A k \in DOMAIN Frames(r) : /\ Frames(r)[k].m = r.m /\ Frames(r)[k].reply = r.reply
                                                                    /\ k \in 1..2 /\ (k = 2 => ~r.reply)
      BY <1>5, FramesForm
    <2> QED BY <1>5, <2>1
  <1>8. h'.delivered = h.delivered /\ h'.aborted = h.aborted /\ h' \in Histories
    BY <1>3, <1>6 DEF Replied
  <1>9. EventsOnce => EventsOnce'
    <2>1. \A u \in S : u.pc \notin {"onEvent", "bufferEvent"}
      BY <1>3 DEF IsSent
    <2> QED BY <1>2, <1>3, <1>4, <1>8, <2>1, EventsSame
  <1>10. ASSUME RepliesOnce, t.reply = FALSE PROVE RepliesOnce'
    <2>1. \A u \in S : u.reply = FALSE
      BY <1>3, <1>10 DEF IsSent
    <2>2. h'.replied = h.replied
      <3>1. CASE Replied(Frames(r))
        <4>1. \A e \in Events : RepliesOf(Frames(r), e) = {}
          BY <1>7, <1>10 DEF RepliesOf
        <4>2. \A e \in Events : h'.replied[e] = h.replied[e]
          BY <3>1, <4>1 DEF Replied, Added
        <4>3. h.replied \in [Events -> Nat] /\ h'.replied \in [Events -> Nat]
          BY SMT, <1>6, <1>8 DEF Histories
        <4> QED BY SMT, <4>2, <4>3
      <3> QED BY <1>3, <3>1
    <2> QED BY <1>3, <1>4, <1>8, <1>10, <2>1, <2>2, RepliesStay
  <1>11. ASSUME RepliesOnce, t.reply = TRUE PROVE RepliesOnce'
    <2>1. t \in Replying
      BY <1>2, <1>11 DEF Replying
    <2>2. \A u \in S : u \in Tasks /\ u.pc = "buffer" /\ u.m = t.m /\ u.reply = TRUE /\ u.id = r.id
      <3>1. ~NeedsAck(t)
        BY <1>11 DEF NeedsAck
      <3> QED BY <1>3, <1>11, <3>1 DEF IsSent
    <2>3. \A u, v \in S : v = u
      BY SMT, <2>2 DEF Tasks
    <2>4. /\ \A u \in Replying' : \/ u \in Replying /\ u.m # t.m /\ tasks'[u] = 1
                                  \/ u \in S /\ u.m = t.m /\ tasks'[u] = 1
          /\ \A u, v \in Replying' : v.m = u.m => v = u
      BY <1>2, <1>3, <1>11, <2>1, <2>2, <2>3, ReplyMoves
    <2>5. Buffered' = Buffered
      BY <1>4 DEF Buffered
    <2>6. t.m \in Events
      BY <2>1, UnderWay
    <2>7. /\ h.replied[t.m] = 0 /\ h.delivered[t.m] = 1 /\ \A k \in Buffered : sendBuffer[k].m # t.m
      BY <1>11, <2>1 DEF RepliesOnce
    <2>8. /\ \A e \in Events : e # t.m => h'.replied[e] = h.replied[e]
          /\ \A e \in Events : h'.replied[e] <= h.delivered[e]
          /\ S # {} => h'.replied[t.m] = 0
      <3>1. CASE h' = h
        BY <1>11, <2>7, <3>1 DEF RepliesOnce
      <3>2. CASE Replied(Frames(r)) /\ \A u \in S : u.pc # "buffer"
        <4>2. \A e \in Events : e # t.m => RepliesOf(Frames(r), e) = {}
          BY <1>7 DEF RepliesOf
        <4>5. \A e \in Events : e # t.m => h'.replied[e] = h.replied[e]
          BY <3>2, <4>2 DEF Replied, Added
        <4>6. h'.replied[t.m] <= 1
          <5>1. \A k \in RepliesOf(Frames(r), t.m) : k \in 1..2 /\ k # 2
            BY <1>7, <1>11 DEF RepliesOf
          <5>2. \A x, y \in 1..2 : x # 2 /\ y # 2 => x = y
            BY SMT
          <5>3. \A x, y \in RepliesOf(Frames(r), t.m) : x = y
            BY <5>1, <5>2
          <5>4. h'.replied[t.m] <= 0 + 1
            BY <2>6, <2>7, <3>2, <5>3 DEF Replied, Added
          <5>5. 0 + 1 = 1
            BY SMT
          <5> QED BY <5>4, <5>5
        <4>7. S = {}
          BY <2>2, <3>2
        <4>8. \A e \in Events : h'.replied[e] <= h.delivered[e]
          BY <1>11, <2>7, <4>5, <4>6 DEF RepliesOnce
        <4> QED BY <4>5, <4>7, <4>8
      <3> QED BY <1>3, <3>1, <3>2
    <2>9. \A u \in Replying : u.m \in Events /\ h.replied[u.m] = 0 /\ h.delivered[u.m] = 1 /\ \A k \in Buffered : sendBuffer[k].m # u.m
      BY <1>11, UnderWay DEF RepliesOnce
    <2>10. \A u \in Replying' : /\ tasks'[u] = 1 /\ h'.replied[u.m] = 0 /\ h'.delivered[u.m] = 1
                                /\ \A k \in Buffered : sendBuffer[k].m # u.m
      <3> SUFFICES ASSUME NEW u \in Replying'
                   PROVE  /\ tasks'[u] = 1 /\ h'.replied[u.m] = 0 /\ h.delivered[u.m] = 1
                          /\ \A k \in Buffered : sendBuffer[k].m # u.m
        BY <1>8
      <3>1. CASE u \in Replying /\ u.m # t.m /\ tasks'[u] = 1
        BY <2>8, <2>9, <3>1
      <3>2. CASE u \in S /\ u.m = t.m /\ tasks'[u] = 1
        BY <2>7, <2>8, <3>2
      <3> QED BY <2>4, <3>1, <3>2
    <2>11. \A k \in Buffered : h'.replied[sendBuffer[k].m] = 0 /\ h'.delivered[sendBuffer[k].m] = 1
      <3> SUFFICES ASSUME NEW k \in Buffered PROVE h'.replied[sendBuffer[k].m] = 0 /\ h.delivered[sendBuffer[k].m] = 1
        BY <1>8
      <3>1. sendBuffer[k].m \in Events /\ sendBuffer[k].m # t.m
        BY <2>7, UnderWay
      <3>2. h.replied[sendBuffer[k].m] = 0 /\ h.delivered[sendBuffer[k].m] = 1
        BY <1>11 DEF RepliesOnce
      <3> QED BY <2>8, <3>1, <3>2
    <2>12. \A j, k \in Buffered : sendBuffer[j].m = sendBuffer[k].m => j = k
      BY <1>11 DEF RepliesOnce
    <2>13. /\ \A u \in Replying' : /\ tasks'[u] = 1 /\ h'.replied[u.m] = 0 /\ h'.delivered[u.m] = 1
                                   /\ \A k \in Buffered' : sendBuffer'[k].m # u.m
           /\ \A k \in Buffered' : h'.replied[sendBuffer'[k].m] = 0 /\ h'.delivered[sendBuffer'[k].m] = 1
           /\ \A j, k \in Buffered' : sendBuffer'[j].m = sendBuffer'[k].m => j = k
      BY <1>4, <2>5, <2>10, <2>11, <2>12
    <2>14. \A e \in Events : h'.replied[e] <= h'.delivered[e]
      BY <1>8, <2>8
    <2> QED BY <2>4, <2>13, <2>14 DEF RepliesOnce
  <1> QED BY <1>5, <1>8, <1>9, <1>10, <1>11 DEF Once

\* An ACK is appended to the send buffer.
LEMMA AppendOnce ==
  ASSUME Base, Once, NEW t, AppendDoes(t) PROVE Once'
  <1>1. /\ t \in DOMAIN tasks /\ t.pc = "buffer" /\ sendBuffer' = sendBuffer \o Frames(t)
        /\ UNCHANGED receiveBuffer /\ UNCHANGED ekind
    BY DEF AppendDoes, Buffers
  <1>2. /\ Moves(t, {}) /\ t \in Tasks /\ h'.delivered = h.delivered /\ h'.replied = h.replied /\ h'.aborted = h.aborted
    BY <1>1, TaskFacts DEF AppendDoes, Buffers
  <1>3. PICK S : S = {}
    OBVIOUS
  <1>4. Moves(t, S) /\ \A u \in S : FALSE
    BY <1>2, <1>3
  <1>5. EventsOnce => EventsOnce'
    BY <1>1, <1>2, <1>4, EventsSame
  <1> DEFINE n == Len(sendBuffer)
  <1>6. Frames(t) \in Seq(FrameSet) /\ \A k \in DOMAIN Frames(t) : /\ Frames(t)[k].m = t.m /\ Frames(t)[k].reply = t.reply
                                                                  /\ k \in 1..2 /\ (k = 2 => ~t.reply)
    BY <1>2, FramesForm
  <1>7. \A k \in DOMAIN sendBuffer' : \/ k \in DOMAIN sendBuffer /\ sendBuffer'[k] = sendBuffer[k]
                                      \/ k - n \in DOMAIN Frames(t) /\ sendBuffer'[k] = Frames(t)[k - n] /\ k \in Int /\ n \in Int
    <2>1. sendBuffer \in Seq(FrameSet)
      BY DEF Base, BuffersOK
    <2> QED BY SMT, <1>1, <1>6, <2>1
  <1> HIDE DEF n
  <1>8. ASSUME RepliesOnce, t.reply = FALSE PROVE RepliesOnce'
    <2>1. \A k \in Buffered' : k \in Buffered /\ sendBuffer'[k] = sendBuffer[k]
      BY <1>6, <1>7, <1>8 DEF Buffered
    <2>2. \A j \in Buffered' : \E k \in Buffered : sendBuffer'[j].m = sendBuffer[k].m
      BY <2>1
    <2>3. \A j, k \in Buffered : sendBuffer[j].m = sendBuffer[k].m => j = k
      BY <1>8 DEF RepliesOnce
    <2>4. \A j, k \in Buffered' : sendBuffer'[j].m = sendBuffer'[k].m => j = k
      BY <2>1, <2>3
    <2> QED BY <1>2, <1>4, <1>8, <2>2, <2>4, RepliesSame
  <1>9. ASSUME RepliesOnce, t.reply = TRUE PROVE RepliesOnce'
    <2>1. t \in Replying
      BY <1>1, <1>9 DEF Replying
    <2>2. \A k \in Buffered' : \/ k \in Buffered /\ sendBuffer'[k] = sendBuffer[k]
                               \/ k = n + 1 /\ sendBuffer'[k].m = t.m
      <3> SUFFICES ASSUME NEW k \in Buffered' PROVE \/ k \in Buffered /\ sendBuffer'[k] = sendBuffer[k]
                                                    \/ k = n + 1 /\ sendBuffer'[k].m = t.m
        OBVIOUS
      <3>0. k \in DOMAIN sendBuffer' /\ sendBuffer'[k].reply
        BY DEF Buffered
      <3>1. CASE k \in DOMAIN sendBuffer /\ sendBuffer'[k] = sendBuffer[k]
        BY <3>0, <3>1 DEF Buffered
      <3>2. CASE k - n \in DOMAIN Frames(t) /\ sendBuffer'[k] = Frames(t)[k - n] /\ k \in Int /\ n \in Int
        <4>1. k - n \in 1..2 /\ k - n # 2 /\ sendBuffer'[k].m = t.m
          BY <1>6, <1>9, <3>2
        <4>2. k = n + 1
          BY SMT, <3>2, <4>1
        <4> QED BY <4>1, <4>2
      <3> QED BY <1>7, <3>0, <3>1, <3>2
    <2>3. /\ \A u \in Replying' : \/ u \in Replying /\ u.m # t.m /\ tasks'[u] = 1
                                  \/ u \in S /\ u.m = t.m /\ tasks'[u] = 1
          /\ \A u, v \in Replying' : v.m = u.m => v = u
      BY <1>3, <1>4, <1>9, <2>1, ReplyMoves
    <2>4. \A u \in Replying' : u \in Replying /\ u.m # t.m /\ tasks'[u] = 1
      BY <1>4, <2>3
    <2>5. \A u \in Replying : h.replied[u.m] = 0 /\ h.delivered[u.m] = 1 /\ \A k \in Buffered : sendBuffer[k].m # u.m
      BY <1>9 DEF RepliesOnce
    <2>6. \A k \in Buffered : h.replied[sendBuffer[k].m] = 0 /\ h.delivered[sendBuffer[k].m] = 1
      BY <1>9 DEF RepliesOnce
    <2>7. \A j, k \in Buffered : sendBuffer[j].m = sendBuffer[k].m => j = k
      BY <1>9 DEF RepliesOnce
    <2>8. \A u \in Replying' : \A k \in Buffered' : sendBuffer'[k].m # u.m
      BY <2>2, <2>4, <2>5
    <2>9. \A k \in Buffered' : h.replied[sendBuffer'[k].m] = 0 /\ h.delivered[sendBuffer'[k].m] = 1
      <3> SUFFICES ASSUME NEW k \in Buffered' PROVE h.replied[sendBuffer'[k].m] = 0 /\ h.delivered[sendBuffer'[k].m] = 1
        OBVIOUS
      <3>1. CASE k \in Buffered /\ sendBuffer'[k] = sendBuffer[k]
        BY <2>6, <3>1
      <3>2. CASE sendBuffer'[k].m = t.m
        BY <2>1, <2>5, <3>2
      <3> QED BY <2>2, <3>1, <3>2
    <2>10. \A j, k \in Buffered' : sendBuffer'[j].m = sendBuffer'[k].m => j = k
      <3>1. \A k \in Buffered : sendBuffer[k].m # t.m
        BY <2>1, <2>5
      <3> QED BY <2>2, <2>7, <3>1
    <2>11. \A u \in Replying' : tasks'[u] = 1 /\ h.replied[u.m] = 0 /\ h.delivered[u.m] = 1
      BY <2>4, <2>5
    <2>12. \A e \in Events : h.replied[e] <= h.delivered[e]
      BY <1>9 DEF RepliesOnce
    <2> QED BY <1>2, <2>3, <2>8, <2>9, <2>10, <2>11, <2>12 DEF RepliesOnce
  <1>10. t.reply \in BOOLEAN
    BY <1>2, TaskForms
  <1> QED BY <1>2, <1>5, <1>8, <1>9, <1>10 DEF Once

\* The loop of the timeout may remove ACKs whose ID is that of the packet.
LEMMA TimeOutOnce ==
  ASSUME Base, Once, NEW t, TimeOutDoes(t) PROVE Once'
  <1>1. /\ t.pc = "unbuffer" /\ t.reply = FALSE
        /\ UNCHANGED <<receiveBuffer, ekind>>
    BY DEF TimeOutDoes
  <1>2. PICK S : /\ Moves(t, S) /\ Drains(S) /\ (UNCHANGED h \/ HandlerCalled(t, TRUE))
    BY DEF TimeOutDoes
  <1>3. h'.delivered = h.delivered /\ h'.replied = h.replied /\ h'.aborted = h.aborted
    BY <1>2 DEF HandlerCalled
  <1>4. \A u \in S : u.pc = "drain" /\ u.reply = FALSE
    BY <1>2 DEF Drains
  <1>5. EventsOnce => EventsOnce'
    BY <1>1, <1>2, <1>3, <1>4, EventsSame
  <1>6. ASSUME RepliesOnce PROVE RepliesOnce'
    <2>4. PICK f \in [DOMAIN sendBuffer' -> DOMAIN sendBuffer] :
            /\ \A j \in DOMAIN sendBuffer' : sendBuffer'[j] = sendBuffer[f[j]]
            /\ \A j, l \in DOMAIN sendBuffer' : f[j] = f[l] => j = l
      BY DEF TimeOutDoes, Subbuffer
    <2>5. \A j \in Buffered' : f[j] \in Buffered /\ sendBuffer'[j] = sendBuffer[f[j]]
      BY <2>4 DEF Buffered
    <2>6. \A j, k \in Buffered : sendBuffer[j].m = sendBuffer[k].m => j = k
      BY <1>6 DEF RepliesOnce
    <2>7. \A j \in Buffered' : \E k \in Buffered : sendBuffer'[j].m = sendBuffer[k].m
      BY <2>5
    <2>8. \A j, k \in Buffered' : j \in DOMAIN sendBuffer' /\ k \in DOMAIN sendBuffer'
      BY DEF Buffered
    <2>9. \A j, k \in Buffered' : sendBuffer'[j].m = sendBuffer'[k].m => j = k
      <3> SUFFICES ASSUME NEW j \in Buffered', NEW k \in Buffered', sendBuffer'[j].m = sendBuffer'[k].m PROVE j = k
        OBVIOUS
      <3>1. f[j] \in Buffered /\ f[k] \in Buffered /\ sendBuffer[f[j]].m = sendBuffer[f[k]].m
        BY <2>5
      <3>2. f[j] = f[k]
        BY <2>6, <3>1
      <3> QED BY <2>4, <2>8, <3>2
    <2> QED BY <1>1, <1>2, <1>3, <1>4, <1>6, <2>7, <2>9, RepliesSame
  <1> QED BY <1>3, <1>5, <1>6 DEF Once

\* The ACKs of an event among the frames of two sequences, of which only one has
\* such an ACK, and that only once.
LEMMA JoinReplies ==
  ASSUME NEW x \in Seq(FrameSet), NEW y \in Seq(FrameSet), NEW e,
         \A j, k \in RepliesOf(x, e) : j = k, \A j, k \in RepliesOf(y, e) : j = k,
         RepliesOf(x, e) = {} \/ RepliesOf(y, e) = {}
  PROVE  /\ \A j, k \in RepliesOf(x \o y, e) : j = k
         /\ RepliesOf(x \o y, e) # {} => RepliesOf(x, e) # {} \/ RepliesOf(y, e) # {}
  <1> DEFINE z == x \o y
             n == Len(x)
  <1>1. \A k \in DOMAIN z : \/ k \in DOMAIN x /\ z[k] = x[k]
                            \/ k - n \in DOMAIN y /\ z[k] = y[k - n] /\ k \in Int /\ n \in Int
    BY SMT
  <1>2. \A j, k, m \in Int : j - m = k - m => j = k
    BY SMT
  <1> HIDE DEF z, n
  <1>3. ASSUME NEW k \in RepliesOf(z, e)
        PROVE  \/ k \in RepliesOf(x, e)
               \/ k - n \in RepliesOf(y, e) /\ k \in Int /\ n \in Int
    BY <1>1 DEF RepliesOf
  <1>4. ASSUME NEW j \in RepliesOf(z, e), NEW k \in RepliesOf(z, e) PROVE j = k
    <2>1. CASE RepliesOf(y, e) = {}
      BY <1>3, <2>1
    <2>2. CASE RepliesOf(x, e) = {}
      <3>1. j - n \in RepliesOf(y, e) /\ k - n \in RepliesOf(y, e) /\ j \in Int /\ k \in Int /\ n \in Int
        BY <1>3, <2>2
      <3>2. j - n = k - n
        BY <3>1
      <3> QED BY <1>2, <3>1, <3>2
    <2> QED BY <2>1, <2>2
  <1>5. RepliesOf(z, e) # {} => RepliesOf(x, e) # {} \/ RepliesOf(y, e) # {}
    BY <1>3
  <1> QED BY <1>4, <1>5 DEF z

\* The buffered events are handed over and the buffered ACKs are sent.
LEMMA EmitBufferedOnce ==
  ASSUME Base, Once, NEW t, EmitBufferedDoes(t) PROVE Once'
  <1>1. t \in DOMAIN tasks /\ t.pc = "flush" /\ UNCHANGED ekind /\ FlushAnswers
    BY DEF EmitBufferedDoes
  <1>2. PICK S, sent, aborts : /\ sent \in Seq(FrameSet) /\ aborts \in BOOLEAN
                               /\ Moves(t, S) /\ FlushTasks(S, sent)
                               /\ FlushCounts(sent, aborts) /\ FlushBuffers(sent, aborts)
    BY DEF EmitBufferedDoes
  <1>3. t.reply = FALSE
    BY <1>1, TaskFacts
  <1>4. CASE h.aborted \/ aborts
    BY <1>2, <1>4 DEF FlushCounts, Once
  <1>5. CASE ~(h.aborted \/ aborts)
    <2>1. EventsOnce /\ RepliesOnce
      BY <1>5 DEF Once
    <2>2. /\ receiveBuffer' = <<>> /\ Flushed = receiveBuffer
          /\ \/ sent = FlushReplies \o sendBuffer /\ sendBuffer' = <<>>
             \/ sent = sendBuffer \o FlushReplies /\ sendBuffer' = <<>>
             \/ sent = FlushReplies /\ sendBuffer' = sendBuffer
             \/ sent = <<>> /\ sendBuffer' = sendBuffer
      BY <1>2, <1>5 DEF FlushBuffers
    <2>3. \A e \in Events : /\ Added(h'.delivered[e], h.delivered[e], HandedOver(e))
                            /\ Added(h'.replied[e], h.replied[e], RepliesOf(sent, e))
      BY <1>2 DEF FlushCounts
    <2>4. \A u \in S : u.reply = FALSE /\ u.pc \in {"drainForced", "onAck"}
      BY <1>2 DEF FlushTasks, IsAckOf
    <2>5. \A k \in DOMAIN << >> : FALSE
      BY SMT
    <2>6. \A e \in Events : HandedOver(e) = {} => h'.delivered[e] = h.delivered[e]
      BY <2>3 DEF Added
    <2>7. ASSUME NEW e \in Events, HandedOver(e) # {}
          PROVE  h.delivered[e] = 0 /\ h'.delivered[e] = 1 /\ ekind[e] # "none"
      <3>1. PICK k \in DOMAIN receiveBuffer : receiveBuffer[k] = e
        BY <2>2, <2>7 DEF HandedOver
      <3>2. h.delivered[e] = 0 /\ ekind[e] # "none"
        BY <2>1, <3>1, UnderWay DEF EventsOnce
      <3>3. \A x, y \in HandedOver(e) : x = y
        BY <2>1, <2>2 DEF HandedOver, EventsOnce
      <3>4. h'.delivered[e] \in Nat /\ h'.delivered[e] # 0 /\ h'.delivered[e] <= 0 + 1
        BY <2>3, <2>7, <3>2, <3>3 DEF Added
      <3>5. h'.delivered[e] = 1
        BY SMT, <3>4
      <3> QED BY <3>2, <3>5
    <2>8. EventsOnce'
      <3>1. \A u \in Coming' : u \in Coming /\ tasks'[u] = tasks[u]
        BY <1>1, <1>2, <2>4 DEF Coming, Moves
      <3>2. \A u \in Coming : u.m \in Events /\ HandedOver(u.m) = {}
        BY <2>1, <2>2, UnderWay DEF HandedOver, EventsOnce
      <3>3. \A u \in Coming : /\ tasks[u] = 1 /\ (\A v \in Coming : v.m = u.m => v = u)
                              /\ h'.delivered[u.m] = 0
        BY <2>1, <2>6, <3>2 DEF EventsOnce
      <3>4. \A u \in Coming' : /\ tasks'[u] = 1 /\ (\A v \in Coming' : v.m = u.m => v = u)
                               /\ h'.delivered[u.m] = 0
        BY <3>1, <3>3
      <3>5. \A k \in DOMAIN receiveBuffer' : FALSE
        BY <2>2, <2>5
      <3>6. \A e \in Events : h'.delivered[e] <= 1 /\ (ekind'[e] = "none" => h'.delivered[e] = 0)
        <4> SUFFICES ASSUME NEW e \in Events PROVE h'.delivered[e] <= 1 /\ (ekind[e] = "none" => h'.delivered[e] = 0)
          BY <1>1
        <4>1. CASE HandedOver(e) = {}
          BY <2>1, <2>6, <4>1 DEF EventsOnce
        <4>2. CASE HandedOver(e) # {}
          <5>1. 1 <= 1
            BY SMT
          <5> QED BY <2>7, <4>2, <5>1
        <4> QED BY <4>1, <4>2
      <3> QED BY <3>4, <3>5, <3>6 DEF EventsOnce
    <2>9. sendBuffer \in Seq(FrameSet) /\ FlushReplies \in Seq(FrameSet)
      BY <1>1 DEF FlushAnswers, Base, BuffersOK
    <2>10. ASSUME NEW e \in Events, RepliesOf(FlushReplies, e) # {}
           PROVE  h.delivered[e] = 0 /\ h.replied[e] = 0 /\ h'.delivered[e] = 1
      <3>1. PICK p \in DOMAIN FlushReplies : FlushReplies[p].m = e
        BY <2>10 DEF RepliesOf
      <3>2. PICK j \in DOMAIN Flushed : Flushed[j] = e
        BY <1>1, <3>1 DEF FlushAnswers
      <3>3. HandedOver(e) # {}
        BY <3>2 DEF HandedOver
      <3>4. h.delivered[e] = 0 /\ h'.delivered[e] = 1
        BY <2>7, <3>3
      <3>5. h.replied[e] \in Nat /\ h.replied[e] <= 0
        BY <2>1, <3>4, Counts DEF RepliesOnce
      <3>6. h.replied[e] = 0
        BY SMT, <3>5
      <3> QED BY <3>4, <3>6
    <2>11. \A e \in Events : h.delivered[e] = 1 => HandedOver(e) = {} /\ RepliesOf(FlushReplies, e) = {}
      <3>1. 0 # 1
        BY SMT
      <3> QED BY <2>7, <2>10, <3>1
    <2>12. \A e \in Events : h.delivered[e] = 1 => h'.delivered[e] = 1
      BY <2>6, <2>11
    <2>13. ASSUME NEW e \in Events, RepliesOf(sendBuffer, e) # {}
           PROVE  h.delivered[e] = 1 /\ h.replied[e] = 0
      <3>1. PICK k \in Buffered : sendBuffer[k].m = e
        BY <2>13 DEF RepliesOf, Buffered
      <3>2. h.replied[sendBuffer[k].m] = 0 /\ h.delivered[sendBuffer[k].m] = 1
        BY <2>1, <3>1 DEF RepliesOnce
      <3> QED BY <3>1, <3>2
    <2>14. ASSUME NEW e \in Events, NEW j \in RepliesOf(sendBuffer, e), NEW k \in RepliesOf(sendBuffer, e)
           PROVE  j = k
      <3>1. j \in Buffered /\ k \in Buffered /\ sendBuffer[j].m = sendBuffer[k].m
        BY DEF RepliesOf, Buffered
      <3> QED BY <2>1, <3>1 DEF RepliesOnce
    <2>15. \A e \in Events : \A j, k \in RepliesOf(FlushReplies, e) : j = k
      <3>1. \A i, j \in DOMAIN Flushed : Flushed[i] = Flushed[j] => i = j
        BY <2>1, <2>2 DEF EventsOnce
      <3>2. \A p, q \in DOMAIN FlushReplies : FlushReplies[p].m = FlushReplies[q].m => p = q
        BY <1>1, <3>1 DEF FlushAnswers
      <3> QED BY <3>2 DEF RepliesOf
    <2>16. \A e \in Events : RepliesOf(FlushReplies, e) = {} \/ RepliesOf(sendBuffer, e) = {}
      BY <2>11, <2>13
    <2>17. ASSUME NEW e \in Events
           PROVE  /\ \A j, k \in RepliesOf(sent, e) : j = k
                  /\ RepliesOf(sent, e) # {} => \/ RepliesOf(FlushReplies, e) # {}
                                                \/ RepliesOf(sendBuffer, e) # {} /\ sendBuffer' = <<>>
      <3>1. CASE sent = FlushReplies \o sendBuffer /\ sendBuffer' = <<>>
        BY <2>9, <2>14, <2>15, <2>16, <3>1, JoinReplies
      <3>2. CASE sent = sendBuffer \o FlushReplies /\ sendBuffer' = <<>>
        BY <2>9, <2>14, <2>15, <2>16, <3>2, JoinReplies
      <3>3. CASE sent = FlushReplies
        BY <2>15, <3>3
      <3>4. CASE sent = <<>>
        BY <2>5, <3>4 DEF RepliesOf
      <3> QED BY <2>2, <3>1, <3>2, <3>3, <3>4
    <2>18. \A e \in Events : RepliesOf(sent, e) = {} => h'.replied[e] = h.replied[e]
      BY <2>3 DEF Added
    <2>19. RepliesOnce'
      <3>1. \A u \in Replying' : u \in Replying /\ tasks'[u] = tasks[u]
        BY <1>2, <1>3, <2>4 DEF Replying, Moves
      <3>2. ASSUME NEW u \in Replying PROVE tasks[u] = 1 /\ h'.replied[u.m] = 0 /\ h'.delivered[u.m] = 1
        <4>1. u.m \in Events /\ tasks[u] = 1 /\ h.replied[u.m] = 0 /\ h.delivered[u.m] = 1
          BY <2>1, UnderWay DEF RepliesOnce
        <4>2. RepliesOf(sendBuffer, u.m) = {}
          BY <2>1 DEF RepliesOnce, RepliesOf, Buffered
        <4>3. RepliesOf(sent, u.m) = {}
          BY <2>11, <2>17, <4>1, <4>2
        <4> QED BY <2>12, <2>18, <4>1, <4>3
      <3>3. \A u, v \in Replying : v.m = u.m => v = u
        BY <2>1 DEF RepliesOnce
      <3>4. ASSUME NEW u \in Replying' PROVE tasks'[u] = 1 /\ h'.replied[u.m] = 0 /\ h'.delivered[u.m] = 1
        <4>1. u \in Replying /\ tasks'[u] = tasks[u]
          BY <3>1
        <4> QED BY <3>2, <4>1
      <3>5. \A u, v \in Replying' : v.m = u.m => v = u
        BY <3>1, <3>3
      <3>6. \A k \in Buffered' : k \in Buffered /\ sendBuffer'[k] = sendBuffer[k] /\ sendBuffer' # <<>>
        <4>1. sendBuffer' = <<>> \/ sendBuffer' = sendBuffer
          BY <2>2
        <4> QED BY <2>5, <4>1 DEF Buffered
      <3>7. ASSUME NEW k \in Buffered' PROVE h'.replied[sendBuffer'[k].m] = 0 /\ h'.delivered[sendBuffer'[k].m] = 1
        <4>1. PICK e : e = sendBuffer[k].m
          OBVIOUS
        <4>2. e \in Events /\ h.replied[e] = 0 /\ h.delivered[e] = 1
          BY <2>1, <3>6, <4>1, UnderWay DEF RepliesOnce
        <4>3. RepliesOf(sent, e) = {}
          BY <2>11, <2>17, <3>6, <4>2
        <4> QED BY <2>12, <2>18, <3>6, <4>1, <4>2, <4>3
      <3>8. \A u \in Replying : \A k \in Buffered : sendBuffer[k].m # u.m
        BY <2>1 DEF RepliesOnce
      <3>9. \A u \in Replying' : \A k \in Buffered' : sendBuffer'[k].m # u.m
        BY <3>1, <3>6, <3>8
      <3>10. \A j, k \in Buffered : sendBuffer[j].m = sendBuffer[k].m => j = k
        BY <2>1 DEF RepliesOnce
      <3>11. \A j, k \in Buffered' : sendBuffer'[j].m = sendBuffer'[k].m => j = k
        BY <3>6, <3>10
      <3>12. ASSUME NEW e \in Events PROVE h'.replied[e] <= h'.delivered[e]
        <4>1. CASE RepliesOf(sent, e) = {}
          <5>1. h'.replied[e] = h.replied[e] /\ h.replied[e] <= h.delivered[e] /\ h'.delivered[e] >= h.delivered[e]
            BY <2>1, <2>3, <2>18, <4>1 DEF RepliesOnce, Added
          <5>2. h.replied[e] \in Nat /\ h.delivered[e] \in Nat /\ h'.delivered[e] \in Nat
            BY <2>3, Counts DEF Added
          <5> QED BY SMT, <5>1, <5>2
        <4>2. CASE RepliesOf(sent, e) # {}
          <5>1. h.replied[e] = 0 /\ h'.delivered[e] = 1
            BY <2>10, <2>12, <2>13, <2>17, <4>2
          <5>2. h'.replied[e] <= 0 + 1
            BY <2>3, <2>17, <5>1 DEF Added
          <5>3. 0 + 1 = 1
            BY SMT
          <5> QED BY <5>1, <5>2, <5>3
        <4> QED BY <4>1, <4>2
      <3> QED BY <3>4, <3>5, <3>7, <3>9, <3>11, <3>12 DEF RepliesOnce
    <2> QED BY <2>8, <2>19 DEF Once
  <1> QED BY <1>4, <1>5

-----------------------------------------------------------------------------
(* Nothing is left behind in a buffer.                                     *)

\* A goroutine that does not flush the buffers leaves one that does alone.
LEMMA FlushStays ==
  ASSUME NEW t, NEW S, Moves(t, S), t.pc \notin {"onConnect", "flush"}, ~Flushing'
  PROVE  ~Flushing
  BY DEF Moves, Flushing

\* The packets that are buffered stay where they are, or leave the buffer.
LEMMA FirstsSame ==
  ASSUME FirstsOnce, NEW t, NEW S, Moves(t, S), t.pc # "buffer", \A u \in S : u.pc # "buffer",
         \A j \in Firsts' : \E k \in Firsts : sendBuffer'[j].id = sendBuffer[k].id,
         \A j, k \in Firsts' : sendBuffer'[j].id = sendBuffer'[k].id => j = k
  PROVE  FirstsOnce'
  <1>1. \A u \in Buffering' : u \in Buffering /\ tasks'[u] = tasks[u]
    BY DEF Buffering, Moves
  <1>2. \A u \in Buffering : tasks[u] = 1 /\ \A v \in Buffering : v.id = u.id => v = u
    BY DEF FirstsOnce
  <1>3. \A u \in Buffering : \A k \in Firsts : sendBuffer[k].id # u.id
    BY DEF FirstsOnce
  <1>4. ASSUME NEW u \in Buffering', NEW k \in Firsts' PROVE sendBuffer'[k].id # u.id
    <2>1. PICK j \in Firsts : sendBuffer'[k].id = sendBuffer[j].id
      OBVIOUS
    <2>2. sendBuffer[j].id # u.id
      BY <1>1, <1>3
    <2> QED BY <2>1, <2>2
  <1>5. \A u \in Buffering' : tasks'[u] = 1 /\ \A v \in Buffering' : v.id = u.id => v = u
    BY <1>1, <1>2
  <1> QED BY <1>4, <1>5 DEF FirstsOnce

\* The same, when the send buffer stays as it is.
LEMMA FirstsStay ==
  ASSUME FirstsOnce, NEW t, NEW S, Moves(t, S), t.pc # "buffer", \A u \in S : u.pc # "buffer",
         sendBuffer' = sendBuffer
  PROVE  FirstsOnce'
  <1>1. Firsts' = Firsts
    BY DEF Firsts
  <1>2. \A j \in Firsts' : \E k \in Firsts : sendBuffer'[j].id = sendBuffer[k].id
    BY <1>1
  <1>3. \A j, k \in Firsts' : sendBuffer'[j].id = sendBuffer'[k].id => j = k
    BY <1>1 DEF FirstsOnce
  <1> QED BY <1>2, <1>3, FirstsSame

\* What excuses a locked mutex remains.
Lasting ==
  /\ \A m \in Emits : kind[m] = "binary" => kind'[m] = "binary"
  /\ \A e \in Events : ekind[e] \in Acking => ekind'[e] = ekind[e]
  /\ \A i \in Ids : handler[i] = "timedOut" => handler'[i] = "timedOut"
Excused ==
  \/ \E m \in Emits : kind[m] = "binary"
  \/ \E e \in Events \cap Ids : ekind[e] \in Acking /\ handler[e] = "timedOut"

\* The two parts of NothingStranded.
Left ==
  state = "connected" /\ ~Flushing =>
    \/ sendBuffer = <<>> /\ receiveBuffer = <<>>
    \/ h.raced \/ h.aborted \/ sendMu

\* NothingStranded says these two things.
LEMMA Parts == NothingStranded <=> Left /\ (sendMu => Excused)
  BY DEF NothingStranded, Left, Excused, Acking

\* An excuse lasts.
LEMMA ExcusedLasts ==
  ASSUME Excused, Lasting PROVE Excused'
  <1>1. CASE \E m \in Emits : kind[m] = "binary"
    BY <1>1 DEF Lasting, Excused
  <1>2. CASE \E e \in Events \cap Ids : ekind[e] \in Acking /\ handler[e] = "timedOut"
    BY <1>2 DEF Lasting, Excused
  <1> QED BY <1>1, <1>2 DEF Excused

\* Steps that have nothing to do with the buffers.
LEMMA StrandedSame ==
  ASSUME Stranded, UNCHANGED <<sendBuffer, receiveBuffer, sendMu>>, Lasting,
         state' = "connected" /\ ~Flushing' => state = "connected" /\ ~Flushing,
         h'.raced = h.raced, h'.aborted = h.aborted,
         NEW t, NEW S, Moves(t, S), t.pc # "buffer", \A u \in S : u.pc # "buffer"
  PROVE  Stranded'
  <1>1. FirstsOnce'
    BY FirstsStay DEF Stranded
  <1>2. Left /\ (sendMu => Excused)
    BY Parts DEF Stranded
  <1>3. Left'
    BY <1>2 DEF Left
  <1>4. sendMu' => Excused'
    BY <1>2, ExcusedLasts
  <1>5. NothingStranded'
    BY <1>3, <1>4 DEF NothingStranded, Left, Excused, Acking
  <1> QED BY <1>1, <1>5 DEF Stranded

\* The IDs of buffered packets have been given out.
LEMMA FirstsForm ==
  ASSUME Base
  PROVE  /\ nextId \in Nat
         /\ \A t \in Buffering : t \in DOMAIN tasks /\ t.id < nextId /\ t.id # nextId
         /\ \A k \in Firsts : k \in DOMAIN sendBuffer /\ sendBuffer[k].id < nextId /\ sendBuffer[k].id # nextId
  <1>1. nextId \in Nat
    BY SMT, EmitAssumption DEF Base, AcksOK, Ids
  <1>2. ~(nextId < nextId)
    BY SMT, <1>1
  <1>3. \A t \in Buffering : t \in DOMAIN tasks /\ t.id < nextId
    BY TaskFacts DEF Buffering
  <1>4. \A k \in Firsts : k \in DOMAIN sendBuffer /\ sendBuffer[k].id < nextId
    BY DEF Firsts, Base, BuffersOK, FrameOK, IsEmitted
  <1> QED BY <1>1, <1>2, <1>3, <1>4

\* The kinds of packets and events stay, and so does a timeout.
LEMMA LastingSame ==
  ASSUME UNCHANGED <<kind, ekind, handler>> PROVE Lasting
  BY DEF Lasting

\* A packet with a new ID may have to be buffered.
LEMMA SendStranded ==
  ASSUME Base, Stranded, NEW t, SendDoes(t) PROVE Stranded'
  <1>1. /\ t \in DOMAIN tasks /\ t.pc = "send" /\ UNCHANGED <<state, kind, ekind>>
        /\ UNCHANGED <<sendBuffer, receiveBuffer, sendMu>>
    BY DEF SendDoes, bufVars
  <1>2. PICK r, S : /\ Moves(t, S) /\ (\A u \in S : IsSent(u, t, r))
                    /\ h'.raced = h.raced /\ h'.aborted = h.aborted
                    /\ NeedsAck(t) => /\ t.reply = FALSE /\ r.id = nextId /\ nextId \in Ids
                                      /\ handler' = [handler EXCEPT ![nextId] = "live"]
                    /\ ~NeedsAck(t) => r = t /\ UNCHANGED ackVars
    BY DEF SendDoes, Replied
  <1>3. Lasting
    <2>1. CASE ~NeedsAck(t)
      BY <1>1, <1>2, <2>1, LastingSame DEF ackVars
    <2>2. CASE NeedsAck(t)
      <3>1. /\ handler \in [Ids -> {"none", "live", "called", "timedOut"}]
            /\ handler[nextId] = "none"
        <4>1. nextId \in Ids /\ nextId >= nextId
          BY SMT, <1>2, <2>2, EmitAssumption DEF Ids
        <4> QED BY <4>1 DEF Base, AcksOK
      <3>2. \A i \in Ids : i # nextId => handler'[i] = handler[i]
        BY <1>2, <2>2, <3>1
      <3> QED BY <1>1, <3>1, <3>2 DEF Lasting
    <2> QED BY <2>1, <2>2
  <1>4. Left /\ (sendMu => Excused)
    BY Parts DEF Stranded
  <1>5. Left'
    <2>1. ~Flushing' => ~Flushing
      BY <1>1, <1>2, FlushStays
    <2> QED BY <1>1, <1>2, <1>4, <2>1 DEF Left
  <1>6. sendMu' => Excused'
    BY <1>1, <1>3, <1>4, ExcusedLasts
  <1>7. \A u \in S : /\ u.pc # "send" /\ u \in Tasks
                     /\ u.pc = "buffer" /\ ~u.reply /\ u.id # None => u.id = nextId /\ u.reply = FALSE /\ u.m = t.m
    <2> SUFFICES ASSUME NEW u \in S
                 PROVE  /\ u.pc # "send" /\ u \in Tasks
                        /\ u.pc = "buffer" /\ ~u.reply /\ u.id # None => u.id = nextId /\ u.reply = FALSE /\ u.m = t.m
      OBVIOUS
    <2>1. u.pc # "send" /\ u \in Tasks /\ u.m = t.m /\ u.id = r.id /\ u.reply = t.reply
      BY <1>2 DEF IsSent
    <2>2. CASE NeedsAck(t)
      BY <1>2, <2>1, <2>2
    <2>3. CASE ~NeedsAck(t)
      <3>1. u.reply \/ u.id = None
        BY <1>1, <1>2, <2>1, <2>3, TaskFacts DEF TaskOK
      <3> QED BY <2>1, <3>1
    <2> QED BY <2>2, <2>3
  <1>8. FirstsOnce'
    <2>1. FirstsOnce
      BY DEF Stranded
    <2>2. \A u \in Buffering' : \/ u \in Buffering /\ tasks'[u] = tasks[u]
                                \/ /\ u \in S /\ u.id = nextId /\ tasks'[u] = 1
                                   /\ u.pc = "buffer" /\ u.reply = FALSE /\ u.m = t.m /\ u \in Tasks
      <3> SUFFICES ASSUME NEW u \in Buffering'
                   PROVE  \/ u \in Buffering /\ tasks'[u] = tasks[u]
                          \/ /\ u \in S /\ u.id = nextId /\ tasks'[u] = 1
                             /\ u.pc = "buffer" /\ u.reply = FALSE /\ u.m = t.m /\ u \in Tasks
        OBVIOUS
      <3>1. u \in DOMAIN tasks' /\ u.pc = "buffer" /\ ~u.reply /\ u.id # None
        BY DEF Buffering
      <3>2. CASE u \in S
        <4>1. u.id = nextId /\ u.reply = FALSE /\ u.m = t.m /\ u \in Tasks
          BY <1>7, <3>1, <3>2
        <4>2. u \notin DOMAIN tasks
          BY <3>1, <4>1, FirstsForm DEF Buffering
        <4> QED BY <1>2, <3>1, <3>2, <4>1, <4>2 DEF Moves
      <3>3. CASE u \notin S
        BY <1>1, <1>2, <3>1, <3>3 DEF Moves, Buffering
      <3> QED BY <3>2, <3>3
    <2>3. \A u \in Buffering : /\ tasks[u] = 1 /\ u.id # nextId
                               /\ \A v \in Buffering : v.id = u.id => v = u
                               /\ \A k \in Firsts : sendBuffer[k].id # u.id
      BY <2>1, FirstsForm DEF FirstsOnce
    <2>4. \A u, v \in Tasks : u.pc = "buffer" /\ v.pc = "buffer" /\ u.reply = FALSE /\ v.reply = FALSE
                              /\ u.m = v.m /\ u.id = v.id => u = v
      BY SMT DEF Tasks
    <2>5. ASSUME NEW u \in Buffering', NEW v \in Buffering', v.id = u.id PROVE v = u
      <3>1. CASE u \in Buffering
        BY <2>2, <2>3, <2>5, <3>1
      <3>2. CASE u.id = nextId /\ u.pc = "buffer" /\ u.reply = FALSE /\ u.m = t.m /\ u \in Tasks
        <4>1. v \notin Buffering
          BY <2>3, <2>5, <3>2
        <4>2. v.pc = "buffer" /\ v.reply = FALSE /\ v.m = t.m /\ v \in Tasks
          BY <2>2, <4>1
        <4>3. v.m = u.m
          BY <3>2, <4>2
        <4> QED BY <2>4, <2>5, <3>2, <4>2, <4>3
      <3> QED BY <2>2, <3>1, <3>2
    <2>6. Firsts' = Firsts
      BY <1>1 DEF Firsts
    <2>7. \A u \in Buffering' : tasks'[u] = 1 /\ \A k \in Firsts : sendBuffer[k].id # u.id
      <3> SUFFICES ASSUME NEW u \in Buffering' PROVE tasks'[u] = 1 /\ \A k \in Firsts : sendBuffer[k].id # u.id
        OBVIOUS
      <3>1. CASE u \in Buffering /\ tasks'[u] = tasks[u]
        BY <2>3, <3>1
      <3>2. CASE u.id = nextId /\ tasks'[u] = 1
        BY <3>2, FirstsForm
      <3> QED BY <2>2, <3>1, <3>2
    <2> QED BY <1>1, <2>1, <2>5, <2>6, <2>7 DEF FirstsOnce
  <1> QED BY <1>5, <1>6, <1>8 DEF Stranded, NothingStranded, Left, Excused, Acking

\* The packet is appended to the send buffer.
LEMMA AppendStranded ==
  ASSUME Base, Stranded, NEW t, AppendDoes(t) PROVE Stranded'
  <1>1. /\ t \in DOMAIN tasks /\ t.pc = "buffer" /\ sendBuffer' = sendBuffer \o Frames(t)
        /\ Moves(t, {}) /\ h'.raced = (h.raced \/ state = "connected")
        /\ UNCHANGED <<kind, ekind, handler, sendMu, state>>
    BY DEF AppendDoes, Buffers, ackVars, linkVars
  <1>2. t \in Tasks
    BY <1>1, TaskFacts
  <1>3. FirstsOnce /\ (sendMu => Excused)
    BY Parts DEF Stranded
  <1>4. sendMu' => Excused'
    BY <1>1, <1>3, ExcusedLasts, LastingSame
  <1>5. Left'
    BY <1>1 DEF Left
  <1> DEFINE n == Len(sendBuffer)
  <1>6. Frames(t) \in Seq(FrameSet) /\ \A k \in DOMAIN Frames(t) : /\ Frames(t)[k].id = t.id /\ Frames(t)[k].reply = t.reply
                                                                  /\ Frames(t)[k].part = k
    BY <1>2, FramesForm
  <1>7. \A k \in DOMAIN sendBuffer' : \/ k \in DOMAIN sendBuffer /\ sendBuffer'[k] = sendBuffer[k]
                                      \/ k - n \in DOMAIN Frames(t) /\ sendBuffer'[k] = Frames(t)[k - n] /\ k \in Int /\ n \in Int
    <2>1. sendBuffer \in Seq(FrameSet)
      BY DEF Base, BuffersOK
    <2> QED BY SMT, <1>1, <1>6, <2>1
  <1>8. \A k, l \in Int : k - l = 1 => k = l + 1
    BY SMT
  <1> HIDE DEF n
  <1>9. \A k \in Firsts' : \/ k \in Firsts /\ sendBuffer'[k] = sendBuffer[k]
                           \/ k = n + 1 /\ sendBuffer'[k].id = t.id /\ t \in Buffering
    <2> SUFFICES ASSUME NEW k \in Firsts'
                 PROVE  \/ k \in Firsts /\ sendBuffer'[k] = sendBuffer[k]
                        \/ k = n + 1 /\ sendBuffer'[k].id = t.id /\ t \in Buffering
      OBVIOUS
    <2>1. k \in DOMAIN sendBuffer' /\ ~sendBuffer'[k].reply /\ sendBuffer'[k].part = 1 /\ sendBuffer'[k].id # None
      BY DEF Firsts
    <2>2. CASE k \in DOMAIN sendBuffer /\ sendBuffer'[k] = sendBuffer[k]
      BY <2>1, <2>2 DEF Firsts
    <2>3. CASE k - n \in DOMAIN Frames(t) /\ sendBuffer'[k] = Frames(t)[k - n] /\ k \in Int /\ n \in Int
      <3>1. sendBuffer'[k].id = t.id /\ sendBuffer'[k].reply = t.reply /\ sendBuffer'[k].part = k - n
        BY <1>6, <2>3
      <3>2. k = n + 1
        BY <1>8, <2>1, <2>3, <3>1
      <3>3. ~t.reply /\ t.id # None
        BY <2>1, <3>1
      <3> QED BY <1>1, <3>1, <3>2, <3>3 DEF Buffering
    <2> QED BY <1>7, <2>1, <2>2, <2>3
  <1>10. \A u \in Buffering : /\ tasks[u] = 1 /\ (\A v \in Buffering : v.id = u.id => v = u)
                              /\ \A k \in Firsts : sendBuffer[k].id # u.id
    BY <1>3 DEF FirstsOnce
  <1>11. \A u \in Buffering' : u \in Buffering /\ (t \in Buffering => u.id # t.id) /\ tasks'[u] = 1
    <2> SUFFICES ASSUME NEW u \in Buffering' PROVE u \in Buffering /\ (t \in Buffering => u.id # t.id) /\ tasks'[u] = 1
      OBVIOUS
    <2>1. u \in DOMAIN tasks' /\ u \in DOMAIN tasks /\ u \in Buffering
      BY <1>1 DEF Buffering, Moves
    <2>2. u # t
      <3>1. ASSUME u = t PROVE FALSE
        <4>1. tasks[t] = 1
          BY <1>10, <2>1, <3>1
        <4> QED BY <1>1, <2>1, <3>1, <4>1 DEF Moves
      <3> QED BY <3>1
    <2>3. tasks'[u] = tasks[u]
      BY <1>1, <2>1, <2>2 DEF Moves
    <2> QED BY <1>10, <2>1, <2>2, <2>3
  <1>12. ASSUME NEW u \in Buffering', NEW k \in Firsts' PROVE sendBuffer'[k].id # u.id
    <2>1. CASE k \in Firsts /\ sendBuffer'[k] = sendBuffer[k]
      BY <1>10, <1>11, <2>1
    <2>2. CASE sendBuffer'[k].id = t.id /\ t \in Buffering
      BY <1>11, <2>2
    <2> QED BY <1>9, <2>1, <2>2
  <1>13. ASSUME NEW j \in Firsts', NEW k \in Firsts', sendBuffer'[j].id = sendBuffer'[k].id PROVE j = k
    <2>1. \A i, l \in Firsts : sendBuffer[i].id = sendBuffer[l].id => i = l
      BY <1>3 DEF FirstsOnce
    <2>2. t \in Buffering => \A i \in Firsts : sendBuffer[i].id # t.id
      BY <1>10
    <2> QED BY <1>9, <1>13, <2>1, <2>2
  <1>14. \A u, v \in Buffering' : v.id = u.id => v = u
    BY <1>10, <1>11
  <1>15. FirstsOnce'
    BY <1>11, <1>12, <1>13, <1>14 DEF FirstsOnce
  <1> QED BY <1>4, <1>5, <1>15 DEF Stranded, NothingStranded, Left, Excused, Acking

\* The event is appended to the receive buffer.
LEMMA BufferEventStranded ==
  ASSUME Stranded, NEW t, BufferEventDoes(t) PROVE Stranded'
  <1>1. /\ t.pc = "bufferEvent" /\ sendBuffer' = sendBuffer /\ Moves(t, {})
        /\ h'.raced = (h.raced \/ state = "connected")
        /\ UNCHANGED <<kind, ekind, handler, sendMu, state>>
    BY DEF BufferEventDoes, Buffers, ackVars, linkVars
  <1>2. Left'
    BY <1>1 DEF Left
  <1>3. sendMu' => Excused'
    <2>1. sendMu => Excused
      BY Parts DEF Stranded
    <2> QED BY <1>1, <2>1, ExcusedLasts, LastingSame
  <1>4. FirstsOnce'
    <2>1. PICK S : S = {}
      OBVIOUS
    <2>2. Moves(t, S) /\ \A u \in S : u.pc # "buffer"
      BY <1>1, <2>1
    <2>3. FirstsOnce /\ t.pc # "buffer"
      BY <1>1 DEF Stranded
    <2> QED BY <1>1, <2>2, <2>3, FirstsStay
  <1> QED BY <1>2, <1>3, <1>4 DEF Stranded, NothingStranded, Left, Excused, Acking

\* The loop of the timeout panics when two frames have the ID: those of a packet
\* with an attachment, or the ACK of an event with the same ID.
LEMMA TimeOutStranded ==
  ASSUME Base, Calls, Stranded, NEW t, TimeOutDoes(t) PROVE Stranded'
  <1>1. /\ t \in DOMAIN tasks /\ t.pc = "unbuffer" /\ t.id \in Ids /\ ~sendMu
        /\ UNCHANGED <<state, kind, ekind, handler, receiveBuffer>>
        /\ sendBuffer = <<>> => sendBuffer' = <<>>
        /\ Subbuffer(sendBuffer', sendBuffer)
        /\ sendMu' => \E p, q \in DOMAIN sendBuffer : p # q /\ sendBuffer[p].id = t.id /\ sendBuffer[q].id = t.id
        /\ h'.raced = h.raced /\ h'.aborted = h.aborted
    BY DEF TimeOutDoes, linkVars, HandlerCalled
  <1>2. PICK S : Moves(t, S) /\ Drains(S)
    BY DEF TimeOutDoes
  <1>3. FirstsOnce /\ Left
    BY Parts DEF Stranded
  <1>4. Left'
    <2>1. ~Flushing' => ~Flushing
      BY <1>1, <1>2, FlushStays
    <2> QED BY <1>1, <1>3, <2>1 DEF Left
  <1>5. ASSUME sendMu' PROVE Excused
    <2>1. PICK p \in DOMAIN sendBuffer, q \in DOMAIN sendBuffer :
               p # q /\ sendBuffer[p].id = t.id /\ sendBuffer[q].id = t.id
      BY <1>1, <1>5
    <2>2. t.id # None
      BY SMT, <1>1 DEF Ids, None
    <2>3. handler[t.id] = "timedOut"
      BY <1>1 DEF Calls, Timing
    <2>4. ASSUME NEW k \in DOMAIN sendBuffer, sendBuffer[k].id = t.id, ~Excused PROVE k \in Firsts
      <3>1. FrameOK(sendBuffer[k])
        BY DEF Base, BuffersOK
      <3>2. sendBuffer[k].part = 1 \/ sendBuffer[k].part = 2
        <4>1. sendBuffer \in Seq(FrameSet)
          BY DEF Base, BuffersOK
        <4>2. sendBuffer[k] \in FrameSet
          BY SMT, <4>1
        <4> QED BY SMT, <4>2 DEF FrameSet
      <3>3. sendBuffer[k].part # 2
        <4>1. ASSUME sendBuffer[k].part = 2 PROVE FALSE
          <5>1. sendBuffer[k].m \in Emits /\ kind[sendBuffer[k].m] = "binary"
            BY <3>1, <4>1 DEF FrameOK, IsEmitted
          <5> QED BY <2>4, <5>1 DEF Excused
        <4> QED BY <4>1
      <3>4. ~sendBuffer[k].reply
        <4>1. ASSUME sendBuffer[k].reply PROVE FALSE
          <5>1. sendBuffer[k].m \in Events /\ t.id = sendBuffer[k].m /\ ekind[sendBuffer[k].m] \in Acking
            BY <2>4, <3>1, <4>1 DEF FrameOK, IsReply
          <5>2. t.id \in Events \cap Ids /\ ekind[t.id] \in Acking
            BY <1>1, <5>1
          <5> QED BY <2>3, <2>4, <5>2 DEF Excused
        <4> QED BY <4>1
      <3> QED BY <2>2, <2>4, <3>2, <3>3, <3>4 DEF Firsts
    <2>5. \A j, k \in Firsts : sendBuffer[j].id = sendBuffer[k].id => j = k
      BY <1>3 DEF FirstsOnce
    <2>6. ASSUME ~Excused PROVE FALSE
      <3>1. p \in Firsts /\ q \in Firsts
        BY <2>1, <2>4, <2>6
      <3> QED BY <2>1, <2>5, <3>1
    <2> QED BY <2>6
  <1>6. sendMu' => Excused'
    BY <1>1, <1>5, ExcusedLasts, LastingSame
  <1>7. FirstsOnce'
    <2>1. PICK f \in [DOMAIN sendBuffer' -> DOMAIN sendBuffer] :
              /\ \A k \in DOMAIN sendBuffer' : sendBuffer'[k] = sendBuffer[f[k]]
              /\ \A j, k \in DOMAIN sendBuffer' : f[j] = f[k] => j = k
      BY <1>1 DEF Subbuffer
    <2>2. \A k \in DOMAIN sendBuffer' : f[k] \in DOMAIN sendBuffer
      OBVIOUS
    <2>3. \A k \in Firsts' : k \in DOMAIN sendBuffer' /\ f[k] \in Firsts /\ sendBuffer'[k].id = sendBuffer[f[k]].id
      BY <2>1, <2>2 DEF Firsts
    <2>4. \A j \in Firsts' : \E k \in Firsts : sendBuffer'[j].id = sendBuffer[k].id
      BY <2>3
    <2>5. ASSUME NEW j \in Firsts', NEW k \in Firsts', sendBuffer'[j].id = sendBuffer'[k].id PROVE j = k
      <3>1. f[j] = f[k]
        <4>1. sendBuffer[f[j]].id = sendBuffer[f[k]].id /\ f[j] \in Firsts /\ f[k] \in Firsts
          BY <2>3, <2>5
        <4>2. \A i, l \in Firsts : sendBuffer[i].id = sendBuffer[l].id => i = l
          BY <1>3 DEF FirstsOnce
        <4> QED BY <4>1, <4>2
      <3> QED BY <2>1, <2>3, <3>1
    <2>6. \A u \in S : u.pc # "buffer"
      BY <1>2 DEF Drains
    <2> QED BY <1>1, <1>2, <1>3, <2>4, <2>5, <2>6, FirstsSame
  <1> QED BY <1>4, <1>6, <1>7 DEF Stranded, NothingStranded, Left, Excused, Acking

\* emitBuffered empties the buffers, or returns early, or waits for the mutex.
LEMMA EmitBufferedStranded ==
  ASSUME Base, Stranded, NEW t, EmitBufferedDoes(t) PROVE Stranded'
  <1>1. /\ t \in DOMAIN tasks /\ t.pc = "flush" /\ UNCHANGED <<state, sendMu, kind, ekind, handler>>
        /\ FlushAnswers
    BY DEF EmitBufferedDoes, ackVars
  <1>2. PICK S, sent, aborts : /\ aborts \in BOOLEAN /\ Moves(t, S) /\ FlushTasks(S, sent)
                               /\ h'.aborted = (h.aborted \/ aborts)
                               /\ FlushBuffers(sent, aborts)
    BY DEF EmitBufferedDoes, FlushCounts
  <1>3. FirstsOnce /\ (sendMu => Excused)
    BY Parts DEF Stranded
  <1>4. sendMu' => Excused'
    BY <1>1, <1>3, ExcusedLasts, LastingSame
  <1>5. Left'
    <2>1. CASE aborts
      BY <1>2, <2>1 DEF Left
    <2>2. CASE ~aborts
      BY <1>1, <1>2, <2>2 DEF Left, FlushBuffers
    <2> QED BY <2>1, <2>2
  <1>6. \A k \in Firsts' : k \in Firsts /\ sendBuffer'[k] = sendBuffer[k]
    <2>1. sendBuffer \in Seq(FrameSet) /\ FlushReplies \in Seq(FrameSet)
          /\ \A p \in DOMAIN FlushReplies : FlushReplies[p].reply = TRUE
      BY <1>1 DEF Base, BuffersOK, FlushAnswers
    <2>2. sendBuffer' = sendBuffer \/ sendBuffer' = <<>> \/ sendBuffer' = sendBuffer \o FlushReplies
      BY <1>2 DEF FlushBuffers
    <2>3. CASE sendBuffer' = sendBuffer
      BY <2>3 DEF Firsts
    <2>4. CASE sendBuffer' = <<>>
      <3>1. \A k \in DOMAIN << >> : FALSE
        BY SMT
      <3> QED BY <2>4, <3>1 DEF Firsts
    <2>5. CASE sendBuffer' = sendBuffer \o FlushReplies
      <3>1. \A k \in DOMAIN sendBuffer' : \/ k \in DOMAIN sendBuffer /\ sendBuffer'[k] = sendBuffer[k]
                                          \/ \E p \in DOMAIN FlushReplies : sendBuffer'[k] = FlushReplies[p]
        <4>1. \A k \in DOMAIN sendBuffer' : \/ k \in DOMAIN sendBuffer /\ sendBuffer'[k] = sendBuffer[k]
                                            \/ /\ k - Len(sendBuffer) \in DOMAIN FlushReplies
                                               /\ sendBuffer'[k] = FlushReplies[k - Len(sendBuffer)]
          BY SMT, <2>1, <2>5
        <4> QED BY <4>1
      <3> SUFFICES ASSUME NEW k \in Firsts' PROVE k \in Firsts /\ sendBuffer'[k] = sendBuffer[k]
        OBVIOUS
      <3>2. k \in DOMAIN sendBuffer' /\ ~sendBuffer'[k].reply
        BY DEF Firsts
      <3>3. k \in DOMAIN sendBuffer /\ sendBuffer'[k] = sendBuffer[k]
        BY <2>1, <3>1, <3>2
      <3> QED BY <3>3 DEF Firsts
    <2> QED BY <2>2, <2>3, <2>4, <2>5
  <1>7. FirstsOnce'
    <2>1. \A j \in Firsts' : \E k \in Firsts : sendBuffer'[j].id = sendBuffer[k].id
      BY <1>6
    <2>2. ASSUME NEW j \in Firsts', NEW k \in Firsts', sendBuffer'[j].id = sendBuffer'[k].id PROVE j = k
      <3>1. j \in Firsts /\ k \in Firsts /\ sendBuffer[j].id = sendBuffer[k].id
        BY <1>6, <2>2
      <3> QED BY <1>3, <3>1 DEF FirstsOnce
    <2>3. \A u \in S : u.pc # "buffer"
      BY <1>2 DEF FlushTasks, IsAckOf
    <2> QED BY <1>1, <1>2, <1>3, <2>1, <2>2, <2>3, FirstsSame
  <1> QED BY <1>4, <1>5, <1>7 DEF Stranded, NothingStranded, Left, Excused, Acking

\* The other steps do not touch the buffers.
LEMMA OtherStranded ==
  ASSUME Base, Stranded, NEW t,
         \/ DrainDoes(t) \/ ExpireDoes(t) \/ OnAckDoes(t) \/ OnEventDoes(t) \/ ConnDoes
         \/ \E m, k : EmitDoes(m, k)
         \/ \E e, k : ServerEmitDoes(e, k)
  PROVE  Stranded'
  <1> DEFINE Connects == state' = "connected" /\ ~Flushing' => state = "connected" /\ ~Flushing
  <1>1. CASE DrainDoes(t)
    <2>1. /\ t.pc \in {"drain", "drainForced"} /\ UNCHANGED <<sendBuffer, receiveBuffer, sendMu, state>>
          /\ UNCHANGED <<kind, ekind, handler>>
      BY <1>1 DEF DrainDoes, linkVars, bufVars, ackVars
    <2>2. PICK S : Moves(t, S) /\ Draws(S, queue)
      BY <1>1 DEF DrainDoes
    <2>3. h'.raced = h.raced /\ h'.aborted = h.aborted /\ \A u \in S : u.pc # "buffer"
      BY <2>2 DEF Draws
    <2>4. Connects
      BY <2>1, <2>2, FlushStays
    <2> QED BY <2>1, <2>2, <2>3, <2>4, StrandedSame, LastingSame
  <1>2. CASE ExpireDoes(t)
    <2>1. /\ t \in DOMAIN tasks /\ t.pc = "sleep" /\ UNCHANGED <<sendBuffer, receiveBuffer, sendMu, state>>
          /\ UNCHANGED <<kind, ekind, h>>
          /\ handler' = handler \/ handler' = [handler EXCEPT ![t.id] = "timedOut"]
      BY <1>2 DEF ExpireDoes, linkVars, bufVars
    <2>2. PICK S : Moves(t, S) /\ \A u \in S : u.pc = "unbuffer"
      <3>1. CASE Moves(t, {})
        <4>1. PICK S : S = {}
          OBVIOUS
        <4>2. Moves(t, S) /\ \A u \in S : u.pc = "unbuffer"
          BY <3>1, <4>1
        <4> QED BY <4>2
      <3>2. CASE \E u : Moves(t, {u}) /\ u.pc = "unbuffer"
        <4>1. PICK u : Moves(t, {u}) /\ u.pc = "unbuffer"
          BY <3>2
        <4>2. PICK S : S = {u}
          OBVIOUS
        <4>3. Moves(t, S) /\ \A v \in S : v.pc = "unbuffer"
          BY <4>1, <4>2
        <4> QED BY <4>3
      <3> QED BY <1>2, <3>1, <3>2 DEF ExpireDoes
    <2>3. Lasting
      <3>1. handler \in [Ids -> {"none", "live", "called", "timedOut"}]
        BY DEF Base, AcksOK
      <3>2. \A i \in Ids : handler[i] = "timedOut" => handler'[i] = "timedOut"
        BY <2>1, <3>1
      <3> QED BY <2>1, <3>2 DEF Lasting
    <2>4. Connects
      BY <2>1, <2>2, FlushStays
    <2> QED BY <2>1, <2>2, <2>3, <2>4, StrandedSame
  <1>3. CASE OnAckDoes(t)
    <2>1. /\ t.pc = "onAck" /\ UNCHANGED <<sendBuffer, receiveBuffer, sendMu, state>> /\ UNCHANGED <<kind, ekind>>
      BY <1>3 DEF OnAckDoes, linkVars, bufVars
    <2>2. PICK S : /\ Moves(t, S) /\ Drains(S) /\ h'.raced = h.raced /\ h'.aborted = h.aborted
                   /\ \/ UNCHANGED handler
                      \/ handler[t.id] # "timedOut" /\ handler' = [handler EXCEPT ![t.id] = "called"]
      BY <1>3 DEF OnAckDoes, HandlerCalled
    <2>3. Lasting
      <3>1. handler \in [Ids -> {"none", "live", "called", "timedOut"}]
        BY DEF Base, AcksOK
      <3>2. \A i \in Ids : handler[i] = "timedOut" => handler'[i] = "timedOut"
        BY <2>2, <3>1
      <3> QED BY <2>1, <3>2 DEF Lasting
    <2>4. Connects
      BY <2>1, <2>2, FlushStays
    <2>5. \A u \in S : u.pc # "buffer"
      BY <2>2 DEF Drains
    <2> QED BY <2>1, <2>2, <2>3, <2>4, <2>5, StrandedSame
  <1>4. CASE OnEventDoes(t)
    <2>1. /\ t.pc = "onEvent" /\ UNCHANGED <<sendBuffer, receiveBuffer, sendMu, state>>
          /\ UNCHANGED <<kind, ekind, handler>>
      BY <1>4 DEF OnEventDoes, linkVars, bufVars, ackVars
    <2>2. PICK S : /\ Moves(t, S) /\ h'.raced = h.raced /\ h'.aborted = h.aborted
                   /\ \A u \in S : u.pc # "buffer"
      BY <1>4 DEF OnEventDoes, IsReplyTo
    <2>3. Connects
      BY <2>1, <2>2, FlushStays
    <2> QED BY <2>1, <2>2, <2>3, StrandedSame, LastingSame
  <1>5. CASE ConnDoes
    <2>1. /\ UNCHANGED <<sendBuffer, receiveBuffer, sendMu, h>> /\ UNCHANGED <<kind, ekind, handler>> /\ Connects
      BY <1>5 DEF ConnDoes, bufVars, ackVars
    <2>2. PICK w, S : Moves(w, S) /\ w.pc # "buffer" /\ \A u \in S : u.pc # "buffer"
      BY <1>5 DEF ConnDoes
    <2> QED BY <2>1, <2>2, StrandedSame, LastingSame
  <1>6. CASE \E m, k : EmitDoes(m, k)
    <2>1. PICK m, k : EmitDoes(m, k)
      BY <1>6
    <2>2. /\ kind[m] = "none" /\ kind' = [kind EXCEPT ![m] = k] /\ UNCHANGED <<ekind, handler>>
          /\ UNCHANGED <<sendBuffer, receiveBuffer, sendMu, state>>
      BY <2>1 DEF EmitDoes, linkVars, bufVars, ackVars
    <2>3. PICK S : /\ Moves(NoTask, S) /\ h'.raced = h.raced /\ h'.aborted = h.aborted
                   /\ \A u \in S : u.pc = "send"
      <3>1. CASE config.retries > 0
        BY <2>1, <3>1 DEF EmitDoes, Draws
      <3>2. CASE ~(config.retries > 0)
        <4>1. h' = h /\ \E u : Moves(NoTask, {u}) /\ u.pc = "send"
          BY <2>1, <3>2 DEF EmitDoes
        <4>2. PICK u : Moves(NoTask, {u}) /\ u.pc = "send"
          BY <4>1
        <4>3. PICK S : S = {u}
          OBVIOUS
        <4>4. Moves(NoTask, S) /\ \A v \in S : v.pc = "send"
          BY <4>2, <4>3
        <4> QED BY <4>1, <4>4
      <3> QED BY <3>1, <3>2
    <2>4. Lasting
      <3>1. kind \in [Emits -> EmitKinds \cup {"none"}]
        BY DEF Base, KindsOK
      <3>2. \A n \in Emits : kind[n] = "binary" => kind'[n] = "binary"
        BY <2>2, <3>1
      <3> QED BY <2>2, <3>2 DEF Lasting
    <2>5. NoTask.pc = "none"
      BY SMT DEF NoTask
    <2>6. Connects
      BY <2>2, <2>3, <2>5, FlushStays
    <2> QED BY <2>2, <2>3, <2>4, <2>5, <2>6, StrandedSame
  <1>7. CASE \E e, k : ServerEmitDoes(e, k)
    <2>1. PICK e, k : ServerEmitDoes(e, k)
      BY <1>7
    <2>2. /\ ekind[e] = "none" /\ ekind' = [ekind EXCEPT ![e] = k] /\ UNCHANGED <<kind, handler>>
          /\ UNCHANGED <<sendBuffer, receiveBuffer, sendMu, state>> /\ UNCHANGED h
      BY <2>1 DEF ServerEmitDoes, linkVars, bufVars, ackVars
    <2>3. PICK S : Moves(NoTask, S) /\ \A u \in S : u.pc # "buffer"
      <3>1. PICK u : Moves(NoTask, {u}) /\ u.pc = "onEvent"
        BY <2>1 DEF ServerEmitDoes
      <3>2. PICK S : S = {u}
        OBVIOUS
      <3>3. Moves(NoTask, S) /\ \A v \in S : v.pc # "buffer"
        BY <3>1, <3>2
      <3> QED BY <3>3
    <2>4. Lasting
      <3>1. ekind \in [Events -> EventKinds \cup {"none"}]
        BY DEF Base, KindsOK
      <3>2. \A d \in Events : ekind[d] \in Acking => d # e
        BY <2>2 DEF Acking
      <3>3. \A d \in Events : ekind[d] \in Acking => ekind'[d] = ekind[d]
        BY <2>2, <3>1, <3>2
      <3> QED BY <2>2, <3>3 DEF Lasting
    <2>5. NoTask.pc = "none"
      BY SMT DEF NoTask
    <2>6. Connects
      BY <2>2, <2>3, <2>5, FlushStays
    <2> QED BY <2>2, <2>3, <2>4, <2>5, <2>6, StrandedSame
  <1> QED BY <1>1, <1>2, <1>3, <1>4, <1>5, <1>6, <1>7

-----------------------------------------------------------------------------
(* The invariant holds initially, and when nothing happens.                *)

\* All of it.
Inv == Base /\ Calls /\ Retry /\ Once /\ Stranded

\* Retries is a number.
LEMMA RetriesNat ==
  ASSUME Base PROVE config.retries \in Nat
  <1>1. config.retries \in {0, Retries}
    BY DEF Base, LinkOK, Configs
  <1> QED BY SMT, <1>1, EmitAssumption

\* The first conjunct holds initially.
LEMMA InitBase ==
  ASSUME Init PROVE Base
  <1>1. TasksOK
    BY SMT DEF Init, TasksOK, NoTasks, IsBagOf
  <1>2. LinkOK
    <2>1. 0 \in 0..MaxActs
      BY SMT, EmitAssumption
    <2> QED BY <2>1 DEF Init, LinkOK
  <1>3. BuffersOK
    <2>1. << >> \in Seq(FrameSet) /\ << >> \in Seq(Events) /\ \A k \in DOMAIN << >> : FALSE
      BY SMT
    <2> QED BY <2>1 DEF Init, BuffersOK
  <1>4. AcksOK
    BY SMT, EmitAssumption DEF Init, AcksOK, Ids
  <1>5. QueueOK
    <2>1. << >> \in Seq(Emits) /\ \A k \in DOMAIN << >> : FALSE
      BY SMT
    <2>2. tries \in [Emits -> Nat]
      BY DEF Init
    <2> QED BY <2>1, <2>2 DEF Init, QueueOK
  <1>6. KindsOK
    BY DEF Init, KindsOK
  <1>7. HistoryOK
    BY DEF Init, HistoryOK, Histories
  <1> QED BY <1>1, <1>2, <1>3, <1>4, <1>5, <1>6, <1>7 DEF Base

\* The invariant holds initially: there are no goroutines, and the buffers and
\* the queue are empty.
LEMMA InitInv ==
  ASSUME Init PROVE Inv
  <1>1. Base
    BY InitBase
  <1>2. tasks = NoTasks /\ sendBuffer = << >> /\ receiveBuffer = << >> /\ queue = << >>
    BY DEF Init
  <1>3. /\ \A t \in DOMAIN tasks : FALSE
        /\ \A k \in DOMAIN sendBuffer : FALSE
        /\ \A k \in DOMAIN receiveBuffer : FALSE
        /\ \A k \in DOMAIN queue : FALSE
    <2>1. \A t \in DOMAIN NoTasks : FALSE
      BY DEF NoTasks
    <2>2. \A k \in DOMAIN << >> : FALSE
      BY SMT
    <2> QED BY <1>2, <2>1, <2>2
  <1>4. /\ \A i \in Ids : handler[i] = "none" /\ h.calls[i] = 0
        /\ \A e \in Events : h.delivered[e] = 0 /\ h.replied[e] = 0 /\ ekind[e] = "none"
        /\ \A m \in Emits : h.left[m] = "no" /\ tries[m] = 0
        /\ state # "connected" /\ ~sendMu /\ ~queueMu /\ pending = {} /\ acks = {}
    BY DEF Init
  <1>5. 0 <= 1 /\ 0 <= 0
    BY SMT
  <1>6. Calls
    BY <1>3, <1>4, <1>5 DEF Calls, Timing
  <1>7. Retry
    <2>1. config.retries \in Nat
      BY <1>1, RetriesNat
    <2>2. 0 <= config.retries + 1
      BY SMT, <2>1
    <2>3. Queueing
      BY <1>3, <1>4, <2>2 DEF Queueing
    <2>4. Live = {} /\ Sending = {} /\ Expired = {}
      BY <1>3, <1>4 DEF Live, Sending, Expired
    <2>5. Trying
      BY <1>3, <2>4 DEF Trying
    <2> QED BY <1>2, <1>4, <2>3, <2>5 DEF Retry
  <1>8. Once
    <2>1. EventsOnce
      BY <1>3, <1>4, <1>5 DEF EventsOnce, Coming
    <2>2. RepliesOnce
      BY <1>3, <1>4, <1>5 DEF RepliesOnce, Replying, Buffered
    <2> QED BY <2>1, <2>2 DEF Once
  <1>9. Stranded
    <2>1. FirstsOnce
      BY <1>3 DEF FirstsOnce, Firsts, Buffering
    <2>2. NothingStranded
      BY <1>4 DEF NothingStranded
    <2> QED BY <2>1, <2>2 DEF Stranded
  <1> QED BY <1>1, <1>6, <1>7, <1>8, <1>9 DEF Inv

\* Nothing happens.
LEMMA StutterInv ==
  ASSUME Inv, UNCHANGED vars PROVE Inv'
  <1>1. /\ UNCHANGED <<config, tasks, link, joined, state, breaks, sendBuffer, sendMu, receiveBuffer, recvMu>>
        /\ UNCHANGED <<nextId, acks, handler, queue, queueMu, pending, tries, spoiled, kind, ekind, h>>
    BY DEF vars, linkVars, bufVars, ackVars, queueVars
  <1>2. Base /\ Calls /\ Retry /\ Once /\ Stranded
    BY DEF Inv
  <1>3. Base'
    <2>1. TasksOK' /\ LinkOK'
      BY <1>1, <1>2 DEF Base, TasksOK, TaskOK, IsReply, IsEmitted, LinkOK
    <2>2. BuffersOK'
      BY <1>1, <1>2 DEF Base, BuffersOK, FrameOK, IsReply, IsEmitted
    <2>3. AcksOK' /\ QueueOK' /\ KindsOK' /\ HistoryOK'
      BY <1>1, <1>2 DEF Base, AcksOK, QueueOK, KindsOK, HistoryOK
    <2> QED BY <2>1, <2>2, <2>3 DEF Base
  <1>4. Calls'
    BY <1>1, <1>2 DEF Calls, Timing
  <1>5. Retry'
    <2>1. Queueing' = Queueing
      BY <1>1 DEF Queueing
    <2>2. Live' = Live /\ Sending' = Sending /\ Expired' = Expired
      BY <1>1 DEF Live, Sending, Expired
    <2>3. Trying' = Trying
      BY <1>1, <2>2 DEF Trying
    <2> QED BY <1>1, <1>2, <2>1, <2>3 DEF Retry
  <1>6. Once'
    <2>1. Coming' = Coming /\ Replying' = Replying /\ Buffered' = Buffered
      BY <1>1 DEF Coming, Replying, Buffered
    <2>2. EventsOnce => EventsOnce'
      BY SMT, <1>1, <2>1 DEF EventsOnce
    <2>3. RepliesOnce => RepliesOnce'
      BY SMT, <1>1, <2>1 DEF RepliesOnce
    <2> QED BY <1>1, <1>2, <2>2, <2>3 DEF Once
  <1>7. Stranded'
    <2>1. Firsts' = Firsts /\ Buffering' = Buffering /\ Flushing' = Flushing
      BY <1>1 DEF Firsts, Buffering, Flushing
    <2>2. FirstsOnce => FirstsOnce'
      BY SMT, <1>1, <2>1 DEF FirstsOnce
    <2>3. NothingStranded => NothingStranded'
      BY <1>1, <2>1 DEF NothingStranded
    <2> QED BY <1>2, <2>2, <2>3 DEF Stranded
  <1> QED BY <1>3, <1>4, <1>5, <1>6, <1>7 DEF Inv
=============================================================================
