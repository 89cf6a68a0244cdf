------------------------ MODULE ClientManagerProofs ------------------------
(***************************************************************************)
(* The manager's connection, its packet queue and the callbacks it listens *)
(* to belong together, for any number of connections and calls.            *)
(*                                                                         *)
(* The invariant follows connect through its section under eioMu: at most  *)
(* one goroutine is in it (Holder), what it has replaced so far depends on *)
(* where it is (Progress), and a connection that is up and reaches the     *)
(* manager is in subs, or is the one that was dialled last and has not got *)
(* that far (Listeners).  All other steps leave that goroutine alone and   *)
(* at most clean up, which OutsideKeeps shows once for all of them.        *)
(***************************************************************************)
EXTENDS ClientManager, TLAPS


\* Zenon checks the steps that name no prover; those with arithmetic, records and
\* functions to be computed name SMT.
USE ZenonT(20)

\* The goroutines after one of task t has gone on as the tasks of S.
LEMMA GoingOn ==
  ASSUME NEW T, NEW B, IsBagOf(B, T), NEW t \in DOMAIN B, NEW S, S \subseteq T
  PROVE  LET C == Starting(Ending(B, t), S)
         IN  /\ IsBagOf(C, T)
             /\ DOMAIN C \subseteq DOMAIN B \cup S
             /\ DOMAIN B \ {t} \subseteq DOMAIN C /\ S \subseteq DOMAIN C
             /\ \A u \in DOMAIN C \ S : C[u] = IF u = t THEN B[u] - 1 ELSE B[u]
             /\ \A u \in DOMAIN C \ DOMAIN B : C[u] = 1
             /\ B[t] = 1 /\ t \notin S => t \notin DOMAIN C
             /\ B[t] = 1 /\ t \in S => C[t] = 1
  <1> DEFINE D == Ending(B, t)
             C == Starting(D, S)
  <1>1. \A u \in DOMAIN B : B[u] \in Nat \ {0}
    BY DEF IsBagOf
  <1>2. /\ IsBagOf(D, T)
        /\ DOMAIN D = {u \in DOMAIN B : u # t \/ B[u] > 1}
        /\ \A u \in DOMAIN D : D[u] = IF u = t THEN B[u] - 1 ELSE B[u]
    BY SMT, <1>1 DEF IsBagOf, Ending
  <1> HIDE DEF D
  <1>3. /\ IsBagOf(C, T)
        /\ DOMAIN C = DOMAIN D \cup S
        /\ \A u \in DOMAIN C : C[u] = (IF u \in DOMAIN D THEN D[u] ELSE 0) + (IF u \in S THEN 1 ELSE 0)
    BY SMT, <1>2 DEF IsBagOf, Starting, Copies
  <1> HIDE DEF C
  <1>4. /\ DOMAIN C \subseteq DOMAIN B \cup S
        /\ DOMAIN B \ {t} \subseteq DOMAIN C /\ S \subseteq DOMAIN C
        /\ \A u \in DOMAIN C \ S : C[u] = IF u = t THEN B[u] - 1 ELSE B[u]
        /\ \A u \in DOMAIN C \ DOMAIN B : C[u] = 1
        /\ B[t] = 1 /\ t \notin S => t \notin DOMAIN C
        /\ B[t] = 1 /\ t \in S => C[t] = 1
    BY SMT, <1>1, <1>2, <1>3
  <1> QED BY <1>3, <1>4 DEF C, D

-----------------------------------------------------------------------------
\* connect between eioMu.Lock and the end of the new packet queue's setup.
Setting == {"dial", "setState", "setEio", "subscribe", "newQueue"}

\* eioMu has at most one holder, and it works on the last connection.
Holder ==
  \A t \in DOMAIN tasks : t.pc \in Setting =>
    /\ eioMu /\ tasks[t] = 1
    /\ \A u \in DOMAIN tasks : u.pc \in Setting => u = t
    /\ t.conn = dials /\ dials # None

\* What connect has done so far of moving the manager to the new connection.
Progress ==
  \A t \in DOMAIN tasks :
    /\ t.pc = "dial" => eio[dials] = "none"
    /\ t.pc \in {"dial", "setState", "setEio"} => queue = meio
    /\ t.pc \in {"subscribe", "newQueue"} => meio = dials
    /\ t.pc = "subscribe" => subs = {}

Current == subs \subseteq {meio} /\ (~eioMu => queue = meio)

\* A connection that is up and reaches the manager is subscribed to, or the one
\* that connect has dialled and not subscribed to yet.
Listeners ==
  \A i \in active : eio[i] = "up" =>
    \/ i \in subs
    \/ i = dials /\ \E t \in DOMAIN tasks : t.pc \in {"setState", "setEio", "subscribe"}

Fresh == \A i \in Conns : i > dials => eio[i] = "none"

Inv == TypeOK /\ Holder /\ Progress /\ Current /\ Listeners /\ Fresh

\* The places and the tasks outside those sections.
OutPCs == PCs \ Setting
OutTasks == {u \in Tasks : u.pc \in OutPCs}

\* Every place that the steps outside those sections name is one of them.
LEMMA Places ==
  /\ "connState" \in OutPCs /\ "eioLock" \in OutPCs /\ "reconnected" \in OutPCs
  /\ "openCleanup" \in OutPCs /\ "openMaybe" \in OutPCs /\ "connLock" \in OutPCs
  /\ "recLock" \in OutPCs /\ "recState" \in OutPCs /\ "recAttempts" \in OutPCs
  /\ "recSleep" \in OutPCs /\ "recReady" \in OutPCs /\ "recError" \in OutPCs
  /\ "ocCleanup" \in OutPCs /\ "ocReset" \in OutPCs /\ "ocState" \in OutPCs
  /\ "ocEvent" \in OutPCs /\ "ocSkip" \in OutPCs
  /\ "mcState" \in OutPCs /\ "mcSkip" \in OutPCs /\ "mcEio" \in OutPCs
  /\ "connect" \in OutPCs /\ "sendDisconnect" \in OutPCs /\ "destroy" \in OutPCs
  /\ "mgrDestroy" \in OutPCs /\ "disconnected" \in OutPCs
  /\ "openEvent" \in OutPCs /\ "closeEvent" \in OutPCs /\ "sendConnect" \in OutPCs
  /\ "answer" \in OutPCs /\ "onConnect" \in OutPCs
  /\ "open" \in Causes /\ "reconnect" \in Causes /\ "event" \in Causes
  /\ "callback" \in Causes /\ "user" \in Causes /\ "server" \in Causes
  BY SMT DEF OutPCs, PCs, Setting, Causes

\* Goroutines are tasks, also after a step.
LEMMA TaskForms ==
  /\ \A t \in Tasks, p \in OutPCs : To(t, p) \in OutTasks
  /\ \A p \in OutPCs, c \in Causes : Task(p, c) \in OutTasks
  /\ \A t \in OutTasks, c \in 0..MaxDials : [t EXCEPT !.conn = c] \in OutTasks
  /\ \A t \in OutTasks : \A h : [t EXCEPT !.todo = @ \ {h}] \in OutTasks
  BY SMT, ManagerAssumption DEF Tasks, OutTasks, OutPCs, To, Task, None

\* So are the goroutines that an event starts, one per set of handlers.
LEMMA EventForms ==
  ASSUME NEW p \in OutPCs, handlers \subseteq 1..MaxEvents
  PROVE  Event(p) \subseteq OutTasks
  BY SMT, ManagerAssumption DEF Event, OutTasks, OutPCs, Tasks, Task, Causes, None

\* The goroutines that hold eioMu are left alone.
SameHolder ==
  \A u \in DOMAIN tasks \cup DOMAIN tasks' : u.pc \in Setting =>
    u \in DOMAIN tasks /\ u \in DOMAIN tasks' /\ tasks'[u] = tasks[u]

\* A goroutine that does not hold eioMu goes on outside the section: the one
\* that holds it is left alone.
LEMMA OtherMoves ==
  ASSUME IsBagOf(tasks, Tasks), NEW t \in DOMAIN tasks, t.pc \notin Setting,
         NEW S, S \subseteq OutTasks, Becomes(t, S)
  PROVE  IsBagOf(tasks', Tasks) /\ SameHolder
  <1>1. S \subseteq Tasks
    BY DEF OutTasks
  <1>2. /\ IsBagOf(tasks', Tasks)
        /\ DOMAIN tasks' \subseteq DOMAIN tasks \cup S
        /\ DOMAIN tasks \ {t} \subseteq DOMAIN tasks'
        /\ \A u \in DOMAIN tasks' \ S : tasks'[u] = IF u = t THEN tasks[u] - 1 ELSE tasks[u]
    BY SMT, <1>1, GoingOn DEF Becomes
  <1> QED BY <1>2 DEF SameHolder, OutTasks, OutPCs

\* So it is when a goroutine is started.
LEMMA OtherStarts ==
  ASSUME IsBagOf(tasks, Tasks), NEW t \in OutTasks, Starts(t)
  PROVE  IsBagOf(tasks', Tasks) /\ SameHolder
  <1>1. t \in Tasks
    BY DEF OutTasks
  <1>2. /\ IsBagOf(tasks', Tasks)
        /\ DOMAIN tasks' = DOMAIN tasks \cup {t}
        /\ \A u \in DOMAIN tasks \ {t} : tasks'[u] = tasks[u]
    BY SMT, <1>1 DEF Starts, IsBagOf, Starting, Copies
  <1> QED BY <1>2 DEF SameHolder, OutTasks, OutPCs

\* A step outside eioMu: it may silence the subscribed connections or close one.
Outside ==
  /\ SameHolder /\ UNCHANGED <<eioMu, dials, meio, queue>>
  /\ \/ UNCHANGED <<active, subs>> 
     \/ active' = active \ subs /\ subs' = {}
  /\ \A i \in Conns : eio'[i] = eio[i] \/ (eio[i] # "none" /\ eio'[i] # "up")

\* A step that leaves the holder alone, and at most cleans up, keeps the invariant.
LEMMA OutsideKeeps ==
  ASSUME Inv, Outside, TypeOK' PROVE Inv'
  <1>1. Holder'
    BY DEF Inv, Outside, Holder, SameHolder
  <1>2. Progress'
    <2> SUFFICES ASSUME NEW t \in DOMAIN tasks', t.pc \in Setting
                 PROVE  /\ t.pc = "dial" => eio'[dials'] = "none"
                        /\ t.pc \in {"dial", "setState", "setEio"} => queue' = meio'
                        /\ t.pc \in {"subscribe", "newQueue"} => meio' = dials'
                        /\ t.pc = "subscribe" => subs' = {}
      BY DEF Progress, Setting
    <2>1. t \in DOMAIN tasks
      BY DEF Outside, SameHolder
    <2>2. dials \in Conns
      BY SMT, <2>1 DEF Inv, Holder, TypeOK, Conns, None
    <2> QED BY <2>1, <2>2 DEF Inv, Progress, Outside
  <1>3. Current'
    BY DEF Inv, Outside, Current
  <1>4. Listeners'
    BY SMT DEF Inv, TypeOK, Outside, Listeners, SameHolder, Setting
  <1>5. Fresh'
    BY DEF Inv, Outside, Fresh, Conns
  <1> QED BY <1>1, <1>2, <1>3, <1>4, <1>5 DEF Inv

Others ==
  /\ state \in {"connecting", "connected", "reconnecting", "disconnected"}
  /\ skip \in BOOLEAN /\ connectMu \in BOOLEAN /\ eioMu \in BOOLEAN
  /\ attempts \in Nat /\ dials \in 0..MaxDials
  /\ eio \in [Conns -> {"none", "up", "closing", "closed"}]
  /\ active \subseteq Conns /\ subs \subseteq Conns
  /\ meio \in Conns \cup {None} /\ queue \in Conns \cup {None}
  /\ sock \in {"connected", "pending", "disconnected"} /\ sockActive \in BOOLEAN
  /\ handlers \subseteq 1..MaxEvents /\ dereg \in 0..MaxEvents
  /\ heard \subseteq Conns
  /\ faults \in Nat /\ ops \in Nat /\ faults + ops <= MaxEvents

\* The type of the goroutines and the types of the rest.
LEMMA TypeSplit ==
  /\ TypeOK <=> IsBagOf(tasks, Tasks) /\ Others
  /\ TypeOK' <=> IsBagOf(tasks', Tasks) /\ Others'
  BY DEF TypeOK, Others

\* What the lemmas about goroutines need of the invariant.
LEMMA InvTasks ==
  Inv => IsBagOf(tasks, Tasks) /\ DOMAIN tasks \subseteq Tasks /\ handlers \subseteq 1..MaxEvents
  BY DEF Inv, TypeOK, IsBagOf

\* open and reconnect before and after the section under eioMu: connect takes
\* connectMu.
LEMMA ConnectLockKeeps ==
  ASSUME Inv, NEW t \in DOMAIN tasks, ConnectLock(t) PROVE Inv'
  <1>1. IsBagOf(tasks', Tasks) /\ SameHolder
    BY SMT, InvTasks, OtherMoves, TaskForms, Places DEF ConnectLock, At, Setting
  <1>2. TypeOK'
    BY <1>1, TypeSplit DEF Inv, Others, ConnectLock, mgrVars, eioVars, sockVars
  <1>3. Outside
    BY <1>1 DEF Outside, ConnectLock, mgrVars, eioVars, sockVars
  <1> QED BY <1>2, <1>3, OutsideKeeps

\* It reads and sets the state.
LEMMA ConnectStateKeeps ==
  ASSUME Inv, NEW t \in DOMAIN tasks, ConnectState(t) PROVE Inv'
  <1>1. IsBagOf(tasks', Tasks) /\ SameHolder
    BY SMT, InvTasks, OtherMoves, TaskForms, Places DEF ConnectState, At, Setting
  <1>2. TypeOK'
    BY <1>1, TypeSplit DEF Inv, Others, ConnectState, mgrVars, eioVars, sockVars
  <1>3. Outside
    BY <1>1 DEF Outside, ConnectState, mgrVars, eioVars, sockVars
  <1> QED BY <1>2, <1>3, OutsideKeeps

\* open cleans up after a failed connect.
LEMMA OpenCleanupKeeps ==
  ASSUME Inv, NEW t \in DOMAIN tasks, OpenCleanup(t) PROVE Inv'
  <1>1. IsBagOf(tasks', Tasks) /\ SameHolder
    BY SMT, InvTasks, OtherMoves, TaskForms, Places DEF OpenCleanup, Cleanup, At, Setting
  <1>2. TypeOK'
    BY SMT, <1>1, TypeSplit DEF Inv, Others, OpenCleanup, Cleanup, mgrVars, eioVars, sockVars
  <1>3. Outside
    BY <1>1 DEF Outside, OpenCleanup, Cleanup, mgrVars, eioVars, sockVars
  <1> QED BY <1>2, <1>3, OutsideKeeps

\* It starts reconnect, or does not.
LEMMA MaybeReconnectOnOpenKeeps ==
  ASSUME Inv, NEW t \in DOMAIN tasks, MaybeReconnectOnOpen(t) PROVE Inv'
  <1>1. IsBagOf(tasks', Tasks) /\ SameHolder
    BY SMT, InvTasks, OtherMoves, TaskForms, Places DEF MaybeReconnectOnOpen, At, Setting
  <1>2. TypeOK'
    BY SMT, <1>1, TypeSplit DEF Inv, Others, MaybeReconnectOnOpen, mgrVars, eioVars, sockVars
  <1>3. Outside
    BY <1>1 DEF Outside, MaybeReconnectOnOpen, mgrVars, eioVars, sockVars
  <1> QED BY <1>2, <1>3, OutsideKeeps

\* reconnect takes connectMu.
LEMMA ReconnectLockKeeps ==
  ASSUME Inv, NEW t \in DOMAIN tasks, ReconnectLock(t) PROVE Inv'
  <1>1. IsBagOf(tasks', Tasks) /\ SameHolder
    BY SMT, InvTasks, OtherMoves, TaskForms, Places DEF ReconnectLock, ReconnectEnds, At, Setting
  <1>2. TypeOK'
    BY <1>1, TypeSplit DEF Inv, Others, ReconnectLock, ReconnectEnds, mgrVars, eioVars, sockVars
  <1>3. Outside
    BY <1>1 DEF Outside, ReconnectLock, ReconnectEnds, mgrVars, eioVars, sockVars
  <1> QED BY <1>2, <1>3, OutsideKeeps

\* It reads the state.
LEMMA ReconnectStateKeeps ==
  ASSUME Inv, NEW t \in DOMAIN tasks, ReconnectState(t) PROVE Inv'
  <1>1. IsBagOf(tasks', Tasks) /\ SameHolder
    BY SMT, InvTasks, OtherMoves, TaskForms, Places DEF ReconnectState, ReconnectEnds, At, Setting
  <1>2. TypeOK'
    BY <1>1, TypeSplit DEF Inv, Others, ReconnectState, ReconnectEnds, mgrVars, eioVars, sockVars
  <1>3. Outside
    BY <1>1 DEF Outside, ReconnectState, ReconnectEnds, mgrVars, eioVars, sockVars
  <1> QED BY <1>2, <1>3, OutsideKeeps

\* It gives up, or counts an attempt and sleeps.
LEMMA ReconnectAttemptsKeeps ==
  ASSUME Inv, NEW t \in DOMAIN tasks, ReconnectAttempts(t) PROVE Inv'
  <1>1. IsBagOf(tasks', Tasks) /\ SameHolder
    BY SMT, InvTasks, OtherMoves, TaskForms, Places DEF ReconnectAttempts, ReconnectEnds, At, Setting
  <1>2. attempts' \in Nat /\ connectMu' \in BOOLEAN
    <2>1. attempts \in Nat /\ connectMu \in BOOLEAN
      BY DEF Inv, TypeOK
    <2>2. attempts' = 0 \/ attempts' = attempts + 1
      BY DEF ReconnectAttempts
    <2>3. connectMu' = FALSE \/ connectMu' = connectMu
      BY DEF ReconnectAttempts, ReconnectEnds
    <2>4. attempts' \in Nat
      BY SMT, <2>1, <2>2
    <2>5. connectMu' \in BOOLEAN
      BY <2>1, <2>3
    <2> QED BY <2>4, <2>5
  <1>3. TypeOK'
    BY SMT, <1>1, <1>2, TypeSplit DEF Inv, Others, ReconnectAttempts, ReconnectEnds, mgrVars, eioVars, sockVars
  <1>4. Outside
    BY <1>1 DEF Outside, ReconnectAttempts, ReconnectEnds, mgrVars, eioVars, sockVars
  <1> QED BY <1>3, <1>4, OutsideKeeps

\* After its sleep it looks at skipReconnect.
LEMMA ReconnectSkipKeeps ==
  ASSUME Inv, NEW t \in DOMAIN tasks, ReconnectSkip(t) PROVE Inv'
  <1>1. IsBagOf(tasks', Tasks) /\ SameHolder
    BY SMT, InvTasks, OtherMoves, TaskForms, Places DEF ReconnectSkip, ReconnectEnds, At, Setting
  <1>2. TypeOK'
    BY <1>1, TypeSplit DEF Inv, Others, ReconnectSkip, ReconnectEnds, mgrVars, eioVars, sockVars
  <1>3. Outside
    BY <1>1 DEF Outside, ReconnectSkip, ReconnectEnds, mgrVars, eioVars, sockVars
  <1> QED BY <1>2, <1>3, OutsideKeeps

\* A failed attempt is followed by the next one.
LEMMA ReconnectErrorKeeps ==
  ASSUME Inv, NEW t \in DOMAIN tasks, ReconnectError(t) PROVE Inv'
  <1>1. [To(t, "recState") EXCEPT !.conn = None] \in OutTasks
    BY SMT, InvTasks, TaskForms, Places, ManagerAssumption DEF None
  <1>2. IsBagOf(tasks', Tasks) /\ SameHolder
    BY <1>1, InvTasks, OtherMoves, TaskForms, Places DEF ReconnectError, At, Setting
  <1>3. TypeOK'
    BY SMT, <1>2, TypeSplit DEF Inv, Others, ReconnectError, mgrVars, eioVars, sockVars
  <1>4. Outside
    BY <1>2 DEF Outside, ReconnectError, mgrVars, eioVars, sockVars
  <1> QED BY <1>3, <1>4, OutsideKeeps

\* A successful one resets the attempts.
LEMMA OnReconnectKeeps ==
  ASSUME Inv, NEW t \in DOMAIN tasks, OnReconnect(t) PROVE Inv'
  <1>1. IsBagOf(tasks', Tasks) /\ SameHolder
    BY InvTasks, OtherMoves, TaskForms, Places DEF OnReconnect, ReconnectEnds, At, Setting
  <1>2. TypeOK'
    BY <1>1, TypeSplit DEF Inv, Others, OnReconnect, ReconnectEnds, mgrVars, eioVars, sockVars
  <1>3. Outside
    BY <1>1 DEF Outside, OnReconnect, ReconnectEnds, mgrVars, eioVars, sockVars
  <1> QED BY <1>2, <1>3, OutsideKeeps

\* onClose cleans up.
LEMMA OnCloseCleanupKeeps ==
  ASSUME Inv, NEW t \in DOMAIN tasks, OnCloseCleanup(t) PROVE Inv'
  <1>1. IsBagOf(tasks', Tasks) /\ SameHolder
    BY SMT, InvTasks, OtherMoves, TaskForms, Places DEF OnCloseCleanup, Cleanup, At, Setting
  <1>2. TypeOK'
    BY SMT, <1>1, TypeSplit DEF Inv, Others, OnCloseCleanup, Cleanup, mgrVars, eioVars, sockVars
  <1>3. Outside
    BY <1>1 DEF Outside, OnCloseCleanup, Cleanup, mgrVars, eioVars, sockVars
  <1> QED BY <1>2, <1>3, OutsideKeeps

\* It closes the connection.
LEMMA OnCloseResetKeeps ==
  ASSUME Inv, NEW t \in DOMAIN tasks, OnCloseReset(t) PROVE Inv'
  <1>1. IsBagOf(tasks', Tasks) /\ SameHolder
    BY SMT, InvTasks, OtherMoves, TaskForms, Places DEF OnCloseReset, At, Setting
  <1>2. TypeOK'
    BY SMT, <1>1, TypeSplit DEF Inv, Others, OnCloseReset, mgrVars, eioVars, sockVars
  <1>3. Outside
    BY <1>1 DEF Outside, OnCloseReset, mgrVars, eioVars, sockVars
  <1> QED BY <1>2, <1>3, OutsideKeeps

\* It sets the state.
LEMMA OnCloseStateKeeps ==
  ASSUME Inv, NEW t \in DOMAIN tasks, OnCloseState(t) PROVE Inv'
  <1>1. IsBagOf(tasks', Tasks) /\ SameHolder
    BY SMT, InvTasks, OtherMoves, TaskForms, Places DEF OnCloseState, At, Setting
  <1>2. TypeOK'
    BY SMT, <1>1, TypeSplit DEF Inv, Others, OnCloseState, mgrVars, eioVars, sockVars
  <1>3. Outside
    BY <1>1 DEF Outside, OnCloseState, mgrVars, eioVars, sockVars
  <1> QED BY <1>2, <1>3, OutsideKeeps

\* It emits close to the sockets.
LEMMA OnCloseEventKeeps ==
  ASSUME Inv, NEW t \in DOMAIN tasks, OnCloseEvent(t) PROVE Inv'
  <1>1. IsBagOf(tasks', Tasks) /\ SameHolder
    BY SMT, InvTasks, OtherMoves, TaskForms, Places, EventForms DEF OnCloseEvent, At, Setting
  <1>2. TypeOK'
    BY SMT, <1>1, TypeSplit DEF Inv, Others, OnCloseEvent, mgrVars, eioVars, sockVars
  <1>3. Outside
    BY <1>1 DEF Outside, OnCloseEvent, mgrVars, eioVars, sockVars
  <1> QED BY <1>2, <1>3, OutsideKeeps

\* It starts reconnect unless skipReconnect is set.
LEMMA OnCloseSkipKeeps ==
  ASSUME Inv, NEW t \in DOMAIN tasks, OnCloseSkip(t) PROVE Inv'
  <1> DEFINE S == (IF skip THEN {} ELSE {Task("recLock", "reconnect")}) \cup
                  (IF t.cause = "callback" THEN {} ELSE {To(t, "mcEio")})
  <1>1. S \subseteq OutTasks
    BY SMT, InvTasks, TaskForms, Places
  <1>2. IsBagOf(tasks', Tasks) /\ SameHolder
    BY <1>1, InvTasks, OtherMoves, TaskForms, Places DEF OnCloseSkip, At, Setting
  <1>3. TypeOK'
    BY SMT, <1>2, TypeSplit DEF Inv, Others, OnCloseSkip, mgrVars, eioVars, sockVars
  <1>4. Outside
    BY <1>2 DEF Outside, OnCloseSkip, mgrVars, eioVars, sockVars
  <1> QED BY <1>3, <1>4, OutsideKeeps

\* Close sets the state.
LEMMA CloseStateKeeps ==
  ASSUME Inv, NEW t \in DOMAIN tasks, CloseState(t) PROVE Inv'
  <1>1. IsBagOf(tasks', Tasks) /\ SameHolder
    BY SMT, InvTasks, OtherMoves, TaskForms, Places DEF CloseState, At, Setting
  <1>2. TypeOK'
    BY SMT, <1>1, TypeSplit DEF Inv, Others, CloseState, mgrVars, eioVars, sockVars
  <1>3. Outside
    BY <1>1 DEF Outside, CloseState, mgrVars, eioVars, sockVars
  <1> QED BY <1>2, <1>3, OutsideKeeps

\* It sets skipReconnect.
LEMMA CloseSkipKeeps ==
  ASSUME Inv, NEW t \in DOMAIN tasks, CloseSkip(t) PROVE Inv'
  <1>1. IsBagOf(tasks', Tasks) /\ SameHolder
    BY SMT, InvTasks, OtherMoves, TaskForms, Places DEF CloseSkip, At, Setting
  <1>2. TypeOK'
    BY SMT, <1>1, TypeSplit DEF Inv, Others, CloseSkip, mgrVars, eioVars, sockVars
  <1>3. Outside
    BY <1>1 DEF Outside, CloseSkip, mgrVars, eioVars, sockVars
  <1> QED BY <1>2, <1>3, OutsideKeeps

\* It closes the connection.
LEMMA CloseEioKeeps ==
  ASSUME Inv, NEW t \in DOMAIN tasks, CloseEio(t) PROVE Inv'
  <1>1. IsBagOf(tasks', Tasks) /\ SameHolder
    BY SMT, InvTasks, OtherMoves, TaskForms, Places DEF CloseEio, At, Setting
  <1>2. TypeOK'
    BY SMT, <1>1, TypeSplit DEF Inv, Others, CloseEio, mgrVars, eioVars, sockVars
  <1>3. Outside
    BY <1>1 DEF Outside, CloseEio, mgrVars, eioVars, sockVars
  <1> QED BY <1>2, <1>3, OutsideKeeps

\* The socket's Connect opens the manager.
LEMMA ConnectManagerKeeps ==
  ASSUME Inv, NEW t \in DOMAIN tasks, ConnectManager(t) PROVE Inv'
  <1> DEFINE send == state = "connected" /\ sock # "pending"
             S == (IF state # "reconnecting" THEN {Task("connLock", "open")} ELSE {}) \cup
                  (IF send THEN {Task("sendConnect", "event")} ELSE {})
  <1>1. S \subseteq OutTasks
    BY TaskForms, Places
  <1>2. IsBagOf(tasks', Tasks) /\ SameHolder
    BY <1>1, InvTasks, OtherMoves, TaskForms, Places DEF ConnectManager, At, Setting
  <1>3. TypeOK'
    BY SMT, <1>2, TypeSplit DEF Inv, Others, ConnectManager, mgrVars, eioVars, sockVars
  <1>4. Outside
    BY <1>2 DEF Outside, ConnectManager, mgrVars, eioVars, sockVars
  <1> QED BY <1>3, <1>4, OutsideKeeps

\* The handlers of open send CONNECT.
LEMMA OpenFuncKeeps ==
  ASSUME Inv, NEW t \in DOMAIN tasks, OpenFunc(t) PROVE Inv'
  <1> DEFINE S(h) == (IF sock = "pending" THEN {} ELSE {Task("sendConnect", "event")}) \cup
                     (IF t.todo = {h} THEN {} ELSE {[t EXCEPT !.todo = @ \ {h}]})
  <1>1. PICK h : sock' = "pending" /\ Becomes(t, S(h))
    BY DEF OpenFunc
  <1>2. t \in OutTasks
    BY InvTasks, Places DEF OpenFunc, At, OutTasks
  <1>3. S(h) \subseteq OutTasks
    BY <1>2, TaskForms, Places
  <1> HIDE DEF S
  <1>4. IsBagOf(tasks', Tasks) /\ SameHolder
    BY <1>1, <1>2, <1>3, InvTasks, OtherMoves DEF OutTasks, OutPCs
  <1>5. TypeOK'
    BY SMT, <1>4, <1>1, TypeSplit DEF Inv, Others, OpenFunc, mgrVars, eioVars, sockVars
  <1>6. Outside
    BY <1>4 DEF Outside, OpenFunc, mgrVars, eioVars, sockVars
  <1> QED BY <1>5, <1>6, OutsideKeeps

\* The handlers of close set the socket's state.
LEMMA CloseFuncKeeps ==
  ASSUME Inv, NEW t \in DOMAIN tasks, CloseFunc(t) PROVE Inv'
  <1> DEFINE S(h) == IF t.todo = {h} THEN {} ELSE {[t EXCEPT !.todo = @ \ {h}]}
  <1>1. PICK h : sock' = "disconnected" /\ Becomes(t, S(h))
    BY DEF CloseFunc
  <1>2. t \in OutTasks
    BY InvTasks, Places DEF CloseFunc, At, OutTasks
  <1>3. S(h) \subseteq OutTasks
    BY <1>2, TaskForms, Places
  <1> HIDE DEF S
  <1>4. IsBagOf(tasks', Tasks) /\ SameHolder
    BY <1>1, <1>2, <1>3, InvTasks, OtherMoves DEF OutTasks, OutPCs
  <1>5. TypeOK'
    BY SMT, <1>4, <1>1, TypeSplit DEF Inv, Others, CloseFunc, mgrVars, eioVars, sockVars
  <1>6. Outside
    BY <1>4 DEF Outside, CloseFunc, mgrVars, eioVars, sockVars
  <1> QED BY <1>5, <1>6, OutsideKeeps

\* The packet queue sends CONNECT.
LEMMA SendConnectKeeps ==
  ASSUME Inv, NEW t \in DOMAIN tasks, SendConnect(t) PROVE Inv'
  <1>1. [To(t, "answer") EXCEPT !.conn = queue] \in OutTasks
    <2>1. queue \in 0..MaxDials
      BY SMT, ManagerAssumption DEF Inv, TypeOK, Conns, None
    <2> QED BY <2>1, InvTasks, TaskForms, Places
  <1>2. IsBagOf(tasks', Tasks) /\ SameHolder
    BY <1>1, InvTasks, OtherMoves, TaskForms, Places DEF SendConnect, At, Setting
  <1>3. TypeOK'
    BY SMT, <1>2, TypeSplit DEF Inv, Others, SendConnect, mgrVars, eioVars, sockVars
  <1>4. Outside
    BY <1>2 DEF Outside, SendConnect, mgrVars, eioVars, sockVars
  <1> QED BY <1>3, <1>4, OutsideKeeps

\* The server's answer arrives.
LEMMA EioOnPacketKeeps ==
  ASSUME Inv, NEW t \in DOMAIN tasks, EioOnPacket(t) PROVE Inv'
  <1>1. IsBagOf(tasks', Tasks) /\ SameHolder
    BY SMT, InvTasks, OtherMoves, TaskForms, Places DEF EioOnPacket, At, Setting
  <1>2. TypeOK'
    BY SMT, <1>1, TypeSplit DEF Inv, Others, EioOnPacket, mgrVars, eioVars, sockVars
  <1>3. Outside
    BY <1>1 DEF Outside, EioOnPacket, mgrVars, eioVars, sockVars
  <1> QED BY <1>2, <1>3, OutsideKeeps

\* The socket is connected.
LEMMA OnConnectKeeps ==
  ASSUME Inv, NEW t \in DOMAIN tasks, OnConnect(t) PROVE Inv'
  <1>1. IsBagOf(tasks', Tasks) /\ SameHolder
    BY InvTasks, OtherMoves, TaskForms, Places DEF OnConnect, At, Setting
  <1>2. TypeOK'
    BY <1>1, TypeSplit DEF Inv, Others, OnConnect, mgrVars, eioVars, sockVars
  <1>3. Outside
    BY <1>1 DEF Outside, OnConnect, mgrVars, eioVars, sockVars
  <1> QED BY <1>2, <1>3, OutsideKeeps

\* The socket's Disconnect sends DISCONNECT.
LEMMA SendDisconnectKeeps ==
  ASSUME Inv, NEW t \in DOMAIN tasks, SendDisconnect(t) PROVE Inv'
  <1>1. IsBagOf(tasks', Tasks) /\ SameHolder
    BY SMT, InvTasks, OtherMoves, TaskForms, Places DEF SendDisconnect, At, Setting
  <1>2. TypeOK'
    BY SMT, <1>1, TypeSplit DEF Inv, Others, SendDisconnect, mgrVars, eioVars, sockVars
  <1>3. Outside
    BY <1>1 DEF Outside, SendDisconnect, mgrVars, eioVars, sockVars
  <1> QED BY <1>2, <1>3, OutsideKeeps

\* It removes the handlers.
LEMMA DeregisterKeeps ==
  ASSUME Inv, NEW t \in DOMAIN tasks, Deregister(t) PROVE Inv'
  <1>1. IsBagOf(tasks', Tasks) /\ SameHolder
    BY SMT, InvTasks, OtherMoves, TaskForms, Places DEF Deregister, At, Setting
  <1>2. handlers' \subseteq 1..MaxEvents /\ dereg' \in 0..MaxEvents /\ sockActive' \in BOOLEAN
    <2>1. dereg' \in 0..MaxEvents
      BY SMT, ManagerAssumption DEF Deregister, None
    <2> QED BY <2>1, InvTasks DEF Deregister
  <1>3. TypeOK'
    BY SMT, <1>1, <1>2, TypeSplit DEF Inv, Others, Deregister, mgrVars, eioVars, sockVars
  <1>4. Outside
    BY <1>1 DEF Outside, Deregister, mgrVars, eioVars, sockVars
  <1> QED BY <1>3, <1>4, OutsideKeeps

\* The manager closes when no socket is active.
LEMMA DestroyKeeps ==
  ASSUME Inv, NEW t \in DOMAIN tasks, Destroy(t) PROVE Inv'
  <1>1. IsBagOf(tasks', Tasks) /\ SameHolder
    BY SMT, InvTasks, OtherMoves, TaskForms, Places DEF Destroy, At, Setting
  <1>2. TypeOK'
    BY SMT, <1>1, TypeSplit DEF Inv, Others, Destroy, mgrVars, eioVars, sockVars
  <1>3. Outside
    BY <1>1 DEF Outside, Destroy, mgrVars, eioVars, sockVars
  <1> QED BY <1>2, <1>3, OutsideKeeps

\* The socket is disconnected.
LEMMA DisconnectedKeeps ==
  ASSUME Inv, NEW t \in DOMAIN tasks, Disconnected(t) PROVE Inv'
  <1>1. IsBagOf(tasks', Tasks) /\ SameHolder
    BY InvTasks, OtherMoves, TaskForms, Places DEF Disconnected, At, Setting
  <1>2. TypeOK'
    BY <1>1, TypeSplit DEF Inv, Others, Disconnected, mgrVars, eioVars, sockVars
  <1>3. Outside
    BY <1>1 DEF Outside, Disconnected, mgrVars, eioVars, sockVars
  <1> QED BY <1>2, <1>3, OutsideKeeps

-----------------------------------------------------------------------------
(* The section under eioMu.                                                *)

\* The only goroutine of the section is u.
Alone(u) ==
  /\ u \in DOMAIN tasks /\ tasks[u] = 1
  /\ \A v \in DOMAIN tasks : v.pc \in Setting => v = u

InTasks == {u \in Tasks : u.pc \in Setting}

\* Goroutines of the section are tasks.
LEMMA InForms ==
  /\ \A t \in Tasks, p \in Setting : To(t, p) \in InTasks /\ To(t, p).pc = p /\ To(t, p).conn = t.conn
  /\ \A t \in Tasks, c \in 0..MaxDials :
        /\ [To(t, "dial") EXCEPT !.conn = c] \in InTasks
        /\ [To(t, "dial") EXCEPT !.conn = c].pc = "dial"
        /\ [To(t, "dial") EXCEPT !.conn = c].conn = c
  <1>1. /\ Setting \subseteq PCs /\ "dial" \in Setting
    BY DEF Setting, PCs
  <1> QED BY <1>1 DEF InTasks, Tasks, To

\* The first goroutine in the section, and one that goes on in it.
LEMMA HolderMoves ==
  ASSUME Inv, NEW t \in DOMAIN tasks, NEW u \in InTasks, Becomes(t, {u}), t.pc # u.pc,
         t.pc \in Setting \/ ~eioMu
  PROVE  IsBagOf(tasks', Tasks) /\ Alone(u)'
  <1>1. u \in Tasks /\ u.pc \in Setting /\ {u} \subseteq Tasks
    BY DEF InTasks
  <1>2. /\ IsBagOf(tasks', Tasks)
        /\ DOMAIN tasks' \subseteq DOMAIN tasks \cup {u}
        /\ u \in DOMAIN tasks'
        /\ \A v \in DOMAIN tasks' \ DOMAIN tasks : tasks'[v] = 1
        /\ tasks[t] = 1 => t \notin DOMAIN tasks'
    BY SMT, <1>1, InvTasks, GoingOn DEF Becomes
  <1>3. \A v \in DOMAIN tasks : v.pc \in Setting => v = t /\ tasks[t] = 1
    BY DEF Inv, Holder
  <1> QED BY <1>1, <1>2, <1>3 DEF Alone

\* The goroutine leaves it.
LEMMA HolderLeaves ==
  ASSUME Inv, NEW t \in DOMAIN tasks, t.pc \in Setting, NEW S, S \subseteq OutTasks, Becomes(t, S)
  PROVE  IsBagOf(tasks', Tasks) /\ \A v \in DOMAIN tasks' : v.pc \notin Setting
  <1>1. S \subseteq Tasks /\ \A v \in S : v.pc \notin Setting
    BY DEF OutTasks, OutPCs
  <1>2. /\ IsBagOf(tasks', Tasks)
        /\ DOMAIN tasks' \subseteq DOMAIN tasks \cup S
        /\ tasks[t] = 1 /\ t \notin S => t \notin DOMAIN tasks'
    BY SMT, <1>1, InvTasks, GoingOn DEF Becomes
  <1>3. \A v \in DOMAIN tasks : v.pc \in Setting => v = t /\ tasks[t] = 1
    BY DEF Inv, Holder
  <1> QED BY <1>1, <1>2, <1>3

\* The manager takes eioMu and dials.
LEMMA EioLockKeeps ==
  ASSUME Inv, NEW t \in DOMAIN tasks, EioLock(t) PROVE Inv'
  <1>0. PICK c : c = dials + 1
    OBVIOUS
  <1> DEFINE u == [To(t, "dial") EXCEPT !.conn = c]
  <1>1. c = dials + 1 /\ dials \in Nat /\ dials + 1 \in Conns /\ dials + 1 \in 0..MaxDials
    BY SMT, <1>0, ManagerAssumption DEF Inv, TypeOK, EioLock, Conns
  <1>2. u \in InTasks /\ u.pc = "dial" /\ u.conn = c
    BY SMT, <1>1, InvTasks, InForms
  <1> HIDE DEF u
  <1>3. Becomes(t, {u}) /\ t.pc = "eioLock" /\ ~eioMu
    BY <1>1 DEF EioLock, At, u
  <1>4. IsBagOf(tasks', Tasks) /\ Alone(u)'
    BY <1>2, <1>3, HolderMoves
  <1>5. TypeOK'
    BY SMT, <1>1, <1>4, TypeSplit DEF Inv, Others, EioLock, sockVars
  <1>6. eio[dials + 1] = "none"
    BY SMT, <1>1 DEF Inv, Fresh
  <1>7. Holder' /\ Progress' /\ Current'
    BY SMT, <1>1, <1>2, <1>4, <1>6 DEF Inv, EioLock, Alone, Holder, Progress, Current, Setting, None
  <1>8. Listeners'
    <2>1. \A v \in DOMAIN tasks : v.pc \notin Setting
      BY <1>3 DEF Inv, Holder
    <2> QED BY <1>6, <2>1 DEF Inv, EioLock, Listeners, Setting
  <1>9. Fresh'
    BY SMT, <1>1 DEF Inv, EioLock, Fresh, Conns
  <1> QED BY <1>5, <1>7, <1>8, <1>9 DEF Inv

\* eio.Dial fails.
LEMMA DialErrorKeeps ==
  ASSUME Inv, NEW t \in DOMAIN tasks, DialError(t) PROVE Inv'
  <1>1. t.pc = "dial" /\ t.pc \in Setting
    BY DEF DialError, At, Setting
  <1>2. IsBagOf(tasks', Tasks) /\ \A v \in DOMAIN tasks' : v.pc \notin Setting
    BY SMT, <1>1, InvTasks, HolderLeaves, TaskForms, Places DEF DialError
  <1>3. faults' \in Nat /\ faults' + ops <= MaxEvents
    BY SMT, ManagerAssumption DEF Inv, TypeOK, DialError, MoreEvents
  <1>4. TypeOK'
    BY <1>2, <1>3, TypeSplit DEF Inv, Others, DialError, eioVars, sockVars
  <1>5. Holder' /\ Progress'
    BY <1>2 DEF Holder, Progress, Setting
  <1>6. Current'
    BY <1>1 DEF Inv, Progress, Current, DialError, eioVars
  <1>7. Listeners'
    <2>1. eio[dials] = "none" /\ \A v \in DOMAIN tasks : v.pc \in Setting => v = t
      BY <1>1 DEF Inv, Progress, Holder
    <2> QED BY <2>1 DEF Inv, Listeners, DialError, eioVars
  <1>8. Fresh'
    BY DEF Inv, DialError, eioVars, Fresh
  <1> QED BY <1>4, <1>5, <1>6, <1>7, <1>8 DEF Inv

\* The steps of connect from eio.Dial to the new packet queue.
LEMMA DialKeeps ==
  ASSUME Inv, NEW t \in DOMAIN tasks, Dial(t) PROVE Inv'
  <1> DEFINE u == To(t, "setState")
  <1>1. u \in InTasks /\ u.pc = "setState" /\ u.conn = t.conn
    BY InvTasks, InForms DEF Setting
  <1> HIDE DEF u
  <1>2. Becomes(t, {u}) /\ t.pc = "dial" /\ t.pc \in Setting
    BY DEF Dial, At, u, Setting
  <1>3. IsBagOf(tasks', Tasks) /\ Alone(u)'
    BY <1>1, <1>2, HolderMoves
  <1>4. TypeOK'
    BY <1>3, TypeSplit DEF Inv, Others, Dial, mgrVars, sockVars
  <1>5. t.conn = dials /\ dials # None /\ dials \in Conns /\ eioMu
    BY SMT, <1>2 DEF Inv, Holder, TypeOK, Conns, None
  <1>6. Holder' /\ Progress' /\ Current'
    BY <1>1, <1>2, <1>3, <1>5 DEF Inv, Dial, Alone, Holder, Progress, Current, Setting, mgrVars
  <1>7. Listeners'
    BY <1>1, <1>2, <1>3, <1>5 DEF Inv, TypeOK, Holder, Dial, Alone, Listeners, Setting
  <1>8. Fresh'
    BY SMT, <1>5 DEF Inv, TypeOK, Dial, Fresh, Conns
  <1> QED BY <1>4, <1>6, <1>7, <1>8 DEF Inv

\* connect sets the state.
LEMMA SetConnectedKeeps ==
  ASSUME Inv, NEW t \in DOMAIN tasks, SetConnected(t) PROVE Inv'
  <1> DEFINE u == To(t, "setEio")
  <1>1. u \in InTasks /\ u.pc = "setEio" /\ u.conn = t.conn
    BY InvTasks, InForms DEF Setting
  <1> HIDE DEF u
  <1>2. Becomes(t, {u}) /\ t.pc = "setState" /\ t.pc \in Setting
    BY DEF SetConnected, At, u, Setting
  <1>3. IsBagOf(tasks', Tasks) /\ Alone(u)'
    BY <1>1, <1>2, HolderMoves
  <1>4. TypeOK'
    BY <1>3, TypeSplit DEF Inv, Others, SetConnected, eioVars, sockVars
  <1>5. Holder' /\ Progress' /\ Current' /\ Fresh'
    BY <1>1, <1>2, <1>3 DEF Inv, SetConnected, Alone, Holder, Progress, Current, Fresh, Setting, eioVars
  <1>6. Listeners'
    BY <1>1, <1>3 DEF Inv, SetConnected, Alone, Listeners, eioVars
  <1> QED BY <1>4, <1>5, <1>6 DEF Inv

\* It replaces the connection after a cleanup.
LEMMA SetEioKeeps ==
  ASSUME Inv, NEW t \in DOMAIN tasks, SetEio(t) PROVE Inv'
  <1> DEFINE u == To(t, "subscribe")
  <1>1. u \in InTasks /\ u.pc = "subscribe" /\ u.conn = t.conn
    BY InvTasks, InForms DEF Setting
  <1> HIDE DEF u
  <1>2. Becomes(t, {u}) /\ t.pc = "setEio" /\ t.pc \in Setting
    BY DEF SetEio, At, u, Setting
  <1>3. IsBagOf(tasks', Tasks) /\ Alone(u)'
    BY <1>1, <1>2, HolderMoves
  <1>4. t.conn = dials /\ dials # None /\ dials \in Conns /\ eioMu
    BY SMT, <1>2 DEF Inv, Holder, TypeOK, Conns, None
  <1>5. TypeOK'
    BY <1>3, <1>4, TypeSplit DEF Inv, Others, SetEio, mgrVars, sockVars
  <1>6. Holder' /\ Progress' /\ Current' /\ Fresh'
    BY <1>1, <1>3, <1>4 DEF Inv, SetEio, Alone, Holder, Progress, Current, Fresh, Setting, mgrVars
  <1>7. Listeners'
    BY <1>1, <1>3 DEF Inv, SetEio, Alone, Listeners
  <1> QED BY <1>5, <1>6, <1>7 DEF Inv

\* It lists the new connection's callbacks for the next cleanup.
LEMMA SubscribeKeeps ==
  ASSUME Inv, NEW t \in DOMAIN tasks, Subscribe(t) PROVE Inv'
  <1> DEFINE u == To(t, "newQueue")
  <1>1. u \in InTasks /\ u.pc = "newQueue" /\ u.conn = t.conn
    BY InvTasks, InForms DEF Setting
  <1> HIDE DEF u
  <1>2. Becomes(t, {u}) /\ t.pc = "subscribe" /\ t.pc \in Setting
    BY DEF Subscribe, At, u, Setting
  <1>3. IsBagOf(tasks', Tasks) /\ Alone(u)'
    BY <1>1, <1>2, HolderMoves
  <1>4. t.conn = dials /\ dials # None /\ dials \in Conns /\ eioMu /\ subs = {} /\ meio = dials
    BY <1>2 DEF Inv, Holder, Progress, TypeOK, Conns, None
  <1>5. TypeOK'
    BY SMT, <1>3, <1>4, TypeSplit DEF Inv, Others, Subscribe, mgrVars, sockVars
  <1>6. Holder' /\ Progress' /\ Current' /\ Fresh'
    BY <1>1, <1>3, <1>4 DEF Inv, Subscribe, Alone, Holder, Progress, Current, Fresh, Setting, mgrVars
  <1>7. Listeners'
    BY <1>4 DEF Inv, Subscribe, Listeners
  <1> QED BY <1>5, <1>6, <1>7 DEF Inv

\* The new packet queue, and the end of connect.
LEMMA NewQueueKeeps ==
  ASSUME Inv, NEW t \in DOMAIN tasks, NewQueue(t) PROVE Inv'
  <1> DEFINE S == Event("openEvent") \cup
                  (IF t.cause = "reconnect" THEN {To(t, "reconnected")} ELSE {})
  <1>1. t.pc = "newQueue" /\ t.pc \in Setting /\ Becomes(t, S)
    BY DEF NewQueue, At, Setting
  <1>2. S \subseteq OutTasks
    <2>1. Event("openEvent") \subseteq OutTasks
      BY InvTasks, EventForms, Places
    <2> QED BY <2>1, InvTasks, TaskForms, Places
  <1> HIDE DEF S
  <1>3. IsBagOf(tasks', Tasks) /\ \A v \in DOMAIN tasks' : v.pc \notin Setting
    BY <1>1, <1>2, HolderLeaves
  <1>4. t.conn = dials /\ meio = dials /\ dials \in Conns
    BY <1>1 DEF Inv, Holder, Progress, TypeOK, Conns, None
  <1>5. TypeOK'
    BY <1>3, <1>4, TypeSplit DEF Inv, Others, NewQueue, sockVars
  <1>6. Holder' /\ Progress'
    BY <1>3 DEF Holder, Progress, Setting
  <1>7. Current' /\ Fresh'
    BY <1>4 DEF Inv, Current, Fresh, NewQueue
  <1>8. Listeners'
    <2>1. \A v \in DOMAIN tasks : v.pc \in Setting => v = t
      BY <1>1 DEF Inv, Holder
    <2> QED BY <1>1, <2>1 DEF Inv, Listeners, NewQueue, Setting
  <1> QED BY <1>5, <1>6, <1>7, <1>8 DEF Inv

-----------------------------------------------------------------------------
(* The network, the user, and the theorems.                                *)

\* The network breaks a connection, its close is reported, or the server
\* disconnects the socket.
LEMMA NetworkKeeps ==
  ASSUME Inv, NEW i \in Conns, Break(i) \/ EioOnClose(i) \/ ServerDisconnect(i) PROVE Inv'
  <1>1. IsBagOf(tasks', Tasks) /\ SameHolder
    <2>1. CASE UNCHANGED tasks
      BY <2>1, InvTasks DEF SameHolder
    <2>2. CASE Starts(Task("ocCleanup", "callback")) \/ Starts(Task("destroy", "server"))
      BY <2>2, InvTasks, OtherStarts, TaskForms, Places
    <2> QED BY <2>1, <2>2 DEF Break, EioOnClose, ServerDisconnect
  <1>2. faults' \in Nat /\ faults' + ops <= MaxEvents
    BY SMT, ManagerAssumption DEF Inv, TypeOK, Break, EioOnClose, ServerDisconnect, MoreEvents
  <1>3. TypeOK'
    BY SMT, <1>1, <1>2, TypeSplit DEF Inv, Others, Break, EioOnClose, ServerDisconnect, mgrVars,
       eioVars, sockVars
  <1>4. Outside
    BY <1>1 DEF Inv, TypeOK, Outside, Break, EioOnClose, ServerDisconnect, mgrVars, eioVars
  <1> QED BY <1>3, <1>4, OutsideKeeps

\* The user calls Connect or Disconnect.
LEMMA UserKeeps ==
  ASSUME Inv, Connect \/ Disconnect PROVE Inv'
  <1>1. IsBagOf(tasks', Tasks) /\ SameHolder
    <2>1. CASE UNCHANGED tasks
      BY <2>1, InvTasks DEF SameHolder
    <2>2. ASSUME NEW p \in OutPCs, Starts(Task(p, "user"))
          PROVE  IsBagOf(tasks', Tasks) /\ SameHolder
      BY <2>2, InvTasks, OtherStarts, TaskForms, Places
    <2> QED BY <2>1, <2>2, Places DEF Connect, Disconnect
  <1>2. ops' \in Nat /\ faults + ops' <= MaxEvents /\ ops' \in 1..MaxEvents
    BY SMT, ManagerAssumption DEF Inv, TypeOK, Connect, Disconnect, MoreEvents
  <1>3. /\ handlers' = handlers \/ handlers' = handlers \cup {ops'}
        /\ dereg' = dereg \/ dereg' = ops'
    BY DEF Connect, Disconnect, sockVars
  <1>4. handlers' \subseteq 1..MaxEvents /\ dereg' \in 0..MaxEvents
    <2>1. handlers \subseteq 1..MaxEvents /\ dereg \in 0..MaxEvents
      BY DEF Inv, TypeOK
    <2>2. handlers' \subseteq 1..MaxEvents
      BY <1>2, <1>3, <2>1
    <2>3. ops' \in 0..MaxEvents
      BY SMT, <1>2
    <2>4. dereg' \in 0..MaxEvents
      BY <1>3, <2>1, <2>3
    <2> QED BY <2>2, <2>4
  <1>5. sockActive' \in BOOLEAN
    <2>1. sockActive' = sockActive \/ sockActive' = TRUE
      BY DEF Connect, Disconnect, sockVars
    <2> QED BY <2>1 DEF Inv, TypeOK
  <1>6. TypeOK'
    BY SMT, <1>1, <1>2, <1>4, <1>5, TypeSplit DEF Inv, Others, Connect, Disconnect, mgrVars,
       eioVars, sockVars
  <1>7. Outside
    BY <1>1 DEF Outside, Connect, Disconnect, mgrVars, eioVars
  <1> QED BY <1>6, <1>7, OutsideKeeps

\* Every step keeps the invariant.
LEMMA NextKeepsInv == Inv /\ [Next]_vars => Inv'
  <1> SUFFICES ASSUME Inv, [Next]_vars PROVE Inv'
    OBVIOUS
  <1>1. CASE UNCHANGED vars
    <2>1. TypeOK'
      BY SMT, <1>1, TypeSplit DEF Inv, Others, vars, mgrVars, eioVars, sockVars
    <2>2. Outside
      BY <1>1 DEF vars, mgrVars, eioVars, Outside, SameHolder
    <2> QED BY <2>1, <2>2, OutsideKeeps
  <1>2. ASSUME NEW t \in DOMAIN tasks, OpenStep(t) PROVE Inv'
    BY <1>2, ConnectLockKeeps, ConnectStateKeeps, EioLockKeeps, DialErrorKeeps, DialKeeps,
       SetConnectedKeeps, SetEioKeeps, SubscribeKeeps, NewQueueKeeps, OpenCleanupKeeps,
       MaybeReconnectOnOpenKeeps DEF OpenStep
  <1>3. ASSUME NEW t \in DOMAIN tasks, ReconnectStep(t) PROVE Inv'
    BY <1>3, ReconnectLockKeeps, ReconnectStateKeeps, ReconnectAttemptsKeeps,
       ReconnectSkipKeeps, ReconnectErrorKeeps, OnReconnectKeeps DEF ReconnectStep
  <1>4. ASSUME NEW t \in DOMAIN tasks, CloseStep(t) PROVE Inv'
    BY <1>4, OnCloseCleanupKeeps, OnCloseResetKeeps, OnCloseStateKeeps, OnCloseEventKeeps,
       OnCloseSkipKeeps, CloseStateKeeps, CloseSkipKeeps, CloseEioKeeps DEF CloseStep
  <1>5. ASSUME NEW t \in DOMAIN tasks, SocketStep(t) PROVE Inv'
    BY <1>5, ConnectManagerKeeps, OpenFuncKeeps, CloseFuncKeeps, SendConnectKeeps,
       EioOnPacketKeeps, OnConnectKeeps, SendDisconnectKeeps, DeregisterKeeps, DestroyKeeps,
       DisconnectedKeeps DEF SocketStep
  <1> QED BY <1>1, <1>2, <1>3, <1>4, <1>5, NetworkKeeps, UserKeeps
          DEF Next, Goroutine, Network

\* It holds in the beginning.
LEMMA InitInv == Init => Inv
  <1> SUFFICES ASSUME Init PROVE Inv
    OBVIOUS
  <1>1. IsBagOf(tasks, Tasks) /\ DOMAIN tasks = {}
    BY DEF Init, NoTasks, IsBagOf
  <1>2. TypeOK
    <2>1. skip \in BOOLEAN /\ connectMu \in BOOLEAN /\ eioMu \in BOOLEAN /\ sockActive \in BOOLEAN
      BY DEF Init
    <2>2. /\ attempts \in Nat /\ dials \in 0..MaxDials /\ dereg \in 0..MaxEvents
          /\ faults \in Nat /\ ops \in Nat /\ faults + ops <= MaxEvents
      BY SMT, ManagerAssumption DEF Init, None
    <2>3. eio \in [Conns -> {"none", "up", "closing", "closed"}]
      BY DEF Init
    <2>4. /\ active \subseteq Conns /\ subs \subseteq Conns /\ heard \subseteq Conns
          /\ handlers \subseteq 1..MaxEvents
          /\ meio \in Conns \cup {None} /\ queue \in Conns \cup {None}
          /\ state \in {"connecting", "connected", "reconnecting", "disconnected"}
          /\ sock \in {"connected", "pending", "disconnected"}
      BY DEF Init
    <2> QED BY <1>1, <2>1, <2>2, <2>3, <2>4, TypeSplit DEF Others
  <1> QED BY <1>1, <1>2 DEF Init, Inv, Holder, Progress, Current, Listeners, Fresh

\* It always holds.
LEMMA InvHolds == Spec => []Inv
  BY InitInv, NextKeepsInv, PTL DEF Spec

\* The manager, its goroutines and the socket keep to their types, however
\* open, reconnect, onClose, Close and the user's calls interleave.
THEOREM TypeOKHolds == Spec => []TypeOK
  <1>1. Inv => TypeOK
    BY DEF Inv
  <1> QED BY <1>1, InvHolds, PTL

\* Outside connect's section under eioMu the connection whose callbacks
\* Manager.cleanup can silence is Manager.eio and the packet queue's.
THEOREM SubscribedIsCurrentHolds == Spec => []SubscribedIsCurrent
  <1>1. Inv => SubscribedIsCurrent
    BY DEF Inv, Current, SubscribedIsCurrent
  <1> QED BY <1>1, InvHolds, PTL

\* Two connections that are up reach the manager only while connect, under
\* eioMu, sets up the second: setEio's cleanup silences the first.
THEOREM OneListenerHolds == Spec => []OneListener
  <1>1. Inv => OneListener
    <2> SUFFICES ASSUME Inv,
                        NEW i \in {k \in active : eio[k] = "up"},
                        NEW j \in {k \in active : eio[k] = "up"}, i # j
                 PROVE  /\ eioMu /\ dials \in {i, j}
                        /\ \E t \in DOMAIN tasks : t.pc \in {"setState", "setEio"}
      BY DEF OneListener
    <2>1. PICK t \in DOMAIN tasks :
            dials \in {i, j} /\ t.pc \in {"setState", "setEio", "subscribe"} /\ subs # {}
      BY DEF Inv, Current, Listeners
    <2> QED BY <2>1 DEF Inv, Progress, Holder, Setting
  <1> QED BY <1>1, InvHolds, PTL
=============================================================================
