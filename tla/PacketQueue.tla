---------------------------- MODULE PacketQueue ----------------------------
(***************************************************************************)
(* The outgoing packet queue of a connection (packet_queue.go): the        *)
(* goroutines that add packets, the one pollAndSend goroutine that hands   *)
(* them to the Engine.IO socket, and the closePacketQueue goroutines of    *)
(* client_manager.go and server_conn.go that wait for the queue to drain   *)
(* and then close it.  Packets are numbered in the order in which add      *)
(* takes the mutex.                                                        *)
(***************************************************************************)
EXTENDS Integers, Sequences

CONSTANTS Adders,      \* goroutines that call add
          Closers,     \* closePacketQueue goroutines
          MaxBatch,    \* bound: packets in one call of add
          MaxPackets,  \* bound: packets added in a behaviour
          MaxResets    \* bound: calls of reset in a behaviour

ASSUME BoundsAssumption == MaxBatch \in Nat /\ MaxPackets \in Nat /\ MaxResets \in Nat

VARIABLES packets,   \* pq.packets
          ready,     \* a token is in pq.ready (buffered, capacity 1)
          resetSig,  \* a token is in pq._reset (capacity 1)
          closeSig,  \* a token is in pq._close (capacity 1)
          poller,    \* where pollAndSend is
          batch,     \* the packets poll has returned and Send has not finished with
          adder,     \* where each add is
          closer,    \* where each closePacketQueue goroutine is
          added,     \* history: number of packets added
          sent,      \* history: the packets given to socket.Send
          dropped,   \* history: number of packets that reset or close discarded
          closed,    \* history: close has run
          resets     \* history: calls of reset

vars == <<packets, ready, resetSig, closeSig, poller, batch, adder, closer,
          added, sent, dropped, closed, resets>>
history == <<added, sent, dropped, closed, resets>>

PollerStates == {"get", "empty", "wait", "refill", "signal", "send", "done"}
CloserStates == {"idle", "checked", "waiting", "close", "done"}

TypeOK ==
  /\ packets \in Seq(1..added) /\ batch \in Seq(1..added) /\ sent \in Seq(1..added)
  /\ ready \in BOOLEAN /\ resetSig \in BOOLEAN /\ closeSig \in BOOLEAN
  /\ poller \in PollerStates
  /\ poller = "send" => batch # <<>>
  /\ poller \in {"get", "empty", "wait", "refill", "done"} => batch = <<>>
  /\ adder \in [Adders -> {"idle", "signal"}]
  /\ closer \in [Closers -> CloserStates]
  /\ added \in Nat /\ dropped \in Nat /\ resets \in Nat
  /\ closed \in BOOLEAN

Init ==
  /\ packets = <<>> /\ batch = <<>> /\ sent = <<>>
  /\ ready = FALSE /\ resetSig = FALSE /\ closeSig = FALSE
  /\ poller = "get"
  /\ adder = [a \in Adders |-> "idle"]
  /\ closer = [c \in Closers |-> "idle"]
  /\ added = 0 /\ dropped = 0 /\ resets = 0 /\ closed = FALSE

-----------------------------------------------------------------------------
(* add: the append under the mutex, then the non-blocking send on ready.   *)

NewPackets(n) == [i \in 1..n |-> added + i]

AddPackets(a, n) ==
  /\ adder[a] = "idle"
  /\ added + n <= MaxPackets
  /\ packets' = packets \o NewPackets(n)
  /\ added' = added + n
  /\ adder' = [adder EXCEPT ![a] = "signal"]
  /\ UNCHANGED <<ready, resetSig, closeSig, poller, batch, closer, sent, dropped, closed, resets>>

\* Faulty variant: an unbuffered ready channel, whose token is lost unless
\* poll is in its select.
SignalReadyUnbuffered(a) ==
  /\ adder[a] = "signal"
  /\ ready' = (poller = "wait")
  /\ adder' = [adder EXCEPT ![a] = "idle"]
  /\ UNCHANGED <<packets, resetSig, closeSig, poller, batch, closer, history>>

SignalReady(a) ==
  /\ adder[a] = "signal"
  /\ ready' = TRUE
  /\ adder' = [adder EXCEPT ![a] = "idle"]
  /\ UNCHANGED <<packets, resetSig, closeSig, poller, batch, closer, history>>

-----------------------------------------------------------------------------
(* poll and pollAndSend.                                                   *)

\* The first get of poll.
PollGet ==
  /\ poller = "get"
  /\ batch' = packets
  /\ packets' = <<>>
  /\ poller' = IF packets # <<>> THEN "send" ELSE "empty"
  /\ UNCHANGED <<ready, resetSig, closeSig, adder, closer, history>>

\* get has found nothing, and poll gets to its select: an add may come between.
EnterPollSelect ==
  /\ poller = "empty"
  /\ poller' = "wait"
  /\ UNCHANGED <<packets, ready, resetSig, closeSig, batch, adder, closer, history>>

\* The select of poll: either ready case may be chosen when both can run.
SelectClose ==
  /\ poller = "wait" /\ closeSig
  /\ closeSig' = FALSE
  /\ poller' = "done"
  /\ UNCHANGED <<packets, ready, resetSig, batch, adder, closer, history>>

SelectReady ==
  /\ poller = "wait" /\ ready
  /\ ready' = FALSE
  /\ poller' = "refill"
  /\ UNCHANGED <<packets, resetSig, closeSig, batch, adder, closer, history>>

\* Faulty variant: poll returns after ready without looking at what get gave.
PollRefillUnchecked ==
  /\ poller = "refill"
  /\ batch' = packets
  /\ packets' = <<>>
  /\ poller' = "send"
  /\ UNCHANGED <<ready, resetSig, closeSig, adder, closer, history>>

\* The get after ready.
PollRefill ==
  /\ poller = "refill"
  /\ batch' = packets
  /\ packets' = <<>>
  /\ poller' = "signal"
  /\ UNCHANGED <<ready, resetSig, closeSig, adder, closer, history>>

\* The non-blocking send on the unbuffered drain channel: it reaches one
\* goroutine that is blocked in waitForDrain, or nobody.
SignalDrain ==
  /\ poller = "signal"
  /\ poller' = IF batch # <<>> THEN "send" ELSE "get"
  /\ \/ \E c \in Closers : /\ closer[c] = "waiting"
                           /\ closer' = [closer EXCEPT ![c] = "close"]
     \/ /\ \A c \in Closers : closer[c] # "waiting"
        /\ UNCHANGED closer
  /\ UNCHANGED <<packets, ready, resetSig, closeSig, batch, adder, history>>

\* Faulty variant: the batch is sent last packet first.
SendReversed ==
  /\ poller = "send"
  /\ sent' = sent \o [i \in 1..Len(batch) |-> batch[Len(batch) + 1 - i]]
  /\ batch' = <<>>
  /\ poller' = "get"
  /\ UNCHANGED <<packets, ready, resetSig, closeSig, adder, closer, added, dropped, closed, resets>>

\* socket.Send returns.
Send ==
  /\ poller = "send"
  /\ sent' = sent \o batch
  /\ batch' = <<>>
  /\ poller' = "get"
  /\ UNCHANGED <<packets, ready, resetSig, closeSig, adder, closer, added, dropped, closed, resets>>

-----------------------------------------------------------------------------
(* closePacketQueue: waitForDrain, then close.                             *)

WaitForDrain(c) ==
  /\ closer[c] = "idle"
  /\ closer' = [closer EXCEPT ![c] = IF packets = <<>> THEN "close" ELSE "checked"]
  /\ UNCHANGED <<packets, ready, resetSig, closeSig, poller, batch, adder, history>>

EnterSelect(c) ==
  /\ closer[c] = "checked"
  /\ closer' = [closer EXCEPT ![c] = "waiting"]
  /\ UNCHANGED <<packets, ready, resetSig, closeSig, poller, batch, adder, history>>

\* The _reset case and the timeout case; the drain case is SignalDrain.
DrainReset(c) ==
  /\ closer[c] = "waiting" /\ resetSig
  /\ resetSig' = FALSE
  /\ closer' = [closer EXCEPT ![c] = "close"]
  /\ UNCHANGED <<packets, ready, closeSig, poller, batch, adder, history>>

DrainTimeout(c) ==
  /\ closer[c] = "waiting"
  /\ closer' = [closer EXCEPT ![c] = "close"]
  /\ UNCHANGED <<packets, ready, resetSig, closeSig, poller, batch, adder, history>>

\* Faulty variant: close empties the queue and does not signal poll.
CloseSilently(c) ==
  /\ closer[c] = "close"
  /\ closer' = [closer EXCEPT ![c] = "done"]
  /\ packets' = <<>>
  /\ dropped' = dropped + Len(packets)
  /\ closed' = TRUE
  /\ UNCHANGED <<ready, resetSig, closeSig, poller, batch, adder, added, sent, resets>>

Close(c) ==
  /\ closer[c] = "close"
  /\ closer' = [closer EXCEPT ![c] = "done"]
  /\ packets' = <<>>
  /\ dropped' = dropped + Len(packets)
  /\ closeSig' = TRUE
  /\ closed' = TRUE
  /\ UNCHANGED <<ready, resetSig, poller, batch, adder, added, sent, resets>>

Reset ==
  /\ resets < MaxResets
  /\ resets' = resets + 1
  /\ packets' = <<>>
  /\ dropped' = dropped + Len(packets)
  /\ resetSig' = TRUE
  /\ UNCHANGED <<ready, closeSig, poller, batch, adder, closer, added, sent, closed>>

-----------------------------------------------------------------------------
Poller ==
  \/ PollGet \/ EnterPollSelect \/ SelectClose \/ SelectReady \/ PollRefill \/ SignalDrain
  \/ Send

CloserStep(c) ==
  WaitForDrain(c) \/ EnterSelect(c) \/ DrainReset(c) \/ DrainTimeout(c) \/ Close(c)

Next ==
  \/ \E a \in Adders : SignalReady(a) \/ \E n \in 1..MaxBatch : AddPackets(a, n)
  \/ Poller
  \/ \E c \in Closers : CloserStep(c)
  \/ Reset

Spec == Init /\ [][Next]_vars

\* The Go scheduler runs every runnable goroutine, a select with several
\* ready cases picks each of them with equal probability, and timers fire.
\* Nobody is obliged to call add, closePacketQueue or reset.
FairSpec ==
  /\ Spec
  /\ WF_vars(Poller)
  /\ SF_vars(SelectClose)
  /\ \A a \in Adders : WF_vars(SignalReady(a))
  /\ \A c \in Closers : WF_vars(EnterSelect(c) \/ DrainTimeout(c) \/ Close(c))

-----------------------------------------------------------------------------
(* Properties.                                                             *)

Increasing(s) == \A i, j \in 1..Len(s) : i < j => s[i] < s[j]

\* What went out, what poll took and what is queued, in that order.
Delivery == sent \o batch \o packets

\* The packets leave in the order in which add queued them, and none leaves
\* twice, whatever add, poll, reset and close do in between.
InOrder == Increasing(Delivery)

\* A packet that was added is queued, taken by poll or sent, or it was
\* discarded by a reset or a close: get and add lose nothing between them.
Conservation == Len(sent) + Len(batch) + Len(packets) + dropped = added

\* poll never sleeps on a non-empty queue without a wake-up under way: the
\* token that add leaves in the buffered ready channel survives until the
\* select, even when add runs between get and select.
NoLostWakeup ==
  poller \in {"empty", "wait"} /\ packets # <<>> => ready \/ \E a \in Adders : adder[a] = "signal"

\* Every packet that was added is handed to the Engine.IO socket, unless the
\* queue is closed or reset.
EventuallySent ==
  \A n \in 1..MaxPackets :
    added >= n ~> (closed \/ resets > 0 \/ \E i \in DOMAIN sent : sent[i] = n)

\* A closed queue ends its pollAndSend goroutine, so that no goroutine is
\* left behind for a connection that is gone.
PollerTerminates == closed ~> poller = "done"

\* The queue is a FIFO channel: add accepts, a finished socket.Send delivers,
\* reset and close discard the packets that poll has not taken.
Fifo == INSTANCE FifoChannel
          WITH accepted <- added, pending <- batch \o packets, delivered <- sent
RefinesFifo == Fifo!Spec
=============================================================================
