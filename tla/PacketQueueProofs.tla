------------------------- MODULE PacketQueueProofs -------------------------
(***************************************************************************)
(* Proofs about PacketQueue, for any number of goroutines and packets.     *)
(***************************************************************************)
EXTENDS PacketQueue, SequenceTheorems, TLAPS

\* A sequence of packet numbers stays one when more packets are numbered.
LEMMA SeqMonotone ==
  ASSUME NEW m \in Nat, NEW n \in Nat, m <= n, NEW s \in Seq(1..m)
  PROVE  s \in Seq(1..n)
<1>1. \A i \in 1..Len(s) : s[i] \in 1..n
  OBVIOUS
<1>2. s = [i \in 1..Len(s) |-> s[i]] /\ Len(s) \in Nat
  OBVIOUS
<1> QED
  BY <1>1, <1>2

\* The packets a call of add numbers are a sequence of new numbers.
LEMMA NewPacketsType ==
  ASSUME added \in Nat, NEW n \in Nat
  PROVE  /\ NewPackets(n) \in Seq(1..(added + n))
         /\ Len(NewPackets(n)) = n
         /\ \A i \in 1..n : NewPackets(n)[i] = added + i
<1>1. \A i \in 1..n : added + i \in 1..(added + n)
  OBVIOUS
<1> QED
  BY <1>1 DEF NewPackets

\* Numbers above all those of an increasing sequence may be put after it.
LEMMA IncreasingExtend ==
  ASSUME NEW m \in Nat, NEW n \in Nat, NEW s \in Seq(1..m), Increasing(s),
         NEW t \in Seq(1..(m + n)), Len(t) = n, \A i \in 1..n : t[i] = m + i
  PROVE  Increasing(s \o t) /\ Len(s \o t) = Len(s) + n
<1>1. Len(s) \in Nat /\ \A i \in 1..Len(s) : s[i] \in 1..m
  OBVIOUS
<1>2. /\ Len(s \o t) = Len(s) + n
      /\ \A i \in 1..(Len(s) + n) :
           (s \o t)[i] = IF i <= Len(s) THEN s[i] ELSE t[i - Len(s)]
  <2>1. s \in Seq(1..(m + n))
    BY SeqMonotone
  <2> QED
    BY <2>1, ConcatProperties, ZenonT(30)
<1>3. ASSUME NEW i \in 1..(Len(s) + n), NEW j \in 1..(Len(s) + n), i < j
      PROVE  (s \o t)[i] < (s \o t)[j]
  <2>1. CASE j <= Len(s)
    BY <1>1, <1>2, <1>3, <2>1 DEF Increasing
  <2>2. CASE i <= Len(s) /\ ~(j <= Len(s))
    <3>1. (s \o t)[i] \in 1..m
      BY <1>1, <1>2, <2>2
    <3>2. j - Len(s) \in 1..n /\ (s \o t)[j] = m + (j - Len(s))
      BY <1>1, <1>2, <2>2, SMTT(30)
    <3> DEFINE x == (s \o t)[i]
               y == (s \o t)[j]
               d == j - Len(s)
    <3>3. x \in 1..m /\ d \in 1..n /\ y = m + d
      BY <3>1, <3>2
    <3> HIDE DEF x, y, d
    <3>4. x < y
      BY <3>3
    <3> QED
      BY <3>4 DEF x, y
  <2>3. CASE ~(i <= Len(s))
    <3>1. i - Len(s) \in 1..n /\ j - Len(s) \in 1..n /\ ~(j <= Len(s))
      BY <1>1, <1>3, <2>3
    <3> QED
      BY <1>1, <1>2, <1>3, <2>3, <3>1
  <2> QED
    BY <2>1, <2>2, <2>3
<1> QED
  BY <1>2, <1>3 DEF Increasing

\* A prefix of an increasing sequence is increasing.
LEMMA IncreasingPrefix ==
  ASSUME NEW m \in Nat, NEW s \in Seq(1..m), NEW t \in Seq(1..m), Increasing(s \o t)
  PROVE  Increasing(s)
<1>1. /\ Len(s) \in Nat /\ Len(t) \in Nat /\ Len(s \o t) = Len(s) + Len(t)
      /\ \A i \in 1..Len(s) : (s \o t)[i] = s[i]
  OBVIOUS
<1>2. ASSUME NEW i \in 1..Len(s), NEW j \in 1..Len(s), i < j
      PROVE  s[i] < s[j]
  <2>1. i \in 1..Len(s \o t) /\ j \in 1..Len(s \o t)
    BY <1>1
  <2>2. (s \o t)[i] < (s \o t)[j]
    BY <1>2, <2>1 DEF Increasing
  <2> QED
    BY <1>1, <2>2
<1> QED
  BY <1>2 DEF Increasing

\* TypeOK holds throughout: in particular pollAndSend holds a batch exactly
\* when poll has returned one.
THEOREM TypeCorrect == Spec => []TypeOK
<1>1. Init => TypeOK
  <2> SUFFICES ASSUME Init PROVE TypeOK
    OBVIOUS
  <2>1. packets \in Seq(1..added) /\ batch \in Seq(1..added) /\ sent \in Seq(1..added)
    BY DEF Init
  <2>2. adder \in [Adders -> {"idle", "signal"}] /\ closer \in [Closers -> CloserStates]
    BY DEF Init, CloserStates
  <2> QED
    BY <2>1, <2>2 DEF Init, TypeOK, PollerStates
<1>2. TypeOK /\ [Next]_vars => TypeOK'
  <2> SUFFICES ASSUME TypeOK, [Next]_vars PROVE TypeOK'
    OBVIOUS
  <2> USE DEF TypeOK, PollerStates, CloserStates, history
  <2>1. ASSUME NEW a \in Adders, NEW n \in 1..MaxBatch, AddPackets(a, n)
        PROVE  TypeOK'
    <3>1. added' \in Nat /\ added <= added' /\ n \in Nat
      BY <2>1, BoundsAssumption DEF AddPackets
    <3>2. /\ packets \in Seq(1..added') /\ batch \in Seq(1..added')
          /\ sent \in Seq(1..added')
      BY <3>1, SeqMonotone
    <3>3. NewPackets(n) \in Seq(1..added')
      BY <2>1, <3>1, NewPacketsType DEF AddPackets
    <3>4. packets \o NewPackets(n) \in Seq(1..added')
      BY <3>2, <3>3
    <3> QED
      BY <2>1, <3>1, <3>2, <3>4 DEF AddPackets
  <2>2. ASSUME NEW a \in Adders, SignalReady(a) PROVE TypeOK'
    BY <2>2 DEF SignalReady
  <2>3. CASE PollGet
    BY <2>3 DEF PollGet
  <2>4. CASE EnterPollSelect \/ SelectClose
    BY <2>4 DEF EnterPollSelect, SelectClose
  <2>5. CASE SelectReady
    BY <2>5 DEF SelectReady
  <2>6. CASE PollRefill
    BY <2>6 DEF PollRefill
  <2>7. CASE SignalDrain
    BY <2>7 DEF SignalDrain
  <2>8. CASE Send
    BY <2>8 DEF Send
  <2>9. ASSUME NEW c \in Closers, CloserStep(c) PROVE TypeOK'
    <3>1. CASE WaitForDrain(c)
      BY <3>1 DEF WaitForDrain
    <3>2. CASE EnterSelect(c)
      BY <3>2 DEF EnterSelect
    <3>3. CASE DrainTimeout(c)
      BY <3>3 DEF DrainTimeout
    <3>4. CASE DrainReset(c)
      BY <3>4 DEF DrainReset
    <3>5. CASE Close(c)
      BY <3>5 DEF Close
    <3> QED
      BY <2>9, <3>1, <3>2, <3>3, <3>4, <3>5 DEF CloserStep
  <2>10. CASE Reset
    BY <2>10 DEF Reset
  <2>11. CASE UNCHANGED vars
    BY <2>11 DEF vars
  <2> QED
    BY <2>1, <2>2, <2>3, <2>4, <2>5, <2>6, <2>7, <2>8, <2>9, <2>10, <2>11 DEF Next, Poller
<1> QED
  BY <1>1, <1>2, PTL DEF Spec

\* poll never sleeps on a non-empty queue unless a wake-up is under way, for
\* any number of goroutines in add.
THEOREM NoLostWakeupHolds == Spec => []NoLostWakeup
<1>1. Init => NoLostWakeup
  BY DEF Init, NoLostWakeup
<1>2. TypeOK /\ NoLostWakeup /\ [Next]_vars => NoLostWakeup'
  <2> SUFFICES ASSUME TypeOK, NoLostWakeup, [Next]_vars PROVE NoLostWakeup'
    OBVIOUS
  <2> USE DEF TypeOK, NoLostWakeup, history
  <2>1. ASSUME NEW a \in Adders, NEW n \in 1..MaxBatch, AddPackets(a, n)
        PROVE  NoLostWakeup'
    BY <2>1 DEF AddPackets
  <2>2. ASSUME NEW a \in Adders, SignalReady(a) PROVE NoLostWakeup'
    BY <2>2 DEF SignalReady
  <2>3. CASE Poller
    BY <2>3 DEF Poller, PollGet, EnterPollSelect, SelectClose, SelectReady, PollRefill, SignalDrain,
               Send
  <2>4. ASSUME NEW c \in Closers, CloserStep(c) PROVE NoLostWakeup'
    BY <2>4 DEF CloserStep, WaitForDrain, EnterSelect, DrainReset, DrainTimeout, Close
  <2>5. CASE Reset
    BY <2>5 DEF Reset
  <2>6. CASE UNCHANGED vars
    BY <2>6 DEF vars
  <2> QED
    BY <2>1, <2>2, <2>3, <2>4, <2>5, <2>6 DEF Next
<1> QED
  BY <1>1, <1>2, TypeCorrect, PTL DEF Spec

-----------------------------------------------------------------------------
(* The order of delivery.  Every step leaves Delivery alone, extends it at  *)
(* the end (add) or cuts its queued end off (reset, close).                 *)

KeepsDelivery == Delivery' = Delivery /\ UNCHANGED <<added, dropped>>
ExtendsDelivery(n) ==
  Delivery' = Delivery \o NewPackets(n) /\ added' = added + n /\ UNCHANGED dropped
CutsDelivery ==
  Delivery' = sent \o batch /\ dropped' = dropped + Len(packets) /\ UNCHANGED added

\* The three sequences that make up Delivery, and their concatenation.
LEMMA DeliveryType ==
  ASSUME TypeOK
  PROVE  /\ Delivery \in Seq(1..added)
         /\ Len(Delivery) = Len(sent) + Len(batch) + Len(packets)
         /\ sent \o batch \in Seq(1..added)
         /\ Len(sent \o batch) = Len(sent) + Len(batch)
         /\ \A i \in 1..Len(sent \o batch) : (sent \o batch)[i] = Delivery[i]
BY ConcatProperties DEF TypeOK, Delivery

\* Adding packets to the queue adds them at the end of Delivery.
LEMMA DeliveryAfterAdd ==
  ASSUME TypeOK, NEW n \in Nat
  PROVE  (sent \o batch) \o (packets \o NewPackets(n)) = Delivery \o NewPackets(n)
<1> DEFINE S == 1..(added + n)
           new == NewPackets(n)
<1>1. sent \in Seq(S) /\ batch \in Seq(S) /\ packets \in Seq(S) /\ new \in Seq(S)
  <2>1. added \in Nat /\ added + n \in Nat /\ added <= added + n
    BY DEF TypeOK
  <2>2. sent \in Seq(S) /\ batch \in Seq(S) /\ packets \in Seq(S)
    BY <2>1, SeqMonotone DEF TypeOK
  <2> QED
    BY <2>1, <2>2, NewPacketsType
<1> HIDE DEF S, new
<1>2. (sent \o batch) \o (packets \o new) = ((sent \o batch) \o packets) \o new
  BY <1>1, SMTT(60)
<1> QED
  BY <1>2 DEF new, Delivery

\* How each step of the queue changes Delivery.
LEMMA DeliverySteps ==
  ASSUME TypeOK, [Next]_vars
  PROVE  KeepsDelivery \/ CutsDelivery \/ \E n \in 1..MaxBatch : ExtendsDelivery(n)
<1> USE DEF TypeOK, Delivery, history
<1>1. ASSUME NEW a \in Adders, NEW n \in 1..MaxBatch, AddPackets(a, n)
      PROVE  ExtendsDelivery(n)
  <2>1. n \in Nat
    BY BoundsAssumption
  <2>4. (sent \o batch) \o (packets \o NewPackets(n)) = Delivery \o NewPackets(n)
    BY <2>1, DeliveryAfterAdd
  <2> QED
    BY <1>1, <2>4 DEF AddPackets, ExtendsDelivery
<1>2. CASE PollGet \/ PollRefill
  <2>1. batch = <<>> /\ batch' = packets /\ packets' = <<>> /\ sent' = sent
    BY <1>2 DEF PollGet, PollRefill
  <2>2. sent \o <<>> = sent /\ (sent \o packets) \o <<>> = sent \o packets
    BY ConcatEmptySeq, ConcatProperties
  <2> QED
    BY <1>2, <2>1, <2>2 DEF KeepsDelivery, PollGet, PollRefill
<1>3. CASE Send
  <2>1. (sent \o batch) \o <<>> = sent \o batch
    BY ConcatEmptySeq, ConcatProperties
  <2> QED
    BY <1>3, <2>1 DEF KeepsDelivery, Send
<1>4. ASSUME Reset \/ \E c \in Closers : Close(c) PROVE CutsDelivery
  <2>1. (sent \o batch) \o <<>> = sent \o batch
    BY ConcatEmptySeq, ConcatProperties
  <2> QED
    BY <1>4, <2>1 DEF CutsDelivery, Reset, Close
<1>5. CASE \E a \in Adders : SignalReady(a)
  BY <1>5 DEF SignalReady, KeepsDelivery
<1>6. CASE EnterPollSelect \/ SelectClose \/ SelectReady \/ SignalDrain
  BY <1>6 DEF EnterPollSelect, SelectClose, SelectReady, SignalDrain, KeepsDelivery
<1>7. CASE \E c \in Closers :
             WaitForDrain(c) \/ EnterSelect(c) \/ DrainReset(c) \/ DrainTimeout(c)
  BY <1>7 DEF WaitForDrain, EnterSelect, DrainReset, DrainTimeout, KeepsDelivery
<1>8. CASE UNCHANGED vars
  BY <1>8 DEF vars, KeepsDelivery
<1> QED
  BY <1>1, <1>2, <1>3, <1>4, <1>5, <1>6, <1>7, <1>8 DEF Next, Poller, CloserStep

\* Packets leave in the order in which add queued them and at most once.
THEOREM InOrderHolds == Spec => []InOrder
<1>1. Init => InOrder
  <2>1. <<>> \o <<>> = <<>>
    BY ConcatEmptySeq
  <2> QED
    BY <2>1 DEF Init, InOrder, Delivery, Increasing
<1>2. TypeOK /\ TypeOK' /\ InOrder /\ [Next]_vars => InOrder'
  <2> SUFFICES ASSUME TypeOK, TypeOK', InOrder, [Next]_vars PROVE InOrder'
    OBVIOUS
  <2>1. CASE KeepsDelivery
    BY <2>1 DEF KeepsDelivery, InOrder
  <2>2. CASE CutsDelivery
    <3>1. added \in Nat /\ sent \o batch \in Seq(1..added) /\ packets \in Seq(1..added)
      BY DeliveryType DEF TypeOK
    <3>2. Increasing((sent \o batch) \o packets)
      BY DEF InOrder, Delivery
    <3>3. Increasing(sent \o batch)
      BY <3>1, <3>2, IncreasingPrefix
    <3> QED
      BY <2>2, <3>3 DEF CutsDelivery, InOrder
  <2>3. ASSUME NEW n \in 1..MaxBatch, ExtendsDelivery(n) PROVE InOrder'
    <3>1. n \in Nat /\ added \in Nat /\ Delivery \in Seq(1..added)
      BY BoundsAssumption, DeliveryType DEF TypeOK
    <3>2. /\ NewPackets(n) \in Seq(1..(added + n)) /\ Len(NewPackets(n)) = n
          /\ \A i \in 1..n : NewPackets(n)[i] = added + i
      BY <3>1, NewPacketsType
    <3>3. Increasing(Delivery \o NewPackets(n))
      BY <3>1, <3>2, IncreasingExtend DEF InOrder
    <3> QED
      BY <2>3, <3>3 DEF ExtendsDelivery, InOrder
  <2> QED
    BY <2>1, <2>2, <2>3, DeliverySteps
<1> QED
  BY <1>1, <1>2, TypeCorrect, PTL DEF Spec

\* Nothing that was added disappears, except what reset and close discard.
THEOREM ConservationHolds == Spec => []Conservation
<1>1. Init => Conservation
  BY DEF Init, Conservation
<1>2. TypeOK /\ TypeOK' /\ Conservation /\ [Next]_vars => Conservation'
  <2> SUFFICES ASSUME TypeOK, TypeOK', Conservation, [Next]_vars PROVE Conservation'
    OBVIOUS
  <2>1. /\ Len(Delivery) = Len(sent) + Len(batch) + Len(packets)
        /\ Len(sent \o batch) = Len(sent) + Len(batch)
        /\ Len(Delivery') = Len(sent') + Len(batch') + Len(packets')
    <3>1. TypeOK => Len(Delivery) = Len(sent) + Len(batch) + Len(packets)
      BY DeliveryType
    <3>2. (TypeOK => Len(Delivery) = Len(sent) + Len(batch) + Len(packets))'
      BY ConcatProperties DEF TypeOK, Delivery
    <3> QED
      BY <3>1, <3>2, DeliveryType
  <2>2. Len(Delivery') + dropped' = added'
    <3>1. CASE KeepsDelivery
      BY <2>1, <3>1 DEF KeepsDelivery, Conservation
    <3>2. CASE CutsDelivery
      <4>1. /\ Len(sent) \in Nat /\ Len(batch) \in Nat /\ Len(packets) \in Nat
            /\ dropped \in Nat /\ added \in Nat
        BY SMTT(30) DEF TypeOK
      <4> QED
        BY <2>1, <3>2, <4>1 DEF CutsDelivery, Conservation
    <3>3. ASSUME NEW n \in 1..MaxBatch, ExtendsDelivery(n)
          PROVE  Len(Delivery') + dropped' = added'
      <4>1. n \in Nat /\ added \in Nat /\ added + n \in Nat
        BY BoundsAssumption DEF TypeOK
      <4>2. /\ Delivery \in Seq(1..(added + n)) /\ NewPackets(n) \in Seq(1..(added + n))
            /\ Len(NewPackets(n)) = n
        BY <4>1, DeliveryType, SeqMonotone, NewPacketsType
      <4>3. Len(Delivery') = Len(Delivery) + n
        BY <3>3, <4>2, ConcatProperties DEF ExtendsDelivery
      <4>4. /\ Len(sent) \in Nat /\ Len(batch) \in Nat /\ Len(packets) \in Nat
            /\ dropped \in Nat
        BY SMTT(30) DEF TypeOK
      <4>5. Len(Delivery) + dropped = added
        BY <2>1, <4>4 DEF Conservation
      <4>6. dropped' = dropped /\ added' = added + n /\ Len(Delivery) \in Nat
        BY <2>1, <3>3, <4>4 DEF ExtendsDelivery
      <4> QED
        BY <4>1, <4>3, <4>4, <4>5, <4>6
    <3> QED
      BY <3>1, <3>2, <3>3, DeliverySteps
  <2> QED
    BY <2>1, <2>2 DEF Conservation
<1> QED
  BY <1>1, <1>2, TypeCorrect, PTL DEF Spec

-----------------------------------------------------------------------------
(* The queue implements the FIFO channel.                                   *)

\* The front and the rest of a concatenation, and appending to it.
LEMMA ConcatParts ==
  ASSUME NEW S, NEW s \in Seq(S), NEW t \in Seq(S)
  PROVE  /\ SubSeq(s \o t, 1, Len(s)) = s
         /\ SubSeq(s \o t, Len(s) + 1, Len(s \o t)) = t
         /\ Len(s \o t) = Len(s) + Len(t)
<1>1. Len(s \o t) = Len(s) + Len(t) /\ Len(s) \in Nat /\ Len(t) \in Nat
  OBVIOUS
<1>2. SubSeq(s \o t, 1, Len(s)) = s
  OBVIOUS
<1>3. SubSeq(s \o t, Len(s) + 1, Len(s \o t)) = t
  OBVIOUS
<1> QED
  BY <1>1, <1>2, <1>3

\* Every behaviour of the queue is one of a FIFO channel: add accepts, Send
\* delivers, reset and close discard only packets that poll has not taken,
\* and all other steps are invisible.
THEOREM QueueRefinesFifo == Spec => RefinesFifo
<1>1. Init => Fifo!Init
  <2>1. <<>> \o <<>> = <<>>
    BY ConcatEmptySeq
  <2> QED
    BY <2>1 DEF Init, Fifo!Init
<1>2. TypeOK /\ [Next]_vars => [Fifo!Next]_(Fifo!vars)
  <2> SUFFICES ASSUME TypeOK, [Next]_vars PROVE [Fifo!Next]_(Fifo!vars)
    OBVIOUS
  <2> USE DEF history
  <2>1. ASSUME NEW a \in Adders, NEW n \in 1..MaxBatch, AddPackets(a, n)
        PROVE  Fifo!Accept
    <3>1. n \in Nat /\ added \in Nat /\ added' = added + n /\ added' \in Nat /\ added' > added
      BY <2>1, BoundsAssumption DEF AddPackets, TypeOK
    <3>2. batch \o (packets \o NewPackets(n)) = (batch \o packets) \o NewPackets(n)
      <4> DEFINE S == 1..(added + n)
                 new == NewPackets(n)
      <4>1. batch \in Seq(S) /\ packets \in Seq(S) /\ new \in Seq(S)
        BY <3>1, SeqMonotone, NewPacketsType DEF TypeOK
      <4> HIDE DEF S, new
      <4>2. batch \o (packets \o new) = (batch \o packets) \o new
        BY <4>1, SMTT(60)
      <4> QED
        BY <4>2 DEF new
    <3>3. NewPackets(n) = [i \in 1..(added' - added) |-> added + i]
      <4>1. added' - added = n
        BY <3>1
      <4> QED
        BY <4>1 DEF NewPackets
    <3> QED
      BY <2>1, <3>1, <3>2, <3>3 DEF AddPackets, Fifo!Accept
  <2>2. ASSUME Send PROVE Fifo!Deliver
    <3>1. Len(batch) \in 1..Len(batch \o packets)
      BY <2>2 DEF Send, TypeOK
    <3>2. /\ SubSeq(batch \o packets, 1, Len(batch)) = batch
          /\ SubSeq(batch \o packets, Len(batch) + 1, Len(batch \o packets)) = packets
      BY ConcatParts DEF TypeOK
    <3>3. <<>> \o packets = packets
      BY ConcatEmptySeq DEF TypeOK
    <3> QED
      BY <2>2, <3>1, <3>2, <3>3 DEF Send, Fifo!Deliver
  <2>3. ASSUME Reset \/ \E c \in Closers : Close(c) PROVE [Fifo!Discard]_(Fifo!vars)
    <3>1. packets' = <<>> /\ UNCHANGED <<batch, added, sent>>
      BY <2>3 DEF Reset, Close
    <3>2. batch \o <<>> = batch
      BY ConcatEmptySeq DEF TypeOK
    <3>3. CASE packets = <<>>
      BY <3>1, <3>3 DEF Fifo!vars
    <3>4. CASE packets # <<>>
      <4>1. Len(batch) \in 0..(Len(batch \o packets) - 1)
        BY <3>4 DEF TypeOK
      <4>2. SubSeq(batch \o packets, 1, Len(batch)) = batch
        BY ConcatParts DEF TypeOK
      <4> QED
        BY <3>1, <3>2, <4>1, <4>2 DEF Fifo!Discard
    <3> QED
      BY <3>3, <3>4
  <2>4. CASE PollGet \/ PollRefill
    <3>1. batch = <<>> /\ batch' = packets /\ packets' = <<>> /\ UNCHANGED <<added, sent>>
      BY <2>4 DEF PollGet, PollRefill, TypeOK
    <3>2. <<>> \o packets = packets /\ packets \o <<>> = packets
      BY ConcatEmptySeq DEF TypeOK
    <3> QED
      BY <3>1, <3>2 DEF Fifo!vars
  <2>5. CASE \/ EnterPollSelect \/ SelectClose \/ SelectReady \/ SignalDrain
             \/ \E a \in Adders : SignalReady(a)
    BY <2>5 DEF EnterPollSelect, SelectClose, SelectReady, SignalDrain, SignalReady, Fifo!vars
  <2>6. CASE \E c \in Closers :
               WaitForDrain(c) \/ EnterSelect(c) \/ DrainReset(c) \/ DrainTimeout(c)
    BY <2>6 DEF WaitForDrain, EnterSelect, DrainReset, DrainTimeout, Fifo!vars
  <2>7. CASE UNCHANGED vars
    BY <2>7 DEF vars, Fifo!vars
  <2> QED
    BY <2>1, <2>2, <2>3, <2>4, <2>5, <2>6, <2>7 DEF Next, Poller, CloserStep, Fifo!Next
<1> QED
  BY <1>1, <1>2, TypeCorrect, PTL DEF Spec, RefinesFifo, Fifo!Spec
=============================================================================
