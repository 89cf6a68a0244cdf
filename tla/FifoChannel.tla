---------------------------- MODULE FifoChannel ----------------------------
(***************************************************************************)
(* What a queue of outgoing packets promises its users: packets, numbered  *)
(* in the order in which they were accepted, come out once and in that     *)
(* order.  Packets may be discarded, but only the last ones accepted, so   *)
(* nothing overtakes and nothing is repeated.                              *)
(***************************************************************************)
EXTENDS Integers, Sequences

VARIABLES accepted,   \* number of packets accepted so far
          pending,    \* accepted and neither delivered nor discarded
          delivered   \* everything delivered, in order

vars == <<accepted, pending, delivered>>

Init == accepted = 0 /\ pending = <<>> /\ delivered = <<>>

Accept ==
  /\ accepted' \in Nat /\ accepted' > accepted
  /\ pending' = pending \o [i \in 1..(accepted' - accepted) |-> accepted + i]
  /\ UNCHANGED delivered

Deliver ==
  \E k \in 1..Len(pending) :
    /\ delivered' = delivered \o SubSeq(pending, 1, k)
    /\ pending' = SubSeq(pending, k + 1, Len(pending))
    /\ UNCHANGED accepted

Discard ==
  \E k \in 0..(Len(pending) - 1) :
    /\ pending' = SubSeq(pending, 1, k)
    /\ UNCHANGED <<accepted, delivered>>

Next == Accept \/ Deliver \/ Discard

Spec == Init /\ [][Next]_vars
=============================================================================
