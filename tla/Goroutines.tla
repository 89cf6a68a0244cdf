----------------------------- MODULE Goroutines -----------------------------
(***************************************************************************)
(* Goroutines that come and go: a bag of tasks, where a task says where a  *)
(* goroutine is and what it works on.  Two goroutines may be at the same   *)
(* place with the same work, so a set is not enough.  A bag is a function  *)
(* from its tasks to the number of goroutines, as in the module Bags, but  *)
(* with the two operations that starting and running goroutines needs.     *)
(***************************************************************************)
EXTENDS Integers

IsBagOf(B, T) == B \in [DOMAIN B -> Nat \ {0}] /\ DOMAIN B \subseteq T

NoTasks == [t \in {} |-> 1]

Copies(B, t) == IF t \in DOMAIN B THEN B[t] ELSE 0

\* The goroutines of the tasks of S start, one for each.
Starting(B, S) == [u \in DOMAIN B \cup S |-> Copies(B, u) + IF u \in S THEN 1 ELSE 0]

\* A goroutine of task t ends.
Ending(B, t) ==
  IF B[t] = 1 THEN [u \in DOMAIN B \ {t} |-> B[u]] ELSE [B EXCEPT ![t] = @ - 1]
=============================================================================
