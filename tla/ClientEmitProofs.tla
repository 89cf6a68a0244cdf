-------------------------- MODULE ClientEmitProofs --------------------------
(***************************************************************************)
(* What ClientEmit does right, for any number of packets, events, broken   *)
(* connections and ack IDs and any Retries: the steps with a loop or a     *)
(* count have the effects of ClientEmitInv, its invariant is inductive by  *)
(* the lemmas of ClientEmitKeeps, and it implies the invariants that the   *)
(* model checker checks.                                                   *)
(***************************************************************************)
EXTENDS ClientEmitKeeps, WellFoundedInduction, FiniteSetTheorems

USE ZenonT(60)

-----------------------------------------------------------------------------
(* The two loops, by induction through the least number.                   *)

\* Every set of natural numbers with an element has a least one.
LEMMA LeastNumber ==
  ASSUME NEW T \in SUBSET Nat, T # {}
  PROVE  \E n \in T : \A m \in T : n <= m
  <1> DEFINE R == OpToRel(<, Nat)
  <1>1. IsWellFoundedOn(R, Nat)
    BY NatLessThanWellFounded
  <1>2. \A m, n \in Nat : m < n => <<m, n>> \in R
    BY SMT DEF OpToRel
  <1> HIDE DEF R
  <1>3. PICK n \in T : \A m \in T : ~(<<m, n>> \in R)
    BY <1>1, WFMin
  <1>4. n \in Nat /\ \A m \in T : m \in Nat /\ ~(m < n)
    BY <1>2, <1>3
  <1>5. \A m \in T : n <= m
    BY SMT, <1>4
  <1> QED BY <1>3, <1>5

\* Induction over the natural numbers up to N, on the set of those reached.
LEMMA CountingUp ==
  ASSUME NEW N \in Nat, NEW P, 0 \in P, \A n \in 0..(N - 1) : n \in P => n + 1 \in P
  PROVE  \A n \in 0..N : n \in P
  <1> SUFFICES ASSUME NEW k \in 0..N, k \notin P PROVE FALSE
    OBVIOUS
  <1> DEFINE T == {n \in 0..N : n \notin P}
  <1>1. T \in SUBSET Nat /\ T # {}
    BY SMT
  <1>2. PICK n \in T : \A m \in T : n <= m
    BY <1>1, LeastNumber
  <1>3. n \in 0..N /\ n # 0 /\ n \notin P
    BY <1>2
  <1>4. n - 1 \in 0..(N - 1) /\ (n - 1) + 1 = n /\ ~(n <= n - 1) /\ n - 1 \in 0..N
    BY SMT, <1>3
  <1>5. n - 1 \in P
    BY <1>2, <1>4
  <1> QED BY <1>3, <1>4, <1>5

\* A loop of N steps from start, each of them the function F of what the one
\* before has left in A.
IsStep(F, A, N) == F \in [A \X (1..N) -> A]
Runs(g, F, start, A, N) ==
  g \in [0..N -> A] /\ g[0] = start /\ \A k \in 1..N : g[k] = F[<<g[k - 1], k>>]

\* Every loop is a function.
LEMMA LoopExists ==
  ASSUME NEW N \in Nat, NEW A, NEW start \in A, NEW F, IsStep(F, A, N)
  PROVE  \E g : Runs(g, F, start, A, N)
  <1> DEFINE Is(g, n) == /\ g \in [0..n -> A] /\ g[0] = start
                         /\ \A k \in 1..n : g[k] = F[<<g[k - 1], k>>]
             P == {n \in 0..N : \E g : Is(g, n)}
  <1>0. F \in [A \X (1..N) -> A]
    BY DEF IsStep
  <1>1. 0 \in P
    <2> DEFINE g == [k \in 0..0 |-> start]
    <2>1. Is(g, 0) /\ 0 \in 0..N
      BY SMT
    <2> HIDE DEF Is, g
    <2> QED BY <2>1
  <1>2. ASSUME NEW n \in 0..(N - 1), n \in P
        PROVE  n + 1 \in P
    <2>1. PICK g : Is(g, n)
      BY <1>2
    <2> DEFINE f == [k \in 0..(n + 1) |-> IF k = n + 1 THEN F[<<g[n], n + 1>>] ELSE g[k]]
    <2>2. /\ n + 1 \in 0..N /\ n + 1 \in 1..N /\ n \in 0..n /\ 0 # n + 1 /\ 0 \in 0..(n + 1)
          /\ \A k \in 0..(n + 1) : k # n + 1 => k \in 0..n
          /\ \A k \in 1..(n + 1) : /\ k \in 0..(n + 1) /\ k - 1 \in 0..(n + 1) /\ k - 1 # n + 1
                                   /\ IF k = n + 1 THEN k - 1 = n ELSE k \in 1..n
      BY SMT
    <2>3. g[n] \in A /\ F[<<g[n], n + 1>>] \in A
      BY <1>0, <2>1, <2>2
    <2>4. f \in [0..(n + 1) -> A] /\ f[0] = start
      BY <2>1, <2>2, <2>3
    <2>5. ASSUME NEW k \in 1..(n + 1) PROVE f[k] = F[<<f[k - 1], k>>]
      <3>1. f[k - 1] = g[k - 1]
        BY <2>2
      <3>2. CASE k = n + 1
        BY <2>2, <3>1, <3>2
      <3>3. CASE k # n + 1
        BY <2>1, <2>2, <3>1, <3>3
      <3> QED BY <3>2, <3>3
    <2>6. Is(f, n + 1)
      BY <2>4, <2>5
    <2> HIDE DEF f, Is
    <2> QED BY <2>2, <2>6
  <1>3. PICK g : Is(g, N)
    <2> HIDE DEF Is
    <2>1. \A n \in 0..N : n \in P
      <3> HIDE DEF P
      <3> QED BY <1>1, <1>2, CountingUp
    <2>2. N \in 0..N
      BY SMT
    <2> QED BY <2>1, <2>2
  <1> QED BY <1>3 DEF Runs

\* What a step of the loop that removes frames leaves.
Accs(n) == [array : [1..n -> FrameSet], len : 0..n, panic : BOOLEAN]

\* The loop over the send buffer, step by step.
LEMMA RemoveLoopDef ==
  ASSUME NEW buf \in Seq(FrameSet), NEW i
  PROVE  LET L == RemoveLoop(buf, i)
         IN  /\ L \in [0..Len(buf) -> Accs(Len(buf))]
             /\ L[0] = [array |-> buf, len |-> Len(buf), panic |-> FALSE]
             /\ \A k \in 1..Len(buf) : L[k] = RemoveFrame(L[k - 1], k, i)
  <1> DEFINE start == [array |-> buf, len |-> Len(buf), panic |-> FALSE]
             N == Len(buf)
             A == Accs(N)
             F == [p \in A \X (1..N) |-> RemoveFrame(p[1], p[2], i)]
  <1>1. N \in Nat /\ start \in A
    BY SMT DEF Accs
  <1>2. ASSUME NEW a \in A, NEW k \in 1..N PROVE RemoveFrame(a, k, i) \in A
    <2>1. /\ a.array \in [1..N -> FrameSet] /\ a.len \in 0..N /\ a.panic \in BOOLEAN
          /\ a = [array |-> a.array, len |-> a.len, panic |-> a.panic]
      BY SMT DEF Accs
    <2>2. [array |-> a.array, len |-> a.len, panic |-> TRUE] \in A
      BY SMT, <2>1 DEF Accs
    <2>3. CASE k <= a.len
      <3> DEFINE s == [j \in DOMAIN a.array |->
                         IF j \in k..(a.len - 1) THEN a.array[j + 1] ELSE a.array[j]]
      <3>1. s \in [1..N -> FrameSet] /\ a.len - 1 \in 0..N
        BY SMT, <1>1, <2>1, <2>3
      <3>2. [array |-> s, len |-> a.len - 1, panic |-> FALSE] \in A
        <4> HIDE DEF s
        <4> QED BY SMT, <3>1 DEF Accs
      <3> QED BY <2>2, <3>2 DEF RemoveFrame
    <2>4. ~(k <= a.len) => k > a.len
      BY SMT, <1>1, <2>1
    <2> QED BY <2>2, <2>3, <2>4 DEF RemoveFrame
  <1> HIDE DEF start, A, N
  <1>3. IsStep(F, A, N)
    BY <1>2 DEF IsStep
  <1>4. PICK g : Runs(g, F, start, A, N)
    <2> HIDE DEF F
    <2> QED BY <1>1, <1>3, LoopExists
  <1>5. \A k \in 0..N : k # 0 => k \in 1..N /\ k - 1 \in 0..N
    BY SMT, <1>1
  <1>6. g = [k \in 0..N |-> IF k = 0 THEN start ELSE RemoveFrame(g[k - 1], k, i)]
    <2>1. g \in [0..N -> A] /\ g[0] = start /\ \A k \in 1..N : g[k] = F[<<g[k - 1], k>>]
      <3> HIDE DEF F
      <3> QED BY <1>4 DEF Runs
    <2>2. \A k \in 0..N : k # 0 => g[k] = RemoveFrame(g[k - 1], k, i)
      BY <1>5, <2>1
    <2>3. g = [k \in 0..N |-> g[k]]
      BY <2>1
    <2> QED BY <2>1, <2>2, <2>3
  <1> DEFINE L == RemoveLoop(buf, i)
  <1>7. L = [k \in 0..N |-> IF k = 0 THEN start ELSE RemoveFrame(L[k - 1], k, i)]
    BY <1>6 DEF RemoveLoop, N, start
  <1> HIDE DEF L, F
  <1>8. DOMAIN L = 0..N /\ L[0] = start /\ \A k \in 1..N : L[k] = RemoveFrame(L[k - 1], k, i)
    <2>1. 0 \in 0..N /\ \A k \in 1..N : k \in 0..N /\ k # 0
      BY SMT, <1>1
    <2> QED BY <1>7, <2>1
  <1>9. \A k \in 0..N : L[k] \in A
    <2> DEFINE P == {k \in 0..N : L[k] \in A}
    <2>1. 0 \in P
      BY SMT, <1>1, <1>8
    <2>2. ASSUME NEW k \in 0..(N - 1), k \in P PROVE k + 1 \in P
      <3>1. k + 1 \in 1..N /\ (k + 1) - 1 = k /\ k + 1 \in 0..N
        BY SMT, <1>1
      <3> QED BY <1>2, <1>8, <2>2, <3>1
    <2>3. \A k \in 0..N : k \in P
      <3> HIDE DEF P
      <3> QED BY <1>1, <2>1, <2>2, CountingUp
    <2> QED BY <2>3
  <1>10. L \in [0..N -> A]
    BY <1>7, <1>9
  <1> QED BY <1>8, <1>10 DEF L, N, A, start

\* After step k of the loop: the frames kept are frames of the buffer, each of
\* them once; beyond them the array repeats the last frame; and a frame before
\* the last one was removed, unless the loop is over or nothing was removed.
Selects(array, len, buf, n) ==
  \E f \in [1..len -> 1..n] :
    /\ \A j \in 1..len : array[j] = buf[f[j]]
    /\ \A j, l \in 1..len : f[j] = f[l] => j = l
Repeats(array, len, buf, n, k) ==
  \A j \in 1..n : j > len \/ (j = len /\ k < len) => array[j] = buf[n]
Earlier(buf, n, i) == \E p \in 1..n : p < n /\ buf[p].id = i
RemoveInv(buf, n, i, a, k) ==
  /\ Selects(a.array, a.len, buf, n)
  /\ Repeats(a.array, a.len, buf, n, k)
  /\ a.len < n => k = n \/ Earlier(buf, n, i)
  /\ a.len = n => a.array = buf
  /\ a.panic => buf[n].id = i /\ Earlier(buf, n, i)

\* Each step of the loop keeps that.
LEMMA RemoveFrameKeeps ==
  ASSUME NEW n \in Nat, NEW buf \in [1..n -> FrameSet], NEW i, NEW k \in 1..n, NEW a \in Accs(n),
         RemoveInv(buf, n, i, a, k - 1)
  PROVE  RemoveInv(buf, n, i, RemoveFrame(a, k, i), k)
  <1>1. a.array \in [1..n -> FrameSet] /\ a.len \in 0..n /\ a.panic \in BOOLEAN
    BY SMT DEF Accs
  <1>2. /\ Selects(a.array, a.len, buf, n)
        /\ Repeats(a.array, a.len, buf, n, k - 1)
        /\ a.len < n => k - 1 = n \/ Earlier(buf, n, i)
        /\ a.len = n => a.array = buf
        /\ a.panic => buf[n].id = i /\ Earlier(buf, n, i)
    BY DEF RemoveInv
  <1>3. k - 1 # n
    BY SMT
  <1>4. Repeats(a.array, a.len, buf, n, k)
    BY SMT, <1>1, <1>2 DEF Repeats
  <1>5. CASE a.panic \/ a.array[k].id # i
    <2>1. RemoveFrame(a, k, i) = a
      BY <1>5 DEF RemoveFrame
    <2> QED BY <1>2, <1>3, <1>4, <2>1 DEF RemoveInv
  <1>6. CASE ~(a.panic \/ a.array[k].id # i) /\ k > a.len
    <2> DEFINE b == [array |-> a.array, len |-> a.len, panic |-> TRUE]
    <2>1. RemoveFrame(a, k, i) = b /\ b.array = a.array /\ b.len = a.len
      BY <1>6 DEF RemoveFrame
    <2>2. a.len < n /\ buf[n].id = i
      BY SMT, <1>1, <1>2, <1>6 DEF Repeats
    <2> HIDE DEF b
    <2> QED BY <1>2, <1>3, <1>4, <2>1, <2>2 DEF RemoveInv
  <1>7. CASE ~(a.panic \/ a.array[k].id # i) /\ ~(k > a.len)
    <2> DEFINE s == [j \in DOMAIN a.array |->
                       IF j \in k..(a.len - 1) THEN a.array[j + 1] ELSE a.array[j]]
               b == [array |-> s, len |-> a.len - 1, panic |-> FALSE]
    <2>1. RemoveFrame(a, k, i) = b /\ b.array = s /\ b.len = a.len - 1 /\ b.panic = FALSE
      BY <1>7 DEF RemoveFrame
    <2>6. \A j \in 1..n : s[j] = IF j \in k..(a.len - 1) THEN a.array[j + 1] ELSE a.array[j]
      BY <1>1
    <2> HIDE DEF s, b
    <2>2. Selects(s, a.len - 1, buf, n)
      <3>1. PICK f \in [1..a.len -> 1..n] : /\ \A j \in 1..a.len : a.array[j] = buf[f[j]]
                                            /\ \A j, l \in 1..a.len : f[j] = f[l] => j = l
        BY <1>2 DEF Selects
      <3> DEFINE g == [j \in 1..(a.len - 1) |-> IF j >= k THEN f[j + 1] ELSE f[j]]
      <3>2. g \in [1..(a.len - 1) -> 1..n]
        BY SMT, <1>1, <1>7, <3>1
      <3>4. ASSUME NEW j \in 1..(a.len - 1) PROVE s[j] = buf[g[j]]
        <4>1. g[j] = IF j >= k THEN f[j + 1] ELSE f[j]
          OBVIOUS
        <4>2. s[j] = IF j >= k THEN a.array[j + 1] ELSE a.array[j]
          BY SMT, <1>1, <1>7, <2>6
        <4>3. j + 1 \in 1..a.len /\ j \in 1..a.len
          BY SMT, <1>1
        <4> QED BY <3>1, <4>1, <4>2, <4>3
      <3>3. \A j, l \in 1..(a.len - 1) : g[j] = g[l] => j = l
        BY SMT, <1>1, <1>7, <3>1
      <3> HIDE DEF g
      <3> QED BY <3>2, <3>3, <3>4 DEF Selects
    <2>3. Repeats(s, a.len - 1, buf, n, k)
      BY SMT, <1>1, <1>2, <1>7, <2>6 DEF Repeats
    <2>4. k = n \/ Earlier(buf, n, i)
      BY SMT, <1>1, <1>2, <1>3, <1>7 DEF Earlier
    <2>5. a.len - 1 # n
      BY SMT, <1>1
    <2> QED BY <2>1, <2>2, <2>3, <2>4, <2>5 DEF RemoveInv
  <1> QED BY <1>5, <1>6, <1>7

\* What is left of the send buffer are frames of it, none of them twice, and the
\* removal panics only when two frames had the ID.
LEMMA RemoveFramesKeeps ==
  ASSUME NEW buf \in Seq(FrameSet), NEW i
  PROVE  /\ RemoveFrames(buf, i).buffer \in Seq(FrameSet)
         /\ Selects(RemoveFrames(buf, i).buffer, Len(RemoveFrames(buf, i).buffer), buf, Len(buf))
         /\ RemoveFrames(buf, i).panic \in BOOLEAN
         /\ RemoveFrames(buf, i).panic =>
              \E p, q \in DOMAIN buf : p # q /\ buf[p].id = i /\ buf[q].id = i
         /\ buf = <<>> => RemoveFrames(buf, i).buffer = <<>>
  <1> DEFINE N == Len(buf)
             L == RemoveLoop(buf, i)
             e == L[N]
             r == RemoveFrames(buf, i)
             P == {k \in 0..N : RemoveInv(buf, N, i, L[k], k)}
  <1>1. N \in Nat /\ DOMAIN buf = 1..N /\ buf \in [1..N -> FrameSet]
    BY SMT
  <1>2. /\ L \in [0..N -> Accs(N)]
        /\ L[0] = [array |-> buf, len |-> N, panic |-> FALSE]
        /\ \A k \in 1..N : L[k] = RemoveFrame(L[k - 1], k, i)
    BY RemoveLoopDef
  <1>3. r = [buffer |-> SubSeq(e.array, 1, e.len), panic |-> e.panic]
    BY DEF RemoveFrames
  <1>0. buf = <<>> => N = 0
    BY SMT
  <1> HIDE DEF L, r, N
  <1>4. 0 \in P
    <2>1. L[0].array = buf /\ L[0].len = N /\ L[0].panic = FALSE
      BY SMT, <1>2
    <2>2. Selects(buf, N, buf, N)
      <3> DEFINE f == [j \in 1..N |-> j]
      <3>1. /\ f \in [1..N -> 1..N] /\ \A j \in 1..N : buf[j] = buf[f[j]]
            /\ \A j, l \in 1..N : f[j] = f[l] => j = l
        OBVIOUS
      <3> HIDE DEF f
      <3> QED BY <3>1 DEF Selects
    <2>3. 0 \in 0..N /\ ~(N < N) /\ Repeats(buf, N, buf, N, 0)
      BY SMT, <1>1 DEF Repeats
    <2> QED BY <2>1, <2>2, <2>3 DEF RemoveInv
  <1>5. ASSUME NEW k \in 0..(N - 1), k \in P PROVE k + 1 \in P
    <2>1. k + 1 \in 1..N /\ (k + 1) - 1 = k /\ k + 1 \in 0..N /\ k \in 0..N
      BY SMT, <1>1
    <2>2. L[k] \in Accs(N) /\ RemoveInv(buf, N, i, L[k], (k + 1) - 1)
      BY <1>2, <1>5, <2>1
    <2>3. RemoveInv(buf, N, i, RemoveFrame(L[k], k + 1, i), k + 1)
      BY <1>1, <2>1, <2>2, RemoveFrameKeeps
    <2>4. L[k + 1] = RemoveFrame(L[k], k + 1, i)
      BY <1>2, <2>1
    <2> QED BY <2>1, <2>3, <2>4
  <1>6. N \in 0..N /\ RemoveInv(buf, N, i, e, N)
    <2>1. \A k \in 0..N : k \in P
      <3> HIDE DEF P
      <3> QED BY <1>1, <1>4, <1>5, CountingUp
    <2>2. N \in 0..N
      BY SMT, <1>1
    <2> QED BY <2>1, <2>2
  <1>7. e.array \in [1..N -> FrameSet] /\ e.len \in 0..N /\ e.panic \in BOOLEAN
    <2>1. e \in Accs(N)
      BY <1>2, <1>6
    <2> HIDE DEF e
    <2> QED BY SMT, <2>1 DEF Accs
  <1> HIDE DEF e
  <1>8. /\ r.buffer \in Seq(FrameSet) /\ Len(r.buffer) = e.len
        /\ \A j \in 1..e.len : r.buffer[j] = e.array[j]
        /\ N = 0 => r.buffer = <<>>
    <2>1. r.buffer = SubSeq(e.array, 1, e.len)
      BY <1>3
    <2>2. e.array \in Seq(FrameSet) /\ Len(e.array) = N
      BY SMT, <1>1, <1>7
    <2> QED BY SMT, <1>1, <1>7, <2>1, <2>2
  <1>9. r.panic \in BOOLEAN /\ r.panic = e.panic
    BY <1>3, <1>7
  <1>10. Selects(r.buffer, e.len, buf, N)
    <2>1. Selects(e.array, e.len, buf, N)
      BY <1>6 DEF RemoveInv
    <2>2. PICK f \in [1..e.len -> 1..N] : /\ \A j \in 1..e.len : e.array[j] = buf[f[j]]
                                          /\ \A j, l \in 1..e.len : f[j] = f[l] => j = l
      BY <2>1 DEF Selects
    <2>3. \A j \in 1..e.len : r.buffer[j] = buf[f[j]]
      BY <1>8, <2>2
    <2> QED BY <2>2, <2>3 DEF Selects
  <1>11. e.panic => \E p, q \in 1..N : p # q /\ buf[p].id = i /\ buf[q].id = i
    <2>1. e.panic => buf[N].id = i /\ \E p \in 1..N : p < N /\ buf[p].id = i
      BY <1>6 DEF RemoveInv, Earlier
    <2>2. \A p \in 1..N : p < N => p # N /\ N \in 1..N
      BY SMT, <1>1
    <2> QED BY <2>1, <2>2
  <1>12. Selects(r.buffer, Len(r.buffer), buf, N)
    BY <1>8, <1>10
  <1>13. r.panic => \E p, q \in DOMAIN buf : p # q /\ buf[p].id = i /\ buf[q].id = i
    BY <1>1, <1>9, <1>11
  <1>14. buf = <<>> => r.buffer = <<>>
    BY <1>0, <1>8
  <1> QED BY <1>8, <1>9, <1>12, <1>13, <1>14 DEF r, N

\* The loop over the events, step by step.
LEMMA RepliesDef ==
  ASSUME NEW s \in Seq(Events)
  PROVE  /\ Replies(s) \in [0..Len(s) -> Seq(FrameSet)]
         /\ Replies(s)[0] = <<>>
         /\ \A k \in 1..Len(s) : Replies(s)[k] = Replies(s)[k - 1] \o Reply(s[k])
  <1> DEFINE N == Len(s)
             A == Seq(FrameSet)
             start == << >>
             F == [p \in A \X (1..N) |-> p[1] \o Reply(s[p[2]])]
  <1>1. N \in Nat /\ start \in A /\ \A k \in 1..N : s[k] \in Events
    BY SMT
  <1>2. ASSUME NEW a \in A, NEW k \in 1..N PROVE a \o Reply(s[k]) \in A
    <2>1. Frame(s[k], s[k], TRUE, 1) \in FrameSet
      BY SMT, <1>1, EmitAssumption DEF Frame, FrameSet, Events
    <2> HIDE DEF N
    <2> DEFINE f == Frame(s[k], s[k], TRUE, 1)
    <2>2. Reply(s[k]) = << >> \/ Reply(s[k]) = <<f>>
      BY DEF Reply
    <2>3. f \in FrameSet
      BY <2>1
    <2> HIDE DEF f
    <2>4. a \o << >> \in Seq(FrameSet) /\ a \o <<f>> \in Seq(FrameSet)
      BY SMT, <2>3
    <2> QED BY <2>2, <2>4
  <1> HIDE DEF start, A, N
  <1>3. IsStep(F, A, N)
    BY <1>2 DEF IsStep
  <1>4. PICK g : Runs(g, F, start, A, N)
    <2> HIDE DEF F
    <2> QED BY <1>1, <1>3, LoopExists
  <1>5. \A k \in 0..N : k # 0 => k \in 1..N /\ k - 1 \in 0..N
    BY SMT, <1>1
  <1>6. g = [k \in 0..N |-> IF k = 0 THEN start ELSE g[k - 1] \o Reply(s[k])]
    <2>1. g \in [0..N -> A] /\ g[0] = start /\ \A k \in 1..N : g[k] = F[<<g[k - 1], k>>]
      <3> HIDE DEF F
      <3> QED BY <1>4 DEF Runs
    <2>2. \A k \in 0..N : k # 0 => g[k] = g[k - 1] \o Reply(s[k])
      BY <1>5, <2>1
    <2>3. g = [k \in 0..N |-> g[k]]
      BY <2>1
    <2> QED BY <2>1, <2>2, <2>3
  <1> DEFINE L == Replies(s)
  <1>7. L = [k \in 0..N |-> IF k = 0 THEN start ELSE L[k - 1] \o Reply(s[k])]
    BY <1>6 DEF Replies, N, start
  <1> HIDE DEF L, F
  <1>8. DOMAIN L = 0..N /\ L[0] = start /\ \A k \in 1..N : L[k] = L[k - 1] \o Reply(s[k])
    <2>1. 0 \in 0..N /\ \A k \in 1..N : k \in 0..N /\ k # 0
      BY SMT, <1>1
    <2> QED BY <1>7, <2>1
  <1>9. \A k \in 0..N : L[k] \in A
    <2> DEFINE P == {k \in 0..N : L[k] \in A}
    <2>1. 0 \in P
      BY SMT, <1>1, <1>8
    <2>2. ASSUME NEW k \in 0..(N - 1), k \in P PROVE k + 1 \in P
      <3>1. k + 1 \in 1..N /\ (k + 1) - 1 = k /\ k + 1 \in 0..N
        BY SMT, <1>1
      <3> QED BY <1>2, <1>8, <2>2, <3>1
    <2>3. \A k \in 0..N : k \in P
      <3> HIDE DEF P
      <3> QED BY <1>1, <2>1, <2>2, CountingUp
    <2> QED BY <2>3
  <1>10. L \in [0..N -> A]
    BY <1>7, <1>9
  <1> QED BY <1>8, <1>10 DEF L, N, A, start

\* The ACKs of the first k events of s.
Answers(s, x, k) ==
  /\ \A p \in DOMAIN x : \E j \in 1..k : x[p] = Frame(s[j], s[j], TRUE, 1) /\ ekind[s[j]] \in {"acks", "noAck"}
  /\ (\A i, j \in DOMAIN s : s[i] = s[j] => i = j) => \A p, q \in DOMAIN x : x[p].m = x[q].m => p = q

\* Each ACK in the replies is of one of the events, and of another one.
LEMMA RepliesKeeps ==
  ASSUME NEW s \in Seq(Events)
  PROVE  /\ Replies(s)[Len(s)] \in Seq(FrameSet)
         /\ Answers(s, Replies(s)[Len(s)], Len(s))
  <1> DEFINE N == Len(s)
             L == Replies(s)
             P == {k \in 0..N : Answers(s, L[k], k)}
  <1>1. N \in Nat /\ DOMAIN s = 1..N /\ \A k \in 1..N : s[k] \in Events
    BY SMT
  <1>2. /\ L \in [0..N -> Seq(FrameSet)] /\ L[0] = <<>>
        /\ \A k \in 1..N : L[k] = L[k - 1] \o Reply(s[k])
    BY RepliesDef
  <1> HIDE DEF L, N
  <1>3. 0 \in P
    <2>1. 0 \in 0..N /\ DOMAIN L[0] = {}
      BY SMT, <1>1, <1>2
    <2> QED BY <2>1 DEF Answers
  <1>4. ASSUME NEW k \in 0..(N - 1), k \in P PROVE k + 1 \in P
    <2>1. k + 1 \in 1..N /\ (k + 1) - 1 = k /\ k + 1 \in 0..N /\ k \in 0..N
      BY SMT, <1>1
    <2> DEFINE x == L[k]
               f == Frame(s[k + 1], s[k + 1], TRUE, 1)
    <2>2. x \in Seq(FrameSet) /\ L[k + 1] = x \o Reply(s[k + 1]) /\ Answers(s, x, k)
      BY <1>2, <1>4, <2>1
    <2>3. \A j \in 1..k : j \in 1..(k + 1) /\ j # k + 1 /\ j \in DOMAIN s
      BY SMT, <1>1
    <2>4. \A p \in DOMAIN x : \E j \in 1..k : x[p] = Frame(s[j], s[j], TRUE, 1) /\ ekind[s[j]] \in {"acks", "noAck"}
      BY <2>2 DEF Answers
    <2>5. CASE Reply(s[k + 1]) = <<>>
      <3>1. L[k + 1] = x
        <4> HIDE DEF x
        <4> QED BY SMT, <2>2, <2>5
      <3> HIDE DEF x
      <3>2. \A p \in DOMAIN x : \E j \in 1..(k + 1) : x[p] = Frame(s[j], s[j], TRUE, 1) /\ ekind[s[j]] \in {"acks", "noAck"}
        BY <2>3, <2>4
      <3>3. Answers(s, x, k + 1)
        BY <2>2, <3>2 DEF Answers
      <3> QED BY <2>1, <3>1, <3>3
    <2>6. CASE Reply(s[k + 1]) # <<>>
      <3>1. Reply(s[k + 1]) = <<f>> /\ ekind[s[k + 1]] \in {"acks", "noAck"}
        BY <2>6 DEF Reply
      <3> HIDE DEF x
      <3> DEFINE y == x \o <<f>>
      <3>2. L[k + 1] = y
        BY <2>2, <3>1
      <3>3. /\ Len(x) \in Nat /\ DOMAIN x = 1..Len(x) /\ DOMAIN y = 1..(Len(x) + 1)
            /\ \A p \in DOMAIN x : y[p] = x[p]
            /\ y[Len(x) + 1] = f
        <4> HIDE DEF f
        <4> QED BY SMT, <2>2
      <3>4. \A p \in DOMAIN y : p \in DOMAIN x \/ p = Len(x) + 1
        <4> HIDE DEF y
        <4> QED BY SMT, <3>3
      <3> HIDE DEF y
      <3>5. k + 1 \in 1..(k + 1)
        BY SMT
      <3>6. \A p \in DOMAIN y : \E j \in 1..(k + 1) : y[p] = Frame(s[j], s[j], TRUE, 1) /\ ekind[s[j]] \in {"acks", "noAck"}
        <4>1. \A p \in DOMAIN x : \E j \in 1..(k + 1) : y[p] = Frame(s[j], s[j], TRUE, 1) /\ ekind[s[j]] \in {"acks", "noAck"}
          <5> SUFFICES ASSUME NEW p \in DOMAIN x
                       PROVE  \E j \in 1..(k + 1) : y[p] = Frame(s[j], s[j], TRUE, 1) /\ ekind[s[j]] \in {"acks", "noAck"}
            OBVIOUS
          <5>1. PICK j \in 1..k : x[p] = Frame(s[j], s[j], TRUE, 1) /\ ekind[s[j]] \in {"acks", "noAck"}
            BY <2>4
          <5>2. j \in 1..(k + 1) /\ y[p] = x[p]
            BY <2>3, <3>3
          <5> QED BY <5>1, <5>2
        <4>2. \E j \in 1..(k + 1) : y[Len(x) + 1] = Frame(s[j], s[j], TRUE, 1) /\ ekind[s[j]] \in {"acks", "noAck"}
          BY <3>1, <3>3, <3>5
        <4> QED BY <3>4, <4>1, <4>2
      <3>7. ASSUME \A i, j \in DOMAIN s : s[i] = s[j] => i = j
            PROVE  \A p, q \in DOMAIN y : y[p].m = y[q].m => p = q
        <4>1. \A p, q \in DOMAIN x : x[p].m = x[q].m => p = q
          BY <2>2, <3>7 DEF Answers
        <4>2. \A j \in 1..(k + 1) : Frame(s[j], s[j], TRUE, 1).m = s[j]
          BY DEF Frame
        <4>3. k + 1 \in DOMAIN s
          BY <1>1, <2>1
        <4>4. f.m = s[k + 1]
          BY <3>5, <4>2
        <4> HIDE DEF f
        <4>5. \A p \in DOMAIN x : x[p].m # f.m
          <5> SUFFICES ASSUME NEW p \in DOMAIN x PROVE x[p].m # f.m
            OBVIOUS
          <5>1. PICK j \in 1..k : x[p] = Frame(s[j], s[j], TRUE, 1)
            BY <2>4
          <5>2. x[p].m = s[j] /\ s[j] # s[k + 1]
            BY <2>3, <3>7, <4>2, <4>3, <5>1
          <5> QED BY <4>4, <5>2
        <4> QED BY <3>3, <3>4, <4>1, <4>5
      <3>8. Answers(s, y, k + 1)
        BY <3>6, <3>7 DEF Answers
      <3> QED BY <2>1, <3>2, <3>8
    <2> QED BY <2>5, <2>6
  <1>5. N \in 0..N /\ Answers(s, L[N], N)
    <2>1. \A k \in 0..N : k \in P
      <3> HIDE DEF P
      <3> QED BY <1>1, <1>3, <1>4, CountingUp
    <2>2. N \in 0..N
      BY SMT, <1>1
    <2> QED BY <2>1, <2>2
  <1>6. L[N] \in Seq(FrameSet)
    BY <1>2, <1>5
  <1> QED BY <1>5, <1>6 DEF L, N

\* The events that emitBuffered hands over: the first ones of the buffer, and all
\* of them unless the last one has acknowledged.
LEMMA FlushedForm ==
  ASSUME receiveBuffer \in Seq(Events)
  PROVE  /\ Flushed \in Seq(Events)
         /\ \A i \in DOMAIN Flushed : i \in DOMAIN receiveBuffer /\ Flushed[i] = receiveBuffer[i]
         /\ Flushed = receiveBuffer \/ (Flushed # <<>> /\ ekind[Flushed[Len(Flushed)]] = "acks")
  <1> DEFINE stops == {i \in DOMAIN receiveBuffer : ekind[receiveBuffer[i]] = "acks"}
             first == CHOOSE i \in stops : \A j \in stops : i <= j
  <1>1. CASE stops = {}
    <2>1. Flushed = receiveBuffer
      BY <1>1 DEF Flushed
    <2> QED BY <2>1
  <1>2. CASE stops # {}
    <2>1. Flushed = SubSeq(receiveBuffer, 1, first)
      BY <1>2 DEF Flushed
    <2>2. stops \subseteq Nat
      BY SMT
    <2>3. \E i \in stops : \A j \in stops : i <= j
      <3> HIDE DEF stops
      <3> QED BY <1>2, <2>2, LeastNumber
    <2>4. first \in stops
      <3> HIDE DEF stops
      <3> QED BY <2>3
    <2>5. first \in DOMAIN receiveBuffer /\ ekind[receiveBuffer[first]] = "acks"
      BY <2>4
    <2> HIDE DEF first
    <2>6. /\ first \in Nat /\ first >= 1 /\ first <= Len(receiveBuffer)
          /\ DOMAIN receiveBuffer = 1..Len(receiveBuffer) /\ Len(receiveBuffer) \in Nat
      BY SMT, <2>5
    <2> DEFINE s == SubSeq(receiveBuffer, 1, first)
    <2>7. s \in Seq(Events) /\ Len(s) = first /\ \A i \in 1..first : s[i] = receiveBuffer[i]
      BY SMT, <2>6
    <2>8. DOMAIN s = 1..first /\ \A i \in 1..first : i \in 1..Len(receiveBuffer)
      BY SMT, <2>6, <2>7
    <2>9. first \in 1..first /\ s # <<>>
      BY SMT, <2>6, <2>7
    <2> HIDE DEF s
    <2>10. Flushed = s
      BY <2>1 DEF s
    <2> QED BY <2>5, <2>6, <2>7, <2>8, <2>9, <2>10
  <1> QED BY <1>1, <1>2

\* The ACKs that emitBuffered collects.
LEMMA FlushRepliesForm ==
  ASSUME Base
  PROVE  /\ FlushReplies \in Seq(FrameSet)
         /\ \A p \in DOMAIN FlushReplies :
              /\ FrameOK(FlushReplies[p]) /\ FlushReplies[p].reply = TRUE
              /\ \E j \in DOMAIN Flushed : FlushReplies[p].m = Flushed[j]
         /\ (\A i, j \in DOMAIN Flushed : Flushed[i] = Flushed[j] => i = j) =>
              \A p, q \in DOMAIN FlushReplies : FlushReplies[p].m = FlushReplies[q].m => p = q
  <1>1. Flushed \in Seq(Events)
    BY FlushedForm DEF Base, BuffersOK
  <1>2. FlushReplies \in Seq(FrameSet) /\ Answers(Flushed, FlushReplies, Len(Flushed))
    BY <1>1, RepliesKeeps DEF FlushReplies
  <1>3. DOMAIN Flushed = 1..Len(Flushed) /\ \A j \in 1..Len(Flushed) : Flushed[j] \in Events
    BY SMT, <1>1
  <1>5. ASSUME NEW p \in DOMAIN FlushReplies
        PROVE  /\ FrameOK(FlushReplies[p]) /\ FlushReplies[p].reply = TRUE
               /\ \E j \in DOMAIN Flushed : FlushReplies[p].m = Flushed[j]
    <2>1. PICK j \in 1..Len(Flushed) : /\ FlushReplies[p] = Frame(Flushed[j], Flushed[j], TRUE, 1)
                                       /\ ekind[Flushed[j]] \in {"acks", "noAck"}
      BY <1>2 DEF Answers
    <2> DEFINE f == FlushReplies[p]
               e == Flushed[j]
    <2>2. f.m = e /\ f.id = e /\ f.reply = TRUE /\ f.part = 1 /\ e \in Events /\ ekind[e] \in {"acks", "noAck"}
      <3>1. f = [m |-> e, id |-> e, reply |-> TRUE, part |-> 1] /\ ekind[e] \in {"acks", "noAck"}
        BY <2>1 DEF Frame
      <3>2. e \in Events
        BY <1>3
      <3> HIDE DEF e, f
      <3>3. f.m = e /\ f.id = e /\ f.reply = TRUE /\ f.part = 1
        BY <3>1
      <3> QED BY <3>1, <3>2, <3>3
    <2>3. f.part # 2
      BY SMT, <2>2
    <2>4. FrameOK(f)
      BY <2>2, <2>3 DEF FrameOK, IsReply, Acking
    <2> QED BY <1>3, <2>2, <2>4
  <1> QED BY <1>2, <1>5 DEF Answers

-----------------------------------------------------------------------------
(* Steps with a loop or a count.                                           *)

\* The number of elements of a set of positions, added to a count.
LEMMA Counting ==
  ASSUME NEW n \in Nat, NEW P, P \subseteq 1..n
  PROVE  Cardinality(P) \in Nat /\ \A c \in Nat : Added(c + Cardinality(P), c, P)
  <1>1. IsFiniteSet(1..n)
    BY SMT, FS_Interval
  <1>2. IsFiniteSet(P)
    BY <1>1, FS_Subset
  <1>3. Cardinality(P) \in Nat
    BY <1>2, FS_CardinalityType
  <1>4. P = {} <=> Cardinality(P) = 0
    BY <1>2, FS_EmptySet
  <1>5. ASSUME \A x, y \in P : x = y PROVE Cardinality(P) <= 1
    <2>1. CASE P = {}
      BY SMT, <1>4, <2>1
    <2>2. CASE P # {}
      <3>1. PICK x \in P : TRUE
        BY <2>2
      <3>2. P = {x}
        BY <1>5, <3>1
      <3>3. Cardinality({x}) = 1
        BY FS_Singleton
      <3> QED BY SMT, <3>2, <3>3
    <2> QED BY <2>1, <2>2
  <1> DEFINE N == Cardinality(P)
  <1>6. N \in Nat /\ (P = {} => N = 0) /\ (P # {} => N # 0) /\ ((\A x, y \in P : x = y) => N <= 1)
    BY <1>3, <1>4, <1>5
  <1> HIDE DEF N
  <1>7. ASSUME NEW c \in Nat PROVE Added(c + N, c, P)
    <2>1. /\ c + N \in Nat /\ c + N >= c /\ (N = 0 => c + N = c) /\ (N # 0 => c + N # c)
          /\ N <= 1 => c + N <= c + 1
      BY SMT, <1>6
    <2> QED BY <1>6, <2>1 DEF Added
  <1> QED BY <1>3, <1>7 DEF N

\* The history after frames have been sent.
LEMMA CountForms ==
  ASSUME NEW x \in Histories, NEW frames \in Seq(FrameSet), NEW y, y = CountReplies(x, frames)
  PROVE  /\ y \in Histories /\ \A e \in Events : Added(y.replied[e], x.replied[e], RepliesOf(frames, e))
         /\ y.calls = x.calls /\ y.delivered = x.delivered /\ y.left = x.left
         /\ y.overlap = x.overlap /\ y.aborted = x.aborted /\ y.raced = x.raced
  <1> DEFINE d == [e \in Events |-> x.replied[e] + Cardinality(RepliesOf(frames, e))]
  <1>1. y = [x EXCEPT !.replied = d]
    BY DEF CountReplies, RepliesOf
  <1>2. \A e \in Events : /\ Cardinality(RepliesOf(frames, e)) \in Nat
                          /\ \A c \in Nat : Added(c + Cardinality(RepliesOf(frames, e)), c, RepliesOf(frames, e))
    <2>1. Len(frames) \in Nat /\ DOMAIN frames = 1..Len(frames)
      BY SMT
    <2> QED BY <2>1, Counting DEF RepliesOf
  <1>3. x.replied \in [Events -> Nat]
    BY SMT DEF Histories
  <1>4. d \in [Events -> Nat]
    <2>1. \A e \in Events : x.replied[e] \in Nat /\ Cardinality(RepliesOf(frames, e)) \in Nat
      BY <1>2, <1>3
    <2>2. \A a, c \in Nat : a + c \in Nat
      BY SMT
    <2> QED BY <2>1, <2>2
  <1>5. \A e \in Events : d[e] = x.replied[e] + Cardinality(RepliesOf(frames, e))
    OBVIOUS
  <1> HIDE DEF d
  <1>6. /\ y \in Histories /\ y.replied = d
        /\ y.calls = x.calls /\ y.delivered = x.delivered /\ y.left = x.left
        /\ y.overlap = x.overlap /\ y.aborted = x.aborted /\ y.raced = x.raced
    BY SMT, <1>1, <1>4, HistoryReplied
  <1>7. \A e \in Events : Added(y.replied[e], x.replied[e], RepliesOf(frames, e))
    <2> SUFFICES ASSUME NEW e \in Events PROVE Added(y.replied[e], x.replied[e], RepliesOf(frames, e))
      OBVIOUS
    <2>1. x.replied[e] \in Nat
      BY <1>3
    <2> QED BY <1>2, <1>5, <1>6, <2>1
  <1> QED BY <1>6, <1>7

\* What Send does with the goroutine, the link and the history.
LEMMA SendMoves ==
  ASSUME Base, NEW t, Send(t), NEW r, r = Registered(t)
  PROVE  /\ t \in DOMAIN tasks /\ t.pc = "send" /\ Register(t)
         /\ link' \in {"up", "lost", "down"} /\ joined' \in BOOLEAN
         /\ \E S : /\ Moves(t, S) /\ \A u \in S : IsSent(u, t, r)
                   /\ \/ h' = h
                      \/ /\ h' = CountReplies(h, Frames(r))
                         /\ \A u \in S : u.pc # "buffer"
  <1>1. /\ t \in DOMAIN tasks /\ t.pc = "send" /\ Register(t) /\ UNCHANGED <<config, kind, ekind>>
    BY DEF Send, At
  <1>2. t \in Tasks /\ TaskOK(t) /\ IsBagOf(tasks, Tasks)
    BY <1>1, TaskFacts
  <1>3. r \in Tasks /\ r.m = t.m /\ r.reply = t.reply
    BY <1>1, RegisterForm
  <1>4. LinkOK
    BY DEF Base
  <1>5. \A u \in Timers(t) : IsSent(u, t, r) /\ u.pc = "sleep"
    <2> SUFFICES ASSUME NEW u \in Timers(t) PROVE IsSent(u, t, r) /\ u.pc = "sleep"
      OBVIOUS
    <2>1. NeedsAck(t) /\ u = To(r, "sleep")
      BY DEF Timers
    <2>2. u \in Tasks /\ u.pc = "sleep" /\ u.m = r.m /\ u.id = r.id /\ u.reply = r.reply
      BY SMT, <1>3, <2>1, Places DEF To, Tasks
    <2> QED BY <1>3, <2>1, <2>2 DEF IsSent
  <1>6. Timers(t) \subseteq Tasks
    BY <1>5 DEF IsSent
  <1>7. CASE Becomes(t, Timers(t)) /\ UNCHANGED <<link, joined, h>>
    <2>1. Moves(t, Timers(t))
      BY <1>1, <1>2, <1>6, <1>7, BecomesMoves
    <2> QED BY <1>1, <1>4, <1>5, <1>7, <2>1 DEF LinkOK
  <1>8. CASE state # "disconnected" /\ SendBuffers(t)
    <2>1. Packet(t, Timers(t), Frames(r)) /\ h' = CountReplies(h, Frames(r))
      BY <1>8 DEF SendBuffers
    <2>2. Frames(r) \in Seq(FrameSet) /\ \A k \in DOMAIN Frames(r) : Frames(r)[k].m = r.m /\ Frames(r)[k].id = r.id /\ Frames(r)[k].reply = r.reply
      BY <1>3, FramesForm
    <2>3. link' \in {"up", "lost", "down"} /\ joined' \in BOOLEAN
      BY <1>1, <1>2, <1>4, <1>6, <2>1, <2>2, PacketMoves
    <2>4. PICK X : Moves(t, Timers(t) \cup X) /\ \A u \in X : IsAckOf(u, Frames(r))
      BY <1>1, <1>2, <1>4, <1>6, <2>1, <2>2, PacketMoves
    <2>5. \A u \in X : IsSent(u, t, r) /\ u.pc = "onAck"
      <3> SUFFICES ASSUME NEW u \in X PROVE IsSent(u, t, r) /\ u.pc = "onAck"
        OBVIOUS
      <3>1. /\ u \in Tasks /\ u.pc = "onAck" /\ u.reply = FALSE /\ u.id # None
            /\ \E k \in DOMAIN Frames(r) : ~Frames(r)[k].reply /\ u.m = Frames(r)[k].m /\ u.id = Frames(r)[k].id
        BY <2>4 DEF IsAckOf
      <3>2. u.m = r.m /\ u.id = r.id /\ ~r.reply
        BY <2>2, <3>1
      <3>3. t.reply = FALSE
        BY <1>2, <1>3, <3>2, TaskForms
      <3> QED BY <1>3, <3>1, <3>2, <3>3 DEF IsSent
    <2> DEFINE S == Timers(t) \cup X
    <2>6. Moves(t, S) /\ \A u \in S : IsSent(u, t, r) /\ u.pc # "buffer"
      BY <1>5, <2>4, <2>5
    <2> HIDE DEF S
    <2> QED BY <1>1, <2>1, <2>3, <2>6
  <1>9. CASE state = "disconnected" /\ SendBuffers(t)
    <2> DEFINE S == Timers(t) \cup IF ~t.reply /\ kind[t.m] = "volatile" THEN {} ELSE {To(r, "buffer")}
    <2>1. Becomes(t, S) /\ UNCHANGED <<link, joined, h>>
      BY <1>9 DEF SendBuffers
    <2>2. IsSent(To(r, "buffer"), t, r)
      <3> DEFINE u == To(r, "buffer")
      <3>1. u \in Tasks /\ u.pc = "buffer" /\ u.m = r.m /\ u.id = r.id /\ u.reply = r.reply
        BY SMT, <1>3, Places DEF To, Tasks
      <3> HIDE DEF u
      <3>2. IsSent(u, t, r)
        BY <1>3, <3>1 DEF IsSent
      <3> QED BY <3>2 DEF u
    <2>3. \A u \in S : IsSent(u, t, r)
      BY <1>5, <2>2
    <2> HIDE DEF S
    <2>4. Moves(t, S)
      BY <1>1, <1>2, <2>1, <2>3, BecomesMoves DEF IsSent
    <2> QED BY <1>1, <1>4, <2>1, <2>3, <2>4 DEF LinkOK
  <1> QED BY <1>7, <1>8, <1>9 DEF Send

\* Send registers the handler, and sends the frames or will buffer them.
LEMMA SendDoing ==
  ASSUME Base, NEW t, Send(t) PROVE SendDoes(t)
  <1>1. PICK r : r = Registered(t)
    OBVIOUS
  <1>2. /\ t \in DOMAIN tasks /\ t.pc = "send" /\ Register(t)
        /\ link' \in {"up", "lost", "down"} /\ joined' \in BOOLEAN
    BY <1>1, SendMoves
  <1>3. PICK S : /\ Moves(t, S) /\ \A u \in S : IsSent(u, t, r)
                 /\ \/ h' = h
                    \/ h' = CountReplies(h, Frames(r)) /\ \A u \in S : u.pc # "buffer"
    BY <1>1, SendMoves
  <1>4. /\ r \in Tasks /\ r.m = t.m /\ r.reply = t.reply
        /\ NeedsAck(t) => /\ t.reply = FALSE /\ r.id = nextId /\ nextId \in Ids /\ nextId' = nextId + 1
                          /\ handler' = [handler EXCEPT ![nextId] = "live"] /\ acks' = acks \cup {nextId}
        /\ ~NeedsAck(t) => r = t /\ UNCHANGED ackVars
    BY <1>1, <1>2, RegisterForm
  <1>5. h' = CountReplies(h, Frames(r)) => Replied(Frames(r))
    <2>1. h \in Histories /\ Frames(r) \in Seq(FrameSet)
      BY <1>4, FramesForm DEF Base, HistoryOK
    <2> QED BY <2>1, CountForms DEF Replied
  <1>6. /\ UNCHANGED <<config, state, breaks, queue, queueMu, pending, tries, kind, ekind>> /\ UNCHANGED bufVars
        /\ spoiled' = spoiled \/ (spoiled' = spoiled \cup {t.m} /\ ~t.reply)
    BY DEF Send
  <1>7. LinkOK'
    BY <1>2, <1>6 DEF Base, LinkOK
  <1>8. UNCHANGED h \/ (Replied(Frames(r)) /\ \A u \in S : u.pc # "buffer")
    BY <1>3, <1>5
  <1> QED BY <1>2, <1>3, <1>4, <1>6, <1>7, <1>8 DEF SendDoes

\* What the loop leaves of the buffer.
LEMMA SelectsSubbuffer ==
  ASSUME NEW b \in Seq(FrameSet), NEW a \in Seq(FrameSet), Selects(b, Len(b), a, Len(a))
  PROVE  Subbuffer(b, a)
  <1>1. DOMAIN b = 1..Len(b) /\ DOMAIN a = 1..Len(a)
    BY SMT
  <1> QED BY <1>1 DEF Selects, Subbuffer

\* TimeOut removes frames, and calls the handler unless it panics.
LEMMA TimeOutDoing ==
  ASSUME Base, NEW t, TimeOut(t)
  PROVE  TimeOutDoes(t)
  <1>1. /\ t \in DOMAIN tasks /\ t.pc = "unbuffer" /\ ~sendMu /\ acks' = acks \ {t.id}
        /\ sendBuffer' = RemoveFrames(sendBuffer, t.id).buffer /\ sendMu' = RemoveFrames(sendBuffer, t.id).panic
        /\ UNCHANGED linkVars /\ UNCHANGED <<config, receiveBuffer, recvMu, nextId, handler, kind, ekind>>
        /\ \/ sendMu' /\ Becomes(t, {}) /\ UNCHANGED queueVars /\ UNCHANGED h
           \/ ~sendMu' /\ Called(t, TRUE)
    BY DEF TimeOut, At
  <1>2. IsBagOf(tasks, Tasks) /\ t.id \in Ids /\ t.m \in Emits /\ t.reply = FALSE
    BY <1>1, TaskFacts
  <1>5. /\ sendBuffer' \in Seq(FrameSet) /\ Subbuffer(sendBuffer', sendBuffer) /\ sendMu' \in BOOLEAN
        /\ sendBuffer = <<>> => sendBuffer' = <<>>
        /\ sendMu' => \E p, q \in DOMAIN sendBuffer : p # q /\ sendBuffer[p].id = t.id /\ sendBuffer[q].id = t.id
    <2>1. sendBuffer \in Seq(FrameSet)
      BY DEF Base, BuffersOK
    <2>2. PICK b : b = RemoveFrames(sendBuffer, t.id).buffer
      OBVIOUS
    <2>3. PICK p : p = RemoveFrames(sendBuffer, t.id).panic
      OBVIOUS
    <2>4. /\ b \in Seq(FrameSet) /\ Selects(b, Len(b), sendBuffer, Len(sendBuffer)) /\ p \in BOOLEAN
          /\ p => \E i, j \in DOMAIN sendBuffer : i # j /\ sendBuffer[i].id = t.id /\ sendBuffer[j].id = t.id
          /\ sendBuffer = <<>> => b = <<>>
      BY <2>1, <2>2, <2>3, RemoveFramesKeeps
    <2>5. Subbuffer(b, sendBuffer)
      BY <2>1, <2>4, SelectsSubbuffer
    <2>6. sendBuffer' = b /\ sendMu' = p
      BY <1>1, <2>2, <2>3
    <2> QED BY <2>4, <2>5, <2>6
  <1>3. CASE sendMu' /\ Becomes(t, {}) /\ UNCHANGED queueVars /\ UNCHANGED h
    <2>1. PICK S : S = {}
      OBVIOUS
    <2>2. Moves(t, S)
      BY <1>1, <1>2, <1>3, <2>1, BecomesMoves
    <2>3. Drains(S)
      BY <2>1 DEF Drains
    <2> QED BY <1>1, <1>2, <1>3, <1>5, <2>2, <2>3 DEF TimeOutDoes
  <1>4. CASE ~sendMu' /\ Called(t, TRUE)
    <2>1. /\ \E S : Moves(t, S) /\ Drains(S)
          /\ HandlerCalled(t, TRUE)
      BY <1>1, <1>4, CalledMoves
    <2> QED BY <1>1, <1>2, <1>4, <1>5, <2>1 DEF TimeOutDoes
  <1> QED BY <1>1, <1>3, <1>4

\* They connect the socket only with a goroutine that will flush its buffers.
LEMMA ConnDoing ==
  ASSUME Base, NEW t, Open \/ Break \/ OnClose \/ SendConnect(t) \/ OnConnect(t) PROVE ConnDoes
  <1>1. /\ UNCHANGED <<config, kind, ekind, h>> /\ UNCHANGED bufVars /\ UNCHANGED ackVars /\ UNCHANGED queueVars
        /\ \E w, S : /\ Moves(w, S) /\ w.pc \in {"none", "sendConnect", "onConnect"} /\ w.reply = FALSE
                     /\ \A u \in S : u \in Tasks /\ u.pc \in {"sendConnect", "onConnect", "flush"} /\ u.reply = FALSE
    BY ConnMoves
  <1>2. LinkOK /\ IsBagOf(tasks, Tasks)
    BY DEF Base, TasksOK
  <1>3. CASE Open
    <2>1. link' = "up" /\ state' = "pending" /\ UNCHANGED <<config, joined, breaks>>
      BY <1>3 DEF Open
    <2>2. LinkOK' /\ state' # "connected"
      BY <1>2, <2>1 DEF LinkOK
    <2> QED BY <1>1, <2>2 DEF ConnDoes
  <1>4. CASE Break
    <2>1. MoreActs /\ breaks' = breaks + 1 /\ link' = "lost" /\ joined' = FALSE /\ UNCHANGED <<config, state, tasks>>
      BY <1>4 DEF Break, Lost
    <2>2. breaks + 1 \in 0..MaxActs
      <3> DEFINE M == {m \in Emits : kind[m] # "none"}
                 E == {e \in Events : ekind[e] # "none"}
      <3>1. M \subseteq 1..MaxEmits /\ E \subseteq 1..MaxEvents
        BY DEF Emits, Events
      <3>2. Cardinality(M) + Cardinality(E) + breaks < MaxActs
        BY <2>1 DEF MoreActs
      <3> HIDE DEF M, E
      <3>3. Cardinality(M) \in Nat /\ Cardinality(E) \in Nat
        BY <3>1, EmitAssumption, Counting
      <3>4. breaks \in 0..MaxActs
        BY <1>2 DEF LinkOK
      <3> QED BY SMT, <3>2, <3>3, <3>4, EmitAssumption
    <2>3. LinkOK' /\ Flushing' = Flushing
      BY <1>2, <2>1, <2>2 DEF LinkOK, Flushing
    <2> QED BY <1>1, <2>1, <2>3 DEF ConnDoes
  <1>5. CASE OnClose
    <2>1. link' = "down" /\ state' = "disconnected" /\ UNCHANGED <<config, joined, breaks>>
      BY <1>5 DEF OnClose
    <2>2. LinkOK' /\ state' # "connected"
      BY <1>2, <2>1 DEF LinkOK
    <2> QED BY <1>1, <2>2 DEF ConnDoes
  <1>6. CASE SendConnect(t)
    <2> DEFINE u == To(t, "onConnect")
    <2>1. /\ t \in DOMAIN tasks /\ t.pc = "sendConnect" /\ joined' = (link = "up")
          /\ UNCHANGED <<config, link, state, breaks>> /\ \E S : S \subseteq {u} /\ Becomes(t, S)
      BY <1>6 DEF SendConnect, At
    <2>2. LinkOK'
      BY <1>2, <2>1 DEF LinkOK
    <2>8. t \in Tasks
      BY <2>1, TaskFacts
    <2>3. u \in Tasks
      BY SMT, <2>8, Places DEF To, Tasks
    <2>4. PICK S : S \subseteq Tasks /\ Becomes(t, S)
      BY <2>1, <2>3
    <2>5. Moves(t, S)
      BY <1>2, <2>1, <2>4, BecomesMoves
    <2>6. DOMAIN tasks \ {t} \subseteq DOMAIN tasks'
      BY <2>5 DEF Moves
    <2>7. ASSUME Flushing PROVE Flushing'
      <3>1. PICK v \in DOMAIN tasks : v.pc \in {"onConnect", "flush"}
        BY <2>7 DEF Flushing
      <3>2. v # t
        BY <2>1, <3>1
      <3>3. v \in DOMAIN tasks'
        BY <2>6, <3>1, <3>2
      <3> QED BY <3>1, <3>3 DEF Flushing
    <2> QED BY <1>1, <2>1, <2>2, <2>7 DEF ConnDoes
  <1>7. CASE OnConnect(t)
    <2> DEFINE u == To(t, "flush")
    <2>1. /\ t \in DOMAIN tasks /\ state' = "connected" /\ UNCHANGED <<config, link, joined, breaks>>
          /\ Becomes(t, {u})
      BY <1>7 DEF OnConnect, At
    <2>2. LinkOK'
      BY <1>2, <2>1 DEF LinkOK
    <2>8. t \in Tasks
      BY <2>1, TaskFacts
    <2>3. u \in Tasks /\ u.pc = "flush"
      BY SMT, <2>8, Places DEF To, Tasks
    <2> HIDE DEF u
    <2>4. {u} \subseteq Tasks
      BY <2>3
    <2>5. Moves(t, {u})
      BY <1>2, <2>1, <2>4, BecomesMoves
    <2>6. u \in DOMAIN tasks'
      BY <2>5 DEF Moves
    <2>7. Flushing'
      BY <2>3, <2>6 DEF Flushing
    <2> QED BY <1>1, <2>2, <2>7 DEF ConnDoes
  <1> QED BY <1>3, <1>4, <1>5, <1>6, <1>7

\* The counts of what is handed over and sent.
LEMMA FlushHistory ==
  ASSUME Base, NEW sent \in Seq(FrameSet), NEW aborts \in BOOLEAN,
         h' = CountReplies([h EXCEPT !.aborted = @ \/ aborts,
                                     !.delivered = [e \in Events |->
                                       @[e] + Cardinality({i \in DOMAIN Flushed : Flushed[i] = e})]], sent)
  PROVE  FlushCounts(sent, aborts)
  <1> DEFINE d == [e \in Events |-> h.delivered[e] + Cardinality(HandedOver(e))]
             b == h.aborted \/ aborts
             hd == [h EXCEPT !.aborted = b, !.delivered = d]
  <1>1. h \in Histories /\ receiveBuffer \in Seq(Events)
    BY DEF Base, HistoryOK, BuffersOK
  <1>2. h.delivered \in [Events -> Nat]
    BY SMT, <1>1 DEF Histories
  <1>11. \A e \in Events : /\ Cardinality(HandedOver(e)) \in Nat
                           /\ \A c \in Nat : Added(c + Cardinality(HandedOver(e)), c, HandedOver(e))
    <2> SUFFICES ASSUME NEW e \in Events
                 PROVE  /\ Cardinality(HandedOver(e)) \in Nat
                        /\ \A c \in Nat : Added(c + Cardinality(HandedOver(e)), c, HandedOver(e))
      OBVIOUS
    <2>1. Flushed \in Seq(Events)
      BY <1>1, FlushedForm
    <2>2. Len(Flushed) \in Nat /\ HandedOver(e) \subseteq 1..Len(Flushed)
      BY SMT, <2>1 DEF HandedOver
    <2> QED BY <2>2, Counting
  <1>3. d \in [Events -> Nat]
    <2>1. \A e \in Events : h.delivered[e] \in Nat /\ Cardinality(HandedOver(e)) \in Nat
      BY <1>2, <1>11
    <2>2. \A a, c \in Nat : a + c \in Nat
      BY SMT
    <2> QED BY <2>1, <2>2
  <1>4. b \in BOOLEAN
    OBVIOUS
  <1>5. h' = CountReplies(hd, sent)
    BY DEF HandedOver
  <1>6. \A e \in Events : d[e] = h.delivered[e] + Cardinality(HandedOver(e))
    OBVIOUS
  <1>7. b = (h.aborted \/ aborts)
    OBVIOUS
  <1> HIDE DEF d, b
  <1>8. /\ hd \in Histories /\ hd.delivered = d /\ hd.aborted = b
        /\ hd.calls = h.calls /\ hd.replied = h.replied /\ hd.left = h.left
        /\ hd.overlap = h.overlap /\ hd.raced = h.raced
    BY <1>1, <1>3, <1>4 DEF Histories
  <1> HIDE DEF hd
  <1>9. /\ h' \in Histories
        /\ \A e \in Events : Added(h'.replied[e], hd.replied[e], RepliesOf(sent, e))
        /\ h'.calls = hd.calls /\ h'.delivered = hd.delivered /\ h'.left = hd.left
        /\ h'.overlap = hd.overlap /\ h'.aborted = hd.aborted /\ h'.raced = hd.raced
    BY <1>5, <1>8, CountForms
  <1>10. \A e \in Events : Added(h'.delivered[e], h.delivered[e], HandedOver(e))
    <2> SUFFICES ASSUME NEW e \in Events PROVE Added(h'.delivered[e], h.delivered[e], HandedOver(e))
      OBVIOUS
    <2>1. h.delivered[e] \in Nat
      BY <1>2
    <2>2. h'.delivered[e] = h.delivered[e] + Cardinality(HandedOver(e))
      BY <1>6, <1>8, <1>9
    <2> QED BY <1>11, <2>1, <2>2
  <1> QED BY <1>7, <1>8, <1>9, <1>10 DEF FlushCounts

\* EmitBuffered, with the frames it sends and whether it returns early.
LEMMA EmitBufferedDoing ==
  ASSUME Base, NEW t, EmitBuffered(t)
  PROVE  EmitBufferedDoes(t)
  <1> DEFINE aborts == Flushed # <<>> /\ ekind[Flushed[Len(Flushed)]] = "acks"
             out == IF state # "disconnected" THEN FlushReplies ELSE <<>>
             kept == IF state # "disconnected" THEN sendBuffer ELSE sendBuffer \o FlushReplies
             rest == IF aborts THEN <<>> ELSE kept
             blocked == sendMu /\ (~aborts \/ kept # sendBuffer)
             sent == IF blocked THEN out ELSE out \o rest
             u == Task("drainForced", None, None)
             T == IF blocked THEN {} ELSE {u}
  <1>1. /\ t \in DOMAIN tasks /\ t.pc = "flush" /\ ~recvMu
        /\ UNCHANGED <<config, state, breaks, sendMu, kind, ekind>> /\ UNCHANGED ackVars /\ UNCHANGED queueVars
    BY DEF EmitBuffered, At
  <1>2. /\ receiveBuffer' = IF aborts THEN receiveBuffer ELSE <<>>
        /\ recvMu' = blocked
        /\ sendBuffer' = IF blocked THEN sendBuffer ELSE IF aborts THEN kept ELSE <<>>
    BY DEF EmitBuffered, KeptEvents
  <1>3. Packet(t, T, sent)
    BY DEF EmitBuffered
  <1>4. h' = CountReplies([h EXCEPT !.aborted = @ \/ aborts,
                                     !.delivered = [e \in Events |->
                                       @[e] + Cardinality({i \in DOMAIN Flushed : Flushed[i] = e})]], sent)
    BY DEF EmitBuffered
  <1>5. sendBuffer \in Seq(FrameSet) /\ receiveBuffer \in Seq(Events) /\ sendMu \in BOOLEAN
    BY DEF Base, BuffersOK
  <1>6. /\ Flushed \in Seq(Events) /\ (~aborts => Flushed = receiveBuffer)
    BY <1>5, FlushedForm
  <1>7. FlushReplies \in Seq(FrameSet)
    BY FlushRepliesForm
  <1>8. aborts \in BOOLEAN /\ blocked \in BOOLEAN /\ (blocked => sendMu) /\ (~aborts /\ sendMu => blocked)
    BY <1>5
  <1>9. \A s \in Seq(FrameSet) : s \o <<>> = s /\ <<>> \o s = s
    BY SMT
  <1>10. <<>> \in Seq(FrameSet) /\ sendBuffer \o FlushReplies \in Seq(FrameSet) /\ FlushReplies \o sendBuffer \in Seq(FrameSet)
    BY SMT, <1>5, <1>7
  <1> HIDE DEF aborts
  <1>11. /\ aborts => sent = <<>> \/ sent = FlushReplies
         /\ aborts => sendBuffer' = sendBuffer \/ sendBuffer' = sendBuffer \o FlushReplies
    BY <1>2, <1>7, <1>9, <1>10
  <1>12. ~aborts => \/ sent = FlushReplies \o sendBuffer /\ sendBuffer' = <<>>
                    \/ sent = sendBuffer \o FlushReplies /\ sendBuffer' = <<>>
                    \/ sent = FlushReplies /\ sendBuffer' = sendBuffer /\ sendMu
                    \/ sent = <<>> /\ sendBuffer' = sendBuffer /\ sendMu
    BY <1>2, <1>9, <1>10
  <1> HIDE DEF blocked, sent
  <1>13. sent \in Seq(FrameSet)
    BY <1>7, <1>10, <1>11, <1>12
  <1>14. FlushBuffers(sent, aborts)
    BY <1>2, <1>6, <1>8, <1>11, <1>12 DEF FlushBuffers
  <1>15. FlushCounts(sent, aborts)
    BY <1>4, <1>8, <1>13, FlushHistory
  <1>16. u \in Tasks /\ u.reply = FALSE /\ u.pc = "drainForced"
    BY SMT, Places DEF Task, Tasks, None
  <1> HIDE DEF u
  <1>17. T \subseteq Tasks /\ \A v \in T : v = u
    BY <1>16
  <1>18. IsBagOf(tasks, Tasks) /\ LinkOK
    BY DEF Base, TasksOK
  <1> HIDE DEF T
  <1>19. /\ link' \in {"up", "lost", "down"} /\ joined' \in BOOLEAN
         /\ \E X : Moves(t, T \cup X) /\ \A v \in X : IsAckOf(v, sent)
    BY <1>1, <1>3, <1>13, <1>17, <1>18, PacketMoves
  <1>20. PICK X : Moves(t, T \cup X) /\ \A v \in X : IsAckOf(v, sent)
    BY <1>19
  <1>21. PICK S : S = T \cup X
    OBVIOUS
  <1>22. Moves(t, S) /\ FlushTasks(S, sent)
    BY <1>16, <1>17, <1>20, <1>21 DEF FlushTasks, IsAckOf
  <1>23. LinkOK'
    BY <1>1, <1>18, <1>19 DEF LinkOK
  <1>24. FlushAnswers
    BY <1>5, FlushedForm, FlushRepliesForm DEF FlushAnswers
  <1> QED BY <1>1, <1>8, <1>13, <1>14, <1>15, <1>22, <1>23, <1>24 DEF EmitBufferedDoes

-----------------------------------------------------------------------------
(* The invariant, and the theorems.                                        *)

\* A step of clientSocket.emit and of the retry queue keeps the invariant.
LEMMA EmitStepInv ==
  ASSUME Inv, NEW t, EmitStep(t) PROVE Inv'
  <1>1. Base /\ Calls /\ Retry /\ Once /\ Stranded
    BY DEF Inv
  <1>2. CASE Drain(t)
    <2>1. DrainDoes(t)
      BY <1>1, <1>2, DrainDoing
    <2> QED BY <1>1, <2>1, DrainBase, OtherCalls, DrainRetry, OtherOnce, OtherStranded DEF Inv
  <1>3. CASE Send(t)
    <2>1. SendDoes(t)
      BY <1>1, <1>3, SendDoing
    <2> QED BY <1>1, <2>1, SendBase, SendCalls, SendRetry, SendOnce, SendStranded DEF Inv
  <1>4. CASE AppendSendBuffer(t)
    <2>1. AppendDoes(t)
      BY <1>1, <1>4, AppendDoing
    <2> QED BY <1>1, <2>1, AppendBase, OtherCalls, AppendRetry, AppendOnce, AppendStranded DEF Inv
  <1> QED BY <1>2, <1>3, <1>4 DEF EmitStep

\* A step of a timeout and of an ACK.
LEMMA AckStepInv ==
  ASSUME Inv, NEW t, AckStep(t) PROVE Inv'
  <1>1. Base /\ Calls /\ Retry /\ Once /\ Stranded
    BY DEF Inv
  <1>2. CASE Expire(t)
    <2>1. ExpireDoes(t)
      BY <1>1, <1>2, ExpireDoing
    <2> QED BY <1>1, <2>1, ExpireBase, ExpireCalls, ExpireRetry, OtherOnce, OtherStranded DEF Inv
  <1>3. CASE TimeOut(t)
    <2>1. TimeOutDoes(t)
      BY <1>1, <1>3, TimeOutDoing
    <2> QED BY <1>1, <2>1, TimeOutBase, TimeOutCalls, TimeOutRetry, TimeOutOnce, TimeOutStranded DEF Inv
  <1>4. CASE OnAck(t)
    <2>1. OnAckDoes(t)
      BY <1>1, <1>4, OnAckDoing
    <2> QED BY <1>1, <2>1, OnAckBase, OnAckCalls, OnAckRetry, OtherOnce, OtherStranded DEF Inv
  <1> QED BY <1>2, <1>3, <1>4 DEF AckStep

\* A step of the connection keeps the invariant.
LEMMA LinkStepInv ==
  ASSUME Inv, NEW t, Open \/ Break \/ OnClose \/ SendConnect(t) \/ OnConnect(t) PROVE Inv'
  <1>1. Base /\ Calls /\ Retry /\ Once /\ Stranded
    BY DEF Inv
  <1>2. ConnDoes
    BY <1>1, ConnDoing
  <1> QED BY <1>1, <1>2, ConnBase, OtherCalls, OtherRetry, OtherOnce, OtherStranded DEF Inv

\* And a step of a packet of the server.
LEMMA ConnStepInv ==
  ASSUME Inv, NEW t, ConnStep(t) PROVE Inv'
  <1>1. Base /\ Calls /\ Retry /\ Once /\ Stranded
    BY DEF Inv
  <1>2. CASE SendConnect(t) \/ OnConnect(t)
    BY <1>2, LinkStepInv
  <1>3. CASE EmitBuffered(t)
    <2>1. EmitBufferedDoes(t)
      BY <1>1, <1>3, EmitBufferedDoing
    <2> QED BY <1>1, <2>1, EmitBufferedBase, OtherCalls, EmitBufferedRetry, EmitBufferedOnce, EmitBufferedStranded
            DEF Inv
  <1>4. CASE OnEvent(t)
    <2>1. OnEventDoes(t)
      BY <1>1, <1>4, OnEventDoing
    <2> QED BY <1>1, <2>1, OnEventBase, OtherCalls, OtherRetry, OnEventOnce, OtherStranded DEF Inv
  <1>5. CASE BufferEvent(t)
    <2>1. BufferEventDoes(t)
      BY <1>1, <1>5, BufferEventDoing
    <2> QED BY <1>1, <2>1, BufferEventBase, OtherCalls, OtherRetry, BufferEventOnce, BufferEventStranded DEF Inv
  <1> QED BY <1>2, <1>3, <1>4, <1>5 DEF ConnStep

\* Every step of the socket, of its user, of the server and of the link keeps it.
LEMMA NextInv ==
  ASSUME Inv, [Next]_vars PROVE Inv'
  <1>1. Base /\ Calls /\ Retry /\ Once /\ Stranded
    BY DEF Inv
  <1>2. ASSUME NEW t \in DOMAIN tasks, Step(t) PROVE Inv'
    BY <1>2, EmitStepInv, AckStepInv, ConnStepInv DEF Step
  <1>3. ASSUME NEW m \in Emits, NEW k \in Emittable, Emit(m, k) PROVE Inv'
    <2>1. EmitDoes(m, k)
      BY <1>1, <1>3, EmitDoing
    <2> QED BY <1>1, <2>1, EmitBase, OtherCalls, EmitRetry, OtherOnce, OtherStranded DEF Inv
  <1>4. ASSUME config.retries = 0, NEW e \in Events, NEW k \in EventKinds, ServerEmit(e, k) PROVE Inv'
    <2>1. ServerEmitDoes(e, k)
      BY <1>1, <1>4, ServerEmitDoing
    <2> QED BY <1>1, <1>4, <2>1, ServerEmitBase, OtherCalls, OtherRetry, ServerEmitOnce, OtherStranded DEF Inv
  <1>5. CASE Open \/ Break \/ OnClose
    BY <1>5, LinkStepInv
  <1>6. CASE UNCHANGED vars
    BY <1>6, StutterInv
  <1> QED BY <1>2, <1>3, <1>4, <1>5, <1>6 DEF Next

\* The invariant holds in every state the client can reach.
LEMMA Invariant == Spec => []Inv
  <1>1. Init => Inv
    BY InitInv
  <1>2. Inv /\ [Next]_vars => Inv'
    BY NextInv
  <1> QED BY <1>1, <1>2, PTL DEF Spec

\* The state of the socket, of its buffers, of the acks and of the retry queue
\* has its type, whatever the goroutines do and in whatever order.
THEOREM TypeOKHolds == Spec => []TypeOK
  <1>1. Inv => TypeOK
    BY DEF Inv, Base, TasksOK, LinkOK, BuffersOK, AcksOK, QueueOK, KindsOK, TypeOK
  <1> QED BY <1>1, Invariant, PTL

\* Without a forced drain of a packet that waits for its ACK, replacementAck
\* removes the packet that was acknowledged or given up: none is dropped, none is
\* tried more than Retries + 1 times, and one attempt waits at a time.
THEOREM RetryQueueKeepsPacketsHolds == Spec => []RetryQueueKeepsPackets
  <1>1. Inv => RetryQueueKeepsPackets
    <2> SUFFICES ASSUME Inv, ~h.overlap
                 PROVE  /\ ~queueMu /\ \A m \in Emits : h.left[m] # "dropped"
                        /\ config.retries > 0 =>
                             /\ \A m \in Emits : tries[m] <= config.retries + 1
                             /\ \A i, j \in Ids : handler[i] = "live" /\ handler[j] = "live" => i = j
      BY DEF RetryQueueKeepsPackets
    <2>1. config.retries = 0 \/ config.retries > 0
      <3>1. config.retries \in Nat
        BY RetriesNat DEF Inv
      <3> QED BY SMT, <3>1
    <2>2. Retry
      BY DEF Inv
    <2>3. ~queueMu /\ \A m \in Emits : h.left[m] # "dropped"
      BY <2>1, <2>2 DEF Retry, Queueing
    <2>4. ASSUME config.retries > 0
          PROVE  /\ \A m \in Emits : tries[m] <= config.retries + 1
                 /\ \A i, j \in Ids : handler[i] = "live" /\ handler[j] = "live" => i = j
      BY <2>2, <2>4 DEF Retry, Queueing, Trying, Live
    <2> QED BY <2>3, <2>4
  <1> QED BY <1>1, Invariant, PTL

\* A socket that is connected and has flushed its buffers leaves no packet and no
\* event behind in them, but for the three ways that emitBuffered has to miss one.
THEOREM NothingStrandedHolds == Spec => []NothingStranded
  <1>1. Inv => NothingStranded
    BY DEF Inv, Stranded
  <1> QED BY <1>1, Invariant, PTL

\* The function of an ack is called at most once, by the timeout or by the ACK,
\* and an event reaches its handler once and is acknowledged once, unless an
\* aborted emitBuffered replays it.
THEOREM HandlersCalledOnceHolds == Spec => []HandlersCalledOnce
  <1>1. Inv => HandlersCalledOnce
    <2> SUFFICES ASSUME Inv PROVE HandlersCalledOnce
      OBVIOUS
    <2>1. \A i \in Ids : h.calls[i] <= 1
      BY DEF Inv, Calls
    <2>2. ASSUME ~h.aborted, NEW e \in Events PROVE h.delivered[e] <= 1 /\ h.replied[e] <= 1
      <3>1. h.delivered[e] <= 1 /\ h.replied[e] <= h.delivered[e]
        BY <2>2 DEF Inv, Once, EventsOnce, RepliesOnce
      <3>2. h.delivered[e] \in Nat /\ h.replied[e] \in Nat
        BY DEF Inv, Base, HistoryOK, Histories
      <3> QED BY SMT, <3>1, <3>2
    <2> QED BY <2>1, <2>2 DEF HandlersCalledOnce
  <1> QED BY <1>1, Invariant, PTL
=============================================================================
