---------------------------- MODULE LoopTheorems ----------------------------
(***************************************************************************)
(* Induction on natural numbers for sets, and what it gives for the loops  *)
(* of the models: recursive functions over 0 .. n and the flattening of a  *)
(* sequence of sequences (FlattenSeq).                                     *)
(***************************************************************************)
EXTENDS Naturals, Sequences, SequencesExt, SequenceTheorems, WellFoundedInduction, TLAPS

----------------------------------------------------------------------------
(* Induction.  The hypothesis is a set, not a formula, so that the provers *)
(* can take any they are given.                                            *)

LEMMA LeastElement ==
    ASSUME NEW T, T \subseteq Nat, T # {}
    PROVE  \E x \in T : \A y \in T : x <= y
<1> DEFINE R == OpToRel(<, Nat)
<1>1. IsWellFoundedOn(R, Nat)
  BY NatLessThanWellFounded
<1>2. \A x, y \in Nat : y < x => <<y, x>> \in R
  BY DEF OpToRel
<1> HIDE DEF R
<1>3. PICK x \in T : \A y \in T : ~ (<<y, x>> \in R)
  BY <1>1, WFMin
<1>4. ASSUME NEW y \in T PROVE x <= y
  <2>1. x \in Nat /\ y \in Nat
    OBVIOUS
  <2>2. ~ (y < x)
    BY <1>2, <1>3, <2>1
  <2> QED BY <2>1, <2>2
<1> QED BY <1>4

LEMMA SetInduction ==
    ASSUME NEW S, 0 \in S, \A n \in Nat : n \in S => n + 1 \in S
    PROVE  Nat \subseteq S
<1> DEFINE T == {n \in Nat : n \notin S}
<1>1. SUFFICES ASSUME T # {} PROVE FALSE
  OBVIOUS
<1>2. PICK x \in T : \A y \in T : x <= y
  BY <1>1, LeastElement
<1>3. x # 0 /\ x - 1 \in Nat /\ x - 1 \notin T
  BY <1>2
<1> QED BY <1>2, <1>3

----------------------------------------------------------------------------
(* A loop: the value before the first turn, and what a turn does.          *)

\* The values of a loop up to turn n.
LoopsUpTo(S, first, F, n) ==
    {g \in [0 .. n -> S] : g[0] = first /\ \A k \in 0 .. n : k < n => g[k + 1] = F[<<k, g[k]>>]}

LEMMA LoopsUpToExist ==
    ASSUME NEW S, NEW first \in S, NEW F \in [Nat \X S -> S], NEW n \in Nat
    PROVE  LoopsUpTo(S, first, F, n) # {}
<1> DEFINE Good == {k \in Nat : LoopsUpTo(S, first, F, k) # {}}
<1>1. 0 \in Good
  <2>1. [k \in 0 .. 0 |-> first] \in LoopsUpTo(S, first, F, 0)
    BY DEF LoopsUpTo
  <2> QED BY <2>1
<1>2. ASSUME NEW k \in Nat, k \in Good PROVE k + 1 \in Good
  <2>1. PICK g \in [0 .. k -> S] :
            g[0] = first /\ \A j \in 0 .. k : j < k => g[j + 1] = F[<<j, g[j]>>]
    BY <1>2 DEF LoopsUpTo
  <2> DEFINE h == [j \in 0 .. k + 1 |-> IF j <= k THEN g[j] ELSE F[<<k, g[k]>>]]
  <2>2. h \in [0 .. k + 1 -> S]
    <3>1. <<k, g[k]>> \in Nat \X S
      OBVIOUS
    <3>2. F[<<k, g[k]>>] \in S
      BY <3>1
    <3> QED BY <3>2
  <2>3. ASSUME NEW j \in 0 .. k + 1, j < k + 1 PROVE h[j + 1] = F[<<j, h[j]>>]
    <3>1. CASE j < k
      BY <2>1, <2>3, <3>1
    <3>2. CASE j = k
      BY <2>3, <3>2
    <3> QED BY <2>3, <3>1, <3>2
  <2>4. h[0] = first
    BY <2>1
  <2> HIDE DEF h
  <2>5. h \in LoopsUpTo(S, first, F, k + 1)
    BY <2>2, <2>3, <2>4 DEF LoopsUpTo
  <2> QED BY <2>5
<1> HIDE DEF Good
<1>3. Nat \subseteq Good
  BY <1>1, <1>2, SetInduction
<1> QED BY <1>3 DEF Good

\* The values of a loop that does not end.
Loops(S, first, F) ==
    {f \in [Nat -> S] : f[0] = first /\ \A n \in Nat : f[n + 1] = F[<<n, f[n]>>]}

LEMMA LoopExists ==
    ASSUME NEW S, NEW first \in S, NEW F \in [Nat \X S -> S]
    PROVE  Loops(S, first, F) # {}
<1> DEFINE run(n) == CHOOSE g \in LoopsUpTo(S, first, F, n) : TRUE
           f == [n \in Nat |-> run(n)[n]]
<1>1. ASSUME NEW n \in Nat PROVE run(n) \in LoopsUpTo(S, first, F, n)
  BY LoopsUpToExist
<1>2. ASSUME NEW n \in Nat, NEW g \in LoopsUpTo(S, first, F, n)
      PROVE  /\ g \in [0 .. n -> S] /\ g[0] = first
             /\ \A k \in 0 .. n : k < n => g[k + 1] = F[<<k, g[k]>>]
  BY DEF LoopsUpTo
<1>6. \A n, m \in Nat : \A g \in LoopsUpTo(S, first, F, n), h \in LoopsUpTo(S, first, F, m) :
          \A k \in Nat : k <= n /\ k <= m => g[k] = h[k]
  <2> TAKE n, m \in Nat
  <2> TAKE g \in LoopsUpTo(S, first, F, n), h \in LoopsUpTo(S, first, F, m)
  <2> DEFINE Good == {j \in Nat : j <= n /\ j <= m => g[j] = h[j]}
  <2>0. /\ g[0] = first /\ \A j \in 0 .. n : j < n => g[j + 1] = F[<<j, g[j]>>]
        /\ h[0] = first /\ \A j \in 0 .. m : j < m => h[j + 1] = F[<<j, h[j]>>]
    BY DEF LoopsUpTo
  <2>1. 0 \in Good
    BY <2>0
  <2>2. ASSUME NEW j \in Nat, j \in Good PROVE j + 1 \in Good
    <3> SUFFICES ASSUME j + 1 <= n, j + 1 <= m PROVE g[j + 1] = h[j + 1]
      OBVIOUS
    <3>1. j \in 0 .. n /\ j \in 0 .. m /\ j < n /\ j < m /\ g[j] = h[j]
      BY <2>2
    <3> QED BY <2>0, <3>1
  <2> HIDE DEF Good
  <2>3. Nat \subseteq Good
    BY <2>1, <2>2, SetInduction
  <2> QED BY <2>3 DEF Good
<1> HIDE DEF run
<1>3. f \in [Nat -> S]
  BY <1>1, <1>2
<1>4. f[0] = first
  BY <1>1, <1>2
<1>5. ASSUME NEW n \in Nat PROVE f[n + 1] = F[<<n, f[n]>>]
  <2>1. run(n + 1)[n] = run(n)[n]
    <3>1. run(n) \in LoopsUpTo(S, first, F, n) /\ run(n + 1) \in LoopsUpTo(S, first, F, n + 1)
      BY <1>1
    <3>2. n <= n /\ n <= n + 1 /\ n + 1 \in Nat
      OBVIOUS
    <3> QED BY <1>6, <3>1, <3>2
  <2>2. run(n + 1)[n + 1] = F[<<n, run(n + 1)[n]>>]
    BY <1>1, <1>2
  <2> QED BY <2>1, <2>2
<1> HIDE DEF f
<1>7. f \in Loops(S, first, F)
  BY <1>3, <1>4, <1>5 DEF Loops
<1> QED BY <1>7

\* A loop of n turns, as the models write it.
Turns(S, first, F, n) ==
    {g \in [0 .. n -> S] : g[0] = first /\ \A k \in 1 .. n : g[k] = F[<<k, g[k - 1]>>]}

LEMMA LoopDefined ==
    ASSUME NEW S, NEW first \in S, NEW n \in Nat, NEW F \in [(1 .. n) \X S -> S]
    PROVE  Turns(S, first, F, n) # {}
<1> DEFINE G == [p \in Nat \X S |-> IF p[1] + 1 <= n THEN F[<<p[1] + 1, p[2]>>] ELSE p[2]]
<1>1. ASSUME NEW k \in Nat, NEW x \in S
      PROVE  G[<<k, x>>] = (IF k + 1 <= n THEN F[<<k + 1, x>>] ELSE x) /\ G[<<k, x>>] \in S
  <2>1. k + 1 <= n => k + 1 \in 1 .. n
    OBVIOUS
  <2> QED BY <2>1
<1>2. G \in [Nat \X S -> S]
  <2>1. \A p \in Nat \X S : G[p] \in S
    <3> TAKE p \in Nat \X S
    <3>1. p = <<p[1], p[2]>> /\ p[1] \in Nat /\ p[2] \in S
      OBVIOUS
    <3> QED BY <1>1, <3>1
  <2> QED BY <2>1
<1> HIDE DEF G
<1>3. PICK f \in [Nat -> S] : f[0] = first /\ \A k \in Nat : f[k + 1] = G[<<k, f[k]>>]
  <2>1. Loops(S, first, G) # {}
    BY <1>2, LoopExists
  <2> QED BY <2>1 DEF Loops
<1> DEFINE g == [k \in 0 .. n |-> f[k]]
<1>4. g \in [0 .. n -> S] /\ g[0] = first
  BY <1>3
<1>5. ASSUME NEW k \in 1 .. n PROVE g[k] = F[<<k, g[k - 1]>>]
  <2>1. k - 1 \in Nat /\ (k - 1) + 1 = k /\ (k - 1) + 1 <= n /\ k - 1 \in 0 .. n /\ k \in 0 .. n
    OBVIOUS
  <2>2. f[k - 1] \in S /\ f[(k - 1) + 1] = G[<<k - 1, f[k - 1]>>]
    BY <1>3, <2>1
  <2>3. G[<<k - 1, f[k - 1]>>] = F[<<(k - 1) + 1, f[k - 1]>>]
    BY <1>1, <2>1, <2>2
  <2> QED BY <2>1, <2>2, <2>3
<1> HIDE DEF g
<1>6. g \in Turns(S, first, F, n)
  BY <1>4, <1>5 DEF Turns
<1> QED BY <1>6

\* What holds before the first turn and after each holds after the last.
LEMMA LoopInduction ==
    ASSUME NEW S, NEW n \in Nat, NEW g, g[0] \in S,
           \A k \in 1 .. n : g[k - 1] \in S => g[k] \in S
    PROVE  \A k \in 0 .. n : g[k] \in S
<1> DEFINE Good == {k \in Nat : k <= n => g[k] \in S}
<1>1. 0 \in Good
  OBVIOUS
<1>2. ASSUME NEW k \in Nat, k \in Good PROVE k + 1 \in Good
  <2> SUFFICES ASSUME k + 1 <= n PROVE g[k + 1] \in S
    OBVIOUS
  <2>1. k + 1 \in 1 .. n /\ (k + 1) - 1 = k /\ g[k] \in S
    BY <1>2
  <2> QED BY <2>1
<1> HIDE DEF Good
<1>3. Nat \subseteq Good
  BY <1>1, <1>2, SetInduction
<1> QED BY <1>3 DEF Good

\* Two loops that begin alike and whose turns do the same.
Parallel(g, h, n) ==
    g[0] = h[0] /\ \A k \in 1 .. n : g[k - 1] = h[k - 1] => g[k] = h[k]

LEMMA SameTurns ==
    ASSUME NEW n \in Nat, NEW g, NEW h, Parallel(g, h, n)
    PROVE  \A k \in 0 .. n : g[k] = h[k]
<1> USE DEF Parallel
<1> DEFINE Good == {k \in Nat : k <= n => g[k] = h[k]}
<1>1. 0 \in Good
  OBVIOUS
<1>2. ASSUME NEW k \in Nat, k \in Good PROVE k + 1 \in Good
  <2> SUFFICES ASSUME k + 1 <= n PROVE g[k + 1] = h[k + 1]
    OBVIOUS
  <2>1. k + 1 \in 1 .. n /\ (k + 1) - 1 = k /\ g[k] = h[k]
    BY <1>2
  <2> QED BY <2>1
<1> HIDE DEF Good
<1>3. Nat \subseteq Good
  BY <1>1, <1>2, SetInduction
<1> QED BY <1>3 DEF Good

\* The same for what may be different after every turn.
LEMMA TurnInduction ==
    ASSUME NEW n \in Nat, NEW G, 0 \in G, \A k \in 1 .. n : k - 1 \in G => k \in G
    PROVE  0 .. n \subseteq G
<1> DEFINE Good == {k \in Nat : k <= n => k \in G}
<1>1. 0 \in Good
  OBVIOUS
<1>2. ASSUME NEW k \in Nat, k \in Good PROVE k + 1 \in Good
  <2> SUFFICES ASSUME k + 1 <= n PROVE k + 1 \in G
    OBVIOUS
  <2>1. k + 1 \in 1 .. n /\ (k + 1) - 1 = k /\ k \in G
    BY <1>2
  <2> QED BY <2>1
<1> HIDE DEF Good
<1>3. Nat \subseteq Good
  BY <1>1, <1>2, SetInduction
<1> QED BY <1>3 DEF Good

----------------------------------------------------------------------------
(* FlattenSeq.                                                             *)

LEMMA FlattenUnfold ==
    ASSUME NEW T, NEW seqs \in Seq(Seq(T)), Len(seqs) # 0
    PROVE  \E g \in [1 .. Len(seqs) -> Seq(T)] :
              /\ FlattenSeq(seqs) = g[Len(seqs)]
              /\ g[1] = seqs[1]
              /\ \A i \in 2 .. Len(seqs) : g[i] = g[i - 1] \o seqs[i]
<1> DEFINE n == Len(seqs)
           F == [p \in Nat \X Seq(T) |->
                    IF p[1] + 2 <= n THEN p[2] \o seqs[p[1] + 2] ELSE p[2]]
           Is(g) == g = [i \in 1 .. n |-> IF i = 1 THEN seqs[i] ELSE g[i - 1] \o seqs[i]]
<1>0. n \in Nat /\ n >= 1 /\ \A i \in 1 .. n : seqs[i] \in Seq(T)
  OBVIOUS
<1>1. F \in [Nat \X Seq(T) -> Seq(T)]
  <2>1. ASSUME NEW p \in Nat \X Seq(T)
        PROVE  (IF p[1] + 2 <= n THEN p[2] \o seqs[p[1] + 2] ELSE p[2]) \in Seq(T)
    <3> HIDE DEF n
    <3>1. p[1] \in Nat /\ p[2] \in Seq(T)
      OBVIOUS
    <3>2. p[1] + 2 <= n => seqs[p[1] + 2] \in Seq(T)
      BY <1>0, <3>1
    <3> QED BY <3>1, <3>2
  <2> QED BY <2>1
<1>2. \A k \in Nat, q \in Seq(T) : F[<<k, q>>] = IF k + 2 <= n THEN q \o seqs[k + 2] ELSE q
  <2> HIDE DEF n
  <2> QED OBVIOUS
<1>3. seqs[1] \in Seq(T)
  BY <1>0
<1> HIDE DEF F
<1>4. PICK f \in [Nat -> Seq(T)] :
          f[0] = seqs[1] /\ \A k \in Nat : f[k + 1] = F[<<k, f[k]>>]
  <2>1. Loops(Seq(T), seqs[1], F) # {}
    BY <1>1, <1>3, LoopExists
  <2> QED BY <2>1 DEF Loops
<1> DEFINE g0 == [i \in 1 .. n |-> f[i - 1]]
<1>5. Is(g0)
  <2> HIDE DEF n
  <2>1. ASSUME NEW i \in 1 .. n
        PROVE  g0[i] = IF i = 1 THEN seqs[i] ELSE g0[i - 1] \o seqs[i]
    <3>1. CASE i = 1
      BY <1>4, <3>1
    <3>2. CASE i # 1
      <4>1. i - 2 \in Nat /\ i - 2 + 2 <= n /\ (i - 2) + 1 = i - 1 /\ (i - 2) + 2 = i
            /\ i - 1 \in 1 .. n /\ (i - 1) - 1 = i - 2
        BY <1>0, <3>2
      <4>2. f[i - 1] = f[i - 2] \o seqs[i]
        <5>1. f[(i - 2) + 1] = F[<<i - 2, f[i - 2]>>] /\ f[i - 2] \in Seq(T)
          BY <1>4, <4>1
        <5>2. F[<<i - 2, f[i - 2]>>] = f[i - 2] \o seqs[(i - 2) + 2]
          BY <1>2, <4>1, <5>1
        <5> QED BY <4>1, <5>1, <5>2
      <4> QED BY <3>2, <4>1, <4>2
    <3> QED BY <3>1, <3>2
  <2> QED BY <2>1
<1> DEFINE flatten == CHOOSE g : Is(g)
<1>6. Is(flatten)
  <2> HIDE DEF Is
  <2> QED BY <1>5
<1>7. FlattenSeq(seqs) = flatten[n]
  BY DEF FlattenSeq
<1> HIDE DEF flatten, n
<1>8. \A i \in 1 .. n : flatten[i] = IF i = 1 THEN seqs[i] ELSE flatten[i - 1] \o seqs[i]
  BY <1>6
<1>9. DOMAIN flatten = 1 .. n
  BY <1>6
<1>10. \A i \in 1 .. n : flatten[i] \in Seq(T)
  <2> DEFINE Good == {k \in Nat : k + 1 \in 1 .. n => flatten[k + 1] \in Seq(T)}
  <2>1. 0 \in Good
    <3>1. 0 + 1 = 1 /\ 1 \in 1 .. n
      BY <1>0
    <3>2. flatten[1] = seqs[1] /\ seqs[1] \in Seq(T)
      BY <1>0, <1>8, <3>1
    <3> QED BY <3>1, <3>2
  <2>2. ASSUME NEW k \in Nat, k \in Good PROVE k + 1 \in Good
    <3> SUFFICES ASSUME (k + 1) + 1 \in 1 .. n PROVE flatten[(k + 1) + 1] \in Seq(T)
      OBVIOUS
    <3>1. k + 1 \in 1 .. n /\ flatten[k + 1] \in Seq(T) /\ seqs[(k + 1) + 1] \in Seq(T)
      BY <1>0, <2>2
    <3>2. flatten[(k + 1) + 1] = flatten[k + 1] \o seqs[(k + 1) + 1]
      <4>1. (k + 1) + 1 # 1 /\ ((k + 1) + 1) - 1 = k + 1
        OBVIOUS
      <4> QED BY <1>8, <4>1
    <3> QED BY <3>1, <3>2
  <2> HIDE DEF Good
  <2>3. Nat \subseteq Good
    BY <2>1, <2>2, SetInduction
  <2>4. ASSUME NEW i \in 1 .. n PROVE flatten[i] \in Seq(T)
    <3>1. i - 1 \in Nat /\ (i - 1) + 1 = i
      BY <1>0
    <3>2. i - 1 \in Good
      BY <2>3, <3>1
    <3> QED BY <3>1, <3>2 DEF Good
  <2> QED BY <2>4
<1>11. flatten \in [1 .. n -> Seq(T)]
  BY <1>6, <1>10
<1>12. flatten[1] = seqs[1] /\ \A i \in 2 .. n : flatten[i] = flatten[i - 1] \o seqs[i]
  <2>1. 1 \in 1 .. n /\ \A i \in 2 .. n : i \in 1 .. n /\ i # 1
    BY <1>0
  <2> QED BY <1>8, <2>1
<1> QED BY <1>7, <1>11, <1>12 DEF n

\* A sequence flattened holds members of its members only.
LEMMA FlattenTyped ==
    ASSUME NEW T, NEW seqs \in Seq(Seq(T))
    PROVE  FlattenSeq(seqs) \in Seq(T)
<1>1. CASE Len(seqs) = 0
  <2>1. FlattenSeq(seqs) = <<>>
    BY <1>1 DEF FlattenSeq
  <2> QED BY <2>1
<1>2. CASE Len(seqs) # 0
  <2>1. PICK g \in [1 .. Len(seqs) -> Seq(T)] : FlattenSeq(seqs) = g[Len(seqs)]
    BY <1>2, FlattenUnfold
  <2>2. Len(seqs) \in 1 .. Len(seqs)
    BY <1>2
  <2> QED BY <2>1, <2>2
<1> QED BY <1>1, <1>2

LEMMA ConcatCovers ==
    ASSUME NEW T, NEW s \in Seq(T), NEW t \in Seq(T), NEW e, Contains(s, e) \/ Contains(t, e)
    PROVE  Contains(s \o t, e)
<1>1. Len(s \o t) = Len(s) + Len(t) /\ Len(s) \in Nat /\ Len(t) \in Nat
  OBVIOUS
<1>2. ASSUME NEW j \in 1 .. Len(s), s[j] = e PROVE Contains(s \o t, e)
  <2>1. j \in 1 .. Len(s \o t) /\ (s \o t)[j] = e
    BY <1>1, <1>2
  <2> QED BY <2>1 DEF Contains
<1>3. ASSUME NEW j \in 1 .. Len(t), t[j] = e PROVE Contains(s \o t, e)
  <2>1. Len(s) + j \in 1 .. Len(s \o t) /\ (s \o t)[Len(s) + j] = e
    BY <1>1, <1>3
  <2> QED BY <2>1 DEF Contains
<1> QED BY <1>2, <1>3 DEF Contains

\* Nothing is lost by flattening.
LEMMA FlattenCovers ==
    ASSUME NEW T, NEW seqs \in Seq(Seq(T)), NEW k \in DOMAIN seqs, NEW e, Contains(seqs[k], e)
    PROVE  Contains(FlattenSeq(seqs), e)
<1> DEFINE n == Len(seqs)
<1>1. n \in Nat /\ n # 0 /\ k \in 1 .. n /\ \A i \in 1 .. n : seqs[i] \in Seq(T)
  OBVIOUS
<1>2. PICK g \in [1 .. n -> Seq(T)] :
          /\ FlattenSeq(seqs) = g[n] /\ g[1] = seqs[1]
          /\ \A i \in 2 .. n : g[i] = g[i - 1] \o seqs[i]
  BY <1>1, FlattenUnfold
<1> HIDE DEF n
<1>3. Contains(g[k], e)
  <2>1. CASE k = 1
    BY <1>2, <2>1
  <2>2. CASE k # 1
    <3>1. k \in 2 .. n /\ k - 1 \in 1 .. n
      BY <1>1, <2>2
    <3>2. g[k] = g[k - 1] \o seqs[k] /\ g[k - 1] \in Seq(T) /\ seqs[k] \in Seq(T)
      BY <1>1, <1>2, <3>1
    <3> QED BY <3>2, ConcatCovers
  <2> QED BY <2>1, <2>2
<1> DEFINE Good == {d \in Nat : k + d <= n => Contains(g[k + d], e)}
<1>4. 0 \in Good
  <2>1. k + 0 = k
    BY <1>1
  <2> QED BY <1>3, <2>1
<1>5. ASSUME NEW d \in Nat, d \in Good PROVE d + 1 \in Good
  <2> SUFFICES ASSUME k + (d + 1) <= n PROVE Contains(g[k + (d + 1)], e)
    OBVIOUS
  <2>1. /\ k + (d + 1) \in 2 .. n /\ k + d <= n /\ (k + (d + 1)) - 1 = k + d
        /\ k + d \in 1 .. n /\ k + (d + 1) \in 1 .. n
    BY <1>1, SMTT(60)
  <2>2. Contains(g[k + d], e)
    BY <1>5, <2>1
  <2>3. g[k + (d + 1)] = g[k + d] \o seqs[k + (d + 1)]
        /\ g[k + d] \in Seq(T) /\ seqs[k + (d + 1)] \in Seq(T)
    BY <1>1, <1>2, <2>1
  <2> QED BY <2>2, <2>3, ConcatCovers
<1> HIDE DEF Good
<1>6. Nat \subseteq Good
  BY <1>4, <1>5, SetInduction
<1>7. n - k \in Nat /\ k + (n - k) = n /\ k + (n - k) <= n
  BY <1>1
<1>8. n - k \in Good
  BY <1>6, <1>7
<1>9. Contains(g[n], e)
  BY <1>7, <1>8 DEF Good
<1> QED BY <1>2, <1>9
=============================================================================
