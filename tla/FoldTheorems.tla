------------------------------ MODULE FoldTheorems ------------------------------
(***************************************************************************)
(* Induction over the positions of a sequence, and the functions that fold *)
(* one: recursive functions over 0 .. N exist and are what their equation  *)
(* says.  A predicate that is to hold at every position is given as the    *)
(* set of the positions where it holds.                                    *)
(***************************************************************************)
EXTENDS Integers, WellFoundedInduction, TLAPS

\* A set of numbers has a least element.
LEMMA LeastElement ==
  ASSUME NEW S \in SUBSET Nat, S # {}
  PROVE  \E i \in S : \A j \in S : i <= j
<1>1. PICK i \in S : \A j \in S : ~(<<j, i>> \in OpToRel(<, Nat))
  BY NatLessThanWellFounded, WFMin
<1>2. \A j \in S : ~(j < i)
  BY <1>1 DEF OpToRel
<1> QED
  BY <1>2

\* A set of positions that holds 0 and the successor of each of its members holds
\* them all.
LEMMA Upwards ==
  ASSUME NEW N \in Nat, NEW S, 0 \in S, \A n \in 0 .. N - 1 : n \in S => n + 1 \in S
  PROVE  \A n \in 0 .. N : n \in S
<1> SUFFICES ASSUME (0 .. N) \ S # {}
             PROVE  FALSE
  OBVIOUS
<1> DEFINE T == (0 .. N) \ S
<1>1. T \subseteq Nat /\ T # {}
  OBVIOUS
<1>2. PICK m \in T : \A n \in T : ~(<<n, m>> \in OpToRel(<, Nat))
  <2> HIDE DEF T
  <2> QED
    BY <1>1, NatLessThanWellFounded, WFMin
<1>3. \A n \in T : ~(n < m)
  BY <1>1, <1>2 DEF OpToRel
<1>4. m # 0
  OBVIOUS
<1>5. m - 1 \in 0 .. N - 1 /\ m - 1 \notin T
  BY <1>3, <1>4
<1>6. (m - 1) + 1 \in S
  BY <1>5
<1> QED
  BY <1>6

\* A fold that starts from v and takes the step F[n] at position n.
Folded(g, V, v, N, F) ==
  /\ g \in [0 .. N -> V]
  /\ g[0] = v
  /\ \A n \in 1 .. N : g[n] = F[n][g[n - 1]]

\* There is one.
LEMMA FoldExists ==
  ASSUME NEW V, NEW v \in V, NEW N \in Nat, NEW F \in [1 .. N -> [V -> V]]
  PROVE  \E g : Folded(g, V, v, N, F)
<1> DEFINE S == {m \in 0 .. N : \E g : Folded(g, V, v, m, F)}
<1>1. 0 \in S
  <2> DEFINE g == [n \in 0 .. 0 |-> v]
  <2>1. Folded(g, V, v, 0, F)
    BY DEF Folded
  <2> QED
    BY <2>1
<1>2. ASSUME NEW m \in 0 .. N - 1, m \in S
      PROVE  m + 1 \in S
  <2>1. PICK g : Folded(g, V, v, m, F)
    BY <1>2
  <2> DEFINE h == [n \in 0 .. m + 1 |-> IF n = m + 1 THEN F[m + 1][g[m]] ELSE g[n]]
  <2>2. /\ g \in [0 .. m -> V] /\ g[0] = v
        /\ \A n \in 1 .. m : g[n] = F[n][g[n - 1]]
    BY <2>1 DEF Folded
  <2>3. g[m] \in V /\ F[m + 1] \in [V -> V]
    BY <2>2
  <2>4. h \in [0 .. m + 1 -> V]
    BY <2>2, <2>3
  <2>5. h[0] = v
    BY <2>2
  <2>6. ASSUME NEW n \in 1 .. m + 1
        PROVE  h[n] = F[n][h[n - 1]]
    <3>1. CASE n = m + 1
      <4>1. h[n] = F[m + 1][g[m]] /\ h[n - 1] = g[m]
        BY <3>1
      <4> QED
        BY <3>1, <4>1
    <3>2. CASE n # m + 1
      <4>1. n \in 1 .. m /\ h[n] = g[n] /\ h[n - 1] = g[n - 1]
        BY <3>2
      <4> QED
        BY <2>2, <4>1
    <3> QED
      BY <3>1, <3>2
  <2>7. Folded(h, V, v, m + 1, F)
    <3> HIDE DEF h
    <3> QED
      BY <2>4, <2>5, <2>6 DEF Folded
  <2> QED
    BY <2>7
<1>3. \A m \in 0 .. N : m \in S
  <2> HIDE DEF S
  <2> QED
    BY <1>1, <1>2, Upwards
<1> QED
  BY <1>3

\* A recursive function whose step at n is defined on the values J[n - 1] that may have
\* come before it, and leads to a value of J[n].
FoldedThrough(g, v, N, F) ==
  /\ g = [n \in 0 .. N |-> g[n]]
  /\ g[0] = v
  /\ \A n \in 1 .. N : g[n] = F[n][g[n - 1]]

\* There is one.
LEMMA FoldThroughExists ==
  ASSUME NEW N \in Nat, NEW J, NEW v \in J[0], NEW F,
         \A n \in 1 .. N : F[n] \in [J[n - 1] -> J[n]]
  PROVE  \E g : FoldedThrough(g, v, N, F)
<1> DEFINE P(g, m) == /\ g = [n \in 0 .. m |-> g[n]]
                      /\ \A n \in 0 .. m : g[n] \in J[n]
                      /\ g[0] = v
                      /\ \A n \in 1 .. m : g[n] = F[n][g[n - 1]]
           S == {m \in 0 .. N : \E g : P(g, m)}
<1>1. 0 \in S
  <2> DEFINE g == [n \in 0 .. 0 |-> v]
  <2>1. P(g, 0)
    OBVIOUS
  <2>2. 0 \in 0 .. N
    OBVIOUS
  <2> HIDE DEF P, g
  <2> QED
    BY <2>1, <2>2
<1>2. ASSUME NEW m \in 0 .. N - 1, m \in S
      PROVE  m + 1 \in S
  <2>1. PICK g : P(g, m)
    BY <1>2
  <2> DEFINE h == [n \in 0 .. m + 1 |-> IF n = m + 1 THEN F[m + 1][g[m]] ELSE g[n]]
  <2>2. F[m + 1][g[m]] \in J[m + 1]
    <3>1. m + 1 \in 1 .. N /\ (m + 1) - 1 = m /\ g[m] \in J[m]
      BY <2>1
    <3>2. F[m + 1] \in [J[m] -> J[m + 1]]
      BY <3>1
    <3> QED
      BY <3>1, <3>2
  <2>3. h = [n \in 0 .. m + 1 |-> h[n]] /\ h[0] = v
    BY <2>1
  <2>4. \A n \in 0 .. m + 1 : h[n] \in J[n]
    BY <2>1, <2>2
  <2>5. ASSUME NEW n \in 1 .. m + 1
        PROVE  h[n] = F[n][h[n - 1]]
    <3>1. CASE n = m + 1
      <4>1. h[n] = F[m + 1][g[m]] /\ h[n - 1] = g[m]
        BY <3>1
      <4> QED
        BY <3>1, <4>1
    <3>2. CASE n # m + 1
      <4>1. n \in 1 .. m /\ h[n] = g[n] /\ h[n - 1] = g[n - 1]
        BY <3>2
      <4> QED
        BY <2>1, <4>1
    <3> QED
      BY <3>1, <3>2
  <2>6. P(h, m + 1)
    <3> HIDE DEF h
    <3> QED
      BY <2>3, <2>4, <2>5
  <2>7. m + 1 \in 0 .. N
    OBVIOUS
  <2> HIDE DEF P, h
  <2> QED
    BY <2>6, <2>7
<1>3. \A m \in 0 .. N : m \in S
  <2> HIDE DEF S
  <2> QED
    BY <1>1, <1>2, Upwards
<1>4. \E g : P(g, N)
  BY <1>3
<1> QED
  BY <1>4 DEF FoldedThrough

\* A set that holds the position behind the last, and each of which it holds all later
\* ones, holds them all.
LEMMA Downwards ==
  ASSUME NEW N \in Nat, NEW S, N + 1 \in S,
         \A i \in 1 .. N : (\A j \in i + 1 .. N + 1 : j \in S) => i \in S
  PROVE  \A i \in 1 .. N + 1 : i \in S
<1> DEFINE T == {n \in 0 .. N : \A j \in N + 1 - n .. N + 1 : j \in S}
<1>1. 0 \in T
  OBVIOUS
<1>2. \A n \in 0 .. N - 1 : n \in T => n + 1 \in T
  <2> SUFFICES ASSUME NEW n \in 0 .. N - 1, n \in T
               PROVE  n + 1 \in T
    OBVIOUS
  <2>1. N - n \in 1 .. N /\ \A j \in (N - n) + 1 .. N + 1 : j \in S
    OBVIOUS
  <2>2. N - n \in S
    BY <2>1
  <2>3. \A j \in N + 1 - (n + 1) .. N + 1 : j = N - n \/ j \in N + 1 - n .. N + 1
    OBVIOUS
  <2> QED
    BY <2>2, <2>3
<1> HIDE DEF T
<1>3. \A n \in 0 .. N : n \in T
  BY <1>1, <1>2, Upwards
<1>4. N \in T
  BY <1>3
<1> QED
  BY <1>4 DEF T

\* A function that is defined at each position from its value at a later one, t[i], by
\* the step F[i], and is v behind the last.
FoldedBack(g, V, v, N, t, F) ==
  /\ g \in [1 .. N + 1 -> V]
  /\ g[N + 1] = v
  /\ \A i \in 1 .. N : g[i] = F[i][g[t[i]]]

\* There is one.
LEMMA FoldBackExists ==
  ASSUME NEW V, NEW v \in V, NEW N \in Nat, NEW t \in [1 .. N -> 1 .. N + 1],
         \A i \in 1 .. N : t[i] > i, NEW F \in [1 .. N -> [V -> V]]
  PROVE  \E g : FoldedBack(g, V, v, N, t, F)
<1> DEFINE P(g, m) == /\ g \in [m .. N + 1 -> V]
                      /\ g[N + 1] = v
                      /\ \A i \in m .. N : g[i] = F[i][g[t[i]]]
           S == {n \in 0 .. N : \E g : P(g, N + 1 - n)}
<1>1. 0 \in S
  <2> DEFINE g == [i \in N + 1 .. N + 1 |-> v]
  <2>1. P(g, N + 1)
    OBVIOUS
  <2>2. N + 1 - 0 = N + 1
    OBVIOUS
  <2> HIDE DEF P
  <2>3. \E h : P(h, N + 1 - 0)
    BY <2>1, <2>2
  <2> QED
    BY <2>3
<1>2. \A n \in 0 .. N - 1 : n \in S => n + 1 \in S
  <2> SUFFICES ASSUME NEW n \in 0 .. N - 1, n \in S
               PROVE  \E h : P(h, N - n)
    OBVIOUS
  <2> DEFINE m == N - n
  <2>1. m \in 1 .. N /\ t[m] \in m + 1 .. N + 1 /\ N + 1 - n = m + 1
    OBVIOUS
  <2>2. PICK g : P(g, m + 1)
    BY <2>1
  <2> DEFINE h == [i \in m .. N + 1 |-> IF i = m THEN F[m][g[t[m]]] ELSE g[i]]
  <2> HIDE DEF m
  <2>3. F[m][g[t[m]]] \in V
    <3>1. g[t[m]] \in V
      BY <2>1, <2>2
    <3> QED
      BY <2>1, <3>1
  <2>4. h \in [m .. N + 1 -> V] /\ h[N + 1] = v
    BY <2>1, <2>2, <2>3
  <2>5. ASSUME NEW i \in m .. N
        PROVE  h[i] = F[i][h[t[i]]]
    <3>1. i \in 1 .. N /\ t[i] \in m + 1 .. N + 1
      BY <2>1
    <3>2. h[t[i]] = g[t[i]]
      BY <2>1, <3>1
    <3>3. CASE i = m
      BY <2>1, <3>2, <3>3
    <3>4. CASE i # m
      <4>1. i \in m + 1 .. N
        BY <2>1, <3>4
      <4> QED
        BY <2>1, <2>2, <3>2, <4>1
    <3> QED
      BY <3>3, <3>4
  <2>6. P(h, m)
    <3> HIDE DEF h
    <3> QED
      BY <2>4, <2>5
  <2> QED
    BY <2>6 DEF m
<1>3. \A n \in 0 .. N : n \in S
  <2> HIDE DEF S
  <2> QED
    BY <1>1, <1>2, Upwards
<1>4. \E g : P(g, 1)
  <2>1. N \in S /\ N + 1 - N = 1
    BY <1>3
  <2> QED
    BY <2>1
<1> QED
  BY <1>4 DEF FoldedBack
=============================================================================
