--------------------------- MODULE TextLayoutProofs ---------------------------
(***************************************************************************)
(* What measuring, truncating and wrapping do to every text.               *)
(***************************************************************************)
EXTENDS TextLayout, FoldTheorems, SequenceTheorems, FiniteSetTheorems

-----------------------------------------------------------------------------
(* Measuring *)

\* A character lies inside the text, and all but its first byte continue it.
LEMMA DecodeShape ==
  ASSUME NEW s \in Seq(Bytes), NEW i \in 1 .. Len(s)
  PROVE  /\ Decode(s, i).bytes \in 1 .. 4 /\ Decode(s, i).columns \in 0 .. 2
         /\ i + Decode(s, i).bytes \in i + 1 .. Len(s) + 1
         /\ \A j \in i + 1 .. i + Decode(s, i).bytes - 1 : s[j] = "c"
<1>1. Length(s[i]) \in 1 .. 4 /\ CpColumns(s[i]) \in 0 .. 2
  BY DEF Length, CpColumns
<1>2. CASE Valid(s, i)
  <2>1. Decode(s, i).bytes = Length(s[i]) /\ Decode(s, i).columns = CpColumns(s[i])
    BY <1>2 DEF Decode
  <2> QED
    BY <1>1, <1>2, <2>1 DEF Valid
<1>3. CASE ~Valid(s, i)
  <2>1. Decode(s, i).bytes = 1 /\ Decode(s, i).columns = 1
    BY <1>3 DEF Decode
  <2> QED
    BY <2>1
<1> QED
  BY <1>2, <1>3

\* Where the character at each byte ends.
NextOf(s) == [i \in 1 .. Len(s) |-> i + Decode(s, i).bytes]

LEMMA NextIsLater ==
  ASSUME NEW s \in Seq(Bytes)
  PROVE  /\ NextOf(s) \in [1 .. Len(s) -> 1 .. Len(s) + 1]
         /\ \A i \in 1 .. Len(s) : NextOf(s)[i] > i
<1>1. \A i \in 1 .. Len(s) : i + Decode(s, i).bytes \in i + 1 .. Len(s) + 1
  BY DecodeShape
<1>2. \A i \in 1 .. Len(s) : NextOf(s)[i] = i + Decode(s, i).bytes
  BY DEF NextOf
<1>3. Len(s) \in Nat
  OBVIOUS
<1>4. \A i \in 1 .. Len(s) : i + Decode(s, i).bytes \in 1 .. Len(s) + 1 /\ i + Decode(s, i).bytes > i
  BY <1>1, <1>3
<1>5. NextOf(s) \in [1 .. Len(s) -> 1 .. Len(s) + 1]
  BY <1>4 DEF NextOf
<1> QED
  BY <1>2, <1>4, <1>5

\* ColumnsFrom is the recursive function it is written as.
LEMMA ColumnsAre ==
  ASSUME NEW s \in Seq(Bytes)
  PROVE  /\ ColumnsFrom(s) \in [1 .. Len(s) + 1 -> Nat]
         /\ ColumnsFrom(s)[Len(s) + 1] = 0
         /\ \A i \in 1 .. Len(s) :
              ColumnsFrom(s)[i] = Decode(s, i).columns + ColumnsFrom(s)[i + Decode(s, i).bytes]
<1> DEFINE N == Len(s)
           F == [i \in 1 .. N |-> [n \in Nat |-> Decode(s, i).columns + n]]
           Eq(g) == g = [i \in 1 .. N + 1 |->
                           IF i > N THEN 0 ELSE Decode(s, i).columns + g[i + Decode(s, i).bytes]]
           from == CHOOSE g : Eq(g)
<1>1. N \in Nat
  OBVIOUS
<1>2. \A i \in 1 .. N : Decode(s, i).columns \in Nat /\ i + Decode(s, i).bytes \in 1 .. N + 1
  <2> SUFFICES ASSUME NEW i \in 1 .. N
               PROVE  Decode(s, i).columns \in Nat /\ i + Decode(s, i).bytes \in 1 .. N + 1
    OBVIOUS
  <2>1. Decode(s, i).columns \in 0 .. 2 /\ i + Decode(s, i).bytes \in i + 1 .. N + 1
    BY DecodeShape
  <2> QED
    BY <1>1, <2>1
<1>3. F \in [1 .. N -> [Nat -> Nat]]
  BY <1>2
<1>4. PICK g : FoldedBack(g, Nat, 0, N, NextOf(s), F)
  <2> HIDE DEF F
  <2> QED
    BY <1>1, <1>3, NextIsLater, FoldBackExists
<1>5. /\ g \in [1 .. N + 1 -> Nat] /\ g[N + 1] = 0
      /\ \A i \in 1 .. N : g[i] = Decode(s, i).columns + g[i + Decode(s, i).bytes]
  <2>1. /\ g \in [1 .. N + 1 -> Nat] /\ g[N + 1] = 0
        /\ \A i \in 1 .. N : g[i] = F[i][g[NextOf(s)[i]]]
    BY <1>4 DEF FoldedBack
  <2>2. ASSUME NEW i \in 1 .. N
        PROVE  g[i] = Decode(s, i).columns + g[i + Decode(s, i).bytes]
    <3>1. NextOf(s)[i] = i + Decode(s, i).bytes /\ g[i + Decode(s, i).bytes] \in Nat
      BY <1>2, <2>1 DEF NextOf
    <3> QED
      BY <2>1, <3>1
  <2> QED
    BY <2>1, <2>2
<1>6. Eq(g)
  <2>1. g = [i \in 1 .. N + 1 |-> g[i]]
    BY <1>5
  <2>2. \A i \in 1 .. N + 1 :
          g[i] = IF i > N THEN 0 ELSE Decode(s, i).columns + g[i + Decode(s, i).bytes]
    BY <1>1, <1>5
  <2> QED
    BY <2>1, <2>2
<1>7. Eq(from)
  <2> HIDE DEF Eq
  <2> QED
    BY <1>6
<1>8. ColumnsFrom(s) = from
  BY DEF ColumnsFrom
<1> HIDE DEF from
<1>9. /\ from[N + 1] = 0
      /\ \A i \in 1 .. N : from[i] = Decode(s, i).columns + from[i + Decode(s, i).bytes]
  <2>1. N + 1 \in 1 .. N + 1 /\ N + 1 > N /\ \A i \in 1 .. N : i \in 1 .. N + 1 /\ ~(i > N)
    BY <1>1
  <2> QED
    BY <1>7, <2>1
<1>10. from \in [1 .. N + 1 -> Nat]
  <2> DEFINE S == {i \in 1 .. N + 1 : from[i] = g[i]}
  <2>1. N + 1 \in S
    BY <1>1, <1>5, <1>9
  <2>2. ASSUME NEW i \in 1 .. N, \A j \in i + 1 .. N + 1 : j \in S
        PROVE  i \in S
    <3>1. i + Decode(s, i).bytes \in i + 1 .. N + 1
      BY DecodeShape
    <3>2. from[i + Decode(s, i).bytes] = g[i + Decode(s, i).bytes]
      BY <2>2, <3>1
    <3>3. from[i] = g[i]
      BY <1>5, <1>9, <3>2
    <3> QED
      BY <1>1, <3>3
  <2>3. \A i \in 1 .. N + 1 : i \in S
    <3> HIDE DEF S, N
    <3> QED
      BY <1>1, <2>1, <2>2, Downwards
  <2>4. from = [i \in 1 .. N + 1 |-> from[i]]
    BY <1>7
  <2>5. \A i \in 1 .. N + 1 : from[i] \in Nat
    BY <1>5, <2>3
  <2> QED
    BY <2>4, <2>5
<1> QED
  BY <1>8, <1>9, <1>10

LEMMA WidthIsNat ==
  ASSUME NEW s \in Seq(Bytes)
  PROVE  Width(s) \in Nat
<1>1. 1 \in 1 .. Len(s) + 1
  OBVIOUS
<1> QED
  BY <1>1, ColumnsAre DEF Width

\* So is BoundariesFrom.
LEMMA BoundariesAre ==
  ASSUME NEW s \in Seq(Bytes)
  PROVE  /\ BoundariesFrom(s) \in [1 .. Len(s) + 1 -> SUBSET Nat]
         /\ BoundariesFrom(s)[Len(s) + 1] = {Len(s)}
         /\ \A i \in 1 .. Len(s) :
              BoundariesFrom(s)[i] = {i - 1} \cup BoundariesFrom(s)[i + Decode(s, i).bytes]
<1> DEFINE N == Len(s)
           V == SUBSET Nat
           F == [i \in 1 .. N |-> [B \in V |-> {i - 1} \cup B]]
           Eq(g) == g = [i \in 1 .. N + 1 |->
                           {i - 1} \cup (IF i > N THEN {} ELSE g[i + Decode(s, i).bytes])]
           from == CHOOSE g : Eq(g)
<1>1. N \in Nat
  OBVIOUS
<1>2. \A i \in 1 .. N : i + Decode(s, i).bytes \in 1 .. N + 1
  <2> SUFFICES ASSUME NEW i \in 1 .. N
               PROVE  i + Decode(s, i).bytes \in 1 .. N + 1
    OBVIOUS
  <2>1. i + Decode(s, i).bytes \in i + 1 .. N + 1
    BY DecodeShape
  <2> QED
    BY <1>1, <2>1
<1>3. F \in [1 .. N -> [V -> V]] /\ {N} \in V
  <2>1. \A i \in 1 .. N : \A B \in V : {i - 1} \cup B \in V
    OBVIOUS
  <2> QED
    BY <1>1, <2>1
<1>4. PICK g : FoldedBack(g, V, {N}, N, NextOf(s), F)
  <2> HIDE DEF F, V
  <2> QED
    BY <1>1, <1>3, NextIsLater, FoldBackExists
<1>5. /\ g \in [1 .. N + 1 -> V] /\ g[N + 1] = {N}
      /\ \A i \in 1 .. N : g[i] = {i - 1} \cup g[i + Decode(s, i).bytes]
  <2>1. /\ g \in [1 .. N + 1 -> V] /\ g[N + 1] = {N}
        /\ \A i \in 1 .. N : g[i] = F[i][g[NextOf(s)[i]]]
    BY <1>4 DEF FoldedBack
  <2>2. ASSUME NEW i \in 1 .. N
        PROVE  g[i] = {i - 1} \cup g[i + Decode(s, i).bytes]
    <3>1. NextOf(s)[i] = i + Decode(s, i).bytes /\ g[i + Decode(s, i).bytes] \in V
      BY <1>2, <2>1 DEF NextOf
    <3>2. \A B \in V : F[i][B] = {i - 1} \cup B
      OBVIOUS
    <3> HIDE DEF F, V
    <3> QED
      BY <2>1, <3>1, <3>2
  <2> QED
    BY <2>1, <2>2
<1>6. Eq(g)
  <2>1. g = [i \in 1 .. N + 1 |-> g[i]]
    BY <1>5
  <2>2. ASSUME NEW i \in 1 .. N + 1
        PROVE  g[i] = {i - 1} \cup (IF i > N THEN {} ELSE g[i + Decode(s, i).bytes])
    <3>1. CASE i > N
      <4>1. i = N + 1 /\ i - 1 = N
        BY <1>1, <3>1
      <4> QED
        BY <1>5, <3>1, <4>1
    <3>2. CASE ~(i > N)
      BY <1>1, <1>5, <3>2
    <3> QED
      BY <3>1, <3>2
  <2> QED
    BY <2>1, <2>2
<1>7. Eq(from)
  <2> HIDE DEF Eq
  <2> QED
    BY <1>6
<1>8. BoundariesFrom(s) = from
  BY DEF BoundariesFrom
<1> HIDE DEF from
<1>9. /\ from[N + 1] = {N}
      /\ \A i \in 1 .. N : from[i] = {i - 1} \cup from[i + Decode(s, i).bytes]
  <2>1. /\ N + 1 \in 1 .. N + 1 /\ N + 1 > N /\ (N + 1) - 1 = N
        /\ \A i \in 1 .. N : i \in 1 .. N + 1 /\ ~(i > N)
    BY <1>1
  <2> QED
    BY <1>7, <2>1
<1>10. from \in [1 .. N + 1 -> V]
  <2> DEFINE S == {i \in 1 .. N + 1 : from[i] = g[i]}
  <2> HIDE DEF V
  <2>1. N + 1 \in S
    <3>1. from[N + 1] = g[N + 1]
      BY <1>5, <1>9
    <3> QED
      BY <1>1, <3>1
  <2>2. ASSUME NEW i \in 1 .. N, \A j \in i + 1 .. N + 1 : j \in S
        PROVE  i \in S
    <3>1. i + Decode(s, i).bytes \in i + 1 .. N + 1
      BY DecodeShape
    <3>2. from[i + Decode(s, i).bytes] = g[i + Decode(s, i).bytes]
      BY <2>2, <3>1
    <3>3. from[i] = {i - 1} \cup from[i + Decode(s, i).bytes]
      BY <1>9
    <3>4. g[i] = {i - 1} \cup g[i + Decode(s, i).bytes]
      BY <1>5
    <3>5. from[i] = g[i]
      BY <3>2, <3>3, <3>4, Zenon
    <3> QED
      BY <1>1, <3>5
  <2>3. \A i \in 1 .. N + 1 : i \in S
    <3> HIDE DEF S, N
    <3> QED
      BY <1>1, <2>1, <2>2, Downwards
  <2>4. from = [i \in 1 .. N + 1 |-> from[i]]
    BY <1>7
  <2>5. \A i \in 1 .. N + 1 : from[i] \in V
    BY <1>5, <2>3
  <2> QED
    BY <2>4, <2>5
<1> QED
  BY <1>8, <1>9, <1>10

\* The recursive function of Truncate.
KeepFrom(s, max) ==
  CHOOSE keep :
    keep = [i \in 1 .. Len(s) + 1 |->
              [columns \in 0 .. max |->
                 IF i <= Len(s) /\ Fits(columns, Decode(s, i).columns, max)
                 THEN keep[i + Decode(s, i).bytes][columns + Decode(s, i).columns]
                 ELSE i - 1]]

LEMMA KeepIs ==
  ASSUME NEW s \in Seq(Bytes), NEW max \in Nat
  PROVE  \A columns \in 0 .. max :
           /\ KeepFrom(s, max)[Len(s) + 1][columns] = Len(s)
           /\ \A i \in 1 .. Len(s) :
                KeepFrom(s, max)[i][columns] =
                  IF columns + Decode(s, i).columns <= max
                  THEN KeepFrom(s, max)[i + Decode(s, i).bytes][columns + Decode(s, i).columns]
                  ELSE i - 1
<1> DEFINE N == Len(s)
           C == 0 .. max
           V == [C -> Nat]
           v == [columns \in C |-> N]
           Row(i, k) == [columns \in C |->
                           IF i <= N /\ Fits(columns, Decode(s, i).columns, max)
                           THEN k[columns + Decode(s, i).columns] ELSE i - 1]
           F == [i \in 1 .. N |-> [k \in V |-> Row(i, k)]]
           Eq(g) == g = [i \in 1 .. N + 1 |->
                           [columns \in C |->
                              IF i <= N /\ Fits(columns, Decode(s, i).columns, max)
                              THEN g[i + Decode(s, i).bytes][columns + Decode(s, i).columns]
                              ELSE i - 1]]
           keep == CHOOSE g : Eq(g)
<1>1. N \in Nat
  OBVIOUS
<1>2. \A i \in 1 .. N : i + Decode(s, i).bytes \in 1 .. N + 1 /\ Decode(s, i).columns \in Nat
  <2> SUFFICES ASSUME NEW i \in 1 .. N
               PROVE  i + Decode(s, i).bytes \in 1 .. N + 1 /\ Decode(s, i).columns \in Nat
    OBVIOUS
  <2>1. i + Decode(s, i).bytes \in i + 1 .. N + 1 /\ Decode(s, i).columns \in 0 .. 2
    BY DecodeShape
  <2> QED
    BY <1>1, <2>1
<1>3. F \in [1 .. N -> [V -> V]] /\ v \in V
  <2>1. ASSUME NEW i \in 1 .. N, NEW k \in V
        PROVE  Row(i, k) \in V
    <3>1. ASSUME NEW c \in C
          PROVE  (IF i <= N /\ Fits(c, Decode(s, i).columns, max)
                  THEN k[c + Decode(s, i).columns] ELSE i - 1) \in Nat
      <4>1. Fits(c, Decode(s, i).columns, max) => c + Decode(s, i).columns \in C
        BY <1>2 DEF Fits
      <4> QED
        BY <4>1
    <3> QED
      BY <3>1
  <2> HIDE DEF Row, V
  <2>2. F \in [1 .. N -> [V -> V]]
    BY <2>1
  <2>3. v \in V
    BY <1>1 DEF V
  <2> QED
    BY <2>2, <2>3
<1>4. PICK g : FoldedBack(g, V, v, N, NextOf(s), F)
  <2> HIDE DEF F, V, v
  <2> QED
    BY <1>1, <1>3, NextIsLater, FoldBackExists
<1>5. /\ g \in [1 .. N + 1 -> V] /\ g[N + 1] = v
      /\ \A i \in 1 .. N : g[i] = Row(i, g[i + Decode(s, i).bytes])
  <2>1. /\ g \in [1 .. N + 1 -> V] /\ g[N + 1] = v
        /\ \A i \in 1 .. N : g[i] = F[i][g[NextOf(s)[i]]]
    BY <1>4 DEF FoldedBack
  <2>2. ASSUME NEW i \in 1 .. N
        PROVE  g[i] = Row(i, g[i + Decode(s, i).bytes])
    <3> HIDE DEF V, Row
    <3>1. NextOf(s)[i] = i + Decode(s, i).bytes /\ g[i + Decode(s, i).bytes] \in V
      BY <1>2, <2>1 DEF NextOf
    <3>2. \A k \in V : F[i][k] = Row(i, k)
      OBVIOUS
    <3> HIDE DEF F
    <3> QED
      BY <2>1, <3>1, <3>2
  <2> QED
    BY <2>1, <2>2
<1>6. Eq(g)
  <2>1. g = [i \in 1 .. N + 1 |-> g[i]]
    BY <1>5
  <2>2. ASSUME NEW i \in 1 .. N + 1
        PROVE  g[i] = Row(i, g[i + Decode(s, i).bytes])
    <3>1. CASE i \in 1 .. N
      BY <1>5, <3>1
    <3>2. CASE i \notin 1 .. N
      <4>1. i = N + 1 /\ i - 1 = N /\ ~(i <= N)
        BY <1>1, <3>2
      <4>2. Row(i, g[i + Decode(s, i).bytes]) = [columns \in C |-> i - 1]
        BY <4>1
      <4> QED
        BY <1>5, <4>1, <4>2
    <3> QED
      BY <3>1, <3>2
  <2>3. g = [i \in 1 .. N + 1 |-> Row(i, g[i + Decode(s, i).bytes])]
    <3> HIDE DEF Row
    <3> QED
      BY <2>1, <2>2
  <2> QED
    BY <2>3
<1>7. Eq(keep)
  <2> HIDE DEF Eq
  <2> QED
    BY <1>6
<1>8. KeepFrom(s, max) = keep
  BY DEF KeepFrom
<1> HIDE DEF keep
<1>9. \A i \in 1 .. N + 1 : keep[i] = Row(i, keep[i + Decode(s, i).bytes])
  BY <1>7
<1> QED
  <2> SUFFICES ASSUME NEW c \in C
               PROVE  /\ keep[N + 1][c] = N
                      /\ \A i \in 1 .. N :
                           keep[i][c] = IF c + Decode(s, i).columns <= max
                                        THEN keep[i + Decode(s, i).bytes][c + Decode(s, i).columns]
                                        ELSE i - 1
    BY <1>8
  <2>1. N + 1 \in 1 .. N + 1 /\ ~(N + 1 <= N) /\ (N + 1) - 1 = N
        /\ \A i \in 1 .. N : i \in 1 .. N + 1 /\ i <= N
    BY <1>1
  <2>2. keep[N + 1][c] = N
    BY <1>9, <2>1
  <2>3. ASSUME NEW i \in 1 .. N
        PROVE  keep[i][c] = IF c + Decode(s, i).columns <= max
                            THEN keep[i + Decode(s, i).bytes][c + Decode(s, i).columns]
                            ELSE i - 1
    BY <1>9, <2>1 DEF Fits
  <2> QED
    BY <2>2, <2>3

\* Characters end behind where they start, and columns only get fewer.
LEMMA BoundaryShape ==
  ASSUME NEW s \in Seq(Bytes), NEW i \in 1 .. Len(s) + 1, NEW b \in BoundariesFrom(s)[i]
  PROVE  b \in i - 1 .. Len(s) /\ ColumnsFrom(s)[b + 1] <= ColumnsFrom(s)[i]
<1> DEFINE N == Len(s)
           Col == ColumnsFrom(s)
           Bnd == BoundariesFrom(s)
           S == {k \in 1 .. N + 1 : \A c \in Bnd[k] : c \in k - 1 .. N /\ Col[c + 1] <= Col[k]}
<1> HIDE DEF Col, Bnd
<1>1. N \in Nat
  OBVIOUS
<1>2. /\ Col \in [1 .. N + 1 -> Nat]
      /\ \A k \in 1 .. N : Col[k] = Decode(s, k).columns + Col[k + Decode(s, k).bytes]
  BY ColumnsAre DEF Col
<1>3. Bnd[N + 1] = {N} /\ \A k \in 1 .. N : Bnd[k] = {k - 1} \cup Bnd[k + Decode(s, k).bytes]
  BY BoundariesAre DEF Bnd
<1>4. N + 1 \in S
  <2>1. N + 1 \in 1 .. N + 1 /\ N \in (N + 1) - 1 .. N /\ Col[N + 1] <= Col[N + 1]
    BY <1>1, <1>2
  <2> QED
    BY <1>3, <2>1
<1>5. ASSUME NEW k \in 1 .. N, \A j \in k + 1 .. N + 1 : j \in S
      PROVE  k \in S
  <2> DEFINE n == k + Decode(s, k).bytes
  <2>1. n \in k + 1 .. N + 1 /\ Decode(s, k).columns \in 0 .. 2
    BY DecodeShape
  <2>2. n \in S
    BY <1>5, <2>1
  <2>3. Col[k] = Decode(s, k).columns + Col[n] /\ Bnd[k] = {k - 1} \cup Bnd[n]
    BY <1>2, <1>3
  <2>4. n \in 1 .. N + 1 /\ k \in 1 .. N + 1 /\ Col[n] \in Nat /\ Col[k] \in Nat
    BY <1>1, <1>2, <2>1
  <2> HIDE DEF n, N
  <2> SUFFICES ASSUME NEW c \in Bnd[k]
               PROVE  c \in k - 1 .. N /\ Col[c + 1] <= Col[k]
    BY <2>4
  <2>5. CASE c = k - 1
    <3>1. c + 1 = k
      BY <2>5
    <3> QED
      BY <1>1, <2>4, <2>5, <3>1
  <2>6. CASE c \in Bnd[n]
    <3>1. c \in n - 1 .. N /\ Col[c + 1] <= Col[n]
      BY <2>2, <2>6
    <3>2. c + 1 \in 1 .. N + 1
      BY <1>1, <2>4, <3>1
    <3>3. Col[c + 1] \in Nat
      BY <1>2, <3>2
    <3> QED
      BY <1>1, <2>1, <2>3, <2>4, <3>1, <3>3
  <2> QED
    BY <2>3, <2>5, <2>6
<1>6. \A k \in 1 .. N + 1 : k \in S
  <2> HIDE DEF S, N
  <2> QED
    BY <1>1, <1>4, <1>5, Downwards
<1> QED
  BY <1>6 DEF Col, Bnd

-----------------------------------------------------------------------------
(* The columns between two places in a text *)

\* A character is the same in a part of the text that holds it whole.
LEMMA DecodeInside ==
  ASSUME NEW t \in Seq(Bytes), NEW a \in 0 .. Len(t), NEW e \in a .. Len(t), NEW i \in 1 .. e - a,
         i + Decode(t, a + i).bytes <= e - a + 1
  PROVE  Decode(SubSeq(t, a + 1, e), i) = Decode(t, a + i)
<1> DEFINE s == SubSeq(t, a + 1, e)
<1>1. Len(s) = e - a /\ \A k \in 1 .. e - a : s[k] = t[a + k]
  <2>1. \A k \in 1 .. e - a : s[k] = t[(a + 1) + k - 1] /\ (a + 1) + k - 1 = a + k
    OBVIOUS
  <2> QED
    BY <2>1
<1>2. s[i] = t[a + i]
  BY <1>1
<1>3. Length(s[i]) = Length(t[a + i]) /\ Length(t[a + i]) \in 1 .. 4
  BY <1>2 DEF Length
<1> HIDE DEF s
<1>4. CASE Valid(t, a + i)
  <2>1. Decode(t, a + i) = [bytes |-> Length(t[a + i]), columns |-> CpColumns(t[a + i])]
    BY <1>4 DEF Decode
  <2>2. \A k \in a + i + 1 .. a + i + Length(t[a + i]) - 1 : t[k] = "c"
    BY <1>4 DEF Valid
  <2>3. ASSUME NEW j \in i + 1 .. i + Length(s[i]) - 1
        PROVE  s[j] = "c"
    <3>1. j \in 1 .. e - a /\ a + j \in a + i + 1 .. a + i + Length(t[a + i]) - 1
      BY <1>3, <2>1
    <3> QED
      BY <1>1, <2>2, <3>1
  <2>4. Valid(s, i)
    <3>1. i + Length(s[i]) - 1 <= Len(s)
      BY <1>1, <1>3, <2>1
    <3> QED
      BY <2>3, <3>1 DEF Valid
  <2>5. Decode(s, i) = [bytes |-> Length(s[i]), columns |-> CpColumns(s[i])]
    BY <2>4 DEF Decode
  <2> QED
    BY <1>2, <2>1, <2>5 DEF s
<1>5. CASE ~Valid(t, a + i)
  <2>1. ASSUME Valid(s, i)
        PROVE  Valid(t, a + i)
    <3>1. a + i + Length(t[a + i]) - 1 <= Len(t)
      BY <1>1, <1>3, <2>1 DEF Valid
    <3>2. ASSUME NEW k \in a + i + 1 .. a + i + Length(t[a + i]) - 1
          PROVE  t[k] = "c"
      <4>1. k - a \in i + 1 .. i + Length(s[i]) - 1 /\ k - a \in 1 .. e - a /\ a + (k - a) = k
        BY SMTT(20), <1>1, <1>3, <2>1 DEF Valid
      <4>2. s[k - a] = "c"
        BY <2>1, <4>1 DEF Valid
      <4> QED
        BY <1>1, <4>1, <4>2
    <3> QED
      BY <3>1, <3>2 DEF Valid
  <2> QED
    BY <1>5, <2>1 DEF Decode, s
<1> QED
  BY <1>4, <1>5

\* Columns are counted alike in a text and in a part of it, at the places of C from
\* each of which the next character leads to another one.
LEMMA ColumnsInside ==
  ASSUME NEW t \in Seq(Bytes), NEW a \in 0 .. Len(t), NEW e \in a .. Len(t), NEW C,
         \A i \in 1 .. e - a : i \in C =>
           /\ i + Decode(t, a + i).bytes <= e - a + 1
           /\ i + Decode(t, a + i).bytes \in C
  PROVE  \A i \in 1 .. e - a + 1 : i \in C =>
           ColumnsFrom(t)[a + i] = ColumnsFrom(SubSeq(t, a + 1, e))[i] + ColumnsFrom(t)[e + 1]
<1> DEFINE s == SubSeq(t, a + 1, e)
           N == e - a
           S == {i \in 1 .. N + 1 : i \in C =>
                   ColumnsFrom(t)[a + i] = ColumnsFrom(s)[i] + ColumnsFrom(t)[e + 1]}
<1>1. s \in Seq(Bytes) /\ Len(s) = N
  <2>1. \A k \in a + 1 .. e : t[k] \in Bytes
    OBVIOUS
  <2> QED
    BY <2>1
<1>2. N \in Nat /\ a + (N + 1) = e + 1
  OBVIOUS
<1>3. N + 1 \in S
  <2>1. ColumnsFrom(s)[N + 1] = 0
    BY <1>1, ColumnsAre
  <2>2. ColumnsFrom(t)[e + 1] \in Nat
    <3>1. e + 1 \in 1 .. Len(t) + 1
      OBVIOUS
    <3> HIDE DEF s, N
    <3> QED
      BY <3>1, ColumnsAre
  <2> HIDE DEF s, N
  <2> QED
    BY <1>2, <2>1, <2>2
<1>4. ASSUME NEW i \in 1 .. N, \A j \in i + 1 .. N + 1 : j \in S
      PROVE  i \in S
  <2> SUFFICES ASSUME i \in C
               PROVE  ColumnsFrom(t)[a + i] = ColumnsFrom(s)[i] + ColumnsFrom(t)[e + 1]
    BY <1>2
  <2> DEFINE d == Decode(t, a + i)
  <2>1. a + i \in 1 .. Len(t)
    OBVIOUS
  <2>2. d.bytes \in 1 .. 4 /\ d.columns \in 0 .. 2
    BY <2>1, DecodeShape
  <2>3. Decode(s, i) = d
    BY DecodeInside
  <2>4. i + d.bytes \in i + 1 .. N + 1 /\ i + d.bytes \in C
    BY <2>2
  <2> HIDE DEF s, d, N
  <2>5. i + d.bytes \in S
    BY <1>4, <2>4
  <2>6. ColumnsFrom(t)[a + (i + d.bytes)] = ColumnsFrom(s)[i + d.bytes] + ColumnsFrom(t)[e + 1]
    BY <2>4, <2>5
  <2>7. ColumnsFrom(t)[a + i] = d.columns + ColumnsFrom(t)[(a + i) + d.bytes]
    BY <2>1, ColumnsAre DEF d
  <2>8. ColumnsFrom(s)[i] = d.columns + ColumnsFrom(s)[i + d.bytes]
    BY <1>1, <2>3, ColumnsAre
  <2>9. a + (i + d.bytes) = (a + i) + d.bytes
    BY <2>2
  <2>10. ColumnsFrom(s)[i + d.bytes] \in Nat /\ ColumnsFrom(t)[e + 1] \in Nat
    <3>1. i + d.bytes \in 1 .. Len(s) + 1
      BY <1>1, <1>2, <2>4
    <3>2. e + 1 \in 1 .. Len(t) + 1
      OBVIOUS
    <3> QED
      BY <1>1, <3>1, <3>2, ColumnsAre
  <2> QED
    BY <2>2, <2>6, <2>7, <2>8, <2>9, <2>10
<1>5. \A i \in 1 .. N + 1 : i \in S
  <2> HIDE DEF S, N
  <2> QED
    BY <1>2, <1>3, <1>4, Downwards
<1> QED
  BY <1>5

\* A part that no character straddles the end of.
EndsWhole(t, a, e) == e = a \/ e = Len(t) \/ t[e + 1] # "c"

LEMMA WidthIs ==
  ASSUME NEW t \in Seq(Bytes), NEW a \in 0 .. Len(t), NEW e \in a .. Len(t), EndsWhole(t, a, e)
  PROVE  /\ Width(SubSeq(t, a + 1, e)) \in Nat
         /\ ColumnsFrom(t)[a + 1] = Width(SubSeq(t, a + 1, e)) + ColumnsFrom(t)[e + 1]
<1> DEFINE C == 1 .. e - a + 1
<1>1. ASSUME NEW i \in 1 .. e - a
      PROVE  i + Decode(t, a + i).bytes <= e - a + 1 /\ i + Decode(t, a + i).bytes \in C
  <2> DEFINE d == Decode(t, a + i)
  <2>1. a + i \in 1 .. Len(t)
    OBVIOUS
  <2>2. /\ d.bytes \in 1 .. 4 /\ a + i + d.bytes <= Len(t) + 1
        /\ \A j \in a + i + 1 .. a + i + d.bytes - 1 : t[j] = "c"
    BY <2>1, DecodeShape
  <2> HIDE DEF d
  <2>3. a + i + d.bytes - 1 <= e
    <3>1. CASE e = Len(t)
      BY <2>2, <3>1
    <3>2. CASE t[e + 1] # "c"
      <4>1. e + 1 \notin a + i + 1 .. a + i + d.bytes - 1
        BY <2>2, <3>2
      <4> QED
        BY <2>2, <4>1
    <3> QED
      BY <3>1, <3>2 DEF EndsWhole
  <2> QED
    BY SMTT(20), <2>2, <2>3 DEF d
<1>2. ColumnsFrom(t)[a + 1] = ColumnsFrom(SubSeq(t, a + 1, e))[1] + ColumnsFrom(t)[e + 1]
  <2>1. 1 \in 1 .. e - a + 1 /\ 1 \in C
    OBVIOUS
  <2> HIDE DEF C
  <2> QED
    BY <1>1, <2>1, ColumnsInside
<1>3. Width(SubSeq(t, a + 1, e)) \in Nat
  <2>1. \A k \in a + 1 .. e : t[k] \in Bytes
    OBVIOUS
  <2>2. SubSeq(t, a + 1, e) \in Seq(Bytes)
    BY <2>1
  <2> QED
    BY <2>2, WidthIsNat
<1> QED
  BY <1>2, <1>3 DEF Width

\* The part before a character.
LEMMA WidthBefore ==
  ASSUME NEW s \in Seq(Bytes), NEW b \in BoundariesFrom(s)[1], b \in 0 .. Len(s)
  PROVE  /\ Width(SubSeq(s, 1, b)) \in Nat
         /\ ColumnsFrom(s)[1] = Width(SubSeq(s, 1, b)) + ColumnsFrom(s)[b + 1]
<1> DEFINE C == {i \in 1 .. b + 1 : b \in BoundariesFrom(s)[i]}
<1>1. ASSUME NEW i \in 1 .. b, i \in C
      PROVE  i + Decode(s, i).bytes <= b + 1 /\ i + Decode(s, i).bytes \in C
  <2> DEFINE n == i + Decode(s, i).bytes
  <2>1. n \in i + 1 .. Len(s) + 1
    BY DecodeShape
  <2>2. b \in BoundariesFrom(s)[n]
    <3>1. BoundariesFrom(s)[i] = {i - 1} \cup BoundariesFrom(s)[n]
      BY BoundariesAre
    <3> QED
      BY <1>1, <3>1
  <2>3. n <= b + 1
    BY <2>1, <2>2, BoundaryShape
  <2> QED
    BY <2>1, <2>2, <2>3
<1>2. 1 \in C
  OBVIOUS
<1> HIDE DEF C
<1>3. \A i \in 1 .. b - 0 : i \in C =>
           /\ i + Decode(s, 0 + i).bytes <= b - 0 + 1
           /\ i + Decode(s, 0 + i).bytes \in C
  BY <1>1
<1>4. \A i \in 1 .. b - 0 + 1 : i \in C =>
           ColumnsFrom(s)[0 + i] = ColumnsFrom(SubSeq(s, 0 + 1, b))[i] + ColumnsFrom(s)[b + 1]
  <2>1. 0 \in 0 .. Len(s) /\ b \in 0 .. Len(s)
    OBVIOUS
  <2> QED
    BY <1>3, <2>1, ColumnsInside, Zenon
<1>5. ColumnsFrom(s)[1] = ColumnsFrom(SubSeq(s, 1, b))[1] + ColumnsFrom(s)[b + 1]
  BY <1>2, <1>4
<1>6. Width(SubSeq(s, 1, b)) \in Nat
  <2>1. \A k \in 1 .. b : s[k] \in Bytes
    OBVIOUS
  <2>2. SubSeq(s, 1, b) \in Seq(Bytes)
    BY <2>1
  <2> QED
    BY <2>2, WidthIsNat
<1> QED
  BY <1>5, <1>6 DEF Width

\* Spaces have one column each.
LEMMA SpacesWidth ==
  ASSUME NEW s \in Seq(Bytes), NEW p \in 1 .. Len(s) + 1, NEW q \in p .. Len(s) + 1,
         \A k \in p .. q - 1 : s[k] = Space
  PROVE  ColumnsFrom(s)[p] = (q - p) + ColumnsFrom(s)[q]
<1> DEFINE Col == ColumnsFrom(s)
           S == {n \in 0 .. q - p : Col[q - n] = n + Col[q]}
<1> HIDE DEF Col
<1>1. /\ Col \in [1 .. Len(s) + 1 -> Nat]
      /\ \A k \in 1 .. Len(s) : Col[k] = Decode(s, k).columns + Col[k + Decode(s, k).bytes]
  BY ColumnsAre DEF Col
<1>2. 0 \in S
  BY <1>1
<1>3. ASSUME NEW n \in 0 .. (q - p) - 1, n \in S
      PROVE  n + 1 \in S
  <2> DEFINE k == q - (n + 1)
  <2>1. k \in p .. q - 1 /\ k \in 1 .. Len(s) /\ k + 1 = q - n
    OBVIOUS
  <2>2. s[k] = Space
    BY <2>1
  <2>3. Decode(s, k).bytes = 1 /\ Decode(s, k).columns = 1
    <3>1. Length(s[k]) = 1 /\ CpColumns(s[k]) = 1
      BY <2>2 DEF Length, CpColumns, Space, Newline
    <3>2. Valid(s, k)
      BY <2>1, <3>1 DEF Valid
    <3> QED
      BY <3>1, <3>2 DEF Decode
  <2>4. Col[k] = 1 + Col[k + 1]
    BY <1>1, <2>1, <2>3
  <2>5. Col[k + 1] = n + Col[q] /\ Col[q] \in Nat
    BY <1>1, <1>3, <2>1
  <2> QED
    BY <2>4, <2>5
<1>4. \A n \in 0 .. q - p : n \in S
  <2>1. q - p \in Nat
    OBVIOUS
  <2> HIDE DEF S
  <2> QED
    BY <1>2, <1>3, <2>1, Upwards
<1>5. q - p \in S /\ q - (q - p) = p
  BY <1>4
<1> QED
  BY <1>5 DEF Col

-----------------------------------------------------------------------------
(* Truncating *)

LEMMA KeepIsMaximal ==
  ASSUME NEW s \in Seq(Bytes), NEW max \in Nat, NEW i \in 1 .. Len(s) + 1, NEW c \in 0 .. max
  PROVE  /\ KeepFrom(s, max)[i][c] \in BoundariesFrom(s)[i]
         /\ c + (ColumnsFrom(s)[i] - ColumnsFrom(s)[KeepFrom(s, max)[i][c] + 1]) <= max
         /\ \A b \in BoundariesFrom(s)[i] :
              c + (ColumnsFrom(s)[i] - ColumnsFrom(s)[b + 1]) <= max => b <= KeepFrom(s, max)[i][c]
<1> DEFINE N == Len(s)
           Col == ColumnsFrom(s)
           Bnd == BoundariesFrom(s)
           keep == KeepFrom(s, max)
           Best(k, x) == /\ keep[k][x] \in Bnd[k]
                         /\ x + (Col[k] - Col[keep[k][x] + 1]) <= max
                         /\ \A b \in Bnd[k] : x + (Col[k] - Col[b + 1]) <= max => b <= keep[k][x]
           S == {k \in 1 .. N + 1 : \A x \in 0 .. max : Best(k, x)}
<1> HIDE DEF Col, Bnd, keep
<1>1. N \in Nat
  OBVIOUS
<1>2. /\ Col \in [1 .. N + 1 -> Nat] /\ Col[N + 1] = 0
      /\ \A k \in 1 .. N : Col[k] = Decode(s, k).columns + Col[k + Decode(s, k).bytes]
  BY ColumnsAre DEF Col
<1>3. Bnd[N + 1] = {N} /\ \A k \in 1 .. N : Bnd[k] = {k - 1} \cup Bnd[k + Decode(s, k).bytes]
  BY BoundariesAre DEF Bnd
<1>4. \A x \in 0 .. max :
        /\ keep[N + 1][x] = N
        /\ \A k \in 1 .. N :
             keep[k][x] = IF x + Decode(s, k).columns <= max
                          THEN keep[k + Decode(s, k).bytes][x + Decode(s, k).columns] ELSE k - 1
  BY KeepIs DEF keep
<1>5. \A k \in 1 .. N + 1 : \A b \in Bnd[k] : b \in k - 1 .. N /\ Col[b + 1] <= Col[k]
  BY BoundaryShape DEF Col, Bnd
<1>6. N + 1 \in S
  <2> HIDE DEF N
  <2> SUFFICES ASSUME NEW x \in 0 .. max
               PROVE  Best(N + 1, x)
    BY <1>1
  <2>1. keep[N + 1][x] = N /\ Bnd[N + 1] = {N} /\ Col[N + 1] = 0
    BY <1>2, <1>3, <1>4
  <2> QED
    BY <1>1, <2>1
<1>7. ASSUME NEW k \in 1 .. N, \A j \in k + 1 .. N + 1 : j \in S
      PROVE  k \in S
  <2> DEFINE d == Decode(s, k)
             n == k + d.bytes
  <2>1. n \in k + 1 .. N + 1 /\ d.columns \in 0 .. 2
    BY DecodeShape
  <2>2. n \in S
    BY <1>7, <2>1
  <2>3. Col[k] = d.columns + Col[n] /\ Bnd[k] = {k - 1} \cup Bnd[n]
    BY <1>2, <1>3
  <2>4. n \in 1 .. N + 1 /\ k \in 1 .. N + 1 /\ Col[n] \in Nat /\ Col[k] \in Nat
    BY <1>1, <1>2, <2>1
  <2> SUFFICES ASSUME NEW x \in 0 .. max
               PROVE  Best(k, x)
    BY <2>4
  <2>5. CASE x + d.columns <= max
    <3> DEFINE y == x + d.columns
    <3>1. y \in 0 .. max
      BY <2>1, <2>5
    <3>2. keep[k][x] = keep[n][y]
      BY <1>4, <2>5
    <3> HIDE DEF d, n, N
    <3>3. Best(n, y)
      BY <2>2, <3>1
    <3>4. keep[n][y] \in n - 1 .. N
      BY <1>5, <2>4, <3>3
    <3>5. Col[keep[n][y] + 1] \in Nat
      <4>1. keep[n][y] + 1 \in 1 .. N + 1
        BY SMTT(20), <1>1, <2>4, <3>4
      <4> QED
        BY <1>2, <4>1
    <3>6. keep[k][x] \in Bnd[k]
      BY <2>3, <3>2, <3>3
    <3>7. x + (Col[k] - Col[keep[k][x] + 1]) <= max
      <4>1. (x + d.columns) + (Col[n] - Col[keep[n][y] + 1]) <= max
        BY <3>3
      <4> QED
        BY SMTT(20), <2>1, <2>3, <2>4, <3>2, <3>5, <4>1
    <3>8. ASSUME NEW b \in Bnd[k], x + (Col[k] - Col[b + 1]) <= max
          PROVE  b <= keep[k][x]
      <4>1. CASE b = k - 1
        BY <1>1, <2>1, <3>2, <3>4, <4>1
      <4>2. CASE b \in Bnd[n]
        <5>1. Col[b + 1] \in Nat
          <6>1. b \in n - 1 .. N
            BY <1>5, <2>4, <4>2
          <6>2. b + 1 \in 1 .. N + 1
            BY <1>1, <2>4, <6>1
          <6> QED
            BY <1>2, <6>2
        <5>2. y + (Col[n] - Col[b + 1]) <= max
          <6> DEFINE u == Col[k]
                     v == Col[n]
                     w == Col[b + 1]
                     e == d.columns
          <6>1. u = e + v /\ u \in Nat /\ v \in Nat /\ w \in Nat /\ e \in 0 .. 2
            BY <2>1, <2>3, <2>4, <5>1
          <6>2. x + (u - w) <= max
            BY <3>8
          <6> HIDE DEF u, v, w, e
          <6>3. (x + e) + (v - w) <= max
            BY <6>1, <6>2
          <6> QED
            BY <6>3 DEF v, w, e
        <5> QED
          BY <3>2, <3>3, <4>2, <5>2
      <4> QED
        BY <2>3, <4>1, <4>2
    <3> QED
      BY <3>6, <3>7, <3>8
  <2>6. CASE ~(x + d.columns <= max)
    <3>1. keep[k][x] = k - 1
      BY <1>4, <2>6
    <3> HIDE DEF d, n, N
    <3>2. (k - 1) + 1 = k /\ k - 1 \in Bnd[k]
      BY <2>3
    <3>3. ASSUME NEW b \in Bnd[k], x + (Col[k] - Col[b + 1]) <= max
          PROVE  b <= k - 1
      <4>1. CASE b \in Bnd[n]
        <5>1. b \in n - 1 .. N /\ Col[b + 1] <= Col[n]
          BY <1>5, <2>4, <4>1
        <5>2. b + 1 \in 1 .. N + 1
          BY <1>1, <2>4, <5>1
        <5>3. Col[b + 1] \in Nat
          BY <1>2, <5>2
        <5> DEFINE u == Col[k]
                   v == Col[n]
                   w == Col[b + 1]
                   e == d.columns
        <5>4. /\ u = e + v /\ w <= v /\ ~(x + e <= max) /\ x + (u - w) <= max
              /\ u \in Nat /\ v \in Nat /\ w \in Nat /\ e \in 0 .. 2
          BY <2>1, <2>3, <2>4, <2>6, <3>3, <5>1, <5>3
        <5> HIDE DEF u, v, w, e
        <5> QED
          BY <5>4
      <4> QED
        BY <2>3, <4>1
    <3> QED
      BY <2>4, <3>1, <3>2, <3>3
  <2> QED
    BY <2>5, <2>6
<1>8. \A k \in 1 .. N + 1 : k \in S
  <2> HIDE DEF S, N
  <2> QED
    BY <1>1, <1>6, <1>7, Downwards
<1> QED
  BY <1>8 DEF Col, Bnd, keep

\* What is cut off is cut between characters, as late as the columns allow.
THEOREM TruncatesMaximally ==
  ASSUME NEW s \in Seq(Bytes), NEW max \in Nat \ {0}
  PROVE  TruncateMaximal(s, max)
<1> DEFINE kept == KeepFrom(s, max)[1][0]
           B == {b \in Boundaries(s) : Width(SubSeq(s, 1, b)) <= max}
<1>1. Truncate(s, max) = kept
  BY DEF Truncate, KeepFrom
<1>2. 1 \in 1 .. Len(s) + 1 /\ 0 \in 0 .. max
  OBVIOUS
<1>3. /\ kept \in BoundariesFrom(s)[1]
      /\ 0 + (ColumnsFrom(s)[1] - ColumnsFrom(s)[kept + 1]) <= max
      /\ \A b \in BoundariesFrom(s)[1] :
           0 + (ColumnsFrom(s)[1] - ColumnsFrom(s)[b + 1]) <= max => b <= kept
  BY <1>2, KeepIsMaximal
<1>4. ASSUME NEW b \in BoundariesFrom(s)[1]
      PROVE  /\ b \in Nat /\ Width(SubSeq(s, 1, b)) \in Nat
             /\ 0 + (ColumnsFrom(s)[1] - ColumnsFrom(s)[b + 1]) = Width(SubSeq(s, 1, b))
  <2>1. b \in 1 - 1 .. Len(s)
    BY <1>2, BoundaryShape
  <2>2. b \in 0 .. Len(s) /\ b + 1 \in 1 .. Len(s) + 1
    BY <2>1
  <2>3. ColumnsFrom(s)[b + 1] \in Nat
    BY <2>2, ColumnsAre
  <2> QED
    BY <2>2, <2>3, WidthBefore
<1> HIDE DEF kept
<1>5. kept \in B /\ \A b \in B : b <= kept
  BY <1>3, <1>4 DEF Boundaries
<1>6. \A b \in B : b \in Nat
  BY <1>4 DEF Boundaries
<1> HIDE DEF B
<1>7. \E x \in B : \A y \in B : x >= y
  BY <1>5, <1>6
<1>8. Max(B) \in B /\ \A y \in B : Max(B) >= y
  BY <1>7 DEF Max
<1>9. Max(B) = kept
  BY <1>5, <1>6, <1>8
<1> QED
  BY <1>1, <1>9 DEF TruncateMaximal, B

-----------------------------------------------------------------------------
(* Wrapping *)

\* The columns from p up to q, and whether a word begins in no two places of a .. b.
Between(s, p, q) == ColumnsFrom(s)[p] - ColumnsFrom(s)[q]
Single(s, a, b) == \A p, q \in a .. b : WordAt(s, p) /\ WordAt(s, q) => p = q

LineType == [first : Nat, last : Nat, columns : Nat]
Room(width, first, next, n) == Available(width, IF n = 1 THEN first ELSE next)

\* What holds of a line in a room, of two lines one after the other, and of all lines.
SoundLine(s, l, room) ==
  /\ l.first \in 1 .. Len(s) + 1 /\ l.last \in l.first - 1 .. Len(s)
  /\ l.last = Len(s) \/ IsBlank(s[l.last + 1])
  /\ \A k \in l.first .. l.last : s[k] # Newline
  /\ l.columns = Between(s, l.first, l.last + 1)
  /\ l.columns > room => Single(s, l.first, l.last)

Follows(s, l, start, room) ==
  /\ l.last < start
  /\ (\A k \in l.last + 1 .. start - 1 : s[k] # Newline) =>
       start \in 1 .. Len(s) /\ WordAt(s, start) /\ Between(s, l.first, WordEnd(s, start) + 1) > room

SoundLines(s, width, first, next, lines) ==
  /\ lines \in Seq(LineType)
  /\ \A n \in 1 .. Len(lines) : SoundLine(s, lines[n], Room(width, first, next, n))
  /\ \A n \in 1 .. Len(lines) - 1 :
       Follows(s, lines[n], lines[n + 1].first, Room(width, first, next, n))

OnLine(s, l, k) == l.first <= k /\ WordEnd(s, k) <= l.last
OnSome(s, lines, k) == \E n \in 1 .. Len(lines) : OnLine(s, lines[n], k)

\* Where the line under way began, and the line it would be.
Begun(st) == IF st.start > 0 THEN st.start ELSE st.segment
UnderWay(s, st) == Span(s, st.start, st.last, st.columns)

\* What the loop has done after the first i bytes.
WrapType ==
  [lines : Seq(LineType), indent : Nat, start : Nat, last : Nat, columns : Nat, segment : Nat]

WrapInvariant(s, width, first, next, i, st) ==
  /\ st \in WrapType
  /\ st.indent = IF st.lines = <<>> THEN first ELSE next
  /\ st.segment \in 1 .. i + 1
  /\ SoundLines(s, width, first, next, st.lines)
  /\ st.lines # <<>> =>
       Follows(s, st.lines[Len(st.lines)], Begun(st), Room(width, first, next, Len(st.lines)))
  /\ \A k \in 1 .. i : WordAt(s, k) =>
       OnSome(s, st.lines, k) \/ (st.start > 0 /\ OnLine(s, UnderWay(s, st), k))
  /\ st.start = 0 =>
       /\ st.columns = 0 /\ \A k \in st.segment .. i : s[k] = Space
       /\ st.segment = 1 \/ s[st.segment - 1] = Newline
  /\ st.start > 0 =>
       /\ SoundLine(s, UnderWay(s, st), Available(width, st.indent))
       /\ st.start <= i /\ st.start <= st.last
       /\ \A k \in st.last + 1 .. i : s[k] = Space
       /\ \A k \in i + 1 .. st.last : ~IsBlank(s[k]) /\ ~WordAt(s, k)

\* Columns add up along a text.
LEMMA BetweenAdds ==
  ASSUME NEW s \in Seq(Bytes),
         NEW p \in 1 .. Len(s) + 1, NEW q \in 1 .. Len(s) + 1, NEW r \in 1 .. Len(s) + 1
  PROVE  /\ Between(s, p, q) \in Int
         /\ Between(s, p, q) + Between(s, q, r) = Between(s, p, r)
<1>1. ColumnsFrom(s)[p] \in Nat /\ ColumnsFrom(s)[q] \in Nat /\ ColumnsFrom(s)[r] \in Nat
  BY ColumnsAre
<1> QED
  BY <1>1 DEF Between

\* The width of the bytes from p to q, when a blank or the end of the text follows.
LEMMA SpanWidth ==
  ASSUME NEW s \in Seq(Bytes), NEW p \in 1 .. Len(s) + 1, NEW q \in p - 1 .. Len(s),
         q = Len(s) \/ IsBlank(s[q + 1])
  PROVE  /\ Width(SubSeq(s, p, q)) \in Nat
         /\ Width(SubSeq(s, p, q)) = Between(s, p, q + 1)
<1> DEFINE a == p - 1
<1>1. a \in 0 .. Len(s) /\ q \in a .. Len(s) /\ a + 1 = p
  OBVIOUS
<1>2. EndsWhole(s, a, q)
  BY DEF EndsWhole, IsBlank, Space, Newline
<1> HIDE DEF a
<1>3. /\ Width(SubSeq(s, a + 1, q)) \in Nat
      /\ ColumnsFrom(s)[a + 1] = Width(SubSeq(s, a + 1, q)) + ColumnsFrom(s)[q + 1]
  BY <1>1, <1>2, WidthIs
<1>4. ColumnsFrom(s)[p] \in Nat /\ ColumnsFrom(s)[q + 1] \in Nat
  <2>1. q + 1 \in 1 .. Len(s) + 1
    OBVIOUS
  <2> QED
    BY <2>1, ColumnsAre
<1> QED
  BY <1>1, <1>3, <1>4 DEF Between

LEMMA SpacesBetween ==
  ASSUME NEW s \in Seq(Bytes), NEW p \in 1 .. Len(s) + 1, NEW q \in p .. Len(s) + 1,
         \A k \in p .. q - 1 : s[k] = Space
  PROVE  Between(s, p, q) = q - p
<1>1. ColumnsFrom(s)[p] \in Nat /\ ColumnsFrom(s)[q] \in Nat
  BY SMTT(20), ColumnsAre
<1> QED
  BY <1>1, SpacesWidth DEF Between

\* A word ends, within the text, where a blank or the end of the text follows.
LEMMA WordEnds ==
  ASSUME NEW s \in Seq(Bytes), NEW i \in 1 .. Len(s), ~IsBlank(s[i])
  PROVE  /\ WordEnd(s, i) \in i .. Len(s)
         /\ \A k \in i .. WordEnd(s, i) : ~IsBlank(s[k])
         /\ \A k \in i + 1 .. WordEnd(s, i) : ~WordAt(s, k)
         /\ WordEnd(s, i) = Len(s) \/ IsBlank(s[WordEnd(s, i) + 1])
<1> DEFINE Ends == {j \in i .. Len(s) : j = Len(s) \/ IsBlank(s[j + 1])}
<1>1. Ends \in SUBSET Nat /\ Len(s) \in Ends
  OBVIOUS
<1>2. PICK j \in Ends : \A k \in Ends : j <= k
  BY <1>1, LeastElement
<1>3. ASSUME NEW k \in i .. j, IsBlank(s[k])
      PROVE  FALSE
  <2>1. k - 1 \in i .. Len(s) /\ k - 1 < j /\ (k - 1) + 1 = k
    BY <1>2, <1>3
  <2>2. k - 1 \in Ends
    BY <1>3, <2>1
  <2>3. j <= k - 1
    BY <1>2, <2>2
  <2>4. j \in Nat /\ k - 1 \in Nat
    BY <1>1, <2>2
  <2> QED
    BY <2>1, <2>3, <2>4
<1>4. /\ j \in i .. Len(s)
      /\ \A k \in i .. j : ~IsBlank(s[k])
      /\ j = Len(s) \/ IsBlank(s[j + 1])
  BY <1>2, <1>3
<1> DEFINE e == WordEnd(s, i)
<1>5. /\ e \in i .. Len(s)
      /\ \A k \in i .. e : ~IsBlank(s[k])
      /\ e = Len(s) \/ IsBlank(s[e + 1])
  <2> HIDE DEF Ends
  <2> QED
    BY <1>4 DEF WordEnd
<1> HIDE DEF e
<1>6. ASSUME NEW k \in i + 1 .. e
      PROVE  ~WordAt(s, k)
  <2>1. k # 1 /\ k - 1 \in i .. e
    BY <1>5
  <2> QED
    BY <1>5, <2>1 DEF WordAt
<1> QED
  BY <1>5, <1>6 DEF e

\* A line behind the others.
LEMMA AppendSound ==
  ASSUME NEW s \in Seq(Bytes), NEW width, NEW first, NEW next, NEW lines, NEW l \in LineType,
         SoundLines(s, width, first, next, lines),
         SoundLine(s, l, Room(width, first, next, Len(lines) + 1)),
         lines # <<>> => Follows(s, lines[Len(lines)], l.first, Room(width, first, next, Len(lines)))
  PROVE  /\ SoundLines(s, width, first, next, Append(lines, l))
         /\ \A k : OnSome(s, lines, k) \/ OnLine(s, l, k) => OnSome(s, Append(lines, l), k)
<1> DEFINE n == Len(lines)
           more == Append(lines, l)
<1>1. lines \in Seq(LineType) /\ n \in Nat
  BY DEF SoundLines
<1>2. /\ more \in Seq(LineType) /\ Len(more) = n + 1
      /\ \A k \in 1 .. n : more[k] = lines[k]
      /\ more[n + 1] = l /\ more # <<>>
  BY <1>1
<1> HIDE DEF more
<1>3. ASSUME NEW k \in 1 .. Len(more)
      PROVE  SoundLine(s, more[k], Room(width, first, next, k))
  <2>1. CASE k = n + 1
    BY <1>2, <2>1
  <2>2. CASE k # n + 1
    <3>1. k \in 1 .. n
      BY <1>1, <1>2, <2>2
    <3> QED
      BY <1>2, <3>1 DEF SoundLines
  <2> QED
    BY <2>1, <2>2
<1>4. ASSUME NEW k \in 1 .. Len(more) - 1
      PROVE  Follows(s, more[k], more[k + 1].first, Room(width, first, next, k))
  <2>1. CASE k = n
    <3>1. n \in 1 .. n /\ lines # <<>>
      BY <1>1, <1>2, <2>1
    <3> QED
      BY <1>2, <2>1, <3>1
  <2>2. CASE k # n
    <3>1. k \in 1 .. n - 1 /\ k \in 1 .. n /\ k + 1 \in 1 .. n
      BY <1>1, <1>2, <2>2
    <3> QED
      BY <1>2, <3>1 DEF SoundLines
  <2> QED
    BY <2>1, <2>2
<1>5. ASSUME NEW k, OnSome(s, lines, k) \/ OnLine(s, l, k)
      PROVE  OnSome(s, more, k)
  <2>1. CASE OnLine(s, l, k)
    <3>1. n + 1 \in 1 .. Len(more)
      BY <1>1, <1>2
    <3> QED
      BY <1>2, <2>1, <3>1 DEF OnSome
  <2>2. CASE OnSome(s, lines, k)
    <3>1. PICK j \in 1 .. n : OnLine(s, lines[j], k)
      BY <2>2 DEF OnSome
    <3>2. j \in 1 .. Len(more) /\ more[j] = lines[j]
      BY <1>1, <1>2
    <3> QED
      BY <3>1, <3>2 DEF OnSome
  <2> QED
    BY <1>5, <2>1, <2>2
<1> QED
  BY <1>2, <1>3, <1>4, <1>5 DEF SoundLines, more

LEMMA RoomIs ==
  ASSUME NEW width \in Nat \ {0}, NEW first \in Nat, NEW next \in Nat
  PROVE  /\ \A n : Room(width, first, next, n) \in Nat
         /\ \A indent \in Nat : Available(width, indent) \in Nat
         /\ \A lines \in Seq(LineType) :
              Available(width, IF lines = <<>> THEN first ELSE next)
                = Room(width, first, next, Len(lines) + 1)
<1>1. \A indent \in Nat : Available(width, indent) \in Nat
  BY DEF Available
<1>2. \A n : Room(width, first, next, n) \in Nat
  BY <1>1 DEF Room
<1>3. ASSUME NEW lines \in Seq(LineType)
      PROVE  (lines = <<>>) <=> (Len(lines) + 1 = 1)
  OBVIOUS
<1> QED
  BY <1>1, <1>2, <1>3 DEF Room

\* The line under way is a line when its source line ends.
LEMMA EmittedIs ==
  ASSUME NEW s \in Seq(Bytes), NEW width \in Nat \ {0}, NEW first \in Nat, NEW next \in Nat,
         NEW i \in 1 .. Len(s) + 1, NEW st, WrapInvariant(s, width, first, next, i - 1, st),
         i = Len(s) + 1 \/ s[i] = Newline
  PROVE  /\ Emitted(s, st, i) \in LineType
         /\ SoundLine(s, Emitted(s, st, i), Room(width, first, next, Len(st.lines) + 1))
         /\ Emitted(s, st, i).first = Begun(st) /\ Emitted(s, st, i).last < i
         /\ \A k \in 1 .. i - 1 : WordAt(s, k) =>
              OnSome(s, st.lines, k) \/ OnLine(s, Emitted(s, st, i), k)
<1> DEFINE l == Emitted(s, st, i)
<1>1. st \in WrapType /\ st.segment \in 1 .. i
  BY DEF WrapInvariant
<1>2. Available(width, st.indent) = Room(width, first, next, Len(st.lines) + 1)
  BY <1>1, RoomIs DEF WrapInvariant, WrapType
<1>3. CASE st.start > 0
  <2>1. l = UnderWay(s, st) /\ Begun(st) = st.start
    BY <1>3 DEF Emitted, UnderWay, Begun
  <2>2. l = [first |-> st.start, last |-> st.last, columns |-> st.columns]
    BY <2>1 DEF UnderWay, Span
  <2>3. l \in LineType /\ l.first = st.start /\ l.last = st.last
    BY <1>1, <2>2 DEF WrapType, LineType
  <2>4. /\ SoundLine(s, l, Available(width, st.indent))
        /\ \A k \in (i - 1) + 1 .. st.last : ~IsBlank(s[k])
        /\ \A k \in 1 .. i - 1 : WordAt(s, k) => OnSome(s, st.lines, k) \/ OnLine(s, l, k)
    BY <1>3, <2>1 DEF WrapInvariant
  <2> HIDE DEF l
  <2>5. l.last \in Nat /\ l.last <= Len(s)
    BY <1>1, <2>3, <2>4 DEF SoundLine, WrapType
  <2>6. l.last < i
    <3>1. CASE i = Len(s) + 1
      BY <2>5, <3>1
    <3>2. CASE s[i] = Newline
      <4>1. i \notin (i - 1) + 1 .. st.last
        BY <2>4, <3>2 DEF IsBlank
      <4> QED
        BY <2>3, <2>5, <4>1
    <3> QED
      BY <3>1, <3>2
  <2> QED
    BY <1>2, <2>1, <2>3, <2>4, <2>6 DEF l
<1>4. CASE ~(st.start > 0)
  <2> DEFINE p == st.segment
             q == i - 1
  <2>1. st.start = 0
    BY <1>1, <1>4 DEF WrapType
  <2>2. \A k \in p .. q : s[k] = Space
    BY <2>1 DEF WrapInvariant
  <2>3. l = [first |-> p, last |-> q, columns |-> Width(SubSeq(s, p, q))] /\ Begun(st) = p
    BY <1>4 DEF Emitted, Span, Begun
  <2>4. p \in 1 .. Len(s) + 1 /\ q \in p - 1 .. Len(s) /\ q + 1 = i
    BY <1>1
  <2>5. q = Len(s) \/ IsBlank(s[q + 1])
    BY <2>4 DEF IsBlank
  <2>6. Width(SubSeq(s, p, q)) \in Nat /\ Width(SubSeq(s, p, q)) = Between(s, p, q + 1)
    <3> HIDE DEF p, q
    <3> QED
      BY <2>4, <2>5, SpanWidth
  <2>7. \A k \in p .. q : s[k] # Newline /\ ~WordAt(s, k)
    BY <2>2 DEF WordAt, IsBlank, Space, Newline
  <2>8. l \in LineType /\ l.first = p /\ l.last = q /\ l.columns = Width(SubSeq(s, p, q))
    <3>1. p \in Nat /\ q \in Nat
      BY <2>4
    <3> HIDE DEF l, p, q
    <3> QED
      BY <2>3, <2>6, <3>1 DEF LineType
  <2>9. \A k \in 1 .. i - 1 : WordAt(s, k) => OnSome(s, st.lines, k)
    BY <1>4 DEF WrapInvariant
  <2> HIDE DEF l, p, q
  <2>10. SoundLine(s, l, Room(width, first, next, Len(st.lines) + 1))
    BY <2>4, <2>5, <2>6, <2>7, <2>8 DEF SoundLine, Single
  <2> QED
    BY <2>3, <2>4, <2>8, <2>9, <2>10 DEF l, q
<1> QED
  BY <1>3, <1>4

LEMMA NewlineStep ==
  ASSUME NEW s \in Seq(Bytes), NEW width \in Nat \ {0}, NEW first \in Nat, NEW next \in Nat,
         NEW i \in 1 .. Len(s), NEW st, WrapInvariant(s, width, first, next, i - 1, st),
         s[i] = Newline
  PROVE  WrapInvariant(s, width, first, next, i, AtNewline(s, st, i, next))
<1> DEFINE l == Emitted(s, st, i)
           lines == st.lines
           more == Append(lines, l)
           st2 == AtNewline(s, st, i, next)
<1>1. /\ l \in LineType
      /\ SoundLine(s, l, Room(width, first, next, Len(lines) + 1))
      /\ l.first = Begun(st) /\ l.last < i
      /\ \A k \in 1 .. i - 1 : WordAt(s, k) => OnSome(s, lines, k) \/ OnLine(s, l, k)
  BY EmittedIs
<1>2. st2 = [lines |-> more, indent |-> next, start |-> 0, last |-> 0, columns |-> 0,
             segment |-> i + 1]
  BY DEF AtNewline
<1>3. /\ SoundLines(s, width, first, next, lines)
      /\ lines # <<>> =>
           Follows(s, lines[Len(lines)], Begun(st), Room(width, first, next, Len(lines)))
  BY DEF WrapInvariant
<1> HIDE DEF l, lines
<1>4. /\ SoundLines(s, width, first, next, more)
      /\ more # <<>> /\ Len(more) = Len(lines) + 1 /\ more[Len(lines) + 1] = l
      /\ \A k : OnSome(s, lines, k) \/ OnLine(s, l, k) => OnSome(s, more, k)
  <2>1. lines # <<>> =>
          Follows(s, lines[Len(lines)], l.first, Room(width, first, next, Len(lines)))
    BY <1>1, <1>3
  <2>2. /\ l \in LineType
        /\ SoundLines(s, width, first, next, lines)
        /\ SoundLine(s, l, Room(width, first, next, Len(lines) + 1))
    BY <1>1, <1>3
  <2>3. SoundLines(s, width, first, next, more)
    BY <2>1, <2>2, AppendSound
  <2>4. more # <<>> /\ Len(more) = Len(lines) + 1 /\ more[Len(lines) + 1] = l
    <3>1. lines \in Seq(LineType)
      BY <2>2 DEF SoundLines
    <3> QED
      BY <2>2, <3>1
  <2>5. \A k : OnSome(s, lines, k) \/ OnLine(s, l, k) => OnSome(s, more, k)
    BY <2>1, <2>2, AppendSound
  <2> QED
    BY <2>3, <2>4, <2>5
<1>5. more \in Seq(LineType)
  BY <1>4 DEF SoundLines
<1> HIDE DEF more
<1>6. st2 \in WrapType
  BY <1>2, <1>5 DEF WrapType
<1>7. Begun(st2) = i + 1
  BY <1>2 DEF Begun
<1>8. l.last \in Nat
  BY <1>1 DEF LineType
<1>9. Follows(s, l, i + 1, Room(width, first, next, Len(more)))
  <2>1. i \in l.last + 1 .. (i + 1) - 1 /\ l.last < i + 1
    BY <1>1, <1>8
  <2> QED
    BY <2>1 DEF Follows
<1>10. ASSUME NEW k \in 1 .. i, WordAt(s, k)
       PROVE  OnSome(s, more, k)
  <2>1. k # i
    BY <1>10 DEF WordAt, IsBlank
  <2>2. k \in 1 .. i - 1
    BY <2>1
  <2> QED
    BY <1>1, <1>4, <1>10, <2>2
<1> HIDE DEF st2
<1>11. /\ st2.lines = more /\ st2.indent = next /\ st2.start = 0 /\ st2.columns = 0
       /\ st2.segment = i + 1
  BY <1>2
<1>12. /\ st2.segment \in 1 .. i + 1 /\ s[st2.segment - 1] = Newline
       /\ \A k \in st2.segment .. i : s[k] = Space
  BY <1>11
<1> QED
  BY <1>4, <1>6, <1>7, <1>9, <1>10, <1>11, <1>12 DEF WrapInvariant, st2

LEMMA OtherStep ==
  ASSUME NEW s \in Seq(Bytes), NEW width \in Nat \ {0}, NEW first \in Nat, NEW next \in Nat,
         NEW i \in 1 .. Len(s), NEW st, WrapInvariant(s, width, first, next, i - 1, st),
         s[i] # Newline, ~WordAt(s, i)
  PROVE  WrapInvariant(s, width, first, next, i, st)
<1>1. st \in WrapType /\ st.segment \in 1 .. i /\ st.segment \in 1 .. i + 1
  BY DEF WrapInvariant
<1>2. st.start \in Nat /\ st.last \in Nat
  BY <1>1 DEF WrapType
<1>3. \A k \in 1 .. i : WordAt(s, k) => k \in 1 .. i - 1
  OBVIOUS
<1>4. s[i] = Space \/ (i # 1 /\ ~IsBlank(s[i]) /\ ~IsBlank(s[i - 1]))
  BY DEF WordAt, IsBlank
<1>5. ASSUME st.start = 0
      PROVE  \A k \in st.segment .. i : s[k] = Space
  <2>1. /\ \A k \in st.segment .. i - 1 : s[k] = Space
        /\ st.segment = 1 \/ s[st.segment - 1] = Newline
    BY <1>5 DEF WrapInvariant
  <2>2. s[i] = Space
    <3>1. CASE st.segment = i
      BY <1>4, <2>1, <3>1 DEF IsBlank
    <3>2. CASE st.segment # i
      <4>1. i - 1 \in st.segment .. i - 1
        BY <1>1, <3>2
      <4> QED
        BY <1>4, <2>1, <4>1 DEF IsBlank
    <3> QED
      BY <3>1, <3>2
  <2> QED
    BY <1>1, <2>1, <2>2
<1>6. ASSUME st.start > 0
      PROVE  /\ st.start <= i
             /\ \A k \in st.last + 1 .. i : s[k] = Space
             /\ \A k \in i + 1 .. st.last : ~IsBlank(s[k]) /\ ~WordAt(s, k)
  <2>1. /\ SoundLine(s, UnderWay(s, st), Available(width, st.indent))
        /\ st.start <= i - 1
        /\ \A k \in st.last + 1 .. i - 1 : s[k] = Space
        /\ \A k \in (i - 1) + 1 .. st.last : ~IsBlank(s[k]) /\ ~WordAt(s, k)
    BY <1>6 DEF WrapInvariant
  <2>2. ASSUME i > st.last
        PROVE  s[i] = Space
    <3>1. CASE i - 1 = st.last
      <4>1. UnderWay(s, st).last = st.last
        BY DEF UnderWay, Span
      <4>2. IsBlank(s[st.last + 1])
        BY <2>1, <3>1, <4>1 DEF SoundLine
      <4>3. st.last + 1 = i
        BY <3>1
      <4> QED
        BY <1>4, <4>2, <4>3
    <3>2. CASE i - 1 # st.last
      <4>1. i - 1 \in st.last + 1 .. i - 1
        BY <1>2, <2>2, <3>2
      <4> QED
        BY <1>4, <2>1, <4>1 DEF IsBlank
    <3> QED
      BY <3>1, <3>2
  <2>3. \A k \in st.last + 1 .. i : s[k] = Space
    BY <1>2, <2>1, <2>2
  <2> QED
    BY <1>2, <2>1, <2>3
<1> QED
  BY <1>1, <1>3, <1>5, <1>6 DEF WrapInvariant

LEMMA WordStep ==
  ASSUME NEW s \in Seq(Bytes), NEW width \in Nat \ {0}, NEW first \in Nat, NEW next \in Nat,
         NEW i \in 1 .. Len(s), NEW st, WrapInvariant(s, width, first, next, i - 1, st),
         s[i] # Newline, WordAt(s, i)
  PROVE  WrapInvariant(s, width, first, next, i, AtWord(s, st, i, width, next))
<1> DEFINE e == WordEnd(s, i)
           cols == Width(SubSeq(s, i, e))
           lines == st.lines
           room == Available(width, st.indent)
           st2 == AtWord(s, st, i, width, next)
<1>1. /\ st \in WrapType /\ st.segment \in 1 .. i
      /\ SoundLines(s, width, first, next, lines)
      /\ lines # <<>> =>
           Follows(s, lines[Len(lines)], Begun(st), Room(width, first, next, Len(lines)))
  BY DEF WrapInvariant
<1>2. /\ e \in i .. Len(s)
      /\ \A k \in i .. e : ~IsBlank(s[k])
      /\ \A k \in i + 1 .. e : ~WordAt(s, k)
      /\ e = Len(s) \/ IsBlank(s[e + 1])
  BY WordEnds DEF WordAt
<1>3. \A k \in i .. e : s[k] # Newline
  BY <1>2 DEF IsBlank
<1>4. cols \in Nat /\ cols = Between(s, i, e + 1)
  <2>1. i \in 1 .. Len(s) + 1 /\ e \in i - 1 .. Len(s)
    BY <1>2
  <2> HIDE DEF e
  <2> QED
    BY <1>2, <2>1, SpanWidth
<1>5. room = Room(width, first, next, Len(lines) + 1) /\ room \in Nat
  BY <1>1, RoomIs DEF WrapInvariant, WrapType
<1>6. st.start \in Nat /\ st.last \in Nat /\ st.columns \in Nat /\ st.segment \in Nat
      /\ lines \in Seq(LineType) /\ st.indent \in Nat
  BY <1>1 DEF WrapType
<1>7. CASE st.start = 0
  <2> DEFINE p == st.segment
  <2>1. \A k \in p .. i - 1 : s[k] = Space
    BY <1>7 DEF WrapInvariant
  <2>2. Between(s, p, i) = i - p
    <3>1. p \in 1 .. Len(s) + 1 /\ i \in p .. Len(s) + 1
      BY <1>1
    <3> HIDE DEF p
    <3> QED
      BY <2>1, <3>1, SpacesBetween
  <2>3. st2 = [st EXCEPT !.start = p, !.last = e, !.columns = 0 + (i - p) + cols]
    <3>1. st.columns = 0 /\ ~(st.start > 0)
      BY <1>7 DEF WrapInvariant
    <3>2. st2 = [st EXCEPT !.start = p, !.last = e, !.columns = @ + (i - p) + cols]
      BY <3>1 DEF AtWord, Separator
    <3> HIDE DEF e, cols, st2, p
    <3> QED
      BY <3>1, <3>2
  <2>4. 0 + (i - p) + cols = Between(s, p, e + 1) /\ (i - p) + cols \in Nat
    <3>1. p \in 1 .. Len(s) + 1 /\ i \in 1 .. Len(s) + 1 /\ e + 1 \in 1 .. Len(s) + 1
      BY <1>1, <1>2
    <3>2. Between(s, p, i) + Between(s, i, e + 1) = Between(s, p, e + 1)
      BY <3>1, BetweenAdds
    <3> HIDE DEF cols, e, p
    <3> QED
      BY <1>1, <1>4, <2>2, <3>2 DEF p
  <2> HIDE DEF e, cols, st2, p
  <2>5. /\ st2.lines = lines /\ st2.indent = st.indent /\ st2.segment = st.segment
        /\ st2.start = p /\ st2.last = e /\ st2.columns = Between(s, p, e + 1)
        /\ st2 \in WrapType
    <3>1. 0 + (i - p) + cols \in Nat /\ p \in Nat /\ e \in Nat
      BY <1>2, <1>6, <2>4 DEF p
    <3> QED
      BY <1>1, <2>3, <2>4, <3>1 DEF WrapType
  <2>6. p \in 1 .. i
    BY <1>1 DEF p
  <2>7. Begun(st2) = Begun(st) /\ st2.start > 0
    BY <1>7, <2>5, <2>6 DEF Begun, p
  <2>8. UnderWay(s, st2).first = p /\ UnderWay(s, st2).last = e
        /\ UnderWay(s, st2).columns = Between(s, p, e + 1)
    BY <2>5 DEF UnderWay, Span
  <2>9. SoundLine(s, UnderWay(s, st2), room)
    <3>1. \A k \in p .. e : k \in p .. i - 1 \/ k \in i .. e
      BY <2>6
    <3>2. \A k \in p .. e : s[k] # Newline
      BY <1>3, <2>1, <3>1 DEF Space, Newline
    <3>3. \A k \in p .. e : WordAt(s, k) => k = i
      <4>1. \A k \in p .. i - 1 : ~WordAt(s, k)
        BY <2>1 DEF WordAt, IsBlank
      <4>2. \A k \in i .. e : k = i \/ k \in i + 1 .. e
        OBVIOUS
      <4> QED
        BY <1>2, <3>1, <4>1, <4>2
    <3>4. Single(s, p, e)
      BY <3>3 DEF Single
    <3>5. p \in 1 .. Len(s) + 1 /\ e \in p - 1 .. Len(s)
      BY <1>2, <2>6
    <3> QED
      BY <1>2, <2>8, <3>2, <3>4, <3>5 DEF SoundLine
  <2>10. ASSUME NEW k \in 1 .. i, WordAt(s, k)
         PROVE  OnSome(s, lines, k) \/ OnLine(s, UnderWay(s, st2), k)
    <3>1. CASE k = i
      BY <1>2, <2>6, <2>8, <3>1 DEF OnLine, e
    <3>2. CASE k # i
      <4>1. k \in 1 .. i - 1 /\ ~(st.start > 0)
        BY <1>7, <3>2
      <4> QED
        BY <2>10, <4>1 DEF WrapInvariant
    <3> QED
      BY <3>1, <3>2
  <2>11. /\ st2.start <= i /\ st2.start <= st2.last
         /\ \A k \in st2.last + 1 .. i : s[k] = Space
         /\ \A k \in i + 1 .. st2.last : ~IsBlank(s[k]) /\ ~WordAt(s, k)
    BY <1>2, <2>5, <2>6
  <2>12. st2.indent = IF st2.lines = <<>> THEN first ELSE next
    BY <2>5 DEF WrapInvariant
  <2>13. /\ st2.segment \in 1 .. i + 1
         /\ lines # <<>> =>
              Follows(s, lines[Len(lines)], Begun(st2), Room(width, first, next, Len(lines)))
    BY <1>1, <2>5, <2>7
  <2>14. st2.start # 0
    BY <2>7
  <2> HIDE DEF lines, room
  <2>15. st2.lines = lines /\ Available(width, st2.indent) = room
    BY <2>5 DEF room
  <2> QED
    BY <1>1, <2>5, <2>7, <2>9, <2>10, <2>11, <2>12, <2>13, <2>14, <2>15 DEF WrapInvariant, st2
<1>8. CASE st.start > 0
  <2> DEFINE a == st.start
             b == st.last
             sep == i - 1 - b
             l == UnderWay(s, st)
  <2>1. /\ SoundLine(s, l, room) /\ a <= i - 1 /\ a <= b
        /\ \A k \in b + 1 .. i - 1 : s[k] = Space
        /\ \A k \in (i - 1) + 1 .. b : ~IsBlank(s[k]) /\ ~WordAt(s, k)
        /\ \A k \in 1 .. i - 1 : WordAt(s, k) => OnSome(s, lines, k) \/ OnLine(s, l, k)
    BY <1>8 DEF WrapInvariant
  <2>2. l.first = a /\ l.last = b /\ l.columns = st.columns /\ l \in LineType
    BY <1>6 DEF UnderWay, Span, LineType
  <2>3. a \in 1 .. i - 1 /\ b \in a .. i - 1 /\ sep \in Nat
    <3>1. i \notin (i - 1) + 1 .. b
      BY <2>1
    <3> QED
      BY <1>6, <1>8, <2>1, <3>1
  <2>4. st.columns = Between(s, a, b + 1)
    BY <2>1, <2>2 DEF SoundLine
  <2>5. Between(s, b + 1, i) = sep
    <3> DEFINE q == b + 1
    <3>1. q \in 1 .. Len(s) + 1 /\ i \in q .. Len(s) + 1 /\ i - q = sep
      BY SMTT(20), <2>3
    <3>2. \A k \in q .. i - 1 : s[k] = Space
      BY <2>1
    <3> HIDE DEF q, sep
    <3>3. Between(s, q, i) = i - q
      BY <3>1, <3>2, SpacesBetween
    <3> QED
      BY <3>1, <3>3 DEF q
  <2>6. st.columns + sep + cols = Between(s, a, e + 1) /\ st.columns + sep + cols \in Nat
    <3> DEFINE q == b + 1
               r == e + 1
    <3>1. /\ a \in 1 .. Len(s) + 1 /\ q \in 1 .. Len(s) + 1
          /\ i \in 1 .. Len(s) + 1 /\ r \in 1 .. Len(s) + 1
      <4> HIDE DEF e, a, b
      <4> QED
        BY <1>2, <2>3
    <3> HIDE DEF q, r, a, b, sep, e, cols
    <3>2. /\ Between(s, a, q) + Between(s, q, i) = Between(s, a, i)
          /\ Between(s, a, i) + Between(s, i, r) = Between(s, a, r)
      BY <3>1, BetweenAdds
    <3> QED
      BY SMTT(20), <1>4, <1>6, <2>3, <2>4, <2>5, <3>2 DEF q, r
  <2>7. CASE ~(st.columns + sep + cols > room)
    <3>1. st2 = [st EXCEPT !.start = a, !.last = e, !.columns = @ + sep + cols]
      BY <1>8, <2>7 DEF AtWord, Separator
    <3> HIDE DEF e, cols, st2, a, b, sep, l
    <3>2. /\ st2.lines = lines /\ st2.indent = st.indent /\ st2.segment = st.segment
          /\ st2.start = a /\ st2.last = e /\ st2.columns = Between(s, a, e + 1)
          /\ st2 \in WrapType
      <4>1. e \in Nat /\ a \in Nat
        BY <1>2, <1>6, <2>3 DEF a
      <4> QED
        BY <1>1, <2>6, <3>1, <4>1 DEF WrapType
    <3>3. Begun(st2) = Begun(st) /\ st2.start > 0 /\ st2.start # 0
      BY <1>8, <3>2 DEF Begun, a
    <3>4. UnderWay(s, st2).first = a /\ UnderWay(s, st2).last = e
          /\ UnderWay(s, st2).columns = Between(s, a, e + 1)
      BY <3>2 DEF UnderWay, Span
    <3>5. SoundLine(s, UnderWay(s, st2), room)
      <4>1. \A k \in a .. e : k \in a .. b \/ k \in b + 1 .. i - 1 \/ k \in i .. e
        BY <2>3
      <4>2. \A k \in a .. b : s[k] # Newline
        BY <2>1, <2>2 DEF SoundLine
      <4>3. \A k \in a .. e : s[k] # Newline
        BY <1>3, <2>1, <4>1, <4>2 DEF Space, Newline
      <4>4. a \in 1 .. Len(s) + 1 /\ e \in a - 1 .. Len(s)
        BY <1>2, <2>3
      <4>5. ~(UnderWay(s, st2).columns > room)
        BY <2>6, <2>7, <3>4
      <4> QED
        BY <1>2, <3>4, <4>3, <4>4, <4>5 DEF SoundLine
    <3>6. ASSUME NEW k \in 1 .. i, WordAt(s, k)
          PROVE  OnSome(s, lines, k) \/ OnLine(s, UnderWay(s, st2), k)
      <4>1. CASE k = i
        BY <1>2, <2>3, <3>4, <4>1 DEF OnLine, e
      <4>2. CASE k # i
        <5>1. k \in 1 .. i - 1
          BY <4>2
        <5>2. CASE OnLine(s, l, k)
          <6>1. a <= k /\ WordEnd(s, k) <= b
            BY <2>2, <5>2 DEF OnLine
          <6>2. WordEnd(s, k) \in k .. Len(s)
            <7>1. k \in 1 .. Len(s) /\ ~IsBlank(s[k])
              BY <3>6 DEF WordAt
            <7> QED
              BY <7>1, WordEnds
          <6>3. b <= e
            BY <1>2, <2>3
          <6> QED
            BY <1>2, <2>3, <3>4, <6>1, <6>2, <6>3 DEF OnLine
        <5> QED
          BY <2>1, <3>6, <5>1, <5>2
      <4> QED
        BY <4>1, <4>2
    <3>7. /\ st2.start <= i /\ st2.start <= st2.last
          /\ \A k \in st2.last + 1 .. i : s[k] = Space
          /\ \A k \in i + 1 .. st2.last : ~IsBlank(s[k]) /\ ~WordAt(s, k)
      BY <1>2, <2>3, <3>2
    <3>8. st2.indent = IF st2.lines = <<>> THEN first ELSE next
      BY <3>2 DEF WrapInvariant
    <3>9. /\ st2.segment \in 1 .. i + 1
          /\ lines # <<>> =>
               Follows(s, lines[Len(lines)], Begun(st2), Room(width, first, next, Len(lines)))
      BY <1>1, <3>2, <3>3
    <3> HIDE DEF lines, room
    <3>10. st2.lines = lines /\ Available(width, st2.indent) = room
      BY <3>2 DEF room
    <3> QED
      BY <1>1, <3>2, <3>3, <3>5, <3>6, <3>7, <3>8, <3>9, <3>10 DEF WrapInvariant, st2
  <2>8. CASE st.columns + sep + cols > room
    <3> DEFINE more == Append(lines, l)
    <3>1. st2 = [st EXCEPT !.lines = more, !.indent = next, !.start = i, !.last = e,
                           !.columns = cols]
      BY <1>8, <2>8 DEF AtWord, Separator, UnderWay
    <3> HIDE DEF e, cols, st2, a, b, sep, l, lines, room
    <3>2. /\ lines # <<>> =>
               Follows(s, lines[Len(lines)], l.first, Room(width, first, next, Len(lines)))
          /\ SoundLine(s, l, Room(width, first, next, Len(lines) + 1))
      BY <1>1, <1>5, <1>8, <2>1, <2>2 DEF Begun, a
    <3>3. SoundLines(s, width, first, next, more)
      BY <1>1, <2>2, <3>2, AppendSound
    <3>4. \A k : OnSome(s, lines, k) \/ OnLine(s, l, k) => OnSome(s, more, k)
      BY <1>1, <2>2, <3>2, AppendSound
    <3>5. /\ more \in Seq(LineType) /\ more # <<>> /\ Len(more) = Len(lines) + 1
          /\ more[Len(lines) + 1] = l
      BY SMTT(20), <1>6, <2>2
    <3> HIDE DEF more
    <3>6. /\ st2.lines = more /\ st2.indent = next /\ st2.segment = st.segment
          /\ st2.start = i /\ st2.last = e /\ st2.columns = Between(s, i, e + 1)
          /\ st2 \in WrapType
      <4>1. e \in Nat /\ i \in Nat
        BY <1>2
      <4> QED
        BY <1>1, <1>4, <3>1, <3>5, <4>1 DEF WrapType
    <3>7. Begun(st2) = i /\ st2.start > 0 /\ st2.start # 0
      BY <3>6 DEF Begun
    <3>8. UnderWay(s, st2).first = i /\ UnderWay(s, st2).last = e
          /\ UnderWay(s, st2).columns = Between(s, i, e + 1)
      BY <3>6 DEF UnderWay, Span
    <3>9. SoundLine(s, UnderWay(s, st2), Available(width, st2.indent))
      <4>1. \A k \in i .. e : k = i \/ k \in i + 1 .. e
        OBVIOUS
      <4>2. Single(s, i, e)
        BY <1>2, <4>1 DEF Single
      <4>3. i \in 1 .. Len(s) + 1 /\ e \in i - 1 .. Len(s)
        BY <1>2
      <4> QED
        BY <1>2, <1>3, <3>8, <4>2, <4>3 DEF SoundLine
    <3>10. Follows(s, more[Len(more)], Begun(st2), Room(width, first, next, Len(more)))
      <4>1. l.last < i /\ Between(s, l.first, e + 1) > room
        BY <2>2, <2>3, <2>6, <2>8
      <4>2. Room(width, first, next, Len(more)) = room
        BY <1>5, <3>5
      <4> QED
        BY <3>5, <3>7, <4>1, <4>2 DEF Follows, e
    <3>11. ASSUME NEW k \in 1 .. i, WordAt(s, k)
           PROVE  OnSome(s, more, k) \/ OnLine(s, UnderWay(s, st2), k)
      <4>1. CASE k = i
        BY <1>2, <3>8, <4>1 DEF OnLine, e
      <4>2. CASE k # i
        <5>1. k \in 1 .. i - 1
          BY <4>2
        <5> QED
          BY <2>1, <3>4, <3>11, <5>1
      <4> QED
        BY <4>1, <4>2
    <3>12. /\ st2.start <= i /\ st2.start <= st2.last
           /\ \A k \in st2.last + 1 .. i : s[k] = Space
           /\ \A k \in i + 1 .. st2.last : ~IsBlank(s[k]) /\ ~WordAt(s, k)
      BY <1>2, <3>6
    <3>13. st2.segment \in 1 .. i + 1 /\ st2.indent = IF st2.lines = <<>> THEN first ELSE next
      BY <1>1, <3>5, <3>6
    <3> QED
      BY <3>3, <3>6, <3>7, <3>9, <3>10, <3>11, <3>12, <3>13 DEF WrapInvariant, st2
  <2> QED
    BY <2>7, <2>8
<1> QED
  BY <1>6, <1>7, <1>8

\* The recursive function of Wrap.
WrapFrom(s, width, first, next) ==
  CHOOSE upto :
    upto = [i \in 0 .. Len(s) |->
              IF i = 0 THEN FirstLine(Natural(first))
              ELSE IF s[i] = Newline THEN AtNewline(s, upto[i - 1], i, Natural(next))
              ELSE IF WordAt(s, i) THEN AtWord(s, upto[i - 1], i, width, Natural(next))
              ELSE upto[i - 1]]

LEMMA WrapStarts ==
  ASSUME NEW s \in Seq(Bytes), NEW width, NEW first \in Nat, NEW next \in Nat
  PROVE  WrapInvariant(s, width, first, next, 0, FirstLine(first))
<1> DEFINE st == FirstLine(first)
<1>1. /\ st.lines = <<>> /\ st.indent = first /\ st.start = 0 /\ st.last = 0
      /\ st.columns = 0 /\ st.segment = 1
  BY DEF FirstLine
<1>2. st \in WrapType
  <2>1. <<>> \in Seq(LineType)
    OBVIOUS
  <2> QED
    BY <2>1 DEF FirstLine, WrapType
<1>3. SoundLines(s, width, first, next, <<>>)
  BY DEF SoundLines
<1> HIDE DEF st
<1> QED
  BY <1>1, <1>2, <1>3 DEF WrapInvariant, st

LEMMA WrapFromKeeps ==
  ASSUME NEW s \in Seq(Bytes), NEW width \in Nat \ {0}, NEW first \in Nat, NEW next \in Nat
  PROVE  \A i \in 0 .. Len(s) :
           WrapInvariant(s, width, first, next, i, WrapFrom(s, width, first, next)[i])
<1> DEFINE N == Len(s)
           v == FirstLine(first)
           Step(i, st) == IF s[i] = Newline THEN AtNewline(s, st, i, next)
                          ELSE IF WordAt(s, i) THEN AtWord(s, st, i, width, next)
                          ELSE st
           Inv(i, st) == WrapInvariant(s, width, first, next, i, st)
           J == [n \in 0 .. N |-> {st \in WrapType : Inv(n, st)}]
           F == [n \in 1 .. N |-> [st \in J[n - 1] |-> Step(n, st)]]
           Eq(g) == g = [i \in 0 .. N |-> IF i = 0 THEN v ELSE Step(i, g[i - 1])]
           from == CHOOSE g : Eq(g)
<1>1. N \in Nat
  OBVIOUS
<1>2. Inv(0, v)
  BY WrapStarts
<1>3. ASSUME NEW i \in 1 .. N, NEW st, Inv(i - 1, st)
      PROVE  Inv(i, Step(i, st))
  BY <1>3, NewlineStep, WordStep, OtherStep
<1>4. \A i, st : Inv(i, st) => st \in WrapType
  BY DEF WrapInvariant
<1> HIDE DEF Step, Inv, v
<1>5. v \in J[0] /\ \A n \in 1 .. N : F[n] \in [J[n - 1] -> J[n]]
  <2>1. v \in J[0]
    BY <1>1, <1>2, <1>4
  <2>2. ASSUME NEW n \in 1 .. N
        PROVE  F[n] \in [J[n - 1] -> J[n]]
    <3>1. n \in 0 .. N /\ n - 1 \in 0 .. N
      BY <1>1
    <3>2. ASSUME NEW st \in J[n - 1]
          PROVE  Step(n, st) \in J[n]
      <4>1. Inv(n - 1, st)
        BY <3>1
      <4>2. Inv(n, Step(n, st))
        BY <1>3, <4>1
      <4> QED
        BY <1>4, <3>1, <4>2
    <3> HIDE DEF J
    <3> QED
      BY <3>2
  <2> QED
    BY <2>1, <2>2
<1>6. \A n \in 1 .. N : \A st \in J[n - 1] : F[n][st] = Step(n, st)
  OBVIOUS
<1>7. \E g : FoldedThrough(g, v, N, F)
  <2> HIDE DEF J, F, N
  <2> QED
    BY <1>1, <1>5, FoldThroughExists
<1>8. PICK g : /\ g = [n \in 0 .. N |-> g[n]]
               /\ g[0] = v
               /\ \A n \in 1 .. N : g[n] = F[n][g[n - 1]]
  BY <1>7 DEF FoldedThrough
<1>9. ASSUME NEW n \in 1 .. N, g[n - 1] \in J[n - 1]
      PROVE  g[n] = Step(n, g[n - 1]) /\ g[n] \in J[n]
  <2>1. g[n] = F[n][g[n - 1]] /\ F[n] \in [J[n - 1] -> J[n]]
    BY <1>5, <1>8
  <2> HIDE DEF J, F
  <2> QED
    BY <1>6, <1>9, <2>1
<1>10. \A n \in 0 .. N : g[n] \in J[n]
  <2> DEFINE S == {n \in 0 .. N : g[n] \in J[n]}
  <2> HIDE DEF J, F
  <2>1. 0 \in S
    BY <1>1, <1>5, <1>8
  <2>2. ASSUME NEW n \in 0 .. N - 1, n \in S
        PROVE  n + 1 \in S
    <3>1. n + 1 \in 1 .. N /\ (n + 1) - 1 = n /\ n + 1 \in 0 .. N /\ g[n] \in J[n]
      BY <1>1, <2>2
    <3>2. g[n + 1] \in J[n + 1]
      BY <1>9, <3>1
    <3> QED
      BY <3>1, <3>2
  <2>3. \A n \in 0 .. N : n \in S
    <3> HIDE DEF S, N
    <3> QED
      BY <1>1, <2>1, <2>2, Upwards
  <2> QED
    BY <2>3
<1>11. Eq(g)
  <2> HIDE DEF J, F
  <2>1. ASSUME NEW i \in 0 .. N
        PROVE  g[i] = IF i = 0 THEN v ELSE Step(i, g[i - 1])
    <3>1. CASE i = 0
      BY <1>8, <3>1
    <3>2. CASE i # 0
      <4>1. i \in 1 .. N /\ i - 1 \in 0 .. N
        BY <1>1, <3>2
      <4> QED
        BY <1>9, <1>10, <3>2, <4>1
    <3> QED
      BY <3>1, <3>2
  <2> QED
    BY <1>8, <2>1
<1>12. Eq(from)
  <2> HIDE DEF Eq
  <2> QED
    BY <1>11
<1>13. WrapFrom(s, width, first, next) = from
  BY DEF WrapFrom, Step, v, Natural
<1> HIDE DEF from
<1>14. \A n \in 0 .. N : Inv(n, from[n])
  <2> DEFINE S == {n \in 0 .. N : Inv(n, from[n])}
  <2> HIDE DEF J, F
  <2>1. 0 \in S
    BY <1>1, <1>2, <1>12
  <2>2. ASSUME NEW n \in 0 .. N - 1, n \in S
        PROVE  n + 1 \in S
    <3>1. n + 1 \in 1 .. N /\ (n + 1) - 1 = n /\ n + 1 \in 0 .. N /\ Inv(n, from[n]) /\ n + 1 # 0
      BY <1>1, <2>2
    <3>2. from[n + 1] = Step(n + 1, from[n])
      BY <1>12, <3>1
    <3>3. Inv(n + 1, Step(n + 1, from[n]))
      BY <1>3, <3>1
    <3> QED
      BY <3>1, <3>2, <3>3
  <2>3. \A n \in 0 .. N : n \in S
    <3> HIDE DEF S, N
    <3> QED
      BY <1>1, <2>1, <2>2, Upwards
  <2> QED
    BY <2>3
<1> QED
  BY <1>13, <1>14 DEF Inv

\* The lines of every text, wrapped to every number of columns with every
\* indentation, hold its words whole and in order, are as wide as is reported, are
\* ended early only for want of room, and are too wide only with a single word.
THEOREM WrapsSoundly ==
  ASSUME NEW s \in Seq(Bytes), NEW width \in Nat \ {0}, NEW first \in Nat, NEW next \in Nat
  PROVE  /\ LinesKeepText(s, Wrap(s, width, first, next))
         /\ LinesFit(s, Wrap(s, width, first, next), width, first, next)
<1> DEFINE N == Len(s)
           end == WrapFrom(s, width, first, next)[N]
           l == Emitted(s, end, N + 1)
           lines == Append(end.lines, l)
<1>1. Wrap(s, width, first, next) = lines
  BY DEF Wrap, WrapFrom
<1>2. N \in Nat /\ N + 1 \in 1 .. N + 1 /\ (N + 1) - 1 = N
  OBVIOUS
<1>3. WrapInvariant(s, width, first, next, N, end)
  <2> HIDE DEF end
  <2> QED
    BY <1>2, WrapFromKeeps DEF end
<1> HIDE DEF end
<1>4. /\ l \in LineType
      /\ SoundLine(s, l, Room(width, first, next, Len(end.lines) + 1))
      /\ l.first = Begun(end)
      /\ \A k \in 1 .. N : WordAt(s, k) => OnSome(s, end.lines, k) \/ OnLine(s, l, k)
  BY <1>2, <1>3, EmittedIs
<1> HIDE DEF l
<1>5. /\ SoundLines(s, width, first, next, end.lines)
      /\ end.lines # <<>> =>
           Follows(s, end.lines[Len(end.lines)], l.first,
                   Room(width, first, next, Len(end.lines)))
  BY <1>3, <1>4 DEF WrapInvariant
<1>6. SoundLines(s, width, first, next, lines)
  BY <1>4, <1>5, AppendSound
<1>7. \A k : OnSome(s, end.lines, k) \/ OnLine(s, l, k) => OnSome(s, lines, k)
  BY <1>4, <1>5, AppendSound
<1>8. \A k \in 1 .. N : WordAt(s, k) => OnSome(s, lines, k)
  BY <1>4, <1>7
<1>9. lines \in Seq(LineType)
  BY <1>6 DEF SoundLines
<1> HIDE DEF lines
<1>10. DOMAIN lines = 1 .. Len(lines) /\ Len(lines) \in Nat
  BY <1>9
<1>11. ASSUME NEW n \in DOMAIN lines
       PROVE  SoundLine(s, lines[n], Room(width, first, next, n)) /\ lines[n] \in LineType
  BY <1>6, <1>9, <1>10 DEF SoundLines
<1>12. ASSUME NEW n \in DOMAIN lines
       PROVE  /\ ~Contains(BytesOf(s, lines[n]), Newline)
              /\ lines[n].columns = Width(BytesOf(s, lines[n]))
              /\ lines[n].columns > Room(width, first, next, n) => Cardinality(Words(s, lines[n])) <= 1
  <2> DEFINE m == lines[n]
  <2>1. /\ m.first \in 1 .. Len(s) + 1 /\ m.last \in m.first - 1 .. Len(s)
        /\ m.last = Len(s) \/ IsBlank(s[m.last + 1])
        /\ \A k \in m.first .. m.last : s[k] # Newline
        /\ m.columns = Between(s, m.first, m.last + 1)
        /\ m.columns > Room(width, first, next, n) => Single(s, m.first, m.last)
    BY <1>11 DEF SoundLine
  <2> DEFINE p == m.first
             q == m.last
  <2> HIDE DEF p, q
  <2>2. ~Contains(SubSeq(s, p, q), Newline)
    <3>1. /\ Len(SubSeq(s, p, q)) = IF p <= q THEN q - p + 1 ELSE 0
          /\ \A k \in 1 .. Len(SubSeq(s, p, q)) : SubSeq(s, p, q)[k] = s[p + k - 1]
      BY SMTT(20), <2>1 DEF p, q
    <3>2. \A k \in 1 .. Len(SubSeq(s, p, q)) : p + k - 1 \in p .. q
      BY <2>1, <3>1 DEF p, q
    <3> QED
      BY <2>1, <3>1, <3>2 DEF Contains, p, q
  <2>3. m.columns = Width(SubSeq(s, p, q))
    BY <2>1, SpanWidth DEF p, q
  <2>4. ASSUME Single(s, p, q)
        PROVE  Cardinality(Words(s, m)) <= 1
    <3> DEFINE W == Words(s, m)
    <3>1. \A x, y \in W : x = y
      BY <2>4 DEF Words, Single, p, q
    <3> HIDE DEF W
    <3>2. CASE W = {}
      BY <3>2, FS_EmptySet DEF W
    <3>3. CASE W # {}
      <4>1. PICK x \in W : TRUE
        BY <3>3
      <4>2. W = {x}
        BY <3>1, <4>1
      <4>3. Cardinality(W) = 1
        BY <4>2, FS_Singleton
      <4> QED
        BY <4>3 DEF W
    <3> QED
      BY <3>2, <3>3
  <2> QED
    BY <2>1, <2>2, <2>3, <2>4 DEF BytesOf, p, q
<1>13. ASSUME NEW n \in 1 .. Len(lines) - 1
       PROVE  /\ lines[n].last < lines[n + 1].first
              /\ (\A k \in lines[n].last + 1 .. lines[n + 1].first - 1 : s[k] # Newline) =>
                   Width(SubSeq(s, lines[n].first, WordEnd(s, lines[n + 1].first)))
                     > Room(width, first, next, n)
  <2> DEFINE w == lines[n + 1].first
             p == lines[n].first
             e == WordEnd(s, w)
  <2>1. Follows(s, lines[n], w, Room(width, first, next, n))
    BY <1>6 DEF SoundLines
  <2>2. n \in DOMAIN lines /\ p \in 1 .. Len(s) + 1 /\ lines[n].last \in p - 1 .. Len(s)
    BY <1>10, <1>11 DEF SoundLine
  <2> HIDE DEF w, p
  <2> SUFFICES ASSUME \A k \in lines[n].last + 1 .. w - 1 : s[k] # Newline
               PROVE  Width(SubSeq(s, p, e)) > Room(width, first, next, n)
    BY <2>1 DEF Follows, w, p
  <2>3. /\ w \in 1 .. Len(s) /\ WordAt(s, w) /\ lines[n].last < w
        /\ Between(s, p, e + 1) > Room(width, first, next, n)
    BY <2>1 DEF Follows, p
  <2>4. e \in w .. Len(s) /\ (e = Len(s) \/ IsBlank(s[e + 1]))
    BY <2>3, WordEnds DEF WordAt
  <2>5. e \in p - 1 .. Len(s)
    BY <2>2, <2>3, <2>4
  <2> HIDE DEF e
  <2>6. Width(SubSeq(s, p, e)) = Between(s, p, e + 1)
    BY <2>2, <2>4, <2>5, SpanWidth
  <2> QED
    BY <2>3, <2>6
<1>14. LinesKeepText(s, lines)
  BY <1>8, <1>10, <1>12, <1>13 DEF LinesKeepText, OnSome, OnLine
<1>15. LinesFit(s, lines, width, first, next)
  <2> SUFFICES ASSUME NEW n \in DOMAIN lines
               PROVE  /\ lines[n].columns = Width(BytesOf(s, lines[n]))
                      /\ lines[n].columns > Room(width, first, next, n) =>
                           Cardinality(Words(s, lines[n])) <= 1
                      /\ (/\ n < Len(lines)
                          /\ \A k \in lines[n].last + 1 .. lines[n + 1].first - 1 : s[k] # Newline) =>
                           Width(SubSeq(s, lines[n].first, WordEnd(s, lines[n + 1].first)))
                             > Room(width, first, next, n)
    BY DEF LinesFit, Room
  <2>1. n < Len(lines) => n \in 1 .. Len(lines) - 1
    BY <1>10
  <2> QED
    BY <1>12, <1>13, <2>1
<1> QED
  BY <1>1, <1>14, <1>15

=============================================================================
