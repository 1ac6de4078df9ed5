----------------------------- MODULE StartupProofs -----------------------------
(***************************************************************************)
(* What Startup's runs check, for every command line, file, environment    *)
(* and request, of any length.                                             *)
(*                                                                         *)
(* Layers, documents and command lines are folded by recursive functions.  *)
(* What a fold computes is shown by induction on a set of positions        *)
(* (FoldTheorems).                                                         *)
(***************************************************************************)
EXTENDS Startup, FoldTheorems, SequenceTheorems

-----------------------------------------------------------------------------
(* Layers *)

\* An assignment sets a flag, or clears it: by itself or as an excluded one.
Sets(a, f) == a.flag = f /\ a.value
Clears(a, f) == (a.flag = f /\ ~a.value) \/ (a.value /\ f \in Excluded(a.flag))

\* Among the first n assignments of a layer some one is in S and none that follows
\* is in C; some one is in C.
Standing(layer, n, S, C) ==
  \E i \in 1 .. n : layer[i] \in S /\ \A j \in i + 1 .. n : layer[j] \notin C
Some(layer, n, C) == \E i \in 1 .. n : layer[i] \in C

Setting(f) == {a \in Assignments : Sets(a, f)}
Clearing(f) == {a \in Assignments : Clears(a, f)}

\* The whole layer leaves f set; it clears f somewhere.
SetIn(layer, f) == Standing(layer, Len(layer), Setting(f), Clearing(f))
ClearedIn(layer, f) == Some(layer, Len(layer), Clearing(f))

\* Exclusion is symmetric and transitive, no flag excludes itself, and what is no
\* flag excludes none.
LEMMA Exclusion ==
  /\ \A f \in Flags : f \notin Excluded(f) /\ Excluded(f) \subseteq Flags
  /\ \A f, g \in Flags : f \in Excluded(g) => g \in Excluded(f)
  /\ \A f, g, h \in Flags : f \in Excluded(g) /\ h \in Excluded(g) /\ f # h => f \in Excluded(h)
  /\ \A f : f \notin Flags => Excluded(f) = {}
  BY DEF Flags, Excluded, LevelFlags, OutputFlags

\* One assignment.
LEMMA Applied ==
  ASSUME NEW values \in [Flags -> BOOLEAN], NEW a \in Assignments
  PROVE  /\ Apply(values, a.flag, a.value) \in [Flags -> BOOLEAN]
         /\ \A f \in Flags : Apply(values, a.flag, a.value)[f] <=>
                               Sets(a, f) \/ (values[f] /\ ~Clears(a, f))
         /\ Exclusive(values) => Exclusive(Apply(values, a.flag, a.value))
<1> DEFINE w == Apply(values, a.flag, a.value)
<1>0. a.value \in BOOLEAN
  BY DEF Assignments
<1>1. w = [g \in Flags |-> IF g = a.flag THEN a.value
                           ELSE values[g] /\ ~ (a.value /\ g \in Excluded(a.flag))]
  BY DEF Apply
<1>2. w \in [Flags -> BOOLEAN]
  BY <1>0, <1>1
<1>3. \A f \in Flags : w[f] <=> Sets(a, f) \/ (values[f] /\ ~Clears(a, f))
  <2> TAKE f \in Flags
  <2>1. CASE f = a.flag
    BY <1>0, <1>1, <2>1, Exclusion DEF Sets, Clears
  <2>2. CASE f # a.flag
    BY <1>0, <1>1, <2>2 DEF Sets, Clears
  <2> QED
    BY <2>1, <2>2
<1>4. ASSUME Exclusive(values)
      PROVE  Exclusive(w)
  <2> SUFFICES ASSUME NEW f \in Flags, w[f], NEW g \in Excluded(f), w[g]
               PROVE  FALSE
    BY DEF Exclusive
  <2>1. g \in Flags /\ f \in Excluded(g) /\ f # g
    BY Exclusion
  <2>2. ~(values[f] /\ values[g])
    BY <1>4 DEF Exclusive
  <2>3. /\ Sets(a, f) \/ (values[f] /\ ~Clears(a, f))
        /\ Sets(a, g) \/ (values[g] /\ ~Clears(a, g))
    BY <1>3, <2>1
  <2> QED
    BY <2>1, <2>2, <2>3 DEF Sets, Clears
<1> QED
  BY <1>2, <1>3, <1>4

\* ApplyAll is a fold.
LEMMA ApplyAllFolds ==
  ASSUME NEW values \in [Flags -> BOOLEAN], NEW layer \in Seq(Assignments)
  PROVE  \E g : /\ g \in [0 .. Len(layer) -> [Flags -> BOOLEAN]]
                /\ g[0] = values
                /\ \A n \in 1 .. Len(layer) :
                     g[n] = Apply(g[n - 1], layer[n].flag, layer[n].value)
                /\ ApplyAll(values, layer) = g[Len(layer)]
<1> DEFINE N == Len(layer)
           V == [Flags -> BOOLEAN]
           F == [n \in 1 .. N |-> [w \in V |-> Apply(w, layer[n].flag, layer[n].value)]]
           Eq(g) == g = [n \in 0 .. N |-> IF n = 0 THEN values
                                          ELSE Apply(g[n - 1], layer[n].flag, layer[n].value)]
           after == CHOOSE g : Eq(g)
<1>1. F \in [1 .. N -> [V -> V]]
  <2>1. \A n \in 1 .. N : layer[n] \in Assignments
    OBVIOUS
  <2>2. \A n \in 1 .. N : \A w \in V : Apply(w, layer[n].flag, layer[n].value) \in V
    BY <2>1, Applied
  <2> QED
    BY <2>2
<1>2. PICK g : Folded(g, V, values, N, F)
  <2> HIDE DEF F
  <2>1. N \in Nat
    OBVIOUS
  <2> QED
    BY <1>1, <2>1, FoldExists
<1>3. /\ g \in [0 .. N -> V] /\ g[0] = values
      /\ \A n \in 1 .. N : g[n] = Apply(g[n - 1], layer[n].flag, layer[n].value)
  <2>1. /\ g \in [0 .. N -> V] /\ g[0] = values
        /\ \A n \in 1 .. N : g[n] = F[n][g[n - 1]]
    BY <1>2 DEF Folded
  <2>2. \A n \in 1 .. N : g[n - 1] \in V
    BY <2>1
  <2> QED
    BY <2>1, <2>2
<1>4. Eq(g)
  BY <1>3
<1>5. Eq(after)
  <2> HIDE DEF Eq
  <2> QED
    BY <1>4
<1>6. after[0] = values
  <2> HIDE DEF after
  <2>1. 0 \in 0 .. N
    OBVIOUS
  <2> QED
    BY <1>5, <2>1
<1>7. \A n \in 1 .. N : after[n] = Apply(after[n - 1], layer[n].flag, layer[n].value)
  <2> HIDE DEF after
  <2> QED
    BY <1>5
<1>8. after \in [0 .. N -> V]
  <2> DEFINE S == {n \in 0 .. N : after[n] \in V}
  <2>1. 0 \in S
    <3> HIDE DEF after
    <3> QED
      BY <1>6
  <2>2. \A n \in 0 .. N - 1 : n \in S => n + 1 \in S
    <3> TAKE n \in 0 .. N - 1
    <3> HAVE n \in S
    <3>1. after[n] \in V /\ n + 1 \in 1 .. N /\ layer[n + 1] \in Assignments
      OBVIOUS
    <3>2. after[n + 1] = Apply(after[n], layer[n + 1].flag, layer[n + 1].value)
      BY <1>7, <3>1
    <3> HIDE DEF after
    <3> QED
      BY <3>1, <3>2, Applied
  <2>3. \A n \in 0 .. N : n \in S
    <3> HIDE DEF S, after
    <3>1. N \in Nat
      OBVIOUS
    <3> HIDE DEF N
    <3> QED
      BY <2>1, <2>2, <3>1, Upwards
  <2> HIDE DEF after
  <2>4. after = [n \in 0 .. N |-> after[n]]
    BY <1>5
  <2> QED
    BY <2>3, <2>4
<1>9. ApplyAll(values, layer) = after[N]
  BY DEF ApplyAll
<1> HIDE DEF after
<1> QED
  BY <1>6, <1>7, <1>8, <1>9

\* What one more assignment adds.
LEMMA OneMore ==
  ASSUME NEW layer, NEW n \in Nat, NEW S, NEW C
  PROVE  /\ Standing(layer, n + 1, S, C) <=>
              layer[n + 1] \in S \/ (Standing(layer, n, S, C) /\ layer[n + 1] \notin C)
         /\ Some(layer, n + 1, C) <=> Some(layer, n, C) \/ layer[n + 1] \in C
<1>1. 1 .. n + 1 = (1 .. n) \cup {n + 1}
  OBVIOUS
<1>2. \A i \in 1 .. n : i + 1 .. n + 1 = (i + 1 .. n) \cup {n + 1}
  OBVIOUS
<1>3. (n + 1) + 1 .. n + 1 = {}
  OBVIOUS
<1> QED
  BY <1>1, <1>2, <1>3, Zenon DEF Standing, Some

\* No assignment sets or clears anything in an empty layer.
LEMMA NoneYet ==
  ASSUME NEW layer, NEW S, NEW C
  PROVE  ~Standing(layer, 0, S, C) /\ ~Some(layer, 0, C)
  BY DEF Standing, Some

\* A flag is set after a layer if the layer leaves it set, or does not touch it.
LEMMA ApplyAllMeans ==
  ASSUME NEW values \in [Flags -> BOOLEAN], NEW layer \in Seq(Assignments)
  PROVE  /\ ApplyAll(values, layer) \in [Flags -> BOOLEAN]
         /\ \A f \in Flags :
              ApplyAll(values, layer)[f] <=>
                SetIn(layer, f) \/ (values[f] /\ ~ClearedIn(layer, f))
         /\ Exclusive(values) => Exclusive(ApplyAll(values, layer))
<1> DEFINE N == Len(layer)
           V == [Flags -> BOOLEAN]
<1>1. PICK g : /\ g \in [0 .. N -> V] /\ g[0] = values
               /\ \A n \in 1 .. N : g[n] = Apply(g[n - 1], layer[n].flag, layer[n].value)
               /\ ApplyAll(values, layer) = g[N]
  BY ApplyAllFolds
<1> DEFINE P(n) == /\ \A f \in Flags :
                        g[n][f] <=> \/ Standing(layer, n, Setting(f), Clearing(f))
                                    \/ values[f] /\ ~Some(layer, n, Clearing(f))
                   /\ Exclusive(values) => Exclusive(g[n])
           S == {n \in 0 .. N : P(n)}
<1>2. 0 \in S
  BY <1>1, NoneYet
<1>3. ASSUME NEW n \in 0 .. N - 1, n \in S
      PROVE  n + 1 \in S
  <2>1. /\ n + 1 \in 1 .. N /\ n \in Nat /\ (n + 1) - 1 = n /\ n \in 0 .. N
        /\ layer[n + 1] \in Assignments
    OBVIOUS
  <2>2. g[n + 1] = Apply(g[n], layer[n + 1].flag, layer[n + 1].value) /\ g[n] \in V
    BY <1>1, <2>1
  <2>3. P(n)
    BY <1>3
  <2>4. /\ \A f \in Flags : g[n + 1][f] <=> Sets(layer[n + 1], f)
                                              \/ (g[n][f] /\ ~Clears(layer[n + 1], f))
        /\ Exclusive(g[n]) => Exclusive(g[n + 1])
    BY <2>1, <2>2, Applied
  <2>5. \A f \in Flags :
          /\ Standing(layer, n + 1, Setting(f), Clearing(f)) <=>
               \/ layer[n + 1] \in Setting(f)
               \/ Standing(layer, n, Setting(f), Clearing(f)) /\ layer[n + 1] \notin Clearing(f)
          /\ Some(layer, n + 1, Clearing(f)) <=>
               Some(layer, n, Clearing(f)) \/ layer[n + 1] \in Clearing(f)
    BY <2>1, OneMore
  <2>7. \A f \in Flags : /\ layer[n + 1] \in Setting(f) <=> Sets(layer[n + 1], f)
                         /\ layer[n + 1] \in Clearing(f) <=> Clears(layer[n + 1], f)
    BY <2>1 DEF Setting, Clearing
  <2>6. P(n + 1)
    BY <2>3, <2>4, <2>5, <2>7
  <2> QED
    BY <2>1, <2>6
<1>4. \A n \in 0 .. N : n \in S
  <2> HIDE DEF S
  <2>1. N \in Nat
    OBVIOUS
  <2> HIDE DEF N
  <2> QED
    BY <1>2, <1>3, <2>1, Upwards
<1>5. P(N)
  BY <1>4
<1> QED
  BY <1>1, <1>5 DEF SetIn, ClearedIn

\* One layer after another.
LEMMA LayersJoined ==
  ASSUME NEW a \in Seq(Assignments), NEW b \in Seq(Assignments), NEW S, NEW C
  PROVE  /\ a \o b \in Seq(Assignments)
         /\ Standing(a \o b, Len(a \o b), S, C) <=>
              Standing(b, Len(b), S, C) \/ (Standing(a, Len(a), S, C) /\ ~Some(b, Len(b), C))
         /\ Some(a \o b, Len(a \o b), C) <=>
              Some(a, Len(a), C) \/ Some(b, Len(b), C)
<1> DEFINE c == a \o b
           M == Len(a)
           N == Len(b)
<1>1. /\ c \in Seq(Assignments) /\ Len(c) = M + N /\ M \in Nat /\ N \in Nat
      /\ \A k \in 1 .. M : c[k] = a[k]
      /\ \A k \in 1 .. N : c[M + k] = b[k]
  OBVIOUS
<1> HIDE DEF c
<1>2. \A k \in M + 1 .. M + N : k - M \in 1 .. N /\ c[k] = b[k - M]
  <2> TAKE k \in M + 1 .. M + N
  <2>1. k - M \in 1 .. N /\ M + (k - M) = k
    BY <1>1
  <2> QED
    BY <1>1, <2>1
<1>3. ASSUME Standing(c, M + N, S, C)
      PROVE  Standing(b, N, S, C) \/ (Standing(a, M, S, C) /\ ~Some(b, N, C))
  <2>1. PICK i \in 1 .. M + N : c[i] \in S /\ \A j \in i + 1 .. M + N : c[j] \notin C
    BY <1>3 DEF Standing
  <2>2. CASE i \in 1 .. M
    <3>1. a[i] \in S
      BY <1>1, <2>1, <2>2
    <3>2. \A j \in i + 1 .. M : a[j] \notin C
      BY <1>1, <2>1, <2>2
    <3>3. \A j \in 1 .. N : b[j] \notin C
      <4> TAKE j \in 1 .. N
      <4>1. M + j \in i + 1 .. M + N
        BY <1>1, <2>2
      <4> QED
        BY <1>1, <2>1, <4>1
    <3> QED
      BY <2>2, <3>1, <3>2, <3>3 DEF Standing, Some
  <2>3. CASE i \notin 1 .. M
    <3>1. i \in M + 1 .. M + N
      BY <1>1, <2>3
    <3>2. i - M \in 1 .. N /\ b[i - M] \in S
      BY <1>2, <2>1, <3>1
    <3>3. \A j \in (i - M) + 1 .. N : b[j] \notin C
      <4> TAKE j \in (i - M) + 1 .. N
      <4>1. M + j \in i + 1 .. M + N /\ j \in 1 .. N
        BY <1>1, <3>1
      <4> QED
        BY <1>1, <2>1, <4>1
    <3> QED
      BY <3>2, <3>3 DEF Standing
  <2> QED
    BY <2>2, <2>3
<1>4. ASSUME Standing(b, N, S, C)
      PROVE  Standing(c, M + N, S, C)
  <2>1. PICK i \in 1 .. N : b[i] \in S /\ \A j \in i + 1 .. N : b[j] \notin C
    BY <1>4 DEF Standing
  <2>2. M + i \in 1 .. M + N /\ c[M + i] \in S
    BY <1>1, <2>1
  <2>3. \A j \in (M + i) + 1 .. M + N : c[j] \notin C
    <3> TAKE j \in (M + i) + 1 .. M + N
    <3>1. j \in M + 1 .. M + N /\ j - M \in i + 1 .. N
      BY <1>1
    <3> QED
      BY <1>2, <2>1, <3>1
  <2> QED
    BY <2>2, <2>3 DEF Standing
<1>5. ASSUME Standing(a, M, S, C), ~Some(b, N, C)
      PROVE  Standing(c, M + N, S, C)
  <2>1. PICK i \in 1 .. M : a[i] \in S /\ \A j \in i + 1 .. M : a[j] \notin C
    BY <1>5 DEF Standing
  <2>2. i \in 1 .. M + N /\ c[i] \in S
    BY <1>1, <2>1
  <2>3. \A j \in i + 1 .. M + N : c[j] \notin C
    <3> TAKE j \in i + 1 .. M + N
    <3>1. CASE j \in 1 .. M
      BY <1>1, <2>1, <3>1
    <3>2. CASE j \notin 1 .. M
      <4>1. j \in M + 1 .. M + N
        BY <1>1, <3>2
      <4> QED
        BY <1>2, <1>5, <4>1 DEF Some
    <3> QED
      BY <3>1, <3>2
  <2> QED
    BY <2>2, <2>3 DEF Standing
<1>6. Some(c, M + N, C) <=> Some(a, M, C) \/ Some(b, N, C)
  <2>1. ASSUME Some(c, M + N, C)
        PROVE  Some(a, M, C) \/ Some(b, N, C)
    <3>1. PICK i \in 1 .. M + N : c[i] \in C
      BY <2>1 DEF Some
    <3>2. CASE i \in 1 .. M
      BY <1>1, <3>1, <3>2 DEF Some
    <3>3. CASE i \notin 1 .. M
      <4>1. i \in M + 1 .. M + N
        BY <1>1, <3>3
      <4> QED
        BY <1>2, <3>1, <4>1 DEF Some
    <3> QED
      BY <3>2, <3>3
  <2>2. ASSUME Some(a, M, C)
        PROVE  Some(c, M + N, C)
    <3>1. PICK i \in 1 .. M : a[i] \in C
      BY <2>2 DEF Some
    <3>2. i \in 1 .. M + N /\ c[i] \in C
      BY <1>1, <3>1
    <3> QED
      BY <3>2 DEF Some
  <2>3. ASSUME Some(b, N, C)
        PROVE  Some(c, M + N, C)
    <3>1. PICK i \in 1 .. N : b[i] \in C
      BY <2>3 DEF Some
    <3>2. M + i \in 1 .. M + N /\ c[M + i] \in C
      BY <1>1, <3>1
    <3> QED
      BY <3>2 DEF Some
  <2> QED
    BY <2>1, <2>2, <2>3
<1> QED
  <2>1. Standing(c, M + N, S, C) <=> Standing(b, N, S, C) \/ (Standing(a, M, S, C) /\ ~Some(b, N, C))
    BY <1>3, <1>4, <1>5
  <2> QED
    BY <1>1, <1>6, <2>1 DEF c

\* A flag after two layers, one after the other.
LEMMA FlagsJoined ==
  ASSUME NEW a \in Seq(Assignments), NEW b \in Seq(Assignments), NEW f
  PROVE  /\ a \o b \in Seq(Assignments)
         /\ SetIn(a \o b, f) <=> SetIn(b, f) \/ (SetIn(a, f) /\ ~ClearedIn(b, f))
         /\ ClearedIn(a \o b, f) <=> ClearedIn(a, f) \/ ClearedIn(b, f)
  BY LayersJoined DEF SetIn, ClearedIn

\* SetIn is what the properties mean by the last word.
LEMMA LastWordIsSetIn ==
  ASSUME NEW layer \in Seq(Assignments), NEW f
  PROVE  LastWord(layer, f) <=> SetIn(layer, f)
<1>1. /\ DOMAIN layer = 1 .. Len(layer)
      /\ \A i \in 1 .. Len(layer) : layer[i] \in Assignments
  OBVIOUS
<1>2. \A a \in Assignments :
        /\ a = [flag |-> f, value |-> TRUE] <=> a \in Setting(f)
        /\ (a # [flag |-> f, value |-> FALSE] /\ ~(a.value /\ f \in Excluded(a.flag)))
             <=> a \notin Clearing(f)
  <2> TAKE a \in Assignments
  <2>1. a = [flag |-> a.flag, value |-> a.value] /\ a.value \in BOOLEAN /\ a.flag \in Words
    BY DEF Assignments
  <2>2. a = [flag |-> f, value |-> TRUE] <=> a.flag = f /\ a.value
    BY <2>1
  <2>3. a = [flag |-> f, value |-> FALSE] <=> a.flag = f /\ ~a.value
    BY <2>1
  <2> QED
    BY <2>2, <2>3 DEF Setting, Clearing, Sets, Clears
<1>3. \A i \in 1 .. Len(layer) : \A j \in i + 1 .. Len(layer) : j \in 1 .. Len(layer)
  OBVIOUS
<1>4. LastWord(layer, f) <=>
        \E i \in 1 .. Len(layer) : layer[i] = [flag |-> f, value |-> TRUE]
          /\ \A j \in i + 1 .. Len(layer) :
               layer[j] # [flag |-> f, value |-> FALSE]
               /\ ~(layer[j].value /\ f \in Excluded(layer[j].flag))
  BY <1>1, Zenon DEF LastWord
<1> QED
  BY <1>1, <1>2, <1>3, <1>4, Zenon DEF SetIn, Standing

\* Flags that exclude one another are not both left set.
LEMMA OneWord ==
  ASSUME NEW layer \in Seq(Assignments), NEW f \in Flags, NEW g \in Excluded(f),
         SetIn(layer, f)
  PROVE  ~SetIn(layer, g)
<1> SUFFICES ASSUME SetIn(layer, g)
             PROVE  FALSE
  OBVIOUS
<1>1. PICK i \in 1 .. Len(layer) :
        layer[i] \in Setting(f) /\ \A j \in i + 1 .. Len(layer) : layer[j] \notin Clearing(f)
  BY DEF SetIn, Standing
<1>2. PICK k \in 1 .. Len(layer) :
        layer[k] \in Setting(g) /\ \A j \in k + 1 .. Len(layer) : layer[j] \notin Clearing(g)
  BY DEF SetIn, Standing
<1>3. g \in Flags /\ f \in Excluded(g) /\ f # g
  BY Exclusion
<1>4. layer[i] \in Clearing(g) /\ layer[k] \in Clearing(f) /\ layer[i] # layer[k]
  BY <1>1, <1>2, <1>3 DEF Setting, Clearing, Sets, Clears
<1>5. ~(i \in k + 1 .. Len(layer)) /\ ~(k \in i + 1 .. Len(layer)) /\ i # k
  BY <1>1, <1>2, <1>4
<1> QED
  BY <1>5

-----------------------------------------------------------------------------
(* The flags of a request *)

RequestFlags == [values : [Flags -> BOOLEAN], seen : [Flags -> BOOLEAN]]

Naming(f) == {a \in Assignments : a.flag = f}
Excluding(f) == {a \in Assignments : a.value /\ f \in Excluded(a.flag)}

SeenIn(layer, f) == Standing(layer, Len(layer), Naming(f), Excluding(f))
HiddenIn(layer, f) == Some(layer, Len(layer), Excluding(f))

\* Whether a request has seen a flag after two parts of its flags.
LEMMA SeenJoined ==
  ASSUME NEW a \in Seq(Assignments), NEW b \in Seq(Assignments), NEW f
  PROVE  /\ SeenIn(a \o b, f) <=> SeenIn(b, f) \/ (SeenIn(a, f) /\ ~HiddenIn(b, f))
         /\ HiddenIn(a \o b, f) <=> HiddenIn(a, f) \/ HiddenIn(b, f)
  BY LayersJoined DEF SeenIn, HiddenIn

\* One flag of a request.
LEMMA Recorded ==
  ASSUME NEW req \in RequestFlags, NEW a \in Assignments
  PROVE  /\ RecordFlag(req, a.flag, a.value) \in RequestFlags
         /\ RecordFlag(req, a.flag, a.value).values = Apply(req.values, a.flag, a.value)
         /\ \A f \in Flags :
              RecordFlag(req, a.flag, a.value).seen[f] <=>
                a \in Naming(f) \/ (req.seen[f] /\ a \notin Excluding(f))
<1> DEFINE s == [g \in Flags |-> \/ g = a.flag
                                 \/ req.seen[g] /\ ~ (a.value /\ g \in Excluded(a.flag))]
<1>1. req.values \in [Flags -> BOOLEAN] /\ req.seen \in [Flags -> BOOLEAN]
  BY DEF RequestFlags
<1>2. RecordFlag(req, a.flag, a.value)
        = [values |-> Apply(req.values, a.flag, a.value), seen |-> s]
  BY DEF RecordFlag
<1>3. Apply(req.values, a.flag, a.value) \in [Flags -> BOOLEAN]
  BY <1>1, Applied
<1>4. s \in [Flags -> BOOLEAN]
  OBVIOUS
<1>5. \A f \in Flags : s[f] <=> a \in Naming(f) \/ (req.seen[f] /\ a \notin Excluding(f))
  BY DEF Naming, Excluding
<1> HIDE DEF s
<1> QED
  BY <1>2, <1>3, <1>4, <1>5 DEF RequestFlags
\* RecordAll is a fold.
LEMMA RecordAllFolds ==
  ASSUME NEW req \in RequestFlags, NEW layer \in Seq(Assignments)
  PROVE  \E g : /\ g \in [0 .. Len(layer) -> RequestFlags]
                /\ g[0] = req
                /\ \A n \in 1 .. Len(layer) :
                     g[n] = RecordFlag(g[n - 1], layer[n].flag, layer[n].value)
                /\ RecordAll(req, layer) = g[Len(layer)]
<1> DEFINE N == Len(layer)
           V == RequestFlags
           F == [n \in 1 .. N |-> [w \in V |-> RecordFlag(w, layer[n].flag, layer[n].value)]]
           Eq(g) == g = [n \in 0 .. N |-> IF n = 0 THEN req
                                          ELSE RecordFlag(g[n - 1], layer[n].flag, layer[n].value)]
           after == CHOOSE g : Eq(g)
<1>1. F \in [1 .. N -> [V -> V]]
  <2>1. \A n \in 1 .. N : layer[n] \in Assignments
    OBVIOUS
  <2>2. \A n \in 1 .. N : \A w \in V : RecordFlag(w, layer[n].flag, layer[n].value) \in V
    BY <2>1, Recorded
  <2> QED
    BY <2>2
<1>2. PICK g : Folded(g, V, req, N, F)
  <2> HIDE DEF F
  <2>1. N \in Nat
    OBVIOUS
  <2> QED
    BY <1>1, <2>1, FoldExists
<1>3. /\ g \in [0 .. N -> V] /\ g[0] = req
      /\ \A n \in 1 .. N : g[n] = RecordFlag(g[n - 1], layer[n].flag, layer[n].value)
  <2>1. /\ g \in [0 .. N -> V] /\ g[0] = req
        /\ \A n \in 1 .. N : g[n] = F[n][g[n - 1]]
    BY <1>2 DEF Folded
  <2>2. \A n \in 1 .. N : g[n - 1] \in V
    BY <2>1
  <2> QED
    BY <2>1, <2>2
<1>4. Eq(g)
  BY <1>3
<1>5. Eq(after)
  <2> HIDE DEF Eq
  <2> QED
    BY <1>4
<1>6. after[0] = req
  <2> HIDE DEF after
  <2>1. 0 \in 0 .. N
    OBVIOUS
  <2> QED
    BY <1>5, <2>1
<1>7. \A n \in 1 .. N : after[n] = RecordFlag(after[n - 1], layer[n].flag, layer[n].value)
  <2> HIDE DEF after
  <2> QED
    BY <1>5
<1>8. after \in [0 .. N -> V]
  <2> DEFINE S == {n \in 0 .. N : after[n] \in V}
  <2>1. 0 \in S
    <3> HIDE DEF after
    <3> QED
      BY <1>6
  <2>2. \A n \in 0 .. N - 1 : n \in S => n + 1 \in S
    <3> TAKE n \in 0 .. N - 1
    <3> HAVE n \in S
    <3>1. after[n] \in V /\ n + 1 \in 1 .. N /\ layer[n + 1] \in Assignments
      OBVIOUS
    <3>2. after[n + 1] = RecordFlag(after[n], layer[n + 1].flag, layer[n + 1].value)
      BY <1>7, <3>1
    <3> HIDE DEF after
    <3> QED
      BY <3>1, <3>2, Recorded
  <2>3. \A n \in 0 .. N : n \in S
    <3> HIDE DEF S, after
    <3>1. N \in Nat
      OBVIOUS
    <3> HIDE DEF N
    <3> QED
      BY <2>1, <2>2, <3>1, Upwards
  <2> HIDE DEF after
  <2>4. after = [n \in 0 .. N |-> after[n]]
    BY <1>5
  <2> QED
    BY <2>3, <2>4
<1>9. RecordAll(req, layer) = after[N]
  BY DEF RecordAll
<1> HIDE DEF after
<1> QED
  BY <1>6, <1>7, <1>8, <1>9

\* A flag of a request is seen after a layer if the layer leaves it seen, or does
\* not hide it; its value is what ApplyAll would make of it.
LEMMA RecordAllMeans ==
  ASSUME NEW req \in RequestFlags, NEW layer \in Seq(Assignments)
  PROVE  /\ RecordAll(req, layer) \in RequestFlags
         /\ \A f \in Flags :
              /\ RecordAll(req, layer).values[f] <=>
                   SetIn(layer, f) \/ (req.values[f] /\ ~ClearedIn(layer, f))
              /\ RecordAll(req, layer).seen[f] <=>
                   SeenIn(layer, f) \/ (req.seen[f] /\ ~HiddenIn(layer, f))
<1> DEFINE N == Len(layer)
<1>1. PICK g : /\ g \in [0 .. N -> RequestFlags] /\ g[0] = req
               /\ \A n \in 1 .. N : g[n] = RecordFlag(g[n - 1], layer[n].flag, layer[n].value)
               /\ RecordAll(req, layer) = g[N]
  BY RecordAllFolds
<1> DEFINE P(n) == \A f \in Flags :
                     /\ g[n].values[f] <=> \/ Standing(layer, n, Setting(f), Clearing(f))
                                           \/ req.values[f] /\ ~Some(layer, n, Clearing(f))
                     /\ g[n].seen[f] <=> \/ Standing(layer, n, Naming(f), Excluding(f))
                                         \/ req.seen[f] /\ ~Some(layer, n, Excluding(f))
           S == {n \in 0 .. N : P(n)}
<1>2. 0 \in S
  BY <1>1, NoneYet
<1>3. ASSUME NEW n \in 0 .. N - 1, n \in S
      PROVE  n + 1 \in S
  <2>1. /\ n + 1 \in 1 .. N /\ n \in Nat /\ (n + 1) - 1 = n /\ n \in 0 .. N /\ n + 1 \in 0 .. N
        /\ layer[n + 1] \in Assignments
    OBVIOUS
  <2>2. g[n + 1] = RecordFlag(g[n], layer[n + 1].flag, layer[n + 1].value) /\ g[n] \in RequestFlags
    BY <1>1, <2>1
  <2>3. P(n)
    BY <1>3
  <2> HIDE DEF S
  <2> DEFINE a == layer[n + 1]
             r == g[n]
             q == g[n + 1]
  <2>4. /\ q.values = Apply(r.values, a.flag, a.value)
        /\ \A f \in Flags : q.seen[f] <=>
             a \in Naming(f) \/ (r.seen[f] /\ a \notin Excluding(f))
    <3>1. q = RecordFlag(r, a.flag, a.value) /\ r \in RequestFlags /\ a \in Assignments
      BY <2>1, <2>2
    <3> HIDE DEF a, r, q
    <3> QED
      BY <3>1, Recorded
  <2>5. g[n].values \in [Flags -> BOOLEAN]
    BY <2>2 DEF RequestFlags
  <2>6. \A f \in Flags : q.values[f] <=> Sets(a, f) \/ (r.values[f] /\ ~Clears(a, f))
    <3>1. a \in Assignments
      BY <2>1
    <3> HIDE DEF a, r, q
    <3> QED
      BY <2>4, <2>5, <3>1, Applied DEF r
  <2>7. \A f \in Flags : /\ layer[n + 1] \in Setting(f) <=> Sets(layer[n + 1], f)
                         /\ layer[n + 1] \in Clearing(f) <=> Clears(layer[n + 1], f)
    BY <2>1 DEF Setting, Clearing
  <2>8. ASSUME NEW f \in Flags
        PROVE  g[n + 1].values[f] <=> \/ Standing(layer, n + 1, Setting(f), Clearing(f))
                                      \/ req.values[f] /\ ~Some(layer, n + 1, Clearing(f))
    <3>1. /\ Standing(layer, n + 1, Setting(f), Clearing(f)) <=>
               \/ layer[n + 1] \in Setting(f)
               \/ Standing(layer, n, Setting(f), Clearing(f)) /\ layer[n + 1] \notin Clearing(f)
          /\ Some(layer, n + 1, Clearing(f)) <=>
               Some(layer, n, Clearing(f)) \/ layer[n + 1] \in Clearing(f)
      BY <2>1, OneMore
    <3> QED
      BY <2>3, <2>6, <2>7, <3>1
  <2>9. ASSUME NEW f \in Flags
        PROVE  g[n + 1].seen[f] <=> \/ Standing(layer, n + 1, Naming(f), Excluding(f))
                                    \/ req.seen[f] /\ ~Some(layer, n + 1, Excluding(f))
    <3>1. /\ Standing(layer, n + 1, Naming(f), Excluding(f)) <=>
               \/ layer[n + 1] \in Naming(f)
               \/ Standing(layer, n, Naming(f), Excluding(f)) /\ layer[n + 1] \notin Excluding(f)
          /\ Some(layer, n + 1, Excluding(f)) <=>
               Some(layer, n, Excluding(f)) \/ layer[n + 1] \in Excluding(f)
      BY <2>1, OneMore
    <3> QED
      BY <2>3, <2>4, <3>1
  <2>10. P(n + 1)
    BY <2>8, <2>9
  <2> QED
    BY <2>1, <2>10 DEF S
<1>4. \A n \in 0 .. N : n \in S
  <2> HIDE DEF S
  <2>1. N \in Nat
    OBVIOUS
  <2> HIDE DEF N
  <2> QED
    BY <1>2, <1>3, <2>1, Upwards
<1>5. P(N)
  BY <1>4
<1>6. RecordAll(req, layer) \in RequestFlags
  BY <1>1
<1> QED
  BY <1>1, <1>5, <1>6 DEF SetIn, ClearedIn, SeenIn, HiddenIn

\* The table.
LEMMA Table ==
  /\ DOMAIN FlagOrder = 1 .. 6
  /\ \A i \in 1 .. 6 : FlagOrder[i] \in Flags
  /\ \A f \in Flags : \E i \in 1 .. 6 : FlagOrder[i] = f
  /\ NoFlag \notin Flags /\ NoFlag \in Words /\ Flags \subseteq Words
<1>1. FlagOrder = <<"debug", "quiet", "verbose", "json", "plain", "no_color">>
  BY DEF FlagOrder
<1>2. DOMAIN FlagOrder = 1 .. 6
  BY <1>1
<1>3. \A f \in Flags : \E i \in 1 .. 6 : FlagOrder[i] = f
  BY <1>1 DEF Flags
<1>4. \A i \in 1 .. 6 : FlagOrder[i] \in Flags
  BY <1>1 DEF Flags
<1>5. NoFlag \notin Flags
  BY DEF Flags, NoFlag
<1>6. NoFlag \in Words /\ Flags \subseteq Words
  BY WordsAssumption
<1> QED
  BY <1>2, <1>3, <1>4, <1>5, <1>6

\* The environment makes a layer.
LEMMA SetTrueIsLayer ==
  ASSUME NEW S
  PROVE  SetTrue(S) \in Seq(Assignments)
<1>1. SetTrue(S) = [i \in 1 .. 6 |-> [flag |-> IF FlagOrder[i] \in S THEN FlagOrder[i] ELSE NoFlag,
                                      value |-> TRUE]]
  BY Table DEF SetTrue
<1>2. \A i \in 1 .. 6 : [flag |-> IF FlagOrder[i] \in S THEN FlagOrder[i] ELSE NoFlag,
                         value |-> TRUE] \in Assignments
  BY Table DEF Assignments
<1> QED
  BY <1>1, <1>2

\* What a request's flags amount to, as a layer.
LEMMA SeenFlagsAre ==
  ASSUME NEW req \in RequestFlags
  PROVE  /\ SeenFlags(req) \in Seq(Assignments) /\ Len(SeenFlags(req)) = 6
         /\ \A i \in 1 .. 6 : \A f \in Flags :
              /\ SeenFlags(req)[i] \in Setting(f) <=>
                   FlagOrder[i] = f /\ req.seen[f] /\ req.values[f]
              /\ SeenFlags(req)[i] \in Clearing(f) <=>
                   \/ FlagOrder[i] = f /\ req.seen[f] /\ ~req.values[f]
                   \/ /\ req.seen[FlagOrder[i]] /\ req.values[FlagOrder[i]]
                      /\ f \in Excluded(FlagOrder[i])
<1> DEFINE Item(i) == [flag |-> IF req.seen[FlagOrder[i]] THEN FlagOrder[i] ELSE NoFlag,
                       value |-> req.values[FlagOrder[i]]]
<1>1. SeenFlags(req) = [i \in 1 .. 6 |-> Item(i)]
  BY Table DEF SeenFlags
<1>2. req.values \in [Flags -> BOOLEAN] /\ req.seen \in [Flags -> BOOLEAN]
  BY DEF RequestFlags
<1>3. ASSUME NEW i \in 1 .. 6
      PROVE  /\ Item(i) \in Assignments
             /\ Item(i).flag = IF req.seen[FlagOrder[i]] THEN FlagOrder[i] ELSE NoFlag
             /\ Item(i).value = req.values[FlagOrder[i]]
  <2>1. FlagOrder[i] \in Flags /\ FlagOrder[i] \in Words /\ NoFlag \in Words
    BY Table
  <2>2. req.values[FlagOrder[i]] \in BOOLEAN
    BY <1>2, <2>1
  <2> QED
    BY <2>1, <2>2 DEF Assignments
<1> HIDE DEF Item
<1>4. /\ SeenFlags(req) \in Seq(Assignments) /\ Len(SeenFlags(req)) = 6
      /\ \A i \in 1 .. 6 : SeenFlags(req)[i] = Item(i)
  BY <1>1, <1>3
<1>5. ASSUME NEW i \in 1 .. 6, NEW f \in Flags
      PROVE  /\ Item(i) \in Setting(f) <=> FlagOrder[i] = f /\ req.seen[f] /\ req.values[f]
             /\ Item(i) \in Clearing(f) <=>
                  \/ FlagOrder[i] = f /\ req.seen[f] /\ ~req.values[f]
                  \/ /\ req.seen[FlagOrder[i]] /\ req.values[FlagOrder[i]]
                     /\ f \in Excluded(FlagOrder[i])
  <2>1. FlagOrder[i] \in Flags /\ NoFlag \notin Flags /\ Excluded(NoFlag) = {}
    BY Table, Exclusion
  <2>2. CASE req.seen[FlagOrder[i]]
    <3>1. Item(i).flag = FlagOrder[i]
      BY <1>3, <2>2
    <3> QED
      BY <1>3, <2>1, <2>2, <3>1 DEF Setting, Clearing, Sets, Clears
  <2>3. CASE ~req.seen[FlagOrder[i]]
    <3>1. Item(i).flag = NoFlag
      BY <1>3, <2>3
    <3> QED
      BY <1>3, <2>1, <2>3, <3>1 DEF Setting, Clearing, Sets, Clears
  <2> QED
    BY <2>2, <2>3
<1> QED
  BY <1>4, <1>5

\* A set of positions has a last one.
LEMMA LastPosition ==
  ASSUME NEW N \in Nat, NEW T \in SUBSET (1 .. N), T # {}
  PROVE  \E m \in T : \A j \in T : j <= m
<1> DEFINE R == {n \in 0 .. N : N - n \in T}
<1>1. R \subseteq Nat /\ R # {}
  <2>1. PICK j \in T : TRUE
    OBVIOUS
  <2>2. j \in 1 .. N /\ N - j \in 0 .. N /\ N - (N - j) = j
    BY <2>1
  <2>3. N - j \in R
    BY <2>2
  <2>4. R \subseteq Nat
    OBVIOUS
  <2> HIDE DEF R
  <2> QED
    BY <2>3, <2>4
<1>2. PICK r \in R : \A n \in R : ~(<<n, r>> \in OpToRel(<, Nat))
  <2> HIDE DEF R
  <2> QED
    BY <1>1, NatLessThanWellFounded, WFMin
<1>3. \A n \in R : ~(n < r)
  BY <1>1, <1>2 DEF OpToRel
<1>4. N - r \in T
  OBVIOUS
<1>5. \A j \in T : j <= N - r
  <2> TAKE j \in T
  <2>1. j \in 1 .. N /\ N - j \in 0 .. N /\ N - (N - j) = j
    OBVIOUS
  <2>2. N - j \in R
    BY <2>1
  <2> QED
    BY <1>3, <2>1, <2>2
<1> QED
  BY <1>4, <1>5

\* A request that names each flag once means the same in table order.
LEMMA TableOrderWillDo ==
  ASSUME NEW D \in Seq(Assignments), \A i \in 1 .. Len(D) : D[i].flag \in Flags, Distinct(D),
         NEW req \in RequestFlags,
         \A f \in Flags : (req.values[f] <=> SetIn(D, f)) /\ (req.seen[f] <=> SeenIn(D, f))
  PROVE  \A f \in Flags :
           /\ SetIn(SeenFlags(req), f) <=> SetIn(D, f)
           /\ ~SetIn(D, f) => (ClearedIn(SeenFlags(req), f) <=> ClearedIn(D, f))
<1> TAKE f \in Flags
<1> DEFINE L == SeenFlags(req)
           N == Len(D)
<1>1. /\ L \in Seq(Assignments) /\ Len(L) = 6 /\ N \in Nat
      /\ \A i \in 1 .. 6 : \A g \in Flags :
           /\ L[i] \in Setting(g) <=> FlagOrder[i] = g /\ req.seen[g] /\ req.values[g]
           /\ L[i] \in Clearing(g) <=>
                \/ FlagOrder[i] = g /\ req.seen[g] /\ ~req.values[g]
                \/ /\ req.seen[FlagOrder[i]] /\ req.values[FlagOrder[i]]
                   /\ g \in Excluded(FlagOrder[i])
  BY SeenFlagsAre
<1> HIDE DEF L
<1>2. /\ \A i \in 1 .. 6 : FlagOrder[i] \in Flags
      /\ \A g \in Flags : \E i \in 1 .. 6 : FlagOrder[i] = g
  BY Table
<1>3. \A i \in 1 .. N : D[i] \in Assignments /\ D[i].flag \in Flags
  OBVIOUS
<1>4. \A i, j \in 1 .. N : D[i].flag = D[j].flag => i = j
  <2>1. DOMAIN D = 1 .. N
    OBVIOUS
  <2> QED
    BY <2>1 DEF Distinct
\* A flag that is set is seen.
<1>5. ASSUME NEW g \in Flags, SetIn(D, g)
      PROVE  /\ req.seen[g] /\ req.values[g]
             /\ \E i \in 1 .. N : D[i].flag = g /\ D[i].value
  <2>1. PICK i \in 1 .. N : D[i] \in Setting(g) /\ \A j \in i + 1 .. N : D[j] \notin Clearing(g)
    BY <1>5 DEF SetIn, Standing
  <2>2. D[i].flag = g /\ D[i].value /\ D[i] \in Naming(g)
    BY <2>1 DEF Setting, Sets, Naming
  <2>3. \A j \in i + 1 .. N : D[j] \notin Excluding(g)
    BY <2>1 DEF Clearing, Clears, Excluding
  <2>4. SeenIn(D, g)
    BY <2>2, <2>3 DEF SeenIn, Standing
  <2> QED
    BY <1>5, <2>2, <2>4
<1>6. SetIn(L, f) <=> SetIn(D, f)
  <2>1. ASSUME SetIn(L, f)
        PROVE  SetIn(D, f)
    <3>1. PICK i \in 1 .. 6 : L[i] \in Setting(f)
      BY <1>1, <2>1 DEF SetIn, Standing
    <3> QED
      BY <1>1, <3>1
  <2>2. ASSUME SetIn(D, f)
        PROVE  SetIn(L, f)
    <3>1. PICK i \in 1 .. 6 : FlagOrder[i] = f
      BY <1>2
    <3>2. L[i] \in Setting(f)
      BY <1>1, <1>5, <2>2, <3>1
    <3>3. ASSUME NEW j \in 1 .. 6, L[j] \in Clearing(f)
          PROVE  FALSE
      <4>1. req.values[FlagOrder[j]] /\ f \in Excluded(FlagOrder[j])
        BY <1>1, <1>5, <2>2, <3>3
      <4>2. SetIn(D, FlagOrder[j]) /\ FlagOrder[j] \in Flags
        BY <1>2, <4>1
      <4> QED
        BY <2>2, <4>1, <4>2, OneWord
    <3>4. \A j \in i + 1 .. 6 : L[j] \notin Clearing(f)
      BY <3>3
    <3> QED
      BY <1>1, <3>1, <3>2, <3>4 DEF SetIn, Standing
  <2> QED
    BY <2>1, <2>2
<1>7. ASSUME ~SetIn(D, f), ClearedIn(L, f)
      PROVE  ClearedIn(D, f)
  <2>1. PICK i \in 1 .. 6 : L[i] \in Clearing(f)
    BY <1>1, <1>7 DEF ClearedIn, Some
  <2>2. CASE req.seen[f] /\ ~req.values[f]
    <3>1. PICK k \in 1 .. N : D[k] \in Naming(f)
      BY <2>2 DEF SeenIn, Standing
    <3>2. CASE D[k].value
      <4>1. D[k] \in Setting(f)
        BY <1>3, <3>1, <3>2 DEF Naming, Setting, Sets
      <4>2. PICK j \in k + 1 .. N : D[j] \in Clearing(f)
        BY <1>7, <4>1 DEF SetIn, Standing
      <4>3. j \in 1 .. N
        OBVIOUS
      <4> QED
        BY <4>2, <4>3 DEF ClearedIn, Some
    <3>3. CASE ~D[k].value
      <4>1. D[k] \in Clearing(f)
        BY <1>3, <3>1, <3>3 DEF Naming, Clearing, Clears
      <4> QED
        BY <4>1 DEF ClearedIn, Some
    <3> QED
      BY <3>2, <3>3
  <2>3. CASE req.values[FlagOrder[i]] /\ f \in Excluded(FlagOrder[i])
    <3>1. SetIn(D, FlagOrder[i])
      BY <1>2, <2>3
    <3>2. PICK k \in 1 .. N : D[k].flag = FlagOrder[i] /\ D[k].value
      BY <1>2, <1>5, <3>1
    <3>3. D[k] \in Clearing(f)
      BY <1>3, <2>3, <3>2 DEF Clearing, Clears
    <3> QED
      BY <3>3 DEF ClearedIn, Some
  <2> QED
    BY <1>1, <2>1, <2>2, <2>3
\* The last that excludes f is set itself.
<1>8. ASSUME ~SetIn(D, f), NEW k \in 1 .. N, D[k] \in Excluding(f)
      PROVE  ClearedIn(L, f)
  <2> DEFINE T == {j \in 1 .. N : D[j] \in Excluding(f)}
  <2>1. PICK m \in T : \A j \in T : j <= m
    <3>1. T \in SUBSET (1 .. N) /\ T # {}
      BY <1>8
    <3> HIDE DEF T
    <3> QED
      BY <1>1, <3>1, LastPosition
  <2>2. m \in 1 .. N /\ D[m].value /\ f \in Excluded(D[m].flag)
    BY DEF Excluding
  <2>3. PICK g \in Flags : g = D[m].flag
    BY <1>3, <2>2
  <2>4. D[m] \in Setting(g)
    BY <1>3, <2>2, <2>3 DEF Setting, Sets
  <2>5. ASSUME NEW j \in m + 1 .. N, D[j] \in Clearing(g)
        PROVE  FALSE
    <3>1. j \in 1 .. N /\ j # m /\ ~(j <= m)
      BY <2>2
    <3>2. D[j].flag # g
      BY <1>4, <2>2, <2>3, <3>1
    <3>3. D[j].value /\ g \in Excluded(D[j].flag)
      BY <2>5, <3>2 DEF Clearing, Clears
    <3>4. CASE D[j].flag = f
      <4>1. D[j] \in Setting(f)
        BY <1>3, <3>1, <3>3, <3>4 DEF Setting, Sets
      <4>2. PICK l \in j + 1 .. N : D[l] \in Clearing(f)
        BY <1>8, <3>1, <4>1 DEF SetIn, Standing
      <4>3. l \in 1 .. N /\ l # j /\ ~(l <= m)
        BY <3>1
      <4>4. D[l].flag # f
        BY <1>4, <3>1, <3>4, <4>3
      <4>5. D[l] \in Excluding(f)
        BY <4>2, <4>4 DEF Clearing, Clears, Excluding
      <4> QED
        BY <2>1, <4>3, <4>5
    <3>5. CASE D[j].flag # f
      <4>1. D[j].flag \in Flags
        BY <1>3, <3>1
      <4>2. f \in Excluded(D[j].flag)
        <5>1. D[j].flag \in Excluded(g)
          BY <3>3, <4>1, Exclusion
        <5> QED
          BY <2>2, <2>3, <3>5, <4>1, <5>1, Exclusion
      <4>3. D[j] \in Excluding(f)
        BY <1>3, <3>1, <3>3, <4>2 DEF Excluding
      <4> QED
        BY <2>1, <3>1, <4>3
    <3> QED
      BY <3>4, <3>5
  <2>6. SetIn(D, g)
    BY <2>2, <2>4, <2>5 DEF SetIn, Standing
  <2>7. req.seen[g] /\ req.values[g]
    BY <1>5, <2>6
  <2>8. PICK i \in 1 .. 6 : FlagOrder[i] = g
    BY <1>2
  <2>9. L[i] \in Clearing(f)
    BY <1>1, <2>2, <2>3, <2>7, <2>8
  <2> QED
    BY <1>1, <2>9 DEF ClearedIn, Some
<1>9. ASSUME ~SetIn(D, f), ClearedIn(D, f)
      PROVE  ClearedIn(L, f)
  <2>1. PICK k \in 1 .. N : D[k] \in Clearing(f)
    BY <1>9 DEF ClearedIn, Some
  <2>2. CASE D[k] \in Excluding(f)
    BY <1>8, <1>9, <2>2
  <2>3. CASE D[k] \notin Excluding(f)
    <3>1. D[k] \in Naming(f)
      BY <1>3, <2>1, <2>3 DEF Clearing, Clears, Naming, Excluding
    <3>2. CASE \E j \in k + 1 .. N : D[j] \in Excluding(f)
      <4>1. PICK j \in k + 1 .. N : D[j] \in Excluding(f)
        BY <3>2
      <4>2. j \in 1 .. N
        OBVIOUS
      <4> QED
        BY <1>8, <1>9, <4>1, <4>2
    <3>3. CASE ~(\E j \in k + 1 .. N : D[j] \in Excluding(f))
      <4>1. req.seen[f] /\ ~req.values[f]
        BY <1>9, <3>1, <3>3 DEF SeenIn, Standing
      <4>2. PICK i \in 1 .. 6 : FlagOrder[i] = f
        BY <1>2
      <4>3. L[i] \in Clearing(f)
        BY <1>1, <4>1, <4>2
      <4> QED
        BY <1>1, <4>3 DEF ClearedIn, Some
    <3> QED
      BY <3>2, <3>3
  <2> QED
    BY <2>2, <2>3
<1> QED
  BY <1>6, <1>7, <1>9 DEF L

-----------------------------------------------------------------------------
(* The members of a request *)

Errors == {"NONE", "CONFIG_PARSE", "OUT_OF_RANGE", "MEMORY", "UNKNOWN_OPTION", "MISSING_ARG"}

Requests ==
  [command : Words \cup {Nothing}, args : Seq(Words), flags : RequestFlags, err : Errors]

\* What a member adds to the arguments and to the flags of a document.
Held(m, key) == IF Has(m, key) THEN m[key] ELSE <<>>

\* A member of a request is of one kind.
LEMMA MemberShape ==
  ASSUME NEW m \in Members
  PROVE  \/ /\ Has(m, "command") /\ ~Has(m, "args") /\ ~Has(m, "flags") /\ ~Has(m, "other")
            /\ m.command \in Words
         \/ /\ ~Has(m, "command") /\ Has(m, "args") /\ ~Has(m, "flags") /\ ~Has(m, "other")
            /\ m.args \in Seq(Words)
         \/ /\ ~Has(m, "command") /\ ~Has(m, "args") /\ Has(m, "flags") /\ ~Has(m, "other")
            /\ m.flags \in Seq(Assignments)
         \/ /\ ~Has(m, "command") /\ ~Has(m, "args") /\ ~Has(m, "flags") /\ Has(m, "other")
            /\ m.other \in {"NONE", "CONFIG_PARSE", "OUT_OF_RANGE", "MEMORY"}
<1>1. CASE m \in [command : Words]
  <2>1. DOMAIN m = {"command"} /\ m.command \in Words
    BY <1>1
  <2> QED
    BY <2>1 DEF Has
<1>2. CASE m \in [args : Seq(Words)]
  <2>1. DOMAIN m = {"args"} /\ m.args \in Seq(Words)
    BY <1>2
  <2> QED
    BY <2>1 DEF Has
<1>3. CASE m \in [flags : Seq(Assignments)]
  <2>1. DOMAIN m = {"flags"} /\ m.flags \in Seq(Assignments)
    BY <1>3
  <2> QED
    BY <2>1 DEF Has
<1>4. CASE m \in [other : {"NONE", "CONFIG_PARSE", "OUT_OF_RANGE", "MEMORY"}]
  <2>1. DOMAIN m = {"other"} /\ m.other \in {"NONE", "CONFIG_PARSE", "OUT_OF_RANGE", "MEMORY"}
    BY <1>4
  <2> QED
    BY <2>1 DEF Has
<1> QED
  BY <1>1, <1>2, <1>3, <1>4 DEF Members

\* What a member holds of a kind has its type.
LEMMA HeldIs ==
  ASSUME NEW m \in Members
  PROVE  /\ Held(m, "args") = (IF Has(m, "args") THEN m.args ELSE <<>>)
         /\ Held(m, "flags") = (IF Has(m, "flags") THEN m.flags ELSE <<>>)
         /\ Held(m, "args") \in Seq(Words)
         /\ Held(m, "flags") \in Seq(Assignments)
<1>1. /\ Held(m, "args") = (IF Has(m, "args") THEN m.args ELSE <<>>)
      /\ Held(m, "flags") = (IF Has(m, "flags") THEN m.flags ELSE <<>>)
  BY DEF Held
<1>2. /\ Has(m, "args") => m.args \in Seq(Words)
      /\ Has(m, "flags") => m.flags \in Seq(Assignments)
  BY MemberShape
<1>3. <<>> \in Seq(Words) /\ <<>> \in Seq(Assignments)
  OBVIOUS
<1> QED
  BY <1>1, <1>2, <1>3

\* A request that has not failed holds just what the members so far hold.
Parsed(req, D, A) ==
  req.err = "NONE" =>
    /\ req.args = A /\ Len(A) <= MaxArgs
    /\ \A i \in 1 .. Len(D) : D[i].flag \in Flags
    /\ \A f \in Flags : (req.flags.values[f] <=> SetIn(D, f)) /\ (req.flags.seen[f] <=> SeenIn(D, f))

\* Nothing is parsed before the first member.
LEMMA NothingParsed == NoRequest \in Requests /\ Parsed(NoRequest, <<>>, <<>>)
<1>1. NoFlags \in [Flags -> BOOLEAN] /\ \A f \in Flags : NoFlags[f] = FALSE
  BY DEF NoFlags
<1>2. NoRequestFlags \in RequestFlags
  BY <1>1 DEF NoRequestFlags, RequestFlags
<1>3. NoRequest \in Requests
  BY <1>2 DEF NoRequest, Requests, Errors
<1>4. \A f \in Flags : ~SetIn(<<>>, f) /\ ~SeenIn(<<>>, f)
  <2>1. Len(<<>>) = 0
    OBVIOUS
  <2> QED
    BY <2>1, NoneYet DEF SetIn, SeenIn
<1>5. \A f \in Flags : /\ ~NoRequest.flags.values[f]
                       /\ ~NoRequest.flags.seen[f]
  BY <1>1 DEF NoRequest, NoRequestFlags
<1>6. NoRequest.args = <<>> /\ Len(<<>>) = 0 /\ 0 <= MaxArgs
  BY StartupAssumption DEF NoRequest
<1>7. \A i \in 1 .. Len(<<>>) : <<>>[i].flag \in Flags
  BY <1>6
<1> QED
  BY <1>3, <1>4, <1>5, <1>6, <1>7 DEF Parsed

\* One member.
LEMMA OneMember ==
  ASSUME NEW req \in Requests, NEW m \in Members,
         NEW D \in Seq(Assignments), NEW A \in Seq(Words), Parsed(req, D, A)
  PROVE  /\ Member(req, m) \in Requests
         /\ Parsed(Member(req, m), D \o Held(m, "flags"), A \o Held(m, "args"))
<1> DEFINE r == Member(req, m)
           d == Held(m, "flags")
           a == Held(m, "args")
<1>1. /\ req.command \in Words \cup {Nothing} /\ req.args \in Seq(Words)
      /\ req.flags \in RequestFlags /\ req.err \in Errors
      /\ req = [command |-> req.command, args |-> req.args, flags |-> req.flags, err |-> req.err]
  BY DEF Requests
<1>2. /\ a \in Seq(Words) /\ d \in Seq(Assignments)
      /\ a = (IF Has(m, "args") THEN m.args ELSE <<>>)
      /\ d = (IF Has(m, "flags") THEN m.flags ELSE <<>>)
  BY HeldIs
<1>3. /\ ~Has(m, "args") => A \o a = A
      /\ ~Has(m, "flags") => D \o d = D
  BY <1>2
<1> SUFFICES r \in Requests /\ Parsed(r, D \o d, A \o a)
  OBVIOUS
<1> HIDE DEF a, d
<1>4. CASE req.err # "NONE"
  <2>1. r = req
    BY <1>4 DEF Member
  <2> QED
    BY <1>4, <2>1 DEF Parsed
<1>5. CASE req.err = "NONE" /\ Has(m, "command")
  <2>1. /\ r = [req EXCEPT !.command = m.command]
        /\ m.command \in Words /\ ~Has(m, "args") /\ ~Has(m, "flags")
    BY <1>5, MemberShape DEF Member
  <2>2. r = [command |-> m.command, args |-> req.args, flags |-> req.flags, err |-> req.err]
    BY <1>1, <2>1
  <2>3. r \in Requests
    BY <1>1, <2>1, <2>2 DEF Requests
  <2>4. Parsed(r, D, A)
    BY <2>2 DEF Parsed
  <2> QED
    BY <1>3, <2>1, <2>3, <2>4
<1>6. CASE req.err = "NONE" /\ Has(m, "args")
  <2>1. /\ r = AddArgs(req, m.args)
        /\ m.args \in Seq(Words) /\ ~Has(m, "flags") /\ a = m.args
    BY <1>2, <1>6, MemberShape DEF Member
  <2>2. /\ req.args = A /\ Len(A) <= MaxArgs /\ MaxArgs \in Nat
        /\ Len(A) \in Nat /\ Len(m.args) \in Nat
    BY <1>6, <2>1, StartupAssumption DEF Parsed
  <2>3. CASE Len(m.args) <= MaxArgs - Len(req.args)
    <3>1. r = [req EXCEPT !.args = req.args \o m.args]
      BY <2>1, <2>3 DEF AddArgs
    <3>2. r = [command |-> req.command, args |-> A \o a, flags |-> req.flags, err |-> req.err]
      BY <1>1, <2>1, <2>2, <3>1
    <3>3. A \o a \in Seq(Words) /\ Len(A \o a) = Len(A) + Len(a)
      BY <1>2
    <3>4. r \in Requests
      BY <1>1, <3>2, <3>3 DEF Requests
    <3>5. Len(A \o a) <= MaxArgs
      BY <2>1, <2>2, <2>3, <3>3
    <3>6. Parsed(r, D, A \o a)
      BY <1>6, <3>2, <3>5 DEF Parsed
    <3> QED
      BY <1>3, <2>1, <3>4, <3>6
  <2>4. CASE ~(Len(m.args) <= MaxArgs - Len(req.args))
    <3> DEFINE w == SubSeq(m.args, 1, MaxArgs - Len(req.args))
    <3>1. r = [[req EXCEPT !.args = req.args \o w] EXCEPT !.err = "OUT_OF_RANGE"]
      BY <2>1, <2>4 DEF AddArgs, Failed
    <3>2. w \in Seq(Words)
      <4>1. MaxArgs - Len(req.args) \in 0 .. Len(m.args)
        BY <2>2, <2>4
      <4> QED
        BY <2>1, <4>1
    <3>3. req.args \o w \in Seq(Words)
      BY <1>1, <3>2
    <3> HIDE DEF w
    <3>4. r = [command |-> req.command, args |-> req.args \o w, flags |-> req.flags,
               err |-> "OUT_OF_RANGE"]
      BY <1>1, <3>1
    <3>5. r \in Requests
      BY <1>1, <3>3, <3>4 DEF Requests, Errors
    <3>6. r.err # "NONE"
      BY <3>4
    <3> QED
      BY <3>5, <3>6 DEF Parsed
  <2> QED
    BY <2>3, <2>4
<1>7. CASE req.err = "NONE" /\ Has(m, "flags")
  <2>1. /\ r = AddFlags(req, m.flags)
        /\ m.flags \in Seq(Assignments) /\ ~Has(m, "args") /\ d = m.flags
        /\ DOMAIN m.flags = 1 .. Len(d)
    BY <1>2, <1>7, MemberShape DEF Member
  <2>2. CASE \E i \in DOMAIN m.flags : m.flags[i].flag \notin Flags
    <3>1. r = [req EXCEPT !.err = "UNKNOWN_OPTION"]
      BY <2>1, <2>2 DEF AddFlags, Failed
    <3>2. r = [command |-> req.command, args |-> req.args, flags |-> req.flags,
               err |-> "UNKNOWN_OPTION"]
      BY <1>1, <3>1
    <3>3. r \in Requests
      BY <1>1, <3>2 DEF Requests, Errors
    <3>4. r.err # "NONE"
      BY <3>2
    <3> QED
      BY <3>3, <3>4 DEF Parsed
  <2>3. CASE ~(\E i \in DOMAIN m.flags : m.flags[i].flag \notin Flags)
    <3> DEFINE q == RecordAll(req.flags, d)
    <3>1. r = [req EXCEPT !.flags = q]
      BY <2>1, <2>3 DEF AddFlags
    <3>2. /\ q \in RequestFlags
          /\ \A f \in Flags :
               /\ q.values[f] <=> SetIn(d, f) \/ (req.flags.values[f] /\ ~ClearedIn(d, f))
               /\ q.seen[f] <=> SeenIn(d, f) \/ (req.flags.seen[f] /\ ~HiddenIn(d, f))
      BY <1>1, <1>2, RecordAllMeans
    <3> HIDE DEF q
    <3>3. r = [command |-> req.command, args |-> req.args, flags |-> q, err |-> req.err]
      BY <1>1, <3>1
    <3>4. r \in Requests
      BY <1>1, <3>2, <3>3 DEF Requests
    <3>5. /\ req.args = A /\ Len(A) <= MaxArgs
          /\ \A i \in 1 .. Len(D) : D[i].flag \in Flags
          /\ \A f \in Flags : /\ req.flags.values[f] <=> SetIn(D, f)
                              /\ req.flags.seen[f] <=> SeenIn(D, f)
      BY <1>7 DEF Parsed
    <3>6. \A f \in Flags : /\ q.values[f] <=> SetIn(D \o d, f)
                           /\ q.seen[f] <=> SeenIn(D \o d, f)
      <4>1. \A f \in Flags :
              /\ SetIn(D \o d, f) <=> SetIn(d, f) \/ (SetIn(D, f) /\ ~ClearedIn(d, f))
              /\ SeenIn(D \o d, f) <=> SeenIn(d, f) \/ (SeenIn(D, f) /\ ~HiddenIn(d, f))
        BY <1>2, FlagsJoined, SeenJoined
      <4> QED
        BY <3>2, <3>5, <4>1
    <3>7. \A i \in 1 .. Len(D \o d) : (D \o d)[i].flag \in Flags
      <4>1. /\ Len(D \o d) = Len(D) + Len(d)
            /\ \A i \in 1 .. Len(D) : (D \o d)[i] = D[i]
            /\ \A i \in 1 .. Len(D) + Len(d) : i \notin 1 .. Len(D) =>
                 i - Len(D) \in 1 .. Len(d) /\ (D \o d)[i] = d[i - Len(D)]
        BY <1>2
      <4>2. \A i \in 1 .. Len(d) : d[i].flag \in Flags
        BY <2>1, <2>3
      <4> QED
        BY <3>5, <4>1, <4>2
    <3>8. Parsed(r, D \o d, A)
      BY <3>3, <3>5, <3>6, <3>7 DEF Parsed
    <3> QED
      BY <1>3, <2>1, <3>4, <3>8
  <2> QED
    BY <2>2, <2>3
<1>8. CASE req.err = "NONE" /\ Has(m, "other")
  <2>1. /\ r = [req EXCEPT !.err = m.other]
        /\ m.other \in Errors /\ ~Has(m, "args") /\ ~Has(m, "flags")
    BY <1>8, MemberShape DEF Member, Failed, Errors
  <2>2. r = [command |-> req.command, args |-> req.args, flags |-> req.flags, err |-> m.other]
    BY <1>1, <2>1
  <2>3. r \in Requests
    BY <1>1, <2>1, <2>2 DEF Requests
  <2>4. Parsed(r, D, A)
    BY <1>8, <2>2 DEF Parsed
  <2> QED
    BY <1>3, <2>1, <2>3, <2>4
<1>9. Has(m, "command") \/ Has(m, "args") \/ Has(m, "flags") \/ Has(m, "other")
  BY MemberShape
<1> QED
  BY <1>4, <1>5, <1>6, <1>7, <1>8, <1>9

\* Gathered is a fold.
GatheredBy(g, S, members, key) ==
  /\ g \in [0 .. Len(members) -> Seq(S)]
  /\ g[0] = <<>>
  /\ \A n \in 1 .. Len(members) : g[n] = g[n - 1] \o Held(members[n], key)
  /\ Gathered(members, key) = g[Len(members)]

\* What the members hold is gathered member by member.
LEMMA GatheredFolds ==
  ASSUME NEW S, NEW members \in Seq(Members), NEW key,
         \A n \in 1 .. Len(members) : Held(members[n], key) \in Seq(S)
  PROVE  \E g : GatheredBy(g, S, members, key)
<1> DEFINE N == Len(members)
           V == Seq(S)
           F == [n \in 1 .. N |-> [w \in V |-> w \o Held(members[n], key)]]
           Eq(g) == g = [n \in 0 .. N |->
                           IF n = 0 THEN <<>>
                           ELSE g[n - 1] \o (IF Has(members[n], key) THEN members[n][key] ELSE <<>>)]
           upto == CHOOSE g : Eq(g)
<1>0. N \in Nat /\ <<>> \in V
  OBVIOUS
<1>1. F \in [1 .. N -> [V -> V]]
  <2>1. \A n \in 1 .. N : \A w \in V : w \o Held(members[n], key) \in V
    OBVIOUS
  <2> QED
    BY <2>1
<1>2. PICK g : Folded(g, V, <<>>, N, F)
  <2> HIDE DEF F
  <2> QED
    BY <1>0, <1>1, FoldExists
<1>3. /\ g \in [0 .. N -> V] /\ g[0] = <<>>
      /\ \A n \in 1 .. N : g[n] = g[n - 1] \o Held(members[n], key)
  <2>1. /\ g \in [0 .. N -> V] /\ g[0] = <<>>
        /\ \A n \in 1 .. N : g[n] = F[n][g[n - 1]]
    BY <1>2 DEF Folded
  <2>2. \A n \in 1 .. N : g[n - 1] \in V
    BY <2>1
  <2> QED
    BY <2>1, <2>2
<1>4. Eq(g)
  BY <1>3 DEF Held
<1>5. Eq(upto)
  <2> HIDE DEF Eq
  <2> QED
    BY <1>4
<1>6. Gathered(members, key) = upto[N]
  BY DEF Gathered
<1> HIDE DEF upto
<1>7. upto[0] = <<>>
  <2>1. 0 \in 0 .. N
    BY <1>0
  <2> QED
    BY <1>5, <2>1
<1>8. \A n \in 1 .. N : upto[n] = upto[n - 1] \o Held(members[n], key)
  BY <1>5 DEF Held
<1>9. \A n \in 0 .. N : n \in {k \in 0 .. N : upto[k] = g[k]}
  <2> DEFINE T == {k \in 0 .. N : upto[k] = g[k]}
  <2>1. 0 \in T
    BY <1>0, <1>3, <1>7
  <2>2. \A n \in 0 .. N - 1 : n \in T => n + 1 \in T
    <3> TAKE n \in 0 .. N - 1
    <3> HAVE n \in T
    <3>1. n + 1 \in 1 .. N /\ n + 1 \in 0 .. N /\ (n + 1) - 1 = n /\ upto[n] = g[n]
      BY <1>0
    <3>2. upto[n + 1] = g[n + 1]
      BY <1>3, <1>8, <3>1
    <3> QED
      BY <3>1, <3>2
  <2> HIDE DEF T
  <2>3. \A n \in 0 .. N : n \in T
    BY <1>0, <2>1, <2>2, Upwards
  <2> QED
    BY <2>3 DEF T
<1>10. Gathered(members, key) = g[N]
  BY <1>0, <1>6, <1>9
<1> QED
  BY <1>3, <1>10 DEF GatheredBy

\* What parsing a document finds, or that it failed.
LEMMA ParseRequestMeans ==
  ASSUME NEW members \in Seq(Members)
  PROVE  /\ ParseRequest(members) \in Requests
         /\ Gathered(members, "flags") \in Seq(Assignments)
         /\ Gathered(members, "args") \in Seq(Words)
         /\ Parsed(ParseRequest(members), Gathered(members, "flags"), Gathered(members, "args"))
         /\ ParseRequest(members).err = "NONE" => ParseRequest(members).command # Nothing
<1> DEFINE N == Len(members)
<1>0. N \in Nat /\ \A n \in 1 .. N : members[n] \in Members
  OBVIOUS
<1>1. PICK d : /\ d \in [0 .. N -> Seq(Assignments)] /\ d[0] = <<>>
               /\ \A n \in 1 .. N : d[n] = d[n - 1] \o Held(members[n], "flags")
               /\ Gathered(members, "flags") = d[N]
  <2>1. \A n \in 1 .. N : Held(members[n], "flags") \in Seq(Assignments)
    BY <1>0, HeldIs
  <2>2. \E g : GatheredBy(g, Assignments, members, "flags")
    BY <2>1, GatheredFolds
  <2> QED
    BY <2>2 DEF GatheredBy
<1>2. PICK a : /\ a \in [0 .. N -> Seq(Words)] /\ a[0] = <<>>
               /\ \A n \in 1 .. N : a[n] = a[n - 1] \o Held(members[n], "args")
               /\ Gathered(members, "args") = a[N]
  <2>1. \A n \in 1 .. N : Held(members[n], "args") \in Seq(Words)
    BY <1>0, HeldIs
  <2>2. \E g : GatheredBy(g, Words, members, "args")
    BY <2>1, GatheredFolds
  <2> QED
    BY <2>2 DEF GatheredBy
\* A step of the parse keeps to requests; that it is Member's step follows below.
<1> DEFINE F == [n \in 1 .. N |->
                  [q \in Requests |-> IF Member(q, members[n]) \in Requests
                                        THEN Member(q, members[n]) ELSE q]]
<1>3. PICK g : Folded(g, Requests, NoRequest, N, F)
  <2>1. F \in [1 .. N -> [Requests -> Requests]]
    OBVIOUS
  <2> HIDE DEF F
  <2> QED
    BY <1>0, <2>1, NothingParsed, FoldExists
<1>4. /\ g \in [0 .. N -> Requests] /\ g[0] = NoRequest
      /\ \A n \in 1 .. N : Member(g[n - 1], members[n]) \in Requests =>
                             g[n] = Member(g[n - 1], members[n])
  <2>1. /\ g \in [0 .. N -> Requests] /\ g[0] = NoRequest
        /\ \A n \in 1 .. N : g[n] = F[n][g[n - 1]]
    BY <1>3 DEF Folded
  <2>2. \A n \in 1 .. N : g[n - 1] \in Requests
    BY <2>1
  <2> QED
    BY <2>1, <2>2
<1> HIDE DEF F
<1> DEFINE P(n) == Parsed(g[n], d[n], a[n])
<1>5. \A n \in 0 .. N - 1 :
        P(n) => g[n + 1] = Member(g[n], members[n + 1]) /\ P(n + 1)
  <2> SUFFICES ASSUME NEW n \in 0 .. N - 1, P(n)
               PROVE  g[n + 1] = Member(g[n], members[n + 1]) /\ P(n + 1)
    OBVIOUS
  <2>1. n + 1 \in 1 .. N /\ (n + 1) - 1 = n /\ n \in 0 .. N /\ members[n + 1] \in Members
    BY <1>0
  <2>2. g[n] \in Requests /\ d[n] \in Seq(Assignments) /\ a[n] \in Seq(Words)
    BY <1>1, <1>2, <1>4, <2>1
  <2> DEFINE q == g[n]
             dn == d[n]
             an == a[n]
             m == members[n + 1]
  <2>3. Member(q, m) \in Requests /\ Parsed(Member(q, m), dn \o Held(m, "flags"), an \o Held(m, "args"))
    <3>1. q \in Requests /\ dn \in Seq(Assignments) /\ an \in Seq(Words) /\ m \in Members
          /\ Parsed(q, dn, an)
      BY <2>1, <2>2
    <3> HIDE DEF q, dn, an, m
    <3> QED
      BY <3>1, OneMember
  <2>4. g[n + 1] = Member(g[n], members[n + 1])
    BY <1>4, <2>1, <2>3
  <2>5. d[n + 1] = dn \o Held(m, "flags") /\ a[n + 1] = an \o Held(m, "args")
    BY <1>1, <1>2, <2>1
  <2> QED
    BY <2>3, <2>4, <2>5
<1>6. \A n \in 0 .. N : n \in {k \in 0 .. N : P(k)}
  <2> DEFINE T == {k \in 0 .. N : P(k)}
  <2>1. 0 \in T
    BY <1>0, <1>1, <1>2, <1>4, NothingParsed
  <2>2. \A n \in 0 .. N - 1 : n \in T => n + 1 \in T
    <3> TAKE n \in 0 .. N - 1
    <3> HAVE n \in T
    <3>1. P(n)
      OBVIOUS
    <3> HIDE DEF P
    <3>2. n + 1 \in 0 .. N /\ P(n + 1)
      BY <1>0, <1>5, <3>1
    <3> QED
      BY <3>2
  <2> HIDE DEF T
  <2>3. \A n \in 0 .. N : n \in T
    BY <1>0, <2>1, <2>2, Upwards
  <2> QED
    BY <2>3 DEF T
<1>7. \A n \in 1 .. N : g[n] = Member(g[n - 1], members[n])
  <2> TAKE n \in 1 .. N
  <2>1. n - 1 \in 0 .. N - 1 /\ n - 1 \in 0 .. N /\ (n - 1) + 1 = n
    BY <1>0
  <2>2. P(n - 1)
    BY <1>6, <2>1
  <2> HIDE DEF P
  <2>3. g[(n - 1) + 1] = Member(g[n - 1], members[(n - 1) + 1])
    BY <1>5, <2>1, <2>2
  <2> QED
    BY <2>1, <2>3
<1> DEFINE Eq(h) == h = [n \in 0 .. N |-> IF n = 0 THEN NoRequest
                                          ELSE Member(h[n - 1], members[n])]
           parsed == CHOOSE h : Eq(h)
           req == parsed[N]
<1>8. Eq(g)
  BY <1>4, <1>7
<1>9. Eq(parsed)
  <2> HIDE DEF Eq
  <2> QED
    BY <1>8
<1>10. ParseRequest(members) =
         IF req.err = "NONE" /\ req.command \in {Nothing, ""} THEN Failed(req, "MISSING_ARG") ELSE req
  BY DEF ParseRequest
<1> HIDE DEF parsed
<1>11. parsed[0] = NoRequest /\ \A n \in 1 .. N : parsed[n] = Member(parsed[n - 1], members[n])
  <2>1. 0 \in 0 .. N
    BY <1>0
  <2> QED
    BY <1>9, <2>1
<1>12. \A n \in 0 .. N : n \in {k \in 0 .. N : parsed[k] = g[k]}
  <2> DEFINE T == {k \in 0 .. N : parsed[k] = g[k]}
  <2>1. 0 \in T
    BY <1>0, <1>4, <1>11
  <2>2. \A n \in 0 .. N - 1 : n \in T => n + 1 \in T
    <3> TAKE n \in 0 .. N - 1
    <3> HAVE n \in T
    <3>1. n + 1 \in 1 .. N /\ n + 1 \in 0 .. N /\ (n + 1) - 1 = n /\ parsed[n] = g[n]
      BY <1>0
    <3>2. parsed[n + 1] = g[n + 1]
      BY <1>7, <1>11, <3>1
    <3> QED
      BY <3>1, <3>2
  <2> HIDE DEF T
  <2>3. \A n \in 0 .. N : n \in T
    BY <1>0, <2>1, <2>2, Upwards
  <2> QED
    BY <2>3 DEF T
<1>13. req \in Requests /\ Parsed(req, Gathered(members, "flags"), Gathered(members, "args"))
  <2>1. N \in 0 .. N
    BY <1>0
  <2>2. parsed[N] = g[N] /\ P(N)
    BY <1>6, <1>12, <2>1
  <2> QED
    BY <1>1, <1>2, <1>4, <2>1, <2>2
<1>14. Gathered(members, "flags") \in Seq(Assignments) /\ Gathered(members, "args") \in Seq(Words)
  BY <1>0, <1>1, <1>2
<1> HIDE DEF req
<1>15. CASE req.err = "NONE" /\ req.command \in {Nothing, ""}
  <2>1. ParseRequest(members) = [req EXCEPT !.err = "MISSING_ARG"]
    BY <1>10, <1>15 DEF Failed
  <2>2. ParseRequest(members) \in Requests /\ ParseRequest(members).err = "MISSING_ARG"
    BY <1>13, <2>1 DEF Requests, Errors
  <2> QED
    BY <1>14, <2>2 DEF Parsed
<1>16. CASE ~(req.err = "NONE" /\ req.command \in {Nothing, ""})
  <2>1. ParseRequest(members) = req
    BY <1>10, <1>16
  <2> QED
    BY <1>13, <1>14, <1>16, <2>1
<1> QED
  BY <1>15, <1>16

-----------------------------------------------------------------------------
(* The command line *)

\* The scan comes to the command, or to the end.
LEMMA ScanArrives ==
  ASSUME NEW argv \in Seq(Words)
  PROVE  /\ CommandIndex(argv) \in 1 .. Len(argv) + 1
         /\ GivenArgs(argv) \in Seq(Words)
<1> DEFINE N == Len(argv)
           V == {"option", "value", "rest"}
           F == [n \in 1 .. N |-> [p \in V |-> TakenAfter(p, argv[n])]]
           Eq(g) == g = [n \in 0 .. N |-> IF n = 0 THEN "option" ELSE TakenAfter(g[n - 1], argv[n])]
           next == CHOOSE g : Eq(g)
<1>0. N \in Nat /\ "option" \in V
  OBVIOUS
<1>1. F \in [1 .. N -> [V -> V]]
  <2>1. \A n \in 1 .. N : \A p \in V : TakenAfter(p, argv[n]) \in V
    BY DEF TakenAfter
  <2> HIDE DEF V
  <2> QED
    BY <2>1
<1>2. PICK g : Folded(g, V, "option", N, F)
  <2> HIDE DEF F, V
  <2> QED
    BY <1>0, <1>1, FoldExists
<1>3. /\ g \in [0 .. N -> V] /\ g[0] = "option"
      /\ \A n \in 1 .. N : g[n] = TakenAfter(g[n - 1], argv[n])
  <2>1. /\ g \in [0 .. N -> V] /\ g[0] = "option"
        /\ \A n \in 1 .. N : g[n] = F[n][g[n - 1]]
    BY <1>2 DEF Folded
  <2>2. \A n \in 1 .. N : g[n - 1] \in V
    BY <2>1
  <2> HIDE DEF V
  <2> QED
    BY <2>1, <2>2
<1>4. Eq(g)
  BY <1>3
<1>5. Eq(next)
  <2> HIDE DEF Eq
  <2> QED
    BY <1>4
<1>6. Visited(argv) = {i \in 1 .. N + 1 : next[i - 1] = "option"}
  <2>1. Taken(argv) = next
    BY DEF Taken
  <2> QED
    BY <2>1 DEF Visited
<1> HIDE DEF next
<1>7. next[0] = "option"
  <2>1. 0 \in 0 .. N
    BY <1>0
  <2> QED
    BY <1>5, <2>1
<1>8. 1 \in Visited(argv)
  <2>1. 1 \in 1 .. N + 1 /\ 1 - 1 = 0
    BY <1>0
  <2> QED
    BY <1>6, <1>7, <2>1
<1>9. CommandIndex(argv) \in 1 .. N + 1
  <2>1. N + 1 \in Nat /\ Visited(argv) \in SUBSET (1 .. N + 1) /\ Visited(argv) # {}
    BY <1>0, <1>6, <1>8
  <2>2. PICK m \in Visited(argv) : \A j \in Visited(argv) : j <= m
    BY <2>1, LastPosition
  <2>3. \A j \in Visited(argv) : m >= j
    BY <2>1, <2>2
  <2>4. Max(Visited(argv)) \in Visited(argv)
    BY <2>3 DEF Max
  <2> QED
    BY <2>1, <2>4 DEF CommandIndex
<1>10. GivenArgs(argv) \in Seq(Words)
  <2>1. CommandIndex(argv) + 1 \in 1 .. N + 2
    BY <1>9
  <2> HIDE DEF N
  <2>2. \A k \in 1 .. Len(argv) + 2 : SubSeq(argv, k, Len(argv)) \in Seq(Words)
    OBVIOUS
  <2> QED
    BY <2>1, <2>2 DEF GivenArgs, N
<1> QED
  BY <1>9, <1>10

\* The options of a command line make a layer, an empty one without arguments.
LEMMA FlagLayerIsLayer ==
  ASSUME NEW argv \in Seq(Words)
  PROVE  /\ FlagLayer(argv) \in Seq(Assignments)
         /\ argv = <<>> => FlagLayer(argv) = <<>>
<1>1. /\ Len(argv) \in Nat
      /\ FlagLayer(argv) = [i \in 1 .. Len(argv) |->
                              [flag |-> IF i \in Options(argv) THEN argv[i] ELSE NoFlag,
                               value |-> TRUE]]
  BY DEF FlagLayer
<1>2. \A i \in 1 .. Len(argv) : [flag |-> IF i \in Options(argv) THEN argv[i] ELSE NoFlag,
                                 value |-> TRUE] \in Assignments
  BY Table DEF Assignments
<1>3. FlagLayer(argv) \in Seq(Assignments)
  BY <1>1, <1>2
<1>4. ASSUME argv = <<>>
      PROVE  FlagLayer(argv) = <<>>
  <2>1. Len(FlagLayer(argv)) = 0
    BY <1>1, <1>4
  <2> QED
    BY <1>3, <2>1
<1> QED
  BY <1>3, <1>4

-----------------------------------------------------------------------------
(* The inductive invariant *)

Places ==
  {"start", "scan", "file", "env", "args", "defaults", "front",
   "read", "dispatch", "handler", "tui", "exit"}

\* Where main() is, before and after it chose a front end.
PlaceInvariant ==
  /\ input \in Inputs
  /\ at \in Places
  /\ at # "exit" => said = Nothing /\ ran = Nothing /\ err = "NONE"
  /\ at \in {"start", "scan", "file", "env", "args", "defaults", "front"} => front = Nothing
  /\ at = "read" => front = "headless"
  /\ at \in {"dispatch", "handler"} => front \in {"command", "headless"}
  /\ at = "tui" => front \in {"command", "tui"}
  /\ front = "command" => input.argv # <<>>
  /\ front \in {"tui", "headless"} => input.argv = <<>>
  /\ at = "args" => input.argv # <<>>
  /\ ran \in Commands => ran = command /\ front \in {"command", "headless"}
  /\ ran = "tui" => front \in {"command", "tui"}

\* The command and its arguments: none yet, or those of the chosen front end, whole
\* unless the run has ended for their number.
CommandInvariant ==
  /\ command \in Words \cup {Nothing} /\ args \in Seq(Words)
  /\ at \in {"start", "scan", "file", "env", "args"} => command = Nothing
  /\ at \in {"defaults", "front", "read"} /\ input.argv = <<>> => command = Nothing
  /\ command # Nothing /\ ~(at = "exit" /\ front = Nothing) =>
       /\ Len(args) <= MaxArgs
       /\ args = IF front = "headless" THEN DocumentArgs ELSE GivenArgs(input.argv)
  /\ at = "handler" => Registered(command) /\ (RequiresTerminal(command) => Interactive)

\* What the flags are worth, layer by layer.
Worth(values, layer) == \A f \in Flags : values[f] <=> SetIn(layer, f)

WorthDefaulted(values, layer, tty_out) ==
  \A f \in Flags : values[f] <=> \/ SetIn(layer, f)
                                 \/ f = "json" /\ ~tty_out /\ ~SetIn(layer, "plain")

WorthForced(values, layer) ==
  \A f \in Flags : values[f] <=> f = "json" \/ (f # "plain" /\ SetIn(layer, f))

FlagInvariant ==
  /\ flags \in [Flags -> BOOLEAN] /\ Exclusive(flags)
  /\ at \in {"start", "scan", "file"} => Worth(flags, <<>>)
  /\ at = "env" => Worth(flags, FileLayer)
  /\ at = "args" => Worth(flags, FileLayer \o SetTrue(input.env))
  /\ at = "defaults" => Worth(flags, ProgramLayers)
  /\ at = "front" \/ front \in {"command", "tui"} => WorthDefaulted(flags, ProgramLayers, input.tty_out)
  /\ front = "headless" =>
       /\ flags["json"] /\ ~flags["plain"]
       /\ command = Nothing => WorthForced(flags, ProgramLayers)
       /\ command # Nothing /\ Distinct(DocumentFlags) =>
            WorthForced(flags, ProgramLayers \o DocumentFlags)
  /\ (at = "tui" \/ ran = "tui") => Interactive /\ ~flags["json"]

\* What was said, and why the run ended.
ReportInvariant ==
  /\ front \in {Nothing, "command", "tui", "headless"}
  /\ level \in {"ERROR", "INFO", "DEBUG"}
  /\ said \in {Nothing, "text", "json"}
  /\ ran \in Commands \cup {"help", "tui", Nothing}
  /\ front = "headless" => said # "text"
  /\ ExitIsExplained

StartupInvariant ==
  PlaceInvariant /\ CommandInvariant /\ FlagInvariant /\ ReportInvariant

-----------------------------------------------------------------------------
(* Layers in a run *)

\* The parts of an input have their types.
LEMMA RunIsTyped ==
  ASSUME input \in Inputs
  PROVE  /\ input.argv \in Seq(Words) /\ input.env \in SUBSET Flags
         /\ input.tty_in \in BOOLEAN /\ input.tty_out \in BOOLEAN
         /\ input.file.ends \in FileEnds /\ input.file.entries \in Seq(Assignments)
         /\ input.request.kind \in RequestKinds /\ input.request.members \in Seq(Members)
  BY StartupAssumption

\* So have the layers; without arguments there are two.
LEMMA LayersAreTyped ==
  ASSUME input \in Inputs
  PROVE  /\ FileLayer \in Seq(Assignments)
         /\ SetTrue(input.env) \in Seq(Assignments)
         /\ FileLayer \o SetTrue(input.env) \in Seq(Assignments)
         /\ FlagLayer(input.argv) \in Seq(Assignments)
         /\ ProgramLayers = (FileLayer \o SetTrue(input.env)) \o FlagLayer(input.argv)
         /\ ProgramLayers \in Seq(Assignments)
         /\ input.argv = <<>> => ProgramLayers = FileLayer \o SetTrue(input.env)
         /\ DocumentFlags \in Seq(Assignments)
         /\ ProgramLayers \o DocumentFlags \in Seq(Assignments)
<1>1. FileLayer \in Seq(Assignments)
  <2>1. <<>> \in Seq(Assignments)
    OBVIOUS
  <2> QED
    BY <2>1, RunIsTyped DEF FileLayer
<1>2. SetTrue(input.env) \in Seq(Assignments)
  BY SetTrueIsLayer
<1>3. /\ FlagLayer(input.argv) \in Seq(Assignments)
      /\ input.argv = <<>> => FlagLayer(input.argv) = <<>>
  BY RunIsTyped, FlagLayerIsLayer
<1>4. DocumentFlags \in Seq(Assignments)
  BY RunIsTyped, ParseRequestMeans DEF DocumentFlags
<1>5. FileLayer \o SetTrue(input.env) \in Seq(Assignments)
  BY <1>1, <1>2
<1>6. ProgramLayers = (FileLayer \o SetTrue(input.env)) \o FlagLayer(input.argv)
  BY DEF ProgramLayers
<1>7. ProgramLayers \in Seq(Assignments)
  BY <1>3, <1>5, <1>6
<1>8. ProgramLayers \o DocumentFlags \in Seq(Assignments)
  BY <1>4, <1>7
<1>9. ASSUME input.argv = <<>>
      PROVE  ProgramLayers = FileLayer \o SetTrue(input.env)
  <2>1. FlagLayer(input.argv) = <<>>
    BY <1>3, <1>9
  <2> HIDE <1>9
  <2>2. \A s \in Seq(Assignments) : s \o <<>> = s
    OBVIOUS
  <2> QED
    BY <1>5, <1>6, <2>1, <2>2
<1> QED
  BY <1>1, <1>2, <1>3, <1>4, <1>5, <1>6, <1>7, <1>8, <1>9

\* The input does not change, nor what is made of it.
LEMMA SameInput ==
  ASSUME UNCHANGED input
  PROVE  /\ FileLayer' = FileLayer /\ ProgramLayers' = ProgramLayers
         /\ SetTrue(input.env)' = SetTrue(input.env)
         /\ DocumentFlags' = DocumentFlags /\ DocumentArgs' = DocumentArgs
         /\ Distinct(DocumentFlags)' = Distinct(DocumentFlags)
         /\ (ProgramLayers \o DocumentFlags)' = ProgramLayers \o DocumentFlags
         /\ GivenArgs(input.argv)' = GivenArgs(input.argv)
  BY DEF FileLayer, ProgramLayers, DocumentFlags, DocumentArgs

\* The next layer.
LEMMA NextLayer ==
  ASSUME NEW values \in [Flags -> BOOLEAN], Exclusive(values),
         NEW a \in Seq(Assignments), NEW b \in Seq(Assignments), Worth(values, a)
  PROVE  /\ ApplyAll(values, b) \in [Flags -> BOOLEAN]
         /\ Exclusive(ApplyAll(values, b))
         /\ Worth(ApplyAll(values, b), a \o b)
<1>1. \A f \in Flags : SetIn(a \o b, f) <=> SetIn(b, f) \/ (SetIn(a, f) /\ ~ClearedIn(b, f))
  BY FlagsJoined
<1>2. \A f \in Flags : ApplyAll(values, b)[f] <=> SetIn(b, f) \/ (values[f] /\ ~ClearedIn(b, f))
  BY ApplyAllMeans
<1> QED
  BY <1>1, <1>2, ApplyAllMeans DEF Worth

\* The output defaults.
LEMMA DefaultedMeans ==
  ASSUME NEW values \in [Flags -> BOOLEAN], Exclusive(values), NEW layer, Worth(values, layer),
         input.tty_out \in BOOLEAN
  PROVE  /\ Defaulted(values) \in [Flags -> BOOLEAN]
         /\ Exclusive(Defaulted(values))
         /\ WorthDefaulted(Defaulted(values), layer, input.tty_out)
<1>1. "json" \in Flags /\ "plain" \in Flags /\ "json" # "plain"
  BY DEF Flags
<1>2. ~(values["json"] /\ values["plain"])
  BY <1>1 DEF Exclusive, Excluded, OutputFlags, LevelFlags
<1>3. (values["json"] <=> SetIn(layer, "json")) /\ (values["plain"] <=> SetIn(layer, "plain"))
  BY <1>1 DEF Worth
<1>4. CASE ~input.tty_out /\ ~values["plain"] /\ ~values["json"]
  <2>1. Defaulted(values) = Apply(values, "json", TRUE)
    BY <1>4 DEF Defaulted
  <2> DEFINE a == [flag |-> "json", value |-> TRUE]
  <2>2. a \in Assignments /\ a.flag = "json" /\ a.value = TRUE
    BY <1>1, Table DEF Assignments
  <2>3. /\ Defaulted(values) \in [Flags -> BOOLEAN] /\ Exclusive(Defaulted(values))
        /\ \A f \in Flags : Defaulted(values)[f] <=> Sets(a, f) \/ (values[f] /\ ~Clears(a, f))
    <3> HIDE DEF a
    <3> DEFINE w == Apply(values, a.flag, a.value)
    <3>1. Defaulted(values) = w
      BY <2>1, <2>2
    <3>2. /\ w \in [Flags -> BOOLEAN] /\ Exclusive(w)
          /\ \A f \in Flags : w[f] <=> Sets(a, f) \/ (values[f] /\ ~Clears(a, f))
      BY <2>2, Applied
    <3> HIDE DEF w
    <3> QED
      BY <3>1, <3>2
  <2>4. \A f \in Flags : /\ Sets(a, f) <=> f = "json"
                         /\ Clears(a, f) <=> f = "plain"
    BY <2>2 DEF Sets, Clears, Excluded, OutputFlags, LevelFlags
  <2> QED
    BY <1>3, <1>4, <2>3, <2>4 DEF Worth, WorthDefaulted
<1>5. CASE ~(~input.tty_out /\ ~values["plain"] /\ ~values["json"])
  <2>1. Defaulted(values) = values
    BY <1>5 DEF Defaulted
  <2>2. WorthDefaulted(values, layer, input.tty_out)
    BY <1>2, <1>3, <1>5 DEF Worth, WorthDefaulted
  <2> QED
    BY <2>1, <2>2
<1> QED
  BY <1>4, <1>5

\* JSON is forced.
LEMMA ForceJsonMeans ==
  ASSUME NEW values \in [Flags -> BOOLEAN], Exclusive(values)
  PROVE  /\ ForceJson(values) \in [Flags -> BOOLEAN]
         /\ Exclusive(ForceJson(values))
         /\ \A f \in Flags : ForceJson(values)[f] <=> f = "json" \/ (f # "plain" /\ values[f])
<1> DEFINE a == [flag |-> "plain", value |-> FALSE]
           b == [flag |-> "json", value |-> TRUE]
<1>1. "json" \in Flags /\ "plain" \in Flags
  BY DEF Flags
<1>2. /\ a \in Assignments /\ a.flag = "plain" /\ a.value = FALSE
      /\ b \in Assignments /\ b.flag = "json" /\ b.value = TRUE
  BY <1>1, Table DEF Assignments
<1>3. \A f \in Flags : /\ Sets(b, f) <=> f = "json"
                       /\ Clears(b, f) <=> f = "plain"
                       /\ ~Sets(a, f)
                       /\ Clears(a, f) <=> f = "plain"
  BY <1>2 DEF Sets, Clears, Excluded, OutputFlags, LevelFlags
<1> HIDE DEF a, b
<1> DEFINE u == Apply(values, a.flag, a.value)
<1>4. /\ u \in [Flags -> BOOLEAN] /\ Exclusive(u)
      /\ \A f \in Flags : u[f] <=> Sets(a, f) \/ (values[f] /\ ~Clears(a, f))
  BY <1>2, Applied
<1>5. ForceJson(values) = Apply(u, b.flag, b.value)
  BY <1>2 DEF ForceJson
<1> HIDE DEF u
<1>6. /\ Apply(u, b.flag, b.value) \in [Flags -> BOOLEAN] /\ Exclusive(Apply(u, b.flag, b.value))
      /\ \A f \in Flags : Apply(u, b.flag, b.value)[f] <=> Sets(b, f) \/ (u[f] /\ ~Clears(b, f))
  BY <1>2, <1>4, Applied
<1> QED
  BY <1>3, <1>4, <1>5, <1>6

\* A request that was parsed: whole arguments, and flags that are worth what the
\* document says after the layers of the program.
LEMMA RequestMeans ==
  ASSUME input \in Inputs, NEW values \in [Flags -> BOOLEAN], Exclusive(values),
         ParseRequest(input.request.members).err = "NONE"
  PROVE  LET req == ParseRequest(input.request.members)
             forced == ForceJson(ApplyRequest(values, req.flags))
         IN /\ req.command \in Words
            /\ req.args = DocumentArgs /\ DocumentArgs \in Seq(Words) /\ Len(DocumentArgs) <= MaxArgs
            /\ forced \in [Flags -> BOOLEAN] /\ Exclusive(forced)
            /\ forced["json"] /\ ~forced["plain"]
            /\ WorthForced(values, ProgramLayers) /\ Distinct(DocumentFlags) =>
                 WorthForced(forced, ProgramLayers \o DocumentFlags)
<1> DEFINE r == ParseRequest(input.request.members)
           L == SeenFlags(r.flags)
           u == ApplyAll(values, L)
           D == DocumentFlags
<1>1. /\ r \in Requests /\ r.err = "NONE" /\ r.command # Nothing
      /\ D \in Seq(Assignments) /\ DocumentArgs \in Seq(Words)
      /\ Parsed(r, D, DocumentArgs)
  BY RunIsTyped, ParseRequestMeans DEF DocumentFlags, DocumentArgs
<1> HIDE DEF r, D
<1>2. r.command \in Words /\ r.flags \in RequestFlags
  BY <1>1 DEF Requests
<1>3. /\ r.args = DocumentArgs /\ Len(DocumentArgs) <= MaxArgs
      /\ \A i \in 1 .. Len(D) : D[i].flag \in Flags
      /\ \A f \in Flags : (r.flags.values[f] <=> SetIn(D, f)) /\ (r.flags.seen[f] <=> SeenIn(D, f))
  BY <1>1 DEF Parsed
<1>4. L \in Seq(Assignments)
  BY <1>2, SeenFlagsAre
<1>5. ASSUME Distinct(D)
      PROVE  \A f \in Flags : /\ SetIn(L, f) <=> SetIn(D, f)
                              /\ ~SetIn(D, f) => (ClearedIn(L, f) <=> ClearedIn(D, f))
  BY <1>1, <1>2, <1>3, <1>5, TableOrderWillDo
<1>6. ApplyRequest(values, r.flags) = u
  BY DEF ApplyRequest
<1> HIDE DEF L
<1>7. /\ u \in [Flags -> BOOLEAN] /\ Exclusive(u)
      /\ \A f \in Flags : u[f] <=> SetIn(L, f) \/ (values[f] /\ ~ClearedIn(L, f))
  BY <1>4, ApplyAllMeans
<1> HIDE DEF u
<1>8. /\ ForceJson(u) \in [Flags -> BOOLEAN] /\ Exclusive(ForceJson(u))
      /\ \A f \in Flags : ForceJson(u)[f] <=> f = "json" \/ (f # "plain" /\ u[f])
  BY <1>7, ForceJsonMeans
<1>9. ForceJson(u)["json"] /\ ~ForceJson(u)["plain"]
  <2>1. "json" \in Flags /\ "plain" \in Flags
    BY DEF Flags
  <2> QED
    BY <1>8, <2>1
<1>10. ASSUME WorthForced(values, ProgramLayers), Distinct(D)
       PROVE  WorthForced(ForceJson(u), ProgramLayers \o D)
  <2>1. ProgramLayers \in Seq(Assignments)
    BY LayersAreTyped
  <2>2. \A f \in Flags : SetIn(ProgramLayers \o D, f) <=>
                           SetIn(D, f) \/ (SetIn(ProgramLayers, f) /\ ~ClearedIn(D, f))
    BY <1>1, <2>1, FlagsJoined
  <2>3. \A f \in Flags : values[f] <=> f = "json" \/ (f # "plain" /\ SetIn(ProgramLayers, f))
    BY <1>10 DEF WorthForced
  <2>4. \A f \in Flags : /\ SetIn(L, f) <=> SetIn(D, f)
                         /\ ~SetIn(D, f) => (ClearedIn(L, f) <=> ClearedIn(D, f))
    BY <1>5, <1>10
  <2>5. \A f \in Flags : ForceJson(u)[f] <=> f = "json" \/ (f # "plain" /\ SetIn(ProgramLayers \o D, f))
    BY <1>7, <1>8, <2>2, <2>3, <2>4
  <2> QED
    BY <2>5 DEF WorthForced
<1>11. /\ r.command \in Words
       /\ r.args = DocumentArgs /\ DocumentArgs \in Seq(Words) /\ Len(DocumentArgs) <= MaxArgs
       /\ ForceJson(u) \in [Flags -> BOOLEAN] /\ Exclusive(ForceJson(u))
       /\ ForceJson(u)["json"] /\ ~ForceJson(u)["plain"]
       /\ WorthForced(values, ProgramLayers) /\ Distinct(D) =>
            WorthForced(ForceJson(u), ProgramLayers \o D)
  BY <1>1, <1>2, <1>3, <1>8, <1>9, <1>10
<1> QED
  BY <1>6, <1>11 DEF r, D

\* What the scans and the file can report.
LEMMA ScanErrorIs ==
  ASSUME NEW argv
  PROVE  ScanError(argv) \in {"NONE", "MISSING_ARG", "UNKNOWN_OPTION"}
<1> DEFINE wrong(i) == CASE argv[i] \in Flags -> "NONE"
                         [] argv[i] = "config" -> IF i = Len(argv) THEN "MISSING_ARG" ELSE "NONE"
                         [] OTHER -> "UNKNOWN_OPTION"
           found == {i \in Options(argv) : wrong(i) # "NONE"}
<1>1. \A i : wrong(i) \in {"NONE", "MISSING_ARG", "UNKNOWN_OPTION"}
  OBVIOUS
<1>2. ScanError(argv) = IF found = {} THEN "NONE" ELSE wrong(Min(found))
  BY DEF ScanError
<1> HIDE DEF wrong, found
<1> QED
  BY <1>1, <1>2

\* What reading the configuration file can report.
LEMMA FileErrorIs == FileError \in {"NONE", "IO", "OUT_OF_RANGE", "CONFIG_PARSE"}
  BY DEF FileError

-----------------------------------------------------------------------------
(* The steps of a run *)

\* A run starts in the invariant: no layer was applied, and nothing said.
LEMMA InitInvariant == Init => StartupInvariant
<1> SUFFICES ASSUME Init
             PROVE  StartupInvariant
  OBVIOUS
<1> USE DEF Init
<1>1. PlaceInvariant
  BY DEF PlaceInvariant, Places, Nothing, Commands
<1>2. CommandInvariant
  BY DEF CommandInvariant
<1>3. FlagInvariant
  <2>1. flags \in [Flags -> BOOLEAN] /\ \A f \in Flags : ~flags[f]
    BY DEF NoFlags
  <2>2. Exclusive(flags)
    BY <2>1 DEF Exclusive
  <2>3. Worth(flags, <<>>)
    <3>1. Len(<<>>) = 0
      OBVIOUS
    <3> QED
      BY <2>1, <3>1, NoneYet DEF Worth, SetIn
  <2> QED
    BY <2>1, <2>2, <2>3 DEF FlagInvariant, Nothing
<1>4. ReportInvariant
  BY DEF ReportInvariant, ExitIsExplained, Nothing
<1> QED
  BY <1>1, <1>2, <1>3, <1>4 DEF StartupInvariant

\* A step that leaves the flags and the front end alone, and is past the layers or
\* before them.
LEMMA FlagsStay ==
  ASSUME FlagInvariant, UNCHANGED <<input, flags, front, command>>,
         at' \in {"start", "scan", "file"} => at \in {"start", "scan", "file"},
         at' \notin {"env", "args", "defaults", "front"},
         at' = "tui" \/ ran' = "tui" => Interactive /\ ~flags["json"]
  PROVE  FlagInvariant'
  BY SameInput DEF FlagInvariant, Interactive

\* JSON is selected in a headless run, and never in the TUI.
LEMMA Formats ==
  ASSUME FlagInvariant
  PROVE  /\ Format \in {"text", "json"}
         /\ front = "headless" => Json /\ Format = "json"
         /\ ~Json => ~flags["json"]
<1>1. "json" \in Flags /\ "plain" \in Flags
  BY DEF Flags
<1>2. ~(flags["json"] /\ flags["plain"])
  BY <1>1 DEF FlagInvariant, Exclusive, Excluded, OutputFlags, LevelFlags
<1> QED
  BY <1>2 DEF FlagInvariant, Json, Format

\* The immediate options touch nothing but the answer.
LEMMA StartKeeps == StartupInvariant /\ Start => StartupInvariant'
<1> SUFFICES ASSUME StartupInvariant, Start
             PROVE  StartupInvariant'
  OBVIOUS
<1> USE DEF StartupInvariant, Start, Exit, Go, config
<1>1. PlaceInvariant'
  BY DEF PlaceInvariant, Places, Nothing, Commands
<1>2. CommandInvariant'
  BY SameInput DEF PlaceInvariant, CommandInvariant, Nothing
<1>3. FlagInvariant'
  BY FlagsStay DEF PlaceInvariant, Nothing
<1>4. ReportInvariant'
  BY DEF PlaceInvariant, ReportInvariant, ExitIsExplained, Nothing
<1> QED
  BY <1>1, <1>2, <1>3, <1>4

\* The first scan reports its error as text, before a front end is chosen.
LEMMA FindConfigPathKeeps == StartupInvariant /\ FindConfigPath => StartupInvariant'
<1> SUFFICES ASSUME StartupInvariant, FindConfigPath
             PROVE  StartupInvariant'
  OBVIOUS
<1>0. /\ at = "scan" /\ UNCHANGED <<input, front, config, level, ran>>
      /\ \/ Go("file")
         \/ \E e \in {"MISSING_ARG", "UNKNOWN_OPTION"} : Exit(e, "text")
  BY ScanErrorIs DEF FindConfigPath
<1> USE <1>0 DEF StartupInvariant, Exit, Go, config
<1>1. PlaceInvariant'
  BY DEF PlaceInvariant, Places, Nothing, Commands
<1>2. CommandInvariant'
  BY SameInput DEF PlaceInvariant, CommandInvariant, Nothing
<1>3. FlagInvariant'
  BY FlagsStay DEF PlaceInvariant, Nothing
<1>4. ReportInvariant'
  BY DEF PlaceInvariant, ReportInvariant, ExitIsExplained, Nothing
<1> QED
  BY <1>1, <1>2, <1>3, <1>4

\* The file is the first layer.
LEMMA LoadFileKeeps == StartupInvariant /\ LoadFile => StartupInvariant'
<1> SUFFICES ASSUME StartupInvariant, LoadFile
             PROVE  StartupInvariant'
  OBVIOUS
<1>0. /\ at = "file" /\ UNCHANGED <<input, front, command, args, level, ran>>
      /\ \/ Go("env") /\ flags' = ApplyAll(flags, FileLayer)
         \/ \E e \in {"IO", "OUT_OF_RANGE", "CONFIG_PARSE"} : Exit(e, "text") /\ UNCHANGED flags
  BY FileErrorIs DEF LoadFile
<1> USE <1>0 DEF StartupInvariant, Exit, Go
<1>1. PlaceInvariant'
  BY DEF PlaceInvariant, Places, Nothing, Commands
<1>2. CommandInvariant'
  BY SameInput DEF PlaceInvariant, CommandInvariant, Nothing
<1>3. FlagInvariant'
  <2>1. CASE at' = "exit"
    <3>1. UNCHANGED flags
      BY <2>1
    <3> QED
      BY <2>1, <3>1, FlagsStay DEF PlaceInvariant, Nothing
  <2>2. CASE at' = "env"
    <3>1. flags' = ApplyAll(flags, FileLayer)
      BY <2>2
    <3>2. flags \in [Flags -> BOOLEAN] /\ Exclusive(flags) /\ Worth(flags, <<>>)
      BY DEF FlagInvariant
    <3>3. FileLayer \in Seq(Assignments) /\ <<>> \in Seq(Assignments) /\ <<>> \o FileLayer = FileLayer
      <4>1. FileLayer \in Seq(Assignments)
        BY LayersAreTyped DEF PlaceInvariant
      <4> QED
        BY <4>1
    <3>4. flags' \in [Flags -> BOOLEAN] /\ Exclusive(flags') /\ Worth(flags', FileLayer)
      <4>1. \A b \in Seq(Assignments) :
              /\ ApplyAll(flags, b) \in [Flags -> BOOLEAN] /\ Exclusive(ApplyAll(flags, b))
              /\ Worth(ApplyAll(flags, b), <<>> \o b)
        BY <3>2, <3>3, NextLayer
      <4> QED
        BY <3>1, <3>3, <4>1
    <3>5. front' = Nothing /\ ran' = Nothing
      BY DEF PlaceInvariant
    <3> QED
      BY <2>2, <3>4, <3>5, SameInput DEF FlagInvariant, Nothing
  <2> QED
    BY <2>1, <2>2
<1>4. ReportInvariant'
  BY DEF PlaceInvariant, ReportInvariant, ExitIsExplained, Nothing
<1> QED
  BY <1>1, <1>2, <1>3, <1>4

\* The environment is the second layer; without arguments it is the last.
LEMMA LoadEnvKeeps == StartupInvariant /\ LoadEnv => StartupInvariant'
<1> SUFFICES ASSUME StartupInvariant, LoadEnv
             PROVE  StartupInvariant'
  OBVIOUS
<1>0. /\ at = "env" /\ UNCHANGED <<input, front, command, args, level, ran>>
      /\ \/ input.argv = <<>> /\ Go("defaults")
         \/ input.argv # <<>> /\ Go("args")
  BY DEF LoadEnv
<1> USE <1>0 DEF StartupInvariant, Go
<1>1. PlaceInvariant'
  BY DEF PlaceInvariant, Places, Nothing, Commands
<1>2. CommandInvariant'
  BY SameInput DEF PlaceInvariant, CommandInvariant, Nothing
<1>3. FlagInvariant'
  <2>1. flags' = ApplyAll(flags, SetTrue(input.env))
    BY DEF LoadEnv
  <2>2. flags \in [Flags -> BOOLEAN] /\ Exclusive(flags) /\ Worth(flags, FileLayer)
    BY DEF FlagInvariant
  <2>3. /\ FileLayer \in Seq(Assignments) /\ SetTrue(input.env) \in Seq(Assignments)
        /\ input.argv = <<>> => ProgramLayers = FileLayer \o SetTrue(input.env)
    BY LayersAreTyped DEF PlaceInvariant
  <2>4. /\ flags' \in [Flags -> BOOLEAN] /\ Exclusive(flags')
        /\ Worth(flags', FileLayer \o SetTrue(input.env))
    <3>1. \A b \in Seq(Assignments) :
            /\ ApplyAll(flags, b) \in [Flags -> BOOLEAN] /\ Exclusive(ApplyAll(flags, b))
            /\ Worth(ApplyAll(flags, b), FileLayer \o b)
      BY <2>2, <2>3, NextLayer
    <3> QED
      BY <2>1, <2>3, <3>1
  <2>5. input.argv = <<>> => Worth(flags', ProgramLayers)
    BY <2>3, <2>4
  <2>6. front' = Nothing /\ ran' = Nothing
    BY DEF PlaceInvariant
  <2> QED
    BY <2>4, <2>5, <2>6, SameInput DEF FlagInvariant, Nothing
<1>4. ReportInvariant'
  BY DEF PlaceInvariant, ReportInvariant, ExitIsExplained, Nothing
<1> QED
  BY <1>1, <1>2, <1>3, <1>4

\* The words kept of a command line are the first MaxArgs of those given.
LEMMA GivenAreKept ==
  ASSUME input \in Inputs
  PROVE  LET given == GivenArgs(input.argv)
         IN /\ given \in Seq(Words)
            /\ TooManyWords(given) => SubSeq(given, 1, MaxArgs) \in Seq(Words)
            /\ ~TooManyWords(given) => Len(given) <= MaxArgs
            /\ CommandIndex(input.argv) <= Len(input.argv) =>
                 input.argv[CommandIndex(input.argv)] \in Words
<1> DEFINE given == GivenArgs(input.argv)
<1>1. given \in Seq(Words) /\ CommandIndex(input.argv) \in 1 .. Len(input.argv) + 1
  BY RunIsTyped, ScanArrives
<1>2. input.argv \in Seq(Words) /\ MaxArgs \in Nat
  BY RunIsTyped, StartupAssumption
<1> HIDE DEF given
<1>3. ~TooManyWords(given) => Len(given) <= MaxArgs
  BY <1>1, <1>2 DEF TooManyWords
<1>4. TooManyWords(given) => SubSeq(given, 1, MaxArgs) \in Seq(Words)
  <2>1. \A k \in 0 .. Len(given) : SubSeq(given, 1, k) \in Seq(Words)
    BY <1>1
  <2> QED
    BY <1>1, <1>2, <2>1 DEF TooManyWords
<1>5. CommandIndex(input.argv) <= Len(input.argv) => input.argv[CommandIndex(input.argv)] \in Words
  BY <1>1, <1>2
<1> QED
  BY <1>1, <1>3, <1>4, <1>5 DEF given

\* The command line is the last layer, and gives the command and its words.
LEMMA ParseArgsKeeps == StartupInvariant /\ ParseArgs => StartupInvariant'
<1> SUFFICES ASSUME StartupInvariant, ParseArgs
             PROVE  StartupInvariant'
  OBVIOUS
<1> DEFINE given == GivenArgs(input.argv)
<1>0. /\ at = "args" /\ UNCHANGED <<input, front, level, ran>>
      /\ flags' = ApplyAll(flags, FlagLayer(input.argv))
      /\ \/ Go("defaults") /\ UNCHANGED <<command, args>>
         \/ /\ CommandIndex(input.argv) <= Len(input.argv)
            /\ command' = input.argv[CommandIndex(input.argv)]
            /\ \/ ~TooManyWords(given) /\ args' = given /\ Go("defaults")
               \/ /\ TooManyWords(given) /\ args' = SubSeq(given, 1, MaxArgs)
                  /\ Exit("OUT_OF_RANGE", said)
  <2>1. CommandIndex(input.argv) \in Int /\ Len(input.argv) \in Int
    BY RunIsTyped, ScanArrives DEF StartupInvariant, PlaceInvariant
  <2> HIDE DEF given
  <2> QED
    BY <2>1 DEF ParseArgs, given
<1>1. /\ given \in Seq(Words)
      /\ TooManyWords(given) => SubSeq(given, 1, MaxArgs) \in Seq(Words)
      /\ ~TooManyWords(given) => Len(given) <= MaxArgs
      /\ CommandIndex(input.argv) <= Len(input.argv) =>
           input.argv[CommandIndex(input.argv)] \in Words
  BY GivenAreKept DEF StartupInvariant, PlaceInvariant
<1>2. given' = given
  BY <1>0, SameInput
<1> HIDE DEF given
<1> USE DEF StartupInvariant, Exit, Go
<1>3. PlaceInvariant'
  BY <1>0 DEF PlaceInvariant, Places, Nothing, Commands
<1>4. CommandInvariant'
  <2>1. command = Nothing /\ args \in Seq(Words) /\ front = Nothing /\ input.argv # <<>>
    BY <1>0 DEF PlaceInvariant, CommandInvariant
  <2>2. command' \in Words \cup {Nothing} /\ args' \in Seq(Words)
    BY <1>0, <1>1, <2>1
  <2>3. at' = "defaults" /\ command' # Nothing => args' = given /\ Len(given) <= MaxArgs
    BY <1>0, <1>1, <2>1
  <2>4. /\ at' \in {"defaults", "exit"} /\ front' = Nothing /\ input'.argv # <<>>
        /\ GivenArgs(input.argv)' = given
    BY <1>0, <1>2, <2>1, SameInput DEF given
  <2> QED
    BY <2>2, <2>3, <2>4 DEF CommandInvariant, Nothing
<1>5. FlagInvariant'
  <2>1. /\ flags \in [Flags -> BOOLEAN] /\ Exclusive(flags)
        /\ Worth(flags, FileLayer \o SetTrue(input.env))
    BY <1>0 DEF FlagInvariant
  <2>2. /\ FileLayer \o SetTrue(input.env) \in Seq(Assignments)
        /\ FlagLayer(input.argv) \in Seq(Assignments)
        /\ ProgramLayers = (FileLayer \o SetTrue(input.env)) \o FlagLayer(input.argv)
    BY LayersAreTyped DEF PlaceInvariant
  <2>3. flags' \in [Flags -> BOOLEAN] /\ Exclusive(flags') /\ Worth(flags', ProgramLayers)
    <3>1. \A b \in Seq(Assignments) :
            /\ ApplyAll(flags, b) \in [Flags -> BOOLEAN] /\ Exclusive(ApplyAll(flags, b))
            /\ Worth(ApplyAll(flags, b), (FileLayer \o SetTrue(input.env)) \o b)
      BY <2>1, <2>2, NextLayer
    <3> QED
      BY <1>0, <2>2, <3>1
  <2>4. front' = Nothing /\ ran' = Nothing /\ at' \in {"defaults", "exit"}
    BY <1>0 DEF PlaceInvariant
  <2>5. ProgramLayers' = ProgramLayers
    BY <1>0, SameInput
  <2> QED
    BY <2>3, <2>4, <2>5 DEF FlagInvariant, Nothing
<1>6. ReportInvariant'
  BY <1>0 DEF PlaceInvariant, ReportInvariant, ExitIsExplained, Nothing
<1> QED
  BY <1>3, <1>4, <1>5, <1>6

\* The defaults are applied to what all layers have said.
LEMMA OutputDefaultsKeeps == StartupInvariant /\ OutputDefaults => StartupInvariant'
<1> SUFFICES ASSUME StartupInvariant, OutputDefaults
             PROVE  StartupInvariant'
  OBVIOUS
<1>0. /\ at = "defaults" /\ Go("front") /\ flags' = Defaulted(flags)
      /\ UNCHANGED <<input, front, command, args, ran>>
      /\ level' \in {"ERROR", "DEBUG", "INFO", level}
  BY DEF OutputDefaults
<1> USE <1>0 DEF StartupInvariant, Go
<1>1. PlaceInvariant'
  BY DEF PlaceInvariant, Places, Nothing, Commands
<1>2. CommandInvariant'
  BY SameInput DEF PlaceInvariant, CommandInvariant, Nothing
<1>3. FlagInvariant'
  <2>1. flags \in [Flags -> BOOLEAN] /\ Exclusive(flags) /\ Worth(flags, ProgramLayers)
    BY DEF FlagInvariant
  <2>2. input.tty_out \in BOOLEAN
    BY RunIsTyped DEF PlaceInvariant
  <2>3. /\ flags' \in [Flags -> BOOLEAN] /\ Exclusive(flags')
        /\ WorthDefaulted(flags', ProgramLayers, input.tty_out)
    BY <2>1, <2>2, DefaultedMeans
  <2>4. front' = Nothing /\ ran' = Nothing /\ at' = "front"
    BY DEF PlaceInvariant
  <2>5. ProgramLayers' = ProgramLayers /\ input' = input
    BY SameInput
  <2> QED
    BY <2>3, <2>4, <2>5 DEF FlagInvariant, Nothing
<1>4. ReportInvariant'
  BY DEF PlaceInvariant, ReportInvariant, ExitIsExplained, Nothing
<1> QED
  BY <1>1, <1>2, <1>3, <1>4

\* A headless run has JSON forced, the TUI is not opened with JSON selected.
LEMMA ChooseFrontEndKeeps == StartupInvariant /\ ChooseFrontEnd => StartupInvariant'
<1> SUFFICES ASSUME StartupInvariant, ChooseFrontEnd
             PROVE  StartupInvariant'
  OBVIOUS
<1>0. /\ at = "front" /\ UNCHANGED <<input, command, args, level, ran>>
      /\ \/ /\ input.argv # <<>> /\ front' = "command" /\ Go("dispatch") /\ UNCHANGED flags
         \/ /\ input.argv = <<>> /\ Interactive /\ front' = "tui" /\ UNCHANGED flags
            /\ \/ Json /\ Exit("INVALID_ARG", "json")
               \/ ~Json /\ Go("tui")
         \/ /\ input.argv = <<>> /\ front' = "headless" /\ Go("read")
            /\ flags' = ForceJson(flags)
  BY DEF ChooseFrontEnd
<1> USE <1>0 DEF StartupInvariant, Exit, Go
<1>1. PlaceInvariant'
  BY DEF PlaceInvariant, Places, Nothing, Commands
<1>2. CommandInvariant'
  BY SameInput DEF PlaceInvariant, CommandInvariant, Nothing
<1>3. FlagInvariant'
  <2>1. /\ flags \in [Flags -> BOOLEAN] /\ Exclusive(flags)
        /\ WorthDefaulted(flags, ProgramLayers, input.tty_out)
    BY DEF FlagInvariant
  <2>2. ProgramLayers' = ProgramLayers /\ input' = input /\ ran' = Nothing
    BY SameInput DEF PlaceInvariant
  <2>3. CASE front' = "headless"
    <3>1. flags' = ForceJson(flags) /\ at' = "read" /\ command' = Nothing
      BY <2>3 DEF CommandInvariant
    <3>2. /\ flags' \in [Flags -> BOOLEAN] /\ Exclusive(flags')
          /\ \A f \in Flags : flags'[f] <=> f = "json" \/ (f # "plain" /\ flags[f])
      BY <2>1, <3>1, ForceJsonMeans
    <3>3. flags'["json"] /\ ~flags'["plain"]
      <4>1. "json" \in Flags /\ "plain" \in Flags
        BY DEF Flags
      <4> QED
        BY <3>2, <4>1
    <3>4. WorthForced(flags', ProgramLayers)
      BY <2>1, <3>2 DEF WorthDefaulted, WorthForced
    <3> QED
      BY <2>2, <2>3, <3>1, <3>2, <3>3, <3>4 DEF FlagInvariant, Nothing
  <2>4. CASE front' # "headless"
    <3>1. UNCHANGED flags /\ front' \in {"command", "tui"}
      BY <2>4
    <3>2. at' = "tui" => Interactive' /\ ~flags'["json"]
      BY <2>2, <3>1, Formats DEF Interactive
    <3>3. at' \in {"dispatch", "exit", "tui"}
      BY <2>4
    <3> QED
      BY <2>1, <2>2, <3>1, <3>2, <3>3 DEF FlagInvariant, Nothing
  <2> QED
    BY <2>3, <2>4
<1>4. ReportInvariant'
  BY DEF PlaceInvariant, ReportInvariant, ExitIsExplained, Nothing
<1> QED
  BY <1>1, <1>2, <1>3, <1>4

\* A request is dispatched whole, with its flags after those of the layers.
LEMMA ReadRequestKeeps == StartupInvariant /\ ReadRequest => StartupInvariant'
<1> SUFFICES ASSUME StartupInvariant, ReadRequest
             PROVE  StartupInvariant'
  OBVIOUS
<1> DEFINE r == ParseRequest(input.request.members)
           forced == ForceJson(ApplyRequest(flags, r.flags))
<1>0. /\ at = "read" /\ UNCHANGED <<input, front, level, ran>>
      /\ \/ /\ \E e \in Errors \cup {"IO"} : e # "NONE" /\ Exit(e, Format)
            /\ UNCHANGED <<flags, command, args>>
         \/ /\ r.err = "NONE" /\ Go("dispatch")
            /\ command' = r.command /\ args' = r.args /\ flags' = forced
  <2>1. r.err \in Errors
    BY RunIsTyped, ParseRequestMeans DEF StartupInvariant, PlaceInvariant, Requests
  <2> DEFINE e == CASE input.tty_in -> "MISSING_ARG"
                    [] input.request.kind = "unreadable" -> "IO"
                    [] input.request.kind = "blank" -> "MISSING_ARG"
                    [] OTHER -> r.err
  <2>2. e \in Errors \cup {"IO"} /\ (e = "NONE" => r.err = "NONE")
    BY <2>1 DEF Errors
  <2> HIDE DEF r
  <2>3. /\ at = "read" /\ UNCHANGED <<input, front, level, ran>>
        /\ IF e # "NONE"
             THEN Exit(e, Format) /\ UNCHANGED <<flags, command, args>>
             ELSE /\ command' = r.command /\ args' = r.args /\ flags' = forced
                  /\ Go("dispatch")
    BY DEF ReadRequest, r
  <2> HIDE DEF e, forced
  <2> QED
    BY <2>2, <2>3
<1>1. /\ front = "headless" /\ command = Nothing /\ input \in Inputs /\ input.argv = <<>>
      /\ flags \in [Flags -> BOOLEAN] /\ Exclusive(flags) /\ WorthForced(flags, ProgramLayers)
  BY <1>0 DEF StartupInvariant, PlaceInvariant, CommandInvariant, FlagInvariant
<1>2. r.err = "NONE" =>
        /\ r.command \in Words /\ r.args = DocumentArgs
        /\ DocumentArgs \in Seq(Words) /\ Len(DocumentArgs) <= MaxArgs
        /\ forced \in [Flags -> BOOLEAN] /\ Exclusive(forced)
        /\ forced["json"] /\ ~forced["plain"]
        /\ Distinct(DocumentFlags) => WorthForced(forced, ProgramLayers \o DocumentFlags)
  BY <1>1, RequestMeans
<1>3. Nothing \notin Words /\ Format = "json"
  BY <1>1, StartupAssumption, Formats DEF StartupInvariant
<1> HIDE DEF r, forced
<1> USE <1>0 DEF StartupInvariant, Exit, Go
<1>4. PlaceInvariant'
  BY DEF PlaceInvariant, Places, Nothing, Commands
<1>5. CommandInvariant'
  BY <1>1, <1>2, SameInput DEF CommandInvariant, Nothing
<1>6. FlagInvariant'
  <2>1. CASE at' = "exit"
    <3>1. UNCHANGED <<input, flags, front, command>>
      BY <2>1
    <3>2. ran' # "tui"
      BY DEF PlaceInvariant, Nothing
    <3> QED
      BY <2>1, <3>1, <3>2, FlagsStay
  <2>2. CASE at' = "dispatch"
    <3>1. command' \in Words /\ flags' = forced /\ r.err = "NONE"
      BY <1>2, <2>2
    <3>2. command' # Nothing /\ ran' = Nothing /\ front' = "headless"
      BY <1>1, <1>3, <3>1 DEF PlaceInvariant
    <3> QED
      BY <1>2, <2>2, <3>1, <3>2, SameInput DEF FlagInvariant, Nothing
  <2> QED
    BY <2>1, <2>2
<1>7. ReportInvariant'
  BY <1>3 DEF PlaceInvariant, ReportInvariant, ExitIsExplained, Nothing, Errors
<1> QED
  BY <1>4, <1>5, <1>6, <1>7

\* What keeps a command from its handler is reported in the format of the run.
LEMMA DispatchKeeps == StartupInvariant /\ Dispatch => StartupInvariant'
<1> SUFFICES ASSUME StartupInvariant, Dispatch
             PROVE  StartupInvariant'
  OBVIOUS
<1>0. /\ at = "dispatch" /\ UNCHANGED <<input, front, flags, command, args, level>>
      /\ \/ ran' = "help" /\ \E e \in {"INVALID_ARG", "SUCCESS"} : Exit(e, said)
         \/ /\ UNCHANGED ran
            /\ \E e \in {"INVALID_COMMAND", "IO", "UNKNOWN_OPTION", "INVALID_ARG"} : Exit(e, Format)
         \/ /\ UNCHANGED ran
            /\ Registered(command) /\ (RequiresTerminal(command) => Interactive) /\ Go("handler")
  BY DEF Dispatch, config
<1>1. Format \in {"text", "json"} /\ (front = "headless" => Format = "json")
  BY Formats DEF StartupInvariant
<1> USE <1>0 DEF StartupInvariant, Exit, Go
<1>2. PlaceInvariant'
  BY DEF PlaceInvariant, Places, Nothing, Commands
<1>3. CommandInvariant'
  BY SameInput DEF PlaceInvariant, CommandInvariant, Nothing, Interactive
<1>4. FlagInvariant'
  BY FlagsStay DEF PlaceInvariant, Nothing
<1>5. ReportInvariant'
  BY <1>1 DEF PlaceInvariant, ReportInvariant, ExitIsExplained, Nothing
<1> QED
  BY <1>2, <1>3, <1>4, <1>5

\* A handler answers, or menu opens the TUI when no JSON is selected.
LEMMA RunCommandKeeps == StartupInvariant /\ RunCommand => StartupInvariant'
<1> SUFFICES ASSUME StartupInvariant, RunCommand
             PROVE  StartupInvariant'
  OBVIOUS
<1>0. /\ at = "handler" /\ UNCHANGED <<input, front, flags, command, args, level>>
      /\ \/ ran' = command /\ \E e \in {"SUCCESS", "MEMORY"} : Exit(e, said)
         \/ UNCHANGED ran /\ Exit("INVALID_ARG", Format)
         \/ command = "menu" /\ ~Json /\ UNCHANGED ran /\ Go("tui")
  BY DEF RunCommand, config
<1>1. /\ command \in Commands /\ (command = "menu" => Interactive)
      /\ front \in {"command", "headless"}
  BY <1>0 DEF StartupInvariant, CommandInvariant, PlaceInvariant, Registered, RequiresTerminal
<1>2. /\ Format \in {"text", "json"}
      /\ front = "headless" => Json /\ Format = "json"
      /\ ~Json => ~flags["json"]
  BY Formats DEF StartupInvariant
<1> USE <1>0 DEF StartupInvariant, Exit, Go
<1>3. PlaceInvariant'
  BY <1>1, <1>2 DEF PlaceInvariant, Places, Nothing, Commands
<1>4. CommandInvariant'
  BY SameInput DEF PlaceInvariant, CommandInvariant, Nothing
<1>5. FlagInvariant'
  BY <1>1, <1>2, FlagsStay DEF PlaceInvariant, Nothing, Commands
<1>6. ReportInvariant'
  BY <1>1, <1>2 DEF PlaceInvariant, ReportInvariant, ExitIsExplained, Nothing, Commands
<1> QED
  BY <1>3, <1>4, <1>5, <1>6

\* The TUI runs where it was let to, and reports what no signal explains.
LEMMA RunTuiKeeps == StartupInvariant /\ RunTui => StartupInvariant'
<1> SUFFICES ASSUME StartupInvariant, RunTui
             PROVE  StartupInvariant'
  OBVIOUS
<1>0. /\ at = "tui" /\ ran' = "tui" /\ UNCHANGED <<input, front, flags, command, args, level>>
      /\ \/ \E e \in QuietResults : Exit(e, said)
         \/ \E e \in {"OUT_OF_RANGE", "MEMORY", "TUI_INIT"} : Exit(e, Format)
  BY DEF RunTui, config
<1>1. Format \in {"text", "json"} /\ (front = "headless" => Format = "json")
  BY Formats DEF StartupInvariant
<1> USE <1>0 DEF StartupInvariant, Exit
<1>2. PlaceInvariant'
  BY DEF PlaceInvariant, Places, Nothing, Commands
<1>3. CommandInvariant'
  BY SameInput DEF PlaceInvariant, CommandInvariant, Nothing
<1>4. FlagInvariant'
  <2>1. Interactive /\ ~flags["json"]
    BY DEF FlagInvariant
  <2> QED
    BY <2>1, FlagsStay DEF PlaceInvariant, Nothing
<1>5. ReportInvariant'
  BY <1>1 DEF PlaceInvariant, ReportInvariant, ExitIsExplained, Nothing, QuietResults
<1> QED
  BY <1>2, <1>3, <1>4, <1>5

\* Memory that runs out ends the run where it stands.
LEMMA OutOfMemoryKeeps == StartupInvariant /\ OutOfMemory => StartupInvariant'
<1> SUFFICES ASSUME StartupInvariant, OutOfMemory
             PROVE  StartupInvariant'
  OBVIOUS
<1>0. /\ at \in {"start", "args", "file", "read"}
      /\ UNCHANGED <<input, front, flags, command, args, level, ran>>
      /\ \/ Exit("MEMORY", said)
         \/ at = "file" /\ Exit("MEMORY", "text")
         \/ at = "read" /\ Exit("MEMORY", Format)
  BY DEF OutOfMemory, config
<1>1. Format \in {"text", "json"} /\ (front = "headless" => Format = "json")
  BY Formats DEF StartupInvariant
<1> USE <1>0 DEF StartupInvariant, Exit
<1>2. PlaceInvariant'
  BY DEF PlaceInvariant, Places, Nothing, Commands
<1>3. CommandInvariant'
  BY SameInput DEF PlaceInvariant, CommandInvariant, Nothing
<1>4. FlagInvariant'
  BY FlagsStay DEF PlaceInvariant, Nothing
<1>5. ReportInvariant'
  BY <1>1 DEF PlaceInvariant, ReportInvariant, ExitIsExplained, Nothing
<1> QED
  BY <1>2, <1>3, <1>4, <1>5

\* A step that changes nothing keeps it.
LEMMA StutteringKeeps == StartupInvariant /\ UNCHANGED vars => StartupInvariant'
<1> SUFFICES ASSUME StartupInvariant, UNCHANGED vars
             PROVE  StartupInvariant'
  OBVIOUS
<1> USE DEF StartupInvariant, vars, config
<1>1. PlaceInvariant'
  BY DEF PlaceInvariant
<1>2. CommandInvariant'
  BY SameInput DEF CommandInvariant, Interactive
<1>3. FlagInvariant'
  BY SameInput DEF FlagInvariant, Interactive
<1>4. ReportInvariant'
  BY DEF ReportInvariant, ExitIsExplained
<1> QED
  BY <1>1, <1>2, <1>3, <1>4

\* Every step keeps it.
LEMMA NextKeeps == StartupInvariant /\ [Next]_vars => StartupInvariant'
<1> SUFFICES ASSUME StartupInvariant, [Next]_vars
             PROVE  StartupInvariant'
  OBVIOUS
<1>1. CASE Start
  BY <1>1, StartKeeps
<1>2. CASE FindConfigPath
  BY <1>2, FindConfigPathKeeps
<1>3. CASE LoadFile
  BY <1>3, LoadFileKeeps
<1>4. CASE LoadEnv
  BY <1>4, LoadEnvKeeps
<1>5. CASE ParseArgs
  BY <1>5, ParseArgsKeeps
<1>6. CASE OutputDefaults
  BY <1>6, OutputDefaultsKeeps
<1>7. CASE ChooseFrontEnd
  BY <1>7, ChooseFrontEndKeeps
<1>8. CASE ReadRequest
  BY <1>8, ReadRequestKeeps
<1>9. CASE Dispatch
  BY <1>9, DispatchKeeps
<1>10. CASE RunCommand
  BY <1>10, RunCommandKeeps
<1>11. CASE RunTui
  BY <1>11, RunTuiKeeps
<1>12. CASE OutOfMemory
  BY <1>12, OutOfMemoryKeeps
<1>13. CASE UNCHANGED vars
  BY <1>13, StutteringKeeps
<1> QED
  BY <1>1, <1>2, <1>3, <1>4, <1>5, <1>6, <1>7, <1>8, <1>9, <1>10, <1>11, <1>12, <1>13 DEF Next

-----------------------------------------------------------------------------
(* The theorems *)

\* The invariant holds in every run, whatever its input.
THEOREM StartupInvariantHolds == Spec => []StartupInvariant
  BY InitInvariant, NextKeeps, PTL DEF Spec

\* The flags, the front end and the reports keep their types.
THEOREM StartupTypeCorrect == Spec => []StartupTypeOK
<1>1. StartupInvariant => StartupTypeOK
  BY DEF StartupInvariant, FlagInvariant, ReportInvariant, StartupTypeOK
<1> QED
  BY <1>1, StartupInvariantHolds, PTL

\* Flags that exclude one another are never both set, whatever file, environment,
\* command line and request say (app_flag_apply).
THEOREM FlagsAlwaysExclusive == Spec => []FlagsExclusive
<1>1. StartupInvariant => FlagsExclusive
  BY DEF StartupInvariant, FlagInvariant, FlagsExclusive
<1> QED
  BY <1>1, StartupInvariantHolds, PTL

\* A front end starts from the last word of file, environment and command line, for
\* layers of any length (app_config_load_file to app_config_apply_output_defaults).
THEOREM HigherLayersAlwaysWin == Spec => []HigherLayersWin
<1>1. ASSUME StartupInvariant
      PROVE  HigherLayersWin
  <2> SUFFICES ASSUME at = "front" \/ front = "command", NEW f \in Flags
               PROVE  flags[f] <=> \/ LastWord(ProgramLayers, f)
                                   \/ /\ f = "json" /\ ~input.tty_out
                                      /\ ~LastWord(ProgramLayers, "plain")
    BY DEF HigherLayersWin
  <2>1. ProgramLayers \in Seq(Assignments)
    BY <1>1, LayersAreTyped DEF StartupInvariant, PlaceInvariant
  <2>2. /\ LastWord(ProgramLayers, f) <=> SetIn(ProgramLayers, f)
        /\ LastWord(ProgramLayers, "plain") <=> SetIn(ProgramLayers, "plain")
    BY <2>1, LastWordIsSetIn
  <2>3. WorthDefaulted(flags, ProgramLayers, input.tty_out)
    BY <1>1 DEF StartupInvariant, FlagInvariant
  <2> QED
    BY <2>2, <2>3 DEF WorthDefaulted
<1> QED
  BY <1>1, StartupInvariantHolds, PTL

\* The flags of a request, collected and then applied in table order, change the flags
\* as if they were applied as they are written (app_request_apply_to_config).
THEOREM RequestAlwaysInDocumentOrder == Spec => []RequestInDocumentOrder
<1>1. ASSUME StartupInvariant
      PROVE  RequestInDocumentOrder
  <2> SUFFICES ASSUME front = "headless", command # Nothing, Distinct(DocumentFlags),
                      NEW f \in Flags
               PROVE  flags[f] <=> \/ f = "json"
                                   \/ f # "plain" /\ LastWord(ProgramLayers \o DocumentFlags, f)
    BY DEF RequestInDocumentOrder
  <2>1. ProgramLayers \o DocumentFlags \in Seq(Assignments)
    BY <1>1, LayersAreTyped DEF StartupInvariant, PlaceInvariant
  <2>2. LastWord(ProgramLayers \o DocumentFlags, f) <=> SetIn(ProgramLayers \o DocumentFlags, f)
    BY <2>1, LastWordIsSetIn
  <2>3. WorthForced(flags, ProgramLayers \o DocumentFlags)
    BY <1>1 DEF StartupInvariant, FlagInvariant
  <2> QED
    BY <2>2, <2>3 DEF WorthForced
<1> QED
  BY <1>1, StartupInvariantHolds, PTL

\* A headless run speaks JSON to its end; the TUI never runs with JSON selected or
\* without a terminal (app_run_headless_json, main, app_cmd_menu).
THEOREM FormatAlwaysKept == Spec => []FormatKept
<1>1. ASSUME StartupInvariant
      PROVE  FormatKept
  BY <1>1, Formats DEF StartupInvariant, FlagInvariant, ReportInvariant, FormatKept
<1> QED
  BY <1>1, StartupInvariantHolds, PTL

\* No handler sees a part of its arguments, from the command line or from a request
\* (app_parse_args, app_request_parse_args_array).
THEOREM ArgumentsAlwaysArriveWhole == Spec => []ArgumentsArriveWhole
<1>1. ASSUME StartupInvariant, ran \in Commands
      PROVE  /\ Len(args) <= MaxArgs
             /\ IF front = "command" THEN args = GivenArgs(input.argv) ELSE args = DocumentArgs
  <2>1. command # Nothing /\ front \in {"command", "headless"}
    BY <1>1 DEF StartupInvariant, PlaceInvariant, Commands, Nothing
  <2> QED
    BY <1>1, <2>1 DEF StartupInvariant, CommandInvariant, Nothing
<1>2. StartupInvariant => ArgumentsArriveWhole
  BY <1>1 DEF ArgumentsArriveWhole
<1> QED
  BY <1>2, StartupInvariantHolds, PTL

\* The exit status is explained by what was shown or reported (main).
THEOREM ExitAlwaysExplained == Spec => []ExitIsExplained
<1>1. StartupInvariant => ExitIsExplained
  BY DEF StartupInvariant, ReportInvariant
<1> QED
  BY <1>1, StartupInvariantHolds, PTL
=============================================================================
