---------------------------- MODULE JsonTextProofs ----------------------------
(***************************************************************************)
(* What app_json_write_string writes of an argument, read back by          *)
(* app_request_parse_json_string_alloc, for arguments of every length and  *)
(* any first capacity of the buffer.                                       *)
(*                                                                         *)
(* The writer and the reader are recursive functions, the one from the end *)
(* of the text and the other from its beginning.  Followed side by side,   *)
(* one piece of the writer after the other, the reader has decoded what    *)
(* lies before the piece or has refused an escape in it.  Before that: on  *)
(* any document the reader stays inside it and inside its buffer, and      *)
(* stops.                                                                  *)
(*                                                                         *)
(* After that: the readers of numbers and strings accept exactly the       *)
(* tokens of JsonTokens, and the reader of a configuration file exactly    *)
(* its files.  Each function that walks over a document stops at the first *)
(* place that satisfies what the grammar asks of the next part, so that    *)
(* the parts the grammar finds and the places the reader stops at are the  *)
(* same; by induction over the members in the loop over a file's object.   *)
(***************************************************************************)
EXTENDS JsonTokens, FoldTheorems, SequenceTheorems, FiniteSetTheorems

-----------------------------------------------------------------------------
(* The loop of the reader *)

\* The prover is not told that a literal is a string.
Symbols ==
  STRING \cup {"NUL", "LF", "\\", "u", "fffd", "0001", "n", "quote", "other"}

States ==
  {s \in [err : {"reading", "ok", "parse", "range"}, at : Nat, value : Seq(Symbols), capacity : Nat] :
     s.err = "reading" => s.at > 0}

LEMMA ChIsString ==
  ASSUME NEW d \in Seq(Symbols), NEW i \in Nat \ {0}
  PROVE  Ch(d, i) \in Symbols
<1>1. CASE i <= Len(d)
  BY <1>1 DEF Ch
<1>2. CASE ~(i <= Len(d))
  BY <1>2 DEF Ch, Symbols
<1> QED
  BY <1>1, <1>2

LEMMA CharacterIsState ==
  ASSUME NEW d \in Seq(Symbols), NEW s \in States, s.err = "reading", NEW grows \in BOOLEAN
  PROVE  Character(d, s, grows) \in States
<1> DEFINE escaped == Ch(d, s.at) = "\\"
           c == IF escaped THEN Ch(d, s.at + 1) ELSE Ch(d, s.at)
           full == Len(s.value) + 1 >= s.capacity
           e == IF escaped THEN EscapeOf(c) ELSE c
           capacity == IF full THEN 2 * s.capacity ELSE s.capacity
           i == IF escaped THEN s.at + 2 ELSE s.at + 1
<1>1. s.at \in Nat \ {0} /\ s.value \in Seq(Symbols) /\ s.capacity \in Nat
  BY DEF States
<1>2. c \in Symbols /\ e \in Symbols
  <2>1. Ch(d, s.at) \in Symbols /\ Ch(d, s.at + 1) \in Symbols
    BY <1>1, ChIsString
  <2> QED
    BY <2>1 DEF EscapeOf, Symbols
<1>3. capacity \in Nat /\ i \in Nat \ {0} /\ s.at + 1 \in Nat
  BY SMTT(20), <1>1
<1>4. /\ Stopped(ParseError) \in States /\ Stopped(Error("range")) \in States
      /\ Stopped(Ok(s.at + 1, s.value)) \in States
  <2>1. <<>> \in Seq(Symbols)
    OBVIOUS
  <2> QED
    BY <1>1, <1>3, <2>1 DEF States, Stopped, ParseError, Error, Ok
<1>5. Reading(i, Append(s.value, e), capacity) \in States
  <2>1. Append(s.value, e) \in Seq(Symbols)
    BY <1>1, <1>2
  <2> HIDE DEF i, e, capacity
  <2> QED
    BY <1>3, <2>1 DEF States, Reading
<1>6. Character(d, s, grows) \in
        {Stopped(ParseError), Stopped(Error("range")), Stopped(Ok(s.at + 1, s.value)),
         Reading(i, Append(s.value, e), capacity)}
  <2> HIDE DEF full
  <2> QED
    BY DEF Character, full
<1> QED
  BY <1>4, <1>5, <1>6

\* Characters reads as it is written: the state after each turn.
Loop(d, i, capacity, grows) ==
  LET read[n \in 0 .. Len(d) + 1] ==
        IF n = 0 THEN Reading(i, <<>>, capacity)
        ELSE LET s == read[n - 1]
             IN  IF s.err = "reading" THEN Character(d, s, grows) ELSE s
  IN  read

Turns(d, i, capacity, grows, read) ==
  /\ read[0] = Reading(i, <<>>, capacity)
  /\ \A n \in 1 .. Len(d) + 1 :
       /\ read[n - 1].err = "reading" => read[n] = Character(d, read[n - 1], grows)
       /\ read[n - 1].err # "reading" => read[n] = read[n - 1]

LEMMA LoopTurns ==
  ASSUME NEW d \in Seq(Symbols), NEW i \in Nat \ {0}, NEW capacity \in Nat,
         NEW grows \in BOOLEAN
  PROVE  Turns(d, i, capacity, grows, Loop(d, i, capacity, grows))
<1> DEFINE N == Len(d) + 1
           start == Reading(i, <<>>, capacity)
           F == [n \in 1 .. N |->
                   [s \in States |-> IF s.err = "reading" THEN Character(d, s, grows) ELSE s]]
           Eq(g) == g = [n \in 0 .. N |-> IF n = 0 THEN start
                                          ELSE IF g[n - 1].err = "reading"
                                               THEN Character(d, g[n - 1], grows) ELSE g[n - 1]]
           read == CHOOSE g : Eq(g)
<1>1. N \in Nat
  OBVIOUS
<1>2. start \in States
  <2>1. <<>> \in Seq(Symbols)
    OBVIOUS
  <2> QED
    BY <2>1 DEF Reading, States
<1>3. F \in [1 .. N -> [States -> States]]
  <2>1. \A s \in States : s.err = "reading" => Character(d, s, grows) \in States
    BY CharacterIsState
  <2> QED
    BY <2>1
<1>4. PICK g : Folded(g, States, start, N, F)
  <2> HIDE DEF F, N, start
  <2> QED
    BY <1>1, <1>2, <1>3, FoldExists
<1>5. /\ g \in [0 .. N -> States] /\ g[0] = start
      /\ \A n \in 1 .. N :
           g[n] = IF g[n - 1].err = "reading" THEN Character(d, g[n - 1], grows) ELSE g[n - 1]
  <2>1. /\ g \in [0 .. N -> States] /\ g[0] = start
        /\ \A n \in 1 .. N : g[n] = F[n][g[n - 1]]
    BY <1>4 DEF Folded
  <2>2. ASSUME NEW n \in 1 .. N
        PROVE  g[n] = IF g[n - 1].err = "reading" THEN Character(d, g[n - 1], grows) ELSE g[n - 1]
    <3>1. g[n - 1] \in States
      BY <1>1, <2>1
    <3>2. \A s \in States : F[n][s] = IF s.err = "reading" THEN Character(d, s, grows) ELSE s
      OBVIOUS
    <3> HIDE DEF F
    <3> QED
      BY <2>1, <3>1, <3>2
  <2> QED
    BY <2>1, <2>2
<1>6. Eq(g)
  <2>1. g = [n \in 0 .. N |-> g[n]]
    BY <1>5
  <2>2. \A n \in 0 .. N : g[n] = IF n = 0 THEN start
                                 ELSE IF g[n - 1].err = "reading"
                                      THEN Character(d, g[n - 1], grows) ELSE g[n - 1]
    <3>1. \A n \in 0 .. N : n = 0 \/ n \in 1 .. N
      BY <1>1
    <3> QED
      BY <1>5, <3>1
  <2> HIDE DEF N, start
  <2> QED
    BY <2>1, <2>2
<1>7. Eq(read)
  <2> HIDE DEF Eq
  <2> QED
    BY <1>6
<1>8. Loop(d, i, capacity, grows) = read
  BY DEF Loop
<1> HIDE DEF read
<1>9. /\ read[0] = start
      /\ \A n \in 1 .. N :
           /\ read[n - 1].err = "reading" => read[n] = Character(d, read[n - 1], grows)
           /\ read[n - 1].err # "reading" => read[n] = read[n - 1]
  <2>1. 0 \in 0 .. N /\ \A n \in 1 .. N : n \in 0 .. N /\ n # 0
    BY <1>1
  <2> HIDE DEF N, start
  <2> QED
    BY <1>7, <2>1
<1> QED
  BY <1>8, <1>9 DEF Turns

\* A reader that has stopped stays where it is.
StaysStopped(d, read) ==
  \A m \in 0 .. Len(d) + 1 : read[m].err # "reading" => read[Len(d) + 1] = read[m]

LEMMA StoppedForGood ==
  ASSUME NEW d, Len(d) \in Nat, NEW read,
         \A n \in 1 .. Len(d) + 1 : read[n - 1].err # "reading" => read[n] = read[n - 1]
  PROVE  StaysStopped(d, read)
<1> SUFFICES ASSUME NEW m \in 0 .. Len(d) + 1, read[m].err # "reading"
             PROVE  read[Len(d) + 1] = read[m]
  BY DEF StaysStopped
<1> DEFINE N == Len(d) + 1
           S == {n \in 0 .. N : n >= m => read[n] = read[m]}
<1>1. N \in Nat
  OBVIOUS
<1>2. 0 \in S
  BY <1>1
<1>3. ASSUME NEW n \in 0 .. N - 1, n \in S
      PROVE  n + 1 \in S
  <2>1. n + 1 \in 1 .. N /\ n + 1 \in 0 .. N /\ (n + 1) - 1 = n
    BY <1>1
  <2>2. CASE n >= m
    <3>1. read[n].err # "reading"
      BY <1>3, <2>2
    <3>2. read[n + 1] = read[n]
      BY <2>1, <3>1
    <3> QED
      BY <1>3, <2>1, <2>2, <3>2
  <2>3. CASE n < m
    BY <2>1, <2>3
  <2> QED
    BY <2>2, <2>3
<1>4. \A n \in 0 .. N : n \in S
  <2> HIDE DEF S, N
  <2> QED
    BY <1>1, <1>2, <1>3, Upwards
<1>5. N \in S /\ N >= m
  BY <1>1, <1>4
<1> QED
  BY <1>5

\* Where the reader may be after n turns: behind n characters and inside the document,
\* with a byte of the buffer to spare for the terminator; or stopped, behind a quote.
InBounds(d, i, capacity, grows, n, s) ==
  /\ s \in States
  /\ s.err = "reading" =>
       /\ s.at \in i + n .. Len(d) + 1 /\ Len(s.value) < s.capacity
       /\ ~grows => s.capacity = capacity
  /\ s.err = "ok" =>
       /\ s.at \in i + 1 .. Len(d) + 1 /\ d[s.at - 1] = Quote
       /\ ~grows => Len(s.value) < capacity
  /\ s.err = "range" => ~grows

LEMMA CharacterStaysInBounds ==
  ASSUME NEW d \in Seq(Symbols), NEW i \in Nat \ {0}, NEW capacity \in Nat, NEW grows \in BOOLEAN,
         NEW n \in Nat, NEW s, InBounds(d, i, capacity, grows, n, s), s.err = "reading"
  PROVE  InBounds(d, i, capacity, grows, n + 1, Character(d, s, grows))
<1> DEFINE escaped == Ch(d, s.at) = "\\"
           c == IF escaped THEN Ch(d, s.at + 1) ELSE Ch(d, s.at)
           full == Len(s.value) + 1 >= s.capacity
           more == Append(s.value, IF escaped THEN EscapeOf(c) ELSE c)
           room == IF full THEN 2 * s.capacity ELSE s.capacity
           j == IF escaped THEN s.at + 2 ELSE s.at + 1
           next == Character(d, s, grows)
<1>1. /\ s \in States /\ s.at \in i + n .. Len(d) + 1 /\ Len(s.value) < s.capacity
      /\ ~grows => s.capacity = capacity
  BY DEF InBounds
<1>2. /\ s.at \in Nat \ {0} /\ s.value \in Seq(Symbols) /\ s.capacity \in Nat
      /\ Len(s.value) \in Nat /\ Len(d) \in Nat
  BY <1>1 DEF States
<1>3. next \in States
  BY <1>1, CharacterIsState
<1>4. CASE c = "NUL" \/ (escaped /\ c \notin Escapes) \/ (~escaped /\ c \in Controls)
  <2>1. next = Stopped(ParseError)
    BY <1>4 DEF Character, Controls, Quote
  <2>2. next.err = "parse"
    BY <2>1 DEF Stopped, ParseError, Error
  <2> QED
    BY <1>3, <2>2 DEF InBounds
<1>5. CASE ~escaped /\ c = Quote
  <2>1. next = Stopped(Ok(s.at + 1, s.value))
    BY <1>5 DEF Character, Quote
  <2>2. next.err = "ok" /\ next.at = s.at + 1 /\ next.value = s.value
    BY <2>1 DEF Stopped, Ok
  <2>3. s.at <= Len(d) /\ d[s.at] = Quote
    BY <1>1, <1>2, <1>5 DEF Ch, Quote
  <2>4. s.at + 1 \in i + 1 .. Len(d) + 1 /\ (s.at + 1) - 1 = s.at
    BY <1>1, <1>2, <2>3
  <2> HIDE DEF next
  <2> QED
    BY <1>1, <1>3, <2>2, <2>3, <2>4 DEF InBounds, next
<1>6. CASE /\ c # "NUL" /\ (escaped => c \in Escapes) /\ (~escaped => c \notin Controls)
           /\ ~(~escaped /\ c = Quote)
  <2>1. CASE full /\ ~grows
    <3>1. next = Stopped(Error("range"))
      BY <1>6, <2>1 DEF Character
    <3>2. next.err = "range"
      BY <3>1 DEF Stopped, Error
    <3> QED
      BY <1>3, <2>1, <3>2 DEF InBounds
  <2>2. CASE ~(full /\ ~grows)
    <3>1. next = Reading(j, more, room)
      <4> HIDE DEF full
      <4> QED
        BY <1>6, <2>2 DEF Character, full
    <3>2. next.err = "reading" /\ next.at = j /\ next.value = more /\ next.capacity = room
      <4> HIDE DEF j, more, room
      <4> QED
        BY <3>1 DEF Reading
    <3>3. j \in i + (n + 1) .. Len(d) + 1
      <4>1. CASE escaped
        <5>1. s.at + 1 <= Len(d)
          BY <1>2, <1>6, <4>1 DEF Ch
        <5> QED
          BY <1>1, <1>2, <4>1, <5>1
      <4>2. CASE ~escaped
        <5>1. s.at <= Len(d)
          BY <1>2, <1>6, <4>2 DEF Ch
        <5> QED
          BY <1>1, <1>2, <4>2, <5>1
      <4> QED
        BY <4>1, <4>2
    <3>4. Len(more) = Len(s.value) + 1
      <4> DEFINE e == IF escaped THEN EscapeOf(c) ELSE c
      <4>1. e \in Symbols
        <5>1. Ch(d, s.at) \in Symbols /\ Ch(d, s.at + 1) \in Symbols
          BY <1>2, ChIsString
        <5> QED
          BY <5>1 DEF EscapeOf, Symbols
      <4>2. more = Append(s.value, e)
        OBVIOUS
      <4> HIDE DEF e, more
      <4> QED
        BY <1>2, <4>1, <4>2
    <3>5. Len(more) < room /\ (~grows => room = capacity)
      <4> HIDE DEF more
      <4> QED
        BY <1>1, <1>2, <2>2, <3>4
    <3> HIDE DEF next, j, more, room
    <3> QED
      BY <1>3, <3>2, <3>3, <3>5 DEF InBounds, next
  <2> QED
    BY <2>1, <2>2
<1> QED
  BY <1>4, <1>5, <1>6

LEMMA LoopStaysInBounds ==
  ASSUME NEW d \in Seq(Symbols), NEW i \in 1 .. Len(d) + 1, NEW capacity \in Nat \ {0},
         NEW grows \in BOOLEAN
  PROVE  \A n \in 0 .. Len(d) + 1 :
           InBounds(d, i, capacity, grows, n, Loop(d, i, capacity, grows)[n])
<1> DEFINE N == Len(d) + 1
           read == Loop(d, i, capacity, grows)
           B(n) == InBounds(d, i, capacity, grows, n, read[n])
           S == {n \in 0 .. N : B(n)}
<1>1. N \in Nat /\ i \in Nat \ {0}
  OBVIOUS
<1>2. Turns(d, i, capacity, grows, read)
  BY <1>1, LoopTurns
<1> HIDE DEF read
<1>3. 0 \in S
  <2>1. read[0] = Reading(i, <<>>, capacity)
    BY <1>2 DEF Turns
  <2>2. Reading(i, <<>>, capacity) \in States
    <3>1. <<>> \in Seq(Symbols)
      OBVIOUS
    <3> QED
      BY <1>1, <3>1 DEF Reading, States
  <2>3. i \in i + 0 .. Len(d) + 1 /\ Len(<<>>) < capacity
    BY <1>1
  <2>4. B(0)
    BY <2>1, <2>2, <2>3 DEF InBounds, Reading
  <2> QED
    BY <1>1, <2>4
<1>4. ASSUME NEW n \in 0 .. N - 1, n \in S
      PROVE  n + 1 \in S
  <2>1. n + 1 \in 1 .. N /\ n + 1 \in 0 .. N /\ (n + 1) - 1 = n /\ n \in Nat
    BY <1>1
  <2>2. B(n)
    BY <1>4
  <2>3. CASE read[n].err = "reading"
    <3>1. read[n + 1] = Character(d, read[n], grows)
      BY <1>2, <2>1, <2>3 DEF Turns
    <3>2. InBounds(d, i, capacity, grows, n + 1, Character(d, read[n], grows))
      BY <1>1, <2>1, <2>2, <2>3, CharacterStaysInBounds
    <3> QED
      BY <2>1, <3>1, <3>2
  <2>4. CASE read[n].err # "reading"
    <3>1. read[n + 1] = read[n]
      BY <1>2, <2>1, <2>4 DEF Turns
    <3>2. B(n + 1)
      BY <2>2, <2>4, <3>1 DEF InBounds
    <3> QED
      BY <2>1, <3>2
  <2> QED
    BY <2>3, <2>4
<1>5. \A n \in 0 .. N : B(n)
  <2>1. \A n \in 0 .. N : n \in S
    <3> HIDE DEF S, N
    <3> QED
      BY <1>1, <1>3, <1>4, Upwards
  <2> QED
    BY <2>1
<1> QED
  BY <1>5 DEF read

\* Whatever the document holds: after n turns the loop that reads a string is behind n
\* characters and inside the document, and the buffer has a byte left for the
\* terminator, whether it grows (app_request_parse_json_string_alloc) or not
\* (app_config_parse_json_string).  So it stops, and with a string only behind a quote.
THEOREM StringsStayInBounds ==
  ASSUME NEW d \in Seq(STRING), NEW i \in 1 .. Len(d) + 1, NEW capacity \in Nat \ {0},
         NEW grows \in BOOLEAN
  PROVE  /\ \A n \in 0 .. Len(d) + 1 :
              LET s == Loop(d, i, capacity, grows)[n]
              IN  s.err = "reading" => s.at \in i + n .. Len(d) + 1 /\ Len(s.value) < s.capacity
         /\ LET s == Characters(d, i, capacity, grows)
            IN  /\ s.err \in {"ok", "parse", "range"}
                /\ s.err = "range" => ~grows
                /\ s.err = "ok" =>
                     /\ s.at \in i + 1 .. Len(d) + 1 /\ d[s.at - 1] = Quote
                     /\ ~grows => Len(s.value) < capacity
<1> DEFINE N == Len(d) + 1
           read == Loop(d, i, capacity, grows)
           B(n) == InBounds(d, i, capacity, grows, n, read[n])
<1>1. d \in Seq(Symbols) /\ N \in Nat /\ i \in Nat \ {0}
  BY DEF Symbols
<1>2. Characters(d, i, capacity, grows) = read[N]
  BY DEF Characters, Loop
<1>3. \A n \in 0 .. N : B(n)
  BY <1>1, LoopStaysInBounds
<1> HIDE DEF read
<1>4. B(N)
  BY <1>1, <1>3
<1>5. read[N].err \in {"ok", "parse", "range"}
  <2>1. ~(read[N].at \in i + N .. Len(d) + 1)
    BY <1>1
  <2> QED
    BY <1>4, <2>1 DEF InBounds, States
<1> QED
  BY <1>2, <1>3, <1>4, <1>5 DEF InBounds, read

\* A reader that has not stopped takes another turn.
TakesTurns(d, read) ==
  \A m \in 0 .. Len(d) : read[m].err = "reading" => read[m + 1] = Character(d, read[m], TRUE)

LEMMA NextTurn ==
  ASSUME NEW d \in Seq(Symbols), NEW i, NEW capacity, NEW read, Turns(d, i, capacity, TRUE, read)
  PROVE  TakesTurns(d, read)
<1>1. \A m \in 0 .. Len(d) : m + 1 \in 1 .. Len(d) + 1 /\ (m + 1) - 1 = m
  OBVIOUS
<1> QED
  BY <1>1 DEF Turns, TakesTurns

\* What the characters of a string do.
LEMMA ReadsPlain ==
  ASSUME NEW d \in Seq(Symbols), NEW i \in 1 .. Len(d), NEW text \in Seq(Symbols),
         NEW capacity \in Nat, d[i] \notin Controls \cup {Quote, "\\", "NUL"}
  PROVE  \E c \in Nat : Character(d, Reading(i, text, capacity), TRUE) =
                          Reading(i + 1, Append(text, d[i]), c)
<1> DEFINE s == Reading(i, text, capacity)
           c == IF Len(text) + 1 >= capacity THEN 2 * capacity ELSE capacity
<1>1. s.at = i /\ s.value = text /\ s.capacity = capacity
  BY DEF Reading
<1>2. Ch(d, i) = d[i] /\ Ch(d, s.at) = d[i]
  BY <1>1 DEF Ch
<1>3. c \in Nat
  OBVIOUS
<1>4. Character(d, s, TRUE) = Reading(i + 1, Append(text, d[i]), c)
  <2> HIDE DEF s
  <2> QED
    BY <1>1, <1>2 DEF Character
<1> QED
  BY <1>3, <1>4

LEMMA ReadsEscape ==
  ASSUME NEW d \in Seq(Symbols), NEW i \in 1 .. Len(d), i + 1 <= Len(d), NEW text \in Seq(Symbols),
         NEW capacity \in Nat, d[i] = "\\", d[i + 1] \in Escapes
  PROVE  \E c \in Nat : Character(d, Reading(i, text, capacity), TRUE) =
                          Reading(i + 2, Append(text, EscapeOf(d[i + 1])), c)
<1> DEFINE s == Reading(i, text, capacity)
           c == IF Len(text) + 1 >= capacity THEN 2 * capacity ELSE capacity
<1>1. s.at = i /\ s.value = text /\ s.capacity = capacity
  BY DEF Reading
<1>2. Ch(d, i) = "\\" /\ Ch(d, i + 1) = d[i + 1] /\ Ch(d, i + 1) # "NUL"
  BY DEF Ch, Escapes, Words, Literals, Quote
<1>3. c \in Nat
  OBVIOUS
<1>4. Character(d, s, TRUE) = Reading(i + 2, Append(text, EscapeOf(d[i + 1])), c)
  <2> HIDE DEF s
  <2> QED
    BY <1>1, <1>2 DEF Character
<1> QED
  BY <1>3, <1>4

LEMMA RefusesEscape ==
  ASSUME NEW d \in Seq(Symbols), NEW i \in 1 .. Len(d), i + 1 <= Len(d), NEW text, NEW capacity,
         d[i] = "\\", d[i + 1] = "u"
  PROVE  Character(d, Reading(i, text, capacity), TRUE) = Stopped(ParseError)
<1> DEFINE s == Reading(i, text, capacity)
<1>1. s.at = i
  BY DEF Reading
<1>2. Ch(d, i) = "\\" /\ Ch(d, i + 1) = "u"
  BY DEF Ch
<1>3. "u" \notin Escapes /\ "u" # "NUL"
  BY DEF Escapes, Words, Literals, Quote
<1> HIDE DEF s
<1>4. Character(d, s, TRUE) = Stopped(ParseError)
  BY <1>1, <1>2, <1>3 DEF Character
<1> QED
  BY <1>4 DEF s

LEMMA ReadsQuote ==
  ASSUME NEW d \in Seq(Symbols), NEW i \in 1 .. Len(d), NEW text, NEW capacity, d[i] = Quote
  PROVE  Character(d, Reading(i, text, capacity), TRUE) = Stopped(Ok(i + 1, text))
<1> DEFINE s == Reading(i, text, capacity)
<1>1. s.at = i /\ s.value = text
  BY DEF Reading
<1>2. Ch(d, i) = Quote /\ Quote # "\\" /\ Quote # "NUL"
  BY DEF Ch, Quote
<1> HIDE DEF s
<1>3. Character(d, s, TRUE) = Stopped(Ok(i + 1, text))
  BY <1>1, <1>2 DEF Character
<1> QED
  BY <1>3 DEF s

-----------------------------------------------------------------------------
(* The pieces of the writer *)

LEMMA PieceIsText ==
  ASSUME NEW t \in Seq(Symbols), NEW i \in 1 .. Len(t)
  PROVE  /\ Piece(t, i) \in Seq(Symbols) /\ Behind(t, i) \in i + 1 .. Len(t) + 1
         /\ Sequence(t, i) = 2 <=> i + 1 <= Len(t) /\ t[i] = "u2" /\ t[i + 1] = "cont"
<1>1. t[i] \in Symbols
  OBVIOUS
<1>2. Sequence(t, i) = 2 <=> i + 1 <= Len(t) /\ t[i] = "u2" /\ t[i + 1] = "cont"
  BY DEF Sequence, Ch
<1>3. Behind(t, i) \in i + 1 .. Len(t) + 1
  BY <1>2 DEF Behind
<1>4. CASE Sequence(t, i) = 2
  <2>1. t[i + 1] \in Symbols
    BY <1>2, <1>4
  <2>2. <<t[i], t[i + 1]>> \in Seq(Symbols)
    BY <1>1, <2>1
  <2> QED
    BY <1>2, <1>3, <1>4, <2>2 DEF Piece
<1>5. CASE Sequence(t, i) = 0
  <2>1. <<"\\", "u", "fffd">> \in Seq(Symbols)
    BY DEF Symbols
  <2> QED
    BY <1>2, <1>3, <1>5, <2>1 DEF Piece
<1>6. CASE Sequence(t, i) \notin {0, 2}
  <2>1. /\ <<"\\", t[i]>> \in Seq(Symbols) /\ <<"\\", "n">> \in Seq(Symbols)
        /\ <<"\\", "u", "0001">> \in Seq(Symbols) /\ <<t[i]>> \in Seq(Symbols)
    BY <1>1 DEF Symbols
  <2>2. Written(t[i]) \in {<<"\\", t[i]>>, <<"\\", "n">>, <<"\\", "u", "0001">>, <<t[i]>>}
    BY DEF Written
  <2>3. Piece(t, i) = Written(t[i])
    BY <1>6 DEF Piece
  <2> QED
    BY <1>2, <1>3, <2>1, <2>2, <2>3
<1> QED
  BY <1>4, <1>5, <1>6

LEMMA WrittenIs ==
  ASSUME NEW t \in Seq(Symbols)
  PROVE  /\ \A i \in 1 .. Len(t) + 1 : WrittenFrom(t)[i] \in Seq(Symbols)
         /\ WrittenFrom(t)[Len(t) + 1] = <<>>
         /\ \A i \in 1 .. Len(t) : WrittenFrom(t)[i] = Piece(t, i) \o WrittenFrom(t)[Behind(t, i)]
<1> DEFINE N == Len(t)
           V == Seq(Symbols)
           b == [i \in 1 .. N |-> Behind(t, i)]
           F == [i \in 1 .. N |-> [w \in V |-> Piece(t, i) \o w]]
           Eq(g) == g = [i \in 1 .. N + 1 |-> IF i > N THEN <<>> ELSE Piece(t, i) \o g[Behind(t, i)]]
           from == CHOOSE g : Eq(g)
<1>1. N \in Nat /\ <<>> \in V
  OBVIOUS
<1>2. \A i \in 1 .. N : Piece(t, i) \in V /\ Behind(t, i) \in i + 1 .. N + 1
  BY PieceIsText
<1>3. /\ b \in [1 .. N -> 1 .. N + 1] /\ \A i \in 1 .. N : b[i] > i
      /\ F \in [1 .. N -> [V -> V]]
  <2>1. \A i \in 1 .. N : Behind(t, i) \in 1 .. N + 1 /\ Behind(t, i) > i
    BY <1>1, <1>2
  <2>2. \A i \in 1 .. N : \A w \in V : Piece(t, i) \o w \in V
    BY <1>2
  <2> HIDE DEF V
  <2> QED
    BY <2>1, <2>2
<1>4. PICK g : FoldedBack(g, V, <<>>, N, b, F)
  <2> HIDE DEF F, N, b, V
  <2> QED
    BY <1>1, <1>3, FoldBackExists
<1>5. /\ g \in [1 .. N + 1 -> V] /\ g[N + 1] = <<>>
      /\ \A i \in 1 .. N : g[i] = Piece(t, i) \o g[Behind(t, i)]
  <2>1. /\ g \in [1 .. N + 1 -> V] /\ g[N + 1] = <<>>
        /\ \A i \in 1 .. N : g[i] = F[i][g[b[i]]]
    BY <1>4 DEF FoldedBack
  <2>2. ASSUME NEW i \in 1 .. N
        PROVE  g[i] = Piece(t, i) \o g[Behind(t, i)]
    <3>1. b[i] = Behind(t, i) /\ g[Behind(t, i)] \in V
      BY <1>1, <1>2, <2>1
    <3>2. \A w \in V : F[i][w] = Piece(t, i) \o w
      OBVIOUS
    <3> HIDE DEF F, V, b
    <3> QED
      BY <2>1, <3>1, <3>2
  <2> QED
    BY <2>1, <2>2
<1>6. Eq(g)
  <2>1. g = [i \in 1 .. N + 1 |-> g[i]]
    BY <1>5
  <2>2. \A i \in 1 .. N + 1 : g[i] = IF i > N THEN <<>> ELSE Piece(t, i) \o g[Behind(t, i)]
    <3>1. \A i \in 1 .. N + 1 : (i = N + 1 /\ i > N) \/ (i \in 1 .. N /\ ~(i > N))
      BY <1>1
    <3> HIDE DEF N
    <3> QED
      BY <1>5, <3>1
  <2> HIDE DEF N
  <2> QED
    BY <2>1, <2>2
<1>7. Eq(from)
  <2> HIDE DEF Eq
  <2> QED
    BY <1>6
<1>8. WrittenFrom(t) = from
  BY DEF WrittenFrom
<1> HIDE DEF from
<1>9. /\ from[N + 1] = <<>>
      /\ \A i \in 1 .. N : from[i] = Piece(t, i) \o from[Behind(t, i)]
  <2>1. N + 1 \in 1 .. N + 1 /\ N + 1 > N /\ \A i \in 1 .. N : i \in 1 .. N + 1 /\ ~(i > N)
    BY <1>1
  <2> HIDE DEF N
  <2> QED
    BY <1>7, <2>1
<1>10. \A i \in 1 .. N + 1 : from[i] \in V
  <2> DEFINE S == {i \in 1 .. N + 1 : from[i] \in V}
  <2>1. N + 1 \in S
    <3>1. from[N + 1] \in V
      BY <1>1, <1>9
    <3> HIDE DEF V
    <3> QED
      BY <1>1, <3>1
  <2>2. ASSUME NEW i \in 1 .. N, \A j \in i + 1 .. N + 1 : j \in S
        PROVE  i \in S
    <3>1. from[Behind(t, i)] \in V /\ Piece(t, i) \in V
      BY <1>2, <2>2
    <3>2. Piece(t, i) \o from[Behind(t, i)] \in V
      BY <3>1
    <3> HIDE DEF V
    <3>3. from[i] \in V
      BY <1>9, <3>2
    <3> QED
      BY <1>1, <3>3
  <2>3. \A i \in 1 .. N + 1 : i \in S
    <3> HIDE DEF S, N
    <3> QED
      BY <1>1, <2>1, <2>2, Downwards
  <2> QED
    BY <2>3
<1> QED
  BY <1>8, <1>9, <1>10

-----------------------------------------------------------------------------
(* The writer and the reader side by side *)

\* What only an escape that the reader refuses can express.
Inexpressible(t, j) ==
  t[j] = "ctl" \/ (Sequence(t, j) = 0 /\ ~(j > 1 /\ Sequence(t, j - 1) = 2))

Refused(d, read) == \E m \in 0 .. Len(d) + 1 : read[m] = Stopped(ParseError)

\* The reader has decoded what is written before the piece of the byte at i.
Decoded(t, d, read, i) ==
  \E m \in Nat, pre \in Seq(Symbols), c \in Nat :
    /\ d = (<<Quote>> \o pre) \o (WrittenFrom(t)[i] \o <<Quote>>)
    /\ m <= Len(pre) /\ read[m] = Reading(Len(pre) + 2, SubSeq(t, 1, i - 1), c)

\* A piece of the writer begins at i.
Follows(t, d, read, i) ==
  /\ i = 1 \/ Sequence(t, i - 1) # 2
  /\ (\E j \in 1 .. i - 1 : Inexpressible(t, j)) => Refused(d, read)
  /\ (\A j \in 1 .. i - 1 : ~Inexpressible(t, j)) => Decoded(t, d, read, i)

LEMMA Associates ==
  ASSUME NEW S
  PROVE  \A a, b, c \in Seq(S) : (a \o b) \o c = a \o (b \o c)
  BY ConcatAssociative

LEMMA Joined ==
  ASSUME NEW S, NEW a \in Seq(S), NEW b \in Seq(S)
  PROVE  /\ a \o b \in Seq(S) /\ Len(a \o b) = Len(a) + Len(b)
         /\ \A k \in 1 .. Len(a) : (a \o b)[k] = a[k]
         /\ \A k \in 1 .. Len(b) : (a \o b)[Len(a) + k] = b[k]
  OBVIOUS

\* The document is a prefix behind a quote, a piece, and the rest before a quote.
Parted(d, q, pre, p, rest) == d = (q \o pre) \o ((p \o rest) \o q)

\* Where the piece is found in it.
LEMMA PieceInText ==
  ASSUME NEW S, NEW q \in Seq(S), NEW pre \in Seq(S), NEW p \in Seq(S), NEW rest \in Seq(S),
         NEW d, Len(q) = 1, Parted(d, q, pre, p, rest)
  PROVE  /\ d \in Seq(S) /\ Len(d) = Len(pre) + Len(p) + Len(rest) + 2
         /\ \A k \in 1 .. Len(p) : d[Len(pre) + 1 + k] = p[k]
<1> DEFINE a == q \o pre
           b == rest \o q
           c == p \o b
<1>1. (p \o rest) \o q = c
  BY Associates
<1>2. /\ a \in Seq(S) /\ Len(a) = Len(q) + Len(pre)
      /\ b \in Seq(S) /\ Len(b) = Len(rest) + Len(q)
  BY Joined
<1> HIDE DEF a, b
<1>3. c \in Seq(S) /\ Len(c) = Len(p) + Len(b) /\ \A k \in 1 .. Len(p) : c[k] = p[k]
  <2>1. b \in Seq(S)
    BY <1>2
  <2> QED
    BY <2>1, Joined
<1> HIDE DEF c
<1>4. d = a \o c
  BY <1>1 DEF Parted, a
<1>5. /\ d \in Seq(S) /\ Len(d) = Len(a) + Len(c)
      /\ \A k \in 1 .. Len(c) : d[Len(a) + k] = c[k]
  <2>1. /\ a \o c \in Seq(S) /\ Len(a \o c) = Len(a) + Len(c)
        /\ \A k \in 1 .. Len(c) : (a \o c)[Len(a) + k] = c[k]
    <3>1. a \in Seq(S) /\ c \in Seq(S)
      BY <1>2, <1>3
    <3> QED
      BY <3>1, Joined
  <2> QED
    BY <1>4, <2>1
<1>6. /\ Len(a) \in Nat /\ Len(b) \in Nat /\ Len(pre) \in Nat /\ Len(rest) \in Nat
      /\ Len(p) \in Nat /\ Len(a) = Len(pre) + 1 /\ Len(b) = Len(rest) + 1
  BY <1>2
<1>7. \A k \in 1 .. Len(p) : d[Len(pre) + 1 + k] = p[k]
  <2>1. \A k \in 1 .. Len(p) : k \in 1 .. Len(c)
    BY <1>3, <1>6
  <2> QED
    BY <1>3, <1>5, <1>6, <2>1
<1>8. Len(d) = Len(pre) + Len(p) + Len(rest) + 2
  BY <1>3, <1>5, <1>6
<1> QED
  BY <1>5, <1>7, <1>8

\* The piece may as well belong to the prefix.
LEMMA PieceMoved ==
  ASSUME NEW S, NEW q \in Seq(S), NEW pre \in Seq(S), NEW p \in Seq(S), NEW rest \in Seq(S),
         NEW d, Parted(d, q, pre, p, rest)
  PROVE  d = (q \o (pre \o p)) \o (rest \o q)
<1> DEFINE a == q \o pre
           b == rest \o q
<1>1. (p \o rest) \o q = p \o b
  BY Associates
<1>2. q \o (pre \o p) = a \o p
  BY Associates
<1>3. a \in Seq(S) /\ b \in Seq(S)
  BY Joined
<1> HIDE DEF a, b
<1>4. (a \o p) \o b = a \o (p \o b)
  BY <1>3, Associates
<1>5. d = a \o (p \o b)
  BY <1>1 DEF Parted, a
<1> QED
  BY <1>2, <1>4, <1>5 DEF b

LEMMA OneLonger ==
  ASSUME NEW t \in Seq(Symbols), NEW i \in 1 .. Len(t)
  PROVE  SubSeq(t, 1, i) = Append(SubSeq(t, 1, i - 1), t[i]) /\ SubSeq(t, 1, i - 1) \in Seq(Symbols)
<1> DEFINE u == SubSeq(t, 1, i - 1)
           v == SubSeq(t, 1, i)
           w == Append(u, t[i])
<1>1. /\ u \in Seq(Symbols) /\ Len(u) = i - 1 /\ \A k \in 1 .. i - 1 : u[k] = t[k]
  OBVIOUS
<1>2. /\ v \in Seq(Symbols) /\ Len(v) = i /\ \A k \in 1 .. i : v[k] = t[k]
  OBVIOUS
<1> HIDE DEF u, v
<1>3. /\ w \in Seq(Symbols) /\ Len(w) = i /\ \A k \in 1 .. i : w[k] = t[k]
  <2>1. t[i] \in Symbols
    OBVIOUS
  <2>2. w \in Seq(Symbols) /\ Len(w) = i /\ w[i] = t[i] /\ \A k \in 1 .. i - 1 : w[k] = u[k]
    BY <1>1, <2>1
  <2>3. \A k \in 1 .. i : k = i \/ k \in 1 .. i - 1
    OBVIOUS
  <2> HIDE DEF w
  <2> QED
    BY <1>1, <2>2, <2>3
<1> HIDE DEF w
<1>4. v = w
  BY <1>2, <1>3, SeqEqual
<1> QED
  BY <1>1, <1>4 DEF u, v, w

\* Whether what lies before the next piece can be expressed.
LEMMA InexpressibleHere ==
  ASSUME NEW t \in Seq(Symbols), NEW i \in 1 .. Len(t), i = 1 \/ Sequence(t, i - 1) # 2
  PROVE  /\ Behind(t, i) - 1 \in 1 .. Len(t) /\ Sequence(t, Behind(t, i) - 1) # 2
         /\ Inexpressible(t, i) <=> t[i] = "ctl" \/ Sequence(t, i) = 0
         /\ \A j \in 1 .. Behind(t, i) - 1 : j \in 1 .. i - 1 \/ j = i \/ ~Inexpressible(t, j)
         /\ i \in 1 .. Behind(t, i) - 1 /\ 1 .. i - 1 \subseteq 1 .. Behind(t, i) - 1
<1>1. /\ Behind(t, i) \in i + 1 .. Len(t) + 1
      /\ Sequence(t, i) = 2 <=> i + 1 <= Len(t) /\ t[i] = "u2" /\ t[i + 1] = "cont"
  BY PieceIsText
<1>2. Inexpressible(t, i) <=> t[i] = "ctl" \/ Sequence(t, i) = 0
  BY DEF Inexpressible
<1>3. CASE Sequence(t, i) = 2
  <2>1. Behind(t, i) = i + 2 /\ i + 1 \in 1 .. Len(t) /\ t[i + 1] = "cont"
    BY <1>1, <1>3 DEF Behind
  <2>2. Sequence(t, i + 1) # 2
    BY <2>1 DEF Sequence
  <2>3. ~Inexpressible(t, i + 1)
    <3>1. (i + 1) - 1 = i /\ i + 1 > 1
      OBVIOUS
    <3> QED
      BY <1>3, <2>1, <3>1 DEF Inexpressible
  <2>4. \A j \in 1 .. i + 1 : j \in 1 .. i - 1 \/ j = i \/ j = i + 1
    OBVIOUS
  <2>5. (i + 2) - 1 = i + 1 /\ i \in 1 .. i + 1 /\ 1 .. i - 1 \subseteq 1 .. i + 1
    OBVIOUS
  <2> QED
    BY <1>2, <2>1, <2>2, <2>3, <2>4, <2>5
<1>4. CASE Sequence(t, i) # 2
  <2>1. Behind(t, i) - 1 = i
    BY <1>4 DEF Behind
  <2>2. \A j \in 1 .. i : j \in 1 .. i - 1 \/ j = i
    OBVIOUS
  <2> QED
    BY <1>2, <1>4, <2>1, <2>2
<1> QED
  BY <1>3, <1>4

\* The reader at the piece of the byte at i, with pre behind it and rest before it.
AtPiece(t, d, read, i, m, pre, c) ==
  /\ m \in Nat /\ pre \in Seq(Symbols) /\ c \in Nat /\ m <= Len(pre)
  /\ read[m] = Reading(Len(pre) + 2, SubSeq(t, 1, i - 1), c)
  /\ Parted(d, <<Quote>>, pre, Piece(t, i), WrittenFrom(t)[Behind(t, i)])

\* What is known there of the document and of the next turn.
TurnAtPiece(t, d, read, i, m, pre, c) ==
  /\ d \in Seq(Symbols) /\ m \in 0 .. Len(d) - 2 /\ Len(pre) \in Nat
  /\ Len(pre) + 1 + Len(Piece(t, i)) < Len(d)
  /\ \A k \in 1 .. Len(Piece(t, i)) : d[Len(pre) + 1 + k] = Piece(t, i)[k]
  /\ read[m + 1] = Character(d, Reading(Len(pre) + 2, SubSeq(t, 1, i - 1), c), TRUE)

LEMMA AtPieceFacts ==
  ASSUME NEW t \in Seq(Symbols), NEW d, NEW read, TakesTurns(d, read),
         NEW i \in 1 .. Len(t), NEW m, NEW pre, NEW c, AtPiece(t, d, read, i, m, pre, c)
  PROVE  TurnAtPiece(t, d, read, i, m, pre, c)
<1> DEFINE p == Piece(t, i)
           rest == WrittenFrom(t)[Behind(t, i)]
           q == <<Quote>>
<1>1. /\ m \in Nat /\ pre \in Seq(Symbols) /\ c \in Nat /\ m <= Len(pre)
      /\ read[m] = Reading(Len(pre) + 2, SubSeq(t, 1, i - 1), c)
      /\ Parted(d, q, pre, p, rest)
  BY DEF AtPiece
<1>2. p \in Seq(Symbols) /\ rest \in Seq(Symbols)
  <2>1. Behind(t, i) \in 1 .. Len(t) + 1
    BY PieceIsText
  <2> QED
    BY <2>1, PieceIsText, WrittenIs
<1>3. q \in Seq(Symbols) /\ Len(q) = 1
  BY DEF Quote, Symbols
<1> HIDE DEF p, rest, q
<1>4. /\ d \in Seq(Symbols) /\ Len(d) = Len(pre) + Len(p) + Len(rest) + 2
      /\ \A k \in 1 .. Len(p) : d[Len(pre) + 1 + k] = p[k]
  BY <1>1, <1>2, <1>3, PieceInText
<1>5. Len(pre) \in Nat /\ Len(p) \in Nat /\ Len(rest) \in Nat /\ Len(d) \in Nat
  BY <1>1, <1>2, <1>4
<1>6. m \in 0 .. Len(d) - 2 /\ Len(pre) + 1 + Len(p) < Len(d) /\ m \in 0 .. Len(d)
  BY <1>1, <1>4, <1>5
<1>7. read[m].err = "reading"
  BY <1>1 DEF Reading
<1>8. read[m + 1] = Character(d, read[m], TRUE)
  BY <1>6, <1>7 DEF TakesTurns
<1> QED
  BY <1>1, <1>4, <1>5, <1>6, <1>8 DEF p, TurnAtPiece

\* Once the piece has been read, the reader is at the next one.
BehindPiece(t, read, i, pre, n, e) ==
  /\ n \in Nat /\ e \in Nat /\ n <= Len(pre) + Len(Piece(t, i))
  /\ read[n] = Reading(Len(pre) + Len(Piece(t, i)) + 2, SubSeq(t, 1, Behind(t, i) - 1), e)

LEMMA PieceIsRead ==
  ASSUME NEW t \in Seq(Symbols), NEW d, NEW read, NEW i \in 1 .. Len(t), NEW m, NEW pre, NEW c,
         AtPiece(t, d, read, i, m, pre, c), NEW n, NEW e,
         BehindPiece(t, read, i, pre, n, e)
  PROVE  Decoded(t, d, read, Behind(t, i))
<1> DEFINE p == Piece(t, i)
           rest == WrittenFrom(t)[Behind(t, i)]
           q == <<Quote>>
<1>1. pre \in Seq(Symbols) /\ Parted(d, q, pre, p, rest)
  BY DEF AtPiece
<1>2. p \in Seq(Symbols) /\ rest \in Seq(Symbols)
  <2>1. Behind(t, i) \in 1 .. Len(t) + 1
    BY PieceIsText
  <2> QED
    BY <2>1, PieceIsText, WrittenIs
<1>3. q \in Seq(Symbols) /\ Len(q) = 1
  BY DEF Quote, Symbols
<1>4. /\ n \in Nat /\ e \in Nat /\ n <= Len(pre) + Len(p)
      /\ read[n] = Reading(Len(pre) + Len(p) + 2, SubSeq(t, 1, Behind(t, i) - 1), e)
  BY DEF BehindPiece
<1> HIDE DEF p, rest, q
<1>5. /\ d = (q \o (pre \o p)) \o (rest \o q)
      /\ Len(pre \o p) = Len(pre) + Len(p) /\ pre \o p \in Seq(Symbols)
  <2>1. pre \in Seq(Symbols)
    BY <1>1
  <2>2. d = (q \o (pre \o p)) \o (rest \o q)
    BY <1>1, <1>2, <1>3, PieceMoved
  <2>3. Len(pre \o p) = Len(pre) + Len(p) /\ pre \o p \in Seq(Symbols)
    BY <1>2, <2>1, Joined
  <2> QED
    BY <2>2, <2>3
<1> DEFINE all == pre \o p
<1>6. all \in Seq(Symbols) /\ Len(all) = Len(pre) + Len(p) /\ d = (q \o all) \o (rest \o q)
  BY <1>5
<1> HIDE DEF all
<1>7. n <= Len(all) /\ read[n] = Reading(Len(all) + 2, SubSeq(t, 1, Behind(t, i) - 1), e)
  BY <1>4, <1>6
<1> QED
  BY <1>4, <1>6, <1>7 DEF Decoded, rest, q

\* The reader ends at a NUL.
HasNoNul(t) == \A k \in DOMAIN t : t[k] # "NUL"

\* The pieces that the reader decodes, and those that it refuses.
LEMMA PieceRead ==
  ASSUME NEW t \in Seq(Symbols), HasNoNul(t), NEW d, NEW read,
         TakesTurns(d, read), NEW i \in 1 .. Len(t), Decoded(t, d, read, i)
  PROVE  /\ t[i] = "ctl" \/ Sequence(t, i) = 0 => Refused(d, read)
         /\ ~(t[i] = "ctl" \/ Sequence(t, i) = 0) => Decoded(t, d, read, Behind(t, i))
<1> DEFINE text == SubSeq(t, 1, i - 1)
           p == Piece(t, i)
<1>1. PICK m, pre, c : AtPiece(t, d, read, i, m, pre, c)
  <2>1. PICK m \in Nat, pre \in Seq(Symbols), c \in Nat :
          /\ d = (<<Quote>> \o pre) \o (WrittenFrom(t)[i] \o <<Quote>>)
          /\ m <= Len(pre) /\ read[m] = Reading(Len(pre) + 2, SubSeq(t, 1, i - 1), c)
    BY DEF Decoded
  <2>2. WrittenFrom(t)[i] = Piece(t, i) \o WrittenFrom(t)[Behind(t, i)]
    BY WrittenIs
  <2>3. AtPiece(t, d, read, i, m, pre, c)
    BY <2>1, <2>2 DEF AtPiece, Parted
  <2> QED
    BY <2>3
<1> DEFINE a == Len(pre) + 2
<1>2. /\ d \in Seq(Symbols) /\ m \in 0 .. Len(d) - 2 /\ Len(pre) \in Nat
      /\ Len(pre) + 1 + Len(p) < Len(d)
      /\ \A k \in 1 .. Len(p) : d[Len(pre) + 1 + k] = p[k]
      /\ read[m + 1] = Character(d, Reading(a, text, c), TRUE)
  <2>1. TurnAtPiece(t, d, read, i, m, pre, c)
    BY <1>1, AtPieceFacts
  <2> QED
    BY <2>1 DEF TurnAtPiece
<1>3. c \in Nat /\ m \in Nat /\ m <= Len(pre) /\ Len(d) \in Nat
  BY <1>1, <1>2 DEF AtPiece
<1>4. /\ text \in Seq(Symbols) /\ SubSeq(t, 1, i) = Append(text, t[i])
      /\ t[i] \in Symbols /\ t[i] # "NUL"
  BY OneLonger DEF HasNoNul
<1>5. /\ Len(p) >= 1 => a \in 1 .. Len(d) /\ d[a] = p[1]
      /\ Len(p) >= 2 => a + 1 \in 1 .. Len(d) /\ a + 1 <= Len(d) /\ d[a + 1] = p[2]
  <2>1. p \in Seq(Symbols) /\ Len(p) \in Nat
    BY PieceIsText
  <2>2. ASSUME Len(p) >= 1
        PROVE  a \in 1 .. Len(d) /\ d[a] = p[1]
    <3>1. 1 \in 1 .. Len(p) /\ Len(pre) + 1 + 1 = a
      BY <1>2, <2>1, <2>2
    <3> QED
      BY <1>2, <1>3, <2>1, <3>1
  <2>3. ASSUME Len(p) >= 2
        PROVE  a + 1 \in 1 .. Len(d) /\ a + 1 <= Len(d) /\ d[a + 1] = p[2]
    <3>1. 2 \in 1 .. Len(p) /\ Len(pre) + 1 + 2 = a + 1
      BY <1>2, <2>1, <2>3
    <3> QED
      BY <1>2, <1>3, <2>1, <3>1
  <2> QED
    BY <2>2, <2>3
<1>6. \A k \in 0 .. Len(d) : read[k].err = "reading" => read[k + 1] = Character(d, read[k], TRUE)
  BY DEF TakesTurns
<1> HIDE DEF a, p, text
<1>7. CASE Sequence(t, i) = 2
  <2>1. i + 1 \in 1 .. Len(t) /\ t[i] = "u2" /\ t[i + 1] = "cont" /\ Behind(t, i) = i + 2
    BY <1>7, PieceIsText DEF Behind
  <2>2. Len(p) = 2 /\ p[1] = t[i] /\ p[2] = t[i + 1]
    BY <1>7 DEF Piece, p
  <2>3. /\ d[a] \notin Controls \cup {Quote, "\\", "NUL"}
        /\ d[a + 1] \notin Controls \cup {Quote, "\\", "NUL"}
        /\ d[a] = t[i] /\ d[a + 1] = t[i + 1] /\ a \in 1 .. Len(d) /\ a + 1 \in 1 .. Len(d)
    BY <1>5, <2>1, <2>2 DEF Controls, Quote
  <2>4. PICK c1 \in Nat : read[m + 1] = Reading(a + 1, Append(text, t[i]), c1)
    <3>1. \E c1 \in Nat : Character(d, Reading(a, text, c), TRUE) = Reading(a + 1, Append(text, d[a]), c1)
      <4>1. d \in Seq(Symbols) /\ a \in 1 .. Len(d)
        BY <1>2, <2>3
      <4>2. d[a] \notin Controls \cup {Quote, "\\", "NUL"}
        BY <2>3
      <4> QED
        BY <1>3, <1>4, <4>1, <4>2, ReadsPlain
    <3> QED
      BY <1>2, <2>3, <3>1
  <2>5. read[(m + 1) + 1] = Character(d, read[m + 1], TRUE)
    <3>1. m + 1 \in 0 .. Len(d)
      BY <1>2, <1>3
    <3>2. read[m + 1].err = "reading"
      BY <2>4 DEF Reading
    <3> QED
      BY <1>6, <3>1, <3>2
  <2>6. Append(text, t[i]) \in Seq(Symbols)
    BY <1>4
  <2>7. PICK c2 \in Nat : read[m + 2] = Reading((a + 1) + 1, Append(Append(text, t[i]), t[i + 1]), c2)
    <3>1. (m + 1) + 1 = m + 2
      BY <1>3
    <3>2. \E c2 \in Nat : Character(d, Reading(a + 1, Append(text, t[i]), c1), TRUE) =
                            Reading((a + 1) + 1, Append(Append(text, t[i]), d[a + 1]), c2)
      <4>1. d \in Seq(Symbols) /\ a + 1 \in 1 .. Len(d)
        BY <1>2, <2>3
      <4>2. d[a + 1] \notin Controls \cup {Quote, "\\", "NUL"}
        BY <2>3
      <4> HIDE DEF text
      <4> QED
        BY <2>6, <4>1, <4>2, ReadsPlain
    <3> QED
      BY <2>3, <2>4, <2>5, <3>1, <3>2
  <2>8. SubSeq(t, 1, Behind(t, i) - 1) = Append(Append(text, t[i]), t[i + 1])
    <3>1. (i + 1) - 1 = i /\ Behind(t, i) - 1 = i + 1
      BY <2>1
    <3> QED
      BY <1>4, <2>1, <3>1, OneLonger
  <2>9. BehindPiece(t, read, i, pre, m + 2, c2)
    <3>1. (a + 1) + 1 = Len(pre) + Len(p) + 2 /\ m + 2 \in Nat /\ m + 2 <= Len(pre) + Len(p)
      BY <1>2, <1>3, <2>2 DEF a
    <3> QED
      BY <2>7, <2>8, <3>1 DEF BehindPiece, p
  <2> QED
    BY <1>1, <1>7, <2>1, <2>9, PieceIsRead
<1>8. CASE Sequence(t, i) = 0 \/ t[i] = "ctl"
  <2>1. Len(p) = 3 /\ p[1] = "\\" /\ p[2] = "u"
    BY <1>8 DEF Piece, Written, Sequence, Quote, p
  <2>2. a \in 1 .. Len(d) /\ a + 1 <= Len(d) /\ d[a] = "\\" /\ d[a + 1] = "u"
    BY <1>5, <2>1
  <2>3. read[m + 1] = Stopped(ParseError)
    BY <1>2, <2>2, RefusesEscape
  <2>4. m + 1 \in 0 .. Len(d) + 1
    BY <1>2, <1>3
  <2> QED
    BY <1>8, <2>3, <2>4 DEF Refused
<1>9. CASE Sequence(t, i) \notin {0, 2} /\ t[i] \in {Quote, "\\", "LF"}
  <2>1. Behind(t, i) = i + 1 /\ t[i] # "ctl"
    BY <1>9 DEF Behind, Quote
  <2>2. Len(p) = 2 /\ p[1] = "\\" /\ p[2] \in Escapes /\ EscapeOf(p[2]) = t[i]
    BY <1>9 DEF Piece, Written, Quote, Escapes, EscapeOf, Words, Literals, p
  <2>3. a \in 1 .. Len(d) /\ a + 1 <= Len(d) /\ d[a] = "\\" /\ d[a + 1] \in Escapes
        /\ EscapeOf(d[a + 1]) = t[i]
    BY <1>5, <2>2
  <2>4. PICK c1 \in Nat : read[m + 1] = Reading(a + 2, Append(text, t[i]), c1)
    <3>1. \E c1 \in Nat : Character(d, Reading(a, text, c), TRUE) =
                            Reading(a + 2, Append(text, EscapeOf(d[a + 1])), c1)
      <4>1. d \in Seq(Symbols) /\ a \in 1 .. Len(d) /\ a + 1 <= Len(d)
        BY <1>2, <2>3
      <4> QED
        BY <1>3, <1>4, <2>3, <4>1, ReadsEscape
    <3> QED
      BY <1>2, <2>3, <3>1
  <2>5. SubSeq(t, 1, Behind(t, i) - 1) = Append(text, t[i])
    BY <1>4, <2>1
  <2>6. BehindPiece(t, read, i, pre, m + 1, c1)
    <3>1. a + 2 = Len(pre) + Len(p) + 2 /\ m + 1 \in Nat /\ m + 1 <= Len(pre) + Len(p)
      BY <1>2, <1>3, <2>2 DEF a
    <3> QED
      BY <2>4, <2>5, <3>1 DEF BehindPiece, p
  <2> QED
    BY <1>1, <1>9, <2>1, <2>6, PieceIsRead
<1>10. CASE Sequence(t, i) \notin {0, 2} /\ t[i] \notin {Quote, "\\", "LF", "ctl"}
  <2>1. Behind(t, i) = i + 1
    BY <1>10 DEF Behind
  <2>2. Len(p) = 1 /\ p[1] = t[i]
    BY <1>10 DEF Piece, Written, p
  <2>3. a \in 1 .. Len(d) /\ d[a] = t[i] /\ d[a] \notin Controls \cup {Quote, "\\", "NUL"}
    BY <1>4, <1>5, <1>10, <2>2 DEF Controls
  <2>4. PICK c1 \in Nat : read[m + 1] = Reading(a + 1, Append(text, t[i]), c1)
    <3>1. \E c1 \in Nat : Character(d, Reading(a, text, c), TRUE) = Reading(a + 1, Append(text, d[a]), c1)
      <4>1. d \in Seq(Symbols) /\ a \in 1 .. Len(d)
        BY <1>2, <2>3
      <4>2. d[a] \notin Controls \cup {Quote, "\\", "NUL"}
        BY <2>3
      <4> QED
        BY <1>3, <1>4, <4>1, <4>2, ReadsPlain
    <3> QED
      BY <1>2, <2>3, <3>1
  <2>5. SubSeq(t, 1, Behind(t, i) - 1) = Append(text, t[i])
    BY <1>4, <2>1
  <2>6. BehindPiece(t, read, i, pre, m + 1, c1)
    <3>1. a + 1 = Len(pre) + Len(p) + 2 /\ m + 1 \in Nat /\ m + 1 <= Len(pre) + Len(p)
      BY <1>2, <1>3, <2>2 DEF a
    <3> QED
      BY <2>4, <2>5, <3>1 DEF BehindPiece, p
  <2> QED
    BY <1>1, <1>10, <2>1, <2>6, PieceIsRead
<1> QED
  BY <1>7, <1>8, <1>9, <1>10

LEMMA FollowsStep ==
  ASSUME NEW t \in Seq(Symbols), HasNoNul(t), NEW d, NEW read, TakesTurns(d, read),
         NEW i \in 1 .. Len(t), Follows(t, d, read, i)
  PROVE  Follows(t, d, read, Behind(t, i))
<1> DEFINE n == Behind(t, i) - 1
<1>1. /\ i = 1 \/ Sequence(t, i - 1) # 2
      /\ (\E j \in 1 .. i - 1 : Inexpressible(t, j)) => Refused(d, read)
      /\ (\A j \in 1 .. i - 1 : ~Inexpressible(t, j)) => Decoded(t, d, read, i)
  BY DEF Follows
<1>2. Sequence(t, n) # 2
  BY <1>1, InexpressibleHere
<1>3. Inexpressible(t, i) <=> t[i] = "ctl" \/ Sequence(t, i) = 0
  BY <1>1, InexpressibleHere
<1>4. \A j \in 1 .. n : j \in 1 .. i - 1 \/ j = i \/ ~Inexpressible(t, j)
  BY <1>1, InexpressibleHere
<1>5. i \in 1 .. n /\ 1 .. i - 1 \subseteq 1 .. n
  BY <1>1, InexpressibleHere
<1> HIDE DEF n
<1>6. CASE \E j \in 1 .. i - 1 : Inexpressible(t, j)
  <2>1. \E j \in 1 .. n : Inexpressible(t, j)
    BY <1>5, <1>6
  <2> QED
    BY <1>1, <1>2, <1>6, <2>1 DEF Follows, n
<1>7. CASE \A j \in 1 .. i - 1 : ~Inexpressible(t, j)
  <2>1. Decoded(t, d, read, i)
    BY <1>1, <1>7
  <2>2. /\ Inexpressible(t, i) => Refused(d, read)
        /\ ~Inexpressible(t, i) => Decoded(t, d, read, Behind(t, i))
    BY <1>3, <2>1, PieceRead
  <2>3. (\E j \in 1 .. n : Inexpressible(t, j)) <=> Inexpressible(t, i)
    BY <1>4, <1>5, <1>7
  <2> QED
    BY <1>2, <2>2, <2>3 DEF Follows, n
<1> QED
  BY <1>6, <1>7

\* The reader gets to the end of the text.
LEMMA FollowsToTheEnd ==
  ASSUME NEW t \in Seq(Symbols), HasNoNul(t), NEW d, NEW read, TakesTurns(d, read),
         Follows(t, d, read, 1)
  PROVE  Follows(t, d, read, Len(t) + 1)
<1> DEFINE N == Len(t)
           Here(n) == Follows(t, d, read, n + 1)
           Within(n) == n > 0 /\ Sequence(t, n) = 2 /\ Follows(t, d, read, n)
           S == {n \in 0 .. N : Here(n) \/ Within(n)}
<1>1. N \in Nat
  OBVIOUS
<1>2. 0 \in S
  <2>1. 0 + 1 = 1
    OBVIOUS
  <2>2. Here(0)
    BY <2>1
  <2> HIDE DEF Here, Within
  <2> QED
    BY <1>1, <2>2
<1>3. \A i \in 1 .. N :
        Follows(t, d, read, i) =>
          IF Sequence(t, i) = 2 THEN Follows(t, d, read, i + 2) ELSE Follows(t, d, read, i + 1)
  BY FollowsStep DEF Behind
<1>4. ASSUME NEW n \in 0 .. N - 1, n \in S
      PROVE  n + 1 \in S
  <2>1. n + 1 \in 1 .. N /\ n + 1 \in 0 .. N /\ n + 1 > 0 /\ (n + 1) + 1 = n + 2
    BY <1>1
  <2>2. CASE Here(n)
    <3>1. Follows(t, d, read, n + 1)
      BY <2>2
    <3>2. CASE Sequence(t, n + 1) = 2
      BY <2>1, <3>1, <3>2
    <3>3. CASE Sequence(t, n + 1) # 2
      <4>1. Follows(t, d, read, (n + 1) + 1)
        BY <1>3, <2>1, <3>1, <3>3
      <4> QED
        BY <2>1, <4>1
    <3> QED
      BY <3>2, <3>3
  <2>3. CASE Within(n)
    <3>1. n \in 1 .. N /\ Sequence(t, n) = 2 /\ Follows(t, d, read, n)
      BY <1>1, <2>3
    <3>2. Follows(t, d, read, n + 2)
      BY <1>3, <3>1
    <3> QED
      BY <2>1, <3>2
  <2> QED
    BY <1>4, <2>2, <2>3
<1>5. \A n \in 0 .. N : n \in S
  <2> HIDE DEF S, N
  <2> QED
    BY <1>1, <1>2, <1>4, Upwards
<1>6. ~Within(N)
  <2>1. \A i \in 1 .. N : Sequence(t, i) = 2 => i + 1 <= N
    BY PieceIsText
  <2> QED
    BY <1>1, <2>1
<1>7. N \in S
  BY <1>1, <1>5
<1> QED
  BY <1>6, <1>7

-----------------------------------------------------------------------------
(* A whole response *)

LEMMA SkipWsStays ==
  ASSUME NEW d \in Seq(Symbols), NEW i \in 1 .. Len(d) + 1, Ch(d, i) \notin Spaces
  PROVE  SkipWs(d, i) = i
<1> DEFINE P(j) == Ch(d, j) \notin Spaces /\ \A k \in i .. j - 1 : d[k] \in Spaces
           j == CHOOSE j \in i .. Len(d) + 1 : P(j)
<1>1. i \in i .. Len(d) + 1 /\ P(i)
  OBVIOUS
<1>2. j \in i .. Len(d) + 1 /\ P(j)
  <2> HIDE DEF P
  <2> QED
    BY <1>1
<1>3. SkipWs(d, i) = j
  BY DEF SkipWs
<1> HIDE DEF j
<1>4. ASSUME j # i
      PROVE  FALSE
  <2>1. i \in i .. j - 1 /\ i <= Len(d)
    BY <1>2, <1>4
  <2>2. d[i] \in Spaces
    BY <1>2, <2>1
  <2> QED
    BY <2>1, <2>2 DEF Ch
<1> QED
  BY <1>3, <1>4

\* How the document begins.
LEMMA DocumentBegins ==
  ASSUME NEW t \in Seq(Symbols), NEW d, d = WriteString(t)
  PROVE  /\ d \in Seq(Symbols) /\ Len(d) >= 2 /\ d[1] = Quote
         /\ d = (<<Quote>> \o <<>>) \o (WrittenFrom(t)[1] \o <<Quote>>)
<1> DEFINE q == <<Quote>>
           w == WrittenFrom(t)[1]
<1>1. w \in Seq(Symbols)
  <2>1. 1 \in 1 .. Len(t) + 1
    OBVIOUS
  <2> QED
    BY <2>1, WrittenIs
<1>2. q \in Seq(Symbols) /\ Len(q) = 1 /\ q[1] = Quote
  BY DEF Quote, Symbols
<1>3. d = (q \o w) \o q
  BY DEF WriteString
<1> HIDE DEF q, w
<1>4. (q \o w) \o q = q \o (w \o q)
  BY <1>1, <1>2, Associates
<1>5. q \o <<>> = q
  BY <1>2
<1>6. /\ w \o q \in Seq(Symbols) /\ Len(w \o q) = Len(w) + Len(q)
  BY <1>1, <1>2, Joined
<1>7. /\ q \o (w \o q) \in Seq(Symbols) /\ Len(q \o (w \o q)) = Len(q) + Len(w \o q)
      /\ \A k \in 1 .. Len(q) : (q \o (w \o q))[k] = q[k]
  BY <1>2, <1>6, Joined
<1>8. Len(w) \in Nat /\ 1 \in 1 .. Len(q)
  BY <1>1, <1>2
<1>9. d \in Seq(Symbols) /\ Len(d) >= 2 /\ d[1] = Quote
  BY <1>2, <1>3, <1>4, <1>6, <1>7, <1>8
<1> QED
  BY <1>3, <1>4, <1>5, <1>9 DEF q, w

\* How it ends, when all of it has been decoded.
LEMMA DocumentEnds ==
  ASSUME NEW t \in Seq(Symbols), NEW d \in Seq(Symbols), NEW read, TakesTurns(d, read),
         Decoded(t, d, read, Len(t) + 1)
  PROVE  \E m \in 0 .. Len(d) + 1 : read[m] = Stopped(Ok(Len(d) + 1, t))
<1> DEFINE q == <<Quote>>
<1>1. PICK m \in Nat, pre \in Seq(Symbols), c \in Nat :
        /\ d = (q \o pre) \o (WrittenFrom(t)[Len(t) + 1] \o q)
        /\ m <= Len(pre) /\ read[m] = Reading(Len(pre) + 2, SubSeq(t, 1, (Len(t) + 1) - 1), c)
  BY DEF Decoded
<1>2. q \in Seq(Symbols) /\ Len(q) = 1 /\ q[1] = Quote
  BY DEF Quote, Symbols
<1>3. SubSeq(t, 1, (Len(t) + 1) - 1) = t
  OBVIOUS
<1>4. d = (q \o pre) \o q
  <2>1. WrittenFrom(t)[Len(t) + 1] \o q = q
    <3>1. WrittenFrom(t)[Len(t) + 1] = <<>>
      BY WrittenIs
    <3>2. <<>> \o q = q
      BY <1>2
    <3> QED
      BY <3>1, <3>2
  <2> QED
    BY <1>1, <2>1
<1> HIDE DEF q
<1> DEFINE a == q \o pre
<1>5. a \in Seq(Symbols) /\ Len(a) = Len(q) + Len(pre)
  BY <1>2, Joined
<1>6. d = a \o q
  BY <1>4
<1> HIDE DEF a
<1>7. Len(d) = Len(a) + Len(q) /\ \A k \in 1 .. Len(q) : d[Len(a) + k] = q[k]
  <2>1. Len(a \o q) = Len(a) + Len(q) /\ \A k \in 1 .. Len(q) : (a \o q)[Len(a) + k] = q[k]
    <3>1. a \in Seq(Symbols) /\ q \in Seq(Symbols)
      BY <1>2, <1>5
    <3> QED
      BY <3>1, Joined
  <2> QED
    BY <1>6, <2>1
<1>8. /\ Len(pre) \in Nat /\ Len(d) = Len(pre) + 2 /\ Len(d) \in 1 .. Len(d)
      /\ d[Len(d)] = Quote
  <2>1. Len(pre) \in Nat /\ 1 \in 1 .. Len(q)
    BY <1>2
  <2> QED
    BY <1>2, <1>5, <1>7, <2>1
<1>9. m \in 0 .. Len(d) /\ m + 1 \in 0 .. Len(d) + 1
  BY <1>1, <1>8
<1>10. read[m] = Reading(Len(d), t, c)
  BY <1>1, <1>3, <1>8
<1>11. read[m + 1] = Character(d, Reading(Len(d), t, c), TRUE)
  <2>1. read[m].err = "reading"
    BY <1>10 DEF Reading
  <2> QED
    BY <1>9, <1>10, <2>1 DEF TakesTurns
<1>12. Character(d, Reading(Len(d), t, c), TRUE) = Stopped(Ok(Len(d) + 1, t))
  <2>1. Len(d) \in 1 .. Len(d) /\ d[Len(d)] = Quote
    BY <1>8
  <2> QED
    BY <2>1, ZenonT(30), ReadsQuote
<1> QED
  BY <1>9, <1>11, <1>12

\* What the reader makes of it.
IsInexpressible(t) == \E j \in 1 .. Len(t) : Inexpressible(t, j)

LEMMA LoopReads ==
  ASSUME NEW t \in Seq(Symbols), HasNoNul(t), NEW d, d = WriteString(t), NEW capacity \in Nat
  PROVE  Characters(d, 2, capacity, TRUE) =
           IF IsInexpressible(t) THEN Stopped(ParseError) ELSE Stopped(Ok(Len(d) + 1, t))
<1> DEFINE read == Loop(d, 2, capacity, TRUE)
<1>1. /\ d \in Seq(Symbols) /\ Len(d) >= 2 /\ d[1] = Quote
      /\ d = (<<Quote>> \o <<>>) \o (WrittenFrom(t)[1] \o <<Quote>>)
  BY DocumentBegins
<1>2. Characters(d, 2, capacity, TRUE) = read[Len(d) + 1]
  BY DEF Characters, Loop
<1>3. Turns(d, 2, capacity, TRUE, read)
  <2>1. d \in Seq(Symbols) /\ 2 \in Nat \ {0}
    BY <1>1
  <2> QED
    BY <2>1, LoopTurns
<1> HIDE DEF read
<1>4. TakesTurns(d, read)
  BY <1>1, <1>3, NextTurn
<1>5. Follows(t, d, read, 1)
  <2>1. read[0] = Reading(Len(<<>>) + 2, SubSeq(t, 1, 1 - 1), capacity)
    <3>1. SubSeq(t, 1, 1 - 1) = <<>> /\ Len(<<>>) + 2 = 2
      OBVIOUS
    <3> QED
      BY <1>3, <3>1 DEF Turns
  <2>2. <<>> \in Seq(Symbols) /\ 0 \in Nat /\ 0 <= Len(<<>>)
    OBVIOUS
  <2>3. Decoded(t, d, read, 1)
    BY <1>1, <2>1, <2>2 DEF Decoded
  <2>4. 1 .. 1 - 1 = {}
    OBVIOUS
  <2> QED
    BY <2>3, <2>4 DEF Follows
<1>6. Follows(t, d, read, Len(t) + 1)
  BY <1>4, <1>5, FollowsToTheEnd
<1>7. /\ IsInexpressible(t) => Refused(d, read)
      /\ ~IsInexpressible(t) => Decoded(t, d, read, Len(t) + 1)
  <2>1. (Len(t) + 1) - 1 = Len(t)
    OBVIOUS
  <2> QED
    BY <1>6, <2>1 DEF Follows, IsInexpressible
<1>8. \A m \in 0 .. Len(d) + 1 : read[m].err # "reading" => read[Len(d) + 1] = read[m]
  <2>1. d \in Seq(Symbols)
    BY <1>1
  <2>2. StaysStopped(d, read)
    <3>1. \A n \in 1 .. Len(d) + 1 : read[n - 1].err # "reading" => read[n] = read[n - 1]
      BY <1>3 DEF Turns
    <3>2. Len(d) \in Nat
      BY <2>1
    <3> QED
      BY <3>1, <3>2, StoppedForGood
  <2> QED
    BY <2>2 DEF StaysStopped
<1>9. CASE IsInexpressible(t)
  <2>1. PICK m \in 0 .. Len(d) + 1 : read[m] = Stopped(ParseError)
    BY <1>7, <1>9 DEF Refused
  <2>2. read[m].err # "reading"
    BY <2>1 DEF Stopped, ParseError, Error
  <2> QED
    BY <1>2, <1>8, <1>9, <2>1, <2>2
<1>10. CASE ~IsInexpressible(t)
  <2>1. PICK m \in 0 .. Len(d) + 1 : read[m] = Stopped(Ok(Len(d) + 1, t))
    BY <1>1, <1>4, <1>7, <1>10, DocumentEnds
  <2>2. read[m].err # "reading"
    BY <2>1 DEF Stopped, Ok
  <2> QED
    BY <1>2, <1>8, <1>10, <2>1, <2>2
<1> QED
  BY <1>9, <1>10

LEMMA ResponseReadBack ==
  ASSUME NEW t \in Seq(Symbols), HasNoNul(t), NEW d, d = WriteString(t)
  PROVE  Finish(d, RequestString(d, 1)) =
           IF IsInexpressible(t) THEN ParseError ELSE Ok(Len(d) + 1, t)
<1> DEFINE r == RequestString(d, 1)
<1>1. d \in Seq(Symbols) /\ Len(d) >= 2 /\ d[1] = Quote
  BY DocumentBegins
<1>2. Initial \in Nat
  BY JsonAssumption
<1>3. Ch(d, 1) = Quote /\ 1 \in 1 .. Len(d) + 1 /\ Ch(d, Len(d) + 1) = "NUL"
      /\ Len(d) + 1 \in 1 .. Len(d) + 1 /\ Len(d) + 1 > Len(d) /\ ~(Len(d) + 1 <= Len(d))
  BY <1>1 DEF Ch
<1>4. SkipWs(d, 1) = 1
  BY <1>1, <1>3, SkipWsStays DEF Quote, Spaces
<1>5. SkipWs(d, Len(d) + 1) = Len(d) + 1
  BY <1>1, <1>3, SkipWsStays DEF Spaces
<1>6. Characters(d, 2, Initial, TRUE) =
        IF IsInexpressible(t) THEN Stopped(ParseError) ELSE Stopped(Ok(Len(d) + 1, t))
  BY <1>2, LoopReads
<1> DEFINE read == Characters(d, 2, Initial, TRUE)
<1>7. r = [err |-> read.err, at |-> read.at, value |-> read.value]
  <2>1. 1 + 1 = 2
    OBVIOUS
  <2> QED
    BY <1>3, <1>4, <2>1 DEF RequestString, String
<1> HIDE DEF r, read
<1>8. r = IF IsInexpressible(t) THEN ParseError ELSE Ok(Len(d) + 1, t)
  <2>1. CASE IsInexpressible(t)
    <3>1. read = Stopped(ParseError)
      BY <1>6, <2>1 DEF read
    <3> QED
      BY <1>7, <2>1, <3>1 DEF Stopped, ParseError, Error
  <2>2. CASE ~IsInexpressible(t)
    <3>1. read = Stopped(Ok(Len(d) + 1, t))
      BY <1>6, <2>2 DEF read
    <3> QED
      BY <1>7, <2>2, <3>1 DEF Stopped, Ok
  <2> QED
    BY <2>1, <2>2
<1>9. CASE IsInexpressible(t)
  <2>1. r = ParseError /\ r.err # "ok"
    BY <1>8, <1>9 DEF ParseError, Error
  <2> QED
    BY <1>9, <2>1 DEF Finish, r
<1>10. CASE ~IsInexpressible(t)
  <2>1. r.err = "ok" /\ r.at = Len(d) + 1
    BY <1>8, <1>10 DEF Ok
  <2> QED
    BY <1>3, <1>5, <1>8, <1>10, <2>1 DEF Finish, r
<1> QED
  BY <1>9, <1>10

-----------------------------------------------------------------------------
(* The program *)

\* What has been written is the argument, and what has been read is what the
\* reader makes of that.
JsonInv ==
  mode = "argument" =>
    /\ doc \in Arguments /\ out \in {<<>>, WriteString(doc)}
    /\ result.err # "none" =>
         out = WriteString(doc) /\ result = Finish(out, RequestString(out, 1))

LEMMA JsonInvHolds == Spec => []JsonInv
<1>1. Init => JsonInv
  BY DEF Init, JsonInv, Error
<1>2. JsonInv /\ [Next]_vars => JsonInv'
  <2> SUFFICES ASSUME JsonInv, [Next]_vars, mode' = "argument"
               PROVE  /\ doc' \in Arguments /\ out' \in {<<>>, WriteString(doc')}
                      /\ result'.err # "none" =>
                           out' = WriteString(doc') /\ result' = Finish(out', RequestString(out', 1))
    BY DEF JsonInv
  <2>1. CASE ReadRequest
    BY <2>1 DEF ReadRequest
  <2>2. CASE ReadConfig
    BY <2>2 DEF ReadConfig
  <2>3. CASE Respond
    BY <2>3 DEF Respond, JsonInv
  <2>4. CASE ReadBack
    BY <2>4 DEF ReadBack, JsonInv
  <2>5. CASE UNCHANGED vars
    BY <2>5 DEF vars, JsonInv
  <2> QED
    BY <2>1, <2>2, <2>3, <2>4, <2>5 DEF Next
<1> QED
  BY <1>1, <1>2, PTL DEF Spec

\* An argument of a response is read back as it was given, or refused for an
\* escape that the reader does not know, never as another text: for arguments of
\* every length and whatever the first capacity of the reader's buffer.
THEOREM ResponsesAlwaysReadBack == Spec => []ResponsesReadBack
<1>1. JsonInv => ResponsesReadBack
  <2> SUFFICES ASSUME JsonInv, mode = "argument", result.err # "none"
               PROVE  IF \E i \in DOMAIN doc :
                           \/ doc[i] = "ctl"
                           \/ Sequence(doc, i) = 0 /\ ~(i > 1 /\ Sequence(doc, i - 1) = 2)
                      THEN result.err = "parse"
                      ELSE result.err = "ok" /\ result.value = doc
    BY DEF ResponsesReadBack
  <2>1. doc \in Seq(STRING) /\ HasNoNul(doc)
    BY JsonAssumption DEF JsonInv, HasNoNul
  <2>2. doc \in Seq(Symbols)
    BY <2>1 DEF Symbols
  <2>3. result = IF IsInexpressible(doc) THEN ParseError ELSE Ok(Len(out) + 1, doc)
    BY <2>1, <2>2, ResponseReadBack DEF JsonInv
  <2>4. IsInexpressible(doc) <=>
          \E i \in DOMAIN doc :
             \/ doc[i] = "ctl"
             \/ Sequence(doc, i) = 0 /\ ~(i > 1 /\ Sequence(doc, i - 1) = 2)
    BY <2>2 DEF IsInexpressible, Inexpressible
  <2> QED
    BY <2>3, <2>4 DEF ParseError, Error, Ok
<1> QED
  BY <1>1, JsonInvHolds, PTL

-----------------------------------------------------------------------------
(* The tokens of any document: numbers *)

\* A scan stops where the first character is outside its class, and only there.
Stops(d, i, class, j) ==
  j \in i .. Len(d) + 1 /\ Ch(d, j) \notin class /\ \A k \in i .. j - 1 : d[k] \in class

LEMMA ScanStops ==
  ASSUME NEW d \in Seq(STRING), NEW i \in 1 .. Len(d) + 1, NEW class, "NUL" \notin class
  PROVE  \E j : Stops(d, i, class, j)
<1> DEFINE S == {j \in i .. Len(d) + 1 : Ch(d, j) \notin class}
<1>1. Len(d) + 1 \in S
  BY DEF Ch
<1>2. PICK j \in S : \A k \in S : j <= k
  <2>1. S \in SUBSET Nat
    OBVIOUS
  <2> QED
    BY <1>1, <2>1, LeastElement
<1>3. ASSUME NEW k \in i .. j - 1
      PROVE  d[k] \in class
  <2>1. k \notin S /\ k \in i .. Len(d) + 1 /\ k <= Len(d)
    BY <1>2
  <2> QED
    BY <2>1 DEF Ch
<1> QED
  BY <1>2, <1>3 DEF Stops

LEMMA ScanStopsOnce ==
  ASSUME NEW d \in Seq(STRING), NEW i \in 1 .. Len(d) + 1, NEW class, NEW j, NEW k,
         Stops(d, i, class, j), Stops(d, i, class, k)
  PROVE  j = k
<1>1. ASSUME NEW m, NEW n, Stops(d, i, class, m), Stops(d, i, class, n), m < n
      PROVE  FALSE
  <2>1. m \in i .. n - 1 /\ m <= Len(d)
    BY <1>1 DEF Stops
  <2>2. d[m] \in class /\ Ch(d, m) = d[m]
    BY <1>1, <2>1 DEF Stops, Ch
  <2> QED
    BY <1>1, <2>2 DEF Stops
<1>2. j \in Nat /\ k \in Nat
  BY DEF Stops
<1>3. ~(j < k) /\ ~(k < j)
  BY <1>1
<1> QED
  BY <1>2, <1>3

LEMMA SkipWsScans ==
  ASSUME NEW d \in Seq(STRING), NEW i \in 1 .. Len(d) + 1
  PROVE  Stops(d, i, Spaces, SkipWs(d, i))
<1> DEFINE P(j) == Ch(d, j) \notin Spaces /\ \A k \in i .. j - 1 : d[k] \in Spaces
<1>1. \E j \in i .. Len(d) + 1 : P(j)
  <2>1. "NUL" \notin Spaces
    BY DEF Spaces
  <2> QED
    BY <2>1, ScanStops DEF Stops
<1>2. SkipWs(d, i) = CHOOSE j \in i .. Len(d) + 1 : P(j)
  BY DEF SkipWs
<1> HIDE DEF P
<1>3. SkipWs(d, i) \in i .. Len(d) + 1 /\ P(SkipWs(d, i))
  BY <1>1, <1>2
<1> QED
  BY <1>3 DEF P, Stops

LEMMA DigitsScans ==
  ASSUME NEW d \in Seq(STRING), NEW i \in 1 .. Len(d) + 1
  PROVE  Stops(d, i, Digit, Digits(d, i))
<1> DEFINE P(j) == Ch(d, j) \notin Digit /\ \A k \in i .. j - 1 : d[k] \in Digit
<1>1. \E j \in i .. Len(d) + 1 : P(j)
  <2>1. "NUL" \notin Digit
    BY DEF Digit
  <2> QED
    BY <2>1, ScanStops DEF Stops
<1>2. Digits(d, i) = CHOOSE j \in i .. Len(d) + 1 : P(j)
  BY DEF Digits
<1> HIDE DEF P
<1>3. Digits(d, i) \in i .. Len(d) + 1 /\ P(Digits(d, i))
  BY <1>1, <1>2
<1> QED
  BY <1>3 DEF P, Stops

\* What a reader of a part of a number that begins at i may return: 0, or where a part
\* ends; and if a part ends at a character that cannot be one of it, just there.
ReadsPart(d, i, In(_, _, _), more, j) ==
  /\ j # 0 => j \in i .. Len(d) + 1 /\ In(d, i, j)
  /\ \A k \in i .. Len(d) + 1 : In(d, i, k) /\ Ch(d, k) \notin more => j = k

LEMMA DigitsFromReads ==
  ASSUME NEW d \in Seq(STRING), NEW i \in 1 .. Len(d) + 1
  PROVE  ReadsPart(d, i, DigitsIn, Digit, DigitsFrom(d, i))
<1>1. Stops(d, i, Digit, Digits(d, i))
  BY DigitsScans
<1>2. CASE Ch(d, i) \in Digit
  <2>1. DigitsFrom(d, i) = Digits(d, i)
    BY <1>2 DEF DigitsFrom
  <2>2. Digits(d, i) \in i .. Len(d) + 1 /\ i # Digits(d, i)
    BY <1>1, <1>2 DEF Stops
  <2>3. DigitsIn(d, i, Digits(d, i))
    BY <1>1, <2>2 DEF Stops, DigitsIn
  <2>4. ASSUME NEW k \in i .. Len(d) + 1, DigitsIn(d, i, k), Ch(d, k) \notin Digit
        PROVE  Digits(d, i) = k
    <3>1. Stops(d, i, Digit, k)
      BY <2>4 DEF Stops, DigitsIn
    <3> QED
      BY <1>1, <3>1, ScanStopsOnce
  <2> QED
    BY <2>1, <2>2, <2>3, <2>4 DEF ReadsPart
<1>3. CASE Ch(d, i) \notin Digit
  <2>1. DigitsFrom(d, i) = 0
    BY <1>3 DEF DigitsFrom
  <2>2. ASSUME NEW k \in i .. Len(d) + 1, DigitsIn(d, i, k)
        PROVE  FALSE
    <3>1. i \in i .. k - 1 /\ i <= Len(d)
      BY <2>2 DEF DigitsIn
    <3>2. d[i] \in Digit /\ Ch(d, i) = d[i]
      BY <2>2, <3>1 DEF DigitsIn, Ch
    <3> QED
      BY <1>3, <3>2
  <2> QED
    BY <2>1, <2>2 DEF ReadsPart
<1> QED
  BY <1>2, <1>3

LEMMA WholeReads ==
  ASSUME NEW d \in Seq(STRING), NEW i \in 1 .. Len(d) + 1
  PROVE  ReadsPart(d, i, WholeIn, Digit, Whole(d, i))
<1>1. CASE Ch(d, i) = "0"
  <2>1. i <= Len(d) /\ d[i] = "0"
    BY <1>1 DEF Ch
  <2>2. Whole(d, i) = i + 1
    BY <1>1 DEF Whole
  <2>3. DigitsIn(d, i, i + 1)
    BY <2>1 DEF DigitsIn, Digit
  <2> QED
    BY <2>1, <2>2, <2>3 DEF ReadsPart, WholeIn
<1>2. CASE Ch(d, i) # "0"
  <2>1. Whole(d, i) = DigitsFrom(d, i)
    BY <1>2 DEF Whole
  <2>2. ASSUME NEW k \in i .. Len(d) + 1, DigitsIn(d, i, k)
        PROVE  WholeIn(d, i, k)
    <3>1. i <= Len(d)
      BY <2>2 DEF DigitsIn
    <3> QED
      BY <1>2, <2>2, <3>1 DEF WholeIn, Ch
  <2>3. \A k \in i .. Len(d) + 1 : WholeIn(d, i, k) => DigitsIn(d, i, k)
    BY DEF WholeIn
  <2> QED
    BY <2>1, <2>2, <2>3, DigitsFromReads DEF ReadsPart
<1> QED
  BY <1>1, <1>2

LEMMA FractionReads ==
  ASSUME NEW d \in Seq(STRING), NEW i \in 1 .. Len(d) + 1
  PROVE  ReadsPart(d, i, FractionIn, Digit \cup {"."}, Fraction(d, i))
<1>1. CASE Ch(d, i) = "."
  <2>1. i <= Len(d) /\ d[i] = "." /\ i + 1 \in 1 .. Len(d) + 1
    BY <1>1 DEF Ch
  <2>2. Fraction(d, i) = DigitsFrom(d, i + 1)
    BY <1>1 DEF Fraction
  <2>3. ReadsPart(d, i + 1, DigitsIn, Digit, DigitsFrom(d, i + 1))
    BY <2>1, DigitsFromReads
  <2>4. ASSUME NEW k \in i .. Len(d) + 1, FractionIn(d, i, k), Ch(d, k) \notin Digit \cup {"."}
        PROVE  k \in i + 1 .. Len(d) + 1 /\ DigitsIn(d, i + 1, k)
    BY <1>1, <2>4 DEF FractionIn, DigitsIn
  <2> QED
    BY <2>1, <2>2, <2>3, <2>4 DEF ReadsPart, FractionIn
<1>2. CASE Ch(d, i) # "."
  <2>1. Fraction(d, i) = i
    BY <1>2 DEF Fraction
  <2>2. ASSUME NEW k \in i .. Len(d) + 1, FractionIn(d, i, k)
        PROVE  i = k
    <3>1. CASE d[i] = "." /\ DigitsIn(d, i + 1, k)
      BY <1>2, <3>1 DEF DigitsIn, Ch
    <3> QED
      BY <2>2, <3>1 DEF FractionIn
  <2> QED
    BY <2>1, <2>2 DEF ReadsPart, FractionIn
<1> QED
  BY <1>1, <1>2

LEMMA ExponentReads ==
  ASSUME NEW d \in Seq(STRING), NEW i \in 1 .. Len(d) + 1
  PROVE  ReadsPart(d, i, ExponentIn, Digit \cup {"e"}, Exponent(d, i))
<1>1. CASE Ch(d, i) = "e"
  <2> DEFINE n == IF Ch(d, i + 1) = "-" THEN i + 2 ELSE i + 1
  <2>1. i <= Len(d) /\ d[i] = "e" /\ n \in i + 1 .. Len(d) + 1 /\ n \in 1 .. Len(d) + 1
    BY <1>1 DEF Ch
  <2>2. Exponent(d, i) = DigitsFrom(d, n)
    BY <1>1 DEF Exponent
  <2>3. ReadsPart(d, n, DigitsIn, Digit, DigitsFrom(d, n))
    <3> HIDE DEF n
    <3> QED
      BY <2>1, DigitsFromReads
  <2>4. ASSUME NEW k \in i + 1 .. Len(d) + 1
        PROVE  ExponentIn(d, i, k) <=> DigitsIn(d, n, k)
    <3>1. CASE Ch(d, i + 1) = "-"
      <4>1. n = i + 2 /\ i + 1 <= Len(d) /\ d[i + 1] = "-"
        BY <2>1, <3>1 DEF Ch
      <4>2. ~DigitsIn(d, i + 1, k)
        <5>1. i + 1 < k => i + 1 \in i + 1 .. k - 1
          OBVIOUS
        <5> QED
          BY <4>1, <5>1 DEF DigitsIn, Digit
      <4> QED
        BY <2>1, <4>1, <4>2 DEF ExponentIn
    <3>2. CASE Ch(d, i + 1) # "-"
      <4>1. n = i + 1 /\ (i + 1 <= Len(d) => d[i + 1] # "-")
        BY <3>2 DEF Ch
      <4>2. DigitsIn(d, i + 2, k) => i + 1 <= Len(d)
        BY DEF DigitsIn
      <4> QED
        BY <2>1, <4>1, <4>2 DEF ExponentIn
    <3> QED
      BY <3>1, <3>2
  <2> HIDE DEF n
  <2>5. ASSUME NEW k \in i .. Len(d) + 1, ExponentIn(d, i, k), Ch(d, k) \notin Digit \cup {"e"}
        PROVE  Exponent(d, i) = k
    <3>1. k \in i + 1 .. Len(d) + 1
      BY <1>1, <2>5
    <3>2. DigitsIn(d, n, k) /\ k \in n .. Len(d) + 1
      BY <2>1, <2>4, <2>5, <3>1 DEF DigitsIn
    <3> QED
      BY <2>2, <2>3, <2>5, <3>2 DEF ReadsPart
  <2>6. ASSUME Exponent(d, i) # 0
        PROVE  Exponent(d, i) \in i .. Len(d) + 1 /\ ExponentIn(d, i, Exponent(d, i))
    <3>1. Exponent(d, i) \in n .. Len(d) + 1 /\ DigitsIn(d, n, Exponent(d, i))
      BY <2>2, <2>3, <2>6 DEF ReadsPart
    <3>2. Exponent(d, i) \in i + 1 .. Len(d) + 1
      BY <2>1, <3>1
    <3> QED
      BY <2>4, <3>1, <3>2
  <2> QED
    BY <2>5, <2>6 DEF ReadsPart
<1>2. CASE Ch(d, i) # "e"
  <2>1. Exponent(d, i) = i
    BY <1>2 DEF Exponent
  <2>2. ASSUME NEW k \in i .. Len(d) + 1, ExponentIn(d, i, k)
        PROVE  i = k
    <3>1. CASE i # k
      <4>1. d[i] = "e" /\ i <= Len(d)
        BY <2>2, <3>1 DEF ExponentIn
      <4> QED
        BY <1>2, <4>1 DEF Ch
    <3> QED
      BY <3>1
  <2> QED
    BY <2>1, <2>2 DEF ReadsPart, ExponentIn
<1> QED
  BY <1>1, <1>2

\* From behind the spaces on, the scanner accepts what the grammar calls a number and
\* nothing else, up to the character that ends a value.
THEOREM NumbersReadAsTheGrammarSays ==
  ASSUME NEW d \in Seq(STRING), NEW i \in 1 .. Len(d) + 1
  PROVE  LET p == SkipWs(d, i)
             r == SkipNumber(d, i)
             Ends(j) == j \in p + 1 .. Len(d) + 1 /\ NumberIn(d, p, j) /\ Boundary(Ch(d, j))
         IN  IF \E j : Ends(j) THEN r.err = "ok" /\ Ends(r.at) /\ \A j : Ends(j) => j = r.at
             ELSE r = ParseError
<1> DEFINE p == SkipWs(d, i)
           r == SkipNumber(d, i)
           Ends(j) == j \in p + 1 .. Len(d) + 1 /\ NumberIn(d, p, j) /\ Boundary(Ch(d, j))
           q == IF Ch(d, p) = "-" THEN p + 1 ELSE p
           f == Whole(d, q)
           e == Fraction(d, f)
           j == Exponent(d, e)
<1>1. p \in 1 .. Len(d) + 1 /\ q \in p .. Len(d) + 1 /\ q \in 1 .. Len(d) + 1
      /\ (p <= Len(d) => q = IF d[p] = "-" THEN p + 1 ELSE p)
      /\ (p > Len(d) => q = p)
  <2>1. p \in 1 .. Len(d) + 1
    BY SkipWsScans DEF Stops
  <2> HIDE DEF p
  <2> QED
    BY <2>1 DEF Ch
<1>2. r = IF j > 0 /\ Boundary(Ch(d, j)) THEN Ok(j, <<>>) ELSE ParseError
  BY DEF SkipNumber
<1> HIDE DEF p, r, q
<1>3. f = 0 => e = 0
  BY DEF Fraction
<1>4. e = 0 => j = 0
  BY DEF Exponent
<1>5. f # 0 => f \in q .. Len(d) + 1 /\ WholeIn(d, q, f)
  BY <1>1, WholeReads DEF ReadsPart
<1> HIDE DEF f
<1>6. e # 0 => e \in f .. Len(d) + 1 /\ FractionIn(d, f, e) /\ f # 0
  <2>1. f # 0 => f \in 1 .. Len(d) + 1
    BY <1>1, <1>5
  <2> QED
    BY <1>3, <2>1, FractionReads DEF ReadsPart
<1> HIDE DEF e
<1>7. j # 0 => j \in e .. Len(d) + 1 /\ ExponentIn(d, e, j) /\ e # 0
  <2>1. e # 0 => e \in 1 .. Len(d) + 1
    BY <1>1, <1>5, <1>6
  <2> QED
    BY <1>4, <2>1, ExponentReads DEF ReadsPart
<1> HIDE DEF j
<1>8. ASSUME j > 0, Boundary(Ch(d, j))
      PROVE  Ends(j)
  <2>1. j # 0 /\ e # 0 /\ f # 0
    BY <1>6, <1>7, <1>8
  <2>2. q < f
    BY <1>5, <2>1 DEF WholeIn, DigitsIn
  <2>3. /\ f \in q .. j /\ e \in q .. j /\ f <= e /\ j \in p + 1 .. Len(d) + 1 /\ p <= Len(d)
    BY <1>1, <1>5, <1>6, <1>7, <2>1, <2>2
  <2>4. UnsignedIn(d, q, j)
    BY <1>5, <1>6, <1>7, <2>1, <2>3 DEF UnsignedIn
  <2>5. NumberIn(d, p, j)
    BY <1>1, <2>3, <2>4 DEF NumberIn
  <2> QED
    BY <1>8, <2>3, <2>5
<1>9. ASSUME NEW k, Ends(k)
      PROVE  j = k /\ j > 0 /\ Boundary(Ch(d, j))
  <2>1. k \in p + 1 .. Len(d) + 1 /\ NumberIn(d, p, k) /\ Boundary(Ch(d, k)) /\ p <= Len(d)
    BY <1>1, <1>9
  <2>2. UnsignedIn(d, q, k)
    BY <1>1, <2>1 DEF NumberIn
  <2>3. PICK g, h \in q .. k :
          g <= h /\ WholeIn(d, q, g) /\ FractionIn(d, g, h) /\ ExponentIn(d, h, k)
    BY <2>2 DEF UnsignedIn
  <2>4. /\ q \in 1 .. Len(d) + 1 /\ g \in q .. Len(d) + 1 /\ h \in g .. Len(d) + 1
        /\ k \in h .. Len(d) + 1 /\ g \in 1 .. Len(d) + 1 /\ h \in 1 .. Len(d) + 1
    BY <1>1, <2>1, <2>3
  <2>5. Ch(d, k) \notin Digit \cup {".", "e"}
    BY <2>1 DEF Boundary, Digit, Spaces
  <2>6. Ch(d, h) \notin Digit \cup {"."}
    <3>1. h # k => h <= Len(d) /\ d[h] = "e"
      BY <2>1, <2>3, <2>4 DEF ExponentIn
    <3>2. h # k => Ch(d, h) = "e"
      BY <3>1 DEF Ch
    <3> QED
      BY <2>5, <3>2 DEF Digit
  <2>7. Ch(d, g) \notin Digit
    <3>1. g # h => g <= Len(d) /\ d[g] = "."
      BY <2>3, <2>4 DEF FractionIn
    <3>2. g # h => Ch(d, g) = "."
      BY <3>1 DEF Ch
    <3> QED
      BY <2>6, <3>2 DEF Digit
  <2>8. f = g
    BY <2>3, <2>4, <2>7, WholeReads DEF ReadsPart, f
  <2>9. e = h
    BY <2>3, <2>4, <2>6, <2>8, FractionReads DEF ReadsPart, e
  <2>10. j = k
    BY <2>3, <2>4, <2>5, <2>9, ExponentReads DEF ReadsPart, j
  <2> QED
    BY <2>1, <2>4, <2>10
<1>10. CASE \E k : Ends(k)
  <2>1. j > 0 /\ Boundary(Ch(d, j)) /\ \A k : Ends(k) => k = j
    BY <1>9, <1>10
  <2>2. r.err = "ok" /\ r.at = j
    BY <1>2, <2>1 DEF Ok
  <2>3. Ends(j)
    BY <1>8, <2>1
  <2> HIDE DEF Ends
  <2>4. r.err = "ok" /\ Ends(r.at) /\ \A k : Ends(k) => k = r.at
    BY <2>1, <2>2, <2>3
  <2> QED
    BY <1>10, <2>4 DEF Ends, p, r
<1>11. CASE ~\E k : Ends(k)
  <2>1. r = ParseError
    BY <1>2, <1>8, <1>11
  <2> QED
    BY <1>11, <2>1 DEF p, r
<1> QED
  BY <1>10, <1>11

-----------------------------------------------------------------------------
(* Strings *)

\* Where the backslashes before k begin.
Run(s, i, k, m) ==
  m \in i .. k /\ (\A n \in m .. k - 1 : s[n] = "\\") /\ (m = i \/ s[m - 1] # "\\")

LEMMA OneRun ==
  ASSUME NEW s, NEW i \in Nat, NEW k \in Nat, i <= k
  PROVE  /\ \E m : Run(s, i, k, m)
         /\ \A m, n : Run(s, i, k, m) /\ Run(s, i, k, n) => m = n
<1>1. \E m : Run(s, i, k, m)
  <2> DEFINE S == {m \in i .. k : \A n \in m .. k - 1 : s[n] = "\\"}
  <2>1. k \in S /\ S \in SUBSET Nat
    OBVIOUS
  <2>2. PICK m \in S : \A n \in S : m <= n
    <3> HIDE DEF S
    <3> QED
      BY <2>1, LeastElement
  <2>3. ASSUME m # i, s[m - 1] = "\\"
        PROVE  FALSE
    <3>1. m \in i .. k /\ m - 1 \in i .. k /\ \A n \in m - 1 .. k - 1 : n = m - 1 \/ n \in m .. k - 1
      BY <2>2, <2>3
    <3>2. m - 1 \in S
      BY <2>2, <2>3, <3>1
    <3> QED
      BY <2>2, <3>1, <3>2
  <2> QED
    BY <2>2, <2>3 DEF Run
<1>2. ASSUME NEW m, NEW n, Run(s, i, k, m), Run(s, i, k, n), m < n
      PROVE  FALSE
  <2>1. n - 1 \in m .. k - 1 /\ n # i
    BY <1>2 DEF Run
  <2> QED
    BY <1>2, <2>1 DEF Run
<1>3. ASSUME NEW m, NEW n, Run(s, i, k, m), Run(s, i, k, n)
      PROVE  m = n
  <2>1. m \in Nat /\ n \in Nat /\ ~(m < n) /\ ~(n < m)
    BY <1>2, <1>3 DEF Run
  <2> QED
    BY <2>1
<1> QED
  BY <1>1, <1>3

LEMMA EscapedByRun ==
  ASSUME NEW s, NEW i \in Nat, NEW k \in Nat, NEW m, Run(s, i, k, m)
  PROVE  Escaped(s, i, k) <=> (k - m) % 2 = 1
<1>1. m \in i .. k /\ i <= k
  BY DEF Run
<1>2. ASSUME Escaped(s, i, k)
      PROVE  (k - m) % 2 = 1
  <2>1. PICK n \in i .. k - 1 :
          (\A l \in n .. k - 1 : s[l] = "\\") /\ (n = i \/ s[n - 1] # "\\") /\ (k - n) % 2 = 1
    BY <1>2 DEF Escaped
  <2>2. Run(s, i, k, n)
    BY <2>1 DEF Run
  <2>3. n = m
    BY <1>1, <2>2, OneRun
  <2> QED
    BY <2>1, <2>3
<1>3. ASSUME (k - m) % 2 = 1
      PROVE  Escaped(s, i, k)
  <2>1. m # k
    <3>1. (k - k) % 2 = 0
      OBVIOUS
    <3> QED
      BY <1>3, <3>1
  <2>2. m \in i .. k - 1
    BY <1>1, <2>1
  <2> QED
    BY <1>3, <2>2 DEF Run, Escaped
<1> QED
  BY <1>2, <1>3

LEMMA EscapedStep ==
  ASSUME NEW s, NEW i \in Nat, NEW k \in Nat, i <= k
  PROVE  /\ s[k] # "\\" => ~Escaped(s, i, k + 1)
         /\ s[k] = "\\" => (Escaped(s, i, k + 1) <=> ~Escaped(s, i, k))
<1>1. ASSUME s[k] # "\\", Escaped(s, i, k + 1)
      PROVE  FALSE
  <2>1. PICK m \in i .. (k + 1) - 1 : \A n \in m .. (k + 1) - 1 : s[n] = "\\"
    BY <1>1 DEF Escaped
  <2>2. k \in m .. (k + 1) - 1
    OBVIOUS
  <2> QED
    BY <1>1, <2>1, <2>2
<1>2. ASSUME s[k] = "\\"
      PROVE  Escaped(s, i, k + 1) <=> ~Escaped(s, i, k)
  <2>1. PICK m : Run(s, i, k, m)
    BY OneRun
  <2>2. Run(s, i, k + 1, m)
    <3>1. m \in i .. k + 1 /\ \A n \in m .. (k + 1) - 1 : n = k \/ n \in m .. k - 1
      BY <2>1 DEF Run
    <3> QED
      BY <1>2, <2>1, <3>1 DEF Run
  <2>3. k - m \in Nat /\ (k + 1) - m = (k - m) + 1
    BY <2>1 DEF Run
  <2>4. \A n \in Nat : (n + 1) % 2 = 1 <=> n % 2 # 1
    OBVIOUS
  <2>5. (((k + 1) - m) % 2 = 1) <=> ((k - m) % 2 # 1)
    BY <2>3, <2>4
  <2>6. Escaped(s, i, k) <=> (k - m) % 2 = 1
    BY <2>1, EscapedByRun
  <2>7. Escaped(s, i, k + 1) <=> ((k + 1) - m) % 2 = 1
    BY <2>2, EscapedByRun
  <2> QED
    BY <2>5, <2>6, <2>7
<1> QED
  BY <1>1, <1>2

LEMMA NotEscapedFirst ==
  ASSUME NEW s, NEW i \in Nat
  PROVE  ~Escaped(s, i, i) /\ CharactersIn(s, i, i) = 0
<1>1. i .. i - 1 = {}
  OBVIOUS
<1>2. {k \in i .. i - 1 : ~Escaped(s, i, k)} = {}
  BY <1>1
<1> QED
  BY <1>1, <1>2, FS_EmptySet DEF Escaped, CharactersIn

LEMMA CharactersStep ==
  ASSUME NEW s, NEW i \in Nat, NEW k \in Nat, i <= k
  PROVE  /\ CharactersIn(s, i, k) \in Nat
         /\ CharactersIn(s, i, k + 1) =
              IF Escaped(s, i, k) THEN CharactersIn(s, i, k) ELSE CharactersIn(s, i, k) + 1
<1> DEFINE S(j) == {n \in i .. j - 1 : ~Escaped(s, i, n)}
<1>1. IsFiniteSet(S(k)) /\ Cardinality(S(k)) \in Nat
  <2>1. IsFiniteSet(i .. k - 1)
    BY FS_Interval
  <2>2. S(k) \in SUBSET (i .. k - 1)
    OBVIOUS
  <2> HIDE DEF S
  <2>3. IsFiniteSet(S(k))
    BY <2>1, <2>2, FS_Subset
  <2> QED
    BY <2>3, FS_CardinalityType
<1>2. \A n \in i .. (k + 1) - 1 : n = k \/ n \in i .. k - 1
  OBVIOUS
<1>3. k \in i .. (k + 1) - 1 /\ k \notin i .. k - 1 /\ i .. k - 1 \subseteq i .. (k + 1) - 1
  OBVIOUS
<1>4. S(k + 1) = IF Escaped(s, i, k) THEN S(k) ELSE S(k) \cup {k}
  BY <1>2, <1>3
<1>5. k \notin S(k)
  BY <1>3
<1>6. Cardinality(S(k) \cup {k}) = Cardinality(S(k)) + 1
  <2> HIDE DEF S
  <2> QED
    BY <1>1, <1>5, FS_AddElement
<1>7. CharactersIn(s, i, k) = Cardinality(S(k)) /\ CharactersIn(s, i, k + 1) = Cardinality(S(k + 1))
  BY DEF CharactersIn
<1> HIDE DEF S
<1> QED
  BY <1>1, <1>4, <1>6, <1>7

LEMMA CharactersGrow ==
  ASSUME NEW s, NEW i \in Nat, NEW j \in Nat, NEW k \in Nat, j <= k
  PROVE  CharactersIn(s, i, j) <= CharactersIn(s, i, k)
<1> DEFINE S(l) == {n \in i .. l - 1 : ~Escaped(s, i, n)}
<1>1. IsFiniteSet(S(k))
  <2>1. IsFiniteSet(i .. k - 1)
    BY FS_Interval
  <2>2. S(k) \in SUBSET (i .. k - 1)
    OBVIOUS
  <2> HIDE DEF S
  <2> QED
    BY <2>1, <2>2, FS_Subset
<1>2. S(j) \in SUBSET S(k)
  OBVIOUS
<1>3. CharactersIn(s, i, j) = Cardinality(S(j)) /\ CharactersIn(s, i, k) = Cardinality(S(k))
  BY DEF CharactersIn
<1> HIDE DEF S
<1> QED
  BY <1>1, <1>2, <1>3, FS_Subset

\* One character more.
LEMMA SpellsMore ==
  ASSUME NEW s \in Seq(Symbols), NEW i \in Nat, NEW k \in 1 .. Len(s), i <= k,
         ~Escaped(s, i, k), NEW t \in Seq(Symbols), Spells(s, i, k, t), NEW c \in Symbols,
         c = Letter(s, k), NEW j \in {k + 1, k + 2}, j = k + 2 <=> s[k] = "\\"
  PROVE  Spells(s, i, j, Append(t, c)) /\ ~Escaped(s, i, j)
<1> DEFINE more == Append(t, c)
           n == CharactersIn(s, i, k)
<1>1. n \in Nat /\ Len(t) = n /\ Len(more) = n + 1 /\ more[n + 1] = c
      /\ \A l \in 1 .. n : more[l] = t[l]
  <2>1. n \in Nat
    BY CharactersStep
  <2>2. Len(t) = n
    BY DEF Spells
  <2> HIDE DEF n
  <2> QED
    BY <2>1, <2>2
<1>2. CharactersIn(s, i, k + 1) = n + 1
  BY CharactersStep
<1>3. s[k] = "\\" => Escaped(s, i, k + 1)
  BY EscapedStep
<1>4. CharactersIn(s, i, j) = n + 1 /\ ~Escaped(s, i, j)
  <2>1. k + 1 \in Nat /\ i <= k + 1 /\ (k + 1) + 1 = k + 2
    OBVIOUS
  <2>2. CASE s[k] = "\\"
    <3>1. CharactersIn(s, i, (k + 1) + 1) = CharactersIn(s, i, k + 1)
      BY <1>3, <2>1, <2>2, CharactersStep
    <3>2. ~Escaped(s, i, (k + 1) + 1)
      <4>1. s[k + 1] = "\\" \/ s[k + 1] # "\\"
        OBVIOUS
      <4> QED
        BY <1>3, <2>1, <2>2, <4>1, EscapedStep
    <3> QED
      BY <1>2, <2>1, <2>2, <3>1, <3>2
  <2>3. CASE s[k] # "\\"
    BY <1>2, <2>3, EscapedStep
  <2> QED
    BY <2>2, <2>3
<1>5. ASSUME NEW l \in i .. j - 1, ~Escaped(s, i, l)
      PROVE  more[CharactersIn(s, i, l) + 1] = Letter(s, l)
  <2>1. l \in i .. k
    BY <1>3, <1>5
  <2>2. CASE l = k
    BY <1>1, <2>2
  <2>3. CASE l # k
    <3>1. l \in i .. k - 1 /\ l \in Nat /\ l + 1 \in Nat /\ l + 1 <= k /\ i <= l
      BY <2>1, <2>3
    <3>2. CharactersIn(s, i, l) \in Nat /\ CharactersIn(s, i, l + 1) = CharactersIn(s, i, l) + 1
      BY <1>5, <3>1, CharactersStep
    <3>3. CharactersIn(s, i, l + 1) <= n
      BY <3>1, CharactersGrow
    <3>4. CharactersIn(s, i, l) + 1 \in 1 .. n
      <4> HIDE DEF n
      <4> QED
        BY <1>1, <3>2, <3>3
    <3>5. t[CharactersIn(s, i, l) + 1] = Letter(s, l)
      BY <1>5, <3>1 DEF Spells
    <3> HIDE DEF more, n
    <3> QED
      BY <1>1, <3>4, <3>5
  <2> QED
    BY <2>2, <2>3
<1> HIDE DEF n
<1> QED
  BY <1>1, <1>4, <1>5 DEF Spells

\* What the reader of the string that begins at p has found out.
Understood(d, p, capacity, s) ==
  /\ s.err = "reading" =>
       /\ ~Escaped(d, p + 1, s.at) /\ \A k \in p + 1 .. s.at - 1 : InString(d, p + 1, k)
       /\ Spells(d, p + 1, s.at, s.value)
  /\ s.err = "ok" => StringIn(d, p, s.at) /\ Spells(d, p + 1, s.at - 1, s.value)
  /\ s.err = "parse" => \A j \in 1 .. Len(d) + 1 : ~StringIn(d, p, j)
  /\ s.err = "range" =>
       \A j \in 1 .. Len(d) + 1 : StringIn(d, p, j) => CharactersIn(d, p + 1, j - 1) >= capacity

\* A string does not end at a character that another string goes on with.
LEMMA EndsBehind ==
  ASSUME NEW d, NEW p \in Nat, NEW i \in Nat, p < i,
         \A k \in p + 1 .. i - 1 : InString(d, p + 1, k),
         NEW j \in Nat, StringIn(d, p, j)
  PROVE  i <= j - 1
<1>1. p + 1 < j /\ d[j - 1] = Quote /\ ~Escaped(d, p + 1, j - 1)
  BY DEF StringIn
<1>2. ASSUME j - 1 < i
      PROVE  FALSE
  <2>1. j - 1 \in p + 1 .. i - 1
    BY <1>1, <1>2
  <2>2. InString(d, p + 1, j - 1)
    BY <2>1
  <2> QED
    BY <1>1, <2>2 DEF InString
<1> QED
  BY <1>2

LEMMA CharacterUnderstood ==
  ASSUME NEW d \in Seq(Symbols), HasNoNul(d), NEW p \in 1 .. Len(d), d[p] = Quote,
         NEW capacity \in Nat, NEW grows \in BOOLEAN, NEW n \in Nat, NEW s,
         InBounds(d, p + 1, capacity, grows, n, s), s.err = "reading",
         Understood(d, p, capacity, s)
  PROVE  Understood(d, p, capacity, Character(d, s, grows))
<1> DEFINE a == p + 1
           i == s.at
           escaped == Ch(d, i) = "\\"
           c == IF escaped THEN Ch(d, i + 1) ELSE Ch(d, i)
           full == Len(s.value) + 1 >= s.capacity
           more == Append(s.value, IF escaped THEN EscapeOf(c) ELSE c)
           room == IF full THEN 2 * s.capacity ELSE s.capacity
           next == Character(d, s, grows)
<1>1. /\ s \in States /\ i \in a + n .. Len(d) + 1 /\ Len(s.value) < s.capacity
      /\ ~grows => s.capacity = capacity
  BY DEF InBounds
<1>2. /\ i \in Nat /\ a <= i /\ i <= Len(d) + 1 /\ s.value \in Seq(Symbols)
      /\ s.capacity \in Nat /\ Len(s.value) \in Nat /\ Len(d) \in Nat /\ a \in Nat /\ p < i
  BY <1>1 DEF States
<1>3. /\ ~Escaped(d, a, i) /\ \A k \in a .. i - 1 : InString(d, a, k)
      /\ Spells(d, a, i, s.value) /\ Len(s.value) = CharactersIn(d, a, i)
  BY DEF Understood, Spells
<1>4. \A k \in 1 .. Len(d) : Ch(d, k) = d[k] /\ d[k] # "NUL"
  BY DEF HasNoNul, Ch
<1>5. ASSUME NEW j \in 1 .. Len(d) + 1, StringIn(d, p, j)
      PROVE  /\ i <= j - 1 /\ d[j - 1] = Quote /\ ~Escaped(d, a, j - 1) /\ j \in Nat
             /\ \A k \in a .. j - 2 : InString(d, a, k)
  <2>1. i <= j - 1
    <3>1. \A k \in p + 1 .. i - 1 : InString(d, p + 1, k)
      BY <1>3
    <3>2. j \in Nat /\ p \in Nat /\ i \in Nat /\ p < i /\ StringIn(d, p, j)
      BY <1>2, <1>5
    <3> HIDE DEF i
    <3> QED
      BY <3>1, <3>2, EndsBehind
  <2> QED
    BY <1>5, <2>1 DEF StringIn
<1>6. /\ Escaped(d, a, i + 1) <=> d[i] = "\\"
      /\ CharactersIn(d, a, i + 1) = CharactersIn(d, a, i) + 1
      /\ CharactersIn(d, a, i) \in Nat
  BY <1>2, <1>3, EscapedStep, CharactersStep
<1> HIDE DEF a
<1>7. CASE c = "NUL" \/ (escaped /\ c \notin Escapes) \/ (~escaped /\ c \in Controls)
  <2>1. next = Stopped(ParseError)
    BY <1>7 DEF Character, Controls, Quote
  <2>2. next.err = "parse"
    BY <2>1 DEF Stopped, ParseError, Error
  <2>3. ASSUME NEW j \in 1 .. Len(d) + 1, StringIn(d, p, j)
        PROVE  FALSE
    <3>1. /\ i <= j - 1 /\ d[j - 1] = Quote /\ ~Escaped(d, a, j - 1) /\ j \in Nat
          /\ \A k \in a .. j - 2 : InString(d, a, k)
      BY <1>5, <2>3
    <3>2. i \in 1 .. Len(d) /\ Ch(d, i) = d[i] /\ d[i] # "NUL"
      BY <1>2, <1>4, <3>1
    <3>3. CASE escaped
      <4>1. d[i] = "\\" /\ i # j - 1
        BY <3>1, <3>2, <3>3 DEF Quote
      <4>2. i + 1 # j - 1
        BY <1>6, <3>1, <4>1
      <4>3. i + 1 \in a .. j - 2 /\ i + 1 \in 1 .. Len(d)
        <5>1. i <= j - 1 /\ i # j - 1 /\ i + 1 # j - 1 /\ j \in Nat /\ j <= Len(d) + 1
          BY <3>1, <4>1, <4>2
        <5> HIDE DEF i
        <5> QED
          BY <1>2, <5>1
      <4>4. d[i + 1] \in Escapes /\ d[i + 1] # "NUL" /\ Ch(d, i + 1) = d[i + 1]
        BY <1>4, <1>6, <3>1, <4>1, <4>3 DEF InString
      <4> QED
        BY <1>7, <3>3, <4>4
    <3>4. CASE ~escaped
      <4>1. d[i] \in Controls
        BY <1>7, <3>2, <3>4
      <4>2. i # j - 1
        BY <3>1, <4>1 DEF Controls, Quote
      <4>3. i \in a .. j - 2
        BY <1>2, <3>1, <4>2
      <4> QED
        BY <1>3, <3>1, <4>1, <4>3 DEF InString
    <3> QED
      BY <3>3, <3>4
  <2> QED
    BY <2>2, <2>3 DEF Understood
<1>8. CASE ~escaped /\ c = Quote
  <2>1. next = Stopped(Ok(i + 1, s.value))
    BY <1>8 DEF Character, Quote
  <2>2. next.err = "ok" /\ next.at = i + 1 /\ next.value = s.value
    BY <2>1 DEF Stopped, Ok
  <2>3. i <= Len(d) /\ d[i] = Quote
    BY <1>2, <1>8 DEF Ch, Quote
  <2>4. (i + 1) - 1 = i /\ (i + 1) - 2 = i - 1 /\ a < i + 1
    BY <1>2
  <2>5. StringIn(d, p, i + 1)
    BY <1>3, <2>3, <2>4 DEF StringIn, a
  <2> QED
    BY <1>3, <2>2, <2>4, <2>5 DEF Understood, a
<1>9. CASE /\ c # "NUL" /\ (escaped => c \in Escapes) /\ (~escaped => c \notin Controls)
           /\ ~(~escaped /\ c = Quote)
  <2>1. i \in 1 .. Len(d) /\ d[i] = Ch(d, i)
    BY <1>2, <1>9 DEF Ch, a
  <2>2. CASE full /\ ~grows
    <3>1. next = Stopped(Error("range"))
      BY <1>9, <2>2 DEF Character
    <3>2. next.err = "range"
      BY <3>1 DEF Stopped, Error
    <3>3. ASSUME NEW j \in 1 .. Len(d) + 1, StringIn(d, p, j)
          PROVE  CharactersIn(d, a, j - 1) >= capacity
      <4>1. i <= j - 1 /\ d[j - 1] = Quote /\ j \in Nat
        BY <1>5, <3>3
      <4>2. i # j - 1
        BY <1>9, <2>1, <4>1 DEF Quote
      <4>3. i + 1 <= j - 1 /\ j - 1 \in Nat /\ i + 1 \in Nat
        BY <1>2, <4>1, <4>2
      <4>4. CharactersIn(d, a, i + 1) <= CharactersIn(d, a, j - 1)
        BY <1>2, <4>3, CharactersGrow
      <4>5. CharactersIn(d, a, j - 1) \in Nat
        BY <1>2, <4>3, CharactersStep
      <4> QED
        BY <1>1, <1>3, <1>6, <2>2, <4>4, <4>5
    <3> QED
      BY <3>2, <3>3 DEF Understood, a
  <2>3. CASE ~(full /\ ~grows)
    <3> DEFINE j == IF escaped THEN i + 2 ELSE i + 1
    <3>1. next = Reading(j, more, room)
      <4> HIDE DEF full
      <4> QED
        BY <1>9, <2>3 DEF Character, full
    <3>2. next.err = "reading" /\ next.at = j /\ next.value = more
      <4> HIDE DEF j, more, room
      <4> QED
        BY <3>1 DEF Reading
    <3>3. Spells(d, a, j, more) /\ ~Escaped(d, a, j)
      <4> DEFINE e == IF escaped THEN EscapeOf(c) ELSE c
      <4>1. e \in Symbols
        <5>1. Ch(d, i) \in Symbols /\ Ch(d, i + 1) \in Symbols
          BY <1>2, <2>1, ChIsString
        <5> QED
          BY <5>1 DEF EscapeOf, Symbols
      <4>2. e = Letter(d, i)
        <5>1. escaped => i + 1 <= Len(d)
          BY <1>2, <1>9 DEF Ch
        <5> QED
          BY <1>2, <2>1, <5>1 DEF Letter, Ch
      <4>3. j \in {i + 1, i + 2} /\ (j = i + 2 <=> d[i] = "\\")
        BY <1>2, <2>1
      <4>4. more = Append(s.value, e)
        OBVIOUS
      <4> HIDE DEF e, more, j, i
      <4> QED
        BY <1>2, <1>3, <2>1, <4>1, <4>2, <4>3, <4>4, SpellsMore
    <3>4. CASE escaped
      <4>1. d[i] = "\\" /\ Escaped(d, a, i + 1) /\ j = i + 2 /\ i + 1 \in Nat
        BY <1>2, <1>6, <2>1, <3>4
      <4>2. i + 1 <= Len(d) /\ d[i + 1] \in Escapes
        BY <1>2, <1>9, <3>4 DEF Ch
      <4>3. InString(d, a, i) /\ InString(d, a, i + 1)
        BY <1>3, <4>1, <4>2 DEF InString, Controls, Quote
      <4>4. \A k \in a .. (i + 2) - 1 : k \in a .. i - 1 \/ k = i \/ k = i + 1
        BY <1>2
      <4>5. \A k \in a .. j - 1 : InString(d, a, k)
        BY <1>3, <4>1, <4>3, <4>4
      <4> HIDE DEF j, more
      <4> QED
        BY <3>2, <3>3, <4>5 DEF Understood, a
    <3>5. CASE ~escaped
      <4>1. d[i] # "\\" /\ ~Escaped(d, a, i + 1) /\ j = i + 1
        BY <1>6, <2>1, <3>5
      <4>2. InString(d, a, i)
        BY <1>3, <1>9, <2>1, <3>5 DEF InString
      <4>3. \A k \in a .. (i + 1) - 1 : k \in a .. i - 1 \/ k = i
        BY <1>2
      <4>4. \A k \in a .. j - 1 : InString(d, a, k)
        BY <1>3, <4>1, <4>2, <4>3
      <4> HIDE DEF j, more
      <4> QED
        BY <3>2, <3>3, <4>4 DEF Understood, a
    <3> QED
      BY <3>4, <3>5
  <2> QED
    BY <2>2, <2>3
<1> QED
  BY <1>7, <1>8, <1>9

LEMMA LoopUnderstands ==
  ASSUME NEW d \in Seq(Symbols), HasNoNul(d), NEW p \in 1 .. Len(d), d[p] = Quote,
         NEW capacity \in Nat \ {0}, NEW grows \in BOOLEAN
  PROVE  LET s == Characters(d, p + 1, capacity, grows)
         IN  /\ InBounds(d, p + 1, capacity, grows, Len(d) + 1, s)
             /\ s.err \in {"ok", "parse", "range"} /\ Understood(d, p, capacity, s)
<1> DEFINE N == Len(d) + 1
           read == Loop(d, p + 1, capacity, grows)
           U(n) == Understood(d, p, capacity, read[n])
           S == {n \in 0 .. N : U(n)}
<1>1. N \in Nat /\ p + 1 \in Nat \ {0} /\ p + 1 \in 1 .. Len(d) + 1
  OBVIOUS
<1>2. Turns(d, p + 1, capacity, grows, read)
  BY <1>1, LoopTurns
<1>3. \A n \in 0 .. N : InBounds(d, p + 1, capacity, grows, n, read[n])
  BY <1>1, LoopStaysInBounds
<1>4. Characters(d, p + 1, capacity, grows) = read[N]
  BY DEF Characters, Loop
<1> HIDE DEF read
<1>5. 0 \in S
  <2>1. read[0] = Reading(p + 1, <<>>, capacity)
    BY <1>2 DEF Turns
  <2>2. read[0].err = "reading" /\ read[0].at = p + 1 /\ read[0].value = <<>>
    BY <2>1 DEF Reading
  <2>3. ~Escaped(d, p + 1, p + 1) /\ CharactersIn(d, p + 1, p + 1) = 0
    BY <1>1, NotEscapedFirst
  <2>4. p + 1 .. (p + 1) - 1 = {}
    OBVIOUS
  <2>5. U(0)
    BY <2>2, <2>3, <2>4 DEF Understood, Spells
  <2> QED
    BY <1>1, <2>5
<1>6. ASSUME NEW n \in 0 .. N - 1, n \in S
      PROVE  n + 1 \in S
  <2>1. n + 1 \in 1 .. N /\ n + 1 \in 0 .. N /\ (n + 1) - 1 = n /\ n \in Nat /\ n \in 0 .. N
    BY <1>1
  <2>2. U(n)
    BY <1>6
  <2>3. CASE read[n].err = "reading"
    <3>1. read[n + 1] = Character(d, read[n], grows)
      BY <1>2, <2>1, <2>3 DEF Turns
    <3>2. InBounds(d, p + 1, capacity, grows, n, read[n])
      BY <1>3, <2>1
    <3>3. Understood(d, p, capacity, Character(d, read[n], grows))
      BY <2>1, <2>2, <2>3, <3>2, CharacterUnderstood
    <3> QED
      BY <2>1, <3>1, <3>3
  <2>4. CASE read[n].err # "reading"
    <3>1. read[n + 1] = read[n]
      BY <1>2, <2>1, <2>4 DEF Turns
    <3> QED
      BY <2>1, <2>2, <3>1
  <2> QED
    BY <2>3, <2>4
<1>7. U(N)
  <2>1. \A n \in 0 .. N : n \in S
    <3> HIDE DEF S, N
    <3> QED
      BY <1>1, <1>5, <1>6, Upwards
  <2> QED
    BY <1>1, <2>1
<1>8. InBounds(d, p + 1, capacity, grows, N, read[N])
  BY <1>1, <1>3
<1>9. read[N].err \in {"ok", "parse", "range"}
  <2>1. ~(read[N].at \in (p + 1) + N .. Len(d) + 1)
    BY <1>1
  <2> QED
    BY <1>8, <2>1 DEF InBounds, States
<1> QED
  BY <1>4, <1>7, <1>8, <1>9

\* From behind the spaces on, a reader accepts what the grammar calls a string and
\* nothing else, up to behind its closing quote, with one character of the value for
\* each character or escape of the text.  A reader whose buffer does not grow
\* (app_config_parse_json_string) refuses the texts too long for it as well, and never
\* calls them malformed.
THEOREM StringsReadAsTheGrammarSays ==
  ASSUME NEW d \in Seq(STRING), HasNoNul(d), NEW i \in 1 .. Len(d) + 1,
         NEW capacity \in Nat \ {0}, NEW grows \in BOOLEAN
  PROVE  LET p == SkipWs(d, i)
             r == String(d, i, capacity, grows)
             Ends(j) == j \in p + 1 .. Len(d) + 1 /\ StringIn(d, p, j)
             Fits(j) == grows \/ CharactersIn(d, p + 1, j - 1) < capacity
         IN  IF \E j : Ends(j) /\ Fits(j)
             THEN /\ r.err = "ok" /\ Ends(r.at) /\ \A j : Ends(j) => j = r.at
                  /\ Spells(d, p + 1, r.at - 1, r.value)
             ELSE r.err \in {"parse", "range"} /\ ((\E j : Ends(j)) => r.err = "range")
<1> DEFINE p == SkipWs(d, i)
           r == String(d, i, capacity, grows)
           Ends(j) == j \in p + 1 .. Len(d) + 1 /\ StringIn(d, p, j)
           Fits(j) == grows \/ CharactersIn(d, p + 1, j - 1) < capacity
           s == Characters(d, p + 1, capacity, grows)
           Claim == IF \E j : Ends(j) /\ Fits(j)
                    THEN /\ r.err = "ok" /\ Ends(r.at) /\ \A j : Ends(j) => j = r.at
                         /\ Spells(d, p + 1, r.at - 1, r.value)
                    ELSE r.err \in {"parse", "range"} /\ ((\E j : Ends(j)) => r.err = "range")
<1>1. p \in 1 .. Len(d) + 1
  BY SkipWsScans DEF Stops
<1>2. r = IF Ch(d, p) # Quote THEN ParseError ELSE [err |-> s.err, at |-> s.at, value |-> s.value]
  BY DEF String
<1> HIDE DEF p, r
<1>3. CASE Ch(d, p) # Quote
  <2>1. r.err = "parse"
    BY <1>2, <1>3 DEF ParseError, Error
  <2>2. ASSUME NEW j, Ends(j)
        PROVE  FALSE
    <3>1. p <= Len(d) /\ d[p] = Quote
      BY <1>1, <2>2 DEF StringIn
    <3> QED
      BY <1>3, <3>1 DEF Ch
  <2>3. Claim
    <3> HIDE DEF Ends, Fits
    <3> QED
      BY <2>1, <2>2
  <2> QED
    BY <2>3 DEF p, r
<1>4. CASE Ch(d, p) = Quote
  <2>1. p \in 1 .. Len(d) /\ d[p] = Quote /\ d \in Seq(Symbols)
    BY <1>1, <1>4 DEF Ch, Quote, Symbols
  <2>2. /\ InBounds(d, p + 1, capacity, grows, Len(d) + 1, s)
        /\ s.err \in {"ok", "parse", "range"} /\ Understood(d, p, capacity, s)
    BY <2>1, LoopUnderstands
  <2> HIDE DEF s
  <2>3. r.err = s.err /\ r.at = s.at /\ r.value = s.value
    BY <1>2, <1>4
  <2>4. ASSUME NEW j, NEW k, Ends(j), Ends(k)
        PROVE  j <= k
    <3>1. j \in Nat /\ k \in Nat /\ p \in Nat /\ p + 1 < j /\ p + 1 < k
          /\ \A l \in p + 1 .. j - 2 : InString(d, p + 1, l)
      BY <2>1, <2>4 DEF StringIn
    <3>2. \A l \in p + 1 .. (j - 1) - 1 : l \in p + 1 .. j - 2
      BY <3>1
    <3>3. j - 1 \in Nat /\ p < j - 1
      BY <3>1
    <3>4. j - 1 <= k - 1
      BY <2>4, <3>1, <3>2, <3>3, EndsBehind
    <3> QED
      BY <3>1, <3>4
  <2>5. \A j, k : Ends(j) /\ Ends(k) => j = k
    <3>1. \A j : Ends(j) => j \in Nat
      BY <2>1
    <3> HIDE DEF Ends
    <3>2. ASSUME NEW j, NEW k, Ends(j), Ends(k)
          PROVE  j = k
      <4>1. j \in Nat /\ k \in Nat /\ j <= k /\ k <= j
        BY <2>4, <3>1, <3>2
      <4> QED
        BY <4>1
    <3> QED
      BY <3>2
  <2>6. CASE s.err = "ok"
    <3>1. Ends(s.at) /\ Spells(d, p + 1, s.at - 1, s.value)
      BY <2>1, <2>2, <2>6 DEF Understood, InBounds
    <3>2. Fits(s.at)
      BY <2>2, <2>6, <3>1 DEF InBounds, Spells
    <3>3. Claim
      <4> HIDE DEF Ends, Fits
      <4> QED
        BY <2>3, <2>5, <2>6, <3>1, <3>2
    <3> QED
      BY <3>3 DEF p, r
  <2>7. CASE s.err = "parse"
    <3>1. ASSUME NEW j, Ends(j)
          PROVE  FALSE
      <4>1. j \in 1 .. Len(d) + 1 /\ StringIn(d, p, j)
        BY <2>1, <3>1
      <4> QED
        BY <2>2, <2>7, <4>1 DEF Understood
    <3>2. Claim
      <4> HIDE DEF Ends, Fits
      <4> QED
        BY <2>3, <2>7, <3>1
    <3> QED
      BY <3>2 DEF p, r
  <2>8. CASE s.err = "range"
    <3>1. ASSUME NEW j, Ends(j), Fits(j)
          PROVE  FALSE
      <4>1. j \in 1 .. Len(d) + 1 /\ StringIn(d, p, j) /\ j - 1 \in Nat
        BY <2>1, <3>1
      <4>2. CharactersIn(d, p + 1, j - 1) >= capacity /\ ~grows
        BY <2>2, <2>8, <4>1 DEF Understood, InBounds
      <4>3. CharactersIn(d, p + 1, j - 1) < capacity
        BY <3>1, <4>2
      <4>4. CharactersIn(d, p + 1, j - 1) \in Nat
        <5>1. p + 1 <= j - 1 /\ p + 1 \in Nat
          BY <2>1, <4>1 DEF StringIn
        <5> QED
          BY <4>1, <5>1, CharactersStep
      <4> QED
        BY <4>2, <4>3, <4>4
    <3>2. Claim
      <4> HIDE DEF Ends, Fits
      <4> QED
        BY <2>3, <2>8, <3>1
    <3> QED
      BY <3>2 DEF p, r
  <2> QED
    BY <2>2, <2>6, <2>7, <2>8
<1> QED
  BY <1>3, <1>4


-----------------------------------------------------------------------------
(* Configuration files *)

\* What the readers of this section return.
Results == [err : {"ok", "parse", "range"}, at : Nat, value : Seq(Symbols) \cup Symbols]

LEMMA ParseErrorIsResult == ParseError \in Results /\ ParseError.err = "parse"
<1>1. <<>> \in Seq(Symbols)
  OBVIOUS
<1> QED
  BY <1>1 DEF Results, ParseError, Error

LEMMA StringIsResult ==
  ASSUME NEW d \in Seq(STRING), NEW i \in 1 .. Len(d) + 1, NEW capacity \in Nat \ {0},
         NEW grows \in BOOLEAN
  PROVE  /\ String(d, i, capacity, grows) \in Results
         /\ String(d, i, capacity, grows).value \in Seq(Symbols)
<1> DEFINE p == SkipWs(d, i)
           r == String(d, i, capacity, grows)
           s == Characters(d, p + 1, capacity, grows)
<1>1. p \in 1 .. Len(d) + 1
  BY SkipWsScans DEF Stops
<1>2. r = IF Ch(d, p) # Quote THEN ParseError ELSE [err |-> s.err, at |-> s.at, value |-> s.value]
  BY DEF String
<1> HIDE DEF p, r
<1>3. CASE Ch(d, p) # Quote
  <2>1. <<>> \in Seq(Symbols)
    OBVIOUS
  <2> QED
    BY <1>2, <1>3, <2>1, ParseErrorIsResult DEF r, ParseError, Error
<1>4. CASE Ch(d, p) = Quote
  <2>1. p + 1 \in 1 .. Len(d) + 1 /\ d \in Seq(Symbols)
    BY <1>1, <1>4 DEF Ch, Quote, Symbols
  <2>2. s.err \in {"ok", "parse", "range"}
    BY <2>1, StringsStayInBounds
  <2>3. s \in States
    <3>1. InBounds(d, p + 1, capacity, grows, Len(d) + 1, Loop(d, p + 1, capacity, grows)[Len(d) + 1])
      BY <2>1, LoopStaysInBounds
    <3>2. s = Loop(d, p + 1, capacity, grows)[Len(d) + 1]
      BY DEF Characters, Loop
    <3> HIDE DEF s
    <3> QED
      BY <3>1, <3>2 DEF InBounds
  <2> HIDE DEF s
  <2>4. s.at \in Nat /\ s.value \in Seq(Symbols)
    BY <2>3 DEF States
  <2> QED
    BY <1>2, <1>4, <2>2, <2>4 DEF r, Results
<1> QED
  BY <1>3, <1>4

\* How the numbers begin.
LEMMA NumberBegins ==
  ASSUME NEW d, NEW p \in Nat, NEW j \in Nat, NumberIn(d, p, j)
  PROVE  p < j /\ d[p] \in Digit \cup {"-"}
<1>1. p < j /\ UnsignedIn(d, IF d[p] = "-" THEN p + 1 ELSE p, j)
  BY DEF NumberIn
<1>2. CASE d[p] # "-"
  <2>1. PICK f \in p .. j : WholeIn(d, p, f)
    BY <1>1, <1>2 DEF UnsignedIn
  <2>2. p \in p .. f - 1
    BY <2>1 DEF WholeIn, DigitsIn
  <2> QED
    BY <1>1, <2>1, <2>2 DEF WholeIn, DigitsIn
<1> QED
  BY <1>1, <1>2

\* What a reader that skips spaces accepts: at r.at a part ends, and if one ends where
\* a value may end, it is that.
Reads(d, p, In(_), r) ==
  /\ r \in Results
  /\ r.err = "ok" => r.at \in p + 1 .. Len(d) + 1 /\ In(r.at)
  /\ \A j \in p + 1 .. Len(d) + 1 : In(j) /\ Boundary(Ch(d, j)) => r.err = "ok" /\ r.at = j

LEMMA SkipWsTwice ==
  ASSUME NEW d \in Seq(STRING), NEW i \in 1 .. Len(d) + 1
  PROVE  /\ SkipWs(d, i) \in i .. Len(d) + 1 /\ SkipWs(d, i) \in 1 .. Len(d) + 1
         /\ SkipWs(d, SkipWs(d, i)) = SkipWs(d, i)
<1> DEFINE p == SkipWs(d, i)
<1>1. Stops(d, i, Spaces, p)
  BY SkipWsScans
<1> HIDE DEF p
<1>2. p \in 1 .. Len(d) + 1 /\ p \in i .. Len(d) + 1
  BY <1>1 DEF Stops
<1>3. Stops(d, p, Spaces, p)
  BY <1>1, <1>2 DEF Stops
<1>4. Stops(d, p, Spaces, SkipWs(d, p))
  BY <1>2, SkipWsScans
<1>5. SkipWs(d, p) = p
  BY <1>2, <1>3, <1>4, ScanStopsOnce
<1> QED
  BY <1>2, <1>5 DEF p

LEMMA LiteralReads ==
  ASSUME NEW d \in Seq(STRING), NEW p \in 1 .. Len(d) + 1, NEW symbols \in SUBSET Literals,
         Ch(d, p) \in symbols
  PROVE  LET In(j) == OneOf(d, p, j, symbols) IN Reads(d, p, In, ReadLiteral(d, p))
<1> DEFINE In(j) == OneOf(d, p, j, symbols)
           r == ReadLiteral(d, p)
<1>1. p \in 1 .. Len(d) /\ d[p] = Ch(d, p) /\ p + 1 \in Nat
  BY DEF Ch, Literals
<1>2. r = IF Boundary(Ch(d, p + 1)) THEN Ok(p + 1, d[p]) ELSE ParseError
  BY DEF ReadLiteral
<1>3. d[p] \in Symbols
  BY <1>1 DEF Symbols
<1>4. CASE Boundary(Ch(d, p + 1))
  <2>1. r = Ok(p + 1, d[p])
    BY <1>2, <1>4
  <2>2. r \in Results /\ r.err = "ok" /\ r.at = p + 1
    BY <1>1, <1>3, <2>1 DEF Ok, Results
  <2> HIDE DEF r
  <2> QED
    BY <1>1, <2>2 DEF Reads, OneOf, r
<1>5. CASE ~Boundary(Ch(d, p + 1))
  <2>1. r = ParseError
    BY <1>2, <1>5
  <2>2. r \in Results /\ r.err # "ok"
    BY <2>1, ParseErrorIsResult
  <2> HIDE DEF r
  <2> QED
    BY <1>5, <2>2 DEF Reads, OneOf, r
<1> QED
  BY <1>4, <1>5

LEMMA BoolReads ==
  ASSUME NEW d \in Seq(STRING), NEW i \in 1 .. Len(d) + 1
  PROVE  LET In(j) == OneOf(d, SkipWs(d, i), j, {"true", "false"})
         IN  Reads(d, SkipWs(d, i), In, ReadBool(d, i))
<1> DEFINE p == SkipWs(d, i)
           In(j) == OneOf(d, p, j, {"true", "false"})
<1>1. p \in 1 .. Len(d) + 1
  BY SkipWsTwice
<1>2. ReadBool(d, i) = IF Ch(d, p) \in {"true", "false"} THEN ReadLiteral(d, p) ELSE ParseError
  BY DEF ReadBool
<1> HIDE DEF p
<1>3. CASE Ch(d, p) \in {"true", "false"}
  <2>1. {"true", "false"} \in SUBSET Literals
    BY DEF Literals
  <2>2. Reads(d, p, In, ReadLiteral(d, p))
    BY <1>1, <1>3, <2>1, LiteralReads
  <2> QED
    BY <1>2, <1>3, <2>2 DEF p
<1>4. CASE Ch(d, p) \notin {"true", "false"}
  <2>1. \A j \in p + 1 .. Len(d) + 1 : ~In(j)
    BY <1>1, <1>4 DEF OneOf, Ch
  <2>2. Reads(d, p, In, ParseError)
    BY <2>1, ParseErrorIsResult DEF Reads
  <2> QED
    BY <1>2, <1>4, <2>2 DEF p
<1> QED
  BY <1>3, <1>4

LEMMA ScalarReads ==
  ASSUME NEW d \in Seq(STRING), HasNoNul(d), NEW i \in 1 .. Len(d) + 1
  PROVE  LET In(j) == ScalarIn(d, SkipWs(d, i), j)
         IN  Reads(d, SkipWs(d, i), In, SkipScalar(d, i))
<1> DEFINE p == SkipWs(d, i)
           r == SkipScalar(d, i)
           In(j) == ScalarIn(d, p, j)
<1>1. p \in 1 .. Len(d) + 1 /\ SkipWs(d, p) = p
  BY SkipWsTwice
<1>2. /\ Ch(d, p) = Quote => r = SkipString(d, p)
      /\ Ch(d, p) \in Literals => r = ReadLiteral(d, p)
      /\ Ch(d, p) # Quote /\ Ch(d, p) \notin Literals => r = SkipNumber(d, p)
  BY DEF SkipScalar, Quote, Literals
<1> HIDE DEF p, r
<1>3. ASSUME NEW j \in p + 1 .. Len(d) + 1
      PROVE  /\ StringIn(d, p, j) => Ch(d, p) = Quote
             /\ NumberIn(d, p, j) => Ch(d, p) \in Digit \cup {"-"}
             /\ OneOf(d, p, j, Literals) => Ch(d, p) \in Literals
  <2>1. p \in 1 .. Len(d) /\ Ch(d, p) = d[p] /\ p \in Nat /\ j \in Nat
    BY <1>1 DEF Ch
  <2> QED
    BY <2>1, NumberBegins DEF StringIn, OneOf
<1>4. CASE Ch(d, p) = Quote
  <2>1. \A j \in p + 1 .. Len(d) + 1 : In(j) <=> StringIn(d, p, j)
    BY <1>3, <1>4 DEF ScalarIn, Quote, Digit, Literals
  <2>2. r = String(d, p, Len(d) + 2, TRUE) /\ Len(d) + 2 \in Nat \ {0}
    BY <1>2, <1>4 DEF SkipString
  <2>3. r \in Results
    BY <1>1, <2>2, StringIsResult
  <2>4. /\ r.err = "ok" => r.at \in p + 1 .. Len(d) + 1 /\ StringIn(d, p, r.at)
        /\ \A j : j \in p + 1 .. Len(d) + 1 /\ StringIn(d, p, j) => r.err = "ok" /\ r.at = j
    <3> DEFINE Ends(j) == j \in p + 1 .. Len(d) + 1 /\ StringIn(d, p, j)
    <3>1. LET q == SkipWs(d, p)
              From(j) == j \in q + 1 .. Len(d) + 1 /\ StringIn(d, q, j)
              Fits(j) == TRUE \/ CharactersIn(d, q + 1, j - 1) < Len(d) + 2
          IN  IF \E j : From(j) /\ Fits(j)
              THEN /\ r.err = "ok" /\ From(r.at) /\ \A j : From(j) => j = r.at
                   /\ Spells(d, q + 1, r.at - 1, r.value)
              ELSE r.err \in {"parse", "range"} /\ ((\E j : From(j)) => r.err = "range")
      <4> HIDE DEF Ends
      <4> QED
        BY <1>1, <2>2, StringsReadAsTheGrammarSays
    <3>2. IF \E j : Ends(j) THEN r.err = "ok" /\ Ends(r.at) /\ \A j : Ends(j) => j = r.at
          ELSE r.err \in {"parse", "range"}
      BY <1>1, <3>1
    <3> HIDE DEF Ends
    <3>3. /\ r.err = "ok" => Ends(r.at)
          /\ \A j : Ends(j) => r.err = "ok" /\ r.at = j
      BY <3>2
    <3> QED
      BY <3>3 DEF Ends
  <2> QED
    BY <2>1, <2>3, <2>4 DEF Reads, p, r
<1>5. CASE Ch(d, p) \in Literals
  <2>1. \A j \in p + 1 .. Len(d) + 1 : In(j) <=> OneOf(d, p, j, Literals)
    BY <1>3, <1>5 DEF ScalarIn, Quote, Digit, Literals
  <2> DEFINE Lit(j) == OneOf(d, p, j, Literals)
  <2>2. Reads(d, p, Lit, ReadLiteral(d, p))
    <3>1. Literals \in SUBSET Literals
      OBVIOUS
    <3> QED
      BY <1>1, <1>5, <3>1, LiteralReads
  <2>3. Reads(d, p, Lit, r)
    BY <1>2, <1>5, <2>2
  <2> QED
    BY <2>1, <2>3 DEF Reads, p, r
<1>6. CASE Ch(d, p) # Quote /\ Ch(d, p) \notin Literals
  <2>1. \A j \in p + 1 .. Len(d) + 1 : In(j) <=> NumberIn(d, p, j)
    BY <1>3, <1>6 DEF ScalarIn
  <2>2. r = SkipNumber(d, p)
    BY <1>2, <1>6
  <2> DEFINE Ends(j) == j \in p + 1 .. Len(d) + 1 /\ NumberIn(d, p, j) /\ Boundary(Ch(d, j))
  <2>3. IF \E j : Ends(j) THEN r.err = "ok" /\ Ends(r.at) /\ \A j : Ends(j) => j = r.at
        ELSE r = ParseError
    BY <1>1, <2>2, NumbersReadAsTheGrammarSays
  <2>4. (r.err = "ok" => Ends(r.at)) /\ \A j : Ends(j) => r.err = "ok" /\ r.at = j
    <3> HIDE DEF Ends
    <3> QED
      BY <2>3, ParseErrorIsResult
  <2>5. r \in Results
    <3>1. r = ParseError \/ \E j \in Nat : r = Ok(j, <<>>)
      <4> DEFINE k == Exponent(d, Fraction(d, Whole(d, IF Ch(d, p) = "-" THEN p + 1 ELSE p)))
      <4>1. r = IF k > 0 /\ Boundary(Ch(d, k)) THEN Ok(k, <<>>) ELSE ParseError
        BY <1>1, <2>2 DEF SkipNumber
      <4> HIDE DEF k
      <4>2. CASE k > 0 /\ Boundary(Ch(d, k))
        <5>1. r.err = "ok" /\ r.at = k
          BY <4>1, <4>2 DEF Ok
        <5>2. k \in Nat
          BY <1>1, <2>4, <5>1
        <5> QED
          BY <4>1, <4>2, <5>2
      <4>3. CASE ~(k > 0 /\ Boundary(Ch(d, k)))
        BY <4>1, <4>3
      <4> QED
        BY <4>2, <4>3
    <3>2. <<>> \in Seq(Symbols)
      OBVIOUS
    <3>3. \A j \in Nat : Ok(j, <<>>) \in Results
      BY <3>2 DEF Results, Ok
    <3> QED
      BY <3>1, <3>3, ParseErrorIsResult
  <2> QED
    BY <2>1, <2>4, <2>5 DEF Reads, p, r
<1> QED
  BY <1>4, <1>5, <1>6

\* A key that is one of the flags is spelled so.
LEMMA FlagSpelled ==
  ASSUME NEW d \in Seq(STRING), NEW p \in 1 .. Len(d), NEW j \in 1 .. Len(d) + 1,
         StringIn(d, p, j), NEW t \in Seq(Symbols), Spells(d, p + 1, j - 1, t)
  PROVE  t \in {<<f>> : f \in Flag} <=> j = p + 3 /\ d[p + 1] \in Flag
<1> DEFINE a == p + 1
           b == j - 1
           n(k) == CharactersIn(d, a, k)
<1>1. /\ a \in Nat /\ b \in Nat /\ a <= b /\ j \in Nat /\ ~Escaped(d, a, b)
      /\ \A k \in a .. b - 1 : InString(d, a, k)
  <2>1. \A k \in a .. b - 1 : k \in p + 1 .. j - 2
    OBVIOUS
  <2> QED
    BY <2>1 DEF StringIn
<1>2. Len(t) = n(b) /\ \A k \in a .. b - 1 : ~Escaped(d, a, k) => t[n(k) + 1] = Letter(d, k)
  BY DEF Spells
<1>3. ~Escaped(d, a, a) /\ n(a) = 0
  BY <1>1, NotEscapedFirst
<1>4. n(a + 1) = 1
  BY <1>1, <1>3, CharactersStep
<1> HIDE DEF n
<1>5. ASSUME NEW f \in Flag, t = <<f>>
      PROVE  j = p + 3 /\ d[p + 1] \in Flag
  <2>1. n(b) = 1 /\ t[1] = f
    BY <1>2, <1>5
  <2>2. a # b /\ a \in a .. b - 1 /\ a + 1 \in Nat /\ a <= a + 1
    BY <1>1, <1>3, <2>1
  <2>3. Letter(d, a) = f /\ f = "json"
    BY <1>2, <1>3, <2>1, <2>2 DEF Flag
  <2>4. CASE d[a] = "\\"
    <3>1. Escaped(d, a, a + 1)
      BY <1>1, <1>3, <2>4, EscapedStep
    <3>2. a + 1 # b
      BY <1>1, <3>1
    <3>3. a + 1 \in a .. b - 1
      BY <1>1, <2>2, <3>2
    <3>4. d[a + 1] \in Escapes
      BY <1>1, <3>1, <3>3 DEF InString
    <3> QED
      BY <2>3, <2>4, <3>4 DEF Letter, EscapeOf, Escapes, Quote
  <2>5. CASE d[a] # "\\"
    <3>1. d[a] = f /\ ~Escaped(d, a, a + 1)
      BY <1>1, <2>3, <2>5, EscapedStep DEF Letter
    <3>2. n(a + 2) = 2
      <4>1. (a + 1) + 1 = a + 2
        BY <1>1
      <4>2. CharactersIn(d, a, (a + 1) + 1) = CharactersIn(d, a, a + 1) + 1
        BY <2>2, <3>1, CharactersStep
      <4> QED
        BY <1>4, <4>1, <4>2 DEF n
    <3>3. ~(a + 2 <= b)
      <4>1. a + 2 <= b => n(a + 2) <= n(b)
        <5>1. a + 2 \in Nat
          BY <1>1
        <5> QED
          BY <1>1, <5>1, CharactersGrow DEF n
      <4> QED
        BY <2>1, <3>2, <4>1
    <3>4. j = p + 3
      BY <1>1, <2>2, <3>3
    <3> QED
      BY <3>1, <3>4
  <2> QED
    BY <2>4, <2>5
<1>6. ASSUME j = p + 3, d[p + 1] \in Flag
      PROVE  t \in {<<f>> : f \in Flag}
  <2>1. b = a + 1 /\ a \in a .. b - 1
    BY <1>6
  <2>2. Len(t) = 1 /\ t[1] = Letter(d, a)
    BY <1>2, <1>3, <1>4, <2>1
  <2>3. Letter(d, a) = d[a]
    BY <1>6 DEF Letter, Flag
  <2>4. t = <<d[a]>>
    BY <2>2, <2>3
  <2> QED
    BY <1>6, <2>4
<1> QED
  BY <1>5, <1>6

LEMMA KeyReads ==
  ASSUME NEW d \in Seq(STRING), HasNoNul(d), NEW i \in 1 .. Len(d) + 1
  PROVE  LET p == SkipWs(d, i)
             r == ConfigKey(d, i)
             Ends(j) == /\ j \in p + 1 .. Len(d) + 1 /\ StringIn(d, p, j)
                        /\ CharactersIn(d, p + 1, j - 1) < KeySize
         IN  /\ r \in Results
             /\ r.err = "ok" =>
                  /\ Ends(r.at)
                  /\ r.value \in {<<f>> : f \in Flag} <=> r.at = p + 3 /\ d[p + 1] \in Flag
             /\ \A j : Ends(j) => r.err = "ok" /\ r.at = j
<1> DEFINE p == SkipWs(d, i)
           r == ConfigKey(d, i)
           From(j) == j \in p + 1 .. Len(d) + 1 /\ StringIn(d, p, j)
           Fits(j) == FALSE \/ CharactersIn(d, p + 1, j - 1) < KeySize
           Ends(j) == /\ j \in p + 1 .. Len(d) + 1 /\ StringIn(d, p, j)
                      /\ CharactersIn(d, p + 1, j - 1) < KeySize
<1>1. r = String(d, i, KeySize, FALSE) /\ KeySize \in Nat \ {0}
  BY JsonAssumption DEF ConfigKey
<1>2. p \in 1 .. Len(d) + 1
  BY SkipWsTwice
<1>3. r \in Results /\ r.value \in Seq(Symbols)
  BY <1>1, StringIsResult
<1>4. IF \E j : From(j) /\ Fits(j)
      THEN /\ r.err = "ok" /\ From(r.at) /\ \A j : From(j) => j = r.at
           /\ Spells(d, p + 1, r.at - 1, r.value)
      ELSE r.err \in {"parse", "range"} /\ ((\E j : From(j)) => r.err = "range")
  BY <1>1, StringsReadAsTheGrammarSays
<1> HIDE DEF p, r
<1>5. \A j : Ends(j) <=> From(j) /\ Fits(j)
  OBVIOUS
<1> HIDE DEF From, Fits, Ends
<1>6. /\ r.err = "ok" => Ends(r.at) /\ Spells(d, p + 1, r.at - 1, r.value)
      /\ \A j : Ends(j) => r.err = "ok" /\ r.at = j
  <2>1. CASE \E j : From(j) /\ Fits(j)
    <3>1. PICK j : From(j) /\ Fits(j)
      BY <2>1
    <3>2. /\ r.err = "ok" /\ \A k : From(k) => k = r.at
          /\ Spells(d, p + 1, r.at - 1, r.value)
      BY <1>4, <2>1
    <3>3. Ends(r.at)
      BY <1>5, <3>1, <3>2
    <3> QED
      BY <1>5, <3>2, <3>3
  <2>2. CASE ~\E j : From(j) /\ Fits(j)
    BY <1>4, <1>5, <2>2
  <2> QED
    BY <2>1, <2>2
<1>7. ASSUME r.err = "ok"
      PROVE  r.value \in {<<f>> : f \in Flag} <=> r.at = p + 3 /\ d[p + 1] \in Flag
  <2>1. StringIn(d, p, r.at) /\ r.at \in p + 1 .. Len(d) + 1
    BY <1>6, <1>7 DEF Ends
  <2>2. p \in 1 .. Len(d) /\ r.at \in 1 .. Len(d) + 1
    BY <1>2, <2>1
  <2> QED
    BY <1>3, <1>6, <1>7, <2>1, <2>2, FlagSpelled
<1> QED
  BY <1>3, <1>6, <1>7 DEF Ends, p, r

\* Blank characters, and what stops a scan of them.
LEMMA BlankScan ==
  ASSUME NEW d \in Seq(STRING), NEW i \in 1 .. Len(d) + 1, NEW j \in i .. Len(d) + 1,
         BlankIn(d, i, j), Ch(d, j) \notin Spaces
  PROVE  SkipWs(d, i) = j
<1>1. Stops(d, i, Spaces, j)
  BY DEF Stops, BlankIn
<1> QED
  BY <1>1, SkipWsScans, ScanStopsOnce

LEMMA SkippedIsBlank ==
  ASSUME NEW d \in Seq(STRING), NEW i \in 1 .. Len(d) + 1
  PROVE  BlankIn(d, i, SkipWs(d, i))
BY SkipWsScans DEF Stops, BlankIn

\* Behind a part there is a space or what comes next.
LEMMA BlankOrNext ==
  ASSUME NEW d \in Seq(STRING), NEW i \in 1 .. Len(d) + 1, NEW j \in i .. Len(d) + 1,
         BlankIn(d, i, j)
  PROVE  Ch(d, i) \in Spaces \/ i = j
<1>1. CASE i # j
  <2>1. i \in i .. j - 1 /\ i <= Len(d)
    BY <1>1
  <2> QED
    BY <2>1 DEF BlankIn, Ch
<1> QED
  BY <1>1

LEMMA MemberReads ==
  ASSUME NEW d \in Seq(STRING), HasNoNul(d), NEW i \in 1 .. Len(d) + 1, NEW acc
  PROVE  LET In(j) == ConfigMemberIn(d, SkipWs(d, i), j)
         IN  Reads(d, SkipWs(d, i), In, ConfigPart(d, i, acc))
<1> DEFINE p == SkipWs(d, i)
           In(j) == ConfigMemberIn(d, p, j)
           r == ConfigPart(d, i, acc)
           key == ConfigKey(d, i)
           c == SkipWs(d, key.at)
           v == SkipWs(d, c + 1)
           flag == key.at = p + 3 /\ d[p + 1] \in Flag
           value == IF flag THEN ReadBool(d, c + 1) ELSE SkipScalar(d, c + 1)
           Key(j) == /\ j \in p + 1 .. Len(d) + 1 /\ StringIn(d, p, j)
                     /\ CharactersIn(d, p + 1, j - 1) < KeySize
           Value(j) == ConfigValueIn(d, flag, v, j)
<1>1. p \in 1 .. Len(d) + 1
  BY SkipWsTwice
<1>2. /\ key \in Results
      /\ key.err = "ok" =>
           /\ Key(key.at)
           /\ key.value \in {<<f>> : f \in Flag} <=> key.at = p + 3 /\ d[p + 1] \in Flag
      /\ \A j : Key(j) => key.err = "ok" /\ key.at = j
  BY KeyReads
<1>3. r = IF key.err # "ok" THEN key
          ELSE IF Ch(d, c) # ":" THEN ParseError
          ELSE IF key.value \in {<<f>> : f \in Flag} THEN ReadBool(d, c + 1)
          ELSE SkipScalar(d, c + 1)
  BY DEF ConfigPart, Member
<1> HIDE DEF p, r, key
<1>4. CASE key.err # "ok"
  <2>1. r = key
    BY <1>3, <1>4
  <2>2. ASSUME NEW j \in p + 1 .. Len(d) + 1, In(j)
        PROVE  FALSE
    <3>1. PICK k \in p + 1 .. j : StringIn(d, p, k) /\ CharactersIn(d, p + 1, k - 1) < KeySize
      BY <2>2 DEF ConfigMemberIn
    <3>2. Key(k)
      BY <1>1, <3>1
    <3> HIDE DEF Key
    <3> QED
      BY <1>2, <1>4, <3>2
  <2>3. Reads(d, p, In, r)
    <3> HIDE DEF In
    <3> QED
      BY <1>2, <1>4, <2>1, <2>2 DEF Reads
  <2> QED
    BY <2>3 DEF p, r
<1>5. CASE key.err = "ok"
  <2>1. /\ Key(key.at) /\ key.at \in 1 .. Len(d) + 1 /\ key.at \in p + 1 .. Len(d) + 1
        /\ key.value \in {<<f>> : f \in Flag} <=> flag
    BY <1>1, <1>2, <1>5
  <2>2. c \in key.at .. Len(d) + 1 /\ c \in 1 .. Len(d) + 1
    BY <2>1, SkipWsTwice
  <2>3. BlankIn(d, key.at, c)
    BY <2>1, SkippedIsBlank
  <2>4. ASSUME NEW j \in p + 1 .. Len(d) + 1, In(j)
        PROVE  \E w \in c + 1 .. j - 1 :
                 /\ c <= Len(d) /\ d[c] = ":" /\ BlankIn(d, c + 1, w)
                 /\ ConfigValueIn(d, flag, w, j)
    <3>1. PICK k \in p + 1 .. j :
            /\ StringIn(d, p, k) /\ CharactersIn(d, p + 1, k - 1) < KeySize
            /\ \E e \in k .. j - 2 :
                 /\ BlankIn(d, k, e) /\ d[e] = ":"
                 /\ \E w \in e + 1 .. j - 1 :
                      /\ BlankIn(d, e + 1, w)
                      /\ ConfigValueIn(d, k = p + 3 /\ d[p + 1] \in Flag, w, j)
      BY <2>4 DEF ConfigMemberIn
    <3>2. Key(k)
      BY <1>1, <3>1
    <3>3. k = key.at
      BY <1>2, <3>2
    <3>4. PICK e \in k .. j - 2 :
            /\ BlankIn(d, k, e) /\ d[e] = ":"
            /\ \E w \in e + 1 .. j - 1 :
                 /\ BlankIn(d, e + 1, w)
                 /\ ConfigValueIn(d, k = p + 3 /\ d[p + 1] \in Flag, w, j)
      BY <3>1
    <3>5. e \in k .. Len(d) + 1 /\ e <= Len(d)
      BY <1>1, <3>4
    <3>6. Ch(d, e) \notin Spaces
      BY <1>1, <3>4, <3>5 DEF Ch, Spaces
    <3>7. c = e
      BY <2>1, <3>3, <3>4, <3>5, <3>6, BlankScan
    <3> QED
      BY <3>3, <3>4, <3>5, <3>7
  <2> HIDE DEF c
  <2>5. CASE Ch(d, c) # ":"
    <3>1. r = ParseError
      BY <1>3, <1>5, <2>5 DEF c
    <3>2. \A j \in p + 1 .. Len(d) + 1 : ~In(j)
      <4> HIDE DEF In
      <4> QED
        BY <2>2, <2>4, <2>5 DEF Ch
    <3>3. Reads(d, p, In, r)
      <4> HIDE DEF In
      <4> QED
        BY <3>1, <3>2, ParseErrorIsResult DEF Reads
    <3> QED
      BY <3>3 DEF p, r
  <2>6. CASE Ch(d, c) = ":"
    <3>1. c \in 1 .. Len(d) /\ d[c] = ":" /\ c + 1 \in 1 .. Len(d) + 1
      BY <2>2, <2>6 DEF Ch
    <3>2. r = value
      BY <1>3, <1>5, <2>1, <2>6 DEF c
    <3>3. v \in c + 1 .. Len(d) + 1 /\ BlankIn(d, c + 1, v)
      BY <3>1, SkipWsTwice, SkippedIsBlank
    <3>4. Reads(d, v, Value, value)
      <4>1. CASE flag
        <5> DEFINE Bool(j) == OneOf(d, v, j, {"true", "false"})
        <5>1. Reads(d, v, Bool, ReadBool(d, c + 1))
          BY <3>1, BoolReads
        <5>2. value = ReadBool(d, c + 1) /\ \A j : Value(j) <=> Bool(j)
          BY <4>1 DEF ConfigValueIn
        <5> HIDE DEF flag, value, Bool, Value, v
        <5> QED
          BY <5>1, <5>2 DEF Reads
      <4>2. CASE ~flag
        <5> DEFINE Scalar(j) == ScalarIn(d, v, j)
        <5>1. Reads(d, v, Scalar, SkipScalar(d, c + 1))
          BY <3>1, ScalarReads
        <5>2. value = SkipScalar(d, c + 1) /\ \A j : Value(j) <=> Scalar(j)
          BY <4>2 DEF ConfigValueIn
        <5> HIDE DEF flag, value, Scalar, Value, v
        <5> QED
          BY <5>1, <5>2 DEF Reads
      <4> QED
        BY <4>1, <4>2
    <3>5. ASSUME NEW j \in p + 1 .. Len(d) + 1, In(j)
          PROVE  j \in v + 1 .. Len(d) + 1 /\ Value(j)
      <4>1. PICK w \in c + 1 .. j - 1 : BlankIn(d, c + 1, w) /\ ConfigValueIn(d, flag, w, j)
        BY <2>4, <3>5
      <4>2. w \in 1 .. Len(d) /\ w \in c + 1 .. Len(d) + 1 /\ j \in w + 1 .. Len(d) + 1
        BY <1>1, <3>1, <4>1
      <4>3. Ch(d, w) \notin Spaces
        <5>1. w \in Nat /\ j \in Nat
          BY <4>2
        <5>2. d[w] \in {Quote, "-"} \cup Digit \cup Literals
          <6>1. NumberIn(d, w, j) => d[w] \in Digit \cup {"-"}
            BY <5>1, NumberBegins
          <6>2. {"true", "false"} \subseteq Literals
            BY DEF Literals
          <6> QED
            BY <4>1, <6>1, <6>2 DEF ConfigValueIn, ScalarIn, OneOf, StringIn
        <5> QED
          BY <4>2, <5>2 DEF Ch, Spaces, Quote, Digit, Literals
      <4>4. v = w
        BY <3>1, <4>1, <4>2, <4>3, BlankScan
      <4> HIDE DEF v, flag
      <4> QED
        BY <4>1, <4>2, <4>4
    <3>6. ASSUME r.err = "ok"
          PROVE  r.at \in p + 1 .. Len(d) + 1 /\ In(r.at)
      <4>1. r.at \in v + 1 .. Len(d) + 1 /\ Value(r.at)
        BY <3>2, <3>4, <3>6 DEF Reads
      <4>2. /\ key.at \in p + 1 .. r.at /\ c \in key.at .. r.at - 2 /\ v \in c + 1 .. r.at - 1
            /\ r.at \in p + 1 .. Len(d) + 1
        <5> HIDE DEF v, Value
        <5> QED
          BY <1>1, <2>1, <2>2, <3>1, <3>3, <4>1
      <4>3. In(r.at)
        <5> HIDE DEF v
        <5> QED
          BY <2>1, <2>3, <3>1, <3>3, <4>1, <4>2 DEF ConfigMemberIn
      <4> QED
        BY <4>2, <4>3
    <3>7. Reads(d, p, In, r)
      <4> HIDE DEF In, Value, value, v
      <4> QED
        BY <3>2, <3>4, <3>5, <3>6 DEF Reads
    <3> QED
      BY <3>7 DEF p, r
  <2> QED
    BY <2>5, <2>6
<1> QED
  BY <1>4, <1>5

\* One turn of the loop over the members of the object, as Parts writes it.
AfterMember(d, i, acc) ==
  LET part == ConfigPart(d, i, acc)
      j == SkipWs(d, part.at)
  IN  IF Ch(d, i) = "NUL" THEN ParseError
      ELSE IF part.err # "ok" THEN part
      ELSE IF Ch(d, j) = "," THEN [err |-> "reading", at |-> j + 1, value |-> part.value]
      ELSE IF Ch(d, j) = "}" THEN Ok(j + 1, part.value)
      ELSE ParseError

\* (The prover is confused by a bracket or a comma in quotes.)
LEMMA Braces ==
  /\ Closing \notin Spaces /\ Boundary(Closing) /\ Closing # "NUL" /\ Closing # Comma
  /\ Opening \notin Spaces /\ Opening # "NUL" /\ Opening # Closing /\ Opening # Quote
  /\ Closing # Quote
  /\ Comma \notin Spaces /\ Boundary(Comma) /\ Comma # "NUL" /\ Comma # Quote
BY DEF Opening, Closing, Comma, Spaces, Boundary, Quote

MemberStates(d) ==
  {s \in [err : {"reading", "ok", "parse", "range"}, at : Nat, value : Seq(Symbols) \cup Symbols] :
     s.err = "reading" => s.at \in 1 .. Len(d) + 1}

LEMMA MemberStateIs ==
  ASSUME NEW d \in Seq(STRING), NEW i \in 1 .. Len(d) + 1,
         NEW value \in Seq(Symbols) \cup Symbols
  PROVE  /\ [err |-> "reading", at |-> i, value |-> value] \in MemberStates(d)
         /\ Ok(i, value) \in MemberStates(d)
<1>1. i \in Nat
  OBVIOUS
<1> QED
  BY <1>1 DEF MemberStates, Ok

\* What a turn says of the document: where a member begins, and what is behind it.
LEMMA AfterMemberReads ==
  ASSUME NEW d \in Seq(STRING), HasNoNul(d), NEW i \in 1 .. Len(d) + 1, NEW acc
  PROVE  LET p == SkipWs(d, i)
             s == AfterMember(d, i, acc)
             c == s.at - 1
         IN  /\ s \in MemberStates(d)
             /\ s.err \in {"reading", "ok"} =>
                  /\ c \in p + 1 .. Len(d) /\ MemberUpTo(d, p, c)
                  /\ d[c] = IF s.err = "ok" THEN Closing ELSE Comma
             /\ \A e \in p + 1 .. Len(d) :
                  /\ MemberUpTo(d, p, e) /\ d[e] = Comma => s.err = "reading" /\ s.at = e + 1
                  /\ MemberUpTo(d, p, e) /\ d[e] = Closing => s.err = "ok" /\ s.at = e + 1
<1> DEFINE p == SkipWs(d, i)
           s == AfterMember(d, i, acc)
           part == ConfigPart(d, i, acc)
           j == SkipWs(d, part.at)
           In(k) == ConfigMemberIn(d, p, k)
           Here == /\ s \in MemberStates(d)
                   /\ s.err \in {"reading", "ok"} =>
                        /\ s.at - 1 \in p + 1 .. Len(d) /\ MemberUpTo(d, p, s.at - 1)
                        /\ d[s.at - 1] = IF s.err = "ok" THEN Closing ELSE Comma
                   /\ \A e \in p + 1 .. Len(d) :
                        /\ MemberUpTo(d, p, e) /\ d[e] = Comma => s.err = "reading" /\ s.at = e + 1
                        /\ MemberUpTo(d, p, e) /\ d[e] = Closing => s.err = "ok" /\ s.at = e + 1
<1>1. p \in i .. Len(d) + 1 /\ p \in 1 .. Len(d) + 1
  BY SkipWsTwice
<1>2. Reads(d, p, In, part)
  BY MemberReads
<1>3. s = IF Ch(d, i) = "NUL" THEN ParseError
          ELSE IF part.err # "ok" THEN part
          ELSE IF Ch(d, j) = Comma THEN [err |-> "reading", at |-> j + 1, value |-> part.value]
          ELSE IF Ch(d, j) = Closing THEN Ok(j + 1, part.value)
          ELSE ParseError
  BY DEF AfterMember, Closing, Comma
<1> HIDE DEF p, s, part
<1>4. part \in Results
  BY <1>2 DEF Reads
<1>5. /\ ParseError \in MemberStates(d) /\ (part.err # "ok" => part \in MemberStates(d))
      /\ ParseError.err = "parse" /\ (part.err # "ok" => part.err \in {"parse", "range"})
  <2>1. \A r \in Results : r.err # "ok" => r \in MemberStates(d) /\ r.err \in {"parse", "range"}
    BY DEF Results, MemberStates
  <2> QED
    BY <1>4, <2>1, ParseErrorIsResult
\* Where a member is followed by a comma or a brace, it has been read.
<1>6. ASSUME NEW e \in p + 1 .. Len(d), MemberUpTo(d, p, e), d[e] \in {Comma, Closing}
      PROVE  Ch(d, i) # "NUL" /\ part.err = "ok" /\ j = e /\ Ch(d, j) = d[e]
  <2>1. PICK k \in p + 1 .. e : ConfigMemberIn(d, p, k) /\ BlankIn(d, k, e)
    BY <1>6 DEF MemberUpTo
  <2>2. k \in p + 1 .. Len(d) + 1 /\ k \in 1 .. Len(d) + 1 /\ e \in k .. Len(d) + 1
        /\ e \in 1 .. Len(d) /\ i \in 1 .. Len(d)
    <3>1. p \in Nat /\ i \in Nat /\ Len(d) \in Nat /\ 1 <= i /\ i <= p
      BY <1>1
    <3>2. e \in Nat /\ p + 1 <= e /\ e <= Len(d)
      BY <3>1
    <3>3. k \in Nat /\ p + 1 <= k /\ k <= e
      BY <3>1, <3>2
    <3> QED
      BY <3>1, <3>2, <3>3
  <2>3. Ch(d, e) = d[e] /\ Ch(d, e) \notin Spaces /\ Boundary(Ch(d, e))
    <3>1. Ch(d, e) = d[e]
      BY <2>2 DEF Ch
    <3> QED
      BY <1>6, <3>1, Braces DEF Spaces, Boundary
  <2>4. Boundary(Ch(d, k))
    <3>1. Ch(d, k) \in Spaces \/ k = e
      BY <2>1, <2>2, BlankOrNext
    <3> QED
      BY <2>3, <3>1 DEF Boundary
  <2>5. part.err = "ok" /\ part.at = k
    BY <1>2, <2>1, <2>2, <2>4 DEF Reads
  <2>6. j = e
    BY <2>1, <2>2, <2>3, <2>5, BlankScan
  <2>7. Ch(d, i) # "NUL"
    BY <2>2 DEF HasNoNul, Ch
  <2> QED
    BY <2>3, <2>5, <2>6, <2>7
<1>7. ASSUME part.err = "ok"
      PROVE  /\ j \in p + 1 .. Len(d) + 1 /\ part.value \in Seq(Symbols) \cup Symbols
             /\ j <= Len(d) => MemberUpTo(d, p, j)
  <2>1. part.at \in p + 1 .. Len(d) + 1 /\ ConfigMemberIn(d, p, part.at)
    BY <1>2, <1>7 DEF Reads
  <2>2. part.at \in 1 .. Len(d) + 1
    BY <1>1, <2>1
  <2>3. j \in part.at .. Len(d) + 1 /\ BlankIn(d, part.at, j)
    BY <2>2, SkipWsTwice, SkippedIsBlank
  <2> HIDE DEF j
  <2>4. j \in p + 1 .. Len(d) + 1 /\ part.at \in p + 1 .. j
    BY <1>1, <2>1, <2>3
  <2> QED
    BY <1>4, <2>1, <2>3, <2>4 DEF MemberUpTo, Results
<1> HIDE DEF j
<1>8. ASSUME part.err = "ok", Ch(d, j) \in {Comma, Closing}
      PROVE  /\ j \in p + 1 .. Len(d) /\ d[j] = Ch(d, j) /\ MemberUpTo(d, p, j)
             /\ (j + 1) - 1 = j /\ j + 1 \in 1 .. Len(d) + 1
  <2>1. j \in p + 1 .. Len(d) + 1 /\ (j <= Len(d) => MemberUpTo(d, p, j))
    BY <1>7, <1>8
  <2>2. j <= Len(d) /\ d[j] = Ch(d, j)
    BY <1>8, Braces DEF Ch
  <2> QED
    BY <1>1, <2>1, <2>2
<1>9. CASE Ch(d, i) = "NUL" \/ part.err # "ok" \/ Ch(d, j) \notin {Comma, Closing}
  <2>1. s = ParseError \/ (s = part /\ part.err # "ok")
    BY <1>3, <1>9
  <2>2. s \in MemberStates(d) /\ s.err \in {"parse", "range"}
    BY <1>5, <2>1
  <2>3. Here
    BY <1>6, <1>9, <2>2
  <2> QED
    BY <2>3 DEF p, s
<1>10. CASE Ch(d, i) # "NUL" /\ part.err = "ok" /\ Ch(d, j) = Comma
  <2>1. s = [err |-> "reading", at |-> j + 1, value |-> part.value]
    BY <1>3, <1>10
  <2>2. s.err = "reading" /\ s.at = j + 1
    BY <2>1
  <2>3. s \in MemberStates(d)
    <3>1. part.value \in Seq(Symbols) \cup Symbols /\ j + 1 \in 1 .. Len(d) + 1
      BY <1>7, <1>8, <1>10
    <3> QED
      BY <2>1, <3>1, MemberStateIs
  <2>4. Here
    BY <1>6, <1>8, <1>10, <2>2, <2>3, Braces
  <2> QED
    BY <2>4 DEF p, s
<1>11. CASE Ch(d, i) # "NUL" /\ part.err = "ok" /\ Ch(d, j) = Closing
  <2>1. s = Ok(j + 1, part.value)
    BY <1>3, <1>11, Braces
  <2>2. s.err = "ok" /\ s.at = j + 1
    BY <2>1 DEF Ok
  <2>3. s \in MemberStates(d)
    <3>1. part.value \in Seq(Symbols) \cup Symbols /\ j + 1 \in 1 .. Len(d) + 1
      BY <1>7, <1>8, <1>11
    <3> QED
      BY <2>1, <3>1, MemberStateIs
  <2>4. Here
    BY <1>6, <1>8, <1>11, <2>2, <2>3, Braces
  <2> QED
    BY <2>4 DEF p, s
<1> QED
  BY <1>9, <1>10, <1>11

\* Parts reads as it is written: the state after each turn.
MemberLoop(d, first) ==
  LET read[n \in 0 .. Len(d) + 1] ==
        IF n = 0 THEN [err |-> "reading", at |-> first, value |-> <<>>]
        ELSE LET s == read[n - 1] IN IF s.err = "reading" THEN AfterMember(d, s.at, s.value) ELSE s
  IN  read

MemberTurns(d, first, read) ==
  /\ read[0] = [err |-> "reading", at |-> first, value |-> <<>>]
  /\ \A n \in 0 .. Len(d) + 1 : read[n] \in MemberStates(d)
  /\ \A n \in 1 .. Len(d) + 1 :
       /\ read[n - 1].err = "reading" => read[n] = AfterMember(d, read[n - 1].at, read[n - 1].value)
       /\ read[n - 1].err # "reading" => read[n] = read[n - 1]

LEMMA MemberLoopTurns ==
  ASSUME NEW d \in Seq(STRING), HasNoNul(d), NEW first \in 1 .. Len(d) + 1
  PROVE  MemberTurns(d, first, MemberLoop(d, first))
<1> DEFINE N == Len(d) + 1
           V == MemberStates(d)
           start == [err |-> "reading", at |-> first, value |-> <<>>]
           Turn(s) == IF s.err = "reading" THEN AfterMember(d, s.at, s.value) ELSE s
           F == [n \in 1 .. N |-> [s \in V |-> Turn(s)]]
           Eq(g) == g = [n \in 0 .. N |-> IF n = 0 THEN start
                                          ELSE IF g[n - 1].err = "reading"
                                               THEN AfterMember(d, g[n - 1].at, g[n - 1].value)
                                               ELSE g[n - 1]]
           read == CHOOSE g : Eq(g)
<1>1. N \in Nat
  OBVIOUS
<1>2. start \in V
  <2>1. <<>> \in Seq(Symbols)
    OBVIOUS
  <2> QED
    BY <2>1 DEF MemberStates
<1>3. F \in [1 .. N -> [V -> V]]
  <2>1. ASSUME NEW s \in V
        PROVE  Turn(s) \in V
    <3>1. s.err = "reading" => s.at \in 1 .. Len(d) + 1
      BY DEF MemberStates
    <3>2. s.err = "reading" => AfterMember(d, s.at, s.value) \in V
      BY <3>1, AfterMemberReads
    <3> QED
      BY <3>2
  <2> HIDE DEF V, Turn
  <2> QED
    BY <2>1
<1>4. PICK g : Folded(g, V, start, N, F)
  <2> HIDE DEF F, N, V, start
  <2> QED
    BY <1>1, <1>2, <1>3, FoldExists
<1>5. /\ g \in [0 .. N -> V] /\ g[0] = start
      /\ \A n \in 1 .. N : g[n] = F[n][g[n - 1]]
  BY <1>4 DEF Folded
<1>6. \A n \in 1 .. N : g[n] = Turn(g[n - 1])
  <2> SUFFICES ASSUME NEW n \in 1 .. N
               PROVE  g[n] = Turn(g[n - 1])
    OBVIOUS
  <2>1. g[n - 1] \in V
    BY <1>1, <1>5
  <2>2. \A s \in V : F[n][s] = Turn(s)
    <3> HIDE DEF V, Turn
    <3> QED
      OBVIOUS
  <2> HIDE DEF F, V, Turn
  <2> QED
    BY <1>5, <2>1, <2>2
<1>7. Eq(g)
  <2>1. g = [n \in 0 .. N |-> g[n]]
    BY <1>5
  <2>2. \A n \in 0 .. N : g[n] = IF n = 0 THEN start
                                 ELSE IF g[n - 1].err = "reading"
                                      THEN AfterMember(d, g[n - 1].at, g[n - 1].value)
                                      ELSE g[n - 1]
    <3>1. \A n \in 0 .. N : n = 0 \/ n \in 1 .. N
      BY <1>1
    <3> QED
      BY <1>5, <1>6, <3>1
  <2> HIDE DEF N, start
  <2> QED
    BY <2>1, <2>2
<1>8. Eq(read)
  <2> HIDE DEF Eq
  <2> QED
    BY <1>7
<1>9. MemberLoop(d, first) = read
  BY DEF MemberLoop
<1> HIDE DEF read
<1>10. read[0] = start
  <2>1. 0 \in 0 .. N
    BY <1>1
  <2> HIDE DEF N, start
  <2> QED
    BY <1>8, <2>1
<1>11. \A n \in 1 .. N : read[n] = Turn(read[n - 1])
  <2>1. \A n \in 1 .. N : n \in 0 .. N /\ n # 0
    BY <1>1
  <2> HIDE DEF N, start
  <2> QED
    BY <1>8, <2>1
<1>12. \A n \in 0 .. N : read[n] \in V
  <2> DEFINE S == {n \in 0 .. N : read[n] \in V}
  <2>1. 0 \in S
    BY <1>1, <1>2, <1>10
  <2>2. ASSUME NEW n \in 0 .. N - 1, n \in S
        PROVE  n + 1 \in S
    <3>1. n + 1 \in 1 .. N /\ n + 1 \in 0 .. N /\ (n + 1) - 1 = n
      BY <1>1
    <3>2. read[n + 1] = Turn(read[n]) /\ read[n] \in V
      BY <1>11, <2>2, <3>1
    <3>3. read[n].err = "reading" => read[n].at \in 1 .. Len(d) + 1
      BY <3>2 DEF MemberStates
    <3>4. Turn(read[n]) \in V
      BY <3>2, <3>3, AfterMemberReads
    <3> QED
      BY <3>1, <3>2, <3>4
  <2>3. \A n \in 0 .. N : n \in S
    <3> HIDE DEF S, N
    <3> QED
      BY <1>1, <2>1, <2>2, Upwards
  <2> QED
    BY <2>3
<1> HIDE DEF V
<1> QED
  BY <1>9, <1>10, <1>11, <1>12 DEF MemberTurns, V

\* Each turn leaves a member behind it, so that the loop stops.
LEMMA MembersEnd ==
  ASSUME NEW d \in Seq(STRING), HasNoNul(d), NEW first \in 1 .. Len(d) + 1, NEW read,
         MemberTurns(d, first, read)
  PROVE  /\ read[Len(d) + 1].err # "reading"
         /\ \A m \in 0 .. Len(d) + 1 : read[m].err # "reading" => read[Len(d) + 1] = read[m]
<1> DEFINE N == Len(d) + 1
           S == {n \in 0 .. N : read[n].err = "reading" => read[n].at > n}
<1>1. N \in Nat
  OBVIOUS
<1>2. 0 \in S
  BY <1>1 DEF MemberTurns
<1>3. ASSUME NEW n \in 0 .. N - 1, n \in S
      PROVE  n + 1 \in S
  <2>1. n + 1 \in 1 .. N /\ n + 1 \in 0 .. N /\ (n + 1) - 1 = n /\ n \in 0 .. N /\ n \in Nat
    BY <1>1
  <2>2. CASE read[n].err = "reading"
    <3>1. read[n + 1] = AfterMember(d, read[n].at, read[n].value)
      BY <2>1, <2>2 DEF MemberTurns
    <3>2. read[n].at \in 1 .. Len(d) + 1 /\ read[n].at > n
      BY <1>3, <2>1, <2>2 DEF MemberTurns, MemberStates
    <3>3. read[n + 1].err = "reading" =>
            read[n + 1].at - 1 \in SkipWs(d, read[n].at) + 1 .. Len(d)
      BY <3>1, <3>2, AfterMemberReads
    <3>4. SkipWs(d, read[n].at) \in read[n].at .. Len(d) + 1
      BY <3>2, SkipWsTwice
    <3>5. read[n + 1].at \in Nat
      BY <2>1 DEF MemberTurns, MemberStates
    <3>6. read[n + 1].err = "reading" => read[n + 1].at > n + 1
      BY <2>1, <3>2, <3>3, <3>4, <3>5
    <3> QED
      BY <2>1, <3>6
  <2>3. CASE read[n].err # "reading"
    <3>1. read[n + 1] = read[n]
      BY <2>1, <2>3 DEF MemberTurns
    <3> QED
      BY <2>1, <2>3, <3>1
  <2> QED
    BY <2>2, <2>3
<1>4. \A n \in 0 .. N : n \in S
  <2> HIDE DEF S, N
  <2> QED
    BY <1>1, <1>2, <1>3, Upwards
<1>5. N \in S /\ N \in 0 .. N
  BY <1>1, <1>4
<1>6. read[N].err # "reading"
  <2>1. read[N].err = "reading" => read[N].at \in 1 .. N
    BY <1>5 DEF MemberTurns, MemberStates
  <2> QED
    BY <1>1, <1>5, <2>1
<1>7. StaysStopped(d, read)
  <2>1. \A n \in 1 .. Len(d) + 1 : read[n - 1].err # "reading" => read[n] = read[n - 1]
    BY DEF MemberTurns
  <2> QED
    BY <2>1, StoppedForGood
<1> QED
  BY <1>6, <1>7 DEF StaysStopped

\* What the loop reads are members of the object.
LEMMA MembersSound ==
  ASSUME NEW d \in Seq(STRING), HasNoNul(d), NEW o \in 1 .. Len(d), Ch(d, o) = Opening,
         NEW read, MemberTurns(d, SkipWs(d, o + 1), read)
  PROVE  \A n \in 0 .. Len(d) + 1 :
           read[n].err = "ok" =>
             /\ read[n].at - 1 \in o + 1 .. Len(d) /\ d[read[n].at - 1] = Closing
             /\ \E i \in Places(d) : MemberUpTo(d, i, read[n].at - 1) /\ MemberBegins(d, o, i)
<1> DEFINE first == SkipWs(d, o + 1)
           N == Len(d) + 1
           p(n) == SkipWs(d, read[n].at)
           Begun(n) == p(n) <= Len(d) /\ d[p(n)] = Quote => MemberBegins(d, o, p(n))
           Good(n) ==
             /\ read[n].err = "reading" => read[n].at > o /\ Begun(n)
             /\ read[n].err = "ok" =>
                  /\ read[n].at - 1 \in o + 1 .. Len(d) /\ d[read[n].at - 1] = Closing
                  /\ \E i \in Places(d) : MemberUpTo(d, i, read[n].at - 1) /\ MemberBegins(d, o, i)
           S == {n \in 0 .. N : Good(n)}
<1>1. N \in Nat /\ o + 1 \in 1 .. Len(d) + 1
  OBVIOUS
<1>2. first \in o + 1 .. Len(d) + 1 /\ first \in 1 .. Len(d) + 1 /\ SkipWs(d, first) = first
      /\ BlankIn(d, o + 1, first)
  BY <1>1, SkipWsTwice, SkippedIsBlank
<1>3. 0 \in S
  <2>1. read[0].err = "reading" /\ read[0].at = first
    BY DEF MemberTurns
  <2> HIDE DEF first
  <2>2. ASSUME first <= Len(d), d[first] = Quote
        PROVE  MemberBegins(d, o, first)
    <3>1. QuoteBehind(d, o, first)
      BY <1>2, <2>2 DEF QuoteBehind
    <3>2. first \in Places(d)
      <4>1. d[o] = Opening /\ o \in DOMAIN d /\ first \in DOMAIN d
        BY <1>2, <2>2 DEF Ch
      <4> HIDE DEF first
      <4> QED
        BY <3>1, <4>1 DEF Places
    <3> QED
      BY <3>1, <3>2 DEF MemberBegins, Begins
  <2>3. Good(0)
    BY <1>2, <2>1, <2>2
  <2> QED
    BY <1>1, <2>3
<1>4. ASSUME NEW n \in 0 .. N - 1, n \in S
      PROVE  n + 1 \in S
  <2>1. n + 1 \in 1 .. N /\ n + 1 \in 0 .. N /\ (n + 1) - 1 = n /\ n \in 0 .. N
    BY <1>1
  <2>2. Good(n)
    BY <1>4
  <2>3. CASE read[n].err # "reading"
    <3>1. read[n + 1] = read[n]
      BY <2>1, <2>3 DEF MemberTurns
    <3>2. Good(n + 1)
      BY <2>2, <3>1
    <3> QED
      BY <2>1, <3>2
  <2>4. CASE read[n].err = "reading"
    <3> DEFINE i == p(n)
               s == read[n + 1]
               c == s.at - 1
    <3>1. s = AfterMember(d, read[n].at, read[n].value)
      BY <2>1, <2>4 DEF MemberTurns
    <3>2. read[n].at \in 1 .. Len(d) + 1 /\ read[n].at > o
      BY <2>1, <2>2, <2>4 DEF MemberTurns, MemberStates
    <3>3. /\ s \in MemberStates(d)
          /\ s.err \in {"reading", "ok"} =>
               /\ c \in i + 1 .. Len(d) /\ MemberUpTo(d, i, c)
               /\ d[c] = IF s.err = "ok" THEN Closing ELSE Comma
      BY <3>1, <3>2, AfterMemberReads
    <3>4. i \in 1 .. Len(d) + 1 /\ i > o
      BY <3>2, SkipWsTwice
    <3>5. s.at \in Nat
      BY <3>3 DEF MemberStates
    <3> HIDE DEF i, s
    <3>6. ASSUME s.err \in {"reading", "ok"}
          PROVE  /\ c \in o + 1 .. Len(d) /\ c \in i + 1 .. Len(d) /\ c + 1 = s.at
                 /\ i \in 1 .. Len(d) /\ d[i] = Quote
                 /\ i \in Places(d) /\ MemberBegins(d, o, i)
      <4>1. c \in i + 1 .. Len(d) /\ MemberUpTo(d, i, c)
        BY <3>3, <3>6
      <4>2. d[i] = Quote
        BY <4>1 DEF MemberUpTo, ConfigMemberIn, StringIn
      <4>3. i \in 1 .. Len(d) /\ c \in o + 1 .. Len(d) /\ c + 1 = s.at
        BY <3>4, <3>5, <4>1
      <4>4. MemberBegins(d, o, i)
        BY <2>2, <2>4, <4>2, <4>3 DEF i
      <4>5. i \in Places(d)
        <5>1. Begins(d, o, Places(d))
          BY DEF Begins
        <5> QED
          BY <4>4, <5>1 DEF MemberBegins
      <4> QED
        BY <4>1, <4>2, <4>3, <4>4, <4>5
    <3>7. ASSUME s.err = "reading", p(n + 1) <= Len(d), d[p(n + 1)] = Quote
          PROVE  MemberBegins(d, o, p(n + 1))
      <4> DEFINE k == p(n + 1)
      <4>1. /\ c \in i + 1 .. Len(d) /\ c + 1 = s.at /\ MemberBegins(d, o, i) /\ d[c] = Comma
            /\ MemberUpTo(d, i, c) /\ i \in 1 .. Len(d)
        BY <3>3, <3>6, <3>7
      <4>2. s.at \in 1 .. Len(d) + 1
        BY <4>1
      <4>3. k \in s.at .. Len(d) + 1 /\ BlankIn(d, s.at, k)
        BY <4>2, SkipWsTwice, SkippedIsBlank DEF s
      <4> HIDE DEF k
      <4>4. QuoteBehind(d, c, k) /\ c \in DOMAIN d /\ k \in DOMAIN d /\ c \in i + 1 .. k
        BY <3>7, <4>1, <4>3 DEF QuoteBehind, k
      <4>5. k \in Places(d)
        BY <4>1, <4>4 DEF Places
      <4>6. ASSUME NEW T \in SUBSET Places(d), Begins(d, o, T)
            PROVE  k \in T
        <5>1. i \in T
          BY <4>1, <4>6 DEF MemberBegins
        <5> QED
          BY <4>1, <4>4, <4>5, <4>6, <5>1 DEF Begins
      <4> QED
        BY <4>6 DEF MemberBegins, k
    <3>8. Good(n + 1)
      <4>1. ASSUME s.err = "ok"
            PROVE  /\ s.at - 1 \in o + 1 .. Len(d) /\ d[s.at - 1] = Closing
                   /\ \E k \in Places(d) : MemberUpTo(d, k, s.at - 1) /\ MemberBegins(d, o, k)
        BY <3>3, <3>6, <4>1
      <4>2. s.err = "reading" => s.at > o
        BY <3>6
      <4> QED
        BY <3>7, <4>1, <4>2 DEF s
    <3> QED
      BY <2>1, <3>8
  <2> QED
    BY <2>3, <2>4
<1>5. \A n \in 0 .. N : n \in S
  <2> HIDE DEF S, N
  <2> QED
    BY <1>1, <1>3, <1>4, Upwards
<1> QED
  BY <1>5

\* And it reads them all.
LEMMA MembersComplete ==
  ASSUME NEW d \in Seq(STRING), HasNoNul(d), NEW o \in 1 .. Len(d),
         NEW read, MemberTurns(d, SkipWs(d, o + 1), read),
         NEW c \in 1 .. Len(d), Ch(d, c) = Closing,
         NEW i \in Places(d), MemberUpTo(d, i, c), MemberBegins(d, o, i)
  PROVE  read[Len(d) + 1].err = "ok" /\ read[Len(d) + 1].at = c + 1
<1> DEFINE first == SkipWs(d, o + 1)
           N == Len(d) + 1
           At(m, k) == m \in 0 .. N /\ read[m].err = "reading" /\ SkipWs(d, read[m].at) = k
           T == {k \in Places(d) : \E m \in 0 .. N : At(m, k)}
<1>1. N \in Nat /\ o + 1 \in 1 .. Len(d) + 1
  OBVIOUS
<1>2. first \in o + 1 .. Len(d) + 1 /\ first \in 1 .. Len(d) + 1 /\ SkipWs(d, first) = first
  BY <1>1, SkipWsTwice
<1>3. MemberTurns(d, first, read) /\ first \in 1 .. Len(d) + 1
  BY <1>2
<1> HIDE DEF first
<1>4. /\ read[N].err # "reading"
      /\ \A m \in 0 .. N : read[m].err # "reading" => read[N] = read[m]
  BY <1>3, MembersEnd
<1>5. ASSUME NEW m, NEW k, At(m, k), NEW e \in 1 .. Len(d), MemberUpTo(d, k, e)
      PROVE  /\ m + 1 \in 0 .. N
             /\ d[e] = Comma => read[m + 1].err = "reading" /\ read[m + 1].at = e + 1
             /\ d[e] = Closing => read[m + 1].err = "ok" /\ read[m + 1].at = e + 1
  <2>1. m \in 0 .. N /\ m # N
    BY <1>4, <1>5
  <2>2. m + 1 \in 1 .. N /\ m + 1 \in 0 .. N /\ (m + 1) - 1 = m
    BY <1>1, <2>1
  <2>3. read[m + 1] = AfterMember(d, read[m].at, read[m].value)
    BY <1>5, <2>2 DEF MemberTurns
  <2>4. read[m].at \in 1 .. Len(d) + 1
    BY <1>5, <2>1 DEF MemberTurns, MemberStates
  <2>5. k \in 1 .. Len(d) + 1 /\ e \in k + 1 .. Len(d)
    <3>1. k \in 1 .. Len(d) + 1
      BY <1>5, <2>4, SkipWsTwice
    <3>2. k + 1 .. e # {}
      BY <1>5 DEF MemberUpTo
    <3> QED
      BY <3>1, <3>2
  <2> QED
    BY <1>5, <2>2, <2>3, <2>4, <2>5, AfterMemberReads
<1>6. Begins(d, o, T)
  <2> SUFFICES ASSUME NEW k \in Places(d),
                      \/ QuoteBehind(d, o, k)
                      \/ \E h \in T : \E e \in h + 1 .. k :
                            d[e] = Comma /\ QuoteBehind(d, e, k) /\ MemberUpTo(d, h, e)
               PROVE  \E m \in 0 .. N : At(m, k)
    BY DEF Begins
  <2>1. k \in 1 .. Len(d) /\ Places(d) \subseteq 1 .. Len(d)
    BY DEF Places
  <2>2. ASSUME NEW b \in 1 .. Len(d), QuoteBehind(d, b, k)
        PROVE  SkipWs(d, b + 1) = k
    <3>1. b + 1 \in 1 .. Len(d) + 1 /\ k \in b + 1 .. Len(d) + 1 /\ BlankIn(d, b + 1, k)
      BY <2>1, <2>2 DEF QuoteBehind
    <3>2. Ch(d, k) \notin Spaces
      BY <2>1, <2>2 DEF QuoteBehind, Ch, Quote, Spaces
    <3> QED
      BY <3>1, <3>2, BlankScan
  <2>3. CASE QuoteBehind(d, o, k)
    <3>1. first = k
      BY <2>2, <2>3 DEF first
    <3>2. At(0, k)
      BY <1>1, <1>2, <1>3, <3>1 DEF MemberTurns
    <3> QED
      BY <1>1, <3>2
  <2>4. CASE \E h \in T : \E e \in h + 1 .. k :
               d[e] = Comma /\ QuoteBehind(d, e, k) /\ MemberUpTo(d, h, e)
    <3>1. PICK h \in T : \E e \in h + 1 .. k :
                 d[e] = Comma /\ QuoteBehind(d, e, k) /\ MemberUpTo(d, h, e)
      BY <2>4
    <3>2. PICK e \in h + 1 .. k : d[e] = Comma /\ QuoteBehind(d, e, k) /\ MemberUpTo(d, h, e)
      BY <3>1
    <3>3. PICK m \in 0 .. N : At(m, h)
      BY <3>1
    <3>4. h \in 1 .. Len(d)
      BY <2>1, <3>1
    <3>5. e \in 1 .. Len(d)
      BY <2>1, <3>4
    <3> HIDE DEF At
    <3>6. m + 1 \in 0 .. N /\ read[m + 1].err = "reading" /\ read[m + 1].at = e + 1
      BY <1>5, <3>2, <3>3, <3>5
    <3>7. At(m + 1, k)
      BY <2>2, <3>2, <3>5, <3>6 DEF At
    <3> QED
      BY <3>6, <3>7
  <2> QED
    BY <2>3, <2>4
<1>7. PICK m \in 0 .. N : At(m, i)
  <2>1. T \in SUBSET Places(d)
    OBVIOUS
  <2>2. i \in T
    <3> HIDE DEF T
    <3> QED
      BY <1>6, <2>1 DEF MemberBegins
  <2> QED
    BY <2>2
<1> HIDE DEF At
<1>8. m + 1 \in 0 .. N /\ read[m + 1].err = "ok" /\ read[m + 1].at = c + 1
  <2>1. d[c] = Closing
    BY DEF Ch
  <2> QED
    BY <1>5, <1>7, <2>1
<1>9. read[N] = read[m + 1]
  BY <1>4, <1>8
<1> QED
  BY <1>8, <1>9

LEMMA RestIsBlank ==
  ASSUME NEW d \in Seq(STRING), NEW i \in 1 .. Len(d) + 1
  PROVE  SkipWs(d, i) > Len(d) <=> BlankIn(d, i, Len(d) + 1)
<1>1. SkipWs(d, i) \in i .. Len(d) + 1 /\ BlankIn(d, i, SkipWs(d, i))
  BY SkipWsTwice, SkippedIsBlank
<1>2. ASSUME SkipWs(d, i) > Len(d)
      PROVE  BlankIn(d, i, Len(d) + 1)
  <2>1. SkipWs(d, i) = Len(d) + 1
    BY <1>1, <1>2
  <2> QED
    BY <1>1, <2>1
<1>3. ASSUME BlankIn(d, i, Len(d) + 1)
      PROVE  SkipWs(d, i) > Len(d)
  <2>1. Ch(d, Len(d) + 1) \notin Spaces
    BY DEF Ch, Spaces
  <2>2. Len(d) + 1 \in i .. Len(d) + 1
    OBVIOUS
  <2>3. SkipWs(d, i) = Len(d) + 1
    BY <1>3, <2>1, <2>2, BlankScan
  <2> QED
    BY <2>3
<1> QED
  BY <1>2, <1>3

\* The object whose brace is at o, from behind that on.
ObjectUpTo(d, o, c) ==
  /\ c \in o + 1 .. Len(d) /\ d[c] = Closing
  /\ BlankIn(d, o + 1, c) \/ \E i \in Places(d) : MemberUpTo(d, i, c) /\ MemberBegins(d, o, i)

LEMMA ObjectReads ==
  ASSUME NEW d \in Seq(STRING), HasNoNul(d), NEW o \in 1 .. Len(d), Ch(d, o) = Opening
  PROVE  LET k == SkipWs(d, o + 1)
             r == IF Ch(d, k) = Closing THEN Ok(k + 1, <<>>) ELSE MemberLoop(d, k)[Len(d) + 1]
         IN  /\ r.err = "ok" => ObjectUpTo(d, o, r.at - 1)
             /\ \A c \in 1 .. Len(d) : ObjectUpTo(d, o, c) => r.err = "ok" /\ r.at = c + 1
<1> DEFINE k == SkipWs(d, o + 1)
           read == MemberLoop(d, k)
           r == IF Ch(d, k) = Closing THEN Ok(k + 1, <<>>) ELSE read[Len(d) + 1]
<1>1. o + 1 \in 1 .. Len(d) + 1
  OBVIOUS
<1>2. k \in o + 1 .. Len(d) + 1 /\ k \in 1 .. Len(d) + 1 /\ BlankIn(d, o + 1, k)
  BY <1>1, SkipWsTwice, SkippedIsBlank
<1>3. MemberTurns(d, SkipWs(d, o + 1), read)
  BY <1>2, MemberLoopTurns
<1>4. /\ read[Len(d) + 1].err = "ok" =>
           /\ read[Len(d) + 1].at - 1 \in o + 1 .. Len(d)
           /\ d[read[Len(d) + 1].at - 1] = Closing
           /\ \E i \in Places(d) :
                MemberUpTo(d, i, read[Len(d) + 1].at - 1) /\ MemberBegins(d, o, i)
  <2>1. Len(d) + 1 \in 0 .. Len(d) + 1
    OBVIOUS
  <2> HIDE DEF k, read
  <2> QED
    BY <1>3, <2>1, MembersSound
<1> HIDE DEF read
<1>5. CASE Ch(d, k) = Closing
  <2>1. r.err = "ok" /\ r.at = k + 1
    BY <1>5 DEF Ok
  <2>2. k \in o + 1 .. Len(d) /\ d[k] = Closing /\ (k + 1) - 1 = k
    BY <1>2, <1>5, Braces DEF Ch
  <2>3. ObjectUpTo(d, o, k)
    BY <1>2, <2>2 DEF ObjectUpTo
  <2>4. ASSUME NEW c \in 1 .. Len(d), ObjectUpTo(d, o, c)
        PROVE  c = k
    <3>1. ~\E i \in Places(d) : MemberBegins(d, o, i)
      <4>1. ASSUME NEW h \in Places(d), QuoteBehind(d, o, h)
            PROVE  FALSE
        <5>1. h \in 1 .. Len(d) /\ h > o /\ d[h] = Quote /\ BlankIn(d, o + 1, h)
          BY <4>1 DEF Places, QuoteBehind
        <5>2. h \in o + 1 .. Len(d) + 1 /\ Ch(d, h) \notin Spaces
          BY <5>1 DEF Ch, Quote, Spaces
        <5>3. k = h
          BY <1>1, <5>1, <5>2, BlankScan
        <5> HIDE DEF k
        <5> QED
          BY <2>2, <5>1, <5>3, Braces
      <4>2. Begins(d, o, {})
        BY <4>1 DEF Begins
      <4> QED
        BY <4>2 DEF MemberBegins
    <3>2. BlankIn(d, o + 1, c) /\ c \in o + 1 .. Len(d) + 1 /\ Ch(d, c) \notin Spaces
      BY <2>4, <3>1, Braces DEF ObjectUpTo, Ch
    <3> QED
      BY <1>1, <3>2, BlankScan
  <2> HIDE DEF k, r
  <2>5. /\ r.err = "ok" => ObjectUpTo(d, o, r.at - 1)
        /\ \A c \in 1 .. Len(d) : ObjectUpTo(d, o, c) => r.err = "ok" /\ r.at = c + 1
    BY <2>1, <2>2, <2>3, <2>4
  <2> QED
    BY <2>5 DEF k, r, read
<1>6. CASE Ch(d, k) # Closing
  <2>1. r = read[Len(d) + 1]
    BY <1>6
  <2>2. ASSUME NEW c \in 1 .. Len(d), ObjectUpTo(d, o, c)
        PROVE  r.err = "ok" /\ r.at = c + 1
    <3>1. ~BlankIn(d, o + 1, c)
      <4>1. Ch(d, c) = Closing /\ c \in o + 1 .. Len(d) + 1
        BY <2>2 DEF ObjectUpTo, Ch
      <4>2. BlankIn(d, o + 1, c) => k = c
        BY <1>1, <4>1, Braces, BlankScan
      <4> HIDE DEF k
      <4> QED
        BY <1>6, <4>1, <4>2
    <3>2. Ch(d, c) = Closing
      BY <2>2 DEF ObjectUpTo, Ch
    <3>3. PICK i \in Places(d) : MemberUpTo(d, i, c) /\ MemberBegins(d, o, i)
      BY <2>2, <3>1 DEF ObjectUpTo
    <3> HIDE DEF k, r
    <3> QED
      BY <1>3, <2>1, <3>2, <3>3, MembersComplete
  <2> HIDE DEF k, r
  <2>3. /\ r.err = "ok" => ObjectUpTo(d, o, r.at - 1)
        /\ \A c \in 1 .. Len(d) : ObjectUpTo(d, o, c) => r.err = "ok" /\ r.at = c + 1
    BY <1>4, <2>1, <2>2 DEF ObjectUpTo
  <2> QED
    BY <2>3 DEF k, r, read
<1> QED
  BY <1>5, <1>6

LEMMA ConfigReads ==
  ASSUME NEW d \in Seq(STRING), HasNoNul(d)
  PROVE  ParseConfig(d).err = "ok" <=> ConfigIn(d)
<1> DEFINE o == SkipWs(d, 1)
           k == SkipWs(d, o + 1)
           object == IF Ch(d, k) = Closing THEN Ok(k + 1, <<>>) ELSE MemberLoop(d, k)[Len(d) + 1]
           r == IF Ch(d, o) # Opening THEN ParseError ELSE object
           ReadUpTo(c) == ObjectUpTo(d, o, c) /\ BlankIn(d, c + 1, Len(d) + 1)
<1>1. 1 \in 1 .. Len(d) + 1 /\ o \in 1 .. Len(d) + 1 /\ BlankIn(d, 1, o)
  <2>1. 1 \in 1 .. Len(d) + 1
    OBVIOUS
  <2> QED
    BY <2>1, SkipWsTwice, SkippedIsBlank
<1>2. ParseConfig(d) = IF o > Len(d) THEN Ok(Len(d) + 1, <<>>)
                       ELSE IF r.err = "ok" /\ SkipWs(d, r.at) <= Len(d) THEN ParseError ELSE r
  BY DEF ParseConfig, Finish, Container, Parts, MemberLoop, AfterMember, Opening, Closing
<1> HIDE DEF o
<1>3. CASE o > Len(d)
  <2>1. ParseConfig(d).err = "ok"
    BY <1>2, <1>3 DEF Ok
  <2>2. BlankIn(d, 1, Len(d) + 1)
    BY <1>1, <1>3, RestIsBlank DEF o
  <2> QED
    BY <2>1, <2>2 DEF ConfigIn
<1>4. CASE ~(o > Len(d))
  <2>1. o \in 1 .. Len(d) /\ Ch(d, o) = d[o] /\ ~BlankIn(d, 1, Len(d) + 1)
    <3>1. ~BlankIn(d, 1, Len(d) + 1)
      BY <1>1, <1>4, RestIsBlank DEF o
    <3> QED
      BY <1>1, <1>4, <3>1 DEF Ch
  <2>2. ConfigIn(d) <=> d[o] = Opening /\ \E c \in 1 .. Len(d) : ReadUpTo(c)
    <3>1. ASSUME NEW b \in 1 .. Len(d), BlankIn(d, 1, b), d[b] = Opening
          PROVE  b = o
      <4>1. b \in 1 .. Len(d) + 1 /\ Ch(d, b) \notin Spaces
        BY <3>1, Braces DEF Ch
      <4> QED
        BY <1>1, <3>1, <4>1, BlankScan DEF o
    <3>2. DOMAIN d = 1 .. Len(d)
      OBVIOUS
    <3>3. \A c \in 1 .. Len(d) : o < c <=> c \in o + 1 .. Len(d)
      BY <2>1
    <3>4. ConfigIn(d) <=>
            \E b, c \in 1 .. Len(d) :
              /\ b < c /\ d[b] = Opening /\ d[c] = Closing
              /\ BlankIn(d, 1, b) /\ BlankIn(d, c + 1, Len(d) + 1)
              /\ \/ BlankIn(d, b + 1, c)
                 \/ \E i \in Places(d) : MemberUpTo(d, i, c) /\ MemberBegins(d, b, i)
      BY <2>1, <3>2 DEF ConfigIn
    <3>5. ConfigIn(d) <=>
            \E c \in 1 .. Len(d) :
              /\ o < c /\ d[o] = Opening /\ d[c] = Closing
              /\ BlankIn(d, c + 1, Len(d) + 1)
              /\ \/ BlankIn(d, o + 1, c)
                 \/ \E i \in Places(d) : MemberUpTo(d, i, c) /\ MemberBegins(d, o, i)
      BY <1>1, <2>1, <3>1, <3>4
    <3> QED
      BY <3>3, <3>5 DEF ObjectUpTo
  <2>3. CASE d[o] # Opening
    <3>1. r = ParseError
      BY <2>1, <2>3
    <3> HIDE DEF r
    <3> QED
      BY <1>2, <1>4, <2>2, <2>3, <3>1, ParseErrorIsResult
  <2>4. CASE d[o] = Opening
    <3>1. r = object
      BY <2>1, <2>4
    <3>2. /\ object.err = "ok" => ObjectUpTo(d, o, object.at - 1)
          /\ \A c \in 1 .. Len(d) : ObjectUpTo(d, o, c) => object.err = "ok" /\ object.at = c + 1
      BY <2>1, <2>4, ObjectReads
    <3> HIDE DEF object
    <3>3. /\ r.err = "ok" => ObjectUpTo(d, o, r.at - 1)
          /\ \A c \in 1 .. Len(d) : ObjectUpTo(d, o, c) => r.err = "ok" /\ r.at = c + 1
      BY <3>1, <3>2
    <3> HIDE DEF r
    <3>4. ASSUME r.err = "ok"
          PROVE  /\ r.at \in 1 .. Len(d) + 1 /\ r.at - 1 \in 1 .. Len(d)
                 /\ (r.at - 1) + 1 = r.at
      <4> DEFINE c == r.at - 1
      <4>1. c \in o + 1 .. Len(d) /\ ObjectUpTo(d, o, c)
        BY <3>3, <3>4 DEF ObjectUpTo
      <4>2. c \in 1 .. Len(d)
        <5> HIDE DEF c
        <5> QED
          BY <2>1, <4>1
      <4>3. r.at = c + 1
        <5> HIDE DEF c
        <5> QED
          BY <3>3, <4>1, <4>2
      <4> HIDE DEF c
      <4>4. r.at \in 1 .. Len(d) + 1 /\ (c + 1) - 1 = c
        BY <4>2, <4>3
      <4> QED
        BY <4>2, <4>3, <4>4 DEF c
    <3>5. ParseConfig(d).err = "ok" <=> r.err = "ok" /\ ~(SkipWs(d, r.at) <= Len(d))
      BY <1>2, <1>4, ParseErrorIsResult
    <3>6. ASSUME r.err = "ok"
          PROVE  ~(SkipWs(d, r.at) <= Len(d)) <=> BlankIn(d, r.at, Len(d) + 1)
      <4>1. SkipWs(d, r.at) \in r.at .. Len(d) + 1 /\ r.at \in 1 .. Len(d) + 1
        BY <3>4, <3>6, SkipWsTwice
      <4>2. SkipWs(d, r.at) \in Nat /\ Len(d) \in Nat
        BY <4>1
      <4> QED
        BY <4>1, <4>2, RestIsBlank
    <3>7. ASSUME ParseConfig(d).err = "ok"
          PROVE  \E c \in 1 .. Len(d) : ReadUpTo(c)
      <4>1. r.at - 1 \in 1 .. Len(d) /\ ReadUpTo(r.at - 1)
        BY <3>3, <3>4, <3>5, <3>6, <3>7
      <4> QED
        BY <4>1
    <3>8. ASSUME NEW c \in 1 .. Len(d), ReadUpTo(c)
          PROVE  ParseConfig(d).err = "ok"
      <4>1. r.err = "ok" /\ r.at = c + 1
        BY <3>3, <3>8
      <4> QED
        BY <3>5, <3>6, <3>8, <4>1
    <3> QED
      BY <2>2, <2>4, <3>7, <3>8
  <2> QED
    BY <2>3, <2>4
<1> QED
  BY <1>3, <1>4

ConfigInv ==
  mode = "config" => doc \in Documents /\ (result.err # "none" => result = ParseConfig(doc))

LEMMA ConfigInvHolds == Spec => []ConfigInv
<1>1. Init => ConfigInv
  BY DEF Init, ConfigInv, Error
<1>2. ConfigInv /\ [Next]_vars => ConfigInv'
  <2> SUFFICES ASSUME ConfigInv, [Next]_vars, mode' = "config"
               PROVE  doc' \in Documents /\ (result'.err # "none" => result' = ParseConfig(doc'))
    BY DEF ConfigInv
  <2>1. CASE ReadRequest
    BY <2>1 DEF ReadRequest
  <2>2. CASE ReadConfig
    BY <2>2 DEF ReadConfig, ConfigInv
  <2>3. CASE Respond
    BY <2>3 DEF Respond
  <2>4. CASE ReadBack
    BY <2>4 DEF ReadBack
  <2>5. CASE UNCHANGED vars
    BY <2>5 DEF vars, ConfigInv
  <2> QED
    BY <2>1, <2>2, <2>3, <2>4, <2>5 DEF Next
<1> QED
  BY <1>1, <1>2, PTL DEF Spec

\* app_config_parse_json_state accepts a file exactly when the grammar does, whatever
\* the file holds and however long it is: no comma behind the last member, no value
\* but a scalar, true or false and nothing else for a flag it knows, no key too long
\* for its buffer, and nothing but space behind the closing brace.
THEOREM ConfigsAlwaysAcceptTheGrammar == Spec => []ConfigsAcceptTheGrammar
<1>1. ConfigInv => ConfigsAcceptTheGrammar
  <2> SUFFICES ASSUME ConfigInv, mode = "config", result.err # "none"
               PROVE  result.err = "ok" <=> ConfigIn(doc)
    BY DEF ConfigsAcceptTheGrammar
  <2>1. doc \in Seq(STRING) /\ HasNoNul(doc)
    BY JsonAssumption DEF ConfigInv, HasNoNul
  <2>2. result = ParseConfig(doc)
    BY DEF ConfigInv
  <2> QED
    BY <2>1, <2>2, ConfigReads
<1> QED
  BY <1>1, ConfigInvHolds, PTL
=============================================================================
