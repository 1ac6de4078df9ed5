--------------------------- MODULE CliRenderProofs ---------------------------
(***************************************************************************)
(* What holds of a process that renders, in every environment, for every   *)
(* text and every terminal: RenderInvariant is inductive, and RenderTypeOK,*)
(* TerminalLeftAsFound, CacheHonest, DisabledIsSilent and FoundIsTheAnswer *)
(* follow from it.                                                         *)
(*                                                                         *)
(* The first part is about the query: every step of it, and of the         *)
(* terminal and the user around it, keeps QueryInvariant and               *)
(* StreamInvariant, for every size of the buffer, every time-out and       *)
(* whatever is typed.                                                      *)
(*                                                                         *)
(* After that: why a rendering ends.                                       *)
(*                                                                         *)
(* The last part is about a paragraph: what its layout has written so far  *)
(* is a part of one that is laid out as ParagraphLaidOut says, and what    *)
(* each step of WrapWord appends keeps it so.  TuiTextSound follows from   *)
(* the theorems of TextLayoutProofs.                                       *)
(***************************************************************************)
EXTENDS CliRender, TextLayoutProofs

-----------------------------------------------------------------------------
(* Sequences *)

\* A sequence cut in two.
LEMMA Cut ==
  ASSUME NEW S, NEW s \in Seq(S), NEW n \in 0 .. Len(s)
  PROVE  /\ SubSeq(s, 1, n) \in Seq(S) /\ Len(SubSeq(s, 1, n)) = n
         /\ SubSeq(s, n + 1, Len(s)) \in Seq(S)
         /\ Len(SubSeq(s, n + 1, Len(s))) = Len(s) - n
         /\ SubSeq(s, 1, n) \o SubSeq(s, n + 1, Len(s)) = s
<1>1. /\ 1 \in 1 .. Len(s) + 1 /\ n \in 1 - 1 .. Len(s) /\ Len(s) \in n .. Len(s)
      /\ Len(s) \in Nat
  OBVIOUS
<1>2. SubSeq(s, 1, n) \o SubSeq(s, n + 1, Len(s)) = SubSeq(s, 1, Len(s))
  BY <1>1, ConcatAdjacentSubSeq
<1>3. SubSeq(s, 1, Len(s)) = s
  BY SubSeqFull
<1>4. /\ SubSeq(s, 1, n) \in Seq(S) /\ Len(SubSeq(s, 1, n)) = n
  OBVIOUS
<1>5. /\ SubSeq(s, n + 1, Len(s)) \in Seq(S)
      /\ Len(SubSeq(s, n + 1, Len(s))) = Len(s) - n
  OBVIOUS
<1> QED
  BY <1>2, <1>3, <1>4, <1>5

LEMMA Associative ==
  ASSUME NEW S
  PROVE  \A a, b, c \in Seq(S) : (a \o b) \o c = a \o (b \o c)
  BY ConcatAssociative

\* What moves from the head of one sequence to the end of the one before it leaves
\* the two together as they were.
LEMMA Moved ==
  ASSUME NEW S, NEW a \in Seq(S), NEW s \in Seq(S), NEW n \in 0 .. Len(s)
  PROVE  (a \o SubSeq(s, 1, n)) \o SubSeq(s, n + 1, Len(s)) = a \o s
<1> DEFINE u == SubSeq(s, 1, n)
           v == SubSeq(s, n + 1, Len(s))
<1>1. u \in Seq(S) /\ v \in Seq(S) /\ u \o v = s
  BY Cut
<1> HIDE DEF u, v
<1>2. \A x, y \in Seq(S) : (a \o x) \o y = a \o (x \o y)
  BY Associative
<1>3. (a \o u) \o v = a \o s
  BY <1>1, <1>2
<1> QED
  BY <1>3 DEF u, v

\* The elements of a concatenation.
LEMMA Concatenated ==
  ASSUME NEW S, NEW a \in Seq(S), NEW b \in Seq(S)
  PROVE  /\ a \o b \in Seq(S) /\ Len(a \o b) = Len(a) + Len(b)
         /\ \A k \in 1 .. Len(a) : (a \o b)[k] = a[k]
         /\ \A k \in 1 .. Len(b) : (a \o b)[Len(a) + k] = b[k]
         /\ \A k \in Len(a) + 1 .. Len(a) + Len(b) :
              k - Len(a) \in 1 .. Len(b) /\ (a \o b)[k] = b[k - Len(a)]
  OBVIOUS

-----------------------------------------------------------------------------
(* Answers *)

\* The terminal says whole answers: four symbols and one of two ends.
LEMMA AnswerShape ==
  ASSUME NEW a \in Answers
  PROVE  /\ a[1] = "esc" /\ a[2] = "osc11" /\ a[3] = "rgb" /\ a[4] \in Colours
         /\ \/ Len(a) = 5 /\ a[5] = "bel"
            \/ Len(a) = 6 /\ a[5] = "esc" /\ a[6] = "st"
<1>1. PICK c \in Colours, e \in Terminators : a = Answer(c, e)
  BY DEF Answers
<1>2. CASE e = <<"bel">>
  BY <1>1, <1>2 DEF Answer
<1>3. CASE e = <<"esc", "st">>
  BY <1>1, <1>3 DEF Answer
<1> QED
  BY <1>2, <1>3 DEF Terminators

\* What a terminal sends is a sequence of at most six symbols.
LEMMA Sent ==
  ASSUME NEW t \in Answers \cup Garbled \cup {<<>>}
  PROVE  /\ t \in Seq(Typed \cup {t[i] : i \in DOMAIN t})
         /\ Len(t) \in 0 .. 6
<1> DEFINE S == Typed \cup {t[i] : i \in DOMAIN t}
<1>1. CASE t \in Answers
  <2>1. PICK c \in Colours, e \in Terminators : t = Answer(c, e)
    BY <1>1 DEF Answers
  <2>2. CASE e = <<"bel">>
    BY <2>1, <2>2 DEF Answer
  <2>3. CASE e = <<"esc", "st">>
    BY <2>1, <2>3 DEF Answer
  <2> QED
    BY <2>2, <2>3 DEF Terminators
<1>2. CASE t \in Garbled
  <2>1. t = <<"esc", "osc11", "bel">>
    BY <1>2 DEF Garbled
  <2>2. /\ Len(t) = 3 /\ DOMAIN t = 1 .. 3
    BY <2>1
  <2>3. \A k \in 1 .. 3 : t[k] \in S
    BY <2>2
  <2> QED
    BY <2>1, <2>2, <2>3
<1>3. CASE t = <<>>
  BY <1>3
<1> QED
  BY <1>1, <1>2, <1>3

LEMMA KnownStream ==
  ASSUME terminal \in Answers \cup Garbled \cup {<<>>}
  PROVE  /\ terminal \in Seq(Known) /\ Typed \subseteq Known
         /\ Len(terminal) \in 0 .. 6
  BY Sent DEF Known

\* A colour that comes down the line is the terminal's answer, and the mark before
\* it is the terminal's only one.
LEMMA OnlyOneAnswer ==
  ASSUME terminal \in Answers \cup Garbled \cup {<<>>}
  PROVE  /\ \A c \in Colours \cap Known : terminal \in Answers /\ c = terminal[4]
         /\ \A k \in 1 .. Len(terminal) : terminal[k] = "osc11" => k = 2
         /\ "osc11" \notin Typed
<1>1. CASE terminal \in Answers
  <2>1. /\ terminal[1] = "esc" /\ terminal[2] = "osc11" /\ terminal[3] = "rgb"
        /\ terminal[4] \in Colours
        /\ \/ Len(terminal) = 5 /\ terminal[5] = "bel"
           \/ Len(terminal) = 6 /\ terminal[5] = "esc" /\ terminal[6] = "st"
    BY <1>1, AnswerShape
  <2>2. \A k \in 1 .. Len(terminal) : k \in {1, 2, 3, 4, 5, 6}
    <3>1. CASE Len(terminal) = 5
      BY <3>1
    <3>2. CASE Len(terminal) = 6
      BY <3>2
    <3> QED
      BY <2>1, <3>1, <3>2
  <2>3. DOMAIN terminal = 1 .. Len(terminal)
    BY KnownStream
  <2> QED
    BY <1>1, <2>1, <2>2, <2>3, QueryAssumption DEF Known
<1>2. CASE terminal \in Garbled
  <2>1. terminal = <<"esc", "osc11", "bel">>
    BY <1>2 DEF Garbled
  <2>2. /\ Len(terminal) = 3 /\ DOMAIN terminal = {1, 2, 3}
        /\ terminal[1] = "esc" /\ terminal[2] = "osc11" /\ terminal[3] = "bel"
    BY <2>1
  <2> QED
    BY <2>2, QueryAssumption DEF Known
<1>3. CASE terminal = <<>>
  BY <1>3, QueryAssumption DEF Known
<1> QED
  BY <1>1, <1>2, <1>3

\* An answer seen in the buffer is the terminal's; and where that lies in the stream,
\* nothing of it is left outside the buffer.
LEMMA WholeAnswerSeen ==
  ASSUME QueryInvariant, NEW i \in 1 .. Len(buf), NEW a \in Answers, At(buf, i, a)
  PROVE  /\ terminal \in Answers /\ buf[i + 3] = terminal[4]
         /\ \A n \in Nat : AnswerIn(Stream, n) => n + Len(terminal) <= Len(buf)
<1>1. /\ buf \in Seq(Known) /\ tty \in Seq(Known) /\ line \in Seq(Known)
      /\ terminal \in Answers \cup Garbled \cup {<<>>}
  BY DEF QueryInvariant
<1>2. /\ a[1] = "esc" /\ a[2] = "osc11" /\ a[3] = "rgb" /\ a[4] \in Colours
      /\ \/ Len(a) = 5 /\ a[5] = "bel"
         \/ Len(a) = 6 /\ a[5] = "esc" /\ a[6] = "st"
  BY AnswerShape
<1>3. /\ i + Len(a) - 1 <= Len(buf)
      /\ \A k \in 1 .. Len(a) : buf[i + k - 1] = a[k]
  <2>1. i + Len(a) - 1 <= Len(buf) /\ SubSeq(buf, i, i + Len(a) - 1) = a
    BY DEF At
  <2>2. \A k \in 1 .. Len(a) : SubSeq(buf, i, i + Len(a) - 1)[k] = buf[i + k - 1]
    BY <1>1, <1>2, <2>1
  <2> QED
    BY <2>1, <2>2
<1>4. /\ buf[i + 1] = "osc11" /\ buf[i + 3] \in Colours
      /\ buf[i + 4] = a[5] /\ i + 4 <= Len(buf) /\ (Len(a) = 6 => i + 5 <= Len(buf))
  <2>1. /\ 2 \in 1 .. Len(a) /\ 4 \in 1 .. Len(a) /\ 5 \in 1 .. Len(a)
        /\ i + 2 - 1 = i + 1 /\ i + 4 - 1 = i + 3 /\ i + 5 - 1 = i + 4
    BY <1>1, <1>2
  <2>2. /\ buf[i + 2 - 1] = a[2] /\ buf[i + 4 - 1] = a[4] /\ buf[i + 5 - 1] = a[5]
    BY <1>3, <2>1
  <2>3. i + 4 <= Len(buf) /\ (Len(a) = 6 => i + 5 <= Len(buf))
    BY <1>1, <1>2, <1>3
  <2> QED
    BY <1>2, <2>1, <2>2, <2>3
<1>5. /\ terminal \in Answers /\ buf[i + 3] = terminal[4]
  <2>1. buf[i + 3] \in Known
    BY <1>1, <1>4
  <2> QED
    BY <1>1, <1>4, <2>1, OnlyOneAnswer
<1>6. ASSUME NEW n \in Nat, AnswerIn(Stream, n)
      PROVE  n + Len(terminal) <= Len(buf)
  <2>1. /\ Stream \in Seq(Known) /\ Len(buf) <= Len(Stream)
        /\ \A k \in 1 .. Len(buf) : Stream[k] = buf[k]
    <3>1. /\ buf \o tty \in Seq(Known) /\ Len(buf \o tty) >= Len(buf)
          /\ \A k \in 1 .. Len(buf) : (buf \o tty)[k] = buf[k]
      BY <1>1, Concatenated
    <3>2. \A x \in Seq(Known) :
            /\ x \o line \in Seq(Known) /\ Len(x \o line) >= Len(x)
            /\ \A k \in 1 .. Len(x) : (x \o line)[k] = x[k]
      BY <1>1, Concatenated
    <3> QED
      BY <1>1, <3>1, <3>2 DEF Stream
  <2>2. i + 1 \in n + 1 .. n + Len(terminal)
    <3>1. i + 1 \in 1 .. Len(buf) /\ i + 1 \in 1 .. Len(Stream)
      BY <1>1, <1>4, <2>1
    <3>2. Stream[i + 1] = "osc11"
      BY <1>4, <2>1, <3>1
    <3>3. "osc11" \notin Typed
      BY <1>1, OnlyOneAnswer
    <3> QED
      BY <1>6, <3>1, <3>2, <3>3 DEF AnswerIn
  <2>3. /\ i + 1 - n \in 1 .. Len(terminal) /\ terminal[i + 1 - n] = "osc11"
    <3>1. i + 1 - n \in 1 .. Len(terminal) /\ n + (i + 1 - n) = i + 1
      BY <1>1, <2>2, KnownStream
    <3>2. Stream[n + (i + 1 - n)] = terminal[i + 1 - n]
      BY <1>6, <3>1 DEF AnswerIn
    <3>3. Stream[i + 1] = "osc11"
      BY <1>1, <1>4, <2>1
    <3> QED
      BY <3>1, <3>2, <3>3
  <2>4. i = n + 1
    BY <1>1, <2>3, OnlyOneAnswer
  <2>5. /\ \/ Len(terminal) = 5 /\ terminal[5] = "bel"
           \/ Len(terminal) = 6 /\ terminal[5] = "esc"
    BY <1>5, AnswerShape
  <2>6. buf[i + 4] = terminal[5]
    <3>1. 5 \in 1 .. Len(terminal) /\ n + 5 = i + 4 /\ i + 4 \in 1 .. Len(buf)
      BY <1>1, <1>4, <2>4, <2>5
    <3>2. Stream[n + 5] = terminal[5]
      BY <1>6, <3>1 DEF AnswerIn
    <3> QED
      BY <2>1, <3>1, <3>2
  <2>7. \/ Len(terminal) = 5
        \/ Len(terminal) = 6 /\ i + 5 <= Len(buf)
    BY <1>2, <1>4, <2>5, <2>6
  <2>8. CASE Len(terminal) = 5
    BY <1>1, <1>4, <2>4, <2>8
  <2>9. CASE Len(terminal) = 6
    BY <1>1, <2>4, <2>7, <2>9
  <2> QED
    BY <2>7, <2>8, <2>9
<1> QED
  BY <1>5, <1>6

\* What the parser believes.
LEMMA ParseBelieves ==
  ASSUME QueryInvariant
  PROVE  /\ Parse(buf) \in Colours \cup {"none"}
         /\ Parse(buf) # "none" =>
              /\ terminal \in Answers /\ Parse(buf) = terminal[4]
              /\ \A n \in Nat : AnswerIn(Stream, n) => n + Len(terminal) <= Len(buf)
<1>1. CASE Begins(buf) = {}
  BY <1>1, QueryAssumption DEF Parse
<1>2. CASE Begins(buf) # {}
  <2> DEFINE i == CHOOSE i \in Begins(buf) : \A j \in Begins(buf) : i <= j
  <2>1. i \in Begins(buf)
    <3>1. Begins(buf) \in SUBSET Nat
      BY DEF Begins
    <3> QED
      BY <1>2, <3>1, LeastElement
  <2>2. PICK a \in Answers : At(buf, i, a)
    BY <2>1 DEF Begins
  <2>3. i \in 1 .. Len(buf)
    BY <2>1 DEF Begins
  <2>4. Parse(buf) = buf[i + 3]
    BY <1>2 DEF Parse
  <2> HIDE DEF i
  <2>5. /\ terminal \in Answers /\ buf[i + 3] = terminal[4]
        /\ \A n \in Nat : AnswerIn(Stream, n) => n + Len(terminal) <= Len(buf)
    BY <2>2, <2>3, WholeAnswerSeen
  <2>6. terminal[4] \in Colours
    BY <2>5, AnswerShape
  <2> QED
    BY <2>4, <2>5, <2>6
<1> QED
  BY <1>1, <1>2

-----------------------------------------------------------------------------
(* Steps that leave the stream alone *)

\* StreamInvariant is about the stream and not about who holds it.
LEMMA StreamKept ==
  ASSUME StreamInvariant, Stream' = Stream, UNCHANGED <<typed, stale, terminal>>,
         qpc' \in {"raw", "write"} => qpc \in {"raw", "write"},
         qpc' \in {"poll", "parse"} => qpc \in {"poll", "parse"}
  PROVE  StreamInvariant'
  BY DEF StreamInvariant, AnswerIn

LEMMA StartQueryKeeps ==
  ASSUME QueryInvariant, StartQuery
  PROVE  QueryInvariant' /\ StreamInvariant'
<1>1. /\ buf = <<>> /\ line = <<>> /\ typed = 0
  BY DEF QueryInvariant, StartQuery
<1>2. /\ terminal' \in Seq(Typed \cup {terminal'[i] : i \in DOMAIN terminal'})
      /\ terminal' \in Answers \cup Garbled \cup {<<>>}
  BY Sent DEF StartQuery
<1>3. tty' \in Seq(Known')
  BY <1>2 DEF StartQuery, Known
<1>4. buf' \in Seq(Known') /\ line' \in Seq(Known')
  BY <1>1 DEF StartQuery
<1>5. QueryInvariant'
  <2>1. stale' \in BOOLEAN
    BY DEF StartQuery
  <2>2. /\ qpc' = "raw" /\ mode' = "saved" /\ found' = "none" /\ buf' = <<>>
        /\ remaining' \in 0 .. Timeout /\ typed' = 0
    BY <1>1 DEF QueryInvariant, StartQuery
  <2>3. Len(buf') < Limit
    BY <2>2, QueryAssumption
  <2> QED
    BY <1>2, <1>3, <1>4, <2>1, <2>2, <2>3 DEF QueryInvariant
<1>6. StreamInvariant'
  <2>1. CASE stale'
    BY <2>1 DEF StreamInvariant
  <2>2. CASE ~stale'
    <3>1. qpc' = "raw" /\ typed' = 0 /\ Stream' = <<>>
      BY <1>1, <2>2 DEF StartQuery, Stream
    <3> QED
      BY <3>1 DEF StreamInvariant
  <2> QED
    BY <2>1, <2>2
<1> QED
  BY <1>5, <1>6

LEMMA MakeRawKeeps ==
  ASSUME QueryInvariant, StreamInvariant, MakeRaw
  PROVE  QueryInvariant' /\ StreamInvariant'
<1>1. Known' = Known
  BY DEF Known, MakeRaw, lineVars
<1>2. QueryInvariant'
  BY <1>1 DEF QueryInvariant, MakeRaw, lineVars
<1>3. Stream' = Stream
  BY DEF Stream, MakeRaw, lineVars
<1>4. StreamInvariant'
  BY <1>3, StreamKept DEF MakeRaw, lineVars
<1> QED
  BY <1>2, <1>4

LEMMA PollFailsKeeps ==
  ASSUME QueryInvariant, StreamInvariant, PollFails
  PROVE  QueryInvariant' /\ StreamInvariant'
<1>1. Known' = Known /\ Stream' = Stream
  BY DEF Known, Stream, PollFails, lineVars
<1>2. remaining' \in 0 .. Timeout
  BY QueryAssumption DEF QueryInvariant, PollFails, Charged, Lesser
<1>3. QueryInvariant'
  BY <1>1, <1>2 DEF QueryInvariant, PollFails, lineVars
<1>4. StreamInvariant'
  BY <1>1, StreamKept DEF PollFails, lineVars
<1> QED
  BY <1>3, <1>4

LEMMA GiveUpKeeps ==
  ASSUME QueryInvariant, StreamInvariant, GiveUp
  PROVE  QueryInvariant' /\ StreamInvariant'
<1>1. Known' = Known /\ Stream' = Stream
  BY DEF Known, Stream, GiveUp, lineVars
<1>2. QueryInvariant'
  BY <1>1 DEF QueryInvariant, GiveUp, lineVars
<1>3. StreamInvariant'
  BY <1>1, StreamKept DEF GiveUp, lineVars
<1> QED
  BY <1>2, <1>3

LEMMA EndQueryKeeps ==
  ASSUME QueryInvariant, EndQuery
  PROVE  QueryInvariant' /\ StreamInvariant'
<1>1. Known' = Known
  BY DEF Known, EndQuery
<1>2. QueryInvariant'
  BY <1>1, QueryAssumption DEF QueryInvariant, EndQuery
<1>3. StreamInvariant'
  BY DEF StreamInvariant, EndQuery
<1> QED
  BY <1>2, <1>3

-----------------------------------------------------------------------------
(* Steps that move it *)

\* What is read goes from the queue to the end of the buffer, and there is room.
LEMMA PollReadsKeeps ==
  ASSUME QueryInvariant, StreamInvariant, PollReads
  PROVE  QueryInvariant' /\ StreamInvariant'
<1> DEFINE n == Lesser(Len(tty), Limit - Len(buf) - 1)
<1>1. /\ buf \in Seq(Known) /\ tty \in Seq(Known) /\ line \in Seq(Known)
      /\ Len(buf) < Limit /\ remaining \in 0 .. Timeout
  BY DEF QueryInvariant
<1>2. n \in 0 .. Len(tty) /\ Len(buf) + n < Limit
  BY <1>1, QueryAssumption DEF Lesser
<1> HIDE DEF n
<1>3. /\ Readable = SubSeq(tty, 1, n) /\ Readable \in Seq(Known) /\ Len(Readable) = n
  BY <1>1, <1>2, Cut DEF Readable, n
<1>4. tty' = SubSeq(tty, n + 1, Len(tty)) /\ tty' \in Seq(Known)
  BY <1>1, <1>2, <1>3, Cut DEF PollReads
<1>5. /\ buf' = buf \o Readable /\ buf' \in Seq(Known) /\ Len(buf') < Limit
  BY <1>1, <1>2, <1>3, Concatenated DEF PollReads
<1>6. buf' \o tty' = buf \o tty
  BY <1>1, <1>2, <1>3, <1>4, <1>5, Moved
<1>7. Known' = Known /\ Stream' = Stream
  BY <1>6 DEF Known, Stream, PollReads
<1>8. remaining' \in 0 .. Timeout
  BY <1>1, QueryAssumption DEF PollReads, Charged, Lesser
<1>9. QueryInvariant'
  BY <1>1, <1>4, <1>5, <1>7, <1>8 DEF QueryInvariant, PollReads
<1>10. StreamInvariant'
  BY <1>7, StreamKept DEF PollReads
<1> QED
  BY <1>9, <1>10

LEMMA ArriveKeeps ==
  ASSUME QueryInvariant, StreamInvariant, Arrive
  PROVE  QueryInvariant' /\ StreamInvariant'
<1>1. /\ buf \in Seq(Known) /\ tty \in Seq(Known) /\ line \in Seq(Known)
  BY DEF QueryInvariant
<1>2. PICK n \in 1 .. Len(line) :
        /\ tty' = tty \o SubSeq(line, 1, n)
        /\ line' = SubSeq(line, n + 1, Len(line))
        /\ UNCHANGED <<queryVars, typed, stale, terminal>>
  BY DEF Arrive
<1>3. /\ SubSeq(line, 1, n) \in Seq(Known) /\ line' \in Seq(Known)
      /\ Len(SubSeq(line, 1, n)) = n /\ Len(line') = Len(line) - n
  BY <1>1, <1>2, Cut
<1>4. tty' \in Seq(Known) /\ Len(tty') = Len(tty) + n
  BY <1>1, <1>2, <1>3, Concatenated
<1>5. Known' = Known
  BY <1>2 DEF Known
<1>6. Stream' = Stream
  <2>1. tty' \o line' = tty \o line
    <3>1. n \in 0 .. Len(line)
      BY <1>1
    <3> QED
      BY <1>1, <1>2, <3>1, Moved
  <2>2. \A x, y, z \in Seq(Known) : (x \o y) \o z = x \o (y \o z)
    BY Associative
  <2>3. /\ (buf \o tty') \o line' = buf \o (tty' \o line')
        /\ (buf \o tty) \o line = buf \o (tty \o line)
    <3>1. (buf \o tty') \o line' = buf \o (tty' \o line')
      <4>1. buf \in Seq(Known) /\ tty' \in Seq(Known) /\ line' \in Seq(Known)
        BY <1>1, <1>3, <1>4
      <4> QED
        BY <2>2, <4>1
    <3>2. (buf \o tty) \o line = buf \o (tty \o line)
      BY <1>1, <2>2
    <3> QED
      BY <3>1, <3>2
  <2> QED
    BY <1>2, <2>1, <2>3 DEF Stream, queryVars
<1>7. Len(tty') + Len(line') = Len(tty) + Len(line)
  BY <1>1, <1>3, <1>4
<1>8. QueryInvariant'
  <2>1. qpc # "idle"
    BY <1>1, <1>2 DEF QueryInvariant
  <2>2. /\ tty' \in Seq(Known') /\ line' \in Seq(Known') /\ buf' \in Seq(Known')
    BY <1>1, <1>2, <1>3, <1>4, <1>5 DEF queryVars
  <2> QED
    BY <1>2, <1>7, <2>1, <2>2 DEF QueryInvariant, queryVars
<1>9. StreamInvariant'
  BY <1>2, <1>6, StreamKept DEF queryVars
<1> QED
  BY <1>8, <1>9

\* The query is written, and the answer follows what was typed before it.
LEMMA WriteQueryKeeps ==
  ASSUME QueryInvariant, StreamInvariant, WriteQuery
  PROVE  QueryInvariant' /\ StreamInvariant'
<1>1. /\ buf = <<>> /\ tty \in Seq(Known) /\ line \in Seq(Known)
      /\ terminal \in Answers \cup Garbled \cup {<<>>} /\ typed \in Nat
      /\ qpc = "write" /\ mode = "raw" /\ found = "none"
  BY DEF QueryInvariant, WriteQuery
<1>2. /\ terminal \in Seq(Known) /\ Typed \subseteq Known /\ Len(terminal) \in 0 .. 6
  BY <1>1, KnownStream
<1>3. Known' = Known
  BY DEF Known, WriteQuery
<1>4. CASE qpc' = "done"
  <2>1. QueryInvariant'
    BY <1>1, <1>3, <1>4 DEF QueryInvariant, WriteQuery, Restored
  <2>2. StreamInvariant'
    BY <1>4 DEF StreamInvariant
  <2> QED
    BY <2>1, <2>2
<1>5. CASE /\ qpc' = "poll" /\ buf' = <<>> /\ remaining' = Timeout
           /\ line' = line \o terminal
           /\ UNCHANGED mode
  <2>1. line' \in Seq(Known)
    BY <1>1, <1>2, <1>5, Concatenated
  <2>2. QueryInvariant'
    <3>1. Len(buf') < Limit /\ remaining' \in 0 .. Timeout /\ buf' \in Seq(Known)
      BY <1>5, QueryAssumption
    <3> QED
      BY <1>1, <1>3, <1>5, <2>1, <3>1 DEF QueryInvariant, WriteQuery
  <2>3. Stream \in Seq(Known) /\ Stream' = Stream \o terminal
    <3>1. buf \o tty \in Seq(Known)
      BY <1>1, Concatenated
    <3>2. \A x, y, z \in Seq(Known) : (x \o y) \o z = x \o (y \o z)
      BY Associative
    <3>3. (buf \o tty) \o (line \o terminal) = ((buf \o tty) \o line) \o terminal
      BY <1>1, <1>2, <3>1, <3>2
    <3>4. Stream' = (buf \o tty) \o (line \o terminal)
      BY <1>1, <1>5 DEF Stream, WriteQuery
    <3>5. (buf \o tty) \o line \in Seq(Known)
      BY <1>1, <3>1, Concatenated
    <3> QED
      BY <3>3, <3>4, <3>5 DEF Stream
  <2>4. ASSUME ~stale
        PROVE  /\ Len(Stream') = typed + Len(terminal)
               /\ AnswerIn(Stream', typed)
    <3>1. Len(Stream) = typed /\ \A k \in 1 .. Len(Stream) : Stream[k] \in Typed
      BY <1>1, <2>4 DEF StreamInvariant
    <3>2. /\ Len(Stream') = typed + Len(terminal)
          /\ \A k \in 1 .. typed : Stream'[k] = Stream[k]
          /\ \A k \in 1 .. Len(terminal) : Stream'[typed + k] = terminal[k]
      <4>1. /\ Len(Stream \o terminal) = Len(Stream) + Len(terminal)
            /\ \A k \in 1 .. Len(Stream) : (Stream \o terminal)[k] = Stream[k]
            /\ \A k \in 1 .. Len(terminal) :
                 (Stream \o terminal)[Len(Stream) + k] = terminal[k]
        BY <1>2, <2>3, Concatenated
      <4> QED
        BY <2>3, <3>1, <4>1
    <3>3. \A k \in 1 .. Len(Stream') :
            k \notin typed + 1 .. typed + Len(terminal) => Stream'[k] \in Typed
      BY <1>1, <1>2, <3>1, <3>2
    <3> QED
      BY <1>1, <1>2, <3>2, <3>3 DEF AnswerIn
  <2>5. /\ stale' = stale /\ typed' = typed /\ terminal' = terminal
    BY DEF WriteQuery
  <2>6. ASSUME ~stale
        PROVE  /\ Len(Stream') = typed' + Len(terminal')
               /\ \E n \in 0 .. typed' : AnswerIn(Stream, n)'
    <3>1. AnswerIn(Stream, typed)'
      BY <2>4, <2>5, <2>6 DEF AnswerIn
    <3>2. typed' \in 0 .. typed' /\ typed' = typed
      BY <1>1, <2>5
    <3> QED
      BY <2>4, <2>5, <2>6, <3>1, <3>2
  <2> QED
    BY <1>5, <2>2, <2>5, <2>6 DEF StreamInvariant
<1> QED
  BY <1>4, <1>5 DEF WriteQuery

\* A key is typed, and follows everything else.
LEMMA TypeKeeps ==
  ASSUME QueryInvariant, StreamInvariant, Type, qpc # "idle"
  PROVE  QueryInvariant' /\ StreamInvariant'
<1>1. /\ buf \in Seq(Known) /\ tty \in Seq(Known) /\ line \in Seq(Known)
      /\ terminal \in Answers \cup Garbled \cup {<<>>} /\ typed \in Nat
  BY DEF QueryInvariant
<1>2. Typed \subseteq Known /\ Len(terminal) \in 0 .. 6
  BY <1>1, KnownStream
<1>3. PICK k \in Typed : line' = Append(line, k)
  BY DEF Type
<1>4. /\ typed' = typed + 1
      /\ UNCHANGED <<qpc, mode, buf, remaining, found, tty, stale, terminal>>
  BY DEF Type, queryVars
<1>5. Known' = Known
  BY <1>4 DEF Known
<1>6. line' \in Seq(Known) /\ Len(line') = Len(line) + 1
  BY <1>1, <1>2, <1>3
<1>7. QueryInvariant'
  <2>1. Len(tty) + Len(line) <= typed => Len(tty') + Len(line') <= typed'
    BY <1>1, <1>4, <1>6
  <2> QED
    BY <1>1, <1>4, <1>5, <1>6, <2>1 DEF QueryInvariant
<1>8. /\ Stream \in Seq(Known) /\ Len(Stream') = Len(Stream) + 1
      /\ \A i \in 1 .. Len(Stream) : Stream'[i] = Stream[i]
      /\ Stream'[Len(Stream) + 1] = k
  <2>1. /\ buf \o tty \in Seq(Known) /\ Len(buf \o tty) = Len(buf) + Len(tty)
        /\ Len(buf \o tty) \in Nat
    BY <1>1, Concatenated
  <2> DEFINE x == buf \o tty
  <2>2. Stream = x \o line /\ Stream' = x \o line'
    BY <1>4 DEF Stream
  <2>3. x \in Seq(Known)
    BY <2>1
  <2> HIDE DEF x
  <2>4. /\ x \o line \in Seq(Known) /\ Len(x \o line) = Len(x) + Len(line)
        /\ \A i \in 1 .. Len(x) + Len(line) : (x \o line)[i] =
              IF i <= Len(x) THEN x[i] ELSE line[i - Len(x)]
    BY <1>1, <2>3, ConcatProperties
  <2>5. /\ Len(x \o line') = Len(x) + Len(line')
        /\ \A i \in 1 .. Len(x) + Len(line') : (x \o line')[i] =
              IF i <= Len(x) THEN x[i] ELSE line'[i - Len(x)]
    BY <1>6, <2>3, ConcatProperties
  <2>6. /\ \A i \in 1 .. Len(line) : line'[i] = line[i]
        /\ line'[Len(line) + 1] = k
    BY <1>1, <1>2, <1>3
  <2>7. Len(x) \in Nat /\ Len(line) \in Nat
    BY <1>1, <2>3
  <2>8. ASSUME NEW i \in 1 .. Len(x) + Len(line)
        PROVE  (x \o line')[i] = (x \o line)[i]
    <3>1. CASE i <= Len(x)
      BY <1>6, <2>4, <2>5, <2>7, <3>1
    <3>2. CASE ~(i <= Len(x))
      <4>1. i - Len(x) \in 1 .. Len(line) /\ i \in 1 .. Len(x) + Len(line')
        BY <1>6, <2>7, <3>2
      <4> QED
        BY <2>4, <2>5, <2>6, <2>7, <3>2, <4>1
    <3> QED
      BY <3>1, <3>2
  <2>9. (x \o line')[Len(x) + Len(line) + 1] = k
    <3>1. /\ Len(x) + Len(line) + 1 \in 1 .. Len(x) + Len(line')
          /\ ~(Len(x) + Len(line) + 1 <= Len(x))
          /\ Len(x) + Len(line) + 1 - Len(x) = Len(line) + 1
      BY <1>6, <2>7
    <3> QED
      BY <2>5, <2>6, <3>1
  <2> QED
    BY <1>6, <2>2, <2>4, <2>5, <2>7, <2>8, <2>9
<1>9. ASSUME ~stale, qpc \in {"raw", "write"}
      PROVE  /\ Len(Stream') = typed'
             /\ \A i \in 1 .. Len(Stream') : Stream'[i] \in Typed
  <2>1. Len(Stream) = typed /\ \A i \in 1 .. Len(Stream) : Stream[i] \in Typed
    BY <1>9 DEF StreamInvariant
  <2> QED
    BY <1>1, <1>4, <1>8, <2>1
<1>10. ASSUME ~stale, qpc \in {"poll", "parse"}
       PROVE  /\ Len(Stream') = typed' + Len(terminal')
              /\ \E n \in 0 .. typed' : AnswerIn(Stream, n)'
  <2>1. PICK n \in 0 .. typed : AnswerIn(Stream, n)
    BY <1>10 DEF StreamInvariant
  <2>2. Len(Stream) = typed + Len(terminal)
    BY <1>10 DEF StreamInvariant
  <2>3. /\ n + Len(terminal) <= Len(Stream')
        /\ \A i \in 1 .. Len(terminal) : Stream'[n + i] = terminal[i]
    <3>1. \A i \in 1 .. Len(terminal) : n + i \in 1 .. Len(Stream)
      BY <1>1, <1>2, <2>1, <2>2
    <3>2. /\ n + Len(terminal) <= Len(Stream)
          /\ \A i \in 1 .. Len(terminal) : Stream[n + i] = terminal[i]
      BY <2>1 DEF AnswerIn
    <3>3. \A i \in 1 .. Len(terminal) : Stream'[n + i] = Stream[n + i]
      BY <1>8, <3>1
    <3>4. n + Len(terminal) <= Len(Stream')
      <4>1. Len(Stream) \in Nat
        BY <1>8
      <4> QED
        BY <1>2, <1>8, <2>1, <3>2, <4>1
    <3> QED
      BY <3>2, <3>3, <3>4
  <2>4. \A i \in 1 .. Len(Stream') : i \notin n + 1 .. n + Len(terminal) => Stream'[i] \in Typed
    <3> SUFFICES ASSUME NEW i \in 1 .. Len(Stream'), i \notin n + 1 .. n + Len(terminal)
                 PROVE  Stream'[i] \in Typed
      OBVIOUS
    <3>1. CASE i \in 1 .. Len(Stream)
      BY <1>8, <2>1, <3>1 DEF AnswerIn
    <3>2. CASE i \notin 1 .. Len(Stream)
      <4>1. i = Len(Stream) + 1
        BY <1>1, <1>2, <1>8, <2>2, <3>2
      <4> QED
        BY <1>8, <4>1
    <3> QED
      BY <3>1, <3>2
  <2>5. AnswerIn(Stream, n)' /\ n \in 0 .. typed'
    BY <1>1, <1>4, <2>3, <2>4 DEF AnswerIn
  <2> QED
    BY <1>1, <1>2, <1>4, <1>8, <2>2, <2>5
<1>11. StreamInvariant'
  BY <1>4, <1>9, <1>10 DEF StreamInvariant
<1> QED
  BY <1>7, <1>11

\* The colour the parser sees is believed, and the stream shows what is left.
LEMMA ParseAnswerKeeps ==
  ASSUME QueryInvariant, StreamInvariant, ParseAnswer
  PROVE  QueryInvariant' /\ StreamInvariant'
<1>1. /\ buf \in Seq(Known) /\ tty \in Seq(Known) /\ line \in Seq(Known)
      /\ terminal \in Answers \cup Garbled \cup {<<>>} /\ typed \in Nat
  BY DEF QueryInvariant
<1>2. Known' = Known
  BY DEF Known, ParseAnswer, lineVars
<1>3. /\ qpc = "parse" /\ qpc' = "done" /\ found' = Parse(buf) /\ mode' = "saved"
      /\ UNCHANGED <<buf, remaining, line, tty, typed, stale, terminal>>
  BY DEF ParseAnswer, lineVars, Restored
<1>4. /\ Parse(buf) \in Colours \cup {"none"}
      /\ Parse(buf) # "none" =>
           /\ terminal \in Answers /\ Parse(buf) = terminal[4]
           /\ \A n \in Nat : AnswerIn(Stream, n) => n + Len(terminal) <= Len(buf)
  BY ParseBelieves
<1>5. ASSUME Parse(buf) # "none", ~stale
      PROVE  Len(tty) + Len(line) <= typed
  <2>1. PICK n \in 0 .. typed : AnswerIn(Stream, n)
    BY <1>3, <1>5 DEF StreamInvariant
  <2>2. Len(Stream) = typed + Len(terminal)
    BY <1>3, <1>5 DEF StreamInvariant
  <2>3. n \in Nat /\ n + Len(terminal) <= Len(buf)
    BY <1>1, <1>4, <1>5, <2>1
  <2>4. Len(Stream) = Len(buf) + Len(tty) + Len(line)
    <3>1. buf \o tty \in Seq(Known) /\ Len(buf \o tty) = Len(buf) + Len(tty)
      BY <1>1, Concatenated
    <3>2. \A x \in Seq(Known) : Len(x \o line) = Len(x) + Len(line)
      BY <1>1, Concatenated
    <3> QED
      BY <3>1, <3>2 DEF Stream
  <2>5. Len(terminal) \in Nat /\ Len(buf) \in Nat /\ Len(tty) \in Nat /\ Len(line) \in Nat
    BY <1>1, KnownStream
  <2> QED
    BY <1>1, <2>2, <2>3, <2>4, <2>5
<1>6. QueryInvariant'
  BY <1>2, <1>3, <1>4, <1>5 DEF QueryInvariant
<1>7. StreamInvariant'
  BY <1>3 DEF StreamInvariant
<1> QED
  BY <1>6, <1>7

-----------------------------------------------------------------------------
(* The query as a whole *)

LEMMA QueryStarts == QueryInit => QueryInvariant /\ StreamInvariant
<1> SUFFICES ASSUME QueryInit
             PROVE  QueryInvariant /\ StreamInvariant
  OBVIOUS
<1>1. QueryInvariant
  <2>1. /\ buf \in Seq(Known) /\ tty \in Seq(Known) /\ line \in Seq(Known)
        /\ Len(buf) < Limit /\ remaining \in 0 .. Timeout
    BY QueryAssumption DEF QueryInit
  <2> QED
    BY <2>1 DEF QueryInit, QueryInvariant
<1>2. StreamInvariant
  BY DEF QueryInit, StreamInvariant
<1> QED
  BY <1>1, <1>2

LEMMA QueryKeeps ==
  ASSUME QueryInvariant, StreamInvariant, Query
  PROVE  QueryInvariant' /\ StreamInvariant'
BY MakeRawKeeps, WriteQueryKeeps, PollFailsKeeps, PollReadsKeeps, GiveUpKeeps,
   ParseAnswerKeeps DEF Query

LEMMA WorldKeeps ==
  ASSUME QueryInvariant, StreamInvariant, World, qpc # "idle"
  PROVE  QueryInvariant' /\ StreamInvariant'
BY ArriveKeeps, TypeKeeps DEF World

LEMMA QueryStutters ==
  ASSUME QueryInvariant, StreamInvariant, UNCHANGED oscVars
  PROVE  QueryInvariant' /\ StreamInvariant'
<1>1. Known' = Known /\ Stream' = Stream
  BY DEF Known, Stream, oscVars, queryVars, lineVars
<1>2. QueryInvariant'
  BY <1>1 DEF QueryInvariant, oscVars, queryVars, lineVars
<1>3. StreamInvariant'
  BY <1>1, StreamKept DEF oscVars, queryVars, lineVars
<1> QED
  BY <1>2, <1>3

-----------------------------------------------------------------------------
(* What is written, and what the terminal makes of it *)

Marks(s) == {i \in DOMAIN s : s[i].op \in {"begin", "end"}}

\* Text that begins and ends no style leaves the terminal in the one it was in.
LEMMA PlainKeepsStyle ==
  ASSUME NEW s, Plain(s), NEW before \in BOOLEAN
  PROVE  StyleAfter(before, s) = before
BY DEF Plain, StyleAfter

LEMMA StyleIsBoolean ==
  ASSUME NEW s, NEW before \in BOOLEAN
  PROVE  StyleAfter(before, s) \in BOOLEAN
BY DEF StyleAfter

\* What is written in two parts has the effect of the second after the first.
LEMMA StyleAfterBoth ==
  ASSUME NEW s \in Seq(Ops), NEW t \in Seq(Ops), NEW before \in BOOLEAN
  PROVE  StyleAfter(before, s \o t) = StyleAfter(StyleAfter(before, s), t)
<1> DEFINE w == s \o t
<1>1. /\ w \in Seq(Ops) /\ Len(w) = Len(s) + Len(t)
      /\ \A k \in 1 .. Len(s) : w[k] = s[k]
      /\ \A k \in 1 .. Len(t) : w[Len(s) + k] = t[k]
      /\ \A k \in Len(s) + 1 .. Len(s) + Len(t) :
           k - Len(s) \in 1 .. Len(t) /\ w[k] = t[k - Len(s)]
  BY Concatenated
<1>2. DOMAIN s = 1 .. Len(s) /\ DOMAIN t = 1 .. Len(t) /\ Len(s) \in Nat /\ Len(t) \in Nat
  OBVIOUS
<1> HIDE DEF w
<1>3. DOMAIN w = 1 .. Len(s) + Len(t)
  BY <1>1
<1>4. \A k \in Marks(s) : k \in Marks(w) /\ w[k] = s[k] /\ k <= Len(s)
  BY <1>1, <1>2, <1>3 DEF Marks
<1>5. \A k \in Marks(t) : Len(s) + k \in Marks(w) /\ w[Len(s) + k] = t[k] /\ k > 0 /\ k \in Nat
  BY <1>1, <1>2, <1>3 DEF Marks
<1>6. \A k \in Marks(w) : k \in Marks(s) \/ (k - Len(s) \in Marks(t) /\ k \in Nat)
  BY <1>1, <1>2, <1>3 DEF Marks
<1>7. CASE Marks(t) = {}
  <2>1. Marks(w) = Marks(s)
    BY <1>4, <1>6, <1>7
  <2>2. StyleAfter(before, w) = StyleAfter(before, s)
    BY <1>4, <2>1 DEF StyleAfter, Marks
  <2>3. StyleAfter(StyleAfter(before, s), t) = StyleAfter(before, s)
    BY <1>7 DEF StyleAfter, Marks
  <2> QED
    BY <2>2, <2>3 DEF w
<1>8. CASE Marks(t) # {}
  <2>1. Marks(w) # {}
    BY <1>5, <1>8
  <2> DEFINE Ends(x) == \E i \in Marks(x) : x[i].op = "begin" /\ \A j \in Marks(x) : j <= i
  <2>2. StyleAfter(before, w) = Ends(w)
    BY <2>1 DEF StyleAfter, Marks
  <2>3. StyleAfter(StyleAfter(before, s), t) = Ends(t)
    BY <1>8 DEF StyleAfter, Marks
  <2>4. ASSUME Ends(t) PROVE Ends(w)
    <3>1. PICK i \in Marks(t) : t[i].op = "begin" /\ \A j \in Marks(t) : j <= i
      BY <2>4
    <3>2. \A j \in Marks(w) : j <= Len(s) + i
      BY <1>2, <1>4, <1>5, <1>6, <3>1 DEF Marks
    <3> QED
      BY <1>5, <3>1, <3>2
  <2>5. ASSUME Ends(w) PROVE Ends(t)
    <3>1. PICK i \in Marks(w) : w[i].op = "begin" /\ \A j \in Marks(w) : j <= i
      BY <2>5
    <3>2. PICK k \in Marks(t) : TRUE
      BY <1>8
    <3>3. i >= Len(s) + k
      BY <1>5, <3>1
    <3>4. i - Len(s) \in Marks(t) /\ i \in Nat
      BY <1>2, <1>4, <1>5, <1>6, <3>3 DEF Marks
    <3>5. t[i - Len(s)].op = "begin"
      <4>1. Len(s) + (i - Len(s)) = i
        BY <1>2, <3>4
      <4> QED
        BY <1>5, <3>1, <3>4, <4>1
    <3>6. \A j \in Marks(t) : j <= i - Len(s)
      BY <1>2, <1>5, <3>1, <3>4
    <3> QED
      BY <3>4, <3>5, <3>6
  <2> HIDE DEF Ends
  <2>6. Ends(w) <=> Ends(t)
    BY <2>4, <2>5
  <2>7. Ends(w) \in BOOLEAN /\ Ends(t) \in BOOLEAN
    BY DEF Ends
  <2> QED
    BY <2>2, <2>3, <2>6, <2>7 DEF w
<1> QED
  BY <1>7, <1>8

\* What writing does to the two variables it is about.
LEMMA WriteAppends ==
  ASSUME NEW w \in Seq(Ops), Write(w), out \in Seq(Ops)
  PROVE  /\ out' \in Seq(Ops)
         /\ Plain(out) /\ Plain(w) => Plain(out')
         /\ sgr' = StyleAfter(sgr, w)
<1>1. /\ out' = out \o w /\ sgr' = StyleAfter(sgr, w)
  BY DEF Write
<1>2. /\ out' \in Seq(Ops) /\ Len(out') = Len(out) + Len(w)
      /\ \A k \in 1 .. Len(out) : out'[k] = out[k]
      /\ \A k \in Len(out) + 1 .. Len(out) + Len(w) :
           k - Len(out) \in 1 .. Len(w) /\ out'[k] = w[k - Len(out)]
  BY <1>1, Concatenated
<1>3. ASSUME Plain(out), Plain(w), NEW k \in DOMAIN out'
      PROVE  out'[k].op \notin {"begin", "end"}
  <2>1. /\ DOMAIN out = 1 .. Len(out) /\ DOMAIN w = 1 .. Len(w)
        /\ Len(out) \in Nat /\ Len(w) \in Nat /\ k \in 1 .. Len(out) + Len(w)
    BY <1>2
  <2>2. CASE k <= Len(out)
    BY <1>2, <1>3, <2>1, <2>2 DEF Plain
  <2>3. CASE ~(k <= Len(out))
    <3>1. k \in Len(out) + 1 .. Len(out) + Len(w)
      BY <2>1, <2>3
    <3> QED
      BY <1>2, <1>3, <2>1, <3>1 DEF Plain
  <2> QED
    BY <2>2, <2>3
<1> QED
  BY <1>1, <1>2, <1>3 DEF Plain

\* Plain text after plain text is plain.
LEMMA PlainBoth ==
  ASSUME NEW s \in Seq(Ops), NEW t \in Seq(Ops), Plain(s), Plain(t)
  PROVE  s \o t \in Seq(Ops) /\ Plain(s \o t)
<1>1. /\ s \o t \in Seq(Ops) /\ Len(s \o t) = Len(s) + Len(t)
      /\ \A k \in 1 .. Len(s) : (s \o t)[k] = s[k]
      /\ \A k \in Len(s) + 1 .. Len(s) + Len(t) :
           k - Len(s) \in 1 .. Len(t) /\ (s \o t)[k] = t[k - Len(s)]
  BY Concatenated
<1>2. ASSUME NEW k \in DOMAIN (s \o t)
      PROVE  (s \o t)[k].op \notin {"begin", "end"}
  <2>1. /\ DOMAIN s = 1 .. Len(s) /\ DOMAIN t = 1 .. Len(t)
        /\ Len(s) \in Nat /\ Len(t) \in Nat /\ k \in 1 .. Len(s) + Len(t)
    BY <1>1
  <2>2. CASE k <= Len(s)
    BY <1>1, <2>1, <2>2 DEF Plain
  <2>3. CASE ~(k <= Len(s))
    BY <1>1, <2>1, <2>3 DEF Plain
  <2> QED
    BY <2>2, <2>3
<1> QED
  BY <1>1, <1>2 DEF Plain

\* The pieces that are written.
LEMMA Pieces ==
  /\ <<>> \in Seq(Ops) /\ Plain(<<>>)
  /\ <<Op("nl")>> \in Seq(Ops) /\ Plain(<<Op("nl")>>)
  /\ <<Op("nl"), Op("pad")>> \in Seq(Ops) /\ Plain(<<Op("nl"), Op("pad")>>)
  /\ <<Op("sp")>> \in Seq(Ops) /\ Plain(<<Op("sp")>>)
  /\ \A i, j \in Nat : <<Word(i, j)>> \in Seq(Ops) /\ Plain(<<Word(i, j)>>)
<1>1. /\ Op("nl") \in Ops /\ Op("pad") \in Ops /\ Op("sp") \in Ops
      /\ \A i, j \in Nat : Word(i, j) \in Ops
  BY DEF Op, Word, Ops
<1>2. /\ Op("nl").op = "nl" /\ Op("pad").op = "pad" /\ Op("sp").op = "sp"
      /\ \A i, j \in Nat : Word(i, j).op = "word"
  BY DEF Op, Word
<1> QED
  BY <1>1, <1>2 DEF Plain

\* Beginning and ending a style.
LEMMA StylePieces ==
  /\ StyleBegin \in Seq(Ops) /\ StyleEnd \in Seq(Ops)
  /\ ~Styled => Plain(StyleBegin) /\ Plain(StyleEnd)
  /\ Styled => \A before \in BOOLEAN :
                 StyleAfter(before, StyleBegin) = TRUE /\ StyleAfter(before, StyleEnd) = FALSE
<1>1. /\ Op("begin") \in Ops /\ Op("end") \in Ops
      /\ Op("begin").op = "begin" /\ Op("end").op = "end"
  BY DEF Op, Ops
<1>2. CASE ~Styled
  BY <1>2, Pieces DEF StyleBegin, StyleEnd
<1>3. CASE Styled
  <2>1. StyleBegin = <<Op("begin")>> /\ StyleEnd = <<Op("end")>>
    BY <1>3 DEF StyleBegin, StyleEnd
  <2>2. /\ <<Op("begin")>> \in Seq(Ops) /\ <<Op("end")>> \in Seq(Ops)
    BY <1>1
  <2>3. ASSUME NEW before \in BOOLEAN
        PROVE  /\ StyleAfter(before, <<Op("begin")>>) = TRUE
               /\ StyleAfter(before, <<Op("end")>>) = FALSE
    <3>1. /\ DOMAIN <<Op("begin")>> = {1} /\ <<Op("begin")>>[1].op = "begin"
          /\ DOMAIN <<Op("end")>> = {1} /\ <<Op("end")>>[1].op = "end"
      BY <1>1
    <3> QED
      BY <3>1 DEF StyleAfter
  <2> QED
    BY <1>3, <2>1, <2>2, <2>3
<1> QED
  BY <1>2, <1>3

\* Writing w where the style is as `from' leaves it as `to' says, if there are styles.
Turns(w, from, to) ==
  /\ w \in Seq(Ops)
  /\ ~Styled => Plain(w)
  /\ Styled => StyleAfter(from, w) = to

LEMMA TurnsBoth ==
  ASSUME NEW s, NEW t, NEW a \in BOOLEAN, NEW b \in BOOLEAN, NEW c \in BOOLEAN,
         Turns(s, a, b), Turns(t, b, c)
  PROVE  Turns(s \o t, a, c)
<1>1. s \in Seq(Ops) /\ t \in Seq(Ops)
  BY DEF Turns
<1>2. s \o t \in Seq(Ops)
  BY <1>1
<1>3. CASE ~Styled
  BY <1>1, <1>2, <1>3, PlainBoth DEF Turns
<1>4. CASE Styled
  <2>1. StyleAfter(a, s \o t) = StyleAfter(StyleAfter(a, s), t)
    BY <1>1, StyleAfterBoth
  <2>2. StyleAfter(a, s) = b /\ StyleAfter(b, t) = c
    BY <1>4 DEF Turns
  <2> QED
    BY <1>2, <1>4, <2>1, <2>2 DEF Turns
<1> QED
  BY <1>3, <1>4

LEMMA PlainTurnsNothing ==
  ASSUME NEW w \in Seq(Ops), Plain(w), NEW a \in BOOLEAN
  PROVE  Turns(w, a, a)
BY PlainKeepsStyle DEF Turns

LEMMA StyleTurns ==
  ASSUME NEW a \in BOOLEAN
  PROVE  Turns(StyleBegin, a, TRUE) /\ Turns(StyleEnd, a, FALSE)
BY StylePieces DEF Turns

\* A token turns its style on and off.
LEMMA TokenTurns ==
  ASSUME NEW a \in BOOLEAN
  PROVE  /\ Turns(StyleBegin \o StyleEnd, a, FALSE)
         /\ Turns((StyleBegin \o StyleEnd) \o <<Op("nl")>>, a, FALSE)
<1>1. Turns(StyleBegin, a, TRUE) /\ Turns(StyleEnd, TRUE, FALSE)
  BY StyleTurns
<1>2. Turns(StyleBegin \o StyleEnd, a, FALSE)
  BY <1>1, TurnsBoth
<1>3. Turns(<<Op("nl")>>, FALSE, FALSE)
  BY Pieces, PlainTurnsNothing
<1> QED
  BY <1>2, <1>3, TurnsBoth

\* Writing w, when the terminal shows what the invariant says.
LEMMA WriteTurns ==
  ASSUME NEW w, NEW to \in BOOLEAN, Turns(w, sgr, to), Write(w),
         out \in Seq(Ops), ~Styled => Plain(out), sgr \in BOOLEAN, ~Styled => sgr = FALSE
  PROVE  /\ out' \in Seq(Ops) /\ (~Styled => Plain(out'))
         /\ sgr' = (to /\ Styled)
<1>1. /\ w \in Seq(Ops) /\ out' \in Seq(Ops) /\ sgr' = StyleAfter(sgr, w)
      /\ Plain(out) /\ Plain(w) => Plain(out')
  BY WriteAppends DEF Turns
<1>2. CASE ~Styled
  <2>1. Plain(w) /\ Plain(out) /\ sgr = FALSE
    BY <1>2 DEF Turns
  <2>2. StyleAfter(sgr, w) = sgr
    BY <2>1, PlainKeepsStyle
  <2> QED
    BY <1>1, <1>2, <2>1, <2>2
<1>3. CASE Styled
  <2>1. sgr' = to
    BY <1>1, <1>3 DEF Turns
  <2> QED
    BY <1>1, <1>3, <2>1
<1> QED
  BY <1>2, <1>3

\* A word has an end.
LEMMA WordHasEnd ==
  ASSUME Text \in Seq(Bytes), NEW i \in 1 .. Len(Text), Text[i] # Space
  PROVE  /\ CliWordEnd(Text, i) \in i .. Len(Text)
         /\ \A k \in i .. CliWordEnd(Text, i) : Text[k] # Space
<1> DEFINE Ends == {j \in i .. Len(Text) : j = Len(Text) \/ Text[j + 1] = Space}
<1>1. Ends \in SUBSET Nat /\ Len(Text) \in Ends
  OBVIOUS
<1>2. PICK j \in Ends : \A k \in Ends : j <= k
  BY <1>1, LeastElement
<1>3. ASSUME NEW k \in i .. j, Text[k] = Space
      PROVE  FALSE
  <2>1. k - 1 \in i .. Len(Text) /\ k - 1 < j /\ (k - 1) + 1 = k
    BY <1>2, <1>3
  <2>2. k - 1 \in Ends
    BY <1>3, <2>1
  <2>3. j <= k - 1
    BY <1>2, <2>2
  <2>4. j \in Nat /\ k - 1 \in Nat
    BY <1>1, <2>2
  <2> QED
    BY <2>1, <2>3, <2>4
<1>4. /\ j \in i .. Len(Text)
      /\ \A k \in i .. j : Text[k] # Space
      /\ j = Len(Text) \/ Text[j + 1] = Space
  BY <1>2, <1>3
<1> HIDE DEF Ends
<1> QED
  BY <1>4 DEF CliWordEnd

-----------------------------------------------------------------------------
(* The decision *)

\* What the environment can make of the profile.
LEMMA ProfileIsOne ==
  ASSUME env \in Environments
  PROVE  Profile \in Forced \cup {"none"} /\ ForcedTheme \in {"unset", "light", "dark"}
BY DEF Profile, Parsed, Forced, ForcedTheme

\* The text of a rendering.
LEMMA TextIsBytes ==
  ASSUME TermInvariant
  PROVE  Text \in Seq(Bytes) /\ Len(Text) \in Nat
<1>1. CASE request \in Requests
  BY <1>1, RenderAssumption DEF Text
<1>2. CASE request = NoRequest
  <2>1. Text = <<>>
    BY <1>2 DEF Text, NoRequest
  <2> QED
    BY <2>1
<1> QED
  BY <1>1, <1>2 DEF TermInvariant

LEMMA BeginRenderKeepsTerm ==
  ASSUME TermInvariant, BeginRender
  PROVE  TermInvariant'
<1>1. PICK r \in Scenarios[env] : Begin(r)
  BY DEF BeginRender
<1>2. r \in Requests
  BY RenderAssumption DEF TermInvariant
<1>3. /\ UNCHANGED <<env, handle, profile, theme, probed, cached, probes, qpc, terminal>>
      /\ request' = r /\ rpc = "idle" /\ rpc' = "init"
  BY <1>1 DEF Begin, cacheVars, oscVars, queryVars, lineVars
<1> QED
  BY <1>2, <1>3 DEF TermInvariant

LEMMA TermSetupKeepsTerm ==
  ASSUME TermInvariant, TermSetup
  PROVE  TermInvariant'
<1>1. UNCHANGED <<env, request, probed, cached, probes, qpc, terminal>>
  BY DEF TermSetup, cacheVars, oscVars, queryVars, lineVars
<1>2. /\ profile' \in Forced \cup {"none"} /\ (profile' # "none" => ~HardDisabled(request))
      /\ handle' \in BOOLEAN
  BY ProfileIsOne DEF TermSetup, TermInvariant, Style
<1>3. /\ rpc = "init" /\ rpc' \in {"draw", "detect"} /\ (rpc' = "detect" => profile' # "none")
      /\ theme' \in {"unset", "light", "dark"}
  BY ProfileIsOne DEF TermSetup, TermInvariant
<1> QED
  BY <1>1, <1>2, <1>3 DEF TermInvariant, HardDisabled, ConfigPlain

LEMMA UseCacheKeepsTerm ==
  ASSUME TermInvariant, UseCache
  PROVE  TermInvariant'
BY DEF UseCache, TermInvariant, ThemeOf, HardDisabled, ConfigPlain, cacheVars, oscVars,
       queryVars, lineVars

LEMMA SkipProbeKeepsTerm ==
  ASSUME TermInvariant, SkipProbe
  PROVE  TermInvariant'
BY DEF SkipProbe, Skip, TermInvariant, ThemeOf, HardDisabled, ConfigPlain, cacheVars, oscVars,
       queryVars, lineVars

\* A probe that was not skipped was allowed.
LEMMA NotSkipped ==
  ASSUME TermInvariant, ~Skipped
  PROVE  ~env.no_color /\ ~env.dumb /\ env.osc # "0"
BY DEF Skipped, HardDisabled

LEMMA ProbeHookKeepsTerm ==
  ASSUME TermInvariant, ProbeHook
  PROVE  TermInvariant'
<1>1. /\ UNCHANGED <<env, request, handle, profile, qpc, terminal>>
      /\ rpc = "detect" /\ rpc' = "draw" /\ ~probed /\ probed' = TRUE /\ probes' = probes + 1
      /\ env.test_bg # "unset" /\ theme' \in {"light", "dark"}
      /\ cached' \in {"unknown", "light", "dark"}
  BY DEF ProbeHook, Commit, ThemeOf, TermInvariant, oscVars, queryVars, lineVars
<1>2. ~env.no_color /\ ~env.dumb /\ env.osc # "0"
  BY NotSkipped DEF ProbeHook
<1> QED
  BY <1>1, <1>2 DEF TermInvariant, HardDisabled, ConfigPlain

LEMMA AskKeepsTerm ==
  ASSUME TermInvariant, Ask
  PROVE  TermInvariant'
<1>1. /\ UNCHANGED <<env, request, handle, profile, theme, probed, cached, probes>>
      /\ rpc = "detect" /\ rpc' = "query" /\ ~probed /\ ~Skipped /\ env.test_bg = "unset"
      /\ qpc' = "raw"
  BY DEF Ask, StartQuery, renderVars, cacheVars
<1> QED
  BY <1>1 DEF TermInvariant, HardDisabled, ConfigPlain, Skipped

LEMMA AskingKeepsTerm ==
  ASSUME TermInvariant, Asking
  PROVE  TermInvariant'
<1>1. UNCHANGED <<env, request, rpc, handle, profile, theme, probed, cached, probes, terminal>>
  BY DEF Asking, Query, MakeRaw, WriteQuery, PollFails, PollReads, GiveUp, ParseAnswer,
         termVars, renderVars, cacheVars, lineVars
<1>2. rpc = "query" /\ qpc' # "idle"
  BY DEF Asking, Query, MakeRaw, WriteQuery, PollFails, PollReads, GiveUp, ParseAnswer
<1> QED
  BY <1>1, <1>2 DEF TermInvariant, HardDisabled, ConfigPlain, Skipped

LEMMA AnsweredKeepsTerm ==
  ASSUME QueryInvariant, TermInvariant, Answered
  PROVE  TermInvariant'
<1>1. /\ UNCHANGED <<env, request, handle, profile, terminal>>
      /\ rpc = "query" /\ rpc' = "draw" /\ ~probed /\ probed' = TRUE /\ probes' = probes + 1
      /\ env.test_bg = "unset" /\ qpc' = "idle" /\ cached = "unknown"
      /\ cached' = (IF found = "none" THEN cached ELSE Background)
      /\ theme' \in {"light", "dark"}
  BY DEF Answered, EndQuery, Commit, ThemeOf, TermInvariant
<1>2. ~env.no_color /\ ~env.dumb /\ env.osc # "0"
  BY NotSkipped DEF Answered, TermInvariant
<1>3. found # "none" => terminal \in Answers /\ found = terminal[4]
  BY DEF QueryInvariant
<1> QED
  BY <1>1, <1>2, <1>3 DEF TermInvariant, HardDisabled, ConfigPlain, Background

\* The steps of the writing keep to their places.
LEMMA DrawingKeepsTerm ==
  ASSUME TermInvariant, rpc \in {"draw", "wrap"}, rpc' \in {"draw", "wrap", "drawn"},
         UNCHANGED <<oscVars, env, renderVars, cacheVars>>
  PROVE  TermInvariant'
BY DEF TermInvariant, HardDisabled, ConfigPlain, renderVars, cacheVars, oscVars, queryVars,
       lineVars

LEMMA DoneKeepsTerm ==
  ASSUME TermInvariant, Done
  PROVE  TermInvariant'
<1>1. /\ UNCHANGED <<env, probed, cached, probes, qpc, terminal>>
      /\ request' = NoRequest /\ handle' = FALSE /\ profile' = "none" /\ theme' = "unset"
      /\ rpc = "drawn" /\ rpc' = "idle"
  BY DEF Done, Deinit, cacheVars, oscVars, queryVars, lineVars
<1> QED
  BY <1>1 DEF TermInvariant, Forced

LEMMA OutsideKeepsTerm ==
  ASSUME TermInvariant, Outside
  PROVE  TermInvariant'
<1>1. /\ UNCHANGED <<env, request, rpc, handle, profile, theme, probed, cached, probes>>
      /\ UNCHANGED <<qpc, terminal>>
  BY DEF Outside, World, Arrive, Type, termVars, renderVars, cacheVars, queryVars
<1> QED
  BY <1>1 DEF TermInvariant, HardDisabled, ConfigPlain, Skipped

-----------------------------------------------------------------------------
(* The writing *)

LEMMA BeginRenderKeepsDraw ==
  ASSUME TermInvariant, DrawInvariant, BeginRender, TermInvariant'
  PROVE  DrawInvariant'
<1>1. /\ UNCHANGED <<out, at, style_open, first_on_line, sgr, profile>>
      /\ rpc = "idle" /\ rpc' = "init"
  BY DEF BeginRender, Begin, drawVars, wrapVars
<1>2. Styled' = Styled
  BY <1>1 DEF Styled
<1>3. at' = 0 /\ out' = <<>>
  BY <1>1 DEF DrawInvariant
<1>4. Len(Text)' \in Nat
  <2>1. request' \in Requests
    BY RenderAssumption DEF BeginRender, Begin, TermInvariant
  <2> QED
    BY <2>1, RenderAssumption DEF Text
<1> QED
  BY <1>1, <1>2, <1>3, <1>4 DEF DrawInvariant, Plain

\* Deciding writes nothing.
LEMMA DecideKeepsDraw ==
  ASSUME TermInvariant, DrawInvariant, Decide
  PROVE  DrawInvariant'
<1>1. /\ UNCHANGED <<out, at, style_open, first_on_line, sgr, request>>
      /\ rpc \in {"init", "detect", "query"} /\ rpc' \in {"draw", "detect", "query"}
  BY DEF Decide, TermSetup, UseCache, SkipProbe, Skip, ProbeHook, Commit, Ask, Asking, Answered,
         Query, MakeRaw, WriteQuery, PollFails, PollReads, GiveUp, ParseAnswer,
         renderVars, drawVars, wrapVars, termVars
<1>2. out' = <<>> /\ sgr' = FALSE
  BY <1>1 DEF DrawInvariant
<1>3. Text' = Text
  BY <1>1 DEF Text
<1> QED
  BY <1>1, <1>2, <1>3 DEF DrawInvariant, Plain

LEMMA DrawTokensKeepsDraw ==
  ASSUME TermInvariant, DrawInvariant, DrawTokens
  PROVE  DrawInvariant'
<1>1. /\ UNCHANGED <<at, style_open, first_on_line, request, profile>>
      /\ rpc = "draw" /\ rpc' = "drawn" /\ out \in Seq(Ops) /\ sgr = FALSE
      /\ ~Styled => Plain(out)
  BY DEF DrawTokens, DrawInvariant, renderVars
<1>2. PICK w : Write(w) /\ Turns(w, FALSE, FALSE)
  <2>1. Turns((StyleBegin \o StyleEnd) \o <<Op("nl")>>, FALSE, FALSE)
    BY TokenTurns
  <2>2. Turns(<<Op("nl")>>, FALSE, FALSE)
    BY Pieces, PlainTurnsNothing
  <2>3. \A w : w = (IF request.kind = "version" THEN StyleBegin \o StyleEnd \o <<Op("nl")>>
                    ELSE <<Op("nl")>>) => Turns(w, FALSE, FALSE)
    BY <2>1, <2>2
  <2> QED
    BY <2>3 DEF DrawTokens
<1>3. /\ out' \in Seq(Ops) /\ (~Styled => Plain(out')) /\ sgr' = FALSE
  BY <1>1, <1>2, WriteTurns
<1>4. Text' = Text /\ Styled' = Styled
  BY <1>1 DEF Text, Styled
<1> QED
  BY <1>1, <1>3, <1>4 DEF DrawInvariant, Plain

LEMMA DrawParagraphKeepsDraw ==
  ASSUME TermInvariant, DrawInvariant, DrawParagraph
  PROVE  DrawInvariant'
<1>1. /\ UNCHANGED <<request, profile>>
      /\ rpc = "draw" /\ rpc' \in {"wrap", "drawn"} /\ out \in Seq(Ops) /\ sgr = FALSE
      /\ at' = 1 /\ first_on_line' = TRUE /\ style_open' = FALSE
      /\ ~Styled => Plain(out)
  BY DEF DrawParagraph, DrawInvariant, renderVars
<1>2. PICK w : Write(w) /\ Turns(w, FALSE, FALSE)
  BY TokenTurns DEF DrawParagraph
<1>3. /\ out' \in Seq(Ops) /\ (~Styled => Plain(out')) /\ sgr' = FALSE
  BY <1>1, <1>2, WriteTurns
<1>4. Text' = Text /\ Styled' = Styled /\ Len(Text) \in Nat
  BY <1>1, TextIsBytes DEF Text, Styled
<1>5. at' \in 0 .. Len(Text)' + 1 /\ at' > 0
  BY <1>1, <1>4
<1>6. ~Styled' => Plain(out)'
  BY <1>3, <1>4 DEF Plain
<1>7. sgr' <=> (rpc' = "wrap" /\ style_open' /\ Styled')
  BY <1>1, <1>3
<1>8. out' \in Seq(Ops) /\ style_open' \in BOOLEAN /\ first_on_line' \in BOOLEAN
  BY <1>1, <1>3
<1>9. rpc' \notin {"idle", "init", "detect", "query", "draw"}
  BY <1>1
<1> QED
  BY <1>3, <1>5, <1>6, <1>7, <1>8, <1>9 DEF DrawInvariant

LEMMA WrapSpaceKeepsDraw ==
  ASSUME TermInvariant, DrawInvariant, WrapSpace
  PROVE  DrawInvariant'
<1>1. /\ UNCHANGED <<request, profile, rpc, out, style_open, first_on_line, sgr>>
      /\ rpc = "wrap" /\ at <= Len(Text) /\ at' = at + 1
  BY DEF WrapSpace, termVars, renderVars
<1>2. Text' = Text /\ Styled' = Styled /\ Len(Text) \in Nat
  BY <1>1, TextIsBytes DEF Text, Styled
<1> QED
  BY <1>1, <1>2 DEF DrawInvariant, Plain

\* A word leaves a style open if there is one: the one it began, or the one of the
\* words before it on the line.
LEMMA WrapWordKeepsDraw ==
  ASSUME TermInvariant, DrawInvariant, WrapWord
  PROVE  DrawInvariant'
<1> DEFINE end == CliWordEnd(Text, at)
           wcols == Width(SubSeq(Text, at, end))
           break == Overflows(wcols)
           close == IF style_open THEN StyleEnd ELSE <<>>
           lineend == IF break THEN close \o <<Op("nl"), Op("pad")>> ELSE <<>>
           begin == IF ~style_open \/ break THEN StyleBegin ELSE <<>>
           space == IF first_on_line \/ break THEN <<>> ELSE <<Op("sp")>>
<1>1. /\ UNCHANGED <<request, profile, rpc>>
      /\ rpc = "wrap" /\ at <= Len(Text) /\ Text[at] # Space
      /\ style_open' = TRUE /\ first_on_line' = FALSE
      /\ Write(lineend \o begin \o space \o <<Word(at, end)>>)
      /\ at' = end + 1
  BY DEF WrapWord, termVars, renderVars
<1>2. /\ out \in Seq(Ops) /\ (~Styled => Plain(out)) /\ style_open \in BOOLEAN
      /\ first_on_line \in BOOLEAN
      /\ sgr = (style_open /\ Styled) /\ at \in 1 .. Len(Text)
  BY <1>1, TextIsBytes DEF DrawInvariant
<1>3. end \in at .. Len(Text)
  BY <1>1, <1>2, TextIsBytes, WordHasEnd
<1>4. Text' = Text /\ Styled' = Styled /\ Len(Text) \in Nat
  BY <1>1, TextIsBytes DEF Text, Styled
<1> HIDE DEF end, break
<1> DEFINE between == style_open /\ ~break
<1>5. between \in BOOLEAN
  OBVIOUS
<1>6. Turns(lineend, style_open, between)
  <2>1. CASE ~break
    BY <1>2, <2>1, Pieces, PlainTurnsNothing
  <2>2. CASE break
    <3>1. Turns(close, style_open, FALSE)
      BY <1>2, StyleTurns, Pieces, PlainTurnsNothing
    <3>2. Turns(<<Op("nl"), Op("pad")>>, FALSE, FALSE)
      BY Pieces, PlainTurnsNothing
    <3> QED
      BY <1>2, <2>2, <3>1, <3>2, TurnsBoth
  <2> QED
    BY <2>1, <2>2
<1>7. Turns(begin, between, TRUE)
  BY <1>2, <1>5, StyleTurns, Pieces, PlainTurnsNothing
<1>8. Turns(space, TRUE, TRUE) /\ Turns(<<Word(at, end)>>, TRUE, TRUE)
  <2>1. at \in Nat /\ end \in Nat
    BY <1>2, <1>3, <1>4
  <2>2. <<Word(at, end)>> \in Seq(Ops) /\ Plain(<<Word(at, end)>>)
    BY <2>1, Pieces
  <2> QED
    BY <2>2, Pieces, PlainTurnsNothing
<1> HIDE DEF lineend, begin, space, between
<1>9. Turns(lineend \o begin, style_open, TRUE)
  BY <1>2, <1>5, <1>6, <1>7, TurnsBoth
<1>10. Turns((lineend \o begin) \o space, style_open, TRUE)
  BY <1>2, <1>8, <1>9, TurnsBoth
<1>11. Turns(((lineend \o begin) \o space) \o <<Word(at, end)>>, style_open, TRUE)
  BY <1>2, <1>8, <1>10, TurnsBoth
<1>12. Turns(((lineend \o begin) \o space) \o <<Word(at, end)>>, sgr, TRUE)
  <2>1. CASE Styled
    BY <1>2, <1>11, <2>1
  <2>2. CASE ~Styled
    BY <1>11, <2>2 DEF Turns
  <2> QED
    BY <2>1, <2>2
<1> DEFINE w == ((lineend \o begin) \o space) \o <<Word(at, end)>>
<1>13. /\ out' \in Seq(Ops) /\ (~Styled => Plain(out')) /\ sgr' = (TRUE /\ Styled)
  <2>1. Write(w) /\ Turns(w, sgr, TRUE)
    BY <1>1, <1>12
  <2>2. sgr \in BOOLEAN /\ (~Styled => sgr = FALSE)
    BY <1>2
  <2> HIDE DEF w
  <2> QED
    BY <1>2, <2>1, <2>2, WriteTurns
<1>14. at' \in 0 .. Len(Text)' + 1 /\ at' > 0
  BY <1>1, <1>2, <1>3, <1>4
<1>15. sgr' = (rpc' = "wrap" /\ style_open' /\ Styled')
  BY <1>1, <1>4, <1>13
<1>16. ~Styled' => Plain(out)'
  BY <1>4, <1>13 DEF Plain
<1> QED
  BY <1>1, <1>13, <1>14, <1>15, <1>16 DEF DrawInvariant

LEMMA WrapEndKeepsDraw ==
  ASSUME TermInvariant, DrawInvariant, WrapEnd
  PROVE  DrawInvariant'
<1> DEFINE close == IF style_open THEN StyleEnd ELSE <<>>
<1>1. /\ UNCHANGED <<request, profile, at, style_open, first_on_line>>
      /\ rpc = "wrap" /\ rpc' = "drawn"
      /\ Write(close \o <<Op("nl")>>)
  BY DEF WrapEnd, renderVars
<1>2. /\ out \in Seq(Ops) /\ (~Styled => Plain(out)) /\ style_open \in BOOLEAN
      /\ sgr = (style_open /\ Styled)
  BY <1>1 DEF DrawInvariant
<1>3. Text' = Text /\ Styled' = Styled
  BY <1>1 DEF Text, Styled
<1>4. Turns(close, style_open, FALSE) /\ Turns(<<Op("nl")>>, FALSE, FALSE)
  BY <1>2, StyleTurns, Pieces, PlainTurnsNothing
<1> HIDE DEF close
<1>5. Turns(close \o <<Op("nl")>>, style_open, FALSE)
  BY <1>2, <1>4, TurnsBoth
<1>6. Turns(close \o <<Op("nl")>>, sgr, FALSE)
  <2>1. CASE Styled
    BY <1>2, <1>5, <2>1
  <2>2. CASE ~Styled
    BY <1>5, <2>2 DEF Turns
  <2> QED
    BY <2>1, <2>2
<1>7. /\ out' \in Seq(Ops) /\ (~Styled => Plain(out')) /\ sgr' = FALSE
  BY <1>1, <1>2, <1>6, WriteTurns
<1> QED
  BY <1>1, <1>2, <1>3, <1>7 DEF DrawInvariant, Plain

LEMMA DoneKeepsDraw ==
  ASSUME TermInvariant, DrawInvariant, Done
  PROVE  DrawInvariant'
<1>1. /\ out' = <<>> /\ at' = 0 /\ first_on_line' = TRUE /\ style_open' = FALSE /\ sgr' = sgr
      /\ rpc = "drawn" /\ rpc' = "idle" /\ request' = NoRequest
  BY DEF Done, Deinit
<1>2. sgr' = FALSE /\ Text' = <<>>
  BY <1>1 DEF DrawInvariant, Text, NoRequest
<1>3. out' \in Seq(Ops) /\ Plain(out)' /\ Len(Text)' = 0
  BY <1>1, <1>2 DEF Plain
<1>4. sgr' <=> (rpc' = "wrap" /\ style_open' /\ Styled')
  BY <1>1, <1>2
<1>5. at' \in 0 .. Len(Text)' + 1
  BY <1>1, <1>3
<1> QED
  BY <1>1, <1>3, <1>4, <1>5 DEF DrawInvariant

LEMMA OutsideKeepsDraw ==
  ASSUME DrawInvariant, UNCHANGED <<termVars, drawVars>>
  PROVE  DrawInvariant'
BY DEF DrawInvariant, termVars, renderVars, drawVars, wrapVars, Text, Styled, Plain

-----------------------------------------------------------------------------
(* The process *)

LEMMA RenderStarts == Init => RenderInvariant
<1> SUFFICES ASSUME Init PROVE RenderInvariant
  OBVIOUS
<1>1. QueryInvariant /\ StreamInvariant
  BY QueryStarts DEF Init, TermInit
<1>2. TermInvariant
  BY DEF Init, TermInit, QueryInit, TermInvariant
<1>3. DrawInvariant
  <2>1. Text = <<>> /\ out = <<>>
    BY DEF Init, TermInit, Text, NoRequest
  <2>2. out \in Seq(Ops) /\ Plain(out) /\ Len(Text) = 0 /\ at = 0
    BY <2>1 DEF Init, Plain
  <2>3. sgr <=> (rpc = "wrap" /\ style_open /\ Styled)
    BY DEF Init, TermInit
  <2>4. /\ rpc = "idle" /\ out = <<>> /\ style_open \in BOOLEAN /\ first_on_line \in BOOLEAN
    BY DEF Init, TermInit
  <2>5. at \in 0 .. Len(Text) + 1
    BY <2>2
  <2> QED
    BY <2>2, <2>3, <2>4, <2>5 DEF DrawInvariant
<1> QED
  BY <1>1, <1>2, <1>3 DEF RenderInvariant

\* The choice of colours, with the query that it may need.
LEMMA DecideKeeps ==
  ASSUME RenderInvariant, Decide
  PROVE  QueryInvariant' /\ StreamInvariant' /\ TermInvariant'
<1>1. QueryInvariant /\ StreamInvariant /\ TermInvariant
  BY DEF RenderInvariant
<1>2. CASE TermSetup
  BY <1>1, <1>2, QueryStutters, TermSetupKeepsTerm DEF TermSetup
<1>3. CASE UseCache
  BY <1>1, <1>3, QueryStutters, UseCacheKeepsTerm DEF UseCache
<1>4. CASE SkipProbe
  BY <1>1, <1>4, QueryStutters, SkipProbeKeepsTerm DEF SkipProbe
<1>5. CASE ProbeHook
  BY <1>1, <1>5, QueryStutters, ProbeHookKeepsTerm DEF ProbeHook
<1>6. CASE Ask
  BY <1>1, <1>6, StartQueryKeeps, AskKeepsTerm DEF Ask
<1>7. CASE Asking
  BY <1>1, <1>7, QueryKeeps, AskingKeepsTerm DEF Asking
<1>8. CASE Answered
  BY <1>1, <1>8, EndQueryKeeps, AnsweredKeepsTerm DEF Answered
<1> QED
  BY <1>2, <1>3, <1>4, <1>5, <1>6, <1>7, <1>8 DEF Decide

\* Writing changes neither the query nor the choice.
LEMMA DrawingKeeps ==
  ASSUME RenderInvariant, DrawTokens \/ DrawParagraph \/ WrapSpace \/ WrapWord \/ WrapEnd
  PROVE  QueryInvariant' /\ StreamInvariant' /\ TermInvariant'
<1>1. QueryInvariant /\ StreamInvariant /\ TermInvariant
  BY DEF RenderInvariant
<1>2. /\ UNCHANGED <<oscVars, env, renderVars, cacheVars>>
      /\ rpc \in {"draw", "wrap"} /\ rpc' \in {"draw", "wrap", "drawn"}
  BY DEF DrawTokens, DrawParagraph, WrapSpace, WrapWord, WrapEnd, termVars
<1>3. UNCHANGED oscVars
  BY <1>2
<1>4. QueryInvariant' /\ StreamInvariant'
  BY <1>1, <1>3, QueryStutters
<1>5. TermInvariant'
  BY <1>1, <1>2, DrawingKeepsTerm
<1> QED
  BY <1>4, <1>5

LEMMA RenderStep ==
  ASSUME RenderInvariant, [Next]_vars
  PROVE  RenderInvariant'
<1>1. QueryInvariant /\ StreamInvariant /\ TermInvariant /\ DrawInvariant
  BY DEF RenderInvariant
<1>2. CASE BeginRender
  <2>1. UNCHANGED oscVars
    BY <1>2 DEF BeginRender, Begin
  <2>2. QueryInvariant' /\ StreamInvariant'
    BY <1>1, <2>1, QueryStutters
  <2>3. TermInvariant'
    BY <1>1, <1>2, BeginRenderKeepsTerm
  <2>4. DrawInvariant'
    BY <1>1, <1>2, <2>3, BeginRenderKeepsDraw
  <2> QED
    BY <2>2, <2>3, <2>4 DEF RenderInvariant
<1>3. CASE Decide
  BY <1>1, <1>3, DecideKeeps, DecideKeepsDraw DEF RenderInvariant
<1>4. CASE DrawTokens
  BY <1>1, <1>4, DrawingKeeps, DrawTokensKeepsDraw DEF RenderInvariant
<1>5. CASE DrawParagraph
  BY <1>1, <1>5, DrawingKeeps, DrawParagraphKeepsDraw DEF RenderInvariant
<1>6. CASE WrapSpace
  BY <1>1, <1>6, DrawingKeeps, WrapSpaceKeepsDraw DEF RenderInvariant
<1>7. CASE WrapWord
  BY <1>1, <1>7, DrawingKeeps, WrapWordKeepsDraw DEF RenderInvariant
<1>8. CASE WrapEnd
  BY <1>1, <1>8, DrawingKeeps, WrapEndKeepsDraw DEF RenderInvariant
<1>9. CASE Done
  <2>1. UNCHANGED oscVars
    BY <1>9 DEF Done
  <2> QED
    BY <1>1, <1>9, <2>1, QueryStutters, DoneKeepsTerm, DoneKeepsDraw DEF RenderInvariant
<1>10. CASE Outside
  <2>1. qpc # "idle" /\ World /\ UNCHANGED <<termVars, drawVars>>
    BY <1>1, <1>10 DEF Outside, TermInvariant
  <2> QED
    BY <1>1, <1>10, <2>1, WorldKeeps, OutsideKeepsTerm, OutsideKeepsDraw DEF RenderInvariant
<1>11. CASE UNCHANGED vars
  <2>1. UNCHANGED oscVars /\ UNCHANGED <<termVars, drawVars>>
    BY <1>11 DEF vars
  <2>2. QueryInvariant' /\ StreamInvariant' /\ DrawInvariant'
    BY <1>1, <2>1, QueryStutters, OutsideKeepsDraw
  <2>3. TermInvariant'
    BY <1>1, <2>1 DEF TermInvariant, HardDisabled, ConfigPlain, Skipped, termVars, renderVars,
         cacheVars, oscVars, queryVars, lineVars
  <2> QED
    BY <2>2, <2>3 DEF RenderInvariant
<1> QED
  BY <1>2, <1>3, <1>4, <1>5, <1>6, <1>7, <1>8, <1>9, <1>10, <1>11 DEF Next, Program

\* The invariant holds of every rendering: who may ask the terminal, what is in its
\* queue, what the answer left behind, and where a style is open.
THEOREM RenderInvariantHolds == Spec => []RenderInvariant
<1>1. RenderInvariant /\ [Next]_vars => RenderInvariant'
  BY RenderStep
<1> QED
  BY <1>1, RenderStarts, PTL DEF Spec

\* The variables keep their types, whatever the environment, the text and the
\* terminal: in particular what is read never fills the buffer of
\* app_cli_osc11_query_fd, and the cursor of the wrapping stays in the text.
THEOREM RenderTypeCorrect == Spec => []RenderTypeOK
<1>1. RenderInvariant => RenderTypeOK
  BY DEF RenderInvariant, QueryInvariant, TermInvariant, DrawInvariant, RenderTypeOK
<1> QED
  BY <1>1, RenderInvariantHolds, PTL

\* A colour that the parser reports is the one the terminal answered, and the answer
\* was read to its end: nothing of it is left for the next reader of the terminal.
THEOREM FoundIsAlwaysTheAnswer == Spec => []FoundIsTheAnswer
<1>1. RenderInvariant => FoundIsTheAnswer
  <2> SUFFICES ASSUME RenderInvariant, found # "none"
               PROVE  /\ terminal \in Answers /\ found = terminal[4]
                      /\ stale \/ Len(tty \o line) <= typed
    BY DEF FoundIsTheAnswer
  <2>1. /\ terminal \in Answers /\ found = terminal[4]
        /\ stale \/ Len(tty) + Len(line) <= typed
        /\ tty \in Seq(Known) /\ line \in Seq(Known)
    BY DEF RenderInvariant, QueryInvariant
  <2>2. Len(tty \o line) = Len(tty) + Len(line)
    BY <2>1, Concatenated
  <2> QED
    BY <2>1, <2>2
<1> QED
  BY <1>1, RenderInvariantHolds, PTL

\* Between renderings the terminal is in the mode it was found in and in the plain
\* style, and no terminfo handle is held, whichever steps of the query failed and
\* wherever lines were broken.
THEOREM TerminalAlwaysLeftAsFound == Spec => []TerminalLeftAsFound
<1>1. RenderInvariant => TerminalLeftAsFound
  BY DEF RenderInvariant, QueryInvariant, TermInvariant, DrawInvariant, TerminalLeftAsFound
<1> QED
  BY <1>1, RenderInvariantHolds, PTL

\* At most one probe runs to its end in a process, and the cache says what it saw.
THEOREM CacheAlwaysHonest == Spec => []CacheHonest
<1>1. RenderInvariant => CacheHonest
  BY TermAssumption DEF RenderInvariant, TermInvariant, CacheHonest
<1> QED
  BY <1>1, RenderInvariantHolds, PTL

\* Where colours are disabled no escape sequence is written and the terminal is not
\* asked.
THEOREM DisabledIsAlwaysSilent == Spec => []DisabledIsSilent
<1>1. RenderInvariant => DisabledIsSilent
  <2> SUFFICES ASSUME RenderInvariant,
                      env.no_color \/ env.dumb \/ (request.kind \in {"help", "error"} /\ request.plain)
               PROVE  /\ ~(\E i \in DOMAIN out : out[i].op \in {"begin", "end"})
                      /\ rpc # "query"
    BY DEF DisabledIsSilent
  <2>1. HardDisabled(request)
    BY DEF HardDisabled, ConfigPlain
  <2>2. profile = "none" /\ rpc # "query"
    BY <2>1 DEF RenderInvariant, TermInvariant
  <2> QED
    BY <2>2 DEF RenderInvariant, DrawInvariant, Styled, Plain
<1> QED
  BY <1>1, RenderInvariantHolds, PTL
-----------------------------------------------------------------------------
(* Why a rendering ends *)

\* The steps that a query and a rendering can still take: a poll uses up time that
\* there is, whatever it reads.
QueryWork ==
  IF qpc = "raw" THEN Timeout + 4
  ELSE IF qpc = "write" THEN Timeout + 3
  ELSE IF qpc = "poll" THEN remaining + 2
  ELSE IF qpc = "parse" THEN 1
  ELSE 0
RenderWork ==
  IF rpc = "init" THEN Len(Text) + Timeout + 10
  ELSE IF rpc = "detect" THEN Len(Text) + Timeout + 9
  ELSE IF rpc = "query" THEN Len(Text) + QueryWork + 4
  ELSE IF rpc = "draw" THEN Len(Text) + 3
  ELSE IF rpc = "wrap" THEN Len(Text) - at + 3
  ELSE IF rpc = "drawn" THEN 1
  ELSE 0

LEMMA WorkIsNatural ==
  ASSUME RenderInvariant
  PROVE  /\ QueryWork \in Nat /\ RenderWork \in Nat
         /\ RenderWork = 0 <=> rpc = "idle"
<1>1. /\ Len(Text) \in Nat /\ Timeout \in Nat /\ remaining \in Nat
      /\ at \in 0 .. Len(Text) + 1
  BY TextIsBytes, QueryAssumption DEF RenderInvariant, QueryInvariant, TermInvariant, DrawInvariant
<1>2. QueryWork \in Nat
  BY <1>1 DEF QueryWork
<1>3. rpc \in {"idle", "init", "detect", "query", "draw", "wrap", "drawn"}
  BY DEF RenderInvariant, TermInvariant
<1>4. CASE rpc = "idle"
  BY <1>2, <1>4 DEF RenderWork
<1>5. CASE rpc \in {"init", "detect", "draw"}
  BY <1>1, <1>2, <1>5 DEF RenderWork
<1>6. CASE rpc \in {"query", "wrap", "drawn"}
  BY <1>1, <1>2, <1>6 DEF RenderWork
<1> QED
  BY <1>3, <1>4, <1>5, <1>6

\* Every step of the query has less to do after it.
LEMMA QueryProceeds ==
  ASSUME QueryInvariant, Query
  PROVE  QueryWork' < QueryWork
<1>1. /\ Timeout \in Nat /\ Slice \in Nat /\ 0 < Slice /\ remaining \in Nat
      /\ remaining <= Timeout
  BY QueryAssumption DEF QueryInvariant
<1>2. CASE MakeRaw
  BY <1>1, <1>2 DEF MakeRaw, QueryWork
<1>3. CASE WriteQuery
  <2>1. /\ qpc = "write"
        /\ (qpc' = "poll" /\ remaining' = Timeout) \/ qpc' = "done"
    BY <1>3 DEF WriteQuery
  <2> QED
    BY <1>1, <2>1 DEF QueryWork
<1>4. CASE PollFails
  BY <1>1, <1>4 DEF PollFails, MayPoll, Charged, Lesser, QueryWork
<1>5. CASE PollReads
  <2>1. /\ qpc = "poll" /\ qpc' \in {"poll", "parse"}
        /\ remaining' = remaining - Lesser(remaining, Slice) /\ remaining > 0
    BY <1>5 DEF PollReads, MayPoll, Charged
  <2> QED
    BY <1>1, <2>1 DEF Lesser, QueryWork
<1>6. CASE GiveUp
  BY <1>1, <1>6 DEF GiveUp, QueryWork
<1>7. CASE ParseAnswer
  BY <1>1, <1>7 DEF ParseAnswer, QueryWork
<1> QED
  BY <1>2, <1>3, <1>4, <1>5, <1>6, <1>7 DEF Query

\* Every step of the program has less to do after it.
LEMMA ProgramProceeds ==
  ASSUME RenderInvariant, Program
  PROVE  RenderWork' < RenderWork
<1>1. /\ QueryInvariant /\ TermInvariant /\ DrawInvariant
      /\ Text \in Seq(Bytes) /\ Len(Text) \in Nat /\ Timeout \in Nat
      /\ at \in 0 .. Len(Text) + 1 /\ QueryWork \in Nat
  BY TextIsBytes, QueryAssumption, WorkIsNatural DEF RenderInvariant, DrawInvariant
<1>2. CASE TermSetup
  <2>1. /\ rpc = "init" /\ rpc' \in {"draw", "detect"} /\ Text' = Text
    BY <1>2 DEF TermSetup, Text
  <2> QED
    BY <1>1, <2>1 DEF RenderWork
<1>3. CASE UseCache \/ SkipProbe \/ ProbeHook
  <2>1. rpc = "detect" /\ rpc' = "draw" /\ Text' = Text
    BY <1>3 DEF UseCache, SkipProbe, Skip, ProbeHook, Commit, Text
  <2> QED
    BY <1>1, <2>1 DEF RenderWork
<1>4. CASE Ask
  <2>1. rpc = "detect" /\ rpc' = "query" /\ qpc' = "raw" /\ Text' = Text
    BY <1>4 DEF Ask, StartQuery, Text, renderVars
  <2>2. QueryWork' = Timeout + 4
    BY <2>1 DEF QueryWork
  <2> QED
    BY <1>1, <2>1, <2>2 DEF RenderWork
<1>5. CASE Asking
  <2>1. rpc = "query" /\ rpc' = "query" /\ Text' = Text
    BY <1>5 DEF Asking, termVars, renderVars, Text
  <2>2. QueryWork' < QueryWork
    BY <1>1, <1>5, QueryProceeds DEF Asking
  <2>3. RenderWork' = Len(Text) + QueryWork' + 4 /\ RenderWork = Len(Text) + QueryWork + 4
    BY <2>1 DEF RenderWork
  <2>4. QueryInvariant'
    BY <1>1, <1>5, QueryKeeps DEF Asking, RenderInvariant
  <2>5. QueryWork' \in Nat
    <3>1. PICK left \in Nat : remaining' = left
      BY <2>4, QueryAssumption DEF QueryInvariant
    <3>2. QueryWork' \in {Timeout + 4, Timeout + 3, left + 2, 1, 0}
      BY <3>1 DEF QueryWork
    <3>3. Timeout \in Nat
      BY QueryAssumption
    <3> QED
      BY <3>2, <3>3
  <2> QED
    BY <1>1, <2>2, <2>3, <2>5
<1>6. CASE Answered
  <2>1. rpc = "query" /\ rpc' = "draw" /\ Text' = Text
    BY <1>6 DEF Answered, Commit, Text
  <2> QED
    BY <1>1, <2>1 DEF RenderWork
<1>7. CASE DrawTokens
  <2>1. rpc = "draw" /\ rpc' = "drawn"
    BY <1>7 DEF DrawTokens
  <2> QED
    BY <1>1, <2>1 DEF RenderWork
<1>8. CASE DrawParagraph
  <2>1. rpc = "draw" /\ rpc' \in {"wrap", "drawn"} /\ at' = 1 /\ Text' = Text
    BY <1>8 DEF DrawParagraph, renderVars, Text
  <2> QED
    BY <1>1, <2>1 DEF RenderWork
<1>9. CASE WrapSpace
  <2>1. rpc = "wrap" /\ rpc' = "wrap" /\ at' = at + 1 /\ Text' = Text
    BY <1>9 DEF WrapSpace, termVars, renderVars, Text
  <2> QED
    BY <1>1, <2>1 DEF RenderWork
<1>10. CASE WrapWord
  <2>1. /\ rpc = "wrap" /\ rpc' = "wrap" /\ Text' = Text
        /\ at' = CliWordEnd(Text, at) + 1 /\ Text[at] # Space /\ at \in 1 .. Len(Text)
    BY <1>1, <1>10 DEF WrapWord, termVars, renderVars, Text, DrawInvariant
  <2>2. CliWordEnd(Text, at) \in at .. Len(Text)
    BY <1>1, <2>1, WordHasEnd
  <2> QED
    BY <1>1, <2>1, <2>2 DEF RenderWork
<1>11. CASE WrapEnd
  <2>1. rpc = "wrap" /\ rpc' = "drawn"
    BY <1>11 DEF WrapEnd
  <2> QED
    BY <1>1, <2>1 DEF RenderWork
<1>12. CASE Done
  <2>1. rpc = "drawn" /\ rpc' = "idle"
    BY <1>12 DEF Done, Deinit
  <2> QED
    BY <2>1 DEF RenderWork
<1> QED
  BY <1>2, <1>3, <1>4, <1>5, <1>6, <1>7, <1>8, <1>9, <1>10, <1>11, <1>12 DEF Program, Decide

\* Every step of a rendering brings it nearer to its end, in which the terminal and
\* the user, who may type without end, have no say (the loops of cli_term_osc11.c:118
\* and app_cli_wrap_from): with the fairness of Spec this is why RenderEnds holds, for
\* every text, time-out and slice of it.
THEOREM RenderAlwaysProceeds ==
  Spec => /\ [](RenderWork \in Nat /\ (RenderWork = 0 <=> rpc = "idle"))
          /\ [][/\ Program => RenderWork' < RenderWork
                /\ Outside => RenderWork' = RenderWork]_vars
<1>1. RenderInvariant => RenderWork \in Nat /\ (RenderWork = 0 <=> rpc = "idle")
  BY WorkIsNatural
<1>2. Outside => RenderWork' = RenderWork
  BY DEF Outside, World, Arrive, Type, queryVars, termVars, renderVars, drawVars, wrapVars,
         RenderWork, QueryWork, Text
<1>3. RenderInvariant /\ [Next]_vars =>
        [/\ Program => RenderWork' < RenderWork
         /\ Outside => RenderWork' = RenderWork]_vars
  BY <1>2, ProgramProceeds
<1> QED
  BY <1>1, <1>3, RenderInvariantHolds, PTL DEF Spec
-----------------------------------------------------------------------------
(* How a paragraph is laid out *)

RequestOK(r) ==
  /\ r.text \in Seq(Bytes)
  /\ r.start_col \in Nat /\ r.cont_indent \in Nat /\ r.width \in Nat

\* What is written has its words measured.
Measured(r, w) == w \in Seq(Ops) /\ \A k \in WordsOf(w) : WordCols(r, w[k]) \in Nat

\* Writing one more operation.
LEMMA OneMore ==
  ASSUME NEW w \in Seq(Ops), NEW o \in Ops
  PROVE  /\ w \o <<o>> \in Seq(Ops) /\ Len(w \o <<o>>) = Len(w) + 1
         /\ \A k \in 1 .. Len(w) : (w \o <<o>>)[k] = w[k]
         /\ (w \o <<o>>)[Len(w) + 1] = o
         /\ DOMAIN (w \o <<o>>) = 1 .. Len(w) + 1
         /\ WordsOf(w) \subseteq 1 .. Len(w) /\ BreaksOf(w) \subseteq 1 .. Len(w)
         /\ WordsOf(w \o <<o>>) = WordsOf(w) \cup (IF o.op = "word" THEN {Len(w) + 1} ELSE {})
         /\ BreaksOf(w \o <<o>>) = BreaksOf(w) \cup (IF o.op = "nl" THEN {Len(w) + 1} ELSE {})
<1> DEFINE n == Len(w)
           t == w \o <<o>>
<1>1. /\ t \in Seq(Ops) /\ Len(t) = n + 1 /\ n \in Nat
      /\ \A k \in 1 .. n : t[k] = w[k]
      /\ t[n + 1] = o
  OBVIOUS
<1>2. DOMAIN t = 1 .. n + 1 /\ DOMAIN w = 1 .. n
  BY <1>1
<1> HIDE DEF t, n
<1>3. \A k \in 1 .. n + 1 : k \in 1 .. n \/ k = n + 1
  BY <1>1
<1>4. \A k \in 1 .. n : k \in 1 .. n + 1
  BY <1>1
<1>5. WordsOf(t) = WordsOf(w) \cup (IF o.op = "word" THEN {n + 1} ELSE {})
  BY <1>1, <1>2, <1>3, <1>4 DEF WordsOf
<1>6. BreaksOf(t) = BreaksOf(w) \cup (IF o.op = "nl" THEN {n + 1} ELSE {})
  BY <1>1, <1>2, <1>3, <1>4 DEF BreaksOf
<1>7. WordsOf(w) \subseteq 1 .. n /\ BreaksOf(w) \subseteq 1 .. n
  BY <1>2 DEF WordsOf, BreaksOf
<1> QED
  BY <1>1, <1>2, <1>5, <1>6, <1>7 DEF t, n

LEMMA OneMoreOf ==
  ASSUME NEW w \in Seq(Ops), NEW o \in Ops
  PROVE  /\ o.op = "word" => WordsOf(w \o <<o>>) = WordsOf(w) \cup {Len(w) + 1}
         /\ o.op # "word" => WordsOf(w \o <<o>>) = WordsOf(w)
         /\ o.op = "nl" => BreaksOf(w \o <<o>>) = BreaksOf(w) \cup {Len(w) + 1}
         /\ o.op # "nl" => BreaksOf(w \o <<o>>) = BreaksOf(w)
<1>1. /\ WordsOf(w \o <<o>>) = WordsOf(w) \cup (IF o.op = "word" THEN {Len(w) + 1} ELSE {})
      /\ BreaksOf(w \o <<o>>) = BreaksOf(w) \cup (IF o.op = "nl" THEN {Len(w) + 1} ELSE {})
  BY OneMore
<1> QED
  BY <1>1

\* Cursor is the recursive function it is written as.
LEMMA CursorIs ==
  ASSUME NEW r, RequestOK(r), NEW w, Measured(r, w)
  PROVE  /\ \A k \in 0 .. Len(w) : Cursor(r, w)[k] \in Nat
         /\ Cursor(r, w)[0] = r.start_col
         /\ \A k \in 1 .. Len(w) : Cursor(r, w)[k] = Moves(r, Cursor(r, w)[k - 1], w[k])
<1> DEFINE N == Len(w)
           F == [k \in 1 .. N |-> [c \in Nat |-> Moves(r, c, w[k])]]
           Eq(g) == g = [k \in 0 .. N |-> IF k = 0 THEN r.start_col ELSE Moves(r, g[k - 1], w[k])]
           from == CHOOSE g : Eq(g)
<1>1. N \in Nat /\ DOMAIN w = 1 .. N
  BY DEF Measured
<1>2. \A k \in 1 .. N : \A c \in Nat : Moves(r, c, w[k]) \in Nat
  <2> SUFFICES ASSUME NEW k \in 1 .. N, NEW c \in Nat
               PROVE  Moves(r, c, w[k]) \in Nat
    OBVIOUS
  <2>1. w[k].op = "word" => WordCols(r, w[k]) \in Nat
    BY <1>1 DEF Measured, WordsOf
  <2> QED
    BY <2>1 DEF Moves, RequestOK
<1>3. F \in [1 .. N -> [Nat -> Nat]] /\ r.start_col \in Nat
  BY <1>2 DEF RequestOK
<1>4. PICK g : Folded(g, Nat, r.start_col, N, F)
  <2> HIDE DEF F, N
  <2> QED
    BY <1>1, <1>3, FoldExists
<1>5. /\ g \in [0 .. N -> Nat] /\ g[0] = r.start_col
      /\ \A k \in 1 .. N : g[k] = Moves(r, g[k - 1], w[k])
  <2>1. /\ g \in [0 .. N -> Nat] /\ g[0] = r.start_col
        /\ \A k \in 1 .. N : g[k] = F[k][g[k - 1]]
    BY <1>4 DEF Folded
  <2>2. ASSUME NEW k \in 1 .. N
        PROVE  g[k] = Moves(r, g[k - 1], w[k])
    <3>1. g[k - 1] \in Nat
      BY <1>1, <2>1
    <3>2. \A c \in Nat : F[k][c] = Moves(r, c, w[k])
      OBVIOUS
    <3> HIDE DEF F
    <3> QED
      BY <2>1, <3>1, <3>2
  <2> QED
    BY <2>1, <2>2
<1>6. Eq(g)
  <2>1. g = [k \in 0 .. N |-> g[k]]
    BY <1>5
  <2>2. \A k \in 0 .. N : g[k] = IF k = 0 THEN r.start_col ELSE Moves(r, g[k - 1], w[k])
    BY <1>1, <1>5
  <2> QED
    BY <2>1, <2>2
<1>7. Eq(from)
  <2> HIDE DEF Eq
  <2> QED
    BY <1>6
<1>8. Cursor(r, w) = from
  BY DEF Cursor
<1> HIDE DEF from
<1>9. /\ from[0] = r.start_col
      /\ \A k \in 1 .. N : from[k] = Moves(r, from[k - 1], w[k])
  <2>1. 0 \in 0 .. N /\ \A k \in 1 .. N : k \in 0 .. N /\ k # 0
    BY <1>1
  <2> QED
    BY <1>7, <2>1
<1>10. \A k \in 0 .. N : from[k] \in Nat
  <2> DEFINE S == {k \in 0 .. N : from[k] \in Nat}
  <2>1. 0 \in S
    BY <1>1, <1>3, <1>9
  <2>2. ASSUME NEW k \in 0 .. N - 1, k \in S
        PROVE  k + 1 \in S
    <3>1. k + 1 \in 1 .. N /\ (k + 1) - 1 = k /\ k + 1 \in 0 .. N
      BY <1>1
    <3> QED
      BY <1>2, <1>9, <2>2, <3>1
  <2>3. \A k \in 0 .. N : k \in S
    <3> HIDE DEF S, N
    <3> QED
      BY <1>1, <2>1, <2>2, Upwards
  <2> QED
    BY <2>3
<1> QED
  BY <1>8, <1>9, <1>10

\* What is written later does not change where the cursor was.
LEMMA CursorMore ==
  ASSUME NEW r, RequestOK(r), NEW w, Measured(r, w), NEW o \in Ops, Measured(r, w \o <<o>>)
  PROVE  /\ \A k \in 0 .. Len(w) : Cursor(r, w \o <<o>>)[k] = Cursor(r, w)[k]
         /\ Cursor(r, w \o <<o>>)[Len(w) + 1] = Moves(r, Cursor(r, w)[Len(w)], o)
<1> DEFINE n == Len(w)
           t == w \o <<o>>
           S == {k \in 0 .. n : Cursor(r, t)[k] = Cursor(r, w)[k]}
<1>1. /\ n \in Nat /\ Len(t) = n + 1 /\ t[n + 1] = o
      /\ \A k \in 1 .. n : t[k] = w[k]
  BY OneMore DEF Measured
<1>2. /\ Cursor(r, w)[0] = r.start_col
      /\ \A k \in 1 .. n : Cursor(r, w)[k] = Moves(r, Cursor(r, w)[k - 1], w[k])
  BY CursorIs
<1>3. /\ Cursor(r, t)[0] = r.start_col
      /\ \A k \in 1 .. n + 1 : Cursor(r, t)[k] = Moves(r, Cursor(r, t)[k - 1], t[k])
  <2>1. Measured(r, t)
    OBVIOUS
  <2> HIDE DEF t
  <2>2. /\ Cursor(r, t)[0] = r.start_col
        /\ \A k \in 1 .. Len(t) : Cursor(r, t)[k] = Moves(r, Cursor(r, t)[k - 1], t[k])
    BY <2>1, CursorIs
  <2> QED
    BY <1>1, <2>2
<1> HIDE DEF t
<1>4. 0 \in S
  BY <1>1, <1>2, <1>3
<1>5. ASSUME NEW k \in 0 .. n - 1, k \in S
      PROVE  k + 1 \in S
  <2>1. k + 1 \in 1 .. n /\ k + 1 \in 1 .. n + 1 /\ k + 1 \in 0 .. n /\ (k + 1) - 1 = k
    BY <1>1
  <2> QED
    BY <1>1, <1>2, <1>3, <1>5, <2>1
<1>6. \A k \in 0 .. n : k \in S
  <2> HIDE DEF S, n
  <2> QED
    BY <1>1, <1>4, <1>5, Upwards
<1>7. Cursor(r, t)[n + 1] = Moves(r, Cursor(r, w)[n], o)
  <2>1. n + 1 \in 1 .. n + 1 /\ (n + 1) - 1 = n /\ n \in S
    BY <1>1, <1>6
  <2> QED
    BY <1>1, <1>3, <2>1
<1> QED
  BY <1>6, <1>7 DEF t

\* The break at k is followed by a word that would not have fitted before it.
Refilled(r, w, k) ==
  \E m \in WordsOf(w) :
    /\ k < m /\ \A j \in k + 1 .. m - 1 : j \notin WordsOf(w) \cup BreaksOf(w)
    /\ Cursor(r, w)[k - 1] + 1 + WordCols(r, w[m]) > r.width

LastWords(w) == WordsBefore(w, Len(w) + 1)

\* What is written so far, with the cursor in column c and in style s: all breaks but
\* k0, if that is one, are followed by what they were made for.
Laid(r, w, c, s, k0) ==
  /\ Measured(r, w)
  /\ InOrder(w)
  /\ Cursor(r, w)[Len(w)] = c
  /\ StyleAfter(FALSE, w) = s
  /\ StylesClosed(w)
  /\ \A k \in BreaksOf(w) :
       /\ Cursor(r, w)[k - 1] > r.width => \A i, j \in WordsBefore(w, k) : i = j
       /\ k = k0 \/ Refilled(r, w, k)

\* The break k0 was made in column c, and no word has been written since.
Open(r, w, k0, c) ==
  /\ k0 \in BreaksOf(w) /\ Cursor(r, w)[k0 - 1] = c
  /\ \A j \in k0 + 1 .. Len(w) : j \notin WordsOf(w) \cup BreaksOf(w)

\* The words of lines that are already written are still theirs.
LEMMA WordsBeforeMore ==
  ASSUME NEW w \in Seq(Ops), NEW o \in Ops
  PROVE  /\ \A k \in 1 .. Len(w) + 1 : WordsBefore(w \o <<o>>, k) = WordsBefore(w, k)
         /\ o.op = "nl" => LastWords(w \o <<o>>) = {}
         /\ o.op = "word" => \A i \in LastWords(w \o <<o>>) : i \in LastWords(w) \/ i = Len(w) + 1
         /\ o.op \notin {"nl", "word"} => LastWords(w \o <<o>>) = LastWords(w)
<1> DEFINE n == Len(w)
           t == w \o <<o>>
<1>1. /\ n \in Nat /\ Len(t) = n + 1
      /\ WordsOf(w) \subseteq 1 .. n /\ BreaksOf(w) \subseteq 1 .. n
      /\ WordsOf(t) = WordsOf(w) \cup (IF o.op = "word" THEN {n + 1} ELSE {})
      /\ BreaksOf(t) = BreaksOf(w) \cup (IF o.op = "nl" THEN {n + 1} ELSE {})
  BY OneMore
<1> HIDE DEF n, t
<1>2. ASSUME NEW k \in 1 .. n + 1
      PROVE  WordsBefore(t, k) = WordsBefore(w, k)
  <2>1. ASSUME NEW i
        PROVE  i \in WordsOf(t) /\ i < k <=> i \in WordsOf(w) /\ i < k
    BY <1>1
  <2>2. ASSUME NEW i \in WordsOf(w), NEW j \in i .. k - 1
        PROVE  j \in BreaksOf(t) <=> j \in BreaksOf(w)
    BY <1>1
  <2> QED
    BY <2>1, <2>2 DEF WordsBefore
<1>3. ASSUME NEW i
      PROVE  i \in LastWords(t) <=>
               /\ i \in WordsOf(t) /\ i < n + 2
               /\ \A j \in i .. n + 1 : j \notin BreaksOf(t)
  BY <1>1 DEF LastWords, WordsBefore
<1>4. ASSUME NEW i
      PROVE  i \in LastWords(w) <=>
               /\ i \in WordsOf(w) /\ i < n + 1
               /\ \A j \in i .. n : j \notin BreaksOf(w)
  BY <1>1 DEF LastWords, WordsBefore, n
<1>5. ASSUME o.op = "nl"
      PROVE  LastWords(t) = {}
  <2>1. n + 1 \in BreaksOf(t) /\ \A i \in WordsOf(t) : n + 1 \in i .. n + 1
    BY <1>1, <1>5
  <2> QED
    BY <1>3, <2>1
<1>6. ASSUME o.op # "nl", NEW i, i # n + 1
      PROVE  i \in LastWords(t) <=> i \in LastWords(w)
  <2>1. BreaksOf(t) = BreaksOf(w) /\ (i \in WordsOf(t) <=> i \in WordsOf(w))
    BY <1>1, <1>6
  <2>2. i \in WordsOf(w) => i \in 1 .. n
    BY <1>1
  <2>3. ASSUME i \in 1 .. n
        PROVE  (\A j \in i .. n + 1 : j \notin BreaksOf(w)) <=> (\A j \in i .. n : j \notin BreaksOf(w))
    BY <1>1, <2>3
  <2> QED
    BY <1>1, <1>3, <1>4, <2>1, <2>2, <2>3
<1>7. ASSUME o.op \notin {"nl", "word"}
      PROVE  LastWords(t) = LastWords(w)
  <2>1. n + 1 \notin LastWords(t) /\ n + 1 \notin LastWords(w)
    BY <1>1, <1>3, <1>4, <1>7
  <2>2. \A i : i \in LastWords(t) <=> i \in LastWords(w)
    BY <1>6, <1>7, <2>1
  <2> QED
    BY <2>2
<1> QED
  BY <1>2, <1>5, <1>6, <1>7 DEF t, n

\* One more operation, where it may be written.
LEMMA LaidMore ==
  ASSUME NEW r, RequestOK(r), NEW w, NEW c, NEW s \in BOOLEAN, NEW k0, NEW k1,
         Laid(r, w, c, s, k0), NEW o \in Ops,
         o.op = "word" => WordCols(r, o) \in Nat /\ \A k \in WordsOf(w) : w[k].to < o.from,
         o.op = "nl" => (c > r.width => \A i, j \in LastWords(w) : i = j),
         o.op \in {"nl", "pad"} => ~s,
         \A k \in BreaksOf(w \o <<o>>) :
           k = k1 \/ (k \in BreaksOf(w) /\ k # k0) \/ Refilled(r, w \o <<o>>, k)
  PROVE  Laid(r, w \o <<o>>, Moves(r, c, o), StyleAfter(s, <<o>>), k1)
<1> DEFINE n == Len(w)
           t == w \o <<o>>
<1>1. w \in Seq(Ops) /\ n \in Nat /\ Measured(r, w)
  BY DEF Laid, Measured
<1>2. /\ t \in Seq(Ops) /\ Len(t) = n + 1 /\ DOMAIN t = 1 .. n + 1
      /\ \A k \in 1 .. n : t[k] = w[k]
      /\ t[n + 1] = o
      /\ WordsOf(w) \subseteq 1 .. n /\ BreaksOf(w) \subseteq 1 .. n
      /\ WordsOf(t) = WordsOf(w) \cup (IF o.op = "word" THEN {n + 1} ELSE {})
      /\ BreaksOf(t) = BreaksOf(w) \cup (IF o.op = "nl" THEN {n + 1} ELSE {})
  BY <1>1, OneMore
<1>3. Measured(r, t)
  <2> HIDE DEF t, n
  <2> SUFFICES ASSUME NEW k \in WordsOf(t)
               PROVE  WordCols(r, t[k]) \in Nat
    BY <1>2 DEF Measured
  <2>1. CASE k \in WordsOf(w)
    BY <1>1, <1>2, <2>1 DEF Measured
  <2>2. CASE k \notin WordsOf(w)
    BY <1>2, <2>2
  <2> QED
    BY <2>1, <2>2
<1>4. /\ \A k \in 0 .. n : Cursor(r, t)[k] = Cursor(r, w)[k]
      /\ Cursor(r, t)[n + 1] = Moves(r, Cursor(r, w)[n], o)
  BY <1>1, <1>3, CursorMore
<1>5. Cursor(r, t)[Len(t)] = Moves(r, c, o)
  BY <1>2, <1>4 DEF Laid
<1>6. \A k \in 1 .. n + 1 : WordsBefore(t, k) = WordsBefore(w, k)
  BY <1>1, WordsBeforeMore
<1>7. StyleAfter(FALSE, t) = StyleAfter(s, <<o>>)
  <2>1. <<o>> \in Seq(Ops)
    OBVIOUS
  <2>2. StyleAfter(FALSE, w) = s
    BY DEF Laid
  <2> QED
    BY <1>1, <2>1, <2>2, StyleAfterBoth
<1>8. /\ \A k \in 1 .. n : SubSeq(t, 1, k) = SubSeq(w, 1, k)
      /\ SubSeq(t, 1, n + 1) = t
  <2>1. ASSUME NEW k \in 1 .. n
        PROVE  SubSeq(t, 1, k) = SubSeq(w, 1, k)
    <3> HIDE DEF t
    <3>1. /\ SubSeq(t, 1, k) \in Seq(Ops) /\ Len(SubSeq(t, 1, k)) = k
          /\ \A i \in 1 .. k : SubSeq(t, 1, k)[i] = t[i]
      BY <1>2
    <3>2. /\ SubSeq(w, 1, k) \in Seq(Ops) /\ Len(SubSeq(w, 1, k)) = k
          /\ \A i \in 1 .. k : SubSeq(w, 1, k)[i] = w[i]
      BY <1>1
    <3>3. \A i \in 1 .. k : t[i] = w[i]
      BY <1>2
    <3> QED
      BY <3>1, <3>2, <3>3, SeqEqual
  <2>2. SubSeq(t, 1, n + 1) = t
    <3> HIDE DEF t, n
    <3>1. /\ SubSeq(t, 1, n + 1) \in Seq(Ops) /\ Len(SubSeq(t, 1, n + 1)) = n + 1
          /\ \A i \in 1 .. n + 1 : SubSeq(t, 1, n + 1)[i] = t[i]
      BY <1>1, <1>2
    <3> QED
      BY <1>2, <3>1, SeqEqual
  <2> QED
    BY <2>1, <2>2
<1> HIDE DEF t, n
<1>9. InOrder(t)
  <2> SUFFICES ASSUME NEW i \in WordsOf(t), NEW j \in WordsOf(t), i < j
               PROVE  t[i].to < t[j].from
    BY DEF InOrder
  <2>1. i \in WordsOf(w)
    BY <1>1, <1>2
  <2>2. CASE j \in WordsOf(w)
    BY <1>2, <2>1, <2>2 DEF InOrder, Laid
  <2>3. CASE j \notin WordsOf(w)
    <3>1. o.op = "word" /\ j = n + 1
      BY <1>2, <2>3
    <3> QED
      BY <1>2, <2>1, <3>1
  <2> QED
    BY <2>2, <2>3
<1>10. StylesClosed(t)
  <2> SUFFICES ASSUME NEW k \in 1 .. n + 1, t[k].op \in {"nl", "pad"}
               PROVE  ~StyleAfter(FALSE, SubSeq(t, 1, k))
    BY <1>2 DEF StylesClosed
  <2>1. CASE k \in 1 .. n
    <3>1. DOMAIN w = 1 .. n
      BY <1>1 DEF n
    <3> QED
      BY <1>2, <1>8, <2>1, <3>1 DEF Laid, StylesClosed
  <2>2. CASE k = n + 1
    <3>1. o.op \in {"nl", "pad"} /\ ~s
      BY <1>2, <2>2
    <3>2. Plain(<<o>>)
      BY <3>1 DEF Plain
    <3>3. StyleAfter(s, <<o>>) = s
      BY <3>2, PlainKeepsStyle
    <3> QED
      BY <1>7, <1>8, <2>2, <3>1, <3>3
  <2>3. k \in 1 .. n \/ k = n + 1
    BY <1>1
  <2> QED
    BY <2>1, <2>2, <2>3
<1>11. ASSUME NEW k \in BreaksOf(w)
       PROVE  Refilled(r, w, k) => Refilled(r, t, k)
  <2> SUFFICES ASSUME Refilled(r, w, k)
               PROVE  Refilled(r, t, k)
    OBVIOUS
  <2>1. PICK m \in WordsOf(w) :
          /\ k < m /\ \A j \in k + 1 .. m - 1 : j \notin WordsOf(w) \cup BreaksOf(w)
          /\ Cursor(r, w)[k - 1] + 1 + WordCols(r, w[m]) > r.width
    BY DEF Refilled
  <2>2. k \in 1 .. n /\ m \in 1 .. n /\ k - 1 \in 0 .. n /\ m \in WordsOf(t) /\ t[m] = w[m]
    BY <1>1, <1>2
  <2>3. \A j \in k + 1 .. m - 1 : j \notin WordsOf(t) \cup BreaksOf(t)
    <3>1. \A j \in k + 1 .. m - 1 : j # n + 1
      BY <1>1, <2>2
    <3> QED
      BY <1>2, <2>1, <3>1
  <2>4. Cursor(r, t)[k - 1] = Cursor(r, w)[k - 1]
    BY <1>4, <2>2
  <2> QED
    BY <2>1, <2>2, <2>3, <2>4 DEF Refilled
<1>12. ASSUME NEW k \in BreaksOf(t)
       PROVE  /\ Cursor(r, t)[k - 1] > r.width => \A i, j \in WordsBefore(t, k) : i = j
              /\ k = k1 \/ Refilled(r, t, k)
  <2>1. Cursor(r, t)[k - 1] > r.width => \A i, j \in WordsBefore(t, k) : i = j
    <3>1. CASE k \in BreaksOf(w)
      <4>1. k \in 1 .. n /\ k \in 1 .. n + 1 /\ k - 1 \in 0 .. n
        BY <1>1, <1>2, <3>1
      <4>2. Cursor(r, t)[k - 1] = Cursor(r, w)[k - 1] /\ WordsBefore(t, k) = WordsBefore(w, k)
        BY <1>4, <1>6, <4>1
      <4>3. Cursor(r, w)[k - 1] > r.width => \A i, j \in WordsBefore(w, k) : i = j
        BY <3>1 DEF Laid
      <4> QED
        BY <4>2, <4>3
    <3>2. CASE k \notin BreaksOf(w)
      <4>1. o.op = "nl" /\ k = n + 1
        BY <1>2, <3>2
      <4>2. k - 1 = n /\ n \in 0 .. n /\ n + 1 \in 1 .. n + 1
        BY <1>1, <4>1
      <4>3. WordsBefore(t, k) = LastWords(w) /\ Cursor(r, t)[k - 1] = c
        BY <1>4, <1>6, <4>1, <4>2 DEF LastWords, Laid, n
      <4> QED
        BY <4>1, <4>3
    <3> QED
      BY <3>1, <3>2
  <2>2. k = k1 \/ Refilled(r, t, k)
    <3>1. k = k1 \/ (k \in BreaksOf(w) /\ k # k0) \/ Refilled(r, t, k)
      BY DEF t
    <3>2. CASE k \in BreaksOf(w) /\ k # k0
      <4>1. Refilled(r, w, k)
        BY <3>2 DEF Laid
      <4> QED
        BY <1>11, <3>2, <4>1
    <3> QED
      BY <3>1, <3>2
  <2> QED
    BY <2>1, <2>2
<1> QED
  BY <1>3, <1>5, <1>7, <1>9, <1>10, <1>12 DEF Laid, t

\* Nothing is written yet.
LEMMA LaidFirst ==
  ASSUME NEW r, RequestOK(r)
  PROVE  Laid(r, <<>>, r.start_col, FALSE, 0) /\ WordsOf(<<>>) = {}
<1>1. <<>> \in Seq(Ops) /\ Len(<<>>) = 0 /\ DOMAIN <<>> = {}
  OBVIOUS
<1>2. WordsOf(<<>>) = {} /\ BreaksOf(<<>>) = {}
  BY <1>1 DEF WordsOf, BreaksOf
<1>3. Measured(r, <<>>)
  BY <1>1, <1>2 DEF Measured
<1>4. Cursor(r, <<>>)[0] = r.start_col
  BY <1>3, CursorIs
<1>5. StyleAfter(FALSE, <<>>) = FALSE
  BY <1>1 DEF StyleAfter
<1> QED
  BY <1>1, <1>2, <1>3, <1>4, <1>5 DEF Laid, InOrder, StylesClosed

\* Writing what is neither a word nor the end of a line.
LEMMA LaidBetween ==
  ASSUME NEW r, RequestOK(r), NEW w, NEW c, NEW s \in BOOLEAN, NEW k0, Laid(r, w, c, s, k0),
         NEW o \in Ops, o.op \notin {"nl", "word"}, o.op = "pad" => ~s
  PROVE  /\ Laid(r, w \o <<o>>, Moves(r, c, o), StyleAfter(s, <<o>>), k0)
         /\ WordsOf(w \o <<o>>) = WordsOf(w) /\ LastWords(w \o <<o>>) = LastWords(w)
         /\ \A k \in WordsOf(w) : (w \o <<o>>)[k] = w[k]
         /\ \A k1, c1 : Open(r, w, k1, c1) => Open(r, w \o <<o>>, k1, c1)
<1> DEFINE n == Len(w)
           t == w \o <<o>>
<1>1. w \in Seq(Ops) /\ n \in Nat /\ Measured(r, w)
  BY DEF Laid, Measured
<1>2. /\ Len(t) = n + 1
      /\ \A k \in 1 .. n : t[k] = w[k]
      /\ WordsOf(w) \subseteq 1 .. n /\ BreaksOf(w) \subseteq 1 .. n
      /\ WordsOf(t) = WordsOf(w) /\ BreaksOf(t) = BreaksOf(w)
  BY <1>1, OneMore, OneMoreOf
<1>3. Laid(r, t, Moves(r, c, o), StyleAfter(s, <<o>>), k0)
  <2>1. \A k \in BreaksOf(t) : k = k0 \/ (k \in BreaksOf(w) /\ k # k0) \/ Refilled(r, t, k)
    BY <1>2
  <2> QED
    BY <2>1, LaidMore
<1>4. LastWords(t) = LastWords(w)
  BY <1>1, WordsBeforeMore
<1>5. ASSUME NEW k1, NEW c1, Open(r, w, k1, c1)
      PROVE  Open(r, t, k1, c1)
  <2>1. /\ k1 \in BreaksOf(t) /\ Cursor(r, w)[k1 - 1] = c1
        /\ \A j \in k1 + 1 .. n : j \notin WordsOf(t) \cup BreaksOf(t)
    BY <1>2, <1>5 DEF Open
  <2>2. k1 \in 1 .. n /\ k1 - 1 \in 0 .. n
    BY <1>1, <1>2, <2>1
  <2>3. Measured(r, t)
    BY <1>3 DEF Laid
  <2>4. Cursor(r, t)[k1 - 1] = c1
    <3>1. \A k \in 0 .. n : Cursor(r, t)[k] = Cursor(r, w)[k]
      BY <1>1, <2>3, CursorMore
    <3> QED
      BY <2>1, <2>2, <3>1
  <2>5. \A j \in k1 + 1 .. Len(t) : j \notin WordsOf(t) \cup BreaksOf(t)
    <3> HIDE DEF t, n
    <3>1. n + 1 \notin WordsOf(t) \cup BreaksOf(t)
      BY <1>1, <1>2
    <3>2. \A j \in k1 + 1 .. n + 1 : j \in k1 + 1 .. n \/ j = n + 1
      BY <1>1, <2>2
    <3> QED
      BY <1>2, <2>1, <3>1, <3>2
  <2> QED
    BY <2>1, <2>4, <2>5 DEF Open
<1> QED
  BY <1>2, <1>3, <1>4, <1>5

\* Ending a line.
LEMMA LaidBreak ==
  ASSUME NEW r, RequestOK(r), NEW w, NEW c, Laid(r, w, c, FALSE, 0),
         c > r.width => \A i, j \in LastWords(w) : i = j
  PROVE  /\ Laid(r, w \o <<Op("nl")>>, 0, FALSE, Len(w) + 1)
         /\ WordsOf(w \o <<Op("nl")>>) = WordsOf(w) /\ LastWords(w \o <<Op("nl")>>) = {}
         /\ \A k \in WordsOf(w) : (w \o <<Op("nl")>>)[k] = w[k]
         /\ Open(r, w \o <<Op("nl")>>, Len(w) + 1, c)
<1> DEFINE n == Len(w)
           o == Op("nl")
           t == w \o <<o>>
<1>1. w \in Seq(Ops) /\ n \in Nat /\ Measured(r, w)
  BY DEF Laid, Measured
<1>2. o \in Ops /\ o.op = "nl" /\ StyleAfter(FALSE, <<o>>) = FALSE
  BY Pieces, PlainKeepsStyle DEF Op, Ops
<1> HIDE DEF o
<1>3. /\ Len(t) = n + 1
      /\ \A k \in 1 .. n : t[k] = w[k]
      /\ WordsOf(w) \subseteq 1 .. n /\ BreaksOf(w) \subseteq 1 .. n
      /\ WordsOf(t) = WordsOf(w) /\ BreaksOf(t) = BreaksOf(w) \cup {n + 1}
  BY <1>1, <1>2, OneMore, OneMoreOf
<1>4. Laid(r, t, 0, FALSE, n + 1)
  <2>1. \A k \in BreaksOf(t) : k = n + 1 \/ (k \in BreaksOf(w) /\ k # 0) \/ Refilled(r, t, k)
    BY <1>1, <1>3
  <2>2. Moves(r, c, o) = 0
    BY <1>2 DEF Moves
  <2> QED
    BY <1>2, <2>1, <2>2, LaidMore
<1>5. LastWords(t) = {}
  BY <1>1, <1>2, WordsBeforeMore
<1>6. Measured(r, t)
  BY <1>4 DEF Laid
<1>7. Cursor(r, t)[n] = Cursor(r, w)[n] /\ Cursor(r, w)[n] = c
  <2>1. n \in 0 .. n
    BY <1>1
  <2> QED
    BY <1>1, <1>2, <1>6, <2>1, CursorMore DEF Laid
<1>8. Open(r, t, n + 1, c)
  <2> HIDE DEF t, n
  <2>1. (n + 1) - 1 = n /\ (n + 1) + 1 .. n + 1 = {}
    BY <1>1
  <2> QED
    BY <1>3, <1>7, <2>1 DEF Open
<1> QED
  BY <1>3, <1>4, <1>5, <1>8 DEF o

\* The break k0, if it is one, was made for a word of wcols columns, which is still to
\* be written.
Waiting(r, w, k0, wcols) == k0 = 0 \/ \E c1 : Open(r, w, k0, c1) /\ c1 + 1 + wcols > r.width

\* Writing that word.
LEMMA LaidWord ==
  ASSUME NEW r, RequestOK(r), NEW w, NEW c \in Nat, NEW s \in BOOLEAN, NEW k0, Laid(r, w, c, s, k0),
         NEW i \in Nat, NEW j \in Nat, WordCols(r, Word(i, j)) \in Nat,
         \A k \in WordsOf(w) : w[k].to < i,
         Waiting(r, w, k0, WordCols(r, Word(i, j)))
  PROVE  Laid(r, w \o <<Word(i, j)>>, c + WordCols(r, Word(i, j)), s, 0)
<1> DEFINE n == Len(w)
           o == Word(i, j)
           t == w \o <<o>>
<1>1. w \in Seq(Ops) /\ n \in Nat /\ Measured(r, w)
  BY DEF Laid, Measured
<1>2. o \in Ops /\ o.op = "word" /\ o.from = i /\ StyleAfter(s, <<o>>) = s
  BY Pieces, PlainKeepsStyle DEF Word, Ops
<1>3. Moves(r, c, o) = c + WordCols(r, o)
  BY <1>2 DEF Moves
<1> HIDE DEF o
<1>4. /\ Len(t) = n + 1 /\ t[n + 1] = o
      /\ \A k \in 1 .. n : t[k] = w[k]
      /\ WordsOf(w) \subseteq 1 .. n /\ BreaksOf(w) \subseteq 1 .. n
      /\ WordsOf(t) = WordsOf(w) \cup {n + 1} /\ BreaksOf(t) = BreaksOf(w)
  BY <1>1, <1>2, OneMore, OneMoreOf
<1>5. Measured(r, t)
  <2> HIDE DEF t, n
  <2>1. \A k \in WordsOf(t) : WordCols(r, t[k]) \in Nat
    BY <1>1, <1>4 DEF Measured, o
  <2>2. t \in Seq(Ops)
    BY <1>1, <1>2 DEF t
  <2> QED
    BY <2>1, <2>2 DEF Measured
<1>6. \A k \in 0 .. n : Cursor(r, t)[k] = Cursor(r, w)[k]
  BY <1>1, <1>2, <1>5, CursorMore
<1>7. ASSUME NEW k \in BreaksOf(t), k = k0
      PROVE  Refilled(r, t, k)
  <2> HIDE DEF t, n
  <2>1. k \in 1 .. n /\ k - 1 \in 0 .. n /\ k0 # 0
    BY <1>1, <1>4, <1>7
  <2>2. PICK c1 : Open(r, w, k0, c1) /\ c1 + 1 + WordCols(r, o) > r.width
    BY <2>1 DEF o, Waiting
  <2>3. Cursor(r, t)[k - 1] + 1 + WordCols(r, t[n + 1]) > r.width
    BY <1>4, <1>6, <1>7, <2>1, <2>2 DEF Open
  <2>4. \A x \in k + 1 .. (n + 1) - 1 : x \notin WordsOf(t) \cup BreaksOf(t)
    <3>1. \A x \in k + 1 .. (n + 1) - 1 : x \in k + 1 .. n /\ x # n + 1
      BY <1>1, <2>1
    <3> QED
      BY <1>4, <1>7, <2>2, <3>1 DEF Open, n
  <2>5. n + 1 \in WordsOf(t) /\ k < n + 1
    BY <1>1, <1>4, <2>1
  <2> QED
    BY <2>3, <2>4, <2>5 DEF Refilled
<1>8. Laid(r, t, c + WordCols(r, o), s, 0)
  <2>1. \A k \in BreaksOf(t) : k = 0 \/ (k \in BreaksOf(w) /\ k # k0) \/ Refilled(r, t, k)
    BY <1>4, <1>7
  <2>2. WordCols(r, o) \in Nat /\ \A k \in WordsOf(w) : w[k].to < o.from
    BY <1>2 DEF o
  <2> QED
    BY <1>2, <1>3, <2>1, <2>2, LaidMore
<1> QED
  BY <1>8 DEF o

\* What leaves the words and the lines as they are.
SameWords(r, w, t) ==
  /\ WordsOf(t) = WordsOf(w) /\ LastWords(t) = LastWords(w)
  /\ \A k \in WordsOf(w) : t[k] = w[k]
  /\ \A k, c : Open(r, w, k, c) => Open(r, t, k, c)

\* Beginning a style, ending one, or neither.
LEMMA LaidMark ==
  ASSUME NEW r, RequestOK(r), NEW w, NEW c, NEW s \in BOOLEAN, NEW k0, Laid(r, w, c, s, k0),
         NEW v \in {<<>>, StyleBegin, StyleEnd}
  PROVE  /\ Laid(r, w \o v, c, StyleAfter(s, v), k0) /\ StyleAfter(s, v) \in BOOLEAN
         /\ SameWords(r, w, w \o v)
<1>1. StyleAfter(s, v) \in BOOLEAN /\ w \in Seq(Ops)
  BY StyleIsBoolean DEF Laid, Measured
<1>2. CASE v = <<>>
  <2>1. w \o v = w /\ StyleAfter(s, v) = s
    BY <1>1, <1>2, Pieces, PlainKeepsStyle
  <2> QED
    BY <2>1 DEF SameWords
<1>3. CASE v # <<>>
  <2>1. PICK o \in {Op("begin"), Op("end")} : v = <<o>>
    BY <1>3 DEF StyleBegin, StyleEnd
  <2>2. o \in Ops /\ o.op \in {"begin", "end"}
    BY <2>1 DEF Op, Ops
  <2>3. Moves(r, c, o) = c
    BY <2>2 DEF Moves
  <2>4. o.op \notin {"nl", "word"} /\ o.op # "pad"
    BY <2>2
  <2>5. Laid(r, w \o <<o>>, c, StyleAfter(s, <<o>>), k0)
    BY <2>2, <2>3, <2>4, LaidBetween
  <2>6. SameWords(r, w, w \o <<o>>)
    <3>1. /\ WordsOf(w \o <<o>>) = WordsOf(w)
          /\ \A k \in WordsOf(w) : (w \o <<o>>)[k] = w[k]
      BY <1>1, <2>2, <2>4, OneMore, OneMoreOf
    <3>2. LastWords(w \o <<o>>) = LastWords(w)
      BY <1>1, <2>2, <2>4, WordsBeforeMore
    <3>3. \A k, d : Open(r, w, k, d) => Open(r, w \o <<o>>, k, d)
      BY <2>2, <2>4, LaidBetween
    <3> QED
      BY <3>1, <3>2, <3>3 DEF SameWords
  <2> QED
    BY <1>1, <2>1, <2>5, <2>6
<1> QED
  BY <1>2, <1>3

\* The paragraph is complete.
WrittenUpTo(r, w, n) ==
  \A i \in 1 .. n - 1 :
    (i \in DOMAIN r.text /\ r.text[i] # Space /\ (i = 1 \/ r.text[i - 1] = Space)) =>
      \E k \in WordsOf(w) : w[k].from = i /\ w[k].to = CliWordEnd(r.text, i)

LEMMA LaidDone ==
  ASSUME NEW r, RequestOK(r), NEW w, NEW c, NEW s, Laid(r, w, c, s, Len(w)),
         NEW n \in Nat, n > Len(r.text), WrittenUpTo(r, w, n)
  PROVE  AllWritten(r, w) /\ InOrder(w) /\ LinesFull(r, w) /\ StylesClosed(w)
<1>1. AllWritten(r, w)
  <2>1. \A i \in DOMAIN r.text : i \in 1 .. n - 1
    BY DEF RequestOK
  <2> QED
    BY <2>1 DEF AllWritten, WrittenUpTo
<1>2. ASSUME NEW k, \A i, j \in WordsBefore(w, k) : i = j
      PROVE  Cardinality(WordsBefore(w, k)) <= 1
  <2> DEFINE W == WordsBefore(w, k)
  <2> HIDE DEF W
  <2>1. CASE W = {}
    BY <2>1, FS_EmptySet DEF W
  <2>2. CASE W # {}
    <3>1. PICK x \in W : TRUE
      BY <2>2
    <3>2. W = {x}
      BY <1>2, <3>1 DEF W
    <3>3. Cardinality(W) = 1
      BY <3>2, FS_Singleton
    <3> QED
      BY <3>3 DEF W
  <2> QED
    BY <2>1, <2>2
<1>3. LinesFull(r, w)
  BY <1>2 DEF LinesFull, Laid, Refilled
<1> QED
  BY <1>1, <1>3 DEF Laid

\* While the loop runs: the words before the byte `at' are written, the cursor and the
\* style are where what is written leaves them, and a line that is too wide already has
\* one word.
ParagraphInvariant ==
  /\ rpc = "wrap" =>
       /\ Laid(request, out, col, sgr, 0)
       /\ \A k \in WordsOf(out) : out[k].to < at
       /\ WrittenUpTo(request, out, at)
       /\ col > request.width => \A i, j \in LastWords(out) : i = j
       /\ first_on_line => WordsOf(out) = {}
  /\ ParagraphLaidOut

LEMMA RequestIsOK ==
  ASSUME TermInvariant
  PROVE  RequestOK(request)
<1>1. CASE request \in Requests
  BY <1>1, TermAssumption, RenderAssumption DEF RequestType, RequestOK
<1>2. CASE request = NoRequest
  <2>1. <<>> \in Seq(Bytes)
    OBVIOUS
  <2> QED
    BY <1>2, <2>1 DEF NoRequest, RequestOK
<1> QED
  BY <1>1, <1>2 DEF TermInvariant

\* Before a paragraph is written and after it there is nothing to keep.
LEMMA ElsewhereKeepsParagraph ==
  ASSUME BeginRender \/ Decide \/ DrawTokens \/ Done \/ (Outside /\ TermInvariant)
  PROVE  ParagraphInvariant'
<1>1. CASE DrawTokens
  <2>1. /\ request' = request /\ profile' = profile /\ rpc' = "drawn"
        /\ request.kind = "version" \/ (request.kind = "error" /\ ~Styled)
    BY <1>1 DEF DrawTokens, renderVars
  <2> QED
    BY <2>1 DEF ParagraphInvariant, ParagraphLaidOut, Paragraph, Styled
<1>2. CASE ~DrawTokens
  <2>1. rpc' \notin {"wrap", "drawn"}
    <3>1. CASE BeginRender
      BY <3>1 DEF BeginRender, Begin
    <3>2. CASE Decide
      BY <3>2 DEF Decide, TermSetup, UseCache, SkipProbe, Skip, ProbeHook, Commit, Ask,
                     Asking, Answered, termVars
    <3>3. CASE Done
      BY <3>3 DEF Done, Deinit
    <3>4. CASE Outside /\ TermInvariant
      BY <3>4 DEF Outside, termVars
    <3> QED
      BY <1>2, <3>1, <3>2, <3>3, <3>4
  <2> QED
    BY <2>1 DEF ParagraphInvariant, ParagraphLaidOut, Paragraph
<1> QED
  BY <1>1, <1>2

\* Saying that a paragraph is complete, of the variables in the next state.
LEMMA CompleteNext ==
  ASSUME NEW n \in Nat, NEW c, NEW s, RequestOK(request), UNCHANGED request, rpc' = "drawn",
         Laid(request, out', c, s, Len(out')), n > Len(Text), WrittenUpTo(request, out', n)
  PROVE  ParagraphInvariant'
<1>1. /\ AllWritten(request, out') /\ InOrder(out')
      /\ LinesFull(request, out') /\ StylesClosed(out')
  BY LaidDone DEF Text
<1> QED
  BY <1>1 DEF ParagraphInvariant, ParagraphLaidOut

\* The token before a paragraph.
LEMMA DrawParagraphKeepsParagraph ==
  ASSUME TermInvariant, DrawInvariant, DrawParagraph
  PROVE  ParagraphInvariant'
<1> DEFINE token == StyleBegin \o StyleEnd
           r == request
<1>1. /\ UNCHANGED request /\ out = <<>> /\ sgr = FALSE
      /\ at' = 1 /\ col' = request.start_col /\ first_on_line' = TRUE
      /\ IF Text = <<>> THEN Write(token \o <<Op("nl")>>) /\ rpc' = "drawn"
         ELSE Write(token) /\ rpc' = "wrap"
  BY DEF DrawParagraph, DrawInvariant, renderVars
<1>2. RequestOK(r)
  BY RequestIsOK
<1>3. Laid(r, <<>>, r.start_col, FALSE, 0) /\ WordsOf(<<>>) = {}
  BY <1>2, LaidFirst
<1>4. StyleBegin \in Seq(Ops) /\ StyleEnd \in Seq(Ops) /\ <<>> \in Seq(Ops) /\ <<Op("nl")>> \in Seq(Ops)
  BY StylePieces, Pieces
<1>5. PICK s1 \in BOOLEAN : /\ Laid(r, <<>> \o StyleBegin, r.start_col, s1, 0)
                            /\ SameWords(r, <<>>, <<>> \o StyleBegin)
  BY <1>2, <1>3, LaidMark
<1>6. <<>> \o StyleBegin = StyleBegin
  BY <1>4
<1>7. /\ Laid(r, token, r.start_col, StyleAfter(s1, StyleEnd), 0)
      /\ StyleAfter(s1, StyleEnd) \in BOOLEAN
      /\ SameWords(r, StyleBegin, token)
  BY <1>2, <1>5, <1>6, LaidMark
<1>8. WordsOf(token) = {}
  BY <1>3, <1>5, <1>6, <1>7 DEF SameWords
<1>9. LastWords(token) = {}
  BY <1>8 DEF LastWords, WordsBefore
<1>10. token \in Seq(Ops) /\ <<>> \o token = token
  BY <1>4
<1>11. StyleAfter(FALSE, token) = FALSE
  <2>1. Turns(token, FALSE, FALSE)
    BY TokenTurns
  <2> QED
    BY <2>1, PlainKeepsStyle DEF Turns
<1>12. Laid(r, token, r.start_col, FALSE, 0)
  BY <1>7, <1>11 DEF Laid
<1> HIDE DEF token
<1>13. CASE Text = <<>>
  <2>1. Write(token \o <<Op("nl")>>) /\ rpc' = "drawn"
    BY <1>1, <1>13
  <2>2. out' = token \o <<Op("nl")>>
    <3>1. token \o <<Op("nl")>> \in Seq(Ops)
      BY <1>4, <1>10
    <3> QED
      BY <1>1, <2>1, <3>1 DEF Write
  <2>3. Laid(r, out', 0, FALSE, Len(token) + 1)
    BY <1>2, <1>9, <1>12, <2>2, LaidBreak
  <2>4. Len(out') = Len(token) + 1
    BY <1>4, <1>10, <2>2
  <2>5. 1 > Len(Text) /\ WrittenUpTo(r, out', 1)
    BY <1>13 DEF WrittenUpTo
  <2>6. Laid(request, out', 0, FALSE, Len(out')) /\ UNCHANGED request
    BY <1>1, <2>3, <2>4
  <2> QED
    BY <1>2, <2>1, <2>5, <2>6, CompleteNext
<1>14. CASE Text # <<>>
  <2>1. Write(token) /\ rpc' = "wrap"
    BY <1>1, <1>14
  <2>2. out' = token /\ sgr' = FALSE
    BY <1>1, <1>10, <1>11, <2>1 DEF Write
  <2>3. WrittenUpTo(r, out', 1)
    BY DEF WrittenUpTo
  <2>4. /\ Laid(request', out', col', sgr', 0)
        /\ \A k \in WordsOf(out') : out'[k].to < at'
        /\ WrittenUpTo(request', out', at')
        /\ col' > request'.width => \A i, j \in LastWords(out') : i = j
        /\ first_on_line' => WordsOf(out') = {}
    BY <1>1, <1>8, <1>9, <1>12, <2>2, <2>3
  <2> QED
    BY <2>1, <2>4 DEF ParagraphInvariant, ParagraphLaidOut, Paragraph
<1> QED
  BY <1>13, <1>14

LEMMA WrapSpaceKeepsParagraph ==
  ASSUME TermInvariant, DrawInvariant, ParagraphInvariant, WrapSpace
  PROVE  ParagraphInvariant'
<1>1. /\ UNCHANGED <<request, rpc, out, col, sgr, first_on_line>>
      /\ rpc = "wrap" /\ Text[at] = Space /\ at' = at + 1 /\ at \in Nat
  BY TextIsBytes DEF WrapSpace, DrawInvariant, termVars, renderVars
<1>2. /\ Laid(request, out, col, sgr, 0)
      /\ \A k \in WordsOf(out) : out[k].to < at
      /\ WrittenUpTo(request, out, at)
      /\ col > request.width => \A i, j \in LastWords(out) : i = j
      /\ first_on_line => WordsOf(out) = {}
  BY <1>1 DEF ParagraphInvariant
<1>3. \A k \in WordsOf(out) : out[k].to < at + 1
  <2>1. ASSUME NEW k \in WordsOf(out)
        PROVE  out[k].to \in Nat
    <3>1. out \in Seq(Ops) /\ k \in DOMAIN out
      BY <1>2 DEF Laid, Measured, WordsOf
    <3>2. out[k] \in Ops
      BY <3>1
    <3> QED
      BY <3>2 DEF Ops
  <2> QED
    BY <1>1, <1>2, <2>1
<1>4. WrittenUpTo(request, out, at + 1)
  <2>1. \A i \in 1 .. (at + 1) - 1 : i \in 1 .. at - 1 \/ i = at
    BY <1>1
  <2> QED
    BY <1>1, <1>2, <2>1 DEF WrittenUpTo, Text
<1>5. /\ Laid(request', out', col', sgr', 0)
      /\ \A k \in WordsOf(out') : out'[k].to < at'
      /\ WrittenUpTo(request', out', at')
      /\ col' > request'.width => \A i, j \in LastWords(out') : i = j
      /\ first_on_line' => WordsOf(out') = {}
  BY <1>1, <1>2, <1>3, <1>4
<1> QED
  BY <1>1, <1>5 DEF ParagraphInvariant, ParagraphLaidOut, Paragraph

\* The style is closed where a line ends.
LEMMA ClosedAtEnd ==
  ASSUME TermInvariant, DrawInvariant, ParagraphInvariant, rpc = "wrap",
         NEW close, close = IF style_open THEN StyleEnd ELSE <<>>
  PROVE  /\ close \in Seq(Ops)
         /\ Laid(request, out \o close, col, FALSE, 0)
         /\ SameWords(request, out, out \o close)
<1>1. RequestOK(request) /\ Laid(request, out, col, sgr, 0) /\ sgr \in BOOLEAN
      /\ sgr = (style_open /\ Styled) /\ style_open \in BOOLEAN
  BY RequestIsOK DEF ParagraphInvariant, DrawInvariant
<1>2. close \in {<<>>, StyleBegin, StyleEnd} /\ close \in Seq(Ops)
  BY StylePieces, Pieces
<1>3. Laid(request, out \o close, col, StyleAfter(sgr, close), 0)
      /\ SameWords(request, out, out \o close)
  BY <1>1, <1>2, LaidMark
<1>4. StyleAfter(sgr, close) = FALSE
  <2>1. CASE style_open /\ Styled
    BY <1>1, <2>1, StylePieces
  <2>2. CASE ~(style_open /\ Styled)
    <3>1. Plain(close) /\ sgr = FALSE
      BY <1>1, <2>2, StylePieces, Pieces
    <3> QED
      BY <3>1, PlainKeepsStyle
  <2> QED
    BY <2>1, <2>2
<1> QED
  BY <1>2, <1>3, <1>4

LEMMA WrapEndKeepsParagraph ==
  ASSUME TermInvariant, DrawInvariant, ParagraphInvariant, WrapEnd
  PROVE  ParagraphInvariant'
<1> DEFINE close == IF style_open THEN StyleEnd ELSE <<>>
           w == out \o close
<1>1. /\ UNCHANGED request /\ rpc = "wrap" /\ rpc' = "drawn" /\ at > Len(Text) /\ at \in Nat
      /\ Write(close \o <<Op("nl")>>)
  BY TextIsBytes DEF WrapEnd, DrawInvariant, renderVars
<1>2. RequestOK(request) /\ Laid(request, out, col, sgr, 0)
  BY <1>1, RequestIsOK DEF ParagraphInvariant
<1>3. /\ close \in Seq(Ops) /\ Laid(request, w, col, FALSE, 0)
      /\ SameWords(request, out, w)
  BY <1>1, ClosedAtEnd
<1> HIDE DEF close
<1>4. out' = w \o <<Op("nl")>> /\ w \in Seq(Ops) /\ <<Op("nl")>> \in Seq(Ops)
  <2>1. out \in Seq(Ops) /\ <<Op("nl")>> \in Seq(Ops)
    BY <1>2, Pieces DEF Laid, Measured
  <2>2. \A x, y, z \in Seq(Ops) : (x \o y) \o z = x \o (y \o z)
    BY Associative
  <2>3. out' = out \o (close \o <<Op("nl")>>)
    BY <1>1 DEF Write
  <2>4. w \in Seq(Ops)
    BY <1>3 DEF Laid, Measured
  <2> QED
    BY <1>3, <2>1, <2>2, <2>3, <2>4
<1> HIDE DEF w
<1>5. col > request.width => \A i, j \in LastWords(w) : i = j
  BY <1>1, <1>3 DEF ParagraphInvariant, SameWords
<1>6. /\ Laid(request, out', 0, FALSE, Len(w) + 1)
      /\ WordsOf(out') = WordsOf(w)
      /\ \A k \in WordsOf(w) : out'[k] = w[k]
  BY <1>2, <1>3, <1>4, <1>5, LaidBreak
<1>7. Len(out') = Len(w) + 1
  BY <1>4
<1>8. WrittenUpTo(request, out', at)
  BY <1>1, <1>3, <1>6 DEF ParagraphInvariant, WrittenUpTo, SameWords
<1> QED
  BY <1>1, <1>2, <1>6, <1>7, <1>8, CompleteNext

LEMMA ColumnIsNat ==
  ASSUME NEW r, RequestOK(r), NEW w, NEW c, NEW s, NEW k0, Laid(r, w, c, s, k0)
  PROVE  c \in Nat
<1>1. w \in Seq(Ops) /\ Measured(r, w) /\ Cursor(r, w)[Len(w)] = c
  BY DEF Laid, Measured
<1>2. Len(w) \in 0 .. Len(w)
  BY <1>1
<1> QED
  BY <1>1, <1>2, CursorIs

\* The line under way is ready for a word of wcols columns: v has the words of w, a line
\* that was ended for the sake of this word is waiting for it, and if the word does not
\* fit then it has the line for itself.
Ready(r, w, v, c, s, wcols) ==
  /\ WordsOf(v) = WordsOf(w) /\ \A k \in WordsOf(w) : v[k] = w[k]
  /\ c + wcols > r.width => LastWords(v) = {}
  /\ \E k0 : Laid(r, v, c, s, k0) /\ Waiting(r, v, k0, wcols)

\* The first word of a paragraph.
LEMMA ReadyAtFirst ==
  ASSUME NEW r, RequestOK(r), NEW w, NEW c, NEW s \in BOOLEAN, Laid(r, w, c, s, 0),
         NEW v \in {<<>>, StyleBegin, StyleEnd}, WordsOf(w) = {}, NEW wcols
  PROVE  Ready(r, w, w \o v, c, StyleAfter(s, v), wcols)
<1>1. Laid(r, w \o v, c, StyleAfter(s, v), 0) /\ SameWords(r, w, w \o v)
  BY LaidMark
<1>2. LastWords(w \o v) = {}
  BY <1>1 DEF SameWords, LastWords, WordsBefore
<1> QED
  BY <1>1, <1>2 DEF Ready, Waiting, SameWords

\* A space between two words.
LEMMA LaidSpace ==
  ASSUME NEW r, RequestOK(r), NEW w, NEW c, NEW s \in BOOLEAN, NEW k0, Laid(r, w, c, s, k0)
  PROVE  /\ Laid(r, w \o <<Op("sp")>>, c + 1, s, k0)
         /\ WordsOf(w \o <<Op("sp")>>) = WordsOf(w)
         /\ \A k \in WordsOf(w) : (w \o <<Op("sp")>>)[k] = w[k]
<1> DEFINE o == Op("sp")
<1>1. o \in Ops /\ o.op = "sp"
  BY DEF Op, Ops
<1> HIDE DEF o
<1>2. o.op \notin {"nl", "word"} /\ o.op # "pad"
  BY <1>1
<1>3. StyleAfter(s, <<o>>) = s
  <2>1. Plain(<<o>>)
    BY <1>1 DEF Plain
  <2> QED
    BY <2>1, PlainKeepsStyle
<1>4. Laid(r, w \o <<o>>, Moves(r, c, o), StyleAfter(s, <<o>>), k0)
  BY <1>1, <1>2, LaidBetween
<1>6. /\ WordsOf(w \o <<o>>) = WordsOf(w)
      /\ \A k \in WordsOf(w) : (w \o <<o>>)[k] = w[k]
  BY <1>1, <1>2, OneMore, OneMoreOf DEF Laid, Measured
<1>5. Moves(r, c, o) = c + 1
  BY <1>1 DEF Moves
<1> QED
  BY <1>3, <1>4, <1>5, <1>6 DEF o

\* A word of wcols columns fits on the line after a space.
StaysOnLine(r, c, wcols) == c + 1 + wcols <= r.width

\* A word that stays on the line.
LEMMA ReadyAfterSpace ==
  ASSUME NEW r, RequestOK(r), NEW w, NEW c, NEW s \in BOOLEAN, Laid(r, w, c, s, 0),
         NEW v \in {<<>>, StyleBegin, StyleEnd},
         NEW wcols \in Nat, StaysOnLine(r, c, wcols)
  PROVE  Ready(r, w, (w \o v) \o <<Op("sp")>>, c + 1, StyleAfter(s, v), wcols)
<1>1. Laid(r, w \o v, c, StyleAfter(s, v), 0) /\ SameWords(r, w, w \o v)
  BY LaidMark
<1>2. StyleAfter(s, v) \in BOOLEAN
  BY StyleIsBoolean
<1>3. /\ Laid(r, (w \o v) \o <<Op("sp")>>, c + 1, StyleAfter(s, v), 0)
      /\ WordsOf((w \o v) \o <<Op("sp")>>) = WordsOf(w \o v)
      /\ \A k \in WordsOf(w \o v) : ((w \o v) \o <<Op("sp")>>)[k] = (w \o v)[k]
  BY <1>1, <1>2, LaidSpace
<1>4. ~(c + 1 + wcols > r.width)
  <2>1. c \in Nat /\ r.width \in Nat
    BY ColumnIsNat DEF RequestOK
  <2> QED
    BY <2>1 DEF StaysOnLine
<1> QED
  BY <1>1, <1>3, <1>4 DEF Ready, Waiting, SameWords

\* A word that would not fit and goes to a line of its own: the line is ended, the next
\* one indented and the style begun again.
LEMMA ReadyOnNextLine ==
  ASSUME NEW r, RequestOK(r), NEW w, NEW c, Laid(r, w, c, FALSE, 0),
         c > r.width => \A i, j \in LastWords(w) : i = j,
         NEW wcols \in Nat, c + 1 + wcols > r.width, NEW begin \in {<<>>, StyleBegin, StyleEnd}
  PROVE  Ready(r, w, ((w \o <<Op("nl")>>) \o <<Op("pad")>>) \o begin, r.cont_indent,
               StyleAfter(FALSE, begin), wcols)
<1> DEFINE u == w \o <<Op("nl")>>
           o == Op("pad")
           v == u \o <<o>>
           k0 == Len(w) + 1
<1>1. /\ Laid(r, u, 0, FALSE, k0) /\ WordsOf(u) = WordsOf(w) /\ LastWords(u) = {}
      /\ \A k \in WordsOf(w) : u[k] = w[k]
      /\ Open(r, u, k0, c)
  BY LaidBreak
<1>2. o \in Ops /\ o.op = "pad"
  BY DEF Op, Ops
<1> HIDE DEF u, o, k0
<1>3. StyleAfter(FALSE, <<o>>) = FALSE
  <2>1. Plain(<<o>>)
    BY <1>2 DEF Plain
  <2> QED
    BY <2>1, PlainKeepsStyle
<1>4. Moves(r, 0, o) = r.cont_indent
  BY <1>2 DEF Moves
<1>5. /\ Laid(r, v, r.cont_indent, FALSE, k0)
      /\ WordsOf(v) = WordsOf(u) /\ LastWords(v) = LastWords(u)
      /\ \A k \in WordsOf(u) : v[k] = u[k]
      /\ Open(r, v, k0, c)
  <2>1. o.op \notin {"nl", "word"}
    BY <1>2
  <2>2. /\ Laid(r, v, Moves(r, 0, o), StyleAfter(FALSE, <<o>>), k0)
        /\ WordsOf(v) = WordsOf(u) /\ LastWords(v) = LastWords(u)
        /\ \A k \in WordsOf(u) : v[k] = u[k]
        /\ \A k1, c1 : Open(r, u, k1, c1) => Open(r, v, k1, c1)
    BY <1>1, <1>2, <2>1, LaidBetween
  <2> QED
    BY <1>1, <1>3, <1>4, <2>2
<1> HIDE DEF v
<1>6. /\ Laid(r, v \o begin, r.cont_indent, StyleAfter(FALSE, begin), k0)
      /\ SameWords(r, v, v \o begin)
  BY <1>5, LaidMark
<1>7. /\ WordsOf(v \o begin) = WordsOf(w) /\ LastWords(v \o begin) = {}
      /\ \A k \in WordsOf(w) : (v \o begin)[k] = w[k]
      /\ Open(r, v \o begin, k0, c)
  BY <1>1, <1>5, <1>6 DEF SameWords
<1>8. Ready(r, w, v \o begin, r.cont_indent, StyleAfter(FALSE, begin), wcols)
  BY <1>6, <1>7 DEF Ready, Waiting
<1> QED
  BY <1>8 DEF v, u, o

\* t is written: the words of w, and o as the m-th operation, up to column c.
Added(r, w, t, m, o, c, s) ==
  /\ Laid(r, t, c, s, 0)
  /\ WordsOf(t) = WordsOf(w) \cup {m}
  /\ \A k \in WordsOf(w) : t[k] = w[k]
  /\ t[m] = o
  /\ c > r.width => \A x, y \in LastWords(t) : x = y

\* The word itself.
LEMMA WordOnReady ==
  ASSUME NEW r, RequestOK(r), NEW w, NEW v, NEW c, NEW s \in BOOLEAN, NEW i \in Nat, NEW j \in Nat,
         WordCols(r, Word(i, j)) \in Nat, Ready(r, w, v, c, s, WordCols(r, Word(i, j))),
         \A k \in WordsOf(w) : w[k].to < i
  PROVE  Added(r, w, v \o <<Word(i, j)>>, Len(v) + 1, Word(i, j),
               c + WordCols(r, Word(i, j)), s)
<1>1. PICK k0 : Laid(r, v, c, s, k0) /\ Waiting(r, v, k0, WordCols(r, Word(i, j)))
  BY DEF Ready
<1>2. /\ WordsOf(v) = WordsOf(w) /\ \A k \in WordsOf(w) : v[k] = w[k]
      /\ c + WordCols(r, Word(i, j)) > r.width => LastWords(v) = {}
  BY DEF Ready
<1>3. c \in Nat /\ \A k \in WordsOf(v) : v[k].to < i
  BY <1>1, <1>2, ColumnIsNat
<1> DEFINE o == Word(i, j)
<1>4. Laid(r, v \o <<o>>, c + WordCols(r, o), s, 0)
  BY <1>1, <1>3, LaidWord
<1>5. v \in Seq(Ops) /\ o \in Ops /\ o.op = "word"
  BY <1>1 DEF Laid, Measured, Word, Ops
<1> HIDE DEF o
<1>6. /\ WordsOf(v) \subseteq 1 .. Len(v)
      /\ WordsOf(v \o <<o>>) = WordsOf(v) \cup {Len(v) + 1}
      /\ \A k \in 1 .. Len(v) : (v \o <<o>>)[k] = v[k]
      /\ (v \o <<o>>)[Len(v) + 1] = o
  BY <1>5, OneMore, OneMoreOf
<1>7. \A x \in LastWords(v \o <<o>>) : x \in LastWords(v) \/ x = Len(v) + 1
  BY <1>5, WordsBeforeMore
<1> QED
  BY <1>2, <1>4, <1>6, <1>7 DEF Added, o

\* With it the text is written up to the byte after it.
LEMMA WordIsWritten ==
  ASSUME NEW r, RequestOK(r), NEW w, NEW t, NEW m, NEW i \in 1 .. Len(r.text), NEW j \in i .. Len(r.text),
         j = CliWordEnd(r.text, i), \A k \in i .. j : r.text[k] # Space,
         WrittenUpTo(r, w, i), \A k \in WordsOf(w) : w[k].to \in Nat /\ w[k].to < i,
         WordsOf(t) = WordsOf(w) \cup {m}, \A k \in WordsOf(w) : t[k] = w[k],
         t[m] = Word(i, j)
  PROVE  WrittenUpTo(r, t, j + 1) /\ \A k \in WordsOf(t) : t[k].to < j + 1
<1>1. Len(r.text) \in Nat /\ i \in Nat /\ j \in Nat /\ i <= j
  BY DEF RequestOK
<1>2. t[m].from = i /\ t[m].to = j
  BY DEF Word
<1>3. ASSUME NEW k \in WordsOf(t)
      PROVE  t[k].to < j + 1
  <2>1. CASE k \in WordsOf(w)
    <3>1. t[k].to \in Nat /\ t[k].to < i
      BY <2>1
    <3> QED
      BY <1>1, <3>1
  <2>2. CASE k = m
    BY <1>1, <1>2, <2>2
  <2> QED
    BY <2>1, <2>2
<1>4. ASSUME NEW x \in 1 .. (j + 1) - 1, x \in DOMAIN r.text, r.text[x] # Space,
             x = 1 \/ r.text[x - 1] = Space
      PROVE  \E k \in WordsOf(t) : t[k].from = x /\ t[k].to = CliWordEnd(r.text, x)
  <2>1. CASE x < i
    <3>1. x \in 1 .. i - 1
      BY <1>1, <2>1
    <3>2. PICK k \in WordsOf(w) : w[k].from = x /\ w[k].to = CliWordEnd(r.text, x)
      BY <1>4, <3>1 DEF WrittenUpTo
    <3> QED
      BY <3>2
  <2>2. CASE x = i
    <3>1. m \in WordsOf(t)
      OBVIOUS
    <3> QED
      BY <1>2, <2>2, <3>1
  <2>3. CASE x > i
    <3>1. x - 1 \in i .. j /\ x # 1
      BY <1>1, <2>3
    <3> QED
      BY <1>4, <3>1
  <2> QED
    BY <1>1, <2>1, <2>2, <2>3
<1> QED
  BY <1>3, <1>4 DEF WrittenUpTo

LEMMA WrapWordKeepsParagraph ==
  ASSUME TermInvariant, DrawInvariant, ParagraphInvariant, WrapWord
  PROVE  ParagraphInvariant'
<1> DEFINE end == CliWordEnd(Text, at)
           o == Word(at, end)
           wcols == WordCols(request, o)
           break == Overflows(wcols)
           close == IF style_open THEN StyleEnd ELSE <<>>
           lineend == IF break THEN close \o <<Op("nl"), Op("pad")>> ELSE <<>>
           begin == IF ~style_open \/ break THEN StyleBegin ELSE <<>>
           space == IF first_on_line \/ break THEN <<>> ELSE <<Op("sp")>>
           left == IF break THEN request.cont_indent ELSE col
           v == ((out \o lineend) \o begin) \o space
<1>1. wcols = Width(SubSeq(Text, at, end))
  BY DEF WordCols, Word, Text
<1>2. /\ UNCHANGED request /\ rpc = "wrap" /\ rpc' = "wrap"
      /\ at <= Len(Text) /\ Text[at] # Space
      /\ Write(lineend \o begin \o space \o <<o>>)
      /\ col' = left + Len(space) + wcols
      /\ at' = end + 1 /\ first_on_line' = FALSE
  BY <1>1 DEF WrapWord, termVars, renderVars
<1>3. /\ RequestOK(request) /\ Text \in Seq(Bytes) /\ Len(Text) \in Nat /\ at \in 1 .. Len(Text)
      /\ style_open \in BOOLEAN /\ first_on_line \in BOOLEAN /\ sgr \in BOOLEAN
  BY <1>2, RequestIsOK, TextIsBytes DEF DrawInvariant
<1>4. end \in at .. Len(Text) /\ \A k \in at .. end : Text[k] # Space
  BY <1>2, <1>3, WordHasEnd
<1>5. wcols \in Nat
  <2>1. SubSeq(Text, at, end) \in Seq(Bytes)
    BY <1>3, <1>4
  <2> QED
    BY <1>1, <2>1, WidthIsNat
<1>6. /\ Laid(request, out, col, sgr, 0)
      /\ \A k \in WordsOf(out) : out[k].to < at
      /\ WrittenUpTo(request, out, at)
      /\ col > request.width => \A i, j \in LastWords(out) : i = j
      /\ first_on_line => WordsOf(out) = {}
  BY <1>2 DEF ParagraphInvariant
<1>7. break <=> ~first_on_line /\ col + 1 + wcols > request.width
  BY DEF Overflows
<1> HIDE DEF end, o, wcols, break
<1>8. /\ out \in Seq(Ops) /\ col \in Nat /\ break \in BOOLEAN
      /\ begin \in {<<>>, StyleBegin, StyleEnd} /\ StyleAfter(sgr, begin) \in BOOLEAN
      /\ begin \in Seq(Ops) /\ lineend \in Seq(Ops) /\ space \in Seq(Ops)
  <2>1. out \in Seq(Ops) /\ col \in Nat
    BY <1>3, <1>6, ColumnIsNat DEF Laid, Measured
  <2>2. close \in Seq(Ops)
    BY <1>2, ClosedAtEnd
  <2>3. /\ begin \in {<<>>, StyleBegin, StyleEnd} /\ begin \in Seq(Ops) /\ space \in Seq(Ops)
    BY StylePieces, Pieces
  <2>4. StyleAfter(sgr, begin) \in BOOLEAN
    BY <1>3, StyleIsBoolean
  <2>5. break \in BOOLEAN
    BY DEF break, Overflows
  <2>6. lineend \in Seq(Ops)
    <3> HIDE DEF close
    <3> QED
      BY <2>2, Pieces
  <2> QED
    BY <2>1, <2>3, <2>4, <2>5, <2>6
<1>9. PICK s \in BOOLEAN : Ready(request, out, v, left + Len(space), s, wcols)
  <2>1. CASE ~break /\ first_on_line
    <3>1. Ready(request, out, out \o begin, col, StyleAfter(sgr, begin), wcols)
      BY <1>3, <1>6, <1>8, <2>1, ReadyAtFirst
    <3>2. v = out \o begin /\ left + Len(space) = col
      <4>1. out \o lineend = out /\ space = <<>> /\ left = col
        BY <1>8, <2>1
      <4> HIDE DEF begin, lineend, space, left
      <4>2. (out \o begin) \o <<>> = out \o begin /\ col + Len(<<>>) = col
        BY <1>8
      <4> QED
        BY <4>1, <4>2
    <3> QED
      BY <1>8, <3>1, <3>2
  <2>2. CASE ~break /\ ~first_on_line
    <3>1. StaysOnLine(request, col, wcols)
      BY <1>3, <1>5, <1>7, <1>8, <2>2 DEF StaysOnLine, RequestOK
    <3>2. Ready(request, out, (out \o begin) \o <<Op("sp")>>, col + 1, StyleAfter(sgr, begin), wcols)
      BY <1>3, <1>5, <1>6, <1>8, <3>1, ReadyAfterSpace
    <3>3. v = (out \o begin) \o <<Op("sp")>> /\ left + Len(space) = col + 1
      <4>1. out \o lineend = out /\ space = <<Op("sp")>> /\ left = col /\ Len(space) = 1
        BY <1>8, <2>2
      <4> HIDE DEF begin, lineend, space, left
      <4> QED
        BY <4>1
    <3> QED
      BY <1>8, <3>2, <3>3
  <2>3. CASE break
    <3> DEFINE w == out \o close
    <3>1. /\ close \in Seq(Ops) /\ Laid(request, w, col, FALSE, 0)
          /\ SameWords(request, out, w)
      BY <1>2, ClosedAtEnd
    <3>2. col > request.width => \A i, j \in LastWords(w) : i = j
      BY <1>6, <3>1 DEF SameWords
    <3>3. col + 1 + wcols > request.width
      BY <1>7, <2>3
    <3> HIDE DEF close, w
    <3>4. Ready(request, w, ((w \o <<Op("nl")>>) \o <<Op("pad")>>) \o begin, request.cont_indent,
                StyleAfter(FALSE, begin), wcols)
      BY <1>3, <1>5, <1>8, <3>1, <3>2, <3>3, ReadyOnNextLine
    <3>5. Ready(request, out, ((w \o <<Op("nl")>>) \o <<Op("pad")>>) \o begin, request.cont_indent,
                StyleAfter(FALSE, begin), wcols)
      BY <3>1, <3>4 DEF Ready, SameWords
    <3>6. out \o lineend = (w \o <<Op("nl")>>) \o <<Op("pad")>>
      <4>1. <<Op("nl")>> \in Seq(Ops) /\ <<Op("pad")>> \in Seq(Ops)
        BY DEF Op, Ops
      <4>2. <<Op("nl"), Op("pad")>> = <<Op("nl")>> \o <<Op("pad")>>
        OBVIOUS
      <4>3. lineend = close \o <<Op("nl"), Op("pad")>>
        BY <2>3
      <4>4. \A x, y, z \in Seq(Ops) : (x \o y) \o z = x \o (y \o z)
        BY Associative
      <4> HIDE DEF lineend
      <4>5. w \in Seq(Ops) /\ <<Op("nl")>> \o <<Op("pad")>> \in Seq(Ops)
        BY <1>8, <3>1, <4>1 DEF w
      <4>6. out \o lineend = w \o (<<Op("nl")>> \o <<Op("pad")>>)
        BY <1>8, <3>1, <4>1, <4>2, <4>3, <4>4, <4>5 DEF w
      <4> QED
        BY <4>1, <4>4, <4>5, <4>6
    <3>7. space = <<>> /\ left = request.cont_indent
      BY <1>8, <2>3
    <3>8. v = ((w \o <<Op("nl")>>) \o <<Op("pad")>>) \o begin /\ left + Len(space) = request.cont_indent
      <4> DEFINE u == ((w \o <<Op("nl")>>) \o <<Op("pad")>>) \o begin
      <4>1. u \in Seq(Ops)
        BY <3>5 DEF Ready, Laid, Measured
      <4> HIDE DEF u
      <4>2. u \o <<>> = u
        BY <4>1
      <4>3. request.cont_indent + Len(<<>>) = request.cont_indent
        BY <1>3 DEF RequestOK
      <4> HIDE DEF lineend, begin, space, left
      <4> QED
        BY <3>6, <3>7, <4>2, <4>3 DEF u
    <3>9. StyleAfter(FALSE, begin) \in BOOLEAN
      BY StyleIsBoolean
    <3> QED
      BY <3>5, <3>8, <3>9
  <2> QED
    BY <1>3, <2>1, <2>2, <2>3
<1> HIDE DEF v, lineend, begin, space
<1> DEFINE t == v \o <<o>>
           m == Len(v) + 1
<1>10. at \in Nat /\ end \in Nat /\ o = Word(at, end)
  BY <1>3, <1>4 DEF o
<1>11. Added(request, out, t, m, o, left + Len(space) + wcols, s)
  <2>1. wcols = WordCols(request, Word(at, end))
    BY <1>10 DEF wcols
  <2> HIDE DEF left, wcols
  <2> DEFINE c == left + Len(space)
  <2>2. Ready(request, out, v, c, s, WordCols(request, Word(at, end)))
    BY <1>9, <2>1
  <2>3. WordCols(request, Word(at, end)) \in Nat
    BY <1>5, <2>1
  <2> HIDE DEF c, t, m
  <2>4. Added(request, out, v \o <<Word(at, end)>>, Len(v) + 1, Word(at, end),
              c + WordCols(request, Word(at, end)), s)
    BY <1>3, <1>6, <1>10, <2>2, <2>3, WordOnReady
  <2> QED
    BY <1>10, <2>1, <2>4 DEF c, t, m
<1> HIDE DEF left, t, m
<1>12. out' = t /\ sgr' = s
  <2> DEFINE before == (lineend \o begin) \o space
             written == before \o <<o>>
  <2>1. <<o>> \in Seq(Ops)
    BY <1>10, Pieces
  <2>2. \A x, y, z \in Seq(Ops) : (x \o y) \o z = x \o (y \o z)
    BY Associative
  <2>3. /\ lineend \o begin \in Seq(Ops) /\ (lineend \o begin) \o space \in Seq(Ops)
        /\ written \in Seq(Ops)
    BY <1>8, <2>1
  <2>4. (out \o lineend) \o begin = out \o (lineend \o begin)
    BY <1>8, <2>2
  <2>5. v = out \o before
    BY SMTT(20), <1>8, <2>2, <2>3, <2>4 DEF v
  <2>6. t = out \o written
    <3> HIDE DEF before
    <3> QED
      BY SMTT(20), <1>8, <2>1, <2>2, <2>3, <2>5 DEF t
  <2>7. out' = out \o written /\ sgr' = StyleAfter(sgr, written)
    BY <1>2 DEF Write
  <2> HIDE DEF written
  <2>8. StyleAfter(FALSE, out) = sgr /\ StyleAfter(FALSE, t) = s
    BY <1>6, <1>11 DEF Laid, Added
  <2>9. StyleAfter(FALSE, out \o written) = StyleAfter(StyleAfter(FALSE, out), written)
    BY <1>8, <2>3, StyleAfterBoth
  <2> QED
    BY <2>6, <2>7, <2>8, <2>9
<1>13. WrittenUpTo(request, t, end + 1) /\ \A k \in WordsOf(t) : t[k].to < end + 1
  <2>1. ASSUME NEW k \in WordsOf(out)
        PROVE  out[k].to \in Nat /\ out[k].to < at
    <3>1. k \in DOMAIN out
      BY DEF WordsOf
    <3>2. out[k] \in Ops
      BY <1>8, <3>1
    <3> QED
      BY <1>6, <3>2 DEF Ops
  <2>2. /\ at \in 1 .. Len(request.text) /\ end \in at .. Len(request.text)
        /\ end = CliWordEnd(request.text, at) /\ \A k \in at .. end : request.text[k] # Space
    BY <1>3, <1>4 DEF Text, end
  <2>3. t[m] = Word(at, end)
    BY <1>10, <1>11 DEF Added
  <2>4. WordsOf(t) = WordsOf(out) \cup {m} /\ \A k \in WordsOf(out) : t[k] = out[k]
    BY <1>11 DEF Added
  <2> QED
    BY <1>3, <1>6, <2>1, <2>2, <2>3, <2>4, WordIsWritten
<1>14. /\ Laid(request', out', col', sgr', 0)
       /\ \A k \in WordsOf(out') : out'[k].to < at'
       /\ WrittenUpTo(request', out', at')
       /\ col' > request'.width => \A i, j \in LastWords(out') : i = j
       /\ first_on_line' => WordsOf(out') = {}
  BY <1>2, <1>11, <1>12, <1>13 DEF Added
<1> QED
  BY <1>2, <1>14 DEF ParagraphInvariant, ParagraphLaidOut, Paragraph

LEMMA ParagraphStarts == Init => ParagraphInvariant
  BY DEF Init, TermInit, ParagraphInvariant, ParagraphLaidOut, Paragraph

LEMMA ParagraphStep ==
  ASSUME RenderInvariant, ParagraphInvariant, [Next]_vars
  PROVE  ParagraphInvariant'
<1>1. TermInvariant /\ DrawInvariant
  BY DEF RenderInvariant
<1>2. CASE BeginRender \/ Decide \/ DrawTokens \/ Done \/ Outside
  BY <1>1, <1>2, ElsewhereKeepsParagraph
<1>3. CASE DrawParagraph
  BY <1>1, <1>3, DrawParagraphKeepsParagraph
<1>4. CASE WrapSpace
  BY <1>1, <1>4, WrapSpaceKeepsParagraph
<1>5. CASE WrapWord
  BY <1>1, <1>5, WrapWordKeepsParagraph
<1>6. CASE WrapEnd
  BY <1>1, <1>6, WrapEndKeepsParagraph
<1>7. CASE UNCHANGED vars
  <2>1. UNCHANGED <<rpc, request, profile, out, at, col, sgr, first_on_line>>
    BY <1>7 DEF vars, termVars, renderVars, drawVars, wrapVars
  <2> QED
    BY <2>1 DEF ParagraphInvariant, ParagraphLaidOut, Paragraph, Styled
<1> QED
  BY <1>2, <1>3, <1>4, <1>5, <1>6, <1>7 DEF Next, Program

\* Whatever the text, the width and the indentation: when app_cli_wrap_from returns, every
\* word of the text has been written once and in order, each line but the last was ended
\* for a word that did not fit on it, a line that overflows has one word, and no style is
\* open where a line ends or is indented.
THEOREM ParagraphAlwaysLaidOut == Spec => []ParagraphLaidOut
<1>1. RenderInvariant /\ ParagraphInvariant /\ [Next]_vars => ParagraphInvariant'
  BY ParagraphStep
<1>2. ParagraphInvariant => ParagraphLaidOut
  BY DEF ParagraphInvariant
<1>3. Spec => []ParagraphInvariant
  BY <1>1, ParagraphStarts, RenderInvariantHolds, PTL DEF Spec
<1> QED
  BY <1>2, <1>3, PTL

\* The text of a rendering, wrapped as app_text_wrap_utf8 wraps it and truncated as
\* app_text_truncate_utf8_columns truncates it, at any width.
THEOREM TextAlwaysSound == Spec => []TuiTextSound
<1>1. RenderInvariant => TuiTextSound
  <2> SUFFICES ASSUME RenderInvariant, NEW width \in 1 .. request.width
               PROVE  /\ LinesKeepText(Text, Wrap(Text, width, 0, 0))
                      /\ LinesFit(Text, Wrap(Text, width, 0, 0), width, 0, 0)
                      /\ TruncateMaximal(Text, width)
    BY DEF TuiTextSound
  <2>1. Text \in Seq(Bytes) /\ request.width \in Nat
    BY RequestIsOK, TextIsBytes DEF RenderInvariant, RequestOK
  <2>2. width \in Nat \ {0}
    BY <2>1
  <2> QED
    BY <2>1, <2>2, WrapsSoundly, TruncatesMaximally
<1> QED
  BY <1>1, RenderInvariantHolds, PTL

=============================================================================
