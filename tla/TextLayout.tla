------------------------------ MODULE TextLayout ------------------------------
(***************************************************************************)
(* Measuring, truncating and wrapping UTF-8 text by columns                *)
(* (src/ui/text_layout.c).                                                 *)
(*                                                                         *)
(* A text is a sequence of bytes, of which only the class matters.  The    *)
(* lead bytes are chosen so that their class decides the width of what     *)
(* they begin; bytes are numbered from 1, spans are pairs <<first, last>>. *)
(***************************************************************************)
EXTENDS Integers, Sequences, SequencesExt, FiniteSetsExt

Space == "sp"
Newline == "nl"

\* "a": ASCII; "ctl": a control; "acc", "mark", "wide", "rare": lead bytes of an
\* accented letter (0xC3), a combining mark (0xCC), a CJK character (0xE5) and a
\* character of an upper plane (0xF1); "c": a continuation byte; "bad": 0xFF.
Bytes == {Space, Newline, "a", "ctl", "acc", "mark", "wide", "rare", "c", "bad"}

\* Length and width of what a byte begins, when its continuation bytes follow.
Length(b) ==
  CASE b \in {"acc", "mark"} -> 2
    [] b = "wide" -> 3
    [] b = "rare" -> 4
    [] OTHER -> 1
CpColumns(b) ==
  CASE b \in {Newline, "ctl", "mark"} -> 0
    [] b = "wide" -> 2
    [] OTHER -> 1

\* app_text_decode_one at byte i of s: an invalid or truncated sequence counts as
\* one byte of one column.
Valid(s, i) ==
  /\ i + Length(s[i]) - 1 <= Len(s)
  /\ \A j \in i + 1 .. i + Length(s[i]) - 1 : s[j] = "c"
Decode(s, i) ==
  IF Valid(s, i) THEN [bytes |-> Length(s[i]), columns |-> CpColumns(s[i])]
  ELSE [bytes |-> 1, columns |-> 1]

\* The columns of s up to its end, from each of its bytes on.
ColumnsFrom(s) ==
  LET from[i \in 1 .. Len(s) + 1] ==
        IF i > Len(s) THEN 0
        ELSE Decode(s, i).columns + from[i + Decode(s, i).bytes]
  IN  from
Width(s) == ColumnsFrom(s)[1]

\* app_text_truncate_utf8_columns: the number of bytes kept.
Fits(columns, cell, max) == columns + cell <= max

Truncate(s, max) ==
  LET keep[i \in 1 .. Len(s) + 1] ==
        [columns \in 0 .. max |->
           IF i <= Len(s) /\ Fits(columns, Decode(s, i).columns, max)
           THEN keep[i + Decode(s, i).bytes][columns + Decode(s, i).columns]
           ELSE i - 1]
  IN  IF max <= 0 THEN 0 ELSE keep[1][0]

(***************************************************************************)
(* app_text_wrap_utf8.  At each newline and at the first byte of every     *)
(* word its loop extends the line under way or emits it and begins         *)
(* another; what it passes over in between changes nothing.                *)
(***************************************************************************)
IsBlank(b) == b \in {Space, Newline}
WordAt(s, i) == ~IsBlank(s[i]) /\ (i = 1 \/ IsBlank(s[i - 1]))
WordEnd(s, i) ==
  CHOOSE j \in i .. Len(s) :
    /\ \A k \in i .. j : ~IsBlank(s[k])
    /\ j = Len(s) \/ IsBlank(s[j + 1])

Span(s, first, last, columns) == [first |-> first, last |-> last, columns |-> columns]

\* The line under way: `start' is 0 until it has a word, `segment' where the source
\* line began.
FirstLine(first) ==
  [lines |-> <<>>, indent |-> first, start |-> 0, last |-> 0, columns |-> 0, segment |-> 1]

\* What a newline, or the end of the text, at i emits.
Emitted(s, st, i) ==
  IF st.start > 0 THEN Span(s, st.start, st.last, st.columns)
  ELSE Span(s, st.segment, i - 1, Width(SubSeq(s, st.segment, i - 1)))

Available(width, indent) == IF width > indent THEN width - indent ELSE 1

\* Mutant: the spaces before a word are not counted.
NoSeparator(st, i, origin) == 0
Separator(st, i, origin) == IF st.start > 0 THEN i - 1 - st.last ELSE i - origin

AtWord(s, st, i, width, next) ==
  LET last == WordEnd(s, i)
      cols == Width(SubSeq(s, i, last))
      origin == IF st.start > 0 THEN st.start ELSE st.segment
      sep == Separator(st, i, origin)
  IN  IF st.start > 0 /\ st.columns + sep + cols > Available(width, st.indent)
      THEN [st EXCEPT !.lines = Append(@, Span(s, st.start, st.last, st.columns)),
                      !.indent = next, !.start = i, !.last = last, !.columns = cols]
      ELSE [st EXCEPT !.start = origin, !.last = last, !.columns = @ + sep + cols]

AtNewline(s, st, i, next) ==
  [lines |-> Append(st.lines, Emitted(s, st, i)), indent |-> next,
   start |-> 0, last |-> 0, columns |-> 0, segment |-> i + 1]

Natural(n) == IF n < 0 THEN 0 ELSE n

\* The lines that are emitted, as long as the caller accepts them.
Wrap(s, width, first, next) ==
  LET upto[i \in 0 .. Len(s)] ==
        IF i = 0 THEN FirstLine(Natural(first))
        ELSE IF s[i] = Newline THEN AtNewline(s, upto[i - 1], i, Natural(next))
        ELSE IF WordAt(s, i) THEN AtWord(s, upto[i - 1], i, width, Natural(next))
        ELSE upto[i - 1]
      end == upto[Len(s)]
  IN  IF width <= 0 THEN <<Span(s, 1, 0, 0)>>
      ELSE Append(end.lines, Emitted(s, end, Len(s) + 1))

(***************************************************************************)
(* Properties.                                                             *)
(***************************************************************************)
BytesOf(s, l) == SubSeq(s, l.first, l.last)
Words(s, l) == {i \in l.first .. l.last : WordAt(s, i)}

\* Every word is on exactly one line, whole; lines are in order and hold no newline.
LinesKeepText(s, lines) ==
  /\ \A i \in 1 .. Len(s) : WordAt(s, i) =>
       \E n \in DOMAIN lines : lines[n].first <= i /\ WordEnd(s, i) <= lines[n].last
  /\ \A n \in 1 .. Len(lines) - 1 : lines[n].last < lines[n + 1].first
  /\ \A n \in DOMAIN lines : ~Contains(BytesOf(s, lines[n]), Newline)

\* The columns reported of a line are those of its bytes; they are more than there
\* is room for only if the line is a single word; and a line is ended early only
\* where the word that follows would not have fitted.
LinesFit(s, lines, width, first, next) ==
  \A n \in DOMAIN lines :
    LET room == Available(width, IF n = 1 THEN first ELSE next)
        l == lines[n]
    IN  /\ l.columns = Width(BytesOf(s, l))
        /\ l.columns > room => Cardinality(Words(s, l)) <= 1
        /\ (n < Len(lines) /\ \A k \in l.last + 1 .. lines[n + 1].first - 1 : s[k] # Newline) =>
             LET w == lines[n + 1].first
             IN  Width(SubSeq(s, l.first, WordEnd(s, w))) > room

\* Where the characters of s end, from each of its bytes on, and where they start.
BoundariesFrom(s) ==
  LET from[i \in 1 .. Len(s) + 1] ==
        {i - 1} \cup (IF i > Len(s) THEN {} ELSE from[i + Decode(s, i).bytes])
  IN  from
Boundaries(s) == BoundariesFrom(s)[1]

\* Truncation keeps whole characters, as many as fit.
TruncateMaximal(s, max) ==
  Truncate(s, max) = Max({b \in Boundaries(s) : Width(SubSeq(s, 1, b)) <= max})
=============================================================================
