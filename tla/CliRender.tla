------------------------------ MODULE CliRender ------------------------------
(***************************************************************************)
(* A process that renders help, errors or its version on the command line: *)
(* the decision how (CliTerm), and the wrapped paragraph that each of them *)
(* writes, word by word (src/cli/style/cli_layout.c, cli_sgr.c).           *)
(***************************************************************************)
EXTENDS CliTerm, TextLayout

CONSTANT Scenarios  \* the renderings that a process in an environment may ask for

VARIABLES
  out,   \* what the rendering under way has written: see Op
  at,    \* `word' as the number of a byte of the text
  col,   \* columns used of the line
  first_on_line,
  style_open,
  sgr    \* the stream is in a style other than the plain one

wrapVars == <<out, at, col, first_on_line, style_open>>
drawVars == <<wrapVars, sgr>>
vars == <<oscVars, termVars, drawVars>>

ASSUME RenderAssumption ==
  /\ Scenarios \in [Environments -> SUBSET Requests]
  /\ \A r \in Requests : r.text \in Seq(Bytes)

Text == request.text
Styled == profile # "none"

\* Written to the stream: a word <<from, to>> of the text, a space, a newline,
\* spaces up to a column, a style or the reset.
Op(name) == [op |-> name, from |-> 0, to |-> 0]
Word(i, j) == [op |-> "word", from |-> i, to |-> j]

Init ==
  /\ TermInit
  /\ out = <<>> /\ at = 0 /\ col = 0 /\ first_on_line = TRUE /\ style_open = FALSE
  /\ sgr = FALSE

\* app_cli_style_begin and app_cli_style_end write nothing when styling is off.
StyleBegin == IF Styled THEN <<Op("begin")>> ELSE <<>>
StyleEnd == IF Styled THEN <<Op("end")>> ELSE <<>>

\* What the terminal makes of it.
StyleAfter(before, written) ==
  LET marks == {i \in DOMAIN written : written[i].op \in {"begin", "end"}}
  IN  IF marks = {} THEN before
      ELSE \E i \in marks : written[i].op = "begin" /\ \A j \in marks : j <= i
Write(written) ==
  /\ out' = out \o written
  /\ sgr' = StyleAfter(sgr, written)

BeginRender ==
  /\ \E r \in Scenarios[env] : Begin(r)
  /\ UNCHANGED drawVars

Decide ==
  /\ TermSetup \/ UseCache \/ SkipProbe \/ ProbeHook \/ Ask \/ Asking \/ Answered
  /\ UNCHANGED drawVars

\* Version lines are tokens, each with its style; an error that is not styled is
\* printed as it is.
DrawTokens ==
  /\ rpc = "draw"
  /\ request.kind = "version" \/ (request.kind = "error" /\ ~Styled)
  /\ Write(IF request.kind = "version" THEN StyleBegin \o StyleEnd \o <<Op("nl")>>
           ELSE <<Op("nl")>>)
  /\ rpc' = "drawn"
  /\ UNCHANGED <<oscVars, env, renderVars, cacheVars, at, col, first_on_line, style_open>>

\* A token (the label of a row, the header of an error), then app_cli_wrap_from.
DrawParagraph ==
  /\ rpc = "draw"
  /\ request.kind \in {"help", "usage"} \/ (request.kind = "error" /\ Styled)
  /\ LET token == StyleBegin \o StyleEnd
     IN  IF Text = <<>> THEN Write(token \o <<Op("nl")>>) /\ rpc' = "drawn"
         ELSE Write(token) /\ rpc' = "wrap"
  /\ at' = 1 /\ col' = request.start_col
  /\ first_on_line' = TRUE /\ style_open' = FALSE
  /\ UNCHANGED <<oscVars, env, renderVars, cacheVars>>

WrapSpace ==
  /\ rpc = "wrap" /\ at <= Len(Text) /\ Text[at] = Space
  /\ at' = at + 1
  /\ UNCHANGED <<oscVars, termVars, out, col, first_on_line, style_open, sgr>>

\* A word ends at a space or at the end of the text.
CliWordEnd(text, i) ==
  CHOOSE j \in i .. Len(text) :
    /\ \A k \in i .. j : text[k] # Space
    /\ j = Len(text) \/ text[j + 1] = Space

\* Mutant: the space before the word is not counted.
OverflowsUnspaced(wcols) == ~first_on_line /\ col + wcols > request.width
Overflows(wcols) == ~first_on_line /\ col + 1 + wcols > request.width

WrapWord ==
  /\ rpc = "wrap" /\ at <= Len(Text) /\ Text[at] # Space
  /\ LET end == CliWordEnd(Text, at)
         wcols == Width(SubSeq(Text, at, end))
         break == Overflows(wcols)
         lineend == IF break THEN (IF style_open THEN StyleEnd ELSE <<>>)
                                  \o <<Op("nl"), Op("pad")>>
                    ELSE <<>>
         begin == IF ~style_open \/ break THEN StyleBegin ELSE <<>>
         space == IF first_on_line \/ break THEN <<>> ELSE <<Op("sp")>>
     IN  /\ Write(lineend \o begin \o space \o <<Word(at, end)>>)
         /\ col' = (IF break THEN request.cont_indent ELSE col) + Len(space) + wcols
         /\ at' = end + 1
  /\ first_on_line' = FALSE /\ style_open' = TRUE
  /\ UNCHANGED <<oscVars, termVars>>

WrapEnd ==
  /\ rpc = "wrap" /\ at > Len(Text)
  /\ Write((IF style_open THEN StyleEnd ELSE <<>>) \o <<Op("nl")>>)
  /\ rpc' = "drawn"
  /\ UNCHANGED <<oscVars, env, renderVars, cacheVars, at, col, first_on_line, style_open>>

Done ==
  /\ rpc = "drawn" /\ Deinit
  /\ out' = <<>> /\ at' = 0 /\ col' = 0 /\ first_on_line' = TRUE /\ style_open' = FALSE
  /\ UNCHANGED <<env, renders, cacheVars, oscVars, sgr>>

Program ==
  \/ Decide
  \/ DrawTokens \/ DrawParagraph \/ WrapSpace \/ WrapWord \/ WrapEnd
  \/ Done

\* The terminal and the user are looked at while a query is under way.
Outside == rpc = "query" /\ World /\ UNCHANGED <<termVars, drawVars>>

Next == BeginRender \/ Program \/ Outside

Spec == Init /\ [][Next]_vars /\ WF_vars(Program)

-----------------------------------------------------------------------------
(* The inductive invariant of a rendering *)

Ops == [op : {"begin", "end", "nl", "pad", "sp", "word"}, from : Nat, to : Nat]
Plain(s) == \A i \in DOMAIN s : s[i].op \notin {"begin", "end"}

\* A style is open exactly while a styled line has words; without a profile none is.
DrawInvariant ==
  /\ out \in Seq(Ops) /\ (~Styled => Plain(out))
  /\ at \in 0 .. Len(Text) + 1
  /\ style_open \in BOOLEAN /\ first_on_line \in BOOLEAN
  /\ rpc \in {"idle", "init", "detect", "query", "draw"} => out = <<>>
  /\ rpc = "idle" => at = 0
  /\ rpc = "wrap" => at > 0
  /\ sgr = (rpc = "wrap" /\ style_open /\ Styled)

RenderInvariant == QueryInvariant /\ StreamInvariant /\ TermInvariant /\ DrawInvariant

-----------------------------------------------------------------------------
\* The variables keep their types.
RenderTypeOK ==
  /\ qpc \in {"idle", "raw", "write", "poll", "parse", "done"}
  /\ mode \in {"saved", "raw"}
  /\ Len(buf) < Limit /\ remaining \in 0 .. Timeout
  /\ found \in Colours \cup {"none"}
  /\ rpc \in {"idle", "init", "detect", "query", "draw", "wrap", "drawn"}
  /\ profile \in Forced \cup {"none"}
  /\ theme \in {"unset", "light", "dark"}
  /\ cached \in {"unknown", "light", "dark"}
  /\ at \in 0 .. Len(Text) + 1

\* A colour is believed only if it is what the terminal answered, and then nothing
\* but what the user typed is left for whoever reads the terminal next (unless an
\* earlier answer was in the queue): polling may see the answer in any pieces, among
\* what is typed, and has to read on to its very end.
FoundIsTheAnswer ==
  found # "none" =>
    /\ terminal \in Answers /\ found = terminal[4]
    /\ stale \/ Len(tty \o line) <= typed

\* The terminal is left as it was found, on every path: in its own mode although
\* every step of the query may fail, in the plain style although lines, tokens and
\* paragraphs begin and end styles of their own, and without a terminfo handle.
TerminalLeftAsFound ==
  rpc = "idle" => mode = "saved" /\ ~sgr /\ ~handle

\* "The probe result is cached per process only after a real /dev/tty round-trip"
\* (cli_term.h): no process asks twice, what is cached is what was seen, and a
\* rendering that may not ask leaves the question open for a later one.
CacheHonest ==
  /\ probes = (IF probed THEN 1 ELSE 0)
  /\ ~probed => cached = "unknown"
  /\ (cached # "unknown" /\ env.test_bg = "unset") =>
       terminal \in Answers /\ cached = (IF terminal[4] \in Light THEN "light" ELSE "dark")
  /\ (env.no_color \/ env.dumb \/ env.osc = "0") => ~probed

\* NO_COLOR, a dumb terminal and the flags win over everything that asks for
\* colour: neither an escape sequence nor a query is written.
DisabledIsSilent ==
  (env.no_color \/ env.dumb \/ (request.kind \in {"help", "error"} /\ request.plain)) =>
    /\ ~(\E i \in DOMAIN out : out[i].op \in {"begin", "end"})
    /\ rpc # "query"

\* Every rendering comes to its end, whatever the terminal answers or does not.
RenderEnds == rpc # "idle" ~> rpc = "idle"

Paragraph ==
  rpc = "drawn" /\ (request.kind \in {"help", "usage"} \/ (request.kind = "error" /\ Styled))

\* What a rendering r wrote: its words, the ends of its lines, and the columns used of
\* the line under way, at first and after each operation.
WordsOf(written) == {k \in DOMAIN written : written[k].op = "word"}
BreaksOf(written) == {k \in DOMAIN written : written[k].op = "nl"}
WordCols(r, o) == Width(SubSeq(r.text, o.from, o.to))
Moves(r, c, o) ==
  CASE o.op = "nl" -> 0
    [] o.op = "pad" -> r.cont_indent
    [] o.op = "sp" -> c + 1
    [] o.op = "word" -> c + WordCols(r, o)
    [] OTHER -> c
Cursor(r, written) ==
  LET columns[k \in 0 .. Len(written)] ==
        IF k = 0 THEN r.start_col ELSE Moves(r, columns[k - 1], written[k])
  IN  columns

\* The words of the line that the break at k ends.
WordsBefore(written, k) ==
  {i \in WordsOf(written) : i < k /\ \A j \in i .. k - 1 : j \notin BreaksOf(written)}

AllWritten(r, written) ==
  \A i \in DOMAIN r.text :
    (r.text[i] # Space /\ (i = 1 \/ r.text[i - 1] = Space)) =>
      \E k \in WordsOf(written) : written[k].from = i /\ written[k].to = CliWordEnd(r.text, i)
InOrder(written) ==
  \A i, j \in WordsOf(written) : i < j => written[i].to < written[j].from
LinesFull(r, written) ==
  LET columns == Cursor(r, written)
  IN  \A k \in BreaksOf(written) :
        /\ columns[k - 1] > r.width => Cardinality(WordsBefore(written, k)) <= 1
        /\ k = Len(written) \/
             \E m \in WordsOf(written) :
               /\ k < m /\ \A j \in k + 1 .. m - 1 : j \notin WordsOf(written) \cup BreaksOf(written)
               /\ columns[k - 1] + 1 + WordCols(r, written[m]) > r.width
StylesClosed(written) ==
  \A k \in DOMAIN written :
    written[k].op \in {"nl", "pad"} => ~StyleAfter(FALSE, SubSeq(written, 1, k))

\* A paragraph has all the words of its text in order, breaks a line only before a
\* word that would not have fitted, overflows only with a single word, and never
\* leaves a style open across the end of a line or in its indentation.
ParagraphLaidOut ==
  Paragraph =>
    /\ AllWritten(request, out) /\ InOrder(out)
    /\ LinesFull(request, out) /\ StylesClosed(out)

\* The wrapping of the TUI, on the same text: every word on one line, the columns it
\* reports are those of the bytes, lines are full and only a single word overflows;
\* and what is cut off at a number of columns is cut between characters, as late as
\* possible.
TuiTextSound ==
  rpc = "wrap" /\ at = 1 =>
    \A width \in 1 .. request.width :
      LET lines == Wrap(Text, width, 0, 0)
      IN  /\ LinesKeepText(Text, lines) /\ LinesFit(Text, lines, width, 0, 0)
          /\ TruncateMaximal(Text, width)

\* config.c:85 says of --plain "Force plain text without colors": no rendering of a
\* process that was given it writes an escape sequence.
PlainIsPlain ==
  request.plain => ~(\E i \in DOMAIN out : out[i].op = "begin")
=============================================================================
