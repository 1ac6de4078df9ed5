------------------------------- MODULE JsonText -------------------------------
(***************************************************************************)
(* JSON as the program reads and writes it: the two readers, of requests   *)
(* (src/core/request_json.c) and of configuration files                    *)
(* (src/core/config_json.c), on the scanners they share                    *)
(* (src/core/json_scan.c), and the writer of responses (src/io/output.c).  *)
(*                                                                         *)
(* A document is a sequence of symbols.  A word that matters as a whole (a *)
(* key, a literal) is one symbol, and so is a byte, a control or an escape *)
(* letter for all that are treated like it.  A document and an argument    *)
(* are strings of C: what is before the first NUL.                         *)
(***************************************************************************)
EXTENDS Integers, Sequences

CONSTANTS
  Documents,  \* what the readers may find
  Arguments,  \* what a command may have been given to repeat
  MaxDepth,   \* APP_REQUEST_JSON_MAX_DEPTH
  MaxArgs,    \* APP_MAX_COMMAND_ARGS
  KeySize,    \* the size of key[] in the configuration reader
  Initial     \* the first capacity of a string of a request

ASSUME JsonAssumption ==
  /\ MaxDepth \in Nat /\ MaxArgs \in Nat /\ KeySize \in Nat \ {0}
  /\ Initial \in Nat \ {0}
  /\ \A t \in Documents \cup Arguments :
       t \in Seq(STRING) /\ \A i \in DOMAIN t : t[i] # "NUL"

Quote == "quote"
Spaces == {"sp", "LF"}       \* isspace; a line feed is a control as well
Controls == {"LF", "ctl"}    \* below 0x20: with an escape of its own, and without
Digit == {"0", "1"}          \* zero, and the other digits
Literals == {"true", "false", "null"}
Flag == {"json"}             \* the names app_flag_find_by_json_key knows

\* What may follow a backslash, and what it stands for.  Some words begin with the
\* letter of an escape; the rest of the word is no name then, and no literal.
Words == Literals \cup {"flags"}
EscapeOf(c) == IF c = "n" THEN "LF" ELSE IF c \in Words THEN "other" ELSE c
Escapes == {Quote, "\\", "n"} \cup Words

VARIABLES
  doc,     \* the text being read, or the argument being written
  mode,    \* "request", "config" or "argument"
  result,  \* "none", or what the reader returns
  out      \* what the writer wrote

vars == <<doc, mode, result, out>>

\* Readers return a code, the position after what they read, and a value.
Ok(i, value) == [err |-> "ok", at |-> i, value |-> value]
Error(code) == [err |-> code, at |-> 0, value |-> <<>>]
ParseError == Error("parse")

Ch(d, i) == IF i <= Len(d) THEN d[i] ELSE "NUL"
SkipWs(d, i) ==
  CHOOSE j \in i .. Len(d) + 1 :
    /\ Ch(d, j) \notin Spaces
    /\ \A k \in i .. j - 1 : d[k] \in Spaces

(***************************************************************************)
(* json_scan.c                                                             *)
(***************************************************************************)
Boundary(c) == c \in Spaces \cup {"NUL", ",", "}", "]"}

ReadLiteral(d, i) ==
  IF Ch(d, i) \in Literals /\ Boundary(Ch(d, i + 1)) THEN Ok(i + 1, d[i]) ELSE ParseError

ReadBool(d, i) ==
  LET j == SkipWs(d, i)
  IN  IF Ch(d, j) \in {"true", "false"} THEN ReadLiteral(d, j) ELSE ParseError

\* The position after the digits from i on, and after a part of a number; 0 when
\* it is malformed.
Digits(d, i) ==
  CHOOSE j \in i .. Len(d) + 1 :
    /\ Ch(d, j) \notin Digit
    /\ \A k \in i .. j - 1 : d[k] \in Digit
DigitsFrom(d, i) == IF Ch(d, i) \in Digit THEN Digits(d, i) ELSE 0

Whole(d, i) == IF Ch(d, i) = "0" THEN i + 1 ELSE DigitsFrom(d, i)

Fraction(d, i) == IF i > 0 /\ Ch(d, i) = "." THEN DigitsFrom(d, i + 1) ELSE i
Exponent(d, i) ==
  IF i > 0 /\ Ch(d, i) = "e"
  THEN DigitsFrom(d, IF Ch(d, i + 1) = "-" THEN i + 2 ELSE i + 1)
  ELSE i
SkipNumber(d, i) ==
  LET p == SkipWs(d, i)
      j == Exponent(d, Fraction(d, Whole(d, IF Ch(d, p) = "-" THEN p + 1 ELSE p)))
  IN  IF j > 0 /\ Boundary(Ch(d, j)) THEN Ok(j, <<>>) ELSE ParseError

(***************************************************************************)
(* Strings.  The request reader doubles its buffer, the configuration      *)
(* reader has one of a fixed size for keys and none for what it skips.     *)
(***************************************************************************)
Reading(i, text, capacity) ==
  [err |-> "reading", at |-> i, value |-> text, capacity |-> capacity]
Stopped(r) == [err |-> r.err, at |-> r.at, value |-> r.value, capacity |-> 0]

\* One turn of the loop, at the character s.at.
Character(d, s, grows) ==
  LET escaped == Ch(d, s.at) = "\\"
      c == IF escaped THEN Ch(d, s.at + 1) ELSE Ch(d, s.at)
      full == Len(s.value) + 1 >= s.capacity
  IN  IF c = "NUL" THEN Stopped(ParseError)
      ELSE IF ~escaped /\ c = Quote THEN Stopped(Ok(s.at + 1, s.value))
      ELSE IF escaped /\ c \notin Escapes THEN Stopped(ParseError)
      ELSE IF ~escaped /\ c \in Controls THEN Stopped(ParseError)
      ELSE IF full /\ ~grows THEN Stopped(Error("range"))
      ELSE Reading(IF escaped THEN s.at + 2 ELSE s.at + 1,
                   Append(s.value, IF escaped THEN EscapeOf(c) ELSE c),
                   IF full THEN 2 * s.capacity ELSE s.capacity)

\* The loop takes at least one character at each turn, and stops at the end.
Characters(d, i, capacity, grows) ==
  LET read[n \in 0 .. Len(d) + 1] ==
        IF n = 0 THEN Reading(i, <<>>, capacity)
        ELSE LET s == read[n - 1]
             IN  IF s.err = "reading" THEN Character(d, s, grows) ELSE s
  IN  read[Len(d) + 1]

String(d, i, capacity, grows) ==
  LET j == SkipWs(d, i)
      read == Characters(d, j + 1, capacity, grows)
  IN  IF Ch(d, j) # Quote THEN ParseError
      ELSE [err |-> read.err, at |-> read.at, value |-> read.value]
RequestString(d, i) == String(d, i, Initial, TRUE)
ConfigKey(d, i) == String(d, i, KeySize, FALSE)
SkipString(d, i) == String(d, i, Len(d) + 2, TRUE)

(***************************************************************************)
(* The parts of a container, from behind its opening bracket on.  After a  *)
(* separator there must be another part.                                   *)
(***************************************************************************)
Parts(d, first, close, initial, Part(_, _, _)) ==
  LET More(i, acc) == [err |-> "reading", at |-> i, value |-> acc]
      After(i, acc) ==
        LET part == Part(d, i, acc)
            j == SkipWs(d, part.at)
        IN  IF Ch(d, i) = "NUL" THEN ParseError
            ELSE IF part.err # "ok" THEN part
            ELSE IF Ch(d, j) = "," THEN More(j + 1, part.value)
            ELSE IF Ch(d, j) = close THEN Ok(j + 1, part.value)
            ELSE ParseError
      read[n \in 0 .. Len(d) + 1] ==
        IF n = 0 THEN More(first, initial)
        ELSE LET s == read[n - 1] IN IF s.err = "reading" THEN After(s.at, s.value) ELSE s
  IN  read[Len(d) + 1]

Container(d, i, open, close, acc, Part(_, _, _)) ==
  LET j == SkipWs(d, i)
      k == SkipWs(d, j + 1)
  IN  IF Ch(d, j) # open THEN ParseError
      ELSE IF Ch(d, k) = close THEN Ok(k + 1, acc)
      ELSE Parts(d, k, close, acc, Part)

\* A member is a key, read as the reader does, a colon, and what the key asks for.
Member(d, i, Key(_, _), Value(_, _, _)) ==
  LET key == Key(d, i)
      j == SkipWs(d, key.at)
  IN  IF key.err # "ok" THEN key
      ELSE IF Ch(d, j) # ":" THEN ParseError
      ELSE Value(d, j + 1, key.value)

\* The two functions that skip an unknown value call one another; both count.
\* Mutant: an array does not count as a level.
TooDeepObjects(d, i, depth) == Ch(d, i) = "{" /\ depth > MaxDepth
TooDeep(d, i, depth) == depth > MaxDepth

SkipValue(d, first, start) ==
  LET skip[depth \in Nat] ==
        [i \in 1 .. Len(d) + 1 |->
           LET p == SkipWs(d, i)
               Element(e, k, acc) == skip[depth + 2][k]
               Pair(e, k, acc) == Member(e, k, RequestString, Element)
           IN  CASE Ch(d, p) = Quote -> RequestString(d, p)
                 [] Ch(d, p) \in {"[", "{"} /\ TooDeep(d, p, depth + 1) -> Error("range")
                 [] Ch(d, p) = "[" -> Container(d, p, "[", "]", <<>>, Element)
                 [] Ch(d, p) = "{" -> Container(d, p, "{", "}", <<>>, Pair)
                 [] Ch(d, p) \in Literals -> ReadLiteral(d, p)
                 [] OTHER -> SkipNumber(d, p)]
  IN  skip[start][first]

(***************************************************************************)
(* app_request_parse_json.  The flags themselves are those of ConfigFlags; *)
(* here only their names count.                                            *)
(***************************************************************************)
NoRequest == [command |-> <<>>, args |-> <<>>]

ArgPart(d, i, request) ==
  LET arg == RequestString(d, i)
  IN  IF Len(request.args) >= MaxArgs THEN Error("range")
      ELSE IF arg.err # "ok" THEN arg
      ELSE Ok(arg.at, [request EXCEPT !.args = Append(@, arg.value)])

FlagPart(d, i, request) ==
  LET Value(e, k, name) ==
        LET bool == ReadBool(e, k)
        IN  IF bool.err # "ok" THEN bool
            ELSE IF name \notin {<<f>> : f \in Flag} THEN Error("option")
            ELSE Ok(bool.at, request)
  IN  Member(d, i, RequestString, Value)

RequestPart(d, i, request) ==
  LET Value(e, k, key) ==
        CASE key = <<"command">> ->
               LET name == RequestString(e, k)
               IN  IF name.err = "ok" THEN Ok(name.at, [request EXCEPT !.command = name.value])
                   ELSE name
          [] key = <<"args">> -> Container(e, k, "[", "]", request, ArgPart)
          [] key = <<"flags">> -> Container(e, k, "{", "}", request, FlagPart)
          [] OTHER -> LET skipped == SkipValue(e, k, 0)
                      IN  IF skipped.err = "ok" THEN Ok(skipped.at, request) ELSE skipped
  IN  Member(d, i, RequestString, Value)

\* Only space may follow the document.
Finish(d, r) == IF r.err = "ok" /\ SkipWs(d, r.at) <= Len(d) THEN ParseError ELSE r

ParseRequest(d) ==
  LET r == Finish(d, Container(d, 1, "{", "}", NoRequest, RequestPart))
  IN  IF r.err = "ok" /\ r.value.command = <<>> THEN Error("missing") ELSE r

(***************************************************************************)
(* app_config_parse_json_state.  Values of unknown keys must be scalars;   *)
(* nothing at all is an empty configuration.                               *)
(***************************************************************************)
SkipScalar(d, i) ==
  LET p == SkipWs(d, i)
  IN  CASE Ch(d, p) = Quote -> SkipString(d, p)
        [] Ch(d, p) \in Literals -> ReadLiteral(d, p)
        [] OTHER -> SkipNumber(d, p)

ConfigPart(d, i, acc) ==
  LET Value(e, k, key) == IF key \in {<<f>> : f \in Flag} THEN ReadBool(e, k) ELSE SkipScalar(e, k)
  IN  Member(d, i, ConfigKey, Value)

ParseConfig(d) ==
  IF SkipWs(d, 1) > Len(d) THEN Ok(Len(d) + 1, <<>>)
  ELSE Finish(d, Container(d, 1, "{", "}", <<>>, ConfigPart))

(***************************************************************************)
(* app_json_write_string.  "u2" begins a sequence of two bytes, "cont"     *)
(* continues one; a byte that does neither becomes the replacement.        *)
(***************************************************************************)
Sequence(t, i) ==
  IF t[i] = "u2" /\ Ch(t, i + 1) = "cont" THEN 2
  ELSE IF t[i] \in {"u2", "cont"} THEN 0
  ELSE 1

\* Mutant: a backslash is written as it is.
WrittenPlainly(c) == IF c = Quote THEN <<"\\", Quote>> ELSE IF c = "LF" THEN <<"\\", "n">>
                     ELSE IF c = "ctl" THEN <<"\\", "u", "0001">> ELSE <<c>>
Written(c) ==
  CASE c \in {Quote, "\\"} -> <<"\\", c>>
    [] c = "LF" -> <<"\\", "n">>
    [] c = "ctl" -> <<"\\", "u", "0001">>
    [] OTHER -> <<c>>

\* What the byte at i is written as, with the bytes of its sequence.
Piece(t, i) ==
  CASE Sequence(t, i) = 2 -> <<t[i], t[i + 1]>>
    [] Sequence(t, i) = 0 -> <<"\\", "u", "fffd">>
    [] OTHER -> Written(t[i])
Behind(t, i) == IF Sequence(t, i) = 2 THEN i + 2 ELSE i + 1

WrittenFrom(t) ==
  LET from[i \in 1 .. Len(t) + 1] ==
        IF i > Len(t) THEN <<>> ELSE Piece(t, i) \o from[Behind(t, i)]
  IN  from
WriteString(t) == <<Quote>> \o WrittenFrom(t)[1] \o <<Quote>>

Init ==
  /\ \/ mode \in {"request", "config"} /\ doc \in Documents
     \/ mode = "argument" /\ doc \in Arguments
  /\ result = Error("none") /\ out = <<>>

ReadRequest ==
  /\ mode = "request" /\ result.err = "none"
  /\ result' = ParseRequest(doc)
  /\ UNCHANGED <<doc, mode, out>>

ReadConfig ==
  /\ mode = "config" /\ result.err = "none"
  /\ result' = ParseConfig(doc)
  /\ UNCHANGED <<doc, mode, out>>

\* A command repeats an argument in its response, and a program of the same kind
\* reads it back.
Respond ==
  /\ mode = "argument" /\ out = <<>>
  /\ out' = WriteString(doc)
  /\ UNCHANGED <<doc, mode, result>>
ReadBack ==
  /\ mode = "argument" /\ out # <<>> /\ result.err = "none"
  /\ result' = Finish(out, RequestString(out, 1))
  /\ UNCHANGED <<doc, mode, out>>

Next == ReadRequest \/ ReadConfig \/ Respond \/ ReadBack
Spec == Init /\ [][Next]_vars

-----------------------------------------------------------------------------
\* What the writer writes is a JSON string whatever it is given, and what the
\* program's own reader makes of it is what was written, unless that held bytes or
\* controls that only an escape the reader refuses can express.
ResponsesReadBack ==
  (mode = "argument" /\ result.err # "none") =>
    IF \E i \in DOMAIN doc :
         \/ doc[i] = "ctl"
         \/ Sequence(doc, i) = 0 /\ ~(i > 1 /\ Sequence(doc, i - 1) = 2)
    THEN result.err = "parse"
    ELSE result.err = "ok" /\ result.value = doc
=============================================================================
