------------------------------ MODULE Osc11Query ------------------------------
(***************************************************************************)
(* Asking the terminal for its background colour                           *)
(* (src/cli/style/cli_term_osc11.c): the program takes the terminal out of *)
(* its line mode, writes the query, reads whatever comes until a terminator*)
(* or until its time is used up, and restores the mode.                    *)
(*                                                                         *)
(* The terminal and the user share one line to the program: what they send *)
(* arrives in order, late or never, and in pieces of any size.  Text is a  *)
(* sequence of symbols; a symbol is an indivisible group of bytes.         *)
(***************************************************************************)
EXTENDS Integers, Sequences

CONSTANTS
  Limit,     \* sizeof(buf), counted in symbols
  Timeout,   \* the time-out in milliseconds
  Slice,     \* the longest single poll
  Colours,   \* background colours, as one symbol for the three channels
  Typed,     \* symbols the user may type
  MaxTyped   \* how many of them (bounds the model, not the code)

ASSUME QueryAssumption ==
  /\ Limit \in Nat \ {0} /\ Timeout \in Nat \ {0} /\ Slice \in Nat \ {0}
  /\ MaxTyped \in Nat
  /\ Colours \cap {"none", "esc", "osc11", "rgb", "bel", "st"} = {}
  /\ Typed \cap (Colours \cup {"osc11"}) = {}  \* the user types keys, not answers

VARIABLES
  qpc,        \* "idle", "raw", "write", "poll", "parse", "done"
  mode,       \* the terminal's: "saved" (as found) or "raw"
  buf,        \* buf[0 .. len-1]
  remaining,  \* milliseconds left
  found,      \* the colour the parser saw, or "none"
  line,       \* sent by the terminal or the user, not yet arrived
  tty,        \* the terminal's input queue: arrived, not yet read
  typed,      \* symbols typed so far
  stale,      \* whether an answer to an earlier process was still in the queue
  terminal    \* what the terminal answers to a query: a sequence, <<>> if nothing

queryVars == <<qpc, mode, buf, remaining, found>>
lineVars == <<line, tty, typed, stale, terminal>>
oscVars == <<queryVars, lineVars>>

Lesser(m, n) == IF m < n THEN m ELSE n

(***************************************************************************)
(* The two ends an answer may have, BEL and ESC \ ("osc11" and "rgb" are   *)
(* "]11;" and "rgb:", or "rgba:" with its fourth channel), and what a      *)
(* terminal may make of a query it does not know.                          *)
(***************************************************************************)
Terminators == {<<"bel">>, <<"esc", "st">>}
Answer(colour, end) == <<"esc", "osc11", "rgb", colour>> \o end
Answers == {Answer(c, e) : c \in Colours, e \in Terminators}
Garbled == {<<"esc", "osc11", "bel">>}

At(s, i, piece) ==
  i + Len(piece) - 1 <= Len(s) /\ SubSeq(s, i, i + Len(piece) - 1) = piece

Terminated(s) == \E i \in 1 .. Len(s), e \in Terminators : At(s, i, e)

\* The first complete answer in s, wherever it begins.
\* Mutant: the parser does not ask for a terminator.
ParseUnterminated(s) ==
  LET hits == {c \in Colours : \E i \in 1 .. Len(s) : At(s, i, Answer(c, <<>>))}
  IN  IF hits = {} THEN "none" ELSE CHOOSE c \in hits : TRUE
Begins(s) ==
  {i \in 1 .. Len(s) : \E a \in Answers : At(s, i, a)}
Parse(s) ==
  IF Begins(s) = {} THEN "none"
  ELSE s[(CHOOSE i \in Begins(s) : \A j \in Begins(s) : i <= j) + 3]

QueryInit ==
  /\ qpc = "idle" /\ mode = "saved" /\ buf = <<>>
  /\ remaining = 0 /\ found = "none"
  /\ line = <<>> /\ tty = <<>> /\ typed = 0
  /\ stale = FALSE /\ terminal = <<>>

\* The call.  It meets a terminal of some kind, in whose queue an answer that came
\* too late for an earlier process may still be.
StartQuery ==
  /\ qpc = "idle"
  /\ qpc' = "raw"
  /\ terminal' \in Answers \cup Garbled \cup {<<>>}
  /\ stale' \in BOOLEAN /\ (stale' => terminal' \in Answers)
  /\ tty' = IF stale' THEN terminal' ELSE <<>>
  /\ UNCHANGED <<mode, buf, remaining, found, line, typed>>

\* The mode is read and changed; either call may fail, and nothing was changed.
MakeRaw ==
  /\ qpc = "raw"
  /\ \/ mode' = "raw" /\ qpc' = "write"
     \/ mode' = mode /\ qpc' = "done"
  /\ found' = "none"
  /\ UNCHANGED <<buf, remaining, lineVars>>

\* Mutant: a failed write returns at once.
RestoreAfterRead(written) == IF written THEN "saved" ELSE mode
Restored(written) == "saved"

\* A query that could not be written whole is given up.  The terminal sees a
\* query only if it was.
WriteQuery ==
  /\ qpc = "write"
  /\ \/ /\ qpc' = "poll" /\ buf' = <<>> /\ remaining' = Timeout
        /\ line' = line \o terminal
        /\ UNCHANGED mode
     \/ /\ qpc' = "done" /\ mode' = Restored(FALSE)
        /\ UNCHANGED <<buf, remaining, line>>
  /\ UNCHANGED <<found, tty, typed, stale, terminal>>

\* A poll uses up its slice, however early it returns.
\* Mutant: a poll that fails is repeated with the time it had.
ChargeReads(got) == IF got = <<>> THEN remaining ELSE remaining - Lesser(remaining, Slice)
Charged(got) == remaining - Lesser(remaining, Slice)
MayPoll == remaining > 0 /\ Len(buf) + 1 < Limit

\* Nothing arrived in time, or poll or read failed or was interrupted.
PollFails ==
  /\ qpc = "poll" /\ MayPoll
  /\ remaining' = Charged(<<>>)
  /\ UNCHANGED <<qpc, mode, buf, found, lineVars>>

\* read takes what is there, as far as there is room, and the loop ends at a
\* terminator.
\* Mutant: the last byte of the buffer is used.
ReadableAll == SubSeq(tty, 1, Lesser(Len(tty), Limit - Len(buf)))
Readable == SubSeq(tty, 1, Lesser(Len(tty), Limit - Len(buf) - 1))
PollReads ==
  /\ qpc = "poll" /\ MayPoll /\ tty # <<>>
  /\ remaining' = Charged(Readable)
  /\ buf' = buf \o Readable
  /\ tty' = SubSeq(tty, Len(Readable) + 1, Len(tty))
  /\ qpc' = IF Terminated(buf') THEN "parse" ELSE "poll"
  /\ UNCHANGED <<mode, found, line, typed, stale, terminal>>

GiveUp ==
  /\ qpc = "poll" /\ ~MayPoll
  /\ qpc' = "parse"
  /\ UNCHANGED <<mode, buf, remaining, found, lineVars>>

ParseAnswer ==
  /\ qpc = "parse"
  /\ found' = Parse(buf)
  /\ mode' = Restored(TRUE)
  /\ qpc' = "done"
  /\ UNCHANGED <<buf, remaining, lineVars>>

\* app_cli_osc11_query_fd, from the call to the return.
Query == MakeRaw \/ WriteQuery \/ PollFails \/ PollReads \/ GiveUp \/ ParseAnswer

\* The return.  The locals are gone, and what is still to come is for others.
EndQuery ==
  /\ qpc = "done"
  /\ qpc' = "idle"
  /\ buf' = <<>> /\ remaining' = 0 /\ found' = "none"
  /\ line' = <<>> /\ tty' = <<>> /\ typed' = 0
  /\ UNCHANGED <<mode, stale, terminal>>

\* The rest of the world.
Arrive ==
  \E n \in 1 .. Len(line) :
    /\ tty' = tty \o SubSeq(line, 1, n)
    /\ line' = SubSeq(line, n + 1, Len(line))
    /\ UNCHANGED <<queryVars, typed, stale, terminal>>
Type ==
  /\ typed < MaxTyped
  /\ \E k \in Typed : line' = Append(line, k)
  /\ typed' = typed + 1
  /\ UNCHANGED <<queryVars, tty, stale, terminal>>
World == Arrive \/ Type

-----------------------------------------------------------------------------
(* The inductive invariant of a query *)

\* What may come down the line.
Known == Typed \cup {terminal[i] : i \in DOMAIN terminal}

\* Everything that was sent since the call, read or not.
Stream == (buf \o tty) \o line

\* The terminal's answer lies in s after n symbols, among what the user typed.
AnswerIn(s, n) ==
  /\ n + Len(terminal) <= Len(s)
  /\ \A k \in 1 .. Len(terminal) : s[n + k] = terminal[k]
  /\ \A k \in 1 .. Len(s) : k \notin n + 1 .. n + Len(terminal) => s[k] \in Typed

\* Where the mode is raw, what the buffer and the queue may hold, and that a colour
\* is believed for what it is.
QueryInvariant ==
  /\ qpc \in {"idle", "raw", "write", "poll", "parse", "done"}
  /\ mode = (IF qpc \in {"write", "poll", "parse"} THEN "raw" ELSE "saved")
  /\ buf \in Seq(Known) /\ tty \in Seq(Known) /\ line \in Seq(Known)
  /\ Len(buf) < Limit /\ remaining \in 0 .. Timeout
  /\ typed \in Nat /\ stale \in BOOLEAN
  /\ terminal \in Answers \cup Garbled \cup {<<>>}
  /\ qpc = "idle" => tty = <<>> /\ line = <<>> /\ typed = 0
  /\ qpc \in {"idle", "raw", "write"} => buf = <<>>
  /\ found \in Colours \cup {"none"}
  /\ found # "none" =>
       /\ qpc = "done"
       /\ terminal \in Answers /\ found = terminal[4]
       /\ stale \/ Len(tty) + Len(line) <= typed

\* Before the query only keys are on their way; after it the answer too, whole.
StreamInvariant ==
  ~stale =>
    /\ qpc \in {"raw", "write"} =>
         /\ Len(Stream) = typed
         /\ \A k \in 1 .. Len(Stream) : Stream[k] \in Typed
    /\ qpc \in {"poll", "parse"} =>
         /\ Len(Stream) = typed + Len(terminal)
         /\ \E n \in 0 .. typed : AnswerIn(Stream, n)
=============================================================================
