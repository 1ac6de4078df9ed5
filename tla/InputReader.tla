------------------------------ MODULE InputReader ------------------------------
(***************************************************************************)
(* Reading a whole input into one growing buffer (src/io/input.c).         *)
(*                                                                         *)
(* The input has `length` bytes; what fstat reported before may differ,    *)
(* because a pipe reports nothing and a file may change while it is read.  *)
(* A read may fail at any byte.  fread then returns what it has, the error *)
(* shows on the stream only, and the next call tries again: it may go on,  *)
(* fail again, or find an input that has ended with the rest lost.         *)
(***************************************************************************)
EXTENDS Integers

CONSTANTS
  Max,       \* INPUT_MAX_SIZE
  Initial,   \* INPUT_BUFFER_INITIAL_SIZE
  Chunk,     \* INPUT_BUFFER_READ_CHUNK_SIZE
  Longest    \* the longest input considered

\* The sizes of src/core/types.h, as far as the static assertions of input.c
\* and the reader rely on them.
ASSUME InputAssumption ==
  /\ Max \in Nat /\ Initial \in Nat /\ Chunk \in Nat /\ Longest \in Nat
  /\ 0 < Chunk /\ Chunk <= Initial /\ Initial <= Max

VARIABLES
  from,      \* "stdin" or "file": which of the two functions reads
  length,    \* the bytes of the input
  reported,  \* st_size of a regular file, 0 otherwise
  stream,    \* what stdin or the file shows: "eof", "error" (feof, ferror), and
             \* "lost" when an error has cost the rest of the input
  at,        \* "start", "top" and "read" of the loop, "end"
  capacity,  \* bytes allocated, 0 for none
  total,     \* bytes read
  result     \* "none", "text", or errno: "E2BIG", "ENOMEM", "EIO"

source == <<from, length, reported>>
vars == <<source, stream, at, capacity, total, result>>

Least(m, n) == IF m < n THEN m ELSE n

Init ==
  /\ from \in {"stdin", "file"}
  /\ length \in 0..Longest
  /\ reported \in 0..Longest
  /\ stream = {}
  /\ at = "start"
  /\ capacity = 0
  /\ total = 0
  /\ result = "none"

\* Every return frees the buffer or hands it to the caller.
Return(r) ==
  /\ at' = "end"
  /\ result' = r

\* Mutant: no room for the terminator.
RemainingAll(cap) == cap - total
Remaining(cap) == cap - total - 1

\* The first allocation. A file that reports its size gets room for all of it.
FirstCapacity ==
  IF reported = 0 THEN Initial
  ELSE IF reported < Max - 1 THEN reported + 1 ELSE Max

Start ==
  /\ from = "stdin" /\ at = "start"
  /\ \/ /\ capacity' = FirstCapacity
        /\ at' = "top" /\ UNCHANGED result
     \/ Return("ENOMEM") /\ UNCHANGED capacity
  /\ UNCHANGED <<source, stream, total>>

\* The top of the loop: refuse, or double the buffer when less than a chunk is
\* left in it, up to the limit.
\* Mutants: no limit; a regular file never needs more than it reported.
DoubledUnlimited == 2 * capacity
DoubledForPipes == IF reported = 0 THEN Least(2 * capacity, Max) ELSE capacity
Doubled == Least(2 * capacity, Max)

Top ==
  /\ from = "stdin" /\ at = "top"
  /\ \/ /\ total >= Max - 1 \/ (Remaining(capacity) < Chunk /\ Doubled <= capacity)
        /\ Return("E2BIG") /\ UNCHANGED capacity
     \/ /\ total < Max - 1 /\ Remaining(capacity) < Chunk /\ Doubled > capacity
        /\ \/ capacity' = Doubled /\ at' = "read" /\ UNCHANGED result
           \/ Return("ENOMEM") /\ UNCHANGED capacity
     \/ /\ total < Max - 1 /\ Remaining(capacity) >= Chunk
        /\ at' = "read" /\ UNCHANGED <<capacity, result>>
  /\ UNCHANGED <<source, stream, total>>

\* What is left of the input.
Rest == IF "lost" \in stream THEN 0 ELSE length - total

\* fread blocks until it has the n bytes it was asked for, the input is over or an
\* error comes.  It returns the number of bytes it has.
Freads(n, got) ==
  \/ got = n /\ n <= Rest /\ UNCHANGED stream
  \/ got < n /\ got = Rest /\ stream' = stream \cup {"eof"}
  \/ /\ got < n /\ got <= Rest
     /\ \E cost \in SUBSET {"lost"} : stream' = stream \cup {"error"} \cup cost

ToRead == Least(Remaining(capacity), Chunk)

\* The code looks at the stream only when a read has delivered nothing.
\* Mutants: a short read is taken for the end; the end is not noticed.
ShortRead(got) == got < ToRead
NeverOver(got) == FALSE
InputOver(got) == got = 0

Read ==
  /\ from = "stdin" /\ at = "read"
  /\ \E got \in 0..ToRead :
       /\ Freads(ToRead, got)
       /\ IF ToRead = 0 THEN Return("E2BIG") /\ UNCHANGED total
          ELSE IF InputOver(got)
          THEN Return(IF "eof" \in stream' THEN "text" ELSE "EIO") /\ UNCHANGED total
          ELSE IF got > Max - 1 - total THEN Return("EIO") /\ UNCHANGED total
          ELSE total' = total + got /\ at' = "top" /\ UNCHANGED result
  /\ UNCHANGED <<source, capacity>>

\* app_read_input_from_file: one buffer of the reported size, one read, which
\* must fill it.
ReadFile ==
  /\ from = "file" /\ at = "start"
  /\ \/ reported > Max - 1 /\ Return("E2BIG") /\ UNCHANGED <<stream, capacity, total>>
     \/ /\ reported <= Max - 1
        /\ Return("ENOMEM") /\ UNCHANGED <<stream, capacity, total>>
     \/ /\ reported <= Max - 1
        /\ capacity' = reported + 1
        /\ \E got \in 0..reported :
             /\ Freads(reported, got)
             /\ total' = got
             /\ Return(IF got # reported THEN "EIO" ELSE "text")
  /\ UNCHANGED source

Next == Start \/ Top \/ Read \/ ReadFile

Spec == Init /\ [][Next]_vars

\* The reader is one thread and nothing else holds the processor; an input that
\* never ends is bounded by Longest.  Nothing bounds the errors.
FairSpec == Spec /\ WF_vars(Next)

-----------------------------------------------------------------------------
(* Properties                                                              *)

\* The variables keep their types, and the buffer never exceeds the limit.
InputTypeOK ==
  /\ from \in {"stdin", "file"}
  /\ length \in Nat /\ reported \in Nat
  /\ capacity \in 0..Max /\ total \in 0..Max
  /\ stream \subseteq {"eof", "error", "lost"}
  /\ at \in {"start", "top", "read", "end"}
  /\ result \in {"none", "text", "E2BIG", "ENOMEM", "EIO"}

\* Whatever fstat reported and however the input grows meanwhile, fread is never
\* given more room than the buffer has after total and its terminator, asks for
\* at least one byte, and the buffer never exceeds the limit: the two checks of
\* the code after that are never taken.
NeverOverruns ==
  /\ capacity # 0 => total < capacity
  /\ at = "read" => /\ 0 < ToRead
                    /\ total + ToRead < capacity
                    /\ ToRead <= Max - 1 - total

\* Text from standard input is returned only at the end of the input, and is all of
\* it unless an error came behind the first byte and the retry found the end: then
\* both show on the stream.  An error before the first byte is never taken for an
\* empty input.  Text from a file is as much as fstat reported.
TextIsWhole ==
  result = "text" =>
    IF from = "stdin" THEN "eof" \in stream /\ (total = length \/ ("error" \in stream /\ 0 < total))
                      ELSE total = reported /\ total <= length

\* An input is refused for its size only when it fills the buffer up to the last
\* chunk, and is never read when it exceeds the limit, but for the part an error has
\* left of it.
RefusesOnlyLarge ==
  from = "stdin" =>
    /\ result = "E2BIG" => length >= Max - Chunk
    /\ result = "text" => total < Max /\ ("error" \in stream \/ length < Max)

\* What makes the above inductive: every read leaves the terminator its byte, and
\* the loop reads only into a buffer with a byte to spare.  What is lost was lost to
\* an error that the loop has passed, and the end shows only when nothing is left.
BufferInvariant ==
  /\ total <= length
  /\ capacity # 0 => total < capacity
  /\ at = "start" => capacity = 0 /\ total = 0
  /\ at \in {"top", "read"} => capacity # 0 /\ from = "stdin"
  /\ at = "read" => total + 1 < capacity
  /\ at # "end" => result = "none"
  /\ at = "start" => stream = {}
  /\ ("lost" \in stream /\ at # "end") => "error" \in stream /\ 0 < total
  /\ "eof" \in stream => "lost" \in stream \/ total = length

IInv == InputTypeOK /\ BufferInvariant /\ TextIsWhole /\ RefusesOnlyLarge

\* Reading comes to an end: every pass reads something, grows the buffer for the
\* last time or returns.
ReadEnds == <>(at = "end")

\* input.c:66 reports an input refused for its size as "Input exceeds maximum
\* size of [INPUT_MAX_SIZE - 1] bytes": what is refused does exceed it.
RefusedExceedsLimit ==
  result = "E2BIG" => (IF from = "stdin" THEN length ELSE reported) > Max - 1

\* input.h:16 says of the reader that it returns NULL on error: an error that costs
\* a part of the input is reported.
ErrorReturnsNull == ("error" \in stream /\ total < length) => result # "text"
=============================================================================
