--------------------------- MODULE InputReaderProofs ---------------------------
(***************************************************************************)
(* InputReader for every limit, initial size and chunk that satisfy        *)
(* InputAssumption: the buffer is never overrun, what is returned is the   *)
(* whole input but for what an error has cost it behind the first byte,    *)
(* and only an input that reaches the last chunk is refused for its size;  *)
(* and every step leaves less to do.                                       *)
(***************************************************************************)
EXTENDS InputReader, TLAPS

USE InputAssumption

\* Nothing is allocated at first, so every part of the invariant holds.
LEMMA InitInvariant == Init => IInv
<1> SUFFICES ASSUME Init PROVE IInv
  OBVIOUS
<1>1. InputTypeOK
  BY DEF Init, InputTypeOK
<1>2. BufferInvariant
  BY DEF Init, BufferInvariant
<1>3. TextIsWhole /\ RefusesOnlyLarge
  BY DEF Init, TextIsWhole, RefusesOnlyLarge
<1> QED
  BY <1>1, <1>2, <1>3 DEF IInv

\* The first allocation is within the limit and leaves room for the terminator.
LEMMA StartPreserves == IInv /\ Start => IInv'
<1> SUFFICES ASSUME IInv, Start PROVE IInv'
  OBVIOUS
<1>1. FirstCapacity \in Nat /\ 0 < FirstCapacity /\ FirstCapacity <= Max
  BY DEF IInv, InputTypeOK, FirstCapacity
<1>2. CASE capacity' = FirstCapacity /\ at' = "top" /\ UNCHANGED result
  BY <1>1, <1>2 DEF Start, IInv, InputTypeOK, BufferInvariant, TextIsWhole, RefusesOnlyLarge, source
<1>3. CASE Return("ENOMEM") /\ UNCHANGED capacity
  BY <1>3 DEF Start, Return, IInv, InputTypeOK, BufferInvariant, TextIsWhole, RefusesOnlyLarge, source
<1> QED
  BY <1>2, <1>3 DEF Start

\* Growing leaves at least a byte to read; refusing means the limit's last chunk
\* is reached.
LEMMA TopPreserves == IInv /\ Top => IInv'
<1> SUFFICES ASSUME IInv, Top PROVE IInv'
  OBVIOUS
<1> USE DEF IInv, InputTypeOK, BufferInvariant, TextIsWhole, RefusesOnlyLarge, source
<1>1. /\ capacity \in Nat /\ total \in Nat /\ length \in Nat
      /\ 0 < capacity /\ capacity <= Max /\ total < capacity /\ total <= length
      /\ from = "stdin" /\ result = "none"
  BY DEF Top
<1>2. CASE /\ total >= Max - 1 \/ (Remaining(capacity) < Chunk /\ Doubled <= capacity)
           /\ Return("E2BIG") /\ UNCHANGED capacity
  <2>1. length >= Max - Chunk
    BY <1>1, <1>2 DEF Remaining, Doubled, Least
  <2> QED
    BY <1>1, <1>2, <2>1 DEF Top, Return
<1>3. CASE /\ Remaining(capacity) < Chunk /\ Doubled > capacity
           /\ capacity' = Doubled /\ at' = "read" /\ UNCHANGED result
  <2>1. Doubled \in Nat /\ Doubled <= Max /\ total + 1 < Doubled
    BY <1>1, <1>3 DEF Doubled, Least
  <2> QED
    BY <1>1, <1>3, <2>1 DEF Top
<1>4. CASE Return("ENOMEM") /\ UNCHANGED capacity
  BY <1>1, <1>4 DEF Top, Return
<1>5. CASE Remaining(capacity) >= Chunk /\ at' = "read" /\ UNCHANGED <<capacity, result>>
  BY <1>1, <1>5 DEF Top, Remaining
<1> QED
  BY <1>2, <1>3, <1>4, <1>5 DEF Top

\* fread returns at most what is left, and nothing else of it; when less than it was
\* asked for comes, the stream shows the end or an error.
LEMMA FreadsFacts ==
  ASSUME InputTypeOK, BufferInvariant, NEW n \in Nat, NEW got \in 0..n, Freads(n, got)
  PROVE  /\ Rest \in Nat /\ total + Rest <= length /\ got <= Rest
         /\ stream' \subseteq {"eof", "error", "lost"} /\ stream \subseteq stream'
         /\ "lost" \in stream' => "lost" \in stream \/ "error" \in stream'
         /\ "eof" \in stream' => "lost" \in stream \/ total + got = length
<1>1. Rest \in Nat /\ total + Rest <= length
  BY DEF InputTypeOK, BufferInvariant, Rest
<1>2. CASE got = n /\ n <= Rest /\ UNCHANGED stream
  BY <1>1, <1>2 DEF InputTypeOK, BufferInvariant, Rest
<1>3. CASE got < n /\ got = Rest /\ stream' = stream \cup {"eof"}
  BY <1>1, <1>3 DEF InputTypeOK, Rest
<1>4. CASE /\ got < n /\ got <= Rest
           /\ \E cost \in SUBSET {"lost"} : stream' = stream \cup {"error"} \cup cost
  BY <1>1, <1>4 DEF InputTypeOK, BufferInvariant, Rest
<1> QED
  BY <1>2, <1>3, <1>4 DEF Freads

\* A read stays inside the buffer, and returns only when nothing came.
LEMMA ReadPreserves == IInv /\ Read => IInv'
<1> SUFFICES ASSUME IInv, Read PROVE IInv'
  OBVIOUS
<1> USE DEF IInv, InputTypeOK, BufferInvariant, TextIsWhole, RefusesOnlyLarge
<1>1. /\ capacity \in Nat /\ total \in Nat /\ length \in Nat
      /\ capacity <= Max /\ total + 1 < capacity /\ total <= length
      /\ from = "stdin" /\ result = "none" /\ at = "read"
  BY DEF Read
<1>2. ToRead \in Nat /\ 0 < ToRead /\ total + ToRead < capacity
  BY <1>1 DEF ToRead, Remaining, Least
<1>3. PICK got \in 0..ToRead :
        /\ Freads(ToRead, got)
        /\ IF InputOver(got)
           THEN Return(IF "eof" \in stream' THEN "text" ELSE "EIO") /\ UNCHANGED total
           ELSE IF got > Max - 1 - total THEN Return("EIO") /\ UNCHANGED total
           ELSE total' = total + got /\ at' = "top" /\ UNCHANGED result
  BY <1>2 DEF Read
<1>4. UNCHANGED <<from, length, reported, capacity>>
  BY DEF Read, source
<1>5. /\ got \in Nat /\ total + got < capacity /\ total + got <= length /\ got <= Max - 1 - total
      /\ stream' \subseteq {"eof", "error", "lost"} /\ stream \subseteq stream'
      /\ "lost" \in stream' => "lost" \in stream \/ "error" \in stream'
      /\ "eof" \in stream' => "lost" \in stream \/ total + got = length
  BY <1>1, <1>2, <1>3, FreadsFacts
<1>6. CASE got = 0
  BY <1>1, <1>3, <1>4, <1>5, <1>6 DEF Return, InputOver
<1>7. CASE got # 0
  <2>1. total' = total + got /\ at' = "top" /\ UNCHANGED result
    BY <1>3, <1>5, <1>7 DEF InputOver
  <2> QED
    BY <1>1, <1>4, <1>5, <1>7, <2>1
<1> QED
  BY <1>6, <1>7

\* A file is read once, into a buffer of its reported size.
LEMMA ReadFilePreserves == IInv /\ ReadFile => IInv'
<1> SUFFICES ASSUME IInv, ReadFile PROVE IInv'
  OBVIOUS
<1> USE DEF IInv, InputTypeOK, BufferInvariant, TextIsWhole, RefusesOnlyLarge
<1>1. /\ reported \in Nat /\ length \in Nat /\ total = 0 /\ capacity = 0
      /\ from = "file" /\ UNCHANGED <<from, length, reported>>
  BY DEF ReadFile, source
<1>2. CASE UNCHANGED <<stream, capacity, total>> /\ (Return("E2BIG") \/ Return("ENOMEM"))
  BY <1>1, <1>2 DEF Return
<1>3. CASE /\ reported <= Max - 1 /\ capacity' = reported + 1
           /\ \E got \in 0..reported :
                /\ Freads(reported, got) /\ total' = got
                /\ Return(IF got # reported THEN "EIO" ELSE "text")
  <2>1. PICK got \in 0..reported :
          /\ Freads(reported, got) /\ total' = got
          /\ Return(IF got # reported THEN "EIO" ELSE "text")
    BY <1>3
  <2>2. /\ stream' \subseteq {"eof", "error", "lost"}
        /\ got <= length /\ ("eof" \in stream' => got = length)
    BY <1>1, <2>1, FreadsFacts DEF ReadFile
  <2> QED
    BY <1>1, <1>3, <2>1, <2>2 DEF Return
<1> QED
  BY <1>2, <1>3 DEF ReadFile

\* The invariant of the reader is inductive (src/io/input.c:37-195).
THEOREM InvariantHolds == Spec => []IInv
<1>1. IInv /\ [Next]_vars => IInv'
  <2> SUFFICES ASSUME IInv, [Next]_vars PROVE IInv'
    OBVIOUS
  <2>1. CASE UNCHANGED vars
    BY <2>1 DEF vars, source, IInv, InputTypeOK, BufferInvariant, TextIsWhole, RefusesOnlyLarge
  <2> QED
    BY <2>1, StartPreserves, TopPreserves, ReadPreserves, ReadFilePreserves DEF Next
<1> QED
  BY <1>1, InitInvariant, PTL DEF Spec

\* The variables keep their types.
THEOREM TypeCorrect == Spec => []InputTypeOK
<1>1. IInv => InputTypeOK
  BY DEF IInv
<1> QED
  BY <1>1, InvariantHolds, PTL

\* No read ever goes beyond the buffer or asks for nothing, and the buffer stays
\* within the limit (the checks of src/io/input.c:101 and :120 never fire).
THEOREM ReaderNeverOverruns == Spec => []NeverOverruns
<1>1. IInv => NeverOverruns
  <2> SUFFICES ASSUME IInv PROVE NeverOverruns
    OBVIOUS
  <2> USE DEF IInv, InputTypeOK, BufferInvariant
  <2>1. CASE at = "read"
    <3>1. ToRead \in Nat /\ 0 < ToRead /\ total + ToRead < capacity
      BY <2>1 DEF ToRead, Remaining, Least
    <3> QED
      BY <2>1, <3>1 DEF NeverOverruns
  <2>2. CASE at # "read"
    BY <2>2 DEF NeverOverruns
  <2> QED
    BY <2>1, <2>2
<1> QED
  BY <1>1, InvariantHolds, PTL

\* What the reader returns as text ends where the input ends, and is the whole input
\* unless the stream shows an error as well: one that came behind the first byte and
\* has cost the rest (the test at src/io/input.c:110 comes after a read of nothing,
\* and finds the end first).
THEOREM ReturnedTextIsWhole == Spec => []TextIsWhole
<1>1. IInv => TextIsWhole
  BY DEF IInv
<1> QED
  BY <1>1, InvariantHolds, PTL

\* Only an input that reaches the last chunk before the limit is refused for its
\* size, and none beyond the limit is accepted.
THEOREM OnlyLargeIsRefused == Spec => []RefusesOnlyLarge
<1>1. IInv => RefusesOnlyLarge
  BY DEF IInv
<1> QED
  BY <1>1, InvariantHolds, PTL

\* What is left to do: two steps for each byte not yet read, and the first
\* allocation.
Work ==
  CASE at = "start" -> 2 * length + 3
    [] at = "top" -> 2 * (length - total) + 2
    [] at = "read" -> 2 * (length - total) + 1
    [] at = "end" -> 0

\* Every step reads at least a byte, moves on within a pass or returns.
LEMMA WorkDecreases == IInv /\ Next => Work' < Work
<1> SUFFICES ASSUME IInv, Next PROVE Work' < Work
  OBVIOUS
<1>1. /\ length \in Nat /\ total \in Nat /\ total <= length /\ length' = length
      /\ at \in {"start", "top", "read", "end"}
  BY DEF IInv, InputTypeOK, BufferInvariant, Next, Start, Top, Read, ReadFile, source
<1>2. CASE at # "end" /\ at' = "end"
  BY <1>1, <1>2 DEF Work
<1>3. CASE Start /\ at' # "end"
  BY <1>1, <1>3 DEF Start, Return, Work, IInv, BufferInvariant
<1>4. CASE Top /\ at' # "end"
  BY <1>1, <1>4 DEF Top, Return, Work
<1>5. CASE Read /\ at' # "end"
  <2>1. total \in Nat /\ total + 1 < capacity /\ capacity \in Nat
    BY <1>5 DEF Read, IInv, InputTypeOK, BufferInvariant
  <2>2. ToRead \in Nat /\ 0 < ToRead
    BY <2>1 DEF ToRead, Remaining, Least
  <2>3. PICK got \in 0..ToRead :
          Freads(ToRead, got) /\ got # 0 /\ total' = total + got /\ at' = "top" /\ at = "read"
    BY <1>5, <2>2 DEF Read, Return, InputOver
  <2>4. total + got <= length
    BY <2>1, <2>2, <2>3, FreadsFacts, <1>1 DEF IInv
  <2> QED
    BY <1>1, <2>2, <2>3, <2>4 DEF Work
<1>6. ReadFile => at # "end" /\ at' = "end"
  BY DEF ReadFile, Return
<1>7. at # "end"
  BY DEF Next, Start, Top, Read, ReadFile
<1> QED
  BY <1>2, <1>3, <1>4, <1>5, <1>6, <1>7 DEF Next

\* No step of the reader, whatever the sizes, the input and the failures, leaves
\* as much to do as it found (the loop of src/io/input.c:64-129 cannot turn on
\* the spot); with the fairness of FairSpec this is why reading ends.
THEOREM ReaderAlwaysAdvances == Spec => [][Work' \in Nat /\ Work' < Work]_vars
<1>1. IInv /\ IInv' /\ [Next]_vars => [Work' \in Nat /\ Work' < Work]_vars
  <2>1. IInv' => Work' \in Nat
    BY DEF IInv, InputTypeOK, BufferInvariant, Work
  <2> QED
    BY <2>1, WorkDecreases
<1> QED
  BY <1>1, InvariantHolds, PTL DEF Spec
=============================================================================
