----------------------------- MODULE MCInputReader -----------------------------
(***************************************************************************)
(* InputReader with small sizes: the code's are 512 KiB, 128 KiB and 8 KiB *)
(* and the arithmetic is linear, so what matters is that the buffer doubles *)
(* twice before the limit and that no size divides another.                *)
(***************************************************************************)
EXTENDS InputReader
=============================================================================
