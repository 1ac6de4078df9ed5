----------------------------- MODULE MCTuiSession -----------------------------
(* Terminals on each side of every size the code compares with: too small  *)
(* for anything (2), for a dialog (3), for the progress window (6), for a  *)
(* menu (7), for the overlay's layout (8), and the documented 24 x 80.     *)
EXTENDS TuiSession

MCScreens ==
  {[rows |-> r, cols |-> 80] : r \in {2, 3, 6, 7, 8, 24}}
  \cup {[rows |-> 24, cols |-> c] : c \in {7, 23, 25}}

\* A screen, a submenu, a dialog, and both windows of a resize.
MCWindows == 1 .. 4
=============================================================================
