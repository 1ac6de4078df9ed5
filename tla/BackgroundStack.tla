---------------------------- MODULE BackgroundStack ----------------------------
(***************************************************************************)
(* The window that dialogs repaint when they close, and the bounded array  *)
(* of the windows behind it (src/tui/tui.c, top of the file).              *)
(*                                                                         *)
(* background_stack holds tui_background_stack[0 .. depth-1].              *)
(***************************************************************************)
EXTENDS Integers, Sequences, SequencesExt

CONSTANTS
  Windows,    \* window pointers
  NoWindow,   \* NULL
  Cap         \* TUI_BACKGROUND_STACK_MAX

ASSUME StackAssumption == Cap \in Nat \ {0} /\ NoWindow \notin Windows

VARIABLES background_win, background_stack

stackVars == <<background_win, background_stack>>

StackInit == background_win = NoWindow /\ background_stack = <<>>

\* Mutant: a full array does not take the new entry.
PushDropsNewest(w) ==
  /\ background_stack' = IF Len(background_stack) < Cap
                         THEN Append(background_stack, background_win) ELSE background_stack
  /\ background_win' = w

\* tui_push_background: a full array loses its oldest entry.
Push(w) ==
  /\ background_stack' =
       Append(IF Len(background_stack) < Cap THEN background_stack
                                             ELSE Tail(background_stack),
              background_win)
  /\ background_win' = w

\* tui_pop_background
Pop ==
  IF background_stack = <<>>
  THEN background_win' = NoWindow /\ UNCHANGED background_stack
  ELSE /\ background_win' = Last(background_stack)
       /\ background_stack' = Front(background_stack)

\* tui_replace_background
Replace(old, new) ==
  LET other(w) == IF w = old THEN new ELSE w
  IN /\ background_win' = other(background_win)
     /\ background_stack' =
          [i \in DOMAIN background_stack |-> other(background_stack[i])]

\* tui_clear_background_window
Clear == background_win' = NoWindow /\ background_stack' = <<>>

\* Every window the module may still repaint, now or after a pop.
Backgrounds == ({background_win} \cup Range(background_stack)) \ {NoWindow}
=============================================================================
