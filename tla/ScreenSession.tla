----------------------------- MODULE ScreenSession -----------------------------
(***************************************************************************)
(* What tui_run_app promises: menu screens open one over another, only the *)
(* innermost one closes or is given another frame, and once the terminal   *)
(* has been taken over the session ends only after every screen is closed. *)
(* A signal may kill the process only while no screen is open.             *)
(***************************************************************************)
EXTENDS Sequences, SequencesExt

CONSTANT Frames   \* the frames a screen may be drawn in

VARIABLES
  phase,   \* "off", "on", "ended" or "killed"
  open     \* frames of the open screens, outermost first

Init == phase = "off" /\ open = <<>>

Start == phase = "off" /\ phase' \in {"on", "ended", "killed"} /\ UNCHANGED open

Open(f) ==
  /\ phase = "on" /\ f \notin Range(open)
  /\ open' = Append(open, f)
  /\ UNCHANGED phase

Close ==
  /\ phase = "on" /\ open # <<>>
  /\ open' = Front(open)
  /\ UNCHANGED phase

Reframe(f) ==
  /\ phase = "on" /\ open # <<>> /\ f \notin Range(open)
  /\ open' = Append(Front(open), f)
  /\ UNCHANGED phase

Finish == phase = "on" /\ open = <<>> /\ phase' \in {"ended", "killed"} /\ UNCHANGED open

Next == Start \/ Close \/ Finish \/ \E f \in Frames : Open(f) \/ Reframe(f)

Spec == Init /\ [][Next]_<<phase, open>>
=============================================================================
