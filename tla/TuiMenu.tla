------------------------------- MODULE TuiMenu -------------------------------
(***************************************************************************)
(* One call of tui_show_menu (src/tui/tui_menu.c): the blocking loop that  *)
(* lays the menu out in its frame, waits in wgetch, turns keys, mouse      *)
(* events and resizes into operations of the menu model, and returns a     *)
(* status.  The user, the terminal and signals act between any two steps   *)
(* of the loop.                                                            *)
(*                                                                         *)
(* What is drawn is abstracted to the layout of the frame and the scroll   *)
(* window; the background stack is in TuiSession.                          *)
(***************************************************************************)
EXTENDS TuiMenuModel

CONSTANTS
  Screens,     \* terminal sizes: records [rows, cols]
  NoFrame      \* a NULL frame pointer

MENU_MIN_ITEM_ROWS == 3

(***************************************************************************)
(* The part of tui_menu_config_t that only the controller reads.           *)
(***************************************************************************)
ASSUME ControllerAssumption ==
  /\ \A c \in Configs :
       /\ c.frame_height \in Nat /\ c.frame_width \in Nat
       /\ {c.enable_search, c.enable_mouse, c.enable_menu_key, c.show_numeric_keys}
            \subseteq BOOLEAN
  /\ Screens \subseteq [rows : Nat, cols : Nat]
  /\ NoFrame \notin [h : Nat, w : Nat]

VARIABLES
  pc,           \* "entry", "loop" (top of the loop), "wait" (before wgetch),
                \* "blocked" (inside wgetch), "done"
  screen,       \* size of stdscr
  frame,        \* height and width of the menu's frame, or NoFrame
  owns_frame,   \* the caller passed window == NULL
  desired,      \* size to ask for: desired_h and desired_w
  area,         \* item_area_h of the last layout
  interrupted,  \* tui_interrupted(): a handled signal has arrived
  woken,        \* a signal arrived while wgetch was blocked
  beeped,       \* the last event beeped
  result        \* status and selected_index returned

viewVars == <<screen, frame, owns_frame, desired>>
menuVars == <<modelVars, pc, viewVars, area, interrupted, woken, beeped, result>>

-----------------------------------------------------------------------------
(* Frames and layout *)

MinOf(a, b) == IF a < b THEN a ELSE b

\* tui_create_centered_window: NULL on a tiny screen or without memory, a
\* frame clipped to leave a margin otherwise.
CenteredWindow(scr, height, width) ==
  {NoFrame} \cup
  {f \in {[h |-> MinOf(height, scr.rows - 2), w |-> MinOf(width, scr.cols - 2)]} :
     scr.rows >= 3 /\ scr.cols >= 8 /\ f.h > 0 /\ f.w > 0}

\* tui_menu_recenter_frame on a given screen: NoFrame stands for "return false".
Recentered(scr) ==
  {NoFrame} \cup
  {f \in {[h |-> MinOf(desired.h, scr.rows), w |-> MinOf(desired.w, scr.cols)]} :
     f.h >= 8 /\ f.w >= 24}

\* tui_menu_layout_compute: rows of title, rule, list and footer.
Layout(f) ==
  LET tall == f.h >= 12
      top == IF tall THEN 6 ELSE 2
      footer == IF tall THEN f.h - 2 ELSE f.h - 1
  IN [title_y |-> IF tall THEN 1 ELSE 0,
      rule_y |-> IF tall THEN 4 ELSE 1,
      item_area_y |-> top,
      footer_y |-> footer,
      item_area_h |-> footer - 1 - top]

LayoutFits(f) == f.w >= 24 /\ Layout(f).item_area_h >= MENU_MIN_ITEM_ROWS

-----------------------------------------------------------------------------
(* Entering and leaving *)

MenuInit ==
  /\ Init
  /\ pc = "entry"
  /\ screen \in Screens
  /\ owns_frame \in BOOLEAN
  /\ IF owns_frame THEN frame = NoFrame
     ELSE frame \in CenteredWindow(screen, 20, 72) \ {NoFrame}
  /\ desired = [h |-> IF cfg.frame_height > 0 THEN cfg.frame_height
                      ELSE IF owns_frame THEN 22 ELSE frame.h,
                w |-> IF cfg.frame_width > 0 THEN cfg.frame_width
                      ELSE IF owns_frame THEN 72 ELSE frame.w]
  /\ area = 0
  /\ interrupted \in BOOLEAN
  /\ woken = FALSE /\ beeped = FALSE
  /\ result = [status |-> "none", selected_index |-> NoItem]

Finish(st, idx) ==
  /\ pc' = "done"
  /\ result' = [status |-> st, selected_index |-> idx]

Again == pc' = "loop" /\ UNCHANGED result

\* State creation, then the frame: created, or recentred when a size is asked for.
Enter(memory) ==
  /\ pc = "entry"
  /\ Create(memory)
  /\ IF status' # "live"
       THEN Finish(status', NoItem) /\ UNCHANGED frame
       ELSE IF owns_frame
       THEN /\ frame' \in CenteredWindow(screen, desired.h, desired.w)
            /\ IF frame' = NoFrame THEN Finish("too_small", NoItem) ELSE Again
       ELSE IF cfg.frame_height > 0 \/ cfg.frame_width > 0
       THEN \E f \in Recentered(screen) :
              IF f = NoFrame THEN Finish("too_small", NoItem) /\ UNCHANGED frame
              ELSE Again /\ frame' = f
       ELSE Again /\ UNCHANGED frame
  /\ UNCHANGED <<screen, owns_frame, desired, area, interrupted, woken, beeped>>

\* Mutant: the top of the loop does not look for an interrupt.
LoopTopUninterrupted ==
  /\ pc = "loop"
  /\ IF ~LayoutFits(frame)
       THEN Finish("too_small", NoItem) /\ UNCHANGED <<modelVars, area>>
       ELSE /\ area' = Layout(frame).item_area_h
            /\ EnsureSelectionVisible(area')
            /\ pc' = "wait"
            /\ UNCHANGED result
  /\ UNCHANGED <<viewVars, interrupted, woken, beeped>>

\* Top of the loop: interrupt first, then layout, then paint.
LoopTop ==
  /\ pc = "loop"
  /\ IF interrupted
       THEN Finish("interrupted", NoItem) /\ UNCHANGED <<modelVars, area>>
       ELSE IF ~LayoutFits(frame)
       THEN Finish("too_small", NoItem) /\ UNCHANGED <<modelVars, area>>
       ELSE /\ area' = Layout(frame).item_area_h
            /\ EnsureSelectionVisible(area')
            /\ pc' = "wait"
            /\ UNCHANGED result
  /\ UNCHANGED <<viewVars, interrupted, woken, beeped>>

\* wgetch starts reading; from here on a signal makes it return ERR.
Block ==
  /\ pc = "wait"
  /\ pc' = "blocked"
  /\ woken' = FALSE
  /\ UNCHANGED <<modelVars, viewVars, area, interrupted, beeped, result>>

-----------------------------------------------------------------------------
(* Events *)

\* wgetch returned ERR.
ReadError ==
  /\ pc = "blocked" /\ woken
  /\ IF interrupted THEN Finish("interrupted", NoItem) ELSE Again
  /\ woken' = FALSE
  /\ UNCHANGED <<modelVars, viewVars, area, interrupted, beeped>>

\* KEY_RESIZE: an owned frame is recreated, a caller's frame recentred.
KeyResize(scr) ==
  /\ pc = "blocked"
  /\ screen' = scr
  /\ IF owns_frame
       THEN /\ frame' \in CenteredWindow(scr, desired.h, desired.w)
            /\ IF frame' = NoFrame THEN Finish("too_small", NoItem) ELSE Again
       ELSE \E f \in Recentered(scr) :
              IF f = NoFrame THEN Finish("too_small", NoItem) /\ UNCHANGED frame
              ELSE Again /\ frame' = f
  /\ UNCHANGED <<modelVars, owns_frame, desired, area, interrupted, woken, beeped>>

\* Any other key or mouse event: one operation of the model, then the event.
Handle(op, event) ==
  /\ pc = "blocked"
  /\ op
  /\ event
  /\ UNCHANGED <<viewVars, area, interrupted, woken>>

None == Again /\ beeped' = FALSE
Beep == Again /\ beeped' = TRUE

\* Mutant: any row may be confirmed.
ConfirmAnything(idx) == IF idx # NoItem THEN Finish("ok", idx) /\ beeped' = FALSE ELSE Beep

\* TUI_MENU_EV_CONFIRM for an item index; only a selectable item ends the menu.
Confirm(idx) ==
  IF idx \in Selectable THEN Finish("ok", idx) /\ beeped' = FALSE ELSE Beep

Leave(st) == Finish(st, NoItem) /\ beeped' = FALSE

Still == UNCHANGED modelVars

NavigationKeys ==
  {"up", "down", "home", "end", "ppage", "npage", "enter", "esc", "backspace"}

Digits == {"1", "2", "3", "4", "5", "6", "7", "8", "9"}
DigitValue(d) == CHOOSE n \in 1 .. 9 : d = <<"1", "2", "3", "4", "5", "6", "7", "8", "9">>[n]

\* menu_handle_key_in_search
KeyInSearch(key) ==
  CASE key = "esc" -> Handle(SearchClose, None)
    [] key = "enter" -> Handle(Still, Confirm(SelectedIndex))
    [] key = "backspace" -> Handle(SearchBackspace, None)
    [] key \in Chars -> Handle(SearchAppend(key), None)
    [] OTHER -> Handle(Still, None)

\* The digit branch: beep unless the numbered row can be selected.
NumericKey(key) ==
  LET row == RowForNumber(DigitValue(key))
  IN IF \E i \in shown \cap Selectable : RowOf(i) = row
     THEN Handle(SelectVisible(row), None)
     ELSE Handle(Still, Beep)

\* The switch of menu_handle_key.
PlainKey(key) ==
  CASE key \in {"up", "k"} -> Handle(Step(-1), None)
    [] key \in {"down", "j"} -> Handle(Step(1), None)
    [] key = "home" -> Handle(Home, None)
    [] key = "end" -> Handle(End, None)
    [] key = "ppage" -> Handle(Page(-1, area), None)
    [] key = "npage" -> Handle(Page(1, area), None)
    [] key = "enter" -> Handle(Still, Confirm(SelectedIndex))
    [] key = "esc" -> Handle(Still, Leave(IF cfg.enable_menu_key THEN "menu" ELSE "cancelled"))
    [] key = "q" -> Handle(Still, Leave("cancelled"))
    [] key = "/" /\ cfg.enable_search -> Handle(SearchOpen, None)
    [] key \in Digits /\ cfg.show_numeric_keys -> NumericKey(key)
    [] OTHER -> Handle(Still, None)

\* menu_handle_key: search mode, then mnemonics, then the switch.
Key(key) ==
  IF search_active THEN KeyInSearch(key)
  ELSE IF key \in Keys /\ MnemonicReturn(key) # NoItem
  THEN Handle(Still, Confirm(MnemonicReturn(key)))
  ELSE IF key \in Keys /\ MnemonicBeeps(key)
  THEN Handle(MnemonicJump(key), Beep)
  ELSE PlainKey(key)

\* menu_handle_mouse, whatever the mode: the wheel steps, a click on a
\* selectable row of the list area selects it, a double click confirms it.
Wheel(dir) == cfg.enable_mouse /\ Handle(Step(dir), None)

Click(row, double) ==
  /\ cfg.enable_mouse
  /\ \E i \in shown :
       /\ RowOf(i) = top_visible + row
       /\ IF i \notin Selectable THEN Handle(Still, Beep)
          ELSE Handle(SelectVisible(RowOf(i)), IF double THEN Confirm(i) ELSE None)

-----------------------------------------------------------------------------
(* Environment *)

\* SIGINT or SIGTERM: sets the flag; wakes wgetch only if it is blocked.
Signal ==
  /\ pc # "done"
  /\ ~interrupted \/ (pc = "blocked" /\ ~woken)
  /\ interrupted' = TRUE
  /\ woken' = (pc = "blocked")
  /\ UNCHANGED <<modelVars, pc, viewVars, area, beeped, result>>

Program == (\E memory \in BOOLEAN : Enter(memory)) \/ LoopTop \/ Block \/ ReadError

User ==
  \/ \E key \in NavigationKeys \cup Chars : Key(key)
  \/ \E dir \in {1, -1} : Wheel(dir)
  \/ \E row \in 0 .. area - 1, double \in BOOLEAN : Click(row, double)

MenuNext == Program \/ User \/ Signal \/ \E scr \in Screens : KeyResize(scr)

MenuSpec == MenuInit /\ [][MenuNext]_menuVars

(***************************************************************************)
(* The program keeps running: its own steps are never postponed for ever.  *)
(* The user need not press a key.                                          *)
(***************************************************************************)
ProgramFairSpec == MenuSpec /\ WF_menuVars(Program)

\* In addition wgetch always returns, e.g. because keys keep coming.
KeysKeepComing == ProgramFairSpec /\ WF_menuVars(User)

-----------------------------------------------------------------------------
(* Properties *)

\* The variables keep their types.
MenuTypeOK ==
  /\ TypeOK
  /\ pc \in {"entry", "loop", "wait", "blocked", "done"}
  /\ screen \in Screens
  /\ frame \in [h : Nat, w : Nat] \cup {NoFrame}
  /\ desired \in [h : Nat, w : Nat]
  /\ area \in Nat
  /\ {owns_frame, interrupted, woken, beeped} \subseteq BOOLEAN
  /\ result.status \in {"none", "ok", "cancelled", "menu", "interrupted",
                        "too_small", "invalid_arg", "no_memory"}
  /\ result.selected_index \in Items \cup {NoItem}

Waiting == pc \in {"wait", "blocked"}

(***************************************************************************)
(* The menu only ever returns an item the user can see and may choose, on  *)
(* each of the four ways to confirm one: Enter on the selected row, Enter  *)
(* in a search, a mnemonic (looked up among all items, shown or not) and a *)
(* double click.                                                           *)
(***************************************************************************)
ConfirmedItemShown ==
  result.status = "ok" => result.selected_index \in shown \cap Selectable

(***************************************************************************)
(* Whenever the menu waits for a key the selected row is painted, whatever *)
(* was filtered, paged or resized before: it is one of the rows of the     *)
(* list, on a line between the rule and the footer of a frame that lies on *)
(* the terminal; and clicks are measured against that list.                *)
(***************************************************************************)
SelectedRowOnScreen ==
  Waiting =>
    LET L == Layout(frame)
        row == selected_visible - top_visible
    IN  /\ frame # NoFrame /\ area = L.item_area_h
        /\ pc = "wait" => frame.h <= screen.rows /\ frame.w <= screen.cols
        /\ shown # {} =>
             /\ 0 <= row /\ row < area
             /\ L.rule_y < L.item_area_y + row /\ L.item_area_y + row + 1 < L.footer_y
        /\ L.title_y < L.rule_y /\ L.footer_y < frame.h

(***************************************************************************)
(* After SIGINT or SIGTERM the menu returns.  Holds as long as wgetch      *)
(* keeps returning; see the finding for the case that no key is pressed.   *)
(***************************************************************************)
InterruptEndsMenu == interrupted ~> pc = "done"

(***************************************************************************)
(* tui_menu.h says of separators "navigation skips silently": no sequence  *)
(* of keys, wheel turns and clicks leaves the selection on a separator.    *)
(***************************************************************************)
SeparatorNeverSelected == SelectedItems \cap Separators = {}
=============================================================================
