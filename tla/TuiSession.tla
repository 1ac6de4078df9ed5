------------------------------- MODULE TuiSession -------------------------------
(***************************************************************************)
(* One run of tui_run_app (src/tui/tui_app.c) on top of src/tui/tui.c: the *)
(* terminal is put into curses mode, signal handlers are installed, nested *)
(* menu screens and modal dialogs open and close over each other, and the  *)
(* terminal is given back.  Resizes, failed allocations and signals may    *)
(* come between any two steps.                                             *)
(*                                                                         *)
(* A menu is abstracted to the statuses TuiMenu lets it return; a window   *)
(* to its identity.                                                        *)
(***************************************************************************)
EXTENDS BackgroundStack, FiniteSets

CONSTANTS
  Screens,      \* terminal sizes: records [rows, cols]
  MaxSignals    \* bound on the signals that arrive

ASSUME SessionAssumption ==
  /\ \A scr \in Screens : scr.rows \in Nat /\ scr.cols \in Nat
  /\ MaxSignals \in Nat

VARIABLES
  at,           \* where the program is
  screens,      \* the open menu screens, outermost first: [name, frame, pushed]
  dialog,       \* the open modal: [purpose, win]
  status,       \* status the innermost menu returned
  screen,       \* size of stdscr
  windows,      \* windows that exist
  curses,       \* between initscr and endwin
  initialized,  \* tui_initialized
  handlers,     \* the signals for which the program's handler is installed
  interrupted,  \* tui_interrupted_signal, "none" for 0
  recorded,     \* the signals the handler has run for
  signals,      \* how many signals have arrived (bounded)
  err           \* what tui_run_app returns

terminalVars == <<curses, initialized, handlers>>
signalVars == <<interrupted, recorded, signals>>
sessionVars == <<stackVars, at, screens, dialog, status, screen, windows,
                 terminalVars, signalVars, err>>

MenuScreens == [name : {"main", "config", "commands", "overlay"},
                frame : Windows \cup {NoWindow}, pushed : BOOLEAN]
Dialogs == [purpose : {"none", "message", "input", "confirm", "progress"},
            win : Windows \cup {NoWindow}]

NoDialog == [purpose |-> "none", win |-> NoWindow]
Top == Last(screens)
NewWindows == {w \in Windows \ windows : \A v \in Windows \ windows : w <= v}

-----------------------------------------------------------------------------
(* What fits on the terminal *)

\* tui_create_centered_window
CenteredFits == screen.rows >= 3 /\ screen.cols >= 8
\* tui_menu_recenter_frame for the 20 x 72 frame of the application
RecenterFits(scr) == scr.rows >= 8 /\ scr.cols >= 24
\* tui_menu_layout_compute for a frame of its own, which has a margin
OwnLayoutFits == screen.rows >= 9 /\ screen.cols >= 26
\* tui_modal_open, tui_progress_create
ModalFits == screen.rows >= 4 /\ screen.cols >= 8
ProgressFits == screen.rows >= 7 /\ screen.cols >= 10

\* An allocation that may fail: NoWindow, or a window when there is room.
Allocate(fits) == {NoWindow} \cup (IF fits THEN NewWindows ELSE {})

-----------------------------------------------------------------------------
(* tui_init *)

Init ==
  /\ StackInit
  /\ at = "start"
  /\ screens = <<>> /\ dialog = NoDialog /\ status = "none"
  /\ screen \in Screens
  /\ windows = {}
  /\ curses = FALSE /\ initialized = FALSE /\ handlers = {}
  /\ interrupted = "none" /\ recorded = {} /\ signals = 0
  /\ err = "SUCCESS"

Go(place) == at' = place
End(e) == at' = "ended" /\ err' = e

\* Not a terminal, or initscr fails, or curses owns the screen.
OpenCurses ==
  /\ at = "start"
  /\ \/ End("IO") /\ UNCHANGED curses
     \/ End("INTERNAL") /\ UNCHANGED curses
     \/ Go("curses") /\ curses' = TRUE /\ UNCHANGED err
  /\ UNCHANGED <<stackVars, screens, dialog, status, screen, windows,
                 initialized, handlers, signalVars>>

\* tui_install_signal_handlers: SIGINT first.  If the second call fails, the first
\* handler is restored, but what it may have recorded stays.
InstallInt ==
  /\ at = "curses"
  /\ \/ Go("undo") /\ UNCHANGED handlers
     \/ Go("install_term") /\ handlers' = {"INT"}
  /\ UNCHANGED <<stackVars, screens, dialog, status, screen, windows,
                 curses, initialized, signalVars, err>>

InstallTerm ==
  /\ at = "install_term"
  /\ \/ Go("undo") /\ handlers' = {}
     \/ Go("setup") /\ handlers' = {"INT", "TERM"}
  /\ UNCHANGED <<stackVars, screens, dialog, status, screen, windows,
                 curses, initialized, signalVars, err>>

\* cbreak, noecho, keypad; a failure goes to the label `fail'.
SetupTerminal ==
  /\ at = "setup"
  /\ \/ Go("fail") /\ UNCHANGED initialized
     \/ Go("open") /\ initialized' = TRUE
  /\ UNCHANGED <<stackVars, screens, dialog, status, screen, windows,
                 curses, handlers, signalVars, err>>

\* tui_uninstall_signal_handlers, called at the label and by tui_cleanup: a signal
\* between the two calls is remembered or kills.
UninstallInt ==
  /\ at \in {"fail", "uninstall"}
  /\ Go(IF at = "fail" THEN "fail_term" ELSE "uninstall_term")
  /\ handlers' = handlers \ {"INT"}
  /\ UNCHANGED <<stackVars, screens, dialog, status, screen, windows,
                 curses, initialized, signalVars, err>>

UninstallTerm ==
  /\ at \in {"fail_term", "uninstall_term"}
  /\ Go(IF at = "fail_term" THEN "fail_reset" ELSE "reset")
  /\ handlers' = handlers \ {"TERM"}
  /\ UNCHANGED <<stackVars, screens, dialog, status, screen, windows,
                 curses, initialized, signalVars, err>>

\* The two ways tui_init returns an error once curses is on: only the label `fail'
\* forgets a signal.
AbandonInit ==
  /\ at \in {"undo", "fail_reset"}
  /\ End(IF at = "undo" THEN "SIGNAL" ELSE "INTERNAL")
  /\ curses' = FALSE
  /\ interrupted' = IF at = "undo" THEN interrupted ELSE "none"
  /\ UNCHANGED <<stackVars, screens, dialog, status, screen, windows,
                 initialized, handlers, recorded, signals>>

-----------------------------------------------------------------------------
(* Opening and closing menu screens *)

\* A handler that opens a screen with a frame of its own and pushes it, or
\* does `otherwise' when the frame cannot be created.
OpenScreen(name, otherwise) ==
  \E w \in Allocate(CenteredFits) :
    IF w = NoWindow THEN otherwise /\ UNCHANGED <<stackVars, screens, windows>>
    ELSE /\ windows' = windows \cup {w}
         /\ Push(w)
         /\ screens' = Append(screens, [name |-> name, frame |-> w, pushed |-> FALSE])
         /\ Go("enter") /\ UNCHANGED <<dialog, err>>

OpenMain ==
  /\ at = "open"
  /\ OpenScreen("main", Go("cleanup") /\ err' = "OUT_OF_RANGE" /\ UNCHANGED dialog)
  /\ UNCHANGED <<status, screen, terminalVars, signalVars>>

\* The caller pops and destroys the frame of its screen.
CloseScreen(next) ==
  /\ Pop
  /\ windows' = windows \ {Top.frame}
  /\ screens' = Front(screens)
  /\ Go(next)

-----------------------------------------------------------------------------
(* tui_show_menu *)

Returns(st) == at' = "returned" /\ status' = st

\* Entry: the state is allocated, then the frame is recentred (a caller's; memory
\* says whether wresize succeeds) or created (the overlay's), and pushed unless
\* it is the background already.
EnterMenu(memory) ==
  /\ at = "enter"
  /\ \/ Returns("NO_MEMORY") /\ UNCHANGED <<stackVars, screens, windows>>
     \/ /\ Top.frame # NoWindow
        /\ IF RecenterFits(screen) /\ memory
             THEN /\ Go("menu") /\ UNCHANGED status
                  /\ screens' = [screens EXCEPT ![Len(screens)].pushed =
                                   background_win # Top.frame]
                  /\ IF background_win # Top.frame THEN Push(Top.frame)
                                                   ELSE UNCHANGED stackVars
             ELSE Returns("TOO_SMALL") /\ UNCHANGED <<stackVars, screens>>
        /\ UNCHANGED windows
     \/ /\ Top.frame = NoWindow
        /\ \E w \in Allocate(CenteredFits) :
             IF w = NoWindow
             THEN Returns("TOO_SMALL") /\ UNCHANGED <<stackVars, screens, windows>>
             ELSE /\ Go("menu") /\ UNCHANGED status
                  /\ windows' = windows \cup {w}
                  /\ screens' = [screens EXCEPT ![Len(screens)] =
                                   [name |-> @.name, frame |-> w, pushed |-> TRUE]]
                  /\ Push(w)
  /\ UNCHANGED <<dialog, screen, terminalVars, signalVars, err>>

Owned == Top.name = "overlay"

LeaveMenu(st) ==
  /\ Returns(st)
  /\ IF Top.pushed THEN Pop ELSE UNCHANGED stackVars
  /\ IF Owned
       THEN /\ windows' = windows \ {Top.frame}
            /\ screens' = [screens EXCEPT ![Len(screens)] =
                             [name |-> @.name, frame |-> NoWindow, pushed |-> FALSE]]
       ELSE /\ screens' = [screens EXCEPT ![Len(screens)].pushed = FALSE]
            /\ UNCHANGED windows

\* Mutant: the loop does not look for a signal.
MenuLoopDeaf ==
  /\ at = "menu"
  /\ IF Owned /\ ~OwnLayoutFits THEN LeaveMenu("TOO_SMALL")
     ELSE Go("getch") /\ UNCHANGED <<stackVars, screens, status, windows>>
  /\ UNCHANGED <<dialog, screen, terminalVars, signalVars, err>>

\* Top of the loop.
MenuLoop ==
  /\ at = "menu"
  /\ IF interrupted # "none" THEN LeaveMenu("INTERRUPTED")
     ELSE IF Owned /\ ~OwnLayoutFits THEN LeaveMenu("TOO_SMALL")
     ELSE Go("getch") /\ UNCHANGED <<stackVars, screens, status, windows>>
  /\ UNCHANGED <<dialog, screen, terminalVars, signalVars, err>>

\* wgetch returned: a key that ends the menu, one that does not, or ERR.
MenuKey ==
  /\ at = "getch"
  /\ \/ LeaveMenu("OK")
     \/ LeaveMenu("CANCELLED")
     \/ Top.name = "main" /\ LeaveMenu("MENU")
     \/ interrupted # "none" /\ LeaveMenu("INTERRUPTED")
     \/ Go("menu") /\ UNCHANGED <<stackVars, screens, status, windows>>
  /\ UNCHANGED <<dialog, screen, terminalVars, signalVars, err>>

\* Mutant: a frame that could not be created is used all the same.
RecreateUnchecked(scr) ==
  \E w \in Allocate(scr.rows >= 3 /\ scr.cols >= 8) :
    /\ Replace(Top.frame, w)
    /\ windows' = (windows \cup {w}) \ {Top.frame}
    /\ screens' = [screens EXCEPT ![Len(screens)].frame = w]
    /\ Go("menu")
    /\ UNCHANGED status

\* Mutant: the destroyed frame stays the background.
RecreateWithoutReplace(scr) ==
  \E w \in Allocate(scr.rows >= 3 /\ scr.cols >= 8) :
    /\ windows' = (windows \cup {w}) \ {Top.frame, NoWindow}
    /\ screens' = [screens EXCEPT ![Len(screens)].frame = w]
    /\ Go(IF w = NoWindow THEN "abandon" ELSE "menu")
    /\ UNCHANGED <<stackVars, status>>

\* KEY_RESIZE: the overlay's frame is recreated and replaced as background
\* while the old one still exists; a caller's frame is recentred.
RecreateFrame(scr) ==
  \E w \in Allocate(scr.rows >= 3 /\ scr.cols >= 8) :
    /\ Replace(Top.frame, w)
    /\ windows' = (windows \cup {w}) \ {Top.frame, NoWindow}
    /\ screens' = [screens EXCEPT ![Len(screens)].frame = w]
    /\ Go(IF w = NoWindow THEN "abandon" ELSE "menu")
    /\ UNCHANGED status

MenuResize(scr, memory) ==
  /\ at = "getch"
  /\ screen' = scr
  /\ IF Owned THEN RecreateFrame(scr)
     ELSE IF RecenterFits(scr) /\ memory
     THEN Go("menu") /\ UNCHANGED <<stackVars, screens, status, windows>>
     ELSE LeaveMenu("TOO_SMALL")
  /\ UNCHANGED <<dialog, terminalVars, signalVars, err>>

\* The overlay lost its frame to a resize and returns.
AbandonMenu ==
  /\ at = "abandon"
  /\ LeaveMenu("TOO_SMALL")
  /\ UNCHANGED <<dialog, screen, terminalVars, signalVars, err>>

-----------------------------------------------------------------------------
(* Dialogs: tui_modal_run with the callers that wait for its outcome *)

OpenDialog(purpose) ==
  Go("open_dialog") /\ dialog' = [purpose |-> purpose, win |-> NoWindow]

\* Mutant: a confirmation that could not be asked counts as "yes".
AfterDialogYes(yes) ==
  IF dialog.purpose = "input" /\ yes THEN OpenDialog("message")
  ELSE /\ Go(IF dialog.purpose = "confirm" THEN "leave" ELSE "enter")
       /\ dialog' = NoDialog

\* What follows a dialog; `yes' is tui_confirm's answer, or that the input
\* dialog ended with Enter.
AfterDialog(yes) ==
  IF dialog.purpose = "input" /\ yes THEN OpenDialog("message")
  ELSE /\ Go(IF dialog.purpose = "confirm" /\ yes THEN "leave" ELSE "enter")
       /\ dialog' = NoDialog

DialogOpen ==
  /\ at = "open_dialog"
  /\ \E w \in Allocate(ModalFits) :
       IF w = NoWindow THEN AfterDialog(FALSE) /\ UNCHANGED windows
       ELSE /\ windows' = windows \cup {w}
            /\ dialog' = [dialog EXCEPT !.win = w]
            /\ Go("dialog")
  /\ UNCHANGED <<stackVars, screens, status, screen, terminalVars, signalVars, err>>

CloseDialog(yes) == windows' = windows \ {dialog.win} /\ AfterDialog(yes)

DialogLoop ==
  /\ at = "dialog"
  /\ IF interrupted # "none" THEN CloseDialog(FALSE)
     ELSE Go("dialog_getch") /\ UNCHANGED <<windows, dialog>>
  /\ UNCHANGED <<stackVars, screens, status, screen, terminalVars, signalVars, err>>

\* wgetch returned ERR, a key that is ignored or edits, or one that decides.
DialogKey ==
  /\ at = "dialog_getch"
  /\ \/ Go("dialog") /\ UNCHANGED <<windows, dialog>>
     \/ \E yes \in BOOLEAN : CloseDialog(yes)
  /\ UNCHANGED <<stackVars, screens, status, screen, terminalVars, signalVars, err>>

\* KEY_RESIZE: destroy the window and open a new one.
DialogResize(scr) ==
  /\ at = "dialog_getch"
  /\ screen' = scr
  /\ windows' = windows \ {dialog.win}
  /\ OpenDialog(dialog.purpose)
  /\ UNCHANGED <<stackVars, screens, status, terminalVars, signalVars, err>>

\* The progress example neither reads keys nor looks for a signal.
ProgressStart ==
  \E w \in Allocate(ProgressFits /\ CenteredFits) :
    IF w = NoWindow THEN OpenDialog("message") /\ UNCHANGED windows
    ELSE /\ windows' = windows \cup {w}
         /\ dialog' = [purpose |-> "progress", win |-> w]
         /\ Go("progress")

ProgressEnd ==
  /\ at = "progress"
  /\ windows' = windows \ {dialog.win}
  /\ OpenDialog("message")
  /\ UNCHANGED <<stackVars, screens, status, screen, terminalVars, signalVars, err>>

-----------------------------------------------------------------------------
(* What the callers of tui_show_menu do with its status *)

Returned(name) == at = "returned" /\ Top.name = name

Quit(e) == Go("leave") /\ err' = e

\* app_dispatch and the switch of tui_run_app.
MainReturned ==
  /\ Returned("main")
  /\ CASE status = "OK" ->
            \/ /\ \E p \in {"confirm", "message", "input"} : OpenDialog(p)
               /\ UNCHANGED <<stackVars, screens, windows, interrupted, err>>
            \/ ProgressStart /\ UNCHANGED <<stackVars, screens, interrupted, err>>
            \/ /\ \E name \in {"config", "commands"} :
                    OpenScreen(name, OpenDialog("message") /\ UNCHANGED err)
               /\ UNCHANGED interrupted
       [] status = "CANCELLED" ->
            OpenDialog("confirm")
            /\ UNCHANGED <<stackVars, screens, windows, interrupted, err>>
       [] status = "MENU" ->
            /\ screens' = Append(screens, [name |-> "overlay", frame |-> NoWindow,
                                           pushed |-> FALSE])
            /\ Go("enter")
            /\ UNCHANGED <<stackVars, windows, dialog, interrupted, err>>
       [] status = "INTERRUPTED" ->
            /\ Quit(IF interrupted = "TERM" THEN "TERMINATED" ELSE "INTERRUPTED")
            /\ interrupted' = "none"
            /\ UNCHANGED <<stackVars, screens, windows, dialog>>
       [] status \in {"TOO_SMALL", "NO_MEMORY"} ->
            /\ Quit(IF status = "TOO_SMALL" THEN "OUT_OF_RANGE" ELSE "MEMORY")
            /\ UNCHANGED <<stackVars, screens, windows, dialog, interrupted>>
  /\ UNCHANGED <<status, screen, terminalVars, recorded, signals>>

\* app_show_config_menu and app_show_commands: "Back" or any failure closes.
SubmenuReturned ==
  /\ Returned("config") \/ Returned("commands")
  /\ \/ CloseScreen("enter") /\ UNCHANGED dialog
     \/ /\ status = "OK" /\ OpenDialog("message")
        /\ UNCHANGED <<stackVars, screens, windows>>
  /\ UNCHANGED <<status, screen, terminalVars, signalVars, err>>

\* app_show_menu_overlay: "Exit" asks for confirmation, a failure resumes.
OverlayReturned ==
  /\ Returned("overlay")
  /\ \/ /\ status # "OK" /\ Go("enter") /\ screens' = Front(screens)
        /\ UNCHANGED dialog
     \/ /\ status = "OK" /\ OpenDialog("confirm") /\ screens' = Front(screens)
     \/ /\ status = "OK" /\ OpenDialog("message") /\ UNCHANGED screens
  /\ UNCHANGED <<stackVars, windows, status, screen, terminalVars, signalVars, err>>

-----------------------------------------------------------------------------
(* Leaving *)

\* Mutant: the main screen is left open.
LeaveAppUnclosed ==
  /\ at = "leave"
  /\ Go("cleanup")
  /\ UNCHANGED <<stackVars, windows, screens, dialog, status, screen, terminalVars,
                 signalVars, err>>

LeaveApp ==
  /\ at = "leave"
  /\ CloseScreen("cleanup")
  /\ UNCHANGED <<dialog, status, screen, terminalVars, signalVars, err>>

\* tui_cleanup: up to endwin, the handlers (UninstallInt), and the rest of it.
EndCurses ==
  /\ at = "cleanup" /\ initialized
  /\ curses' = FALSE
  /\ Go("uninstall")
  /\ UNCHANGED <<stackVars, screens, dialog, status, screen, windows,
                 initialized, handlers, signalVars, err>>

\* Mutant: a signal that came late stays recorded.
ResetKeepsSignal ==
  /\ at = "reset"
  /\ initialized' = FALSE
  /\ Clear
  /\ Go("ended")
  /\ UNCHANGED <<screens, dialog, status, screen, windows, curses, handlers,
                 signalVars, err>>

Reset ==
  /\ at = "reset"
  /\ initialized' = FALSE /\ interrupted' = "none"
  /\ Clear
  /\ Go("ended")
  /\ UNCHANGED <<screens, dialog, status, screen, windows, curses, handlers,
                 recorded, signals, err>>

\* The program's handler remembers the signal.  Without it the process dies, in
\* curses mode by the handler of ncurses, which ends that mode.
Signal(s) ==
  /\ at \notin {"ended", "killed"}
  /\ signals < MaxSignals
  /\ signals' = signals + 1
  /\ IF s \in handlers
       THEN /\ interrupted' = s /\ recorded' = recorded \cup {s}
            /\ UNCHANGED <<at, curses, handlers>>
       ELSE /\ Go("killed") /\ curses' = FALSE /\ handlers' = {}
            /\ UNCHANGED <<interrupted, recorded>>
  /\ UNCHANGED <<stackVars, screens, dialog, status, screen, windows,
                 initialized, err>>

Program ==
  \/ OpenCurses \/ InstallInt \/ InstallTerm \/ SetupTerminal \/ AbandonInit
  \/ UninstallInt \/ UninstallTerm \/ OpenMain
  \/ (\E memory \in BOOLEAN : EnterMenu(memory)) \/ MenuLoop \/ AbandonMenu
  \/ DialogOpen \/ DialogLoop \/ ProgressEnd
  \/ MainReturned \/ SubmenuReturned \/ OverlayReturned
  \/ LeaveApp \/ EndCurses \/ Reset

\* wgetch returns: with a key, or with ERR after a signal.
User == MenuKey \/ DialogKey

Next ==
  \/ Program \/ User
  \/ \E scr \in Screens, memory \in BOOLEAN : MenuResize(scr, memory)
  \/ \E scr \in Screens : DialogResize(scr)
  \/ \E s \in {"INT", "TERM"} : Signal(s)

Spec == Init /\ [][Next]_sessionVars

(***************************************************************************)
(* The program is scheduled, and wgetch returns sooner or later.           *)
(***************************************************************************)
FairSpec == Spec /\ WF_sessionVars(Program) /\ WF_sessionVars(User)

-----------------------------------------------------------------------------
(* Properties *)

\* The variables keep their types.
SessionTypeOK ==
  /\ background_win \in Windows \cup {NoWindow}
  /\ background_stack \in Seq(Windows \cup {NoWindow})
  /\ Len(background_stack) <= Cap
  /\ screens \in Seq(MenuScreens)
  /\ dialog \in Dialogs
  /\ screen \in Screens
  /\ windows \subseteq Windows
  /\ {curses, initialized} \subseteq BOOLEAN
  /\ handlers \subseteq {"INT", "TERM"}
  /\ interrupted \in {"none", "INT", "TERM"}
  /\ recorded \subseteq {"INT", "TERM"}

(***************************************************************************)
(* No destroyed window is ever repainted: whatever a dialog may restore,   *)
(* now or after any number of pops, is a window that exists, across        *)
(* resizes that recreate the overlay's frame and screens that close.       *)
(***************************************************************************)
BackgroundsLive == Backgrounds \subseteq windows

\* How many menus have entered the background: an overlay does so with its frame.
Depth ==
  IF screens # <<>> /\ Top.frame = NoWindow /\ ~Top.pushed THEN Len(screens) - 1
                                                           ELSE Len(screens)

\* The background after k pops.
Behind(k) ==
  IF k = 0 THEN background_win
  ELSE IF k <= Len(background_stack) THEN background_stack[Len(background_stack) + 1 - k]
  ELSE NoWindow

(***************************************************************************)
(* A dialog that closes uncovers the innermost open menu, closing that one *)
(* uncovers the menu it was opened from, and behind the first menu there   *)
(* is nothing: any number of pops agrees with the stack of open menus,     *)
(* also when the array has no room for the NULL below the first one.       *)
(***************************************************************************)
BackgroundIsInnermostMenu ==
  \A k \in 0 .. Depth + Len(background_stack) :
    Behind(k) = IF k < Depth THEN screens[Depth - k].frame ELSE NoWindow

(***************************************************************************)
(* However the application ends, by confirmation, failure or signal, the   *)
(* terminal and the signal handlers are given back, no window is leaked    *)
(* and a second tui_init would start from scratch.  The one thing it may   *)
(* find is a SIGINT that came between the two sigaction calls of a         *)
(* tui_init that failed at the second: the error return at tui.c:211       *)
(* leaves tui_interrupted_signal as it is.                                 *)
(***************************************************************************)
EndsClean ==
  at = "ended" =>
    /\ ~curses /\ ~initialized /\ handlers = {}
    /\ windows = {} /\ background_win = NoWindow /\ background_stack = <<>>
    /\ interrupted # "none" => interrupted = "INT" /\ err = "SIGNAL"

(***************************************************************************)
(* The status is earned.  Leaving with success needs a "y" in the exit     *)
(* dialog, from every path that leads there (q, Esc, the Exit items); a    *)
(* dialog that is interrupted or does not fit counts as "no".  A status    *)
(* that names a signal needs that signal, although the flag is read anew   *)
(* to name it and another one may have arrived since the menu looked.      *)
(***************************************************************************)
ExitStatusEarned ==
  [][ (at # "leave" /\ at' = "leave") =>
        /\ err' = "SUCCESS" => at = "dialog_getch" /\ dialog.purpose = "confirm"
        /\ err' = "INTERRUPTED" => "INT" \in recorded
        /\ err' = "TERMINATED" => "TERM" \in recorded ]_sessionVars

(***************************************************************************)
(* A signal unwinds every nested screen and dialog and ends the program;   *)
(* another one that comes while the handlers are given back kills it.      *)
(***************************************************************************)
SignalEndsSession == (interrupted # "none") ~> (at \in {"ended", "killed"})

\* The open screens that have a frame: only the innermost may be without one.
OpenCount ==
  IF screens # <<>> /\ Top.frame = NoWindow THEN Len(screens) - 1 ELSE Len(screens)
OpenFrames == [i \in 1 .. OpenCount |-> screens[i].frame]

Phase == IF at \in {"ended", "killed"} THEN at ELSE IF initialized THEN "on" ELSE "off"

(***************************************************************************)
(* What the application promises its terminal: see ScreenSession.          *)
(***************************************************************************)
Abstract == INSTANCE ScreenSession WITH
  Frames <- Windows,
  phase <- Phase,
  open <- OpenFrames

RefinesScreenSession == Abstract!Spec

-----------------------------------------------------------------------------
(* The inductive invariant behind the safety properties *)

InitPlaces == {"start", "curses", "install_term", "undo", "setup",
               "fail", "fail_term", "fail_reset"}
BootPlaces == InitPlaces \cup {"open"}
MenuPlaces == {"enter", "menu", "getch", "abandon", "returned", "leave"}
DialogPlaces == {"open_dialog", "dialog", "dialog_getch", "progress"}
UninstallPlaces == {"uninstall", "uninstall_term", "reset"}
Over == {"ended", "killed"}
EndPlaces == {"cleanup"} \cup UninstallPlaces \cup Over

\* The terminal and the handlers are held exactly between these places; a signal
\* that is remembered has arrived; the errors are still to come.
TerminalInvariant ==
  /\ at \in BootPlaces \cup MenuPlaces \cup DialogPlaces \cup EndPlaces
  /\ curses = (at \notin {"start"} \cup UninstallPlaces \cup Over)
  /\ initialized \in BOOLEAN
  /\ at # "killed" => initialized = (at \notin InitPlaces \cup Over)
  /\ handlers \subseteq {"INT", "TERM"}
  /\ ("INT" \in handlers) <=>
       (at \notin {"start", "curses", "undo", "fail_term", "fail_reset",
                  "uninstall_term", "reset"} \cup Over)
  /\ ("TERM" \in handlers) <=>
       (at \notin {"start", "curses", "install_term", "undo", "fail_reset",
                  "reset"} \cup Over)
  /\ interrupted \in recorded \cup {"none"}
  /\ recorded \subseteq {"INT", "TERM"}
  /\ at \in {"start", "curses"} => interrupted = "none"
  /\ at \in {"install_term", "undo"} => interrupted \in {"none", "INT"}
  /\ (at = "ended" /\ interrupted # "none") => interrupted = "INT" /\ err = "SIGNAL"
  /\ at = "returned" =>
       status \in {"OK", "CANCELLED", "MENU", "INTERRUPTED", "TOO_SMALL", "NO_MEMORY"}
  /\ (at = "returned" /\ status = "INTERRUPTED") => interrupted # "none"
  /\ at \notin {"leave"} \cup EndPlaces => err = "SUCCESS"

\* The main menu and at most one screen over it; the overlay has a frame, and is
\* the background, only while its menu runs.
ScreensInvariant ==
  /\ screens \in Seq(MenuScreens)
  /\ Len(screens) <= 2
  /\ (screens = <<>>) <=> (at \in BootPlaces \cup EndPlaces)
  /\ \A i \in DOMAIN screens :
       /\ (screens[i].name = "main") <=> (i = 1)
       /\ screens[i].name # "overlay" => screens[i].frame # NoWindow /\ ~screens[i].pushed
       /\ screens[i].name = "overlay" =>
            /\ screens[i].pushed <=> (at \in {"menu", "getch", "abandon"})
            /\ (screens[i].frame # NoWindow) <=> (at \in {"menu", "getch"})
  /\ Len(screens) = 2 => screens[1].frame # screens[2].frame
  /\ at = "abandon" => Top.name = "overlay"
  /\ at = "leave" \/ dialog.purpose = "confirm" => Len(screens) = 1

\* A dialog has a window of its own while it is open.
DialogInvariant ==
  /\ dialog \in Dialogs
  /\ at \notin DialogPlaces => dialog = NoDialog
  /\ (dialog.win # NoWindow) <=> (at \in DialogPlaces \ {"open_dialog"})
  /\ \A i \in DOMAIN screens : dialog.win # NoWindow => dialog.win # screens[i].frame

Frames == {screens[i].frame : i \in DOMAIN screens}

\* The windows are those of the open screens and dialog: none is lost or leaked.
WindowsInvariant == windows = (Frames \cup {dialog.win}) \ {NoWindow}

\* The stack behind the background, with or without the NULL below the first menu.
BackgroundInvariant ==
  /\ Len(background_stack) <= Cap
  /\ Depth = 0 => background_win = NoWindow /\ background_stack = <<>>
  /\ Depth = 1 => background_win = screens[1].frame
                  /\ background_stack \in {<<>>, <<NoWindow>>}
  /\ Depth = 2 => background_win = screens[2].frame
                  /\ background_stack \in {<<screens[1].frame>>,
                                           <<NoWindow, screens[1].frame>>}

SessionInvariant ==
  /\ screen \in Screens
  /\ TerminalInvariant /\ ScreensInvariant /\ DialogInvariant
  /\ WindowsInvariant /\ BackgroundInvariant
=============================================================================
