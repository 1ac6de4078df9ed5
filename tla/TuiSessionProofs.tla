--------------------------- MODULE TuiSessionProofs ---------------------------
(***************************************************************************)
(* The safety of a run of tui_run_app, for every set of terminal sizes and *)
(* windows, any capacity of the background array and any number of         *)
(* signals.                                                                *)
(*                                                                         *)
(* SessionInvariant is inductive: it says at which place of the program    *)
(* the terminal is held, which screens may be open there and with which    *)
(* frames, that the windows are exactly those of the open screens and      *)
(* dialog, and what lies in the background array.  The lemmas follow the   *)
(* ways a step may change the screens (one opens, closes, enters, leaves,  *)
(* gets another frame) and the dialog; then there is one per action, and   *)
(* the properties of the runs follow from the invariant.                   *)
(*                                                                         *)
(* That a signal ends the session rests on UnwindWork, a number that every *)
(* step lowers.                                                            *)
(*                                                                         *)
(* The run of the application implements ScreenSession: every step of      *)
(* TuiSession is one step of the abstract session or leaves it alone.      *)
(* The invariant says how many screens are open, so that the mapped        *)
(* sequence of frames is one of three explicit tuples on both sides of a   *)
(* step.                                                                   *)
(***************************************************************************)
EXTENDS TuiSession, SequenceTheorems, TLAPS

USE StackAssumption, SessionAssumption
USE DEF InitPlaces, UninstallPlaces, Over

\* The steps of tui_init and tui_cleanup, and of the handler calls they share.
Lifecycle ==
  \/ OpenCurses \/ InstallInt \/ InstallTerm \/ SetupTerminal \/ AbandonInit
  \/ UninstallInt \/ UninstallTerm \/ EndCurses \/ Reset

\* tui_init, the menus, the dialogs and tui_cleanup take the terminal and the
\* handlers, and give them back, only at their places.
LEMMA TerminalPreserved ==
  ASSUME SessionInvariant, Next
  PROVE  TerminalInvariant'
<1> USE DEF SessionInvariant, TerminalInvariant, BootPlaces, MenuPlaces, DialogPlaces,
            EndPlaces, Go, End
<1>1. CASE OpenCurses \/ InstallInt \/ InstallTerm \/ SetupTerminal \/ AbandonInit
  BY <1>1 DEF OpenCurses, InstallInt, InstallTerm, SetupTerminal, AbandonInit, signalVars
<1>12. CASE UninstallInt \/ UninstallTerm
  BY <1>12 DEF UninstallInt, UninstallTerm, signalVars
<1>13. CASE LeaveApp \/ EndCurses \/ Reset
  BY <1>13 DEF LeaveApp, EndCurses, Reset, CloseScreen, signalVars, terminalVars
<1>2. CASE OpenMain
  BY <1>2 DEF OpenMain, OpenScreen, signalVars, terminalVars
<1>3. ASSUME NEW memory \in BOOLEAN, EnterMenu(memory) PROVE TerminalInvariant'
  BY <1>3 DEF EnterMenu, Returns, signalVars, terminalVars
<1>4. CASE MenuLoop \/ MenuKey
  BY <1>4 DEF MenuLoop, MenuKey, LeaveMenu, Returns, signalVars, terminalVars
<1>5. ASSUME NEW scr \in Screens, NEW memory \in BOOLEAN, MenuResize(scr, memory)
      PROVE  TerminalInvariant'
  BY <1>5 DEF MenuResize, RecreateFrame, LeaveMenu, Returns, signalVars, terminalVars
<1>6. CASE AbandonMenu
  BY <1>6 DEF AbandonMenu, LeaveMenu, Returns, signalVars, terminalVars
<1>7. CASE DialogOpen \/ DialogLoop \/ DialogKey \/ ProgressEnd
  BY <1>7 DEF DialogOpen, DialogLoop, DialogKey, ProgressEnd, CloseDialog, AfterDialog,
              OpenDialog, signalVars, terminalVars
<1>8. ASSUME NEW scr \in Screens, DialogResize(scr) PROVE TerminalInvariant'
  BY <1>8 DEF DialogResize, OpenDialog, signalVars, terminalVars
<1>9. CASE MainReturned
  BY <1>9 DEF MainReturned, Returned, ProgressStart, OpenScreen, OpenDialog, Quit,
              signalVars, terminalVars
<1>10. CASE SubmenuReturned \/ OverlayReturned
  BY <1>10 DEF SubmenuReturned, OverlayReturned, CloseScreen, Returned, OpenDialog,
               signalVars, terminalVars
<1>11. ASSUME NEW s \in {"INT", "TERM"}, Signal(s) PROVE TerminalInvariant'
  BY <1>11 DEF Signal
<1> QED
  BY <1>1, <1>2, <1>3, <1>4, <1>5, <1>6, <1>7, <1>8, <1>9, <1>10, <1>11, <1>12, <1>13
     DEF Next, Program, User

\* Closing the innermost screen keeps those below it.
LEMMA FrontProperties ==
  ASSUME NEW S, NEW s \in Seq(S), s # <<>>
  PROVE  /\ Front(s) \in Seq(S)
         /\ Len(Front(s)) = Len(s) - 1
         /\ \A i \in 1 .. Len(s) - 1 : Front(s)[i] = s[i]
<1>1. Len(s) \in Nat \ {0}
  BY EmptySeq
<1>2. \A i \in 1 .. Len(s) - 1 : s[i] \in S
  BY <1>1, ElementOfSeq
<1> DEFINE n == Len(s) - 1
<1>3. n \in Int /\ 1 \in Int /\ \A i \in 1 .. n : s[i] \in S
  BY <1>1, <1>2
<1>4. /\ SubSeq(s, 1, n) \in Seq(S)
      /\ Len(SubSeq(s, 1, n)) = IF 1 <= n THEN n - 1 + 1 ELSE 0
      /\ \A i \in 1 .. n - 1 + 1 : SubSeq(s, 1, n)[i] = s[1 + i - 1]
  <2> HIDE DEF n
  <2> QED BY <1>3, SubSeqProperties
<1>5. /\ SubSeq(s, 1, n) \in Seq(S)
      /\ Len(SubSeq(s, 1, n)) = n
      /\ \A i \in 1 .. n : SubSeq(s, 1, n)[i] = s[i]
  <2>1. n \in Nat
    BY <1>1
  <2>2. \A i \in 1 .. n : i \in 1 .. n - 1 + 1 /\ 1 + i - 1 = i
    BY <2>1
  <2> HIDE DEF n
  <2> QED BY <1>4, <2>1, <2>2
<1> QED
  BY <1>5 DEF Front

\* One entry over another.
LEMMA AppendToOne ==
  ASSUME NEW a, NEW b
  PROVE  Append(<<a>>, b) = <<a, b>>
<1>1. <<a>> \in Seq({a, b}) /\ <<a, b>> \in Seq({a, b})
  OBVIOUS
<1>2. /\ Len(Append(<<a>>, b)) = 2 /\ Len(<<a, b>>) = 2
      /\ \A i \in 1 .. 2 : Append(<<a>>, b)[i] = <<a, b>>[i]
  OBVIOUS
<1>3. Append(<<a>>, b) \in Seq({a, b})
  OBVIOUS
<1> QED BY <1>1, <1>2, <1>3, SeqEqual

\* A window comes onto a background with at most the NULL behind it.
LEMMA PushFirst ==
  ASSUME NEW w, background_win = NoWindow, background_stack = <<>>, Push(w)
  PROVE  background_win' = w /\ background_stack' = <<NoWindow>> /\ Len(background_stack') <= Cap
  BY DEF Push

\* tui_push_background over the first menu: an array of one entry loses the NULL.
LEMMA PushSecond ==
  ASSUME NEW w, NEW f, background_win = f, background_stack \in {<<>>, <<NoWindow>>},
         Push(w)
  PROVE  /\ background_win' = w
         /\ background_stack' \in {<<f>>, <<NoWindow, f>>}
         /\ Len(background_stack') <= Cap
<1>1. CASE background_stack = <<>>
  BY <1>1 DEF Push
<1>2. CASE background_stack = <<NoWindow>> /\ 1 < Cap
  <2>1. Append(<<NoWindow>>, f) = <<NoWindow, f>> /\ Len(<<NoWindow, f>>) = 2
    BY AppendToOne
  <2>2. Len(background_stack) < Cap
    BY <1>2
  <2> QED BY <1>2, <2>1, <2>2 DEF Push
<1>3. CASE background_stack = <<NoWindow>> /\ ~(1 < Cap)
  <2>1. Tail(background_stack) = <<>>
    BY <1>3
  <2>2. ~(Len(background_stack) < Cap)
    BY <1>3
  <2>3. Append(<<>>, f) = <<f>> /\ Len(<<f>>) = 1
    OBVIOUS
  <2>4. (IF Len(background_stack) < Cap THEN background_stack
         ELSE Tail(background_stack)) = <<>>
    BY <2>1, <2>2
  <2>5. background_stack' = Append(<<>>, f) /\ background_win' = w
    BY <2>4 DEF Push
  <2> QED BY <2>3, <2>5
<1> QED BY <1>1, <1>2, <1>3

\* tui_pop_background uncovers the menu below.
LEMMA PopSecond ==
  ASSUME NEW f, background_stack \in {<<f>>, <<NoWindow, f>>}, Pop
  PROVE  /\ background_win' = f /\ background_stack' \in {<<>>, <<NoWindow>>}
         /\ Len(background_stack') <= Cap
<1>1. CASE background_stack = <<f>>
  BY <1>1 DEF Pop, Front, Last
<1>2. CASE background_stack = <<NoWindow, f>>
  BY <1>2 DEF Pop, Front, Last
<1> QED BY <1>1, <1>2

\* tui_pop_background under the first menu leaves nothing.
LEMMA PopFirst ==
  ASSUME background_stack \in {<<>>, <<NoWindow>>}, Pop
  PROVE  background_win' = NoWindow /\ background_stack' = <<>>
<1>1. CASE background_stack = <<>>
  BY <1>1 DEF Pop
<1>2. CASE background_stack = <<NoWindow>>
  BY <1>2 DEF Pop, Front, Last
<1> QED BY <1>1, <1>2

\* The innermost frame is replaced, whatever lies behind it.
LEMMA ReplaceSecond ==
  ASSUME NEW f, NEW old, NEW new, old # NoWindow, old # f,
         background_win = old, background_stack \in {<<f>>, <<NoWindow, f>>},
         Replace(old, new)
  PROVE  background_win' = new /\ background_stack' = background_stack
<1>1. CASE background_stack = <<f>>
  BY <1>1 DEF Replace
<1>2. CASE background_stack = <<NoWindow, f>>
  BY <1>2 DEF Replace
<1> QED BY <1>1, <1>2
-----------------------------------------------------------------------------
\* At most the main menu and one screen over it.
LEMMA ScreensFacts ==
  ASSUME ScreensInvariant
  PROVE  /\ screens \in Seq(MenuScreens)
         /\ Len(screens) \in {0, 1, 2} /\ DOMAIN screens = 1 .. Len(screens)
         /\ (Len(screens) = 0) <=> (screens = <<>>)
         /\ Frames = {screens[i].frame : i \in 1 .. Len(screens)}
         /\ Top = screens[Len(screens)]
         /\ \A i \in 1 .. Len(screens) : screens[i] \in MenuScreens
<1>1. screens \in Seq(MenuScreens) /\ Len(screens) <= 2
  BY DEF ScreensInvariant
<1>2. Len(screens) \in {0, 1, 2} /\ DOMAIN screens = 1 .. Len(screens)
  <2>1. Len(screens) \in Nat /\ DOMAIN screens = 1 .. Len(screens)
    BY <1>1, LenProperties
  <2> QED BY <1>1, <2>1
<1>3. (Len(screens) = 0) <=> (screens = <<>>)
  BY <1>1, <1>2, EmptySeq
<1>4. \A i \in 1 .. Len(screens) : screens[i] \in MenuScreens
  BY <1>1, ElementOfSeq
<1> QED
  BY <1>1, <1>2, <1>3, <1>4 DEF Frames, Top, Last

\* The menus stay as they are; a dialog may come or go.
LEMMA ScreensKept ==
  ASSUME SessionInvariant, TerminalInvariant', DialogInvariant', 
         UNCHANGED <<stackVars, screens>>,
         (at \in {"menu", "getch"}) <=> (at' \in {"menu", "getch"}),
         at # "abandon", at' # "abandon",
         (at \in BootPlaces \cup EndPlaces) <=> (at' \in BootPlaces \cup EndPlaces),
         at' = "leave" \/ dialog'.purpose = "confirm" => Len(screens) = 1
  PROVE  ScreensInvariant' /\ BackgroundInvariant'
<1>1. ScreensInvariant'
  BY ScreensFacts DEF SessionInvariant, ScreensInvariant, Top
<1>2. BackgroundInvariant'
  BY DEF SessionInvariant, BackgroundInvariant, Depth, Top, stackVars
<1> QED BY <1>1, <1>2

\* No dialog is left behind.
LEMMA NoDialogOutside ==
  ASSUME DialogInvariant, at \notin DialogPlaces
  PROVE  dialog = NoDialog /\ dialog.purpose = "none" /\ dialog.win = NoWindow
<1>1. dialog = NoDialog
  BY DEF DialogInvariant
<1> QED
  BY <1>1 DEF NoDialog

\* A window that is allocated is none of those in use.
LEMMA FreshWindow ==
  ASSUME SessionInvariant, NEW fits, NEW w \in Allocate(fits), w # NoWindow
  PROVE  /\ w \in Windows /\ w \notin windows /\ w # dialog.win
         /\ \A i \in DOMAIN screens : w # screens[i].frame
<1>1. w \in Windows /\ w \notin windows
  BY DEF Allocate, NewWindows
<1> QED
  BY <1>1 DEF SessionInvariant, WindowsInvariant, Frames

\* A screen with a frame of its own opens over nothing or over the main menu.
LEMMA ScreenOpened ==
  ASSUME SessionInvariant, TerminalInvariant', at \in {"open", "returned"}, at' = "enter",
         NEW name \in {"main", "config", "commands"}, (name = "main") <=> (screens = <<>>),
         screens # <<>> => Top.name = "main",
         NEW w \in Windows, w \notin windows, w # dialog.win,
         \A i \in DOMAIN screens : w # screens[i].frame,
         windows' = windows \cup {w}, Push(w), UNCHANGED dialog,
         screens' = Append(screens, [name |-> name, frame |-> w, pushed |-> FALSE])
  PROVE  ScreensInvariant' /\ DialogInvariant' /\ WindowsInvariant' /\ BackgroundInvariant'
<1> DEFINE new == [name |-> name, frame |-> w, pushed |-> FALSE]
<1>1. new \in MenuScreens /\ w # NoWindow
  BY DEF MenuScreens
<1>2. /\ screens \in Seq(MenuScreens) /\ Len(screens) \in {0, 1}
      /\ DOMAIN screens = 1 .. Len(screens)
      /\ (Len(screens) = 0) <=> (screens = <<>>)
      /\ screens # <<>> => /\ screens[1].name = "main" /\ screens[1].frame # NoWindow
                           /\ ~screens[1].pushed /\ Top = screens[1]
  BY ScreensFacts DEF SessionInvariant, ScreensInvariant
<1>3. /\ screens' \in Seq(MenuScreens) /\ Len(screens') = Len(screens) + 1
      /\ DOMAIN screens' = 1 .. Len(screens')
      /\ screens' # <<>>
      /\ Len(screens) = 1 => screens'[1] = screens[1]
      /\ screens'[Len(screens')] = new
  BY <1>1, <1>2, AppendProperties, LenProperties
<1>4. dialog = NoDialog /\ dialog.purpose # "confirm" /\ dialog.win = NoWindow
  BY NoDialogOutside DEF SessionInvariant, DialogPlaces
<1>5. ScreensInvariant'
  <2>1. Top' = new
    BY <1>3 DEF Top, Last
  <2>2. \A i \in 1 .. Len(screens') :
           /\ (screens'[i].name = "main") <=> (i = 1)
           /\ screens'[i].name # "overlay" /\ screens'[i].frame # NoWindow
           /\ ~screens'[i].pushed
    BY <1>1, <1>2, <1>3
  <2>3. Len(screens') = 2 => screens'[1].frame # screens'[2].frame
    BY <1>2, <1>3
  <2>4. /\ screens' \in Seq(MenuScreens) /\ Len(screens') <= 2
        /\ (screens' = <<>>) <=> (at' \in BootPlaces \cup EndPlaces)
    BY <1>2, <1>3 DEF BootPlaces, EndPlaces
  <2>5. dialog'.purpose # "confirm"
    BY <1>4
  <2> QED
    BY <1>3, <2>2, <2>3, <2>4, <2>5 DEF ScreensInvariant
<1>6. DialogInvariant'
  BY <1>2, <1>3, <1>4 DEF SessionInvariant, DialogInvariant, DialogPlaces, NoDialog
<1>7. WindowsInvariant'
  <2>1. Frames' = Frames \cup {w}
    BY <1>2, <1>3 DEF Frames
  <2> QED
    BY <1>1, <2>1 DEF SessionInvariant, WindowsInvariant
<1>8. BackgroundInvariant'
  <2>1. Depth' = Len(screens')
    BY <1>1, <1>3 DEF Depth, Top, Last
  <2>2. Depth = Len(screens)
    BY <1>2 DEF Depth
  <2>3. CASE Len(screens) = 0
    <3>1. background_win = NoWindow /\ background_stack = <<>>
      BY <2>2, <2>3 DEF SessionInvariant, BackgroundInvariant
    <3>2. /\ background_win' = w /\ background_stack' = <<NoWindow>>
          /\ Len(background_stack') <= Cap
      BY <3>1, PushFirst
    <3>3. Len(screens') = 1 /\ screens'[1].frame = w
      BY <1>3, <2>3
    <3> QED
      BY <2>1, <3>2, <3>3 DEF BackgroundInvariant
  <2>4. CASE Len(screens) = 1
    BY <1>2, <1>3, <2>1, <2>2, <2>4, PushSecond DEF SessionInvariant, BackgroundInvariant
  <2> QED
    BY <1>2, <2>3, <2>4
<1> QED
  BY <1>5, <1>6, <1>7, <1>8

\* A screen that is not an overlay closes: its frame is popped and destroyed.
LEMMA ScreenClosed ==
  ASSUME SessionInvariant, TerminalInvariant', UNCHANGED dialog,
         \/ at = "leave" /\ at' = "cleanup"
         \/ at = "returned" /\ at' = "enter" /\ Len(screens) = 2,
         Top.name # "overlay",
         Pop, windows' = windows \ {Top.frame}, screens' = Front(screens)
  PROVE  ScreensInvariant' /\ DialogInvariant' /\ WindowsInvariant' /\ BackgroundInvariant'
<1>1. /\ screens \in Seq(MenuScreens) /\ Len(screens) \in {1, 2}
      /\ DOMAIN screens = 1 .. Len(screens) /\ screens # <<>>
      /\ Top = screens[Len(screens)]
      /\ at = "leave" => Len(screens) = 1
      /\ Len(screens) = 2 => screens[1].frame # screens[2].frame
      /\ \A i \in 1 .. Len(screens) : /\ screens[i].frame # NoWindow /\ ~screens[i].pushed
                                      /\ (screens[i].name = "main") <=> (i = 1)
                                      /\ screens[i].name # "overlay"
  BY ScreensFacts DEF SessionInvariant, ScreensInvariant, BootPlaces, EndPlaces
<1>2. /\ screens' \in Seq(MenuScreens) /\ Len(screens') = Len(screens) - 1
      /\ DOMAIN screens' = 1 .. Len(screens')
      /\ (Len(screens') = 0) <=> (screens' = <<>>)
      /\ Len(screens) = 2 => screens'[1] = screens[1]
  <2>1. screens' \in Seq(MenuScreens) /\ Len(screens') = Len(screens) - 1
    BY <1>1, FrontProperties
  <2>2. DOMAIN screens' = 1 .. Len(screens') /\ ((Len(screens') = 0) <=> (screens' = <<>>))
    BY <2>1, LenProperties, EmptySeq
  <2>3. Len(screens) = 2 => Front(screens)[1] = screens[1]
    <3>1. \A i \in 1 .. Len(screens) - 1 : Front(screens)[i] = screens[i]
      BY <1>1, FrontProperties
    <3> QED BY <3>1
  <2> QED
    BY <2>1, <2>2, <2>3
<1>3. dialog = NoDialog /\ dialog.purpose # "confirm" /\ dialog.win = NoWindow
  BY NoDialogOutside DEF SessionInvariant, DialogPlaces
<1>4. ScreensInvariant'
  BY <1>1, <1>2, <1>3 DEF ScreensInvariant, BootPlaces, EndPlaces, Top, Last
<1>5. DialogInvariant'
  BY <1>3 DEF SessionInvariant, DialogInvariant, DialogPlaces
<1>6. WindowsInvariant'
  BY <1>1, <1>2, <1>3 DEF SessionInvariant, WindowsInvariant, Frames
<1>7. BackgroundInvariant'
  <2>1. Depth = Len(screens) /\ Depth' = Len(screens) - 1
    <3>1. Depth = Len(screens)
      <4>1. Len(screens) \in 1 .. Len(screens)
        BY <1>1
      <4>2. Top.frame # NoWindow
        BY <1>1, <4>1
      <4> QED
        BY <4>2 DEF Depth
    <3>2. CASE Len(screens) = 1
      BY <1>2, <3>1, <3>2 DEF Depth
    <3>3. CASE Len(screens) = 2
      <4>1. Top' = screens[1] /\ Len(screens') = 1
        BY <1>2, <3>3 DEF Top, Last
      <4> QED
        BY <1>1, <3>1, <3>3, <4>1 DEF Depth
    <3> QED
      BY <1>1, <3>2, <3>3
  <2>2. CASE Len(screens) = 1
    BY <1>2, <2>1, <2>2, PopFirst DEF SessionInvariant, BackgroundInvariant
  <2>3. CASE Len(screens) = 2
    <3>1. background_stack \in {<<screens[1].frame>>, <<NoWindow, screens[1].frame>>}
      BY <2>1, <2>3 DEF SessionInvariant, BackgroundInvariant
    <3>2. /\ background_win' = screens[1].frame /\ background_stack' \in {<<>>, <<NoWindow>>}
          /\ Len(background_stack') <= Cap
      <4>1. Pop
        OBVIOUS
      <4> DEFINE f == screens[1].frame
      <4>2. background_stack \in {<<f>>, <<NoWindow, f>>}
        BY <3>1
      <4> HIDE DEF f
      <4>3. /\ background_win' = f /\ background_stack' \in {<<>>, <<NoWindow>>}
            /\ Len(background_stack') <= Cap
        BY <4>1, <4>2, PopSecond
      <4> QED
        BY <4>3 DEF f
    <3>3. Depth' = 1 /\ screens'[1] = screens[1]
      BY <1>2, <2>1, <2>3
    <3> QED
      BY <3>2, <3>3 DEF BackgroundInvariant
  <2> QED
    BY <1>1, <2>2, <2>3
<1> QED
  BY <1>4, <1>5, <1>6, <1>7

\* The main menu, or one screen over it.
LEMMA OpenScreens ==
  ASSUME ScreensInvariant, at \notin BootPlaces \cup EndPlaces
  PROVE  /\ screens \in Seq(MenuScreens) /\ Len(screens) \in {1, 2} /\ screens # <<>>
         /\ DOMAIN screens = 1 .. Len(screens)
         /\ Top = screens[Len(screens)] /\ Top \in MenuScreens
         /\ screens[1].name = "main" /\ screens[1].frame # NoWindow /\ ~screens[1].pushed
         /\ (Top.name = "main") <=> (Len(screens) = 1)
         /\ Top.name # "overlay" => Top.frame # NoWindow /\ ~Top.pushed
         /\ Top.name = "overlay" =>
              /\ Len(screens) = 2
              /\ Top.pushed <=> (at \in {"menu", "getch", "abandon"})
              /\ (Top.frame # NoWindow) <=> (at \in {"menu", "getch"})
         /\ Len(screens) = 2 => screens[1].frame # Top.frame
<1>1. /\ screens \in Seq(MenuScreens) /\ Len(screens) \in {1, 2} /\ screens # <<>>
      /\ DOMAIN screens = 1 .. Len(screens)
      /\ Top = screens[Len(screens)] /\ Top \in MenuScreens
  BY ScreensFacts DEF ScreensInvariant
<1>2. \A i \in 1 .. Len(screens) :
        /\ (screens[i].name = "main") <=> (i = 1)
        /\ screens[i].name # "overlay" => screens[i].frame # NoWindow /\ ~screens[i].pushed
        /\ screens[i].name = "overlay" =>
             /\ screens[i].pushed <=> (at \in {"menu", "getch", "abandon"})
             /\ (screens[i].frame # NoWindow) <=> (at \in {"menu", "getch"})
  BY <1>1 DEF ScreensInvariant
<1>3. Len(screens) = 2 => screens[1].frame # screens[2].frame
  BY DEF ScreensInvariant
<1> QED
  BY <1>1, <1>2, <1>3

\* A screen comes over the others.
LEMMA ScreenAppended ==
  ASSUME NEW S, NEW s \in Seq(S), NEW e \in S
  PROVE  /\ Append(s, e) \in Seq(S) /\ Append(s, e) # <<>>
         /\ Len(Append(s, e)) = Len(s) + 1
         /\ DOMAIN Append(s, e) = 1 .. Len(s) + 1
         /\ \A i \in 1 .. Len(s) : Append(s, e)[i] = s[i]
         /\ Append(s, e)[Len(s) + 1] = e
<1>1. Append(s, e) \in Seq(S) /\ Append(s, e) # <<>>
  BY AppendProperties
<1>2. Len(Append(s, e)) = Len(s) + 1
  BY AppendProperties
<1>3. \A i \in 1 .. Len(s) : Append(s, e)[i] = s[i]
  BY AppendProperties
<1>4. Append(s, e)[Len(s) + 1] = e
  BY AppendProperties
<1> QED
  BY <1>1, <1>2, <1>3, <1>4, LenProperties

\* The innermost screen changes, the ones below it stay.
LEMMA TopChanged ==
  ASSUME NEW n \in {1, 2}, NEW s \in Seq(MenuScreens), Len(s) = n, NEW e \in MenuScreens,
         NEW t, t = [s EXCEPT ![n] = e]
  PROVE  /\ t \in Seq(MenuScreens) /\ Len(t) = n /\ DOMAIN t = 1 .. n /\ t # <<>>
         /\ t[n] = e /\ (n = 2 => t[1] = s[1])
<1>1. n \in 1 .. Len(s)
  OBVIOUS
<1>2. /\ t \in Seq(MenuScreens) /\ Len(t) = n
      /\ \A j \in 1 .. n : t[j] = IF j = n THEN e ELSE s[j]
  BY <1>1, ExceptSeq
<1>3. DOMAIN t = 1 .. n /\ t # <<>>
  BY <1>2, LenProperties, EmptySeq
<1> QED
  BY <1>2, <1>3

\* What an overlay may be after a step: two screens, the main menu below.
LEMMA OverlayOnTop ==
  ASSUME SessionInvariant, TerminalInvariant', dialog = NoDialog, UNCHANGED dialog,
         Len(screens) \in {1, 2}, at \notin BootPlaces \cup EndPlaces,
         at' \notin BootPlaces \cup EndPlaces \cup DialogPlaces \cup {"leave"},
         screens' \in Seq(MenuScreens), Len(screens') = 2, DOMAIN screens' = 1 .. 2,
         screens' # <<>>, screens'[1] = screens[1], screens'[2].name = "overlay",
         screens'[2].frame # screens[1].frame,
         screens'[2].pushed <=> (at' \in {"menu", "getch", "abandon"}),
         (screens'[2].frame # NoWindow) <=> (at' \in {"menu", "getch"})
  PROVE  /\ ScreensInvariant' /\ DialogInvariant'
         /\ Frames' = {screens[1].frame, screens'[2].frame}
         /\ Depth' = IF at' \in {"menu", "getch", "abandon"} THEN 2 ELSE 1
<1>1. screens[1].name = "main" /\ screens[1].frame # NoWindow /\ ~screens[1].pushed
  BY OpenScreens DEF SessionInvariant
<1>2. Top' = screens'[2]
  BY DEF Top, Last
<1>3. ScreensInvariant'
  <2>1. dialog'.purpose # "confirm"
    BY DEF NoDialog
  <2>2. \A i \in 1 .. 2 :
          /\ (screens'[i].name = "main") <=> (i = 1)
          /\ screens'[i].name # "overlay" => screens'[i].frame # NoWindow /\ ~screens'[i].pushed
          /\ screens'[i].name = "overlay" =>
               /\ screens'[i].pushed <=> (at' \in {"menu", "getch", "abandon"})
               /\ (screens'[i].frame # NoWindow) <=> (at' \in {"menu", "getch"})
    BY <1>1
  <2>3. screens'[1].frame # screens'[2].frame
    OBVIOUS
  <2> QED
    BY <1>2, <2>1, <2>2, <2>3 DEF ScreensInvariant
<1>4. DialogInvariant'
  BY DEF SessionInvariant, DialogInvariant, NoDialog, DialogPlaces
<1>5. Frames' = {screens[1].frame, screens'[2].frame}
  BY DEF Frames
<1>6. Depth' = IF at' \in {"menu", "getch", "abandon"} THEN 2 ELSE 1
  <2>1. CASE at' \in {"menu", "getch", "abandon"}
    BY <1>2, <2>1 DEF Depth
  <2>2. CASE at' \notin {"menu", "getch", "abandon"}
    BY <1>2, <2>2 DEF Depth
  <2> QED
    BY <2>1, <2>2
<1> QED
  BY <1>3, <1>4, <1>5, <1>6

\* The main menu opens the overlay, which has no frame yet.
LEMMA OverlayAppended ==
  ASSUME SessionInvariant, TerminalInvariant', at = "returned", at' = "enter",
         Top.name = "main", UNCHANGED <<stackVars, windows, dialog>>,
         screens' = Append(screens, [name |-> "overlay", frame |-> NoWindow, pushed |-> FALSE])
  PROVE  ScreensInvariant' /\ DialogInvariant' /\ WindowsInvariant' /\ BackgroundInvariant'
<1> DEFINE new == [name |-> "overlay", frame |-> NoWindow, pushed |-> FALSE]
<1>1. /\ at \notin BootPlaces \cup EndPlaces \cup DialogPlaces
      /\ at' \notin BootPlaces \cup EndPlaces \cup DialogPlaces \cup {"leave"}
      /\ at' \notin {"menu", "getch", "abandon"}
  BY DEF BootPlaces, EndPlaces, DialogPlaces
<1>2. /\ screens \in Seq(MenuScreens) /\ Len(screens) = 1 /\ DOMAIN screens = 1 .. 1
      /\ screens[1].frame # NoWindow /\ ~screens[1].pushed /\ Top = screens[1]
  BY <1>1, OpenScreens DEF SessionInvariant
<1>3. dialog = NoDialog /\ dialog.win = NoWindow
  BY <1>1, NoDialogOutside DEF SessionInvariant
<1>4. new \in MenuScreens /\ screens' = Append(screens, new)
  BY DEF MenuScreens
<1>5. /\ screens' \in Seq(MenuScreens) /\ Len(screens') = 2 /\ DOMAIN screens' = 1 .. 2
      /\ screens' # <<>> /\ screens'[1] = screens[1] /\ screens'[2] = new
  <2>1. Len(screens) + 1 = 2 /\ 1 \in 1 .. Len(screens)
    BY <1>2
  <2>2. /\ screens' \in Seq(MenuScreens) /\ screens' # <<>>
        /\ Len(screens') = Len(screens) + 1 /\ DOMAIN screens' = 1 .. Len(screens) + 1
        /\ \A i \in 1 .. Len(screens) : screens'[i] = screens[i]
        /\ screens'[Len(screens) + 1] = new
    <3>1. screens \in Seq(MenuScreens)
      BY <1>2
    <3> HIDE DEF new
    <3> QED
      BY ONLY <3>1, <1>4, ScreenAppended
  <2> QED
    BY <2>1, <2>2
<1>6. /\ ScreensInvariant' /\ DialogInvariant'
      /\ Frames' = {screens[1].frame, NoWindow} /\ Depth' = 1
  BY <1>1, <1>2, <1>3, <1>5, OverlayOnTop
<1>7. WindowsInvariant'
  <2>1. Frames = {screens[1].frame}
    BY <1>2 DEF Frames
  <2> QED
    BY <1>3, <1>6, <2>1 DEF SessionInvariant, WindowsInvariant
<1>8. BackgroundInvariant'
  <2>1. Depth = 1
    BY <1>2 DEF Depth
  <2> QED
    BY <1>5, <1>6, <2>1 DEF SessionInvariant, BackgroundInvariant, stackVars
<1> QED
  BY <1>6, <1>7, <1>8

\* tui_show_menu creates the overlay's frame and makes it the background.
LEMMA OverlayEntered ==
  ASSUME SessionInvariant, TerminalInvariant', at = "enter", at' = "menu",
         Top.frame = NoWindow, UNCHANGED dialog,
         NEW w \in Windows, w \notin windows, windows' = windows \cup {w}, Push(w),
         screens' = [screens EXCEPT ![Len(screens)] =
                       [name |-> @.name, frame |-> w, pushed |-> TRUE]]
  PROVE  ScreensInvariant' /\ DialogInvariant' /\ WindowsInvariant' /\ BackgroundInvariant'
<1>1. /\ at \notin BootPlaces \cup EndPlaces \cup DialogPlaces
      /\ at' \notin BootPlaces \cup EndPlaces \cup DialogPlaces \cup {"leave"}
      /\ at' \in {"menu", "getch", "abandon"} /\ w # NoWindow
  BY DEF BootPlaces, EndPlaces, DialogPlaces
<1>2. /\ screens \in Seq(MenuScreens) /\ Len(screens) = 2 /\ DOMAIN screens = 1 .. 2
      /\ screens[1].frame # NoWindow /\ ~Top.pushed
      /\ Top = screens[2] /\ screens # <<>> /\ Top.name = "overlay"
  BY <1>1, OpenScreens DEF SessionInvariant
<1>3. dialog = NoDialog /\ dialog.win = NoWindow
  BY <1>1, NoDialogOutside DEF SessionInvariant
<1> DEFINE new == [name |-> "overlay", frame |-> w, pushed |-> TRUE]
<1>4. new \in MenuScreens /\ screens' = [screens EXCEPT ![2] = new]
  BY <1>2 DEF MenuScreens
<1>5. /\ screens' \in Seq(MenuScreens) /\ Len(screens') = 2 /\ DOMAIN screens' = 1 .. 2
      /\ screens' # <<>> /\ screens'[1] = screens[1] /\ screens'[2] = new
  BY <1>2, <1>4, TopChanged
<1>6. w # screens[1].frame
  BY <1>1, <1>2 DEF SessionInvariant, WindowsInvariant, Frames
<1>7. /\ ScreensInvariant' /\ DialogInvariant'
      /\ Frames' = {screens[1].frame, w} /\ Depth' = 2
  BY <1>1, <1>2, <1>3, <1>5, <1>6, OverlayOnTop
<1>8. WindowsInvariant'
  BY <1>1, <1>2, <1>3, <1>7 DEF SessionInvariant, WindowsInvariant, Frames
<1>9. BackgroundInvariant'
  <2>1. Depth = 1
    BY <1>2 DEF Depth
  <2>2. background_win = screens[1].frame /\ background_stack \in {<<>>, <<NoWindow>>}
    BY <2>1 DEF SessionInvariant, BackgroundInvariant
  <2>3. /\ background_win' = w /\ Len(background_stack') <= Cap
        /\ background_stack' \in {<<screens[1].frame>>, <<NoWindow, screens[1].frame>>}
    BY <2>2, PushSecond
  <2>4. screens'[2].frame = w /\ screens'[1].frame = screens[1].frame
    BY <1>4, <1>5
  <2> QED
    BY <1>7, <2>3, <2>4 DEF BackgroundInvariant
<1> QED
  BY <1>7, <1>8, <1>9

\* A resize gives the overlay another frame, or none.
LEMMA OverlayReframed ==
  ASSUME SessionInvariant, TerminalInvariant', at = "getch",
         Top.name = "overlay", UNCHANGED dialog, NEW w \in Windows \cup {NoWindow},
         w \notin windows, at' = IF w = NoWindow THEN "abandon" ELSE "menu",
         windows' = (windows \cup {w}) \ {Top.frame, NoWindow}, Replace(Top.frame, w),
         screens' = [screens EXCEPT ![Len(screens)].frame = w]
  PROVE  ScreensInvariant' /\ DialogInvariant' /\ WindowsInvariant' /\ BackgroundInvariant'
<1>1. /\ at \notin BootPlaces \cup EndPlaces \cup DialogPlaces
      /\ at' \notin BootPlaces \cup EndPlaces \cup DialogPlaces \cup {"leave"}
      /\ at' \in {"menu", "getch", "abandon"} /\ ((w # NoWindow) <=> (at' \in {"menu", "getch"}))
  BY DEF BootPlaces, EndPlaces, DialogPlaces
<1>2. /\ screens \in Seq(MenuScreens) /\ Len(screens) = 2 /\ DOMAIN screens = 1 .. 2
      /\ screens[1].frame # NoWindow /\ Top.frame # NoWindow
      /\ screens[1].frame # Top.frame
      /\ Top = screens[2] /\ screens # <<>> /\ Top.pushed = TRUE /\ Top \in MenuScreens
  BY <1>1, OpenScreens DEF SessionInvariant
<1>3. dialog = NoDialog /\ dialog.win = NoWindow
  BY <1>1, NoDialogOutside DEF SessionInvariant
<1> DEFINE new == [Top EXCEPT !.frame = w]
<1>4. /\ new \in MenuScreens /\ new.name = "overlay" /\ new.frame = w /\ new.pushed
      /\ screens' = [screens EXCEPT ![2] = new]
  BY <1>2 DEF MenuScreens
<1>5. /\ screens' \in Seq(MenuScreens) /\ Len(screens') = 2 /\ DOMAIN screens' = 1 .. 2
      /\ screens' # <<>> /\ screens'[1] = screens[1] /\ screens'[2] = new
  BY <1>2, <1>4, TopChanged
<1>6. w # screens[1].frame
  BY <1>1, <1>2 DEF SessionInvariant, WindowsInvariant, Frames
<1>7. /\ ScreensInvariant' /\ DialogInvariant'
      /\ Frames' = {screens[1].frame, w} /\ Depth' = 2
  BY <1>1, <1>2, <1>3, <1>5, <1>6, OverlayOnTop
<1>8. WindowsInvariant'
  BY <1>1, <1>2, <1>3, <1>7 DEF SessionInvariant, WindowsInvariant, Frames
<1>9. BackgroundInvariant'
  <2>1. Depth = 2
    BY <1>2 DEF Depth
  <2>2. /\ background_win = Top.frame /\ Len(background_stack) <= Cap
        /\ background_stack \in {<<screens[1].frame>>, <<NoWindow, screens[1].frame>>}
    BY <1>2, <2>1 DEF SessionInvariant, BackgroundInvariant
  <2>3. background_win' = w /\ background_stack' = background_stack
    BY <1>2, <2>2, ReplaceSecond
  <2>4. screens'[2].frame = w /\ screens'[1].frame = screens[1].frame
    BY <1>4, <1>5
  <2> QED
    BY <1>7, <2>2, <2>3, <2>4 DEF BackgroundInvariant
<1> QED
  BY <1>7, <1>8, <1>9

\* To set the innermost screen to what it is changes nothing.
LEMMA TopUnchanged ==
  ASSUME NEW n \in {1, 2}, NEW s \in Seq(MenuScreens), Len(s) = n, s[n].pushed = FALSE
  PROVE  [s EXCEPT ![n].pushed = FALSE] = s
<1> DEFINE e == [s[n] EXCEPT !.pushed = FALSE]
<1>1. s[n] \in MenuScreens
  BY ElementOfSeq
<1>2. e = s[n]
  BY <1>1 DEF MenuScreens
<1>3. [s EXCEPT ![n] = e] = s
  BY <1>2, LenProperties
<1> QED
  BY <1>3

\* A menu without a frame of its own goes on or returns.
LEMMA CallerKept ==
  ASSUME SessionInvariant, TerminalInvariant',
         at \notin BootPlaces \cup EndPlaces \cup DialogPlaces,
         at' \notin BootPlaces \cup EndPlaces \cup DialogPlaces \cup {"abandon", "leave"},
         Top.name # "overlay", UNCHANGED <<stackVars, screens, windows, dialog>>
  PROVE  ScreensInvariant' /\ DialogInvariant' /\ WindowsInvariant' /\ BackgroundInvariant'
<1>1. dialog = NoDialog /\ dialog.purpose # "confirm" /\ dialog.win = NoWindow
  BY NoDialogOutside DEF SessionInvariant
<1>2. DialogInvariant' /\ WindowsInvariant'
  BY <1>1 DEF SessionInvariant, DialogInvariant, NoDialog, DialogPlaces, WindowsInvariant, Frames
<1>3. ScreensInvariant'
  <2>1. \A i \in DOMAIN screens : screens[i].name # "overlay"
    BY OpenScreens DEF SessionInvariant, ScreensInvariant
  <2> QED
    BY <1>1, <2>1 DEF SessionInvariant, ScreensInvariant
<1>4. BackgroundInvariant'
  <2>1. Depth' = Depth
    BY DEF Depth, Top, Last
  <2> QED
    BY <2>1 DEF SessionInvariant, BackgroundInvariant, stackVars
<1> QED
  BY <1>2, <1>3, <1>4

\* tui_show_menu returns: the overlay's frame is popped and destroyed, a caller's
\* stays.
LEMMA MenuLeft ==
  ASSUME SessionInvariant, TerminalInvariant', at \in {"menu", "getch", "abandon"},
         NEW st, LeaveMenu(st), UNCHANGED dialog
  PROVE  ScreensInvariant' /\ DialogInvariant' /\ WindowsInvariant' /\ BackgroundInvariant'
<1>1. /\ at \notin BootPlaces \cup EndPlaces \cup DialogPlaces
      /\ at' \notin BootPlaces \cup EndPlaces \cup DialogPlaces \cup {"leave"}
      /\ at' \notin {"menu", "getch", "abandon"}
  BY DEF BootPlaces, EndPlaces, DialogPlaces, LeaveMenu, Returns
<1>2. /\ screens \in Seq(MenuScreens) /\ Len(screens) \in {1, 2} /\ screens # <<>>
      /\ DOMAIN screens = 1 .. Len(screens) /\ Top = screens[Len(screens)]
      /\ screens[1].frame # NoWindow /\ ~screens[1].pushed /\ Top \in MenuScreens
      /\ Top.name # "overlay" => Top.frame # NoWindow /\ ~Top.pushed
      /\ Top.name = "overlay" => /\ Len(screens) = 2
                                 /\ Top.pushed <=> (at \in {"menu", "getch", "abandon"})
      /\ Len(screens) = 2 => screens[1].frame # Top.frame
  BY <1>1, OpenScreens DEF SessionInvariant
<1>3. dialog = NoDialog /\ dialog.purpose # "confirm" /\ dialog.win = NoWindow
  BY <1>1, NoDialogOutside DEF SessionInvariant
<1>4. CASE Top.name # "overlay"
  <2>1. screens' = [screens EXCEPT ![Len(screens)].pushed = FALSE]
        /\ UNCHANGED <<stackVars, windows>>
    BY <1>2, <1>4 DEF LeaveMenu, Owned
  <2>2. screens' = screens
    <3>1. screens[Len(screens)].pushed = FALSE
      BY <1>2, <1>4 DEF MenuScreens
    <3> QED
      BY <1>2, <2>1, <3>1, TopUnchanged
  <2> QED
    BY <1>1, <1>4, <2>1, <2>2, CallerKept
<1>5. CASE Top.name = "overlay"
  <2> DEFINE new == [name |-> "overlay", frame |-> NoWindow, pushed |-> FALSE]
  <2>1. /\ new \in MenuScreens /\ screens' = [screens EXCEPT ![2] = new]
        /\ Pop /\ windows' = windows \ {Top.frame}
    BY <1>2, <1>5 DEF LeaveMenu, Owned, MenuScreens
  <2>2. /\ screens' \in Seq(MenuScreens) /\ Len(screens') = 2 /\ DOMAIN screens' = 1 .. 2
        /\ screens' # <<>> /\ screens'[1] = screens[1] /\ screens'[2] = new
    BY <1>2, <1>5, <2>1, TopChanged
  <2>3. /\ ScreensInvariant' /\ DialogInvariant'
        /\ Frames' = {screens[1].frame, NoWindow} /\ Depth' = 1
    BY <1>1, <1>2, <1>3, <1>5, <2>2, OverlayOnTop
  <2>4. WindowsInvariant'
    <3>1. Frames = {screens[1].frame, Top.frame}
      BY <1>2, <1>5 DEF Frames
    <3> QED
      BY <1>2, <1>3, <1>5, <2>1, <2>3, <3>1 DEF SessionInvariant, WindowsInvariant
  <2>5. BackgroundInvariant'
    <3>1. Depth = 2
      BY <1>2, <1>5 DEF Depth
    <3>2. background_stack \in {<<screens[1].frame>>, <<NoWindow, screens[1].frame>>}
      BY <3>1 DEF SessionInvariant, BackgroundInvariant
    <3>3. /\ background_win' = screens[1].frame /\ background_stack' \in {<<>>, <<NoWindow>>}
          /\ Len(background_stack') <= Cap
      <4>1. Pop
        BY <2>1
      <4> DEFINE f == screens[1].frame
      <4>2. background_stack \in {<<f>>, <<NoWindow, f>>}
        BY <3>2
      <4> HIDE DEF f
      <4>3. /\ background_win' = f /\ background_stack' \in {<<>>, <<NoWindow>>}
            /\ Len(background_stack') <= Cap
        BY <4>1, <4>2, PopSecond
      <4> QED
        BY <4>3 DEF f
    <3> QED
      BY <2>2, <2>3, <3>3 DEF BackgroundInvariant
  <2> QED
    BY <2>3, <2>4, <2>5
<1> QED
  BY <1>4, <1>5

\* The overlay has returned and its screen goes.
LEMMA OverlayClosed ==
  ASSUME SessionInvariant, TerminalInvariant', DialogInvariant', at = "returned",
         at' \in {"enter", "open_dialog"},
         Top.name = "overlay", UNCHANGED <<stackVars, windows>>, screens' = Front(screens)
  PROVE  ScreensInvariant' /\ WindowsInvariant' /\ BackgroundInvariant'
<1>1. /\ at \notin BootPlaces \cup EndPlaces \cup DialogPlaces
      /\ at' \notin BootPlaces \cup EndPlaces \cup {"leave", "menu", "getch", "abandon"}
  BY DEF BootPlaces, EndPlaces, DialogPlaces
<1>2. /\ screens \in Seq(MenuScreens) /\ Len(screens) = 2 /\ screens # <<>>
      /\ DOMAIN screens = 1 .. Len(screens) /\ Top = screens[2] /\ screens[1].name \in {"main"}
      /\ screens[1].frame # NoWindow /\ ~screens[1].pushed
      /\ screens[2].frame \in {NoWindow} /\ ~screens[2].pushed
  BY <1>1, OpenScreens DEF SessionInvariant
<1>3. dialog.win = NoWindow
  BY <1>1, NoDialogOutside DEF SessionInvariant
<1>4. /\ screens' \in Seq(MenuScreens) /\ Len(screens') = 1
      /\ DOMAIN screens' = 1 .. Len(screens')
      /\ screens' # <<>> /\ screens'[1] = screens[1]
  <2>1. screens' \in Seq(MenuScreens) /\ Len(screens') = Len(screens) - 1
    BY <1>2, FrontProperties
  <2>2. \A i \in 1 .. Len(screens) - 1 : Front(screens)[i] = screens[i]
    BY <1>2, FrontProperties
  <2>3. Len(screens') = 1 /\ screens'[1] = screens[1]
    BY <1>2, <2>1, <2>2
  <2>4. DOMAIN screens' = 1 .. Len(screens')
    BY <2>1, LenProperties
  <2>5. screens' # <<>>
    BY <2>3, EmptySeq
  <2> QED
    BY <2>1, <2>3, <2>4, <2>5
<1>5. Top' = screens[1]
  BY <1>4 DEF Top, Last
<1>6. ScreensInvariant'
  <2>1. \A i \in DOMAIN screens' : i = 1 /\ screens'[i] = screens[1]
    BY <1>4
  <2> QED
    BY <1>1, <1>2, <1>4, <1>5, <2>1 DEF ScreensInvariant
<1>7. WindowsInvariant'
  <2>1. Frames = {screens[1].frame, NoWindow}
    BY <1>2 DEF Frames
  <2>2. Frames' = {screens[1].frame}
    BY <1>4 DEF Frames
  <2> QED
    BY <1>2, <1>3, <2>1, <2>2
       DEF SessionInvariant, WindowsInvariant, DialogInvariant, DialogPlaces
<1>8. BackgroundInvariant'
  <2>1. Depth = 1
    BY <1>2 DEF Depth
  <2>2. Depth' = 1
    BY <1>2, <1>4, <1>5 DEF Depth
  <2> QED
    BY <1>4, <2>1, <2>2 DEF SessionInvariant, BackgroundInvariant, stackVars
<1> QED
  BY <1>6, <1>7, <1>8
-----------------------------------------------------------------------------
(* Every step preserves the invariant *)

\* The menus stay while the program takes a step of its own.
LEMMA StepAside ==
  ASSUME SessionInvariant, TerminalInvariant', DialogInvariant',
         UNCHANGED <<stackVars, screens, windows>>, dialog'.win = dialog.win,
         at \notin {"menu", "getch", "abandon"}, at' \notin {"menu", "getch", "abandon"},
         (at \in BootPlaces \cup EndPlaces) <=> (at' \in BootPlaces \cup EndPlaces),
         at' = "leave" \/ dialog'.purpose = "confirm" => Len(screens) = 1
  PROVE  ScreensInvariant' /\ WindowsInvariant' /\ BackgroundInvariant'
  BY ScreensKept DEF SessionInvariant, WindowsInvariant, Frames

\* tui_init and tui_cleanup: their places in turn, with no screen open.
LEMMA LifecycleSteps ==
  ASSUME SessionInvariant, Lifecycle
  PROVE  /\ screens = <<>> /\ dialog = NoDialog
         /\ UNCHANGED <<stackVars, screens, dialog, screen, windows, status>>
         /\ \/ at = "start" /\ at' \in {"curses", "ended"}
            \/ at = "curses" /\ at' \in {"install_term", "undo"}
            \/ at = "install_term" /\ at' \in {"setup", "undo"}
            \/ at = "setup" /\ at' \in {"open", "fail"}
            \/ at = "fail" /\ at' = "fail_term"
            \/ at = "fail_term" /\ at' = "fail_reset"
            \/ at = "cleanup" /\ at' = "uninstall"
            \/ at = "uninstall" /\ at' = "uninstall_term"
            \/ at = "uninstall_term" /\ at' = "reset"
            \/ at \in {"undo", "fail_reset", "reset"} /\ at' = "ended"
<1>1. /\ at \in BootPlaces \cup EndPlaces
      /\ UNCHANGED <<screens, dialog, screen, windows, status>>
  BY DEF Lifecycle, OpenCurses, InstallInt, InstallTerm, SetupTerminal, AbandonInit,
         UninstallInt, UninstallTerm, EndCurses, Reset, BootPlaces, EndPlaces
<1>2. screens = <<>> /\ dialog = NoDialog
  BY <1>1, NoDialogOutside
     DEF SessionInvariant, ScreensInvariant, BootPlaces, EndPlaces, DialogPlaces
<1>3. background_win = NoWindow /\ background_stack = <<>>
  BY <1>2 DEF SessionInvariant, BackgroundInvariant, Depth
<1>4. UNCHANGED stackVars
  BY <1>3 DEF Lifecycle, OpenCurses, InstallInt, InstallTerm, SetupTerminal, AbandonInit,
              UninstallInt, UninstallTerm, EndCurses, Reset, Clear, stackVars
<1> QED
  BY <1>1, <1>2, <1>4
     DEF Lifecycle, OpenCurses, InstallInt, InstallTerm, SetupTerminal, AbandonInit,
         UninstallInt, UninstallTerm, EndCurses, Reset, Go, End

LEMMA LifecyclePreserves ==
  ASSUME SessionInvariant, Lifecycle
  PROVE  SessionInvariant'
<1>1. TerminalInvariant'
  BY TerminalPreserved DEF Next, Program, Lifecycle
<1>2. /\ UNCHANGED <<stackVars, screens, windows, dialog, screen>> /\ dialog = NoDialog
      /\ at \in BootPlaces \cup EndPlaces /\ at' \in BootPlaces \cup EndPlaces
  BY LifecycleSteps DEF BootPlaces, EndPlaces
<1>3. DialogInvariant'
  BY <1>2 DEF SessionInvariant, DialogInvariant, BootPlaces, EndPlaces, DialogPlaces
<1>4. ScreensInvariant' /\ WindowsInvariant' /\ BackgroundInvariant'
  BY <1>1, <1>2, <1>3, StepAside DEF BootPlaces, EndPlaces, NoDialog
<1> QED
  BY <1>1, <1>2, <1>3, <1>4 DEF SessionInvariant

\* tui_run_app opens the main menu, or finds no room for it.
LEMMA OpenMainPreserves == SessionInvariant /\ OpenMain => SessionInvariant'
<1> SUFFICES ASSUME SessionInvariant, OpenMain PROVE SessionInvariant'
  OBVIOUS
<1>1. TerminalInvariant'
  BY TerminalPreserved DEF Next, Program
<1>2. PICK w \in Allocate(CenteredFits) :
        IF w = NoWindow
        THEN /\ Go("cleanup") /\ UNCHANGED <<stackVars, screens, windows, dialog>>
        ELSE /\ windows' = windows \cup {w} /\ Push(w)
             /\ screens' = Append(screens, [name |-> "main", frame |-> w, pushed |-> FALSE])
             /\ Go("enter") /\ UNCHANGED dialog
  BY DEF OpenMain, OpenScreen
<1>3. at = "open" /\ screens = <<>> /\ UNCHANGED screen /\ dialog = NoDialog
  BY NoDialogOutside
     DEF OpenMain, SessionInvariant, ScreensInvariant, BootPlaces, DialogPlaces
<1>4. CASE w = NoWindow
  <2>1. at' = "cleanup" /\ UNCHANGED <<stackVars, screens, windows, dialog>>
    BY <1>2, <1>4 DEF Go
  <2>2. DialogInvariant'
    BY <1>3, <2>1 DEF SessionInvariant, DialogInvariant, DialogPlaces
  <2>3. ScreensInvariant' /\ WindowsInvariant' /\ BackgroundInvariant'
    BY <1>1, <1>3, <2>1, <2>2, StepAside DEF BootPlaces, EndPlaces, NoDialog
  <2> QED
    BY <1>1, <1>3, <2>2, <2>3 DEF SessionInvariant
<1>5. CASE w # NoWindow
  <2>1. at' = "enter" /\ windows' = windows \cup {w} /\ Push(w) /\ UNCHANGED dialog
        /\ screens' = Append(screens, [name |-> "main", frame |-> w, pushed |-> FALSE])
    BY <1>2, <1>5 DEF Go
  <2>2. /\ w \in Windows /\ w \notin windows /\ w # dialog.win
        /\ \A i \in DOMAIN screens : w # screens[i].frame
    BY <1>5, FreshWindow
  <2>3. ScreensInvariant' /\ DialogInvariant' /\ WindowsInvariant' /\ BackgroundInvariant'
    BY <1>1, <1>3, <2>1, <2>2, ScreenOpened
  <2> QED
    BY <1>1, <1>3, <2>3 DEF SessionInvariant
<1> QED
  BY <1>4, <1>5

\* A menu waits for a key, or goes on after one that does not end it.
LEMMA MenuGoesOn ==
  ASSUME SessionInvariant, TerminalInvariant', at \in {"menu", "getch"},
         at' \in {"menu", "getch"}, UNCHANGED <<stackVars, screens, windows, dialog>>
  PROVE  ScreensInvariant' /\ DialogInvariant' /\ WindowsInvariant' /\ BackgroundInvariant'
<1>1. dialog = NoDialog /\ dialog.purpose # "confirm"
  BY NoDialogOutside DEF SessionInvariant, DialogPlaces
<1>2. DialogInvariant' /\ WindowsInvariant'
  BY <1>1 DEF SessionInvariant, DialogInvariant, NoDialog, DialogPlaces, WindowsInvariant, Frames
<1>3. ScreensInvariant' /\ BackgroundInvariant'
  BY <1>1, <1>2, ScreensKept DEF BootPlaces, EndPlaces
<1> QED
  BY <1>2, <1>3

\* tui_show_menu gets its frame and makes it the background.
LEMMA EnterMenuPreserves ==
  ASSUME SessionInvariant, NEW memory \in BOOLEAN, EnterMenu(memory)
  PROVE  SessionInvariant'
<1>1. TerminalInvariant'
  BY TerminalPreserved DEF Next, Program
<1>2. at = "enter" /\ UNCHANGED <<screen, dialog>>
  BY DEF EnterMenu
<1>3. /\ screens \in Seq(MenuScreens) /\ Len(screens) \in {1, 2}
      /\ Top = screens[Len(screens)] /\ Top \in MenuScreens /\ ~Top.pushed
      /\ Top.frame # NoWindow => Top.name # "overlay"
      /\ dialog = NoDialog /\ dialog.purpose # "confirm" /\ dialog.win = NoWindow
  BY <1>2, OpenScreens, NoDialogOutside
     DEF SessionInvariant, BootPlaces, EndPlaces, DialogPlaces
<1>4. ASSUME at' = "returned", UNCHANGED <<stackVars, screens, windows>> PROVE SessionInvariant'
  <2>1. DialogInvariant'
    BY <1>2, <1>3, <1>4 DEF SessionInvariant, DialogInvariant, DialogPlaces
  <2>2. ScreensInvariant' /\ WindowsInvariant' /\ BackgroundInvariant'
    BY <1>1, <1>2, <1>3, <1>4, <2>1, StepAside DEF BootPlaces, EndPlaces
  <2> QED
    BY <1>1, <1>2, <2>1, <2>2 DEF SessionInvariant
<1>5. CASE Returns("NO_MEMORY") /\ UNCHANGED <<stackVars, screens, windows>>
  BY <1>4, <1>5 DEF Returns
<1>6. CASE /\ Top.frame # NoWindow /\ UNCHANGED windows
           /\ IF RecenterFits(screen) /\ memory
                THEN /\ Go("menu") /\ UNCHANGED status
                     /\ screens' = [screens EXCEPT ![Len(screens)].pushed =
                                      background_win # Top.frame]
                     /\ IF background_win # Top.frame THEN Push(Top.frame)
                                                      ELSE UNCHANGED stackVars
                ELSE Returns("TOO_SMALL") /\ UNCHANGED <<stackVars, screens>>
  <2>1. CASE RecenterFits(screen) /\ memory
    <3>1. background_win = Top.frame
      <4>1. Depth = Len(screens)
        BY <1>3, <1>6 DEF Depth
      <4> QED
        BY <1>3, <4>1 DEF SessionInvariant, BackgroundInvariant
    <3>2. /\ at' = "menu" /\ UNCHANGED <<stackVars, windows>>
          /\ screens' = [screens EXCEPT ![Len(screens)].pushed = FALSE]
      BY <1>6, <2>1, <3>1 DEF Go
    <3>3. screens' = screens
      <4>1. screens[Len(screens)].pushed = FALSE
        BY <1>3 DEF MenuScreens
      <4> QED
        BY <1>3, <3>2, <4>1, TopUnchanged
    <3>4. ScreensInvariant' /\ DialogInvariant' /\ WindowsInvariant' /\ BackgroundInvariant'
      BY <1>1, <1>2, <1>3, <1>6, <3>2, <3>3, CallerKept DEF BootPlaces, EndPlaces, DialogPlaces
    <3> QED
      BY <1>1, <1>2, <3>4 DEF SessionInvariant
  <2>2. CASE ~(RecenterFits(screen) /\ memory)
    BY <1>4, <1>6, <2>2 DEF Returns
  <2> QED
    BY <2>1, <2>2
<1>7. ASSUME Top.frame = NoWindow, NEW w \in Allocate(CenteredFits),
             IF w = NoWindow
             THEN Returns("TOO_SMALL") /\ UNCHANGED <<stackVars, screens, windows>>
             ELSE /\ Go("menu") /\ UNCHANGED status
                  /\ windows' = windows \cup {w}
                  /\ screens' = [screens EXCEPT ![Len(screens)] =
                                   [name |-> @.name, frame |-> w, pushed |-> TRUE]]
                  /\ Push(w)
      PROVE  SessionInvariant'
  <2>1. CASE w = NoWindow
    BY <1>4, <1>7, <2>1 DEF Returns
  <2>2. CASE w # NoWindow
    <3>1. w \in Windows /\ w \notin windows
      BY <2>2, FreshWindow
    <3>2. /\ at' = "menu" /\ windows' = windows \cup {w} /\ Push(w)
          /\ screens' = [screens EXCEPT ![Len(screens)] =
                           [name |-> @.name, frame |-> w, pushed |-> TRUE]]
      BY <1>7, <2>2 DEF Go
    <3>3. ScreensInvariant' /\ DialogInvariant' /\ WindowsInvariant' /\ BackgroundInvariant'
      BY <1>1, <1>2, <1>7, <3>1, <3>2, OverlayEntered
    <3> QED
      BY <1>1, <1>2, <3>3 DEF SessionInvariant
  <2> QED
    BY <2>1, <2>2
<1> QED
  BY <1>5, <1>6, <1>7 DEF EnterMenu

\* The loop of tui_show_menu goes on or leaves.
LEMMA MenuPreserves ==
  ASSUME SessionInvariant, MenuLoop \/ MenuKey \/ AbandonMenu
  PROVE  SessionInvariant'
<1>1. TerminalInvariant'
  BY TerminalPreserved DEF Next, Program, User
<1>2. at \in {"menu", "getch", "abandon"} /\ UNCHANGED <<screen, dialog>>
  BY DEF MenuLoop, MenuKey, AbandonMenu
<1>3. ASSUME NEW st, LeaveMenu(st) PROVE SessionInvariant'
  BY <1>1, <1>2, <1>3, MenuLeft DEF SessionInvariant
<1>4. ASSUME at \in {"menu", "getch"}, at' \in {"menu", "getch"},
             UNCHANGED <<stackVars, screens, windows>>
      PROVE  SessionInvariant'
  BY <1>1, <1>2, <1>4, MenuGoesOn DEF SessionInvariant
<1> QED
  BY <1>3, <1>4 DEF MenuLoop, MenuKey, AbandonMenu, Go

\* tui_show_menu handles KEY_RESIZE.
LEMMA MenuResizePreserves ==
  ASSUME SessionInvariant, NEW scr \in Screens, NEW memory \in BOOLEAN, MenuResize(scr, memory)
  PROVE  SessionInvariant'
<1>1. TerminalInvariant'
  BY TerminalPreserved DEF Next
<1>2. at = "getch" /\ UNCHANGED dialog /\ screen' \in Screens
  BY DEF MenuResize
<1>3. CASE Owned
  <2>1. PICK w \in Allocate(scr.rows >= 3 /\ scr.cols >= 8) :
          /\ Replace(Top.frame, w)
          /\ windows' = (windows \cup {w}) \ {Top.frame, NoWindow}
          /\ screens' = [screens EXCEPT ![Len(screens)].frame = w]
          /\ Go(IF w = NoWindow THEN "abandon" ELSE "menu")
    BY <1>3 DEF MenuResize, RecreateFrame
  <2>2. w \in Windows \cup {NoWindow} /\ w \notin windows
    BY DEF Allocate, NewWindows, SessionInvariant, WindowsInvariant
  <2>3. Top.name = "overlay" /\ at' = IF w = NoWindow THEN "abandon" ELSE "menu"
    BY <1>3, <2>1 DEF Owned, Go
  <2>4. ScreensInvariant' /\ DialogInvariant' /\ WindowsInvariant' /\ BackgroundInvariant'
    BY <1>1, <1>2, <2>1, <2>2, <2>3, OverlayReframed
  <2> QED
    BY <1>1, <1>2, <2>4 DEF SessionInvariant
<1>4. CASE ~Owned /\ RecenterFits(scr) /\ memory
  <2>1. at' = "menu" /\ UNCHANGED <<stackVars, screens, windows>>
    BY <1>4 DEF MenuResize, Go
  <2>2. ScreensInvariant' /\ DialogInvariant' /\ WindowsInvariant' /\ BackgroundInvariant'
    BY <1>1, <1>2, <2>1, MenuGoesOn
  <2> QED
    BY <1>1, <1>2, <2>2 DEF SessionInvariant
<1>5. CASE ~Owned /\ ~(RecenterFits(scr) /\ memory)
  <2>1. LeaveMenu("TOO_SMALL")
    BY <1>5 DEF MenuResize
  <2>2. ScreensInvariant' /\ DialogInvariant' /\ WindowsInvariant' /\ BackgroundInvariant'
    BY <1>1, <1>2, <2>1, MenuLeft
  <2> QED
    BY <1>1, <1>2, <2>2 DEF SessionInvariant
<1> QED
  BY <1>3, <1>4, <1>5

\* A dialog over the menus opens its window.
LEMMA DialogOpened ==
  ASSUME SessionInvariant, TerminalInvariant', at \in {"open_dialog", "returned"},
         at' \in {"dialog", "progress"}, UNCHANGED <<stackVars, screens>>,
         NEW w \in Windows, w \notin windows, \A i \in DOMAIN screens : w # screens[i].frame,
         windows' = windows \cup {w}, dialog' \in Dialogs, dialog'.win \in {w},
         dialog'.purpose = "confirm" => dialog.purpose = "confirm"
  PROVE  ScreensInvariant' /\ DialogInvariant' /\ WindowsInvariant' /\ BackgroundInvariant'
<1>1. w # NoWindow
  OBVIOUS
<1>2. dialog.win = NoWindow
  BY DEF SessionInvariant, DialogInvariant, DialogPlaces
<1>3. DialogInvariant'
  BY <1>1 DEF DialogInvariant, DialogPlaces
<1>4. ScreensInvariant' /\ BackgroundInvariant'
  <2>1. dialog'.purpose = "confirm" => Len(screens) = 1
    BY DEF SessionInvariant, ScreensInvariant
  <2> QED
    BY <1>3, <2>1, ScreensKept DEF BootPlaces, EndPlaces
<1>5. WindowsInvariant'
  BY <1>1, <1>2 DEF SessionInvariant, WindowsInvariant, Frames
<1> QED
  BY <1>3, <1>4, <1>5

\* A dialog destroys its window.
LEMMA DialogClosed ==
  ASSUME SessionInvariant, TerminalInvariant', at \in {"dialog", "dialog_getch", "progress"},
         at' \in {"enter", "leave", "open_dialog"}, UNCHANGED <<stackVars, screens>>,
         windows' = windows \ {dialog.win}, dialog' \in Dialogs, dialog'.win \in {NoWindow},
         at' # "open_dialog" => dialog' = NoDialog,
         at' = "leave" \/ dialog'.purpose = "confirm" => dialog.purpose = "confirm"
  PROVE  ScreensInvariant' /\ DialogInvariant' /\ WindowsInvariant' /\ BackgroundInvariant'
<1>1. DialogInvariant'
  BY DEF DialogInvariant, DialogPlaces
<1>2. ScreensInvariant' /\ BackgroundInvariant'
  <2>1. at' = "leave" \/ dialog'.purpose = "confirm" => Len(screens) = 1
    BY DEF SessionInvariant, ScreensInvariant
  <2> QED
    BY <1>1, <2>1, ScreensKept DEF BootPlaces, EndPlaces
<1>3. WindowsInvariant'
  <2>1. \A i \in DOMAIN screens : dialog.win # NoWindow => dialog.win # screens[i].frame
    BY DEF SessionInvariant, DialogInvariant
  <2>2. Frames' = Frames
    BY DEF Frames
  <2>3. (Frames \cup {dialog.win}) \ {NoWindow, dialog.win} = Frames \ {NoWindow}
    BY <2>1 DEF Frames
  <2> QED
    BY <2>2, <2>3 DEF SessionInvariant, WindowsInvariant
<1> QED
  BY <1>1, <1>2, <1>3

\* The dialog's answer decides what comes next.
LEMMA DialogAnswered ==
  ASSUME SessionInvariant, TerminalInvariant', at \in {"dialog", "dialog_getch"},
         NEW yes \in BOOLEAN, CloseDialog(yes), UNCHANGED <<stackVars, screens>>
  PROVE  ScreensInvariant' /\ DialogInvariant' /\ WindowsInvariant' /\ BackgroundInvariant'
<1>1. CASE dialog.purpose = "input" /\ yes
  <2>1. /\ at' = "open_dialog" /\ dialog' = [purpose |-> "message", win |-> NoWindow]
        /\ windows' = windows \ {dialog.win}
    BY <1>1 DEF CloseDialog, AfterDialog, OpenDialog, Go
  <2>2. dialog' \in Dialogs /\ dialog'.win \in {NoWindow} /\ dialog'.purpose # "confirm"
    BY <2>1 DEF Dialogs
  <2> QED
    BY <2>1, <2>2, DialogClosed
<1>2. CASE ~(dialog.purpose = "input" /\ yes)
  <2>1. /\ at' = IF dialog.purpose = "confirm" /\ yes THEN "leave" ELSE "enter"
        /\ dialog' = NoDialog /\ windows' = windows \ {dialog.win}
    BY <1>2 DEF CloseDialog, AfterDialog, Go
  <2>2. dialog' \in Dialogs /\ dialog'.win \in {NoWindow} /\ dialog'.purpose # "confirm"
    BY <2>1 DEF Dialogs, NoDialog
  <2>3. /\ at' \in {"enter", "leave", "open_dialog"}
        /\ at' # "open_dialog" => dialog' = NoDialog
        /\ at' = "leave" \/ dialog'.purpose = "confirm" => dialog.purpose = "confirm"
    BY <2>1, <2>2
  <2> QED
    BY <2>1, <2>2, <2>3, DialogClosed
<1> QED
  BY <1>1, <1>2

\* tui_modal_open creates the dialog's window, or the dialog is given up.
LEMMA DialogOpenPreserves == SessionInvariant /\ DialogOpen => SessionInvariant'
<1> SUFFICES ASSUME SessionInvariant, DialogOpen PROVE SessionInvariant'
  OBVIOUS
<1>1. TerminalInvariant'
  BY TerminalPreserved DEF Next, Program
<1>2. at = "open_dialog" /\ UNCHANGED <<stackVars, screens, screen>>
  BY DEF DialogOpen
<1>3. dialog \in Dialogs /\ dialog.win = NoWindow
  BY <1>2 DEF SessionInvariant, DialogInvariant, DialogPlaces
<1>4. PICK w \in Allocate(ModalFits) :
        IF w = NoWindow THEN AfterDialog(FALSE) /\ UNCHANGED windows
        ELSE /\ windows' = windows \cup {w}
             /\ dialog' = [dialog EXCEPT !.win = w]
             /\ Go("dialog")
  BY DEF DialogOpen
<1>5. CASE w = NoWindow
  <2>1. at' = "enter" /\ dialog' = NoDialog /\ UNCHANGED windows
    BY <1>4, <1>5 DEF AfterDialog, Go
  <2>2. DialogInvariant'
    BY <2>1 DEF DialogInvariant, DialogPlaces, NoDialog, Dialogs
  <2>3. ScreensInvariant' /\ WindowsInvariant' /\ BackgroundInvariant'
    BY <1>1, <1>2, <1>3, <2>1, <2>2, StepAside DEF BootPlaces, EndPlaces, NoDialog
  <2> QED
    BY <1>1, <1>2, <2>2, <2>3 DEF SessionInvariant
<1>6. CASE w # NoWindow
  <2>1. at' = "dialog" /\ windows' = windows \cup {w} /\ dialog' = [dialog EXCEPT !.win = w]
    BY <1>4, <1>6 DEF Go
  <2>2. w \in Windows /\ w \notin windows /\ \A i \in DOMAIN screens : w # screens[i].frame
    BY <1>6, FreshWindow
  <2>3. /\ dialog' \in Dialogs /\ dialog'.win \in {w}
        /\ dialog'.purpose = "confirm" => dialog.purpose = "confirm"
    BY <1>3, <2>1, <2>2 DEF Dialogs
  <2>4. ScreensInvariant' /\ DialogInvariant' /\ WindowsInvariant' /\ BackgroundInvariant'
    BY <1>1, <1>2, <2>1, <2>2, <2>3, DialogOpened
  <2> QED
    BY <1>1, <1>2, <2>4 DEF SessionInvariant
<1> QED
  BY <1>5, <1>6

\* The loop of tui_modal_run goes on or ends the dialog.
LEMMA DialogPreserves ==
  ASSUME SessionInvariant, DialogLoop \/ DialogKey
  PROVE  SessionInvariant'
<1>1. TerminalInvariant'
  BY TerminalPreserved DEF Next, Program, User
<1>2. at \in {"dialog", "dialog_getch"} /\ UNCHANGED <<stackVars, screens, screen>>
  BY DEF DialogLoop, DialogKey
<1>3. ASSUME NEW yes \in BOOLEAN, CloseDialog(yes) PROVE SessionInvariant'
  BY <1>1, <1>2, <1>3, DialogAnswered DEF SessionInvariant
<1>4. ASSUME at' \in {"dialog", "dialog_getch"}, UNCHANGED <<windows, dialog>>
      PROVE  SessionInvariant'
  <2>1. DialogInvariant'
    BY <1>2, <1>4 DEF SessionInvariant, DialogInvariant, DialogPlaces
  <2>2. dialog.purpose = "confirm" => Len(screens) = 1
    BY DEF SessionInvariant, ScreensInvariant
  <2>3. ScreensInvariant' /\ WindowsInvariant' /\ BackgroundInvariant'
    BY <1>1, <1>2, <1>4, <2>1, <2>2, StepAside DEF BootPlaces, EndPlaces
  <2> QED
    BY <1>1, <1>2, <2>1, <2>3 DEF SessionInvariant
<1> QED
  BY <1>3, <1>4 DEF DialogLoop, DialogKey, Go

\* A resized dialog and the finished progress example destroy their window and
\* open another one.
LEMMA DialogResizePreserves ==
  ASSUME SessionInvariant,
         (\E scr \in Screens : DialogResize(scr)) \/ ProgressEnd
  PROVE  SessionInvariant'
<1>1. TerminalInvariant'
  BY TerminalPreserved DEF Next, Program
<1>2. /\ at \in {"dialog", "dialog_getch", "progress"} /\ at' = "open_dialog"
      /\ UNCHANGED <<stackVars, screens>> /\ screen' \in Screens
      /\ windows' = windows \ {dialog.win}
      /\ \E p \in {"none", "message", "input", "confirm", "progress"} :
           /\ dialog' = [purpose |-> p, win |-> NoWindow]
           /\ p = "confirm" => dialog.purpose = "confirm"
  BY DEF DialogResize, ProgressEnd, OpenDialog, Go, SessionInvariant, DialogInvariant, Dialogs
<1>3. /\ dialog' \in Dialogs /\ dialog'.win \in {NoWindow}
      /\ dialog'.purpose = "confirm" => dialog.purpose = "confirm"
  BY <1>2 DEF Dialogs
<1>4. ScreensInvariant' /\ DialogInvariant' /\ WindowsInvariant' /\ BackgroundInvariant'
  BY <1>1, <1>2, <1>3, DialogClosed
<1> QED
  BY <1>1, <1>2, <1>4 DEF SessionInvariant

\* A menu has returned and a dialog is to come.
LEMMA DialogAsked ==
  ASSUME SessionInvariant, TerminalInvariant', at = "returned",
         NEW p \in {"message", "input", "confirm"}, p = "confirm" => Top.name = "main",
         OpenDialog(p), UNCHANGED <<stackVars, screens, windows>>
  PROVE  ScreensInvariant' /\ DialogInvariant' /\ WindowsInvariant' /\ BackgroundInvariant'
<1>1. at' = "open_dialog" /\ dialog' = [purpose |-> p, win |-> NoWindow]
  BY DEF OpenDialog, Go
<1>2. dialog.win = NoWindow
  BY DEF SessionInvariant, DialogInvariant, DialogPlaces
<1>3. DialogInvariant'
  BY <1>1 DEF DialogInvariant, DialogPlaces, Dialogs
<1>4. p = "confirm" => Len(screens) = 1
  BY OpenScreens DEF SessionInvariant, BootPlaces, EndPlaces
<1>5. dialog'.win = dialog.win /\ (dialog'.purpose = "confirm" => p = "confirm")
  BY <1>1, <1>2
<1> QED
  BY <1>1, <1>3, <1>4, <1>5, StepAside DEF BootPlaces, EndPlaces

\* The main menu opens another screen, or a dialog in its place.
LEMMA SubmenuOpened ==
  ASSUME SessionInvariant, TerminalInvariant', at = "returned", Top.name = "main",
         NEW name \in {"config", "commands"},
         OpenScreen(name, OpenDialog("message") /\ UNCHANGED err)
  PROVE  ScreensInvariant' /\ DialogInvariant' /\ WindowsInvariant' /\ BackgroundInvariant'
<1>1. PICK w \in Allocate(CenteredFits) :
        IF w = NoWindow
        THEN OpenDialog("message") /\ UNCHANGED <<stackVars, screens, windows>>
        ELSE /\ windows' = windows \cup {w} /\ Push(w)
             /\ screens' = Append(screens, [name |-> name, frame |-> w, pushed |-> FALSE])
             /\ Go("enter") /\ UNCHANGED dialog
  BY DEF OpenScreen
<1>2. CASE w = NoWindow
  BY <1>1, <1>2, DialogAsked
<1>3. CASE w # NoWindow
  <2>1. /\ at' = "enter" /\ windows' = windows \cup {w} /\ Push(w) /\ UNCHANGED dialog
        /\ screens' = Append(screens, [name |-> name, frame |-> w, pushed |-> FALSE])
    BY <1>1, <1>3 DEF Go
  <2>2. /\ w \in Windows /\ w \notin windows /\ w # dialog.win
        /\ \A i \in DOMAIN screens : w # screens[i].frame
    BY <1>3, FreshWindow
  <2>3. screens # <<>> /\ name # "main"
    BY OpenScreens DEF SessionInvariant, BootPlaces, EndPlaces
  <2> QED
    BY <2>1, <2>2, <2>3, ScreenOpened
<1> QED
  BY <1>2, <1>3

\* The main menu starts the progress example.
LEMMA ProgressStarted ==
  ASSUME SessionInvariant, TerminalInvariant', at = "returned", ProgressStart,
         UNCHANGED <<stackVars, screens>>
  PROVE  ScreensInvariant' /\ DialogInvariant' /\ WindowsInvariant' /\ BackgroundInvariant'
<1>1. PICK w \in Allocate(ProgressFits /\ CenteredFits) :
        IF w = NoWindow THEN OpenDialog("message") /\ UNCHANGED windows
        ELSE /\ windows' = windows \cup {w}
             /\ dialog' = [purpose |-> "progress", win |-> w]
             /\ Go("progress")
  BY DEF ProgressStart
<1>2. CASE w = NoWindow
  BY <1>1, <1>2, DialogAsked
<1>3. CASE w # NoWindow
  <2>1. /\ at' = "progress" /\ windows' = windows \cup {w}
        /\ dialog' = [purpose |-> "progress", win |-> w]
    BY <1>1, <1>3 DEF Go
  <2>2. w \in Windows /\ w \notin windows /\ \A i \in DOMAIN screens : w # screens[i].frame
    BY <1>3, FreshWindow
  <2>3. dialog' \in Dialogs /\ dialog'.win \in {w} /\ dialog'.purpose # "confirm"
    BY <2>1, <2>2 DEF Dialogs
  <2> QED
    BY <2>1, <2>2, <2>3, DialogOpened
<1> QED
  BY <1>2, <1>3

\* The application leaves with an error.
LEMMA AppQuits ==
  ASSUME SessionInvariant, TerminalInvariant', at = "returned", Top.name = "main",
         at' = "leave", UNCHANGED <<stackVars, screens, windows, dialog>>
  PROVE  ScreensInvariant' /\ DialogInvariant' /\ WindowsInvariant' /\ BackgroundInvariant'
<1>1. dialog = NoDialog /\ dialog.purpose # "confirm"
  BY NoDialogOutside DEF SessionInvariant, DialogPlaces
<1>2. DialogInvariant'
  BY <1>1 DEF SessionInvariant, DialogInvariant, NoDialog, DialogPlaces
<1>3. Len(screens) = 1
  BY OpenScreens DEF SessionInvariant, BootPlaces, EndPlaces
<1> QED
  BY <1>1, <1>2, <1>3, StepAside DEF BootPlaces, EndPlaces

\* app_dispatch follows the main menu's status.
LEMMA MainReturnedPreserves == SessionInvariant /\ MainReturned => SessionInvariant'
<1> SUFFICES ASSUME SessionInvariant, MainReturned PROVE SessionInvariant'
  OBVIOUS
<1>1. TerminalInvariant'
  BY TerminalPreserved DEF Next, Program
<1>2. at = "returned" /\ Top.name = "main" /\ UNCHANGED screen
  BY DEF MainReturned, Returned
<1>3. ScreensInvariant' /\ DialogInvariant' /\ WindowsInvariant' /\ BackgroundInvariant'
  <2>1. CASE status = "OK"
    <3>1. \/ \E p \in {"confirm", "message", "input"} :
                OpenDialog(p) /\ UNCHANGED <<stackVars, screens, windows>>
          \/ ProgressStart /\ UNCHANGED <<stackVars, screens>>
          \/ \E name \in {"config", "commands"} :
                OpenScreen(name, OpenDialog("message") /\ UNCHANGED err)
      BY <2>1 DEF MainReturned
    <3> QED
      BY <1>1, <1>2, <3>1, DialogAsked, ProgressStarted, SubmenuOpened
  <2>2. CASE status = "CANCELLED"
    <3>1. OpenDialog("confirm") /\ UNCHANGED <<stackVars, screens, windows>>
      BY <2>2 DEF MainReturned
    <3> QED
      BY <1>1, <1>2, <3>1, DialogAsked
  <2>3. CASE status = "MENU"
    <3>1. /\ at' = "enter" /\ UNCHANGED <<stackVars, windows, dialog>>
          /\ screens' = Append(screens, [name |-> "overlay", frame |-> NoWindow,
                                         pushed |-> FALSE])
      BY <2>3 DEF MainReturned, Go
    <3> QED
      BY <1>1, <1>2, <3>1, OverlayAppended
  <2>4. CASE status \in {"INTERRUPTED", "TOO_SMALL", "NO_MEMORY"}
    <3>1. at' = "leave" /\ UNCHANGED <<stackVars, screens, windows, dialog>>
      BY <2>4 DEF MainReturned, Quit, Go
    <3> QED
      BY <1>1, <1>2, <3>1, AppQuits
  <2> QED
    BY <1>2, <2>1, <2>2, <2>3, <2>4 DEF SessionInvariant, TerminalInvariant
<1> QED
  BY <1>1, <1>2, <1>3 DEF SessionInvariant

\* app_show_config_menu and app_show_commands close or show a message.
LEMMA SubmenuReturnedPreserves == SessionInvariant /\ SubmenuReturned => SessionInvariant'
<1> SUFFICES ASSUME SessionInvariant, SubmenuReturned PROVE SessionInvariant'
  OBVIOUS
<1>1. TerminalInvariant'
  BY TerminalPreserved DEF Next, Program
<1>2. /\ at = "returned" /\ Top.name \notin {"main", "overlay"} /\ UNCHANGED screen
      /\ Len(screens) = 2
  <2>1. at = "returned" /\ Top.name \notin {"main", "overlay"} /\ UNCHANGED screen
    BY DEF SubmenuReturned, Returned
  <2> QED
    BY <2>1, OpenScreens DEF SessionInvariant, BootPlaces, EndPlaces
<1>3. CASE CloseScreen("enter") /\ UNCHANGED dialog
  <2>1. /\ Pop /\ windows' = windows \ {Top.frame} /\ screens' = Front(screens)
        /\ at' = "enter" /\ UNCHANGED dialog
    BY <1>3 DEF CloseScreen, Go
  <2> QED
    BY <1>1, <1>2, <2>1, ScreenClosed DEF SessionInvariant
<1>4. CASE OpenDialog("message") /\ UNCHANGED <<stackVars, screens, windows>>
  BY <1>1, <1>2, <1>4, DialogAsked DEF SessionInvariant
<1> QED
  BY <1>3, <1>4 DEF SubmenuReturned

\* app_show_menu_overlay closes, asks or shows a message.
LEMMA OverlayReturnedPreserves == SessionInvariant /\ OverlayReturned => SessionInvariant'
<1> SUFFICES ASSUME SessionInvariant, OverlayReturned PROVE SessionInvariant'
  OBVIOUS
<1>1. TerminalInvariant'
  BY TerminalPreserved DEF Next, Program
<1>2. /\ at = "returned" /\ Top.name = "overlay"
      /\ UNCHANGED <<stackVars, windows, screen>>
  BY DEF OverlayReturned, Returned
<1>3. dialog = NoDialog
  BY <1>2, NoDialogOutside DEF SessionInvariant, DialogPlaces
<1>4. CASE Go("enter") /\ screens' = Front(screens) /\ UNCHANGED dialog
  <2>1. at' = "enter"
    BY <1>4 DEF Go
  <2>2. DialogInvariant'
    BY <1>3, <1>4, <2>1 DEF DialogInvariant, DialogPlaces, NoDialog, Dialogs
  <2> QED
    BY <1>1, <1>2, <1>4, <2>1, <2>2, OverlayClosed DEF SessionInvariant
<1>5. CASE OpenDialog("confirm") /\ screens' = Front(screens)
  <2>1. at' = "open_dialog" /\ dialog' = [purpose |-> "confirm", win |-> NoWindow]
    BY <1>5 DEF OpenDialog, Go
  <2>2. DialogInvariant'
    BY <2>1 DEF DialogInvariant, DialogPlaces, Dialogs
  <2> QED
    BY <1>1, <1>2, <1>5, <2>1, <2>2, OverlayClosed DEF SessionInvariant
<1>6. CASE OpenDialog("message") /\ UNCHANGED screens
  BY <1>1, <1>2, <1>6, DialogAsked DEF SessionInvariant
<1> QED
  BY <1>4, <1>5, <1>6 DEF OverlayReturned

\* tui_run_app closes the main menu.
LEMMA LeavePreserves ==
  ASSUME SessionInvariant, LeaveApp
  PROVE  SessionInvariant'
<1>1. TerminalInvariant'
  BY TerminalPreserved DEF Next, Program
<1>2. UNCHANGED <<dialog, screen>>
  BY DEF LeaveApp
<1>3. /\ at = "leave" /\ at' = "cleanup" /\ Pop
      /\ windows' = windows \ {Top.frame} /\ screens' = Front(screens)
  BY DEF LeaveApp, CloseScreen, Go
<1>4. Top.name # "overlay"
  BY <1>3, OpenScreens DEF SessionInvariant, ScreensInvariant, BootPlaces, EndPlaces
<1>5. ScreensInvariant' /\ DialogInvariant' /\ WindowsInvariant' /\ BackgroundInvariant'
  BY <1>1, <1>2, <1>3, <1>4, ScreenClosed
<1> QED
  BY <1>1, <1>2, <1>5 DEF SessionInvariant

\* A signal is remembered; without the handler for it, it kills the process, and then
\* no screen is open.
LEMMA SignalPreserves ==
  ASSUME SessionInvariant, NEW s \in {"INT", "TERM"}, Signal(s)
  PROVE  SessionInvariant'
<1>1. TerminalInvariant'
  BY TerminalPreserved DEF Next
<1>2. UNCHANGED <<stackVars, screens, windows, dialog, screen>>
  BY DEF Signal
<1>3. CASE at' = at
  BY <1>1, <1>2, <1>3
     DEF SessionInvariant, ScreensInvariant, DialogInvariant, WindowsInvariant,
         BackgroundInvariant, Frames, Depth, Top, Last, stackVars
<1>4. CASE at \in BootPlaces \cup EndPlaces /\ at' = "killed"
  <2>1. dialog = NoDialog
    BY <1>4, NoDialogOutside DEF SessionInvariant, BootPlaces, EndPlaces, DialogPlaces
  <2>2. DialogInvariant'
    BY <1>2, <1>4, <2>1 DEF SessionInvariant, DialogInvariant, BootPlaces, EndPlaces,
                                DialogPlaces
  <2>3. ScreensInvariant' /\ WindowsInvariant' /\ BackgroundInvariant'
    BY <1>1, <1>2, <1>4, <2>1, <2>2, StepAside DEF BootPlaces, EndPlaces, NoDialog
  <2> QED
    BY <1>1, <1>2, <2>2, <2>3 DEF SessionInvariant
<1> QED
  BY <1>3, <1>4 DEF Signal, Go, SessionInvariant, TerminalInvariant, BootPlaces, EndPlaces

\* The run starts with nothing held.
LEMMA InitInvariant == Init => SessionInvariant
<1> SUFFICES ASSUME Init PROVE SessionInvariant
  OBVIOUS
<1>1. screens = <<>> /\ Len(screens) = 0 /\ DOMAIN screens = {} /\ screens \in Seq(MenuScreens)
  BY EmptySeq DEF Init
<1>2. TerminalInvariant
  BY DEF Init, TerminalInvariant, BootPlaces, MenuPlaces, DialogPlaces, EndPlaces
<1>3. DialogInvariant
  BY <1>1 DEF Init, DialogInvariant, NoDialog, Dialogs, DialogPlaces
<1>4. ScreensInvariant
  BY <1>1 DEF Init, ScreensInvariant, NoDialog, BootPlaces, EndPlaces
<1>5. WindowsInvariant
  BY <1>1 DEF Init, WindowsInvariant, Frames, NoDialog
<1>6. BackgroundInvariant
  BY <1>1 DEF Init, StackInit, BackgroundInvariant, Depth
<1> QED
  BY <1>2, <1>3, <1>4, <1>5, <1>6 DEF Init, SessionInvariant

\* Every step of the run keeps the invariant.
LEMMA StepPreserves == SessionInvariant /\ [Next]_sessionVars => SessionInvariant'
<1> SUFFICES ASSUME SessionInvariant, [Next]_sessionVars PROVE SessionInvariant'
  OBVIOUS
<1>1. CASE UNCHANGED sessionVars
  BY <1>1 DEF sessionVars, stackVars, terminalVars, signalVars, SessionInvariant,
       TerminalInvariant, ScreensInvariant, DialogInvariant, WindowsInvariant,
       BackgroundInvariant, Frames, Depth, Top, Last
<1>2. CASE Next
  BY <1>2, LifecyclePreserves, OpenMainPreserves, EnterMenuPreserves, MenuPreserves,
     MenuResizePreserves, DialogOpenPreserves, DialogPreserves, DialogResizePreserves,
     MainReturnedPreserves, SubmenuReturnedPreserves, OverlayReturnedPreserves,
     LeavePreserves, SignalPreserves DEF Next, Program, User, Lifecycle
<1> QED
  BY <1>1, <1>2

\* The places where the terminal, the handlers, the frames, the windows and the
\* background stack are held are always those of SessionInvariant.
THEOREM InvariantHolds == Spec => []SessionInvariant
  BY InitInvariant, StepPreserves, PTL DEF Spec

-----------------------------------------------------------------------------
(* What follows *)

\* The menus in the background are open screens, all but an abandoned overlay with
\* a window.
LEMMA DepthFacts ==
  ASSUME SessionInvariant
  PROVE  /\ Depth \in {0, 1, 2} /\ Depth <= Len(screens) /\ DOMAIN screens = 1 .. Len(screens)
         /\ \A i \in 1 .. Depth : i \in DOMAIN screens
<1>1. Len(screens) \in {0, 1, 2} /\ DOMAIN screens = 1 .. Len(screens)
      /\ ((Len(screens) = 0) <=> (screens = <<>>))
  BY ScreensFacts DEF SessionInvariant
<1> QED
  BY <1>1 DEF Depth

\* The variables keep their types; the array behind the background never exceeds its
\* capacity.
THEOREM TypeCorrect == Spec => []SessionTypeOK
<1>1. SessionInvariant => SessionTypeOK
  <2> SUFFICES ASSUME SessionInvariant PROVE SessionTypeOK
    OBVIOUS
  <2>1. /\ screens \in Seq(MenuScreens) /\ dialog \in Dialogs /\ screen \in Screens
        /\ curses \in BOOLEAN /\ initialized \in BOOLEAN /\ handlers \subseteq {"INT", "TERM"}
        /\ interrupted \in {"none", "INT", "TERM"} /\ recorded \subseteq {"INT", "TERM"}
    BY DEF SessionInvariant, TerminalInvariant, ScreensInvariant, DialogInvariant
  <2>2. \A i \in DOMAIN screens : screens[i].frame \in Windows \cup {NoWindow}
    BY ScreensFacts DEF SessionInvariant, MenuScreens
  <2>3. windows \subseteq Windows
    BY <2>1, <2>2 DEF SessionInvariant, WindowsInvariant, Frames, Dialogs
  <2>4. /\ background_win \in Windows \cup {NoWindow}
        /\ background_stack \in Seq(Windows \cup {NoWindow})
        /\ Len(background_stack) <= Cap
    <3>1. CASE Depth = 0
      BY <3>1 DEF SessionInvariant, BackgroundInvariant
    <3>2. CASE Depth = 1
      <4>1. screens[1].frame \in Windows \cup {NoWindow}
        BY <2>2, <3>2, DepthFacts
      <4>2. /\ background_win = screens[1].frame /\ Len(background_stack) <= Cap
            /\ background_stack \in {<<>>, <<NoWindow>>}
        BY <3>2 DEF SessionInvariant, BackgroundInvariant
      <4>3. <<>> \in Seq(Windows \cup {NoWindow}) /\ <<NoWindow>> \in Seq(Windows \cup {NoWindow})
        OBVIOUS
      <4> QED
        BY <4>1, <4>2, <4>3
    <3>3. CASE Depth = 2
      <4>1. /\ screens[1].frame \in Windows \cup {NoWindow}
            /\ screens[2].frame \in Windows \cup {NoWindow}
        BY <2>2, <3>3, DepthFacts
      <4>2. \A f \in Windows \cup {NoWindow} :
              <<f>> \in Seq(Windows \cup {NoWindow})
              /\ <<NoWindow, f>> \in Seq(Windows \cup {NoWindow})
        OBVIOUS
      <4> QED
        BY <3>3, <4>1, <4>2 DEF SessionInvariant, BackgroundInvariant
    <3> QED
      BY <3>1, <3>2, <3>3, DepthFacts
  <2> QED
    BY <2>1, <2>3, <2>4 DEF SessionTypeOK
<1> QED
  BY <1>1, InvariantHolds, PTL

\* The frames in the background are those of open screens, but for the overlay
\* that has lost its frame.
LEMMA BackgroundFacts ==
  ASSUME SessionInvariant
  PROVE  \/ Depth = 0 /\ background_win = NoWindow /\ background_stack = <<>>
         \/ Depth = 1 /\ background_win = screens[1].frame /\ background_stack = <<>>
         \/ Depth = 1 /\ background_win = screens[1].frame /\ background_stack = <<NoWindow>>
         \/ Depth = 2 /\ background_win = screens[2].frame
                      /\ background_stack = <<screens[1].frame>>
         \/ Depth = 2 /\ background_win = screens[2].frame
                      /\ background_stack = <<NoWindow, screens[1].frame>>
  BY DepthFacts DEF SessionInvariant, BackgroundInvariant

\* No destroyed window is ever repainted by a dialog that closes.
THEOREM BackgroundsAlwaysLive == Spec => []BackgroundsLive
<1>1. SessionInvariant => BackgroundsLive
  <2> SUFFICES ASSUME SessionInvariant PROVE BackgroundsLive
    OBVIOUS
  <2>1. \A i \in 1 .. Depth : screens[i].frame \in windows \cup {NoWindow}
    BY DepthFacts DEF SessionInvariant, WindowsInvariant, Frames
  <2>2. \A f : /\ {background_stack[i] : i \in DOMAIN background_stack} = Range(background_stack)
               /\ background_stack = <<>> => Range(background_stack) = {}
               /\ background_stack = <<f>> => Range(background_stack) = {f}
               /\ background_stack = <<NoWindow, f>> => Range(background_stack) = {NoWindow, f}
    BY DEF Range
  <2>3. CASE Depth = 0
    BY <2>2, <2>3, BackgroundFacts DEF BackgroundsLive, Backgrounds
  <2>4. CASE Depth = 1
    BY <2>1, <2>2, <2>4, BackgroundFacts DEF BackgroundsLive, Backgrounds
  <2>5. CASE Depth = 2
    BY <2>1, <2>2, <2>5, BackgroundFacts DEF BackgroundsLive, Backgrounds
  <2> QED
    BY <2>3, <2>4, <2>5, DepthFacts
<1> QED
  BY <1>1, InvariantHolds, PTL

\* A closing dialog uncovers the innermost open menu, closing that one the menu it
\* was opened from, and so on, with an array of any capacity.
THEOREM BackgroundAlwaysInnermost == Spec => []BackgroundIsInnermostMenu
<1>1. SessionInvariant => BackgroundIsInnermostMenu
  <2> SUFFICES ASSUME SessionInvariant, NEW k \in 0 .. Depth + Len(background_stack)
               PROVE  Behind(k) = IF k < Depth THEN screens[Depth - k].frame ELSE NoWindow
    BY DEF BackgroundIsInnermostMenu
  <2>1. CASE Depth = 0 /\ background_win = NoWindow /\ background_stack = <<>>
    BY <2>1 DEF Behind
  <2>2. CASE Depth = 1 /\ background_win = screens[1].frame /\ background_stack = <<>>
    BY <2>2 DEF Behind
  <2>3. CASE Depth = 1 /\ background_win = screens[1].frame /\ background_stack = <<NoWindow>>
    BY <2>3 DEF Behind
  <2>4. CASE Depth = 2 /\ background_win = screens[2].frame
                       /\ background_stack = <<screens[1].frame>>
    BY <2>4 DEF Behind
  <2>5. CASE Depth = 2 /\ background_win = screens[2].frame
                       /\ background_stack = <<NoWindow, screens[1].frame>>
    BY <2>5 DEF Behind
  <2> QED
    BY <2>1, <2>2, <2>3, <2>4, <2>5, BackgroundFacts
<1> QED
  BY <1>1, InvariantHolds, PTL

\* However tui_run_app ends, everything it took is given back.
THEOREM AlwaysEndsClean == Spec => []EndsClean
<1>1. SessionInvariant => EndsClean
  <2> SUFFICES ASSUME SessionInvariant, at = "ended" PROVE EndsClean
    BY DEF EndsClean
  <2>1. /\ ~curses /\ ~initialized /\ handlers = {}
        /\ interrupted # "none" => interrupted = "INT" /\ err = "SIGNAL"
    BY DEF SessionInvariant, TerminalInvariant
  <2>2. screens = <<>> /\ dialog.win = NoWindow
    BY NoDialogOutside DEF SessionInvariant, ScreensInvariant, EndPlaces, DialogPlaces
  <2>3. windows = {}
    BY <2>2 DEF SessionInvariant, WindowsInvariant, Frames
  <2>4. background_win = NoWindow /\ background_stack = <<>>
    BY <2>2 DEF SessionInvariant, BackgroundInvariant, Depth
  <2> QED
    BY <2>1, <2>3, <2>4 DEF EndsClean
<1> QED
  BY <1>1, InvariantHolds, PTL

\* A step that leaves the application has the answer or the signal that its status
\* names.
LEMMA LeavingIsEarned ==
  ASSUME SessionInvariant, [Next]_sessionVars, at # "leave", at' = "leave"
  PROVE  /\ err' = "SUCCESS" => at = "dialog_getch" /\ dialog.purpose = "confirm"
         /\ err' = "INTERRUPTED" => "INT" \in recorded
         /\ err' = "TERMINATED" => "TERM" \in recorded
<1> DEFINE Earned ==
      /\ err' = "SUCCESS" => at = "dialog_getch" /\ dialog.purpose = "confirm"
      /\ err' = "INTERRUPTED" => "INT" \in recorded
      /\ err' = "TERMINATED" => "TERM" \in recorded
<1>1. CASE DialogKey
  <2>1. at = "dialog_getch" /\ UNCHANGED err
    BY <1>1 DEF DialogKey
  <2>2. err = "SUCCESS"
    BY <2>1 DEF SessionInvariant, TerminalInvariant, EndPlaces
  <2>3. dialog.purpose = "confirm"
    BY <1>1 DEF DialogKey, CloseDialog, AfterDialog, OpenDialog, Go
  <2> QED
    BY <2>1, <2>2, <2>3
<1>2. CASE MainReturned
  <2>1. /\ at = "returned" /\ interrupted \in recorded \cup {"none"}
        /\ recorded \subseteq {"INT", "TERM"}
        /\ status \in {"OK", "CANCELLED", "MENU", "INTERRUPTED", "TOO_SMALL", "NO_MEMORY"}
        /\ status = "INTERRUPTED" => interrupted # "none"
    BY <1>2 DEF SessionInvariant, TerminalInvariant, MainReturned, Returned
  <2>2. CASE status = "INTERRUPTED"
    <3>1. err' = IF interrupted = "TERM" THEN "TERMINATED" ELSE "INTERRUPTED"
      BY <1>2, <2>2 DEF MainReturned, Quit
    <3> QED
      BY <2>1, <2>2, <3>1
  <2>3. CASE status \in {"TOO_SMALL", "NO_MEMORY"}
    <3>1. err' \in {"OUT_OF_RANGE", "MEMORY"}
      BY <1>2, <2>3 DEF MainReturned, Quit
    <3> QED
      BY <3>1
  <2>4. CASE status \in {"OK", "CANCELLED", "MENU"}
    <3>1. at' \in {"open_dialog", "progress", "enter"}
      BY <1>2, <2>4 DEF MainReturned, OpenDialog, ProgressStart, OpenScreen, Go
    <3> QED
      BY <3>1
  <2> QED
    BY <2>1, <2>2, <2>3, <2>4
<1>3. CASE ~DialogKey /\ ~MainReturned
  <2>1. at' # "leave"
    <3>1. CASE UNCHANGED sessionVars
      BY <3>1 DEF sessionVars
    <3>2. CASE Lifecycle \/ OpenMain
      BY <3>2, LifecycleSteps DEF OpenMain, OpenScreen, Go
    <3>3. CASE \/ \E memory \in BOOLEAN : EnterMenu(memory)
               \/ \E scr \in Screens, memory \in BOOLEAN : MenuResize(scr, memory)
      BY <3>3 DEF EnterMenu, MenuResize, RecreateFrame, LeaveMenu, Returns, Go
    <3>4. CASE MenuLoop \/ MenuKey \/ AbandonMenu
      BY <3>4 DEF MenuLoop, MenuKey, AbandonMenu, LeaveMenu, Returns, Go
    <3>5. CASE DialogOpen \/ DialogLoop \/ ProgressEnd \/ \E scr \in Screens : DialogResize(scr)
      BY <3>5 DEF DialogOpen, DialogLoop, ProgressEnd, DialogResize, CloseDialog,
                  AfterDialog, OpenDialog, Go
    <3>6. CASE SubmenuReturned \/ OverlayReturned \/ LeaveApp
      BY <3>6 DEF SubmenuReturned, OverlayReturned, LeaveApp, CloseScreen, OpenDialog, Go
    <3>7. CASE \E s \in {"INT", "TERM"} : Signal(s)
      BY <3>7 DEF Signal, Go
    <3> QED
      BY <1>3, <3>1, <3>2, <3>3, <3>4, <3>5, <3>6, <3>7 DEF Next, Program, User, Lifecycle
  <2> QED
    BY <2>1
<1> QED
  BY <1>1, <1>2, <1>3

\* Success needs a "y" in the exit dialog, a signal's status needs that signal.
THEOREM ExitStatusAlwaysEarned == Spec => ExitStatusEarned
<1>1. SessionInvariant /\ [Next]_sessionVars =>
        [ (at # "leave" /\ at' = "leave") =>
            /\ err' = "SUCCESS" => at = "dialog_getch" /\ dialog.purpose = "confirm"
            /\ err' = "INTERRUPTED" => "INT" \in recorded
            /\ err' = "TERMINATED" => "TERM" \in recorded ]_sessionVars
  BY LeavingIsEarned
<1> QED
  BY <1>1, InvariantHolds, PTL DEF Spec, ExitStatusEarned

-----------------------------------------------------------------------------
(* Why a signal ends the session *)

\* A signal is remembered, or the program already leaves.
Unwinding == interrupted # "none" \/ at \in {"leave"} \cup EndPlaces

\* How far a place is from leaving its screen.  A key that was read before the
\* signal may still open one more screen or dialog: the places before that count
\* for more than a screen.
Place(p, st) ==
  IF p \in {"reset", "undo", "fail_reset"} THEN 1
  ELSE IF p \in {"uninstall_term", "fail_term"} THEN 2
  ELSE IF p \in {"uninstall", "fail"} THEN 3
  ELSE IF p = "cleanup" THEN 4
  ELSE IF p = "leave" THEN 5
  ELSE IF p = "returned" /\ st \notin {"OK", "CANCELLED", "MENU"} THEN 6
  ELSE IF p \in {"abandon", "menu"} THEN 7
  ELSE IF p = "enter" THEN 8
  ELSE IF p = "dialog" THEN 9
  ELSE IF p = "open_dialog" THEN 10
  ELSE IF p \in {"dialog_getch", "progress"} THEN 11
  ELSE IF p \in {"open", "returned"} THEN 19
  ELSE IF p \in {"getch", "setup"} THEN 20
  ELSE IF p = "install_term" THEN 21
  ELSE 0
UnwindWork == 10 * Len(screens) + Place(at, status)

Arrives == \E s \in {"INT", "TERM"} : Signal(s)
Unwinds == Unwinding' /\ UnwindWork' < UnwindWork

LEMMA UnwindIsBounded ==
  ASSUME SessionInvariant
  PROVE  /\ UnwindWork \in 0 .. 41
         /\ Unwinding => (UnwindWork = 0 <=> at \in Over)
<1>1. /\ Len(screens) \in {0, 1, 2}
      /\ at \in BootPlaces \cup MenuPlaces \cup DialogPlaces \cup EndPlaces
      /\ at \in BootPlaces \cup EndPlaces => Len(screens) = 0
      /\ at \in {"start", "curses"} => interrupted = "none"
  BY ScreensFacts DEF SessionInvariant, TerminalInvariant, ScreensInvariant
<1>2. Place(at, status) \in 0 .. 21
  BY DEF Place
<1>3. Place(at, status) = 0 => at \in {"start", "curses", "ended", "killed"}
  BY <1>1 DEF Place, BootPlaces, MenuPlaces, DialogPlaces, EndPlaces
<1>4. at \in Over => Place(at, status) = 0 /\ Len(screens) = 0
  BY <1>1 DEF Place, EndPlaces
<1>5. UnwindWork \in 0 .. 41 /\ (UnwindWork = 0 => Place(at, status) = 0)
  <2> DEFINE depth == Len(screens)
             place == Place(at, status)
  <2>1. depth \in {0, 1, 2} /\ place \in 0 .. 21
    BY <1>1, <1>2
  <2>2. UnwindWork = 10 * depth + place
    BY DEF UnwindWork
  <2> HIDE DEF depth, place
  <2>3. 10 * depth + place \in 0 .. 41 /\ (10 * depth + place = 0 => place = 0)
    BY <2>1
  <2> QED
    BY <2>2, <2>3 DEF place
<1>6. at \in Over => UnwindWork = 0
  BY <1>4 DEF UnwindWork
<1>7. Unwinding /\ UnwindWork = 0 => at \in Over
  BY <1>1, <1>3, <1>5 DEF Unwinding, EndPlaces
<1> QED
  BY <1>5, <1>6, <1>7

\* The innermost screen changes, and none comes or goes.
LEMMA SameDepth ==
  ASSUME ScreensInvariant, screens # <<>>, NEW e, screens' = [screens EXCEPT ![Len(screens)] = e]
  PROVE  Len(screens') = Len(screens)
<1>1. screens \in Seq(MenuScreens \cup {e}) /\ e \in MenuScreens \cup {e}
  BY DEF ScreensInvariant
<1>2. Len(screens) \in 1 .. Len(screens)
  BY ScreensFacts
<1> QED
  BY <1>1, <1>2, ExceptSeq

LEMMA MenuLeavesDepth ==
  ASSUME ScreensInvariant, screens # <<>>, NEW st, LeaveMenu(st)
  PROVE  at' = "returned" /\ status' = st /\ Len(screens') = Len(screens)
<1>1. \E e : screens' = [screens EXCEPT ![Len(screens)] = e]
  BY DEF LeaveMenu
<1> QED
  BY <1>1, SameDepth DEF LeaveMenu, Returns

\* A screen that opens, and one that closes.
LEMMA OpenedDepth ==
  ASSUME ScreensInvariant, NEW e, screens' = Append(screens, e)
  PROVE  Len(screens') = Len(screens) + 1
<1>1. screens \in Seq(MenuScreens \cup {e}) /\ e \in MenuScreens \cup {e}
  BY DEF ScreensInvariant
<1> QED
  BY <1>1, ScreenAppended

LEMMA ClosedDepth ==
  ASSUME ScreensInvariant, screens # <<>>, screens' = Front(screens)
  PROVE  Len(screens') = Len(screens) - 1
  BY FrontProperties DEF ScreensInvariant

\* What follows a dialog that is closed, or was never opened, in answer to a signal.
LEMMA DialogUnwinds ==
  ASSUME SessionInvariant, Unwinding, UNCHANGED <<screens, interrupted>>,
         \/ DialogOpen \/ DialogLoop \/ DialogKey \/ ProgressEnd
         \/ \E scr \in Screens : DialogResize(scr)
  PROVE  Unwinds
<1>1. Len(screens) \in Nat
  BY ScreensFacts DEF SessionInvariant
<1>2. interrupted # "none" /\ interrupted' # "none"
  BY DEF Unwinding, EndPlaces, DialogOpen, DialogLoop, DialogKey, ProgressEnd, DialogResize
<1>3. \/ at = "open_dialog" /\ at' \in {"dialog", "enter", "leave"}
      \/ at = "dialog" /\ at' \in {"enter", "leave"}
      \/ at = "dialog_getch" /\ at' \in {"dialog", "open_dialog", "enter", "leave"}
      \/ at = "progress" /\ at' = "open_dialog"
  BY <1>2 DEF DialogOpen, DialogLoop, DialogKey, ProgressEnd, DialogResize, CloseDialog,
              AfterDialog, OpenDialog, Go
<1> QED
  BY <1>1, <1>2, <1>3 DEF Unwinds, Unwinding, EndPlaces, UnwindWork, Place

LEMMA MenuUnwinds ==
  ASSUME SessionInvariant, Unwinding,
         \/ \E memory \in BOOLEAN : EnterMenu(memory)
         \/ MenuLoop \/ MenuKey \/ AbandonMenu
         \/ \E scr \in Screens, memory \in BOOLEAN : MenuResize(scr, memory)
  PROVE  Unwinds
<1>1. /\ Len(screens) \in Nat /\ ScreensInvariant
      /\ at \in {"enter", "menu", "getch", "abandon"}
  BY ScreensFacts DEF SessionInvariant, EnterMenu, MenuLoop, MenuKey, AbandonMenu, MenuResize
<1>2. screens # <<>>
  BY <1>1 DEF ScreensInvariant, BootPlaces, EndPlaces
<1>3. interrupted # "none" /\ interrupted' # "none"
  BY <1>1 DEF Unwinding, EndPlaces, EnterMenu, MenuLoop, MenuKey, AbandonMenu, MenuResize, signalVars
<1>4. ASSUME NEW memory \in BOOLEAN, EnterMenu(memory)
      PROVE  /\ at = "enter" /\ Len(screens') = Len(screens)
             /\ at' = "menu" \/ (at' = "returned" /\ status' \in {"NO_MEMORY", "TOO_SMALL"})
  <2>1. /\ at = "enter"
        /\ at' = "menu" \/ (at' = "returned" /\ status' \in {"NO_MEMORY", "TOO_SMALL"})
    BY <1>4 DEF EnterMenu, Returns, Go
  <2>2. screens' = screens \/ \E e : screens' = [screens EXCEPT ![Len(screens)] = e]
    BY <1>4 DEF EnterMenu
  <2> QED
    BY <1>1, <1>2, <2>1, <2>2, SameDepth
<1>5. CASE MenuLoop
  <2>1. at = "menu" /\ LeaveMenu("INTERRUPTED")
    BY <1>3, <1>5 DEF MenuLoop
  <2>2. at' = "returned" /\ status' = "INTERRUPTED" /\ Len(screens') = Len(screens)
    BY <1>1, <1>2, <2>1, MenuLeavesDepth
  <2>3. Place(at, status) = 7 /\ Place(at', status') = 6
    BY <2>1, <2>2 DEF Place
  <2> QED
    BY <1>1, <1>3, <2>2, <2>3 DEF Unwinds, Unwinding, EndPlaces, UnwindWork
<1>6. CASE AbandonMenu
  <2>1. at = "abandon" /\ LeaveMenu("TOO_SMALL")
    BY <1>6 DEF AbandonMenu
  <2>2. at' = "returned" /\ status' = "TOO_SMALL" /\ Len(screens') = Len(screens)
    BY <1>1, <1>2, <2>1, MenuLeavesDepth
  <2>3. Place(at, status) = 7 /\ Place(at', status') = 6
    BY <2>1, <2>2 DEF Place
  <2> QED
    BY <1>1, <1>3, <2>2, <2>3 DEF Unwinds, Unwinding, EndPlaces, UnwindWork
<1>7. CASE MenuKey \/ \E scr \in Screens, memory \in BOOLEAN : MenuResize(scr, memory)
  <2> DEFINE Stays ==
               /\ at' \in {"menu", "abandon"}
               /\ \/ UNCHANGED screens
                  \/ \E e : screens' = [screens EXCEPT ![Len(screens)] = e]
  <2>1. at = "getch" /\ (Stays \/ \E st : LeaveMenu(st))
    <3>1. CASE MenuKey
      BY <3>1 DEF MenuKey, Go
    <3>2. CASE \E scr \in Screens, memory \in BOOLEAN : MenuResize(scr, memory)
      BY <3>2 DEF MenuResize, RecreateFrame, Go
    <3> QED
      BY <1>7, <3>1, <3>2
  <2>2. Len(screens') = Len(screens) /\ at' \in {"returned", "menu", "abandon"}
    BY <1>1, <1>2, <2>1, MenuLeavesDepth, SameDepth
  <2>3. Place(at, status) = 20 /\ Place(at', status') \in 6 .. 19
    BY <2>1, <2>2 DEF Place
  <2> QED
    BY <1>1, <1>3, <2>2, <2>3 DEF Unwinds, Unwinding, EndPlaces, UnwindWork
<1>8. ASSUME NEW memory \in BOOLEAN, EnterMenu(memory) PROVE Unwinds
  <2>1. Len(screens') = Len(screens) /\ Place(at, status) = 8 /\ Place(at', status') \in 6 .. 7
    BY <1>4, <1>8 DEF Place
  <2> QED
    BY <1>1, <1>3, <2>1 DEF Unwinds, Unwinding, EndPlaces, UnwindWork
<1> QED
  BY <1>5, <1>6, <1>7, <1>8

LEMMA OpeningUnwinds ==
  ASSUME SessionInvariant, Unwinding, OpenMain
  PROVE  Unwinds
<1>1. Len(screens) \in Nat /\ ScreensInvariant /\ at = "open"
  BY ScreensFacts DEF SessionInvariant, OpenMain
<1>2. interrupted # "none"
  BY <1>1 DEF Unwinding, EndPlaces
<1>3. /\ interrupted' = interrupted
      /\ \/ at' = "cleanup" /\ UNCHANGED screens
         \/ at' = "enter" /\ \E e : screens' = Append(screens, e)
  BY DEF OpenMain, OpenScreen, Go, signalVars
<1>4. \/ at' = "cleanup" /\ Len(screens') = Len(screens)
      \/ at' = "enter" /\ Len(screens') = Len(screens) + 1
  BY <1>1, <1>3, OpenedDepth
<1> QED
  BY <1>1, <1>2, <1>3, <1>4 DEF Unwinds, Unwinding, EndPlaces, UnwindWork, Place

LEMMA CallersUnwind ==
  ASSUME SessionInvariant, Unwinding, MainReturned \/ SubmenuReturned \/ OverlayReturned
  PROVE  Unwinds
<1>1. /\ Len(screens) \in Nat /\ ScreensInvariant /\ at = "returned"
      /\ status \in {"OK", "CANCELLED", "MENU", "INTERRUPTED", "TOO_SMALL", "NO_MEMORY"}
  <2>1. at = "returned"
    BY DEF MainReturned, SubmenuReturned, OverlayReturned, Returned
  <2> QED
    BY <2>1, ScreensFacts DEF SessionInvariant, TerminalInvariant
<1>2. interrupted # "none" /\ screens # <<>>
  BY <1>1 DEF Unwinding, ScreensInvariant, BootPlaces, EndPlaces
<1>3. CASE MainReturned
  <2>1. \/ /\ status \in {"OK", "CANCELLED", "MENU"} /\ UNCHANGED interrupted
           /\ \/ at' \in {"open_dialog", "progress"} /\ UNCHANGED screens
              \/ at' = "enter" /\ \E e : screens' = Append(screens, e)
        \/ at' = "leave" /\ UNCHANGED screens
    <3>1. CASE status = "OK"
      BY <1>3, <3>1 DEF MainReturned, OpenDialog, ProgressStart, OpenScreen, Go
    <3>2. CASE status = "CANCELLED"
      BY <1>3, <3>2 DEF MainReturned, OpenDialog, Go
    <3>3. CASE status = "MENU"
      BY <1>3, <3>3 DEF MainReturned, Go
    <3>4. CASE status \in {"INTERRUPTED", "TOO_SMALL", "NO_MEMORY"}
      BY <1>3, <3>4 DEF MainReturned, Quit, Go
    <3> QED
      BY <1>1, <3>1, <3>2, <3>3, <3>4
  <2>2. \/ /\ status \in {"OK", "CANCELLED", "MENU"} /\ UNCHANGED interrupted
           /\ \/ at' \in {"open_dialog", "progress"} /\ Len(screens') = Len(screens)
              \/ at' = "enter" /\ Len(screens') = Len(screens) + 1
        \/ at' = "leave" /\ Len(screens') = Len(screens)
    BY <1>1, <2>1, OpenedDepth
  <2> QED
    BY <1>1, <1>2, <2>2 DEF Unwinds, Unwinding, EndPlaces, UnwindWork, Place
<1>4. CASE SubmenuReturned \/ OverlayReturned
  <2>1. /\ UNCHANGED interrupted
        /\ \/ at' \in {"enter", "open_dialog"} /\ screens' = Front(screens)
           \/ status = "OK" /\ at' = "open_dialog" /\ UNCHANGED screens
    BY <1>4 DEF SubmenuReturned, OverlayReturned, CloseScreen, OpenDialog, Go, signalVars
  <2>2. \/ at' \in {"enter", "open_dialog"} /\ Len(screens') = Len(screens) - 1
        \/ status = "OK" /\ at' = "open_dialog" /\ Len(screens') = Len(screens)
    BY <1>1, <1>2, <2>1, ClosedDepth
  <2> QED
    BY <1>1, <1>2, <2>1, <2>2 DEF Unwinds, Unwinding, EndPlaces, UnwindWork, Place
<1> QED
  BY <1>3, <1>4

LEMMA LeavingUnwinds ==
  ASSUME SessionInvariant, Unwinding, LeaveApp \/ Lifecycle
  PROVE  Unwinds
<1>1. Len(screens) \in Nat /\ ScreensInvariant
  BY ScreensFacts DEF SessionInvariant
<1>2. CASE LeaveApp
  <2>1. at = "leave" /\ at' = "cleanup" /\ screens' = Front(screens)
    BY <1>2 DEF LeaveApp, CloseScreen, Go
  <2>2. Len(screens') = Len(screens) - 1
    BY <1>1, <2>1, ClosedDepth DEF ScreensInvariant, BootPlaces, EndPlaces
  <2> QED
    BY <1>1, <2>1, <2>2 DEF Unwinds, Unwinding, EndPlaces, UnwindWork, Place
<1>3. CASE Lifecycle
  <2>1. at \notin {"start", "curses"}
    BY DEF Unwinding, EndPlaces, SessionInvariant, TerminalInvariant
  <2>2. at' \in EndPlaces \/ interrupted' # "none"
    <3>1. CASE at' = "ended" \/ at \in EndPlaces
      BY <1>3, <3>1, LifecycleSteps DEF EndPlaces
    <3>2. CASE at' # "ended" /\ at \notin EndPlaces
      <4>1. at # "leave"
        BY <1>3, LifecycleSteps
      <4>2. UNCHANGED interrupted
        BY <1>3, <3>2 DEF Lifecycle, OpenCurses, InstallInt, InstallTerm, SetupTerminal,
           AbandonInit, UninstallInt, UninstallTerm, EndCurses, Reset, End, EndPlaces,
           signalVars
      <4> QED
        BY <3>2, <4>1, <4>2 DEF Unwinding
    <3> QED
      BY <3>1, <3>2
  <2>3. UNCHANGED screens /\ Place(at', status') < Place(at, status)
    BY <1>3, <2>1, LifecycleSteps DEF Place
  <2>4. Place(at, status) \in Nat /\ Place(at', status') \in Nat
    BY DEF Place
  <2> QED
    BY <1>1, <2>2, <2>3, <2>4 DEF Unwinds, Unwinding, UnwindWork
<1> QED
  BY <1>2, <1>3

\* From the first signal on every step of the program, the user and the terminal
\* brings the end of the session nearer, whatever menus and dialogs are open, which
\* keys are still in the queue and how often the terminal is resized; at most 41 steps
\* are left, and further signals add none (tui_app.c's loops and tui_modal_run look at
\* tui_interrupted before they read).  With FairSpec this is why SignalEndsSession
\* holds.
THEOREM SignalAlwaysUnwinds ==
  Spec => /\ [](UnwindWork \in 0 .. 41 /\ (Unwinding => (UnwindWork = 0 <=> at \in Over)))
          /\ [][Unwinding =>
                  /\ Unwinding'
                  /\ IF Arrives THEN UnwindWork' <= UnwindWork
                                ELSE UnwindWork' < UnwindWork]_sessionVars
<1>1. ASSUME SessionInvariant, Next, Unwinding, ~Arrives
      PROVE  Unwinds
  <2>2. CASE \/ DialogOpen \/ DialogLoop \/ DialogKey \/ ProgressEnd
             \/ \E scr \in Screens : DialogResize(scr)
    <3>1. UNCHANGED <<screens, interrupted>>
      BY <2>2 DEF DialogOpen, DialogLoop, DialogKey, ProgressEnd, DialogResize, signalVars
    <3> QED
      BY <1>1, <2>2, <3>1, DialogUnwinds
  <2> QED
    BY <1>1, <2>2, OpeningUnwinds, MenuUnwinds, CallersUnwind, LeavingUnwinds
       DEF Next, Program, User, Arrives, Lifecycle
<1>2. ASSUME SessionInvariant, Unwinding, Arrives
      PROVE  Unwinding' /\ UnwindWork' <= UnwindWork
  <2>1. PICK s \in {"INT", "TERM"} : Signal(s)
    BY <1>2 DEF Arrives
  <2>2. UNCHANGED <<screens, status>> /\ Len(screens) \in Nat
    BY <1>2, <2>1, ScreensFacts DEF Signal, SessionInvariant
  <2>3. Place(at, status) \in Nat /\ Place("killed", status) = 0
    BY DEF Place
  <2>4. CASE at' = at
    BY <1>2, <2>1, <2>2, <2>3, <2>4 DEF Signal, Unwinding, UnwindWork
  <2>5. CASE at' = "killed"
    BY <2>2, <2>3, <2>5 DEF Unwinding, EndPlaces, UnwindWork
  <2> QED
    BY <2>1, <2>4, <2>5 DEF Signal, Go
<1>3. SessionInvariant /\ [Next]_sessionVars =>
        [Unwinding => /\ Unwinding'
                      /\ IF Arrives THEN UnwindWork' <= UnwindWork
                                    ELSE UnwindWork' < UnwindWork]_sessionVars
  BY <1>1, <1>2 DEF Unwinds
<1>4. SessionInvariant =>
        UnwindWork \in 0 .. 41 /\ (Unwinding => (UnwindWork = 0 <=> at \in Over))
  BY UnwindIsBounded
<1> QED
  BY <1>3, <1>4, InvariantHolds, PTL DEF Spec

-----------------------------------------------------------------------------
(* The refinement of ScreenSession *)

\* The frames that are open, by the number of screens: the innermost one may be
\* the overlay without its frame.
FramesShape ==
  \/ screens = <<>> /\ OpenFrames = <<>>
  \/ /\ screens # <<>> /\ Len(screens) = 1 /\ screens[1].frame # NoWindow
     /\ OpenFrames = <<screens[1].frame>>
  \/ /\ screens # <<>> /\ Len(screens) = 2 /\ screens[1].frame # NoWindow
     /\ screens[2].frame = NoWindow /\ OpenFrames = <<screens[1].frame>>
  \/ /\ screens # <<>> /\ Len(screens) = 2 /\ screens[1].frame # NoWindow
     /\ screens[2].frame # NoWindow /\ screens[1].frame # screens[2].frame
     /\ OpenFrames = <<screens[1].frame, screens[2].frame>>

\* The main menu and at most one screen over it always show their frames so.
LEMMA FramesShaped == SessionInvariant => FramesShape
<1> SUFFICES ASSUME SessionInvariant PROVE FramesShape
  OBVIOUS
<1>1. /\ Len(screens) \in {0, 1, 2} /\ DOMAIN screens = 1 .. Len(screens)
      /\ ((Len(screens) = 0) <=> (screens = <<>>))
  BY ScreensFacts DEF SessionInvariant
<1>2. CASE screens = <<>>
  <2>1. OpenCount = 0
    BY <1>1, <1>2 DEF OpenCount
  <2> QED
    BY <1>2, <2>1 DEF OpenFrames, FramesShape
<1>3. CASE screens # <<>>
  <2>1. at \notin BootPlaces \cup EndPlaces
    BY <1>3 DEF SessionInvariant, ScreensInvariant
  <2>2. /\ Top = screens[Len(screens)] /\ screens[1].frame # NoWindow
        /\ Len(screens) = 2 => screens[1].frame # Top.frame
    BY <2>1, OpenScreens DEF SessionInvariant
  <2>3. CASE Len(screens) = 1
    <3>1. OpenCount = 1
      BY <1>3, <2>2, <2>3 DEF OpenCount
    <3> QED
      BY <1>3, <2>2, <2>3, <3>1 DEF OpenFrames, FramesShape
  <2>4. CASE Len(screens) = 2 /\ screens[2].frame = NoWindow
    <3>1. OpenCount = 1
      BY <1>3, <2>2, <2>4 DEF OpenCount
    <3> QED
      BY <1>3, <2>2, <2>4, <3>1 DEF OpenFrames, FramesShape
  <2>5. CASE Len(screens) = 2 /\ screens[2].frame # NoWindow
    <3>1. OpenCount = 2
      BY <1>3, <2>2, <2>5 DEF OpenCount
    <3> QED
      BY <1>3, <2>2, <2>5, <3>1 DEF OpenFrames, FramesShape
  <2> QED
    BY <1>1, <1>3, <2>3, <2>4, <2>5
<1> QED
  BY <1>2, <1>3

\* Closing the only screen, or the one over it.
LEMMA FrontOfOne ==
  ASSUME NEW a
  PROVE  Abstract!Front(<<a>>) = <<>>
<1> DEFINE s == <<a>>
<1>1. s \in Seq({a}) /\ s # <<>> /\ Len(s) = 1
  OBVIOUS
<1>2. Abstract!Front(s) = Front(s)
  BY DEF Abstract!Front, Front
<1> HIDE DEF s
<1>3. Front(s) \in Seq({a}) /\ Len(Front(s)) = Len(s) - 1
  BY <1>1, FrontProperties
<1>4. Front(s) = <<>>
  BY <1>1, <1>3, EmptySeq
<1> QED
  BY <1>2, <1>4 DEF s

\* The one over it.
LEMMA FrontOfTwo ==
  ASSUME NEW a, NEW b
  PROVE  Abstract!Front(<<a, b>>) = <<a>>
<1> DEFINE s == <<a, b>>
<1>1. s \in Seq({a, b}) /\ s # <<>> /\ Len(s) = 2 /\ s[1] = a
  OBVIOUS
<1>2. Abstract!Front(s) = Front(s)
  BY DEF Abstract!Front, Front
<1> HIDE DEF s
<1>3. /\ Front(s) \in Seq({a, b}) /\ Len(Front(s)) = Len(s) - 1
      /\ \A i \in 1 .. Len(s) - 1 : Front(s)[i] = s[i]
  BY <1>1, FrontProperties
<1>4. Len(Front(s)) = 1 /\ Front(s)[1] = a
  BY <1>1, <1>3
<1>5. <<a>> \in Seq({a, b}) /\ Len(<<a>>) = 1 /\ \A i \in 1 .. 1 : <<a>>[i] = a
  OBVIOUS
<1>6. Front(s) = <<a>>
  BY <1>3, <1>4, <1>5, SeqEqual
<1> QED
  BY <1>2, <1>6 DEF s

\* Opening, closing and reframing one of at most two screens.
LEMMA ShortSequences ==
  ASSUME NEW a, NEW b
  PROVE  /\ Append(<<>>, a) = <<a>> /\ Append(<<a>>, b) = <<a, b>>
         /\ Abstract!Front(<<a>>) = <<>> /\ Abstract!Front(<<a, b>>) = <<a>>
         /\ Abstract!Range(<<>>) = {} /\ Abstract!Range(<<a>>) = {a}
         /\ Abstract!Range(<<a, b>>) = {a, b}
<1>1. Append(<<>>, a) = <<a>>
  OBVIOUS
<1>2. Append(<<a>>, b) = <<a, b>>
  BY AppendToOne
<1>3. Abstract!Range(<<>>) = {}
  BY DEF Abstract!Range
<1>4. Abstract!Range(<<a>>) = {a}
  BY DEF Abstract!Range
<1>5. Abstract!Range(<<a, b>>) = {a, b}
  BY DEF Abstract!Range
<1> QED
  BY <1>1, <1>2, <1>3, <1>4, <1>5, FrontOfOne, FrontOfTwo

-----------------------------------------------------------------------------
(* Steps of the screens *)

\* While the terminal is held the first screen keeps its frame and at most one
\* screen comes or goes: such a step opens, closes or reframes the innermost frame,
\* or changes none.
LEMMA StepSimulated ==
  ASSUME FramesShape, FramesShape', Phase = "on", Phase' = "on",
         Len(screens') = 2 => screens'[2].frame \in Windows \cup {NoWindow},
         Len(screens') = 1 => screens'[1].frame \in Windows \cup {NoWindow},
         screens # <<>> /\ screens' # <<>> => screens'[1].frame = screens[1].frame,
         screens = <<>> => Len(screens') < 2, screens' = <<>> => Len(screens) < 2
  PROVE  [Abstract!Next]_<<Phase, OpenFrames>>
<1> USE DEF Abstract!Next, Abstract!Open, Abstract!Close, Abstract!Reframe
<1>1. CASE screens = <<>>
  <2>1. OpenFrames = <<>>
    BY <1>1 DEF FramesShape
  <2>2. CASE screens' = <<>>
    BY <2>1, <2>2 DEF FramesShape
  <2>3. CASE Len(screens') = 1
    BY <2>1, <2>3, ShortSequences DEF FramesShape
  <2> QED
    BY <1>1, <2>2, <2>3 DEF FramesShape
<1>2. CASE OpenFrames = <<screens[1].frame>> /\ screens # <<>>
  <2>1. CASE screens' = <<>>
    <3>1. OpenFrames' = <<>> /\ OpenFrames # <<>>
      BY <1>2, <2>1 DEF FramesShape
    <3>2. OpenFrames' = Abstract!Front(OpenFrames)
      BY <1>2, <3>1, ShortSequences
    <3> QED
      BY <3>1, <3>2
  <2>2. CASE OpenFrames' = <<screens[1].frame>>
    BY <1>2, <2>2
  <2>3. CASE /\ Len(screens') = 2 /\ screens' # <<>>
             /\ OpenFrames' = <<screens'[1].frame, screens'[2].frame>>
             /\ screens'[1].frame # screens'[2].frame /\ screens'[2].frame # NoWindow
    BY <1>2, <2>3, ShortSequences
  <2> QED
    BY <1>2, <2>1, <2>2, <2>3 DEF FramesShape
<1>3. CASE /\ Len(screens) = 2 /\ screens # <<>>
           /\ OpenFrames = <<screens[1].frame, screens[2].frame>>
  <2>1. CASE OpenFrames' = <<screens[1].frame>>
    BY <1>3, <2>1, ShortSequences
  <2>2. CASE /\ Len(screens') = 2 /\ screens' # <<>>
             /\ OpenFrames' = <<screens'[1].frame, screens'[2].frame>>
             /\ screens'[1].frame # screens'[2].frame /\ screens'[2].frame # NoWindow
    <3>1. screens'[1].frame = screens[1].frame
      BY <1>3, <2>2
    <3>2. CASE screens'[2].frame = screens[2].frame
      BY <1>3, <2>2, <3>1, <3>2
    <3>3. CASE screens'[2].frame # screens[2].frame
      <4>1. screens'[2].frame \notin Abstract!Range(OpenFrames)
        <5>1. Abstract!Range(OpenFrames) = {screens[1].frame, screens[2].frame}
          BY <1>3, ShortSequences
        <5> QED
          BY <2>2, <3>1, <3>3, <5>1
      <4>2. Abstract!Front(OpenFrames) = <<screens[1].frame>>
        BY <1>3, ShortSequences
      <4>3. OpenFrames' = Append(Abstract!Front(OpenFrames), screens'[2].frame)
        BY <2>2, <3>1, <4>2, ShortSequences
      <4>4. OpenFrames # <<>> /\ screens'[2].frame \in Windows
        BY <1>3, <2>2
      <4> QED
        BY <4>1, <4>3, <4>4
    <3> QED
      BY <3>2, <3>3
  <2>3. screens' # <<>>
    BY <1>3
  <2>4. OpenFrames' = <<screens'[1].frame>> => OpenFrames' = <<screens[1].frame>>
    BY <1>3, <2>3
  <2> QED
    BY <2>1, <2>2, <2>3, <2>4 DEF FramesShape
<1> QED
  BY <1>1, <1>2, <1>3 DEF FramesShape

\* What a step does to the screens, whatever comes over or goes from the first one.
OneScreenMoves ==
  /\ screens # <<>> /\ screens' # <<>> => screens'[1].frame = screens[1].frame
  /\ screens = <<>> => Len(screens') < 2
  /\ screens' = <<>> => Len(screens) < 2

\* A screen is opened: app_show_config_menu and its like, or the overlay.
LEMMA ScreenComes ==
  ASSUME SessionInvariant, NEW e \in MenuScreens, screens' = Append(screens, e)
  PROVE  OneScreenMoves
<1>1. screens \in Seq(MenuScreens) /\ Len(screens) \in Nat
  BY DEF SessionInvariant, ScreensInvariant
<1>2. /\ screens' # <<>> /\ Len(screens') = Len(screens) + 1
      /\ \A i \in 1 .. Len(screens) : screens'[i] = screens[i]
  BY <1>1, ScreenAppended
<1>3. screens # <<>> => 1 \in 1 .. Len(screens)
  BY <1>1, EmptySeq
<1>4. screens = <<>> => Len(screens) = 0
  OBVIOUS
<1> QED
  BY <1>1, <1>2, <1>3, <1>4 DEF OneScreenMoves

\* The innermost screen is closed.
LEMMA ScreenGoes ==
  ASSUME SessionInvariant, screens # <<>>, screens' = Front(screens)
  PROVE  OneScreenMoves
<1>1. screens \in Seq(MenuScreens) /\ Len(screens) \in Nat
  BY DEF SessionInvariant, ScreensInvariant
<1>2. /\ screens' \in Seq(MenuScreens) /\ Len(screens') = Len(screens) - 1
      /\ \A i \in 1 .. Len(screens) - 1 : screens'[i] = screens[i]
  BY <1>1, FrontProperties
<1>3. screens' # <<>> => 1 \in 1 .. Len(screens) - 1
  BY <1>1, <1>2, EmptySeq
<1>4. screens' = <<>> => Len(screens) = 1
  BY <1>1, <1>2
<1> QED
  BY <1>3, <1>2, <1>4 DEF OneScreenMoves

\* The innermost screen changes; the first one keeps its frame.
LEMMA ScreenChanges ==
  ASSUME SessionInvariant, screens # <<>>, NEW e \in MenuScreens,
         screens' = [screens EXCEPT ![Len(screens)] = e],
         Len(screens) = 1 => e.frame = Top.frame
  PROVE  OneScreenMoves
<1>1. /\ screens \in Seq(MenuScreens) /\ Len(screens) \in {1, 2}
      /\ Top = screens[Len(screens)]
  BY ScreensFacts DEF SessionInvariant
<1>2. /\ screens' # <<>> /\ screens'[Len(screens)] = e
      /\ Len(screens) = 2 => screens'[1] = screens[1]
  BY <1>1, TopChanged
<1> QED
  BY <1>1, <1>2 DEF OneScreenMoves

\* tui_show_menu leaves the first screen its frame.
LEMMA MenuKeepsFirst ==
  ASSUME SessionInvariant, at \in {"menu", "getch", "abandon"}, NEW st, LeaveMenu(st)
  PROVE  OneScreenMoves
<1>1. /\ screens \in Seq(MenuScreens) /\ Len(screens) \in {1, 2} /\ screens # <<>>
      /\ Top = screens[Len(screens)] /\ Top \in MenuScreens
      /\ Top.name = "overlay" => Len(screens) = 2
  BY OpenScreens DEF SessionInvariant, BootPlaces, EndPlaces
<1>2. CASE Owned
  <2>1. Top.name = "overlay"
    BY <1>2 DEF Owned
  <2>2. Len(screens) # 1
    BY <1>1, <2>1
  <2> DEFINE e == [name |-> Top.name, frame |-> NoWindow, pushed |-> FALSE]
  <2>3. e \in MenuScreens /\ screens' = [screens EXCEPT ![Len(screens)] = e]
    BY <1>1, <1>2 DEF LeaveMenu, MenuScreens
  <2> HIDE DEF e
  <2> QED
    BY <1>1, <2>2, <2>3, ScreenChanges
<1>3. CASE ~Owned
  <2> DEFINE e == [Top EXCEPT !.pushed = FALSE]
  <2>1. e \in MenuScreens /\ e.frame = Top.frame
    BY <1>1 DEF MenuScreens
  <2>2. screens' = [screens EXCEPT ![Len(screens)] = e]
    BY <1>1, <1>3 DEF LeaveMenu
  <2> QED
    BY <1>1, <2>1, <2>2, ScreenChanges
<1> QED
  BY <1>2, <1>3

\* Entering tui_show_menu leaves the first screen its frame.
LEMMA EnterKeepsFirst ==
  ASSUME SessionInvariant, NEW memory \in BOOLEAN, EnterMenu(memory)
  PROVE  OneScreenMoves
<1>1. /\ screens \in Seq(MenuScreens) /\ Len(screens) \in {1, 2} /\ screens # <<>>
      /\ Top = screens[Len(screens)] /\ Top \in MenuScreens
      /\ Len(screens) = 1 => Top.frame # NoWindow
  BY OpenScreens DEF EnterMenu, SessionInvariant, BootPlaces, EndPlaces
<1>2. CASE UNCHANGED screens
  BY <1>1, <1>2 DEF OneScreenMoves
<1>3. CASE screens' = [screens EXCEPT ![Len(screens)].pushed = background_win # Top.frame]
  <2> DEFINE e == [Top EXCEPT !.pushed = background_win # Top.frame]
  <2>1. e \in MenuScreens /\ e.frame = Top.frame
    BY <1>1 DEF MenuScreens
  <2>2. screens' = [screens EXCEPT ![Len(screens)] = e]
    BY <1>1, <1>3
  <2> HIDE DEF e
  <2> QED
    BY <1>1, <2>1, <2>2, ScreenChanges
<1>4. ASSUME Top.frame = NoWindow, NEW w \in Windows,
             screens' = [screens EXCEPT ![Len(screens)] =
                           [name |-> @.name, frame |-> w, pushed |-> TRUE]]
      PROVE  OneScreenMoves
  <2> DEFINE e == [name |-> Top.name, frame |-> w, pushed |-> TRUE]
  <2>1. e \in MenuScreens /\ screens' = [screens EXCEPT ![Len(screens)] = e]
    BY <1>1, <1>4 DEF MenuScreens
  <2>2. Len(screens) # 1
    BY <1>1, <1>4
  <2> HIDE DEF e
  <2> QED
    BY <1>1, <2>1, <2>2, ScreenChanges
<1>5. \/ UNCHANGED screens
      \/ screens' = [screens EXCEPT ![Len(screens)].pushed = background_win # Top.frame]
      \/ /\ Top.frame = NoWindow
         /\ \E w \in Windows :
              screens' = [screens EXCEPT ![Len(screens)] =
                            [name |-> @.name, frame |-> w, pushed |-> TRUE]]
  <2>1. \A w \in Allocate(CenteredFits) : w # NoWindow => w \in Windows
    BY FreshWindow
  <2> QED
    BY <2>1 DEF EnterMenu
<1> QED
  BY <1>2, <1>3, <1>4, <1>5

\* A resize gives the overlay another frame; the first screen keeps its own.
LEMMA ResizeKeepsFirst ==
  ASSUME SessionInvariant, NEW scr \in Screens, NEW memory \in BOOLEAN, MenuResize(scr, memory)
  PROVE  OneScreenMoves
<1>1. /\ screens \in Seq(MenuScreens) /\ Len(screens) \in {1, 2} /\ screens # <<>>
      /\ Top = screens[Len(screens)] /\ Top \in MenuScreens
      /\ Top.name = "overlay" => Len(screens) = 2
      /\ at = "getch"
  <2>1. at = "getch"
    BY DEF MenuResize
  <2> QED
    BY <2>1, OpenScreens DEF SessionInvariant, BootPlaces, EndPlaces
<1>2. CASE Owned
  <2>1. PICK w \in Allocate(scr.rows >= 3 /\ scr.cols >= 8) :
          screens' = [screens EXCEPT ![Len(screens)].frame = w]
    BY <1>2 DEF MenuResize, RecreateFrame
  <2>2. w \in Windows \cup {NoWindow}
    BY DEF Allocate, NewWindows
  <2> DEFINE e == [Top EXCEPT !.frame = w]
  <2>3. e \in MenuScreens /\ screens' = [screens EXCEPT ![Len(screens)] = e]
    BY <1>1, <2>1, <2>2 DEF MenuScreens
  <2>4. Len(screens) # 1
    BY <1>1, <1>2 DEF Owned
  <2> HIDE DEF e
  <2> QED
    BY <1>1, <2>3, <2>4, ScreenChanges
<1>3. CASE UNCHANGED screens
  BY <1>1, <1>3 DEF OneScreenMoves
<1>4. CASE LeaveMenu("TOO_SMALL")
  BY <1>1, <1>4, MenuKeepsFirst
<1> QED
  BY <1>2, <1>3, <1>4 DEF MenuResize

\* OpenScreen opens one screen, or none.
LEMMA OpeningKeepsFirst ==
  ASSUME SessionInvariant, NEW name \in {"main", "config", "commands"},
         \/ UNCHANGED screens
         \/ \E w \in Allocate(CenteredFits) :
              /\ w # NoWindow
              /\ screens' = Append(screens, [name |-> name, frame |-> w, pushed |-> FALSE])
  PROVE  OneScreenMoves
<1>1. CASE UNCHANGED screens
  BY <1>1 DEF OneScreenMoves
<1>2. ASSUME NEW w \in Allocate(CenteredFits), w # NoWindow,
             screens' = Append(screens, [name |-> name, frame |-> w, pushed |-> FALSE])
      PROVE  OneScreenMoves
  <2>1. w \in Windows
    BY <1>2, FreshWindow
  <2>2. [name |-> name, frame |-> w, pushed |-> FALSE] \in MenuScreens
    BY <2>1 DEF MenuScreens
  <2> QED
    BY <1>2, <2>2, ScreenComes
<1> QED
  BY <1>1, <1>2

\* At every step at most one screen comes or goes, and the first keeps its frame.
LEMMA EveryStepMovesOne ==
  ASSUME SessionInvariant, Next
  PROVE  OneScreenMoves
<1>1. CASE UNCHANGED screens
  BY <1>1 DEF OneScreenMoves
<1>2. CASE OpenMain
  <2>1. \/ UNCHANGED screens
        \/ \E w \in Allocate(CenteredFits) :
             /\ w # NoWindow
             /\ screens' = Append(screens, [name |-> "main", frame |-> w, pushed |-> FALSE])
    BY <1>2 DEF OpenMain, OpenScreen
  <2> QED
    BY <2>1, OpeningKeepsFirst
<1>3. ASSUME NEW memory \in BOOLEAN, EnterMenu(memory) PROVE OneScreenMoves
  BY <1>3, EnterKeepsFirst
<1>4. CASE MenuLoop \/ MenuKey \/ AbandonMenu
  BY <1>1, <1>4, MenuKeepsFirst DEF MenuLoop, MenuKey, AbandonMenu
<1>5. ASSUME NEW scr \in Screens, NEW memory \in BOOLEAN, MenuResize(scr, memory)
      PROVE  OneScreenMoves
  BY <1>5, ResizeKeepsFirst
<1>6. CASE MainReturned
  <2>1. CASE \E name \in {"config", "commands"} :
               \/ UNCHANGED screens
               \/ \E w \in Allocate(CenteredFits) :
                    /\ w # NoWindow
                    /\ screens' = Append(screens, [name |-> name, frame |-> w,
                                                   pushed |-> FALSE])
    BY <2>1, OpeningKeepsFirst
  <2>2. CASE screens' = Append(screens, [name |-> "overlay", frame |-> NoWindow,
                                         pushed |-> FALSE])
    <3>1. [name |-> "overlay", frame |-> NoWindow, pushed |-> FALSE] \in MenuScreens
      BY DEF MenuScreens
    <3> QED
      BY <2>2, <3>1, ScreenComes
  <2>3. status \in {"OK", "CANCELLED", "MENU", "INTERRUPTED", "TOO_SMALL", "NO_MEMORY"}
    BY <1>6 DEF MainReturned, Returned, SessionInvariant, TerminalInvariant
  <2> QED
    BY <1>1, <1>6, <2>1, <2>2, <2>3 DEF MainReturned, OpenScreen
<1>7. CASE SubmenuReturned \/ OverlayReturned
  <2>1. screens # <<>>
    BY <1>7 DEF SubmenuReturned, OverlayReturned, Returned, SessionInvariant,
                ScreensInvariant, BootPlaces, EndPlaces
  <2>2. UNCHANGED screens \/ screens' = Front(screens)
    BY <1>7 DEF SubmenuReturned, OverlayReturned, CloseScreen
  <2> QED
    BY <1>1, <2>1, <2>2, ScreenGoes
<1>8. CASE LeaveApp
  <2>1. screens # <<>> /\ screens' = Front(screens)
    BY <1>8 DEF LeaveApp, CloseScreen, SessionInvariant, ScreensInvariant, BootPlaces, EndPlaces
  <2> QED
    BY <2>1, ScreenGoes
<1>9. CASE \/ Lifecycle
           \/ DialogOpen \/ DialogLoop \/ DialogKey \/ ProgressEnd
           \/ \E scr \in Screens : DialogResize(scr)
           \/ \E s \in {"INT", "TERM"} : Signal(s)
  BY <1>1, <1>9, LifecycleSteps DEF DialogOpen, DialogLoop, DialogKey, ProgressEnd,
                                    DialogResize, Signal
<1> QED
  BY <1>2, <1>3, <1>4, <1>5, <1>6, <1>7, <1>8, <1>9
     DEF Next, Program, User, Lifecycle

-----------------------------------------------------------------------------
(* The phases, and the theorem *)

\* The terminal is taken over and given back only with no screen open.
LEMMA PhaseMoves ==
  ASSUME SessionInvariant, SessionInvariant', Next
  PROVE  \/ Phase = "on" /\ Phase' = "on"
         \/ /\ screens = <<>> /\ screens' = <<>>
            /\ \/ Phase = "off" /\ Phase' \in {"off", "on", "ended", "killed"}
               \/ Phase = "on" /\ Phase' \in {"ended", "killed"}
<1>1. /\ at # "killed" => initialized = (at \notin InitPlaces \cup Over)
      /\ at' # "killed" => initialized' = (at' \notin InitPlaces \cup Over)
      /\ (screens = <<>>) <=> (at \in BootPlaces \cup EndPlaces)
      /\ (screens' = <<>>) <=> (at' \in BootPlaces \cup EndPlaces)
  BY DEF SessionInvariant, TerminalInvariant, ScreensInvariant
<1>2. /\ Phase = IF at \in Over THEN at ELSE IF at \in InitPlaces THEN "off" ELSE "on"
      /\ Phase' = IF at' \in Over THEN at' ELSE IF at' \in InitPlaces THEN "off" ELSE "on"
  BY <1>1 DEF Phase
<1>3. \/ at \in InitPlaces /\ at' \in InitPlaces \cup {"open"} \cup Over
      \/ at \notin InitPlaces \cup Over /\ at' \notin InitPlaces \cup Over
      \/ at \in UninstallPlaces /\ at' \in Over
  <2>1. CASE Lifecycle
    BY <2>1, LifecycleSteps
  <2>3. ASSUME NEW s \in {"INT", "TERM"}, Signal(s)
        PROVE  \/ at' = at /\ at \notin Over
               \/ at \in InitPlaces \cup UninstallPlaces /\ at' = "killed"
    BY <2>3 DEF Signal, Go, SessionInvariant, TerminalInvariant
  <2>4. CASE OpenMain
    BY <2>4 DEF OpenMain, OpenScreen, Go
  <2>5. ASSUME NEW memory \in BOOLEAN, EnterMenu(memory)
        PROVE  at = "enter" /\ at' \in {"menu", "returned"}
    BY <2>5 DEF EnterMenu, Go, Returns
  <2>6. CASE MenuLoop \/ MenuKey \/ AbandonMenu
    BY <2>6 DEF MenuLoop, MenuKey, AbandonMenu, LeaveMenu, Returns, Go
  <2>7. ASSUME NEW scr \in Screens, NEW memory \in BOOLEAN, MenuResize(scr, memory)
        PROVE  at = "getch" /\ at' \in {"menu", "abandon", "returned"}
    BY <2>7 DEF MenuResize, RecreateFrame, LeaveMenu, Returns, Go
  <2>8. CASE \/ DialogOpen \/ DialogLoop \/ DialogKey \/ ProgressEnd
             \/ \E scr \in Screens : DialogResize(scr)
    BY <2>8 DEF DialogOpen, DialogLoop, DialogKey, ProgressEnd, DialogResize, CloseDialog,
                AfterDialog, OpenDialog, Go
  <2>9. CASE MainReturned
    <3>1. status \in {"OK", "CANCELLED", "MENU", "INTERRUPTED", "TOO_SMALL", "NO_MEMORY"}
      BY <2>9 DEF MainReturned, Returned, SessionInvariant, TerminalInvariant
    <3>2. at = "returned" /\ at' \in {"open_dialog", "progress", "enter", "leave"}
      BY <2>9, <3>1 DEF MainReturned, Returned, ProgressStart, OpenScreen, OpenDialog, Quit, Go
    <3> QED
      BY <3>2
  <2>10. CASE SubmenuReturned \/ OverlayReturned \/ LeaveApp
    BY <2>10 DEF SubmenuReturned, OverlayReturned, LeaveApp, Returned, CloseScreen,
                 OpenDialog, Go
  <2> QED
    BY <2>1, <2>3, <2>4, <2>5, <2>6, <2>7, <2>8, <2>9, <2>10
       DEF Next, Program, User, Lifecycle
<1> QED
  BY <1>1, <1>2, <1>3 DEF BootPlaces, EndPlaces

\* Every step of the run is a step of the abstract session or leaves it alone.
LEMMA StepRefines ==
  ASSUME SessionInvariant, SessionInvariant', FramesShape, FramesShape', [Next]_sessionVars
  PROVE  [Abstract!Next]_<<Phase, OpenFrames>>
<1>1. CASE UNCHANGED sessionVars
  BY <1>1 DEF sessionVars, terminalVars, Phase, OpenFrames, OpenCount, Top, Last
<1>2. CASE Next /\ Phase = "on" /\ Phase' = "on"
  <2>1. OneScreenMoves
    BY <1>2, EveryStepMovesOne
  <2>2. screens' \in Seq(MenuScreens)
    BY DEF SessionInvariant, ScreensInvariant
  <2>3. /\ Len(screens') = 2 => screens'[2].frame \in Windows \cup {NoWindow}
        /\ Len(screens') = 1 => screens'[1].frame \in Windows \cup {NoWindow}
    <3>1. \A i \in 1 .. Len(screens') : screens'[i] \in MenuScreens
      BY <2>2, ElementOfSeq
    <3>2. \A e \in MenuScreens : e.frame \in Windows \cup {NoWindow}
      BY DEF MenuScreens
    <3> QED
      BY <2>2, <3>1, <3>2
  <2> QED
    BY <1>2, <2>1, <2>3, StepSimulated DEF OneScreenMoves
<1>3. CASE /\ screens = <<>> /\ screens' = <<>>
           /\ \/ Phase = "off" /\ Phase' \in {"off", "on", "ended", "killed"}
              \/ Phase = "on" /\ Phase' \in {"ended", "killed"}
  <2>1. OpenFrames = <<>> /\ OpenFrames' = <<>>
    BY <1>3 DEF FramesShape
  <2> QED
    BY <1>3, <2>1 DEF Abstract!Next, Abstract!Start, Abstract!Finish
<1> QED
  BY <1>1, <1>2, <1>3, PhaseMoves

\* The run starts with the terminal untouched and no screen open.
LEMMA InitRefines == Init => Abstract!Init
<1> SUFFICES ASSUME Init PROVE Abstract!Init
  OBVIOUS
<1>1. OpenCount = 0
  BY DEF Init, OpenCount
<1>2. OpenFrames = <<>>
  BY <1>1 DEF OpenFrames
<1> QED
  BY <1>2 DEF Init, Abstract!Init, Phase

(***************************************************************************)
(* tui_run_app implements the abstract session: screens nest, only the     *)
(* innermost one closes or is given another frame by a resize, a session   *)
(* that holds the terminal ends only when every screen is closed, and a    *)
(* signal can kill the process only while no screen is open.               *)
(***************************************************************************)
THEOREM SessionRefinesScreenSession == Spec => RefinesScreenSession
<1>1. Spec => []SessionInvariant
  BY InvariantHolds
<1>2. SessionInvariant /\ SessionInvariant' /\ FramesShape /\ FramesShape'
        /\ [Next]_sessionVars => [Abstract!Next]_<<Phase, OpenFrames>>
  BY StepRefines
<1> QED
  BY <1>1, <1>2, FramesShaped, InitRefines, PTL DEF Spec, RefinesScreenSession, Abstract!Spec
=============================================================================
