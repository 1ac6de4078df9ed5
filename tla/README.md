# Verification of the C23 TUI + CLI starter

TLA+ models of the program in `src/`, the TLC runs that check them on small
instances, and TLAPS proofs of what holds for every value of the constants.
Paths below are relative to the repository root; `PROJECT.json` lists the same
material for tools (there with one more leading `src/`), with the lines that
every definition stands for.

    tlc -workers 2 -config MCTuiMenu.cfg MCTuiMenu      # one run
    tlapm TuiMenuProofs.tla                             # one proof module

## 1. The system

One process, one thread, no persistence. `main()` reads the command line, a
configuration file and the environment, and then either runs one command, or
opens an ncurses application, or reads one JSON request from standard input and
runs the command it names. What makes it hard is not parallelism but order:
layers that overwrite one another, a list that shrinks under its selection,
screens that open over one another while the terminal changes size, and signals
that may arrive between any two instructions.

| Component | State | Operations | Talks to |
|---|---|---|---|
| Menu model `tui/tui_menu_model.c` | `visible[]`, `selected_visible`, `top_visible`, `search_buf`, `search_active` | create, step, page, home, end, jump by digit or mnemonic, search open/close/append/backspace, ensure visible | called by the controller |
| Menu controller `tui/tui_menu.c` | frame, layout, the loop's result | `tui_show_menu`: paint, `wgetch`, keys, mouse, resize, interrupt | model; `tui.c` for frames and the background |
| Terminal, windows, dialogs `tui/tui.c` | `tui_initialized`, `tui_interrupted_signal`, background window and stack, previous handlers | init, cleanup, push/pop/replace background, create/destroy window, modal open/run/close, message, confirm, input | ncurses, signals |
| Showcase `tui/tui_app.c`, `tui_progress.c` | main frame, running, err | `tui_run_app`, submenus, overlay, progress | all of the above |
| Startup `main.c`, `cli/args.c`, `cli/commands*.c` | command, arguments, exit status | scan, load, parse, dispatch, validate, run | configuration, request, TUI |
| Configuration `core/config.c`, `config_json.c` | six flags with exclusion masks, config path, argument vector | load file (staged, then committed), load environment, set flag | startup, request |
| Headless request `core/request_json.c` | flag values and "seen" marks, command, arguments | parse members in document order, apply in table order | configuration |
| Input `io/input.c` | buffer, capacity, total | read standard input, read file | startup |
| JSON `core/json_scan.c`, `io/output.c` | cursor, growing string | scan, skip to a depth, write a string | configuration, request, every command |
| Command-line style `cli/style/` | terminfo handle, profile, theme; two statics for the process; the terminal's mode while it is asked | decide, ask the terminal (OSC 11), begin/end style, wrap a paragraph | startup, help, errors; terminal |
| Text layout `ui/text_layout.c` | line under way | measure, truncate, wrap | dialogs, command line |
| Doctor, OpenCLI, info, themes, metadata | none | a list of checks; formatting | - |

Hard behaviours, component by component, and what makes each correct:

* **Model** - edits of the query and moves of the selection in any order. The
  selected row must stay inside the list, the list must be that of the current
  query, a selectable match must be selected while there is one, the printed
  digits must name their rows, mnemonics must reach every candidate.
* **Controller** - resizes between computing a layout and using it; signals
  between testing the flag and blocking; the same key meaning different things
  in two modes. It may only return what the user could see and choose.
* **Terminal and application** - a failure at every allocation and every step of
  `tui_init`; frames that are recreated while dialogs remember the old one;
  pushes and pops made by three different functions. Nothing may be left behind,
  and nobody may leave with success without having confirmed it.
* **Startup** - four layers over flags that exclude one another, two ways into
  the TUI, two sources of arguments, a dozen ways to fail.
* **Command-line style** - a question to a terminal that shares its line with the
  user, has 100 ms and a buffer, and may be answered late, in pieces, or never; a
  precedence of nine sources; styles that are opened and closed at line breaks
  found later. The terminal must be left as it was found, and what is cached must
  be what was seen.
* **JSON** - scanners that look at one character at a time, in two readers with
  limits of their own; the writer has a third table of escapes.
* **Input** - size arithmetic, and a file that changes after `fstat`.

`PROJECT.json` lists each hazard at its line with the properties aimed at it.

## 2. Modules

    TuiMenuModel <- TuiMenu <- MCTuiMenu             ConfigFlags <- Startup <- MCStartup
          ^            '------ TuiMenuProofs                           '----- StartupProofs
          '---- MCTuiMenuModel
                                                     InputReader <- MCInputReader
    BackgroundStack <- TuiSession <- MCTuiSession         '-------- InputReaderProofs
                         |   '------ TuiSessionProofs
                         '-- implements ScreenSession
                                                     JsonText <- JsonTokens <- JsonGrammar <- MCJsonText
                                                                       '------ JsonTextProofs
    Osc11Query <- CliTerm <- CliRender <- MCCliRender
                  TextLayout <-'  '------ CliRenderProofs
                          '----- TextLayoutProofs <-'

`A <- B` is read "B extends A". `FoldTheorems` is extended by the proofs of the menu,
of startup, of the text layout (and through it of rendering) and of JSON.

**TuiMenuModel.** One action per function of the model. `visible[]` is strictly
increasing by construction of the filter (its only writer), so it is represented
by the set `shown` of its entries and the row of an item is the number of smaller
entries; `NextRow` and `PageRow` give in closed form where the two wrapping loops
end, and `PageIsClampedSteps` compares the second with the loop itself. Labels
are sequences of characters that are already folded to one case. Page sizes and
directions are those the callers pass.

**TuiMenu.** Extends the model with the event loop of `tui_show_menu`. `pc` has a
place for each point where something can come in between: `loop` (before the
test of the interrupt flag), `wait` (after painting, before `wgetch`), `blocked`
(inside it). `Layout`, `Recentered` and `CenteredWindow` do the arithmetic of the
layout; every event is one operation of the model and one outcome (`Again`,
`Finish`). The environment sends keys, clicks, wheel turns, resizes and signals.

**BackgroundStack** is the bounded array of `tui.c`, **TuiSession** the whole run
of `tui_run_app`, from `initscr` to the end of `tui_cleanup`. A window is its
identity; `windows` is the set that has been created and not destroyed. A menu is
abstracted to the statuses that `TuiMenu` lets it return, plus what it does to
frames and background: the two modules overlap in `tui_show_menu` on purpose, one
looking at the list and the other at the windows. `tui_init` and `tui_cleanup` are
cut wherever a signal makes a difference: each call of `sigaction` is a step
(`InstallInt`, `InstallTerm`, `UninstallInt`, `UninstallTerm`), so is each of the two
ways `tui_init` gives up (`AbandonInit`), and `endwin` comes before the handlers are
given back. Between two of these steps one signal is remembered while the other kills.

**ScreenSession** is what the application promises its terminal: screens nest,
only the innermost one closes or changes its frame, and the session ends only
after all are closed. `TuiSession` implements it with `open` mapped to the frames of
the open menu screens, outermost first (`OpenFrames`); the background array is not
part of the mapping, since it may forget what lies deepest. What the array is
good for is said by `BackgroundIsInnermostMenu`: pop it as often as you like, what
comes out agrees with the open screens.

**ConfigFlags** holds the flag table and `app_flag_apply`, **Startup** the program
from `main()` to its exit status, one action per step of `initialize_app` and of
the front ends. A token of the command line is a word or one of the dashed
tokens; a layer is a sequence of assignments and `ApplyAll` a recursive function over
its positions, in which a name that is no flag assigns nothing; a document is the sequence of members its parser meets, ended by an error
where its grammar ends it. What a step reads from outside is in `input`, chosen
once. Not every input is reachable by every path: a run that reads a request has
an empty command line, as in `main()`.

**InputReader** is the growing buffer of `app_read_input_from_stdin` and the
single read of the file reader. The length delivered and the length `fstat`
reported are chosen independently. Any read may fail, and an error shows on the stream
only: `Freads` gives what was read so far, and the next read goes on, fails again, or,
when the error has cost the rest of the input, finds its end. The loop looks at the
stream when a read has delivered nothing, and at the end of file first, as the code
does. An end of file stays one: a terminal that is typed on after Ctrl-D is left out.

**Osc11Query** is `app_cli_osc11_query_fd` with the terminal and the user at the
other end: what they send is in `line`, arrives in order in `tty` in pieces of any
size, and is read as far as the buffer has room. A symbol stands for an indivisible
group of bytes (the three channels of a colour are one); an answer may end by BEL or
ST, the terminal may not know the query, and the answer to an earlier process may
still be in the queue. Every call may fail, except the one that restores the mode.

**CliTerm** adds the decision that every rendering makes: hard policy, forced
profile, terminfo, theme, the gates before the question and the two statics that
remember its answer. **CliRender** adds what is written: `app_cli_wrap_from` word by
word, with the style that is open and the columns used, for help rows, errors and
version lines. **TextLayout** has the measuring both wrappings share, and
`app_text_wrap_utf8`, as a fold over the bytes: the line under way changes at a newline
and at the first byte of a word. A byte stands for its class: one lead byte for each
length, chosen so that its width is known.

**JsonText** has the scanners, both readers and `app_json_write_string`, each reading a
position at a time as the code does: a loop is a recursive function of the number of its
turns, which are at most the characters that are left. A word that matters as a whole
is one symbol, also behind a backslash: `true`, `false`, `null` and `flags` begin with
the letter of an escape and are accepted there, as a symbol that is neither a literal
nor a name (`Words`). The two functions that skip unknown values call one another and each
counts, so that a limit of 32 means 16 levels. What the readers are to accept is said
another way. **JsonTokens** has the tokens and the configuration files by the places
where their parts begin, with no recursion: a character is escaped when an odd number of
backslashes is before it, and the members of an object are the least set of places that
has the one behind the brace and those behind a comma. **JsonGrammar** has the documents
by decomposition; values may nest in a request, so that it uses RECURSIVE operators and
serves the runs only. It says what a configuration file is a second time, and
`ReadersAcceptTheGrammar` compares the reader with both.

Operators whose comment begins with "Mutant" are plausible bugs, used to see that
each property can fail; nothing else refers to them.

## 3. Runs

| Run | States | What it shows |
|---|---|---|
| `MCTuiMenuModel.cfg` | 8 494 | all lists of four items of every kind, two default rows, queries up to three characters, pages of one to three rows |
| `MCTuiMenu.cfg` | 82 360 | three menus of five items, own and caller's frame, five terminal sizes, every key, mouse event, resize and signal |
| `MCTuiSession.cfg` | 6 812 | nested screens and dialogs on nine terminal sizes, two signals, four windows, any allocation failing |
| `MCStartup.cfg` | 452 575 | all command lines of up to three of nine tokens, command tails of up to three, all documents of up to three of sixteen members, with files, environments and attachments |
| `MCCliRender.cfg` | 258 641 | two renderings per process in 191 environments and six kinds of request; short paragraphs of six classes of bytes and longer ones of ten |
| `MCJsonText.cfg` | 91 483 | 29 documents and all their single edits over 23 symbols, all values of the shape of a number, all arguments of up to four symbols |
| `MCInputReader.cfg` | 236 079 | all lengths and reported sizes from 0 to 36 around a limit of 32, any read failing |

Their properties are in `PROJECT.json` and stated in words where they are defined.
All seven say `CHECK_DEADLOCK FALSE` because what they model ends.

Bounds, and why they are enough:

* *Menu model.* Four items hold every pattern that the scans distinguish: a
  separator or disabled item before, between and after selectable ones, and two
  candidates of one mnemonic around it. The query limit (63 in the code) is 3,
  which is reached. The theorems of section 4 cover lists of any length.
* *Menu.* Terminal heights on both sides of the tall layout (12), the smallest
  layout (8) and no window at all. The list height is at least three, as in the
  code. Page sizes are the real `item_area_h`; `Viewports` only serves the
  standalone model.
* *Session.* Cap is 1 where the code has 16, which two nested screens never fill:
  with 1 the first entry is lost, the NULL below the main menu, and pops still end at
  nothing. An array that loses a window cannot occur here.
  Four windows are what two screens, a dialog and a frame under construction need
  at once; more would never be used. Two signals suffice for a second one to
  overwrite the first.
* *Startup.* Three tokens let an option be followed by its value and by another
  token; three members let every pair of members follow or precede a third. Two
  arguments stand for the limit of 100.
* *Input.* The sizes 32, 8, 3 keep the order and the doubling of 512 KiB, 128 KiB
  and 8 KiB, without dividing one another, so that the last chunk is a partial one.
* *Query.* Seven symbols hold an answer with ST exactly (six, and the byte for the
  end of the string that the code keeps free), and not one with a key typed before
  it: both sides of the buffer's limit. Three slices of the time-out (five in the code) allow an answer
  in three pieces or two polls without any. One typed key is enough to come before,
  within or after the answer, and may be the BEL that ends the loop too early.
* *Rendering.* Environments differ from the usual one in one variable or, where no
  question is asked, in two, so that every gate meets every other. Production has one
  rendering per process; the cache is promised for more, and two use it. Widths of
  five and six columns make three words break before the second or the third, and a
  wide character reach the last column or pass it.
* *JSON.* A depth of 4 means two levels; two arguments; keys of three characters and a
  first buffer of two, so that every string of two or more characters grows it.

Fairness. The program's own steps are weakly fair: it is one runnable process.
`wgetch` is a different matter: nothing in the code makes a user press a key.
`MCTuiMenu` checks `InterruptEndsMenu` under the additional assumption that
`wgetch` keeps returning (`KeysKeepComing`), and a separate run shows that it
fails without. `SignalEndsSession` makes the same assumption: what it adds is that
all nested screens and dialogs unwind. Resizes and signals are never assumed to
come. `RenderEnds` assumes only that the program runs: a terminal that never answers
is stepped over by the time-out. `ReadEnds` needs that the reader is scheduled and that its input is finite;
how many reads fail does not matter.

Disagreements. Each of these runs finds one property, which the repository states,
violated:

| Run | Stated | What the code does |
|---|---|---|
| `MCTuiMenu_InterruptEndsMenu.cfg` | `tui.c:100`, `:109`: a signal makes `wgetch` return so that the program "can shut down promptly" | a signal after the test at `tui_menu.c:644` and before `wgetch` at `:667` waits for the next key |
| `MCTuiMenu_SeparatorNeverSelected.cfg` | `tui_menu.h:34`: "navigation skips silently" | leaving a search keeps the row number, which may be a separator's |
| `MCCliRender_PlainIsPlain.cfg` | `config.c:85`: "Force plain text without colors" | `--plain --version` is rendered without a configuration, with colours (`cli/args.c:129`) |
| `MCInputReader_RefusedExceedsLimit.cfg` | `input.c:66`: "exceeds maximum size" | inputs up to a chunk below the limit are refused |
| `MCInputReader_ErrorReturnsNull.cfg` | `input.h:15`: "or NULL on error" | an error that cuts an `fread` short is passed over (`input.c:110`); if the next read finds the end of file, what was read before is returned as the whole input |

Three of them deserve a word. The window of the first is short and any key closes it.
That of `--plain` concerns `--version` and `--help`, which are answered by a scan that
passes over the flags; they are collected by a later one. `NO_COLOR` works as described.
That of the reader needs a stream that reports an end after an error, as a device that
has gone away does; an error that is reported again is noticed.

Seen and not pursued, because they are read off a single line or because nothing in
the repository says what is right:

* the footer of a search offers the arrow keys (`tui_menu.c:424`), which do nothing
  there; the debug flag of a headless request comes after the log level was set
  (`main.c:94`); `echo` and `hello` are handed the `--` with their arguments
  (`cli/args.c:188`), which validation does not count and a comment at `main.c:151` does
  not expect;
* a SIGINT between the two calls of `sigaction` stays in `tui_interrupted_signal` if the
  second fails (`tui.c:211`), while the error return at `tui.c:250` forgets it: a second
  `tui_init` of the same process would begin interrupted. `EndsClean` says so and allows
  nothing else;
* a menu that no longer fits while a signal is pending reports the size and not the
  signal (`tui_app.c:524`); a mnemonic that only a disabled item has does not beep,
  though a comment in `tui_menu_internal.h` can be read to ask for it; more than 100
  arguments end the program without a message;
* a poll that returns at once is charged a whole slice (`cli_term_osc11.c:122`), so an
  answer in more than five pieces is dropped however quickly they come; a terminal
  whose mode cannot be read is remembered as a completed question, although
  `cli_term.h` speaks of a real round-trip;
* a process that is killed during the question leaves the terminal raw: the command
  line installs no signal handlers;
* the readers refuse `\u` escapes (stated in `config_json.c`), which the writer uses
  for controls and invalid bytes, and accept all of `isspace` between tokens.

## 4. Proofs

| Module | Theorems | Inductive invariant |
|---|---|---|
| `TuiMenuProofs`, model | `TypeCorrect`, `SelectionAlwaysInRange`, `FilterAlwaysCurrent`, `QueryAlwaysSelectsMatch`, `NumbersAlwaysNameTheirRow`, `MnemonicAlwaysVisitsAll`, `PagesAreClampedSteps` | `IInv` |
| `TuiMenuProofs`, controller | `MenuTypeCorrect`, `ConfirmedItemAlwaysShown`, `SelectedRowAlwaysOnScreen`, `InterruptAlwaysUnwinds` | `MenuInvariant` |
| `TuiSessionProofs` | `TypeCorrect`, `BackgroundsAlwaysLive`, `BackgroundAlwaysInnermost`, `AlwaysEndsClean`, `ExitStatusAlwaysEarned`, `SignalAlwaysUnwinds`, `SessionRefinesScreenSession` | `SessionInvariant` |
| `StartupProofs` | `StartupTypeCorrect`, `FlagsAlwaysExclusive`, `HigherLayersAlwaysWin`, `RequestAlwaysInDocumentOrder`, `FormatAlwaysKept`, `ArgumentsAlwaysArriveWhole`, `ExitAlwaysExplained` | `StartupInvariant` |
| `CliRenderProofs` | `RenderTypeCorrect`, `FoundIsAlwaysTheAnswer`, `TerminalAlwaysLeftAsFound`, `CacheAlwaysHonest`, `DisabledIsAlwaysSilent`, `ParagraphAlwaysLaidOut`, `TextAlwaysSound`, `RenderAlwaysProceeds` | `RenderInvariant`, `ParagraphInvariant` |
| `TextLayoutProofs` | `TruncatesMaximally`, `WrapsSoundly`: of any text, no state | `WrapInvariant`, of a loop |
| `JsonTextProofs` | `ResponsesAlwaysReadBack`, `ConfigsAlwaysAcceptTheGrammar`; of any document, no state: `StringsStayInBounds`, `NumbersReadAsTheGrammarSays`, `StringsReadAsTheGrammarSays` | `JsonInv`, `ConfigInv`; `InBounds`, of a loop |
| `InputReaderProofs` | `TypeCorrect`, `ReaderNeverOverruns`, `ReturnedTextIsWhole`, `OnlyLargeIsRefused`, `ReaderAlwaysAdvances` | `BufferInvariant` and the properties |
| `FoldTheorems` | lemmas only: induction on positions, existence of folds | |

Most are of the form `Spec => []Inv`, for every value of the constants that the modules'
assumptions allow. `ExitStatusAlwaysEarned`, `SignalAlwaysUnwinds`, `InterruptAlwaysUnwinds`,
`RenderAlwaysProceeds` and `ReaderAlwaysAdvances` are about steps,
`SessionRefinesScreenSession` is an implementation, and the theorems of
`TextLayoutProofs` and three of `JsonTextProofs` are about operators. Each module also proves that its invariant
holds. The invariants of the session, of rendering and of the reader are written beside
the model, the others in the proof module; an MC module that extends it can check the
invariant on the small instance of a run.

**Menu model**, from `MenuAssumption`: every configuration is well typed, the buffer
holds at least one character, viewports are positive. Rows are cardinalities, so the
proof starts with lemmas on `RowIn`: it is a natural number, smaller than the size of
the list for a member, injective and monotone. `SelectionInRange` alone is not
inductive: when an empty query restores the whole list, the row stays in range only
because the list it replaces was a subset of the items, which `FilterIsCurrent` says;
and `QuerySelectsMatch` has to be carried through navigation, where the row of a
selectable item must be shown to exist. `NumbersNameTheirRow` needs types only.

Two properties compare the model with a loop of any length, in a state that is well
typed. `MnemonicCycleVisitsAll`: the rows visited so far are those of a cyclic segment
of the candidates that starts after the selected row (`Sweep`), every press adds one,
and after as many presses as candidates none is left. `PageIsClampedSteps`: a single
step that does not wrap goes to the next of the rows ahead, so the rank of the row
among these grows by one for each pass until they are used up; `PageRow` is the row
of that rank, or the last.

**Menu controller**, from `ControllerAssumption` and that of the model. Confirming
tests the item before it returns, but a mnemonic jumps and returns at once: that its
item is shown follows from `FilterIsCurrent`, which is why the model's invariant is
part of `MenuInvariant`. That the selected row is on the screen needs, besides, that
the frame on the screen has the height the scroll window was computed with: the
invariant says that the frame fits the terminal from the first layout to the return,
and that frame, layout and window agree whenever the loop waits. Every event is shown
to be one operation of the model, about which the lemmas of the model are cited.

**Session**, from `StackAssumption` (the array has at least one entry) and
`SessionAssumption` (sizes are numbers). `SessionInvariant` says where the terminal and
the handlers are held, which screens, frames and dialogs exist at each place, that
`windows` holds exactly theirs, and what the background array may contain: the frame of
the innermost menu, below it at most that of the main one, and below that possibly the
empty entry that the first push left. No property by itself is inductive: that no
destroyed window is repainted needs that the windows are exactly those of the screens;
`EndsClean` needs the same, that no screen is left at `cleanup`, and which signals can
be remembered at each place of `tui_init`: before the second handler is there only
SIGINT, which the return at `tui.c:211` then leaves behind. That the error a
session ends with was earned is an action property, from the part on statuses.

**Session implements ScreenSession.** The invariant leaves four shapes of `OpenFrames`
(`FramesShape`): none, one, two, and one with an overlay that lacks its frame. Every
step adds or removes the innermost frame, replaces it, or leaves all as they were
(`EveryStepMovesOne`), and moves between off, on, ended and killed as `PhaseMoves` says;
each pair is a step of `ScreenSession` or a stutter. A signal kills only where a handler
is missing, and there no screen is open.

**Startup**, from `WordsAssumption`, `StartupAssumption`: the inputs are well typed;
they may be of any length and any number. `StartupInvariant` says where `main()` stands
(which front end, what has been said), whose command and arguments it holds, what the
flags are worth after each layer, and what has been reported. What a layer does is a
fold, so the lemmas say in closed form what it leaves: a flag is set iff the last
assignment that concerns it sets it (`ApplyAllMeans`), and a second layer on top is the
concatenation (`LayersJoined`). The same is done for the flags that a request collects
(`RecordAllMeans`) and what its members gather (`ParseRequestMeans`). The heart is
`TableOrderWillDo`: for a document that names each flag once, applying what was
collected in table order leaves what the document leaves in its own order. Without that
hypothesis it is false, and the property says so.

**Rendering**, from `QueryAssumption`, `TermAssumption` and `RenderAssumption`: sizes are
positive, the user types neither a colour nor the head of an answer, what environments
and requests contain is well typed. `RenderInvariant` has four parts.

* `QueryInvariant`: the terminal is raw exactly between the two calls that change its
  mode; what was read, what waits and what is under way holds only what this terminal
  or this user sent.
* `StreamInvariant`: everything sent since the call, read or not, is what was typed
  with the answer somewhere in it, whole. It lets `FoundIsTheAnswer` be proved: only an
  answer contains its head, so the colour that the parser finds after a head is the
  terminal's, and the symbol the parser looks for after the colour is the answer's last,
  so that nothing of the answer is left for the shell. If the answer to an earlier
  process was in the queue (`stale`), only the colour is promised, as in the property.
* `TermInvariant`: what the two statics remember is what was asked and seen.
* `DrawInvariant`: a style is open exactly while a styled line has words. What has been
  written is a sequence of operations; that a piece of it opens and closes no style is
  carried through concatenation.

`ParagraphLaidOut` has an invariant of its own, `ParagraphInvariant`, on top of that one:
the words before the byte the loop has reached are written, the column and the style are
those that what is written leaves the cursor in, and a line that is too wide already
consists of one word. The property speaks of all that is written, of breaks and of the
words after them, so the proof is about writing one more operation (`LaidMore`). One
step of the loop writes several: between a break and the word it was made for, the break
is waiting for that word (`Waiting`), which is what is not invariant from step to step.

**Text layout.** The theorems are about every text of the modelled bytes and, for the
wrapping, every width and indentation; `TextAlwaysSound` says it of the text of a
rendering. `ColumnsFrom`, `Boundaries` and `Truncate` go from a character to the next,
so the induction is downwards over positions (`Downwards`), and what makes it work is
that a part of a text that ends where a character cannot be cut (`EndsWhole`) is
measured alone as it is measured inside (`ColumnsInside`). The wrapping goes upwards:
`WrapInvariant` says that the lines emitted so far are sound, that each but the last was
ended for the word that begins the next, and that every word passed is on one of them or
on the line under way.

**JSON**, from `JsonAssumption`: limits are natural numbers, a key has room for a
terminator, and a text ends before the first NUL, as every string of C does.
The writer is a recursive function from the end of the text and the reader one from the
beginning. `Follows` puts them side by side: where a piece of the writer begins, either
the reader has decoded exactly what lies before it, wherever it stands in its own count
of turns, or it has refused an escape on the way. Each kind of piece (`PieceRead`) is
taken with one turn or, for two bytes of a sequence, with two. The result holds for any
first capacity, however often the buffer doubles. `JsonInv` only says that what was
written and read is what these functions give. `StringsStayInBounds` is about the same
loop on any characters, in both readers, with a buffer that grows or one of a fixed
size: it looks at no byte behind the document, a byte is always left for the terminator,
a string that is accepted ends behind a quote, and the loop stops within as many turns
as there are characters.

The other direction, what is accepted, goes by places. A loop that skips spaces or
digits stops at the first character that is neither, and the grammar leaves no choice of
where a part ends: hence the parts of a number are where the scanner stopped
(`NumbersReadAsTheGrammarSays`). In a string the loop of the reader is at a character
that is not escaped, or has stopped at the first place the grammar does not allow; the
value has one character for each that is not escaped and is spelled by them
(`StringsReadAsTheGrammarSays`). The places where the loop over the members of a
configuration file begins a turn are in every set that the grammar closes over, and they
are such a set, so that they are the least one. `ConfigsAlwaysAcceptTheGrammar` is the
half of `ReadersAcceptTheGrammar` about `app_config_parse_json_state`: the file is
accepted exactly when a member that begins at one of these places reaches the closing
brace and nothing but space follows.

**Input reader**, from `InputAssumption`: `0 < Chunk <= Initial <= Max` (the static
assertions of `input.c` give this for its sizes). `BufferInvariant` is the
strengthening: between passes the terminator has its byte, and a read starts with a
byte to spare. `RefusesOnlyLarge` needs it to know that a full buffer without room for a
chunk has at least `Max - Chunk` bytes. `TextIsWhole` needs that an end of file shows only
when nothing is left to read, and that what an error cost was lost behind the first byte:
a read that fails before it returns NULL.

**Folds.** The induction theorems of the library take a predicate as a parameter, which
the provers cannot instantiate. `FoldTheorems` states induction for a set instead: the
positions at which something holds contain 0 and the successor of each member, hence
are all (`Upwards`, from the well-foundedness of the numbers). `FoldExists` gives from
it that a recursive function over `0 .. n` satisfies its equation, `FoldBackExists` the
same of one that is defined from the end, and `FoldThroughExists` of one whose step
is defined only where the values before it may lie.

**Why things end.** Liveness needs fairness and `ENABLED`, which the prover does not
handle, but what makes it true is a number that every step lowers, and that is proved
for every value of the constants. `SignalAlwaysUnwinds`: once a signal is recorded,
screens count ten and places less, except for the places just after a key that may still
open one more screen; 41 at most, whatever keys are in the queue. Further signals do not
raise the number, and one that comes while the handlers are given back ends the process
at once (`killed`). `Unwinding` is never left again although the flag is cleared on the
way out. `InterruptAlwaysUnwinds` says of the menu that it reads at most one more event;
what is left to fairness is exactly that this event comes, which is the finding of
`MCTuiMenu_InterruptEndsMenu`. `RenderAlwaysProceeds`: a poll uses up time that was left,
also when it reads, and every turn of the wrapping moves on in the text; keys that are
typed during the question do not change the number. `ReaderAlwaysAdvances`: a pass reads
at least a byte or returns.

Only model-checked:

* liveness (`InterruptEndsMenu`, `SignalEndsSession`, `RenderEnds`, `ReadEnds`) beyond
  that: that a step is taken as long as the number is not 0;
* of `ReadersAcceptTheGrammar`, the half about requests, whose values may nest: the
  grammar is of RECURSIVE operators, and an induction over the nesting is one over data;
* the runs that expect a violation, of course.

## 5. Not modelled

Painting, colours and wording; label parsing of the menu; the text of the input dialog;
what commands print; log levels other than those the flags and `APP_LOG_LEVEL=DEBUG`
choose; Windows paths. Of the command-line style: detection of the width, the
`force_` options of tests, the attributes and colours of a style, and which rows help
has; of UTF-8, which sequences are overlong and which characters are wide. Doctor is
a list of eight checks to which a ninth is added, and starts and ends a session as
`TuiSession` does. Of the modules listed as `not_modelled` in `PROJECT.json`, those
that only format have no state to check. The build (`build.zig`), the template scripts
and the tests are outside the program.

## 6. Plan

Done, in this order: the menu model and its proofs, the controller, the session
with its abstraction, startup, input, the command line's rendering with the colour
query, JSON; then the proofs of the session and that it implements its abstraction, of
rendering, of the controller, of startup, of the loops of the menu model, of both
wrappings, of what the JSON writer writes, and of what the configuration reader accepts.

What is left:

1. The parts of a request that do not nest (the command, `args`, `flags`) by places, as
   the configuration file is; nesting stays with TLC.
2. `Doctor`, on top of the terminal part of `TuiSession`; the input dialog's text.
