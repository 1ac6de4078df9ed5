----------------------------- MODULE TuiMenuModel -----------------------------
(***************************************************************************)
(* The curses-free menu model of src/tui/tui_menu_model.c: which items the *)
(* incremental search leaves visible, which visible row is selected, and   *)
(* where the scroll window starts.                                         *)
(*                                                                         *)
(* The array visible[0 .. visible_count-1] lists item indices in           *)
(* increasing order, so it is represented by the set `shown' of its        *)
(* entries; the row of an item is the number of smaller entries.  Rows and *)
(* items are numbered from 0 as in the code.  Labels and queries are       *)
(* sequences of characters that are already case-folded.                   *)
(***************************************************************************)
EXTENDS Integers, Sequences, FiniteSets, FiniteSetsExt

CONSTANTS
  Configs,   \* the menus a caller may pass: records, see ConfigType
  Chars,     \* characters that can be typed into the search query
  Keys,      \* characters that may be mnemonics
  QueryCap,  \* longest query the fixed buffer search_buf holds (63)
  Viewports  \* numbers of list rows the view may ask for

NoItem == -1   \* "-1" in the code: no items[] index

Kinds == {"normal", "disabled", "separator"}

ItemsOf(c) == 0 .. c.item_count - 1

(***************************************************************************)
(* A tui_menu_config_t, with the label and mnemonic of every item as       *)
(* menu_state_parse_labels leaves them ("&x" marks x and is dropped).      *)
(***************************************************************************)
ConfigType(c) ==
  /\ c.item_count \in Nat
  /\ c.default_index \in Int
  /\ c.kind \in [ItemsOf(c) -> Kinds]
  /\ c.label \in [ItemsOf(c) -> Seq(Chars)]
  /\ c.mnemonic \in [ItemsOf(c) -> Keys \cup {"none"}]

ASSUME MenuAssumption ==
  /\ \A c \in Configs : ConfigType(c)
  /\ "none" \notin Keys
  /\ QueryCap \in Nat \ {0}
  /\ Viewports \subseteq Nat \ {0}

VARIABLES
  cfg,               \* the caller's configuration, never modified
  status,            \* "uncreated", or what tui_menu_state_create returned
  shown,             \* the entries of visible[]
  selected_visible,  \* selected row, an index into visible[]
  top_visible,       \* first row of the scroll window
  query,             \* search_buf[0 .. search_len-1]
  search_active      \* search mode

rowVars == <<shown, selected_visible>>
searchVars == <<query, search_active>>
modelVars == <<cfg, status, rowVars, top_visible, searchVars>>

Items == ItemsOf(cfg)
Selectable == {i \in Items : cfg.kind[i] = "normal"}
Separators == {i \in Items : cfg.kind[i] = "separator"}

RowIn(S, i) == Cardinality({j \in S : j < i})
RowOf(i) == RowIn(shown, i)
VisibleCount == Cardinality(shown)

\* The items[] index of the selected row, as a set: empty when nothing is shown.
SelectedItems == {i \in shown : RowOf(i) = selected_visible}

SelectedIndex ==
  IF SelectedItems = {} THEN NoItem ELSE CHOOSE i \in SelectedItems : TRUE

-----------------------------------------------------------------------------
(* Filtering *)

Contains(hay, needle) ==
  \E k \in 0 .. Len(hay) - Len(needle) :
    \A j \in 1 .. Len(needle) : hay[k + j] = needle[j]

Matching(q) ==
  {i \in Items \ Separators : Contains(cfg.label[i], q)}

FilterOf(active, q) ==
  IF active /\ q # <<>> THEN Matching(q) ELSE Items

\* Mutant: the first match, whatever it is.
SnapToFirst(S) == 0

\* First selectable row of a filtered list, row 0 when it has none.
SnapRow(S) ==
  IF S \cap Selectable = {} THEN 0 ELSE RowIn(S, Min(S \cap Selectable))

\* Mutant: the row number is kept although the list changed.
FilterWithoutSnap(active, q) ==
  /\ search_active' = active
  /\ query' = q
  /\ shown' = FilterOf(active, q)
  /\ UNCHANGED <<cfg, status, selected_visible, top_visible>>

\* An empty query shows everything and leaves the selected row NUMBER alone;
\* a query snaps the selection to the first selectable match.
ApplyFilter(active, q) ==
  /\ search_active' = active
  /\ query' = q
  /\ shown' = FilterOf(active, q)
  /\ selected_visible' =
       IF active /\ q # <<>> THEN SnapRow(FilterOf(active, q))
                             ELSE selected_visible
  /\ UNCHANGED <<cfg, status, top_visible>>

-----------------------------------------------------------------------------
(* Lifecycle *)

Init ==
  /\ cfg \in Configs
  /\ status = "uncreated"
  /\ shown = {} /\ selected_visible = 0 /\ top_visible = 0
  /\ query = <<>> /\ search_active = FALSE

InitialItem ==
  IF cfg.default_index \in Selectable THEN cfg.default_index ELSE Min(Selectable)

\* tui_menu_state_create; memory says whether the allocations succeed.
Create(memory) ==
  /\ status = "uncreated"
  /\ IF Items = {} \/ (memory /\ Selectable = {})
       THEN status' = "invalid_arg" /\ UNCHANGED rowVars
       ELSE IF ~memory
       THEN status' = "no_memory" /\ UNCHANGED rowVars
       ELSE /\ status' = "live"
            /\ shown' = Items
            /\ selected_visible' = RowIn(Items, InitialItem)
  /\ UNCHANGED <<cfg, top_visible, searchVars>>

-----------------------------------------------------------------------------
(* Navigation.  dir is 1 (down) or -1 (up), as every caller passes it.     *)

SelectRow(row) ==
  /\ status = "live"
  /\ selected_visible' = row
  /\ UNCHANGED <<cfg, status, shown, top_visible, searchVars>>

Nearest(dir, S) == IF dir = 1 THEN Min(S) ELSE Max(S)

\* The members of S shown strictly beyond a row in direction dir.
Beyond(dir, S, row) ==
  {i \in S \cap shown : IF dir = 1 THEN RowOf(i) > row ELSE RowOf(i) < row}

\* Mutant: the scan stops at the end of the list.
NextRowUnwrapped(dir, S, row) ==
  IF Beyond(dir, S, row) # {} THEN RowOf(Nearest(dir, Beyond(dir, S, row))) ELSE row

\* The scan for a member of S that starts next to a row and wraps around once.
NextRow(dir, S, row) ==
  IF Beyond(dir, S, row) # {} THEN RowOf(Nearest(dir, Beyond(dir, S, row)))
  ELSE IF S \cap shown # {} THEN RowOf(Nearest(dir, S \cap shown))
  ELSE row

Step(dir) == SelectRow(NextRow(dir, Selectable, selected_visible))

\* Mutant: one step too many.
PageRowOffByOne(dir, page_size) ==
  LET ahead == Beyond(dir, Selectable, selected_visible)
      reached == {i \in ahead : Cardinality({j \in ahead : dir * j < dir * i}) <= page_size}
  IN IF ahead = {} THEN selected_visible ELSE RowOf(Nearest(-dir, reached))

\* page_size steps that stop at a wrap: the page_size-th selectable row beyond
\* the selected one, the last of them when there are fewer.
PageRow(dir, page_size) ==
  LET ahead == Beyond(dir, Selectable, selected_visible)
      reached == {i \in ahead : Cardinality({j \in ahead : dir * j < dir * i}) < page_size}
  IN IF ahead = {} THEN selected_visible ELSE RowOf(Nearest(-dir, reached))

Page(dir, page_size) == SelectRow(PageRow(dir, page_size))

HomeRow ==
  IF shown \cap Selectable = {} THEN selected_visible
  ELSE RowOf(Min(shown \cap Selectable))

EndRow ==
  IF shown \cap Selectable = {} THEN selected_visible
  ELSE RowOf(Max(shown \cap Selectable))

Home == SelectRow(HomeRow)
End == SelectRow(EndRow)

\* tui_menu_state_select_visible and tui_menu_state_numeric_jump: a row that
\* does not exist or cannot be selected changes nothing.
SelectVisible(row) ==
  SelectRow(IF \E i \in shown \cap Selectable : RowOf(i) = row
            THEN row ELSE selected_visible)

\* The displayed number of a visible row, 0 for a separator.
NumberForRow(row) ==
  IF \E i \in shown \ Separators : RowOf(i) = row
  THEN Cardinality({i \in shown \ Separators : RowOf(i) <= row})
  ELSE 0

\* Mutant: separators are counted.
RowForNumberOfAll(number) == IF number \in 1 .. VisibleCount THEN number - 1 ELSE -1

RowForNumber(number) ==
  LET labelled == {i \in shown \ Separators :
                     Cardinality({j \in shown \ Separators : j <= i}) = number}
  IN IF labelled = {} THEN -1 ELSE RowOf(CHOOSE i \in labelled : TRUE)

NumericJump(number) == SelectVisible(RowForNumber(number))

\* Mutant: scrolls as if the selection were always below the window.
ScrollUnguarded(rows) ==
  /\ status = "live"
  /\ top_visible' = selected_visible - rows + 1
  /\ UNCHANGED <<cfg, status, rowVars, searchVars>>

\* Mutant: scrolls down one row late.
ScrollLate(rows) ==
  /\ status = "live"
  /\ top_visible' = IF selected_visible < top_visible THEN selected_visible
                    ELSE IF selected_visible > top_visible + rows
                    THEN selected_visible - rows + 1
                    ELSE top_visible
  /\ UNCHANGED <<cfg, status, rowVars, searchVars>>

EnsureSelectionVisible(rows) ==
  /\ status = "live"
  /\ top_visible' = IF selected_visible < top_visible THEN selected_visible
                    ELSE IF selected_visible >= top_visible + rows
                    THEN selected_visible - rows + 1
                    ELSE top_visible
  /\ UNCHANGED <<cfg, status, rowVars, searchVars>>

-----------------------------------------------------------------------------
(* Search *)

SearchOpen == status = "live" /\ ApplyFilter(TRUE, <<>>)

\* Mutant: closing forgets to filter again.
CloseWithoutFilter ==
  /\ status = "live"
  /\ search_active' = FALSE
  /\ query' = <<>>
  /\ UNCHANGED <<cfg, status, rowVars, top_visible>>

SearchClose == status = "live" /\ ApplyFilter(FALSE, <<>>)

\* Mutant: no limit.
AppendUnbounded(ch) ==
  /\ status = "live"
  /\ IF search_active THEN ApplyFilter(TRUE, Append(query, ch)) ELSE UNCHANGED modelVars

\* A full buffer drops the character.
SearchAppend(ch) ==
  /\ status = "live"
  /\ IF search_active /\ Len(query) < QueryCap
       THEN ApplyFilter(TRUE, Append(query, ch))
       ELSE UNCHANGED modelVars

SearchBackspace ==
  /\ status = "live"
  /\ IF search_active /\ query # <<>>
       THEN ApplyFilter(TRUE, SubSeq(query, 1, Len(query) - 1))
       ELSE UNCHANGED modelVars

-----------------------------------------------------------------------------
(* Mnemonics *)

MnemonicMatches(key) == {i \in Selectable : cfg.mnemonic[i] = key}

\* What the call returns: the only match, for the caller to confirm.
MnemonicReturn(key) ==
  IF Cardinality(MnemonicMatches(key)) = 1
  THEN CHOOSE i \in MnemonicMatches(key) : TRUE ELSE NoItem

\* out_beep: several matches.
MnemonicBeeps(key) == Cardinality(MnemonicMatches(key)) > 1

\* Several matches move the selection to the next of them.
MnemonicJump(key) ==
  SelectRow(IF MnemonicBeeps(key)
            THEN NextRow(1, MnemonicMatches(key), selected_visible)
            ELSE selected_visible)

-----------------------------------------------------------------------------
Next ==
  \/ \E memory \in BOOLEAN : Create(memory)
  \/ \E dir \in {1, -1} : Step(dir) \/ \E n \in Viewports : Page(dir, n)
  \/ Home \/ End
  \/ \E row \in -1 .. cfg.item_count : SelectVisible(row) \/ NumericJump(row)
  \/ \E rows \in Viewports : EnsureSelectionVisible(rows)
  \/ SearchOpen \/ SearchClose \/ SearchBackspace
  \/ \E ch \in Chars : SearchAppend(ch)
  \/ \E key \in Keys : MnemonicJump(key)

Spec == Init /\ [][Next]_modelVars

-----------------------------------------------------------------------------
(* Properties *)

\* The variables keep their types, and the query fits its buffer.
TypeOK ==
  /\ cfg \in Configs
  /\ status \in {"uncreated", "live", "invalid_arg", "no_memory"}
  /\ shown \in SUBSET Items
  /\ selected_visible \in Nat
  /\ top_visible \in Nat
  /\ query \in Seq(Chars) /\ Len(query) <= QueryCap
  /\ search_active \in BOOLEAN

(***************************************************************************)
(* Every access visible[selected_visible] stays inside the entries the     *)
(* filter wrote (tui_menu_state_selected_index, mnemonic_jump, the view),  *)
(* although growing and shrinking the list and moving the selection are    *)
(* separate operations that may be called in any order.                    *)
(***************************************************************************)
SelectionInRange ==
  /\ shown # {} => selected_visible < VisibleCount
  /\ shown = {} => selected_visible = 0

(***************************************************************************)
(* visible[] is a cache of the query: it never shows the matches of an     *)
(* earlier query, and outside search mode it shows every item.             *)
(***************************************************************************)
FilterIsCurrent ==
  status = "live" => shown = FilterOf(search_active, query)

(***************************************************************************)
(* While a query filters the list, Enter acts on something: whenever a     *)
(* selectable item matches, a selectable item is selected, whatever        *)
(* editing and navigation preceded.                                        *)
(***************************************************************************)
QuerySelectsMatch ==
  (query # <<>> /\ shown \cap Selectable # {})
    => SelectedItems \cap Selectable # {}

(***************************************************************************)
(* The digit printed next to a row is the digit that jumps to it, also     *)
(* when separators and a filter make rows, numbers and item indices all    *)
(* differ: number_for_row and row_for_number are inverse.                  *)
(***************************************************************************)
NumbersNameTheirRow ==
  \A i \in shown \ Separators :
    /\ NumberForRow(RowOf(i)) \in 1 .. VisibleCount
    /\ RowForNumber(NumberForRow(RowOf(i))) = RowOf(i)

(***************************************************************************)
(* Repeating an ambiguous mnemonic visits every candidate: as many presses *)
(* as there are shown matches reach each of them, from any selected row.   *)
(***************************************************************************)
MnemonicCycleVisitsAll ==
  \A key \in Keys :
    LET matches == MnemonicMatches(key) \cap shown
        row[n \in 0 .. Cardinality(matches)] ==
          IF n = 0 THEN selected_visible ELSE NextRow(1, matches, row[n - 1])
    IN {row[n] : n \in 1 .. Cardinality(matches)} = {RowOf(i) : i \in matches}

\* A pass of the loop of tui_menu_state_page: a step, undone when it wraps.
ClampedStep(dir, row) ==
  LET next == NextRow(dir, Selectable, row)
  IN IF dir * next < dir * row THEN row ELSE next

(***************************************************************************)
(* PageUp/PageDown is page_size single steps that never wrap: the loop of  *)
(* tui_menu_state_page (step, undo and stop at a wrap) ends where PageRow  *)
(* says, also when the selected row itself cannot be selected.             *)
(***************************************************************************)
PageIsClampedSteps ==
  \A dir \in {1, -1}, page_size \in Viewports :
    LET row[n \in 0 .. page_size] ==
          IF n = 0 THEN selected_visible ELSE ClampedStep(dir, row[n - 1])
    IN PageRow(dir, page_size) = row[page_size]
=============================================================================
