----------------------------- MODULE TuiMenuProofs -----------------------------
(***************************************************************************)
(* Proofs about the menu model for every list of items, every alphabet and *)
(* every query capacity: its type, the bound on the selected row, the      *)
(* freshness of the filter, the selection of a match while a query         *)
(* filters, the agreement of printed and typed item numbers, the cycle of  *)
(* an ambiguous mnemonic and the clamped steps of a page.                  *)
(*                                                                         *)
(* Then what holds of every call of tui_show_menu, for every menu, every   *)
(* size of the terminal and whatever the user, the terminal and signals    *)
(* do: the types, that only a visible, selectable item is returned, and    *)
(* that the selected row is on the screen whenever the menu waits.         *)
(***************************************************************************)
EXTENDS TuiMenu, FoldTheorems, FiniteSetTheorems

-----------------------------------------------------------------------------
(* Least and greatest elements *)

(* A non-empty set of naturals has a least element, the one Min chooses:   *)
(* "the first selectable item" of menu_first_enabled and of every scan.    *)
LEMMA MinInSet ==
  ASSUME NEW S \in SUBSET Nat, S # {}
  PROVE  Min(S) \in S /\ \A x \in S : Min(S) <= x
<1>1. PICK m \in S : \A y \in S : ~ (<<y, m>> \in OpToRel(<, Nat))
  BY NatLessThanWellFounded, WFMin
<1>2. \A y \in S : m <= y
  <2> TAKE y \in S
  <2>1. m \in Nat /\ y \in Nat
    OBVIOUS
  <2>2. <<y, m>> \in Nat \X Nat
    BY <2>1
  <2>3. ~ (y < m)
    BY <1>1, <2>1, <2>2 DEF OpToRel
  <2> QED BY <2>1, <2>3
<1> QED BY <1>2 DEF Min

(* A non-empty set of naturals below a bound has a greatest element.       *)
LEMMA MaxInSet ==
  ASSUME NEW n \in Nat, NEW S \in SUBSET (0 .. n - 1), S # {}
  PROVE  Max(S) \in S /\ \A x \in S : x <= Max(S)
<1> DEFINE R == {n - 1 - x : x \in S}
<1>1. R \in SUBSET Nat /\ R # {}
  <2>1. \A x \in S : n - 1 - x \in Nat
    OBVIOUS
  <2> QED BY <2>1
<1>2. Min(R) \in R /\ \A y \in R : Min(R) <= y
  <2> HIDE DEF R
  <2> QED BY <1>1, MinInSet
<1>3. PICK m \in S : Min(R) = n - 1 - m
  BY <1>2
<1>4. \A x \in S : x <= m
  <2> TAKE x \in S
  <2>1. n - 1 - x \in R
    OBVIOUS
  <2>2. n - 1 - m <= n - 1 - x
    BY <1>2, <1>3, <2>1
  <2> QED BY <2>2
<1> QED BY <1>4 DEF Max

-----------------------------------------------------------------------------
(* Rows *)

LEMMA ItemsFinite ==
  ASSUME cfg \in Configs
  PROVE  /\ cfg.item_count \in Nat
         /\ Items = 0 .. cfg.item_count - 1
         /\ IsFiniteSet(Items)
         /\ \A S \in SUBSET Items : IsFiniteSet(S) /\ Cardinality(S) \in Nat
<1>1. cfg.item_count \in Nat
  BY MenuAssumption DEF ConfigType
<1>2. Items = 0 .. cfg.item_count - 1
  BY DEF Items, ItemsOf
<1>3. IsFiniteSet(Items)
  BY <1>1, <1>2, FS_Interval
<1> QED BY <1>1, <1>2, <1>3, FS_Subset, FS_CardinalityType

(* The row of a member of a finite list is a valid index into the list.    *)
LEMMA RowInRange ==
  ASSUME NEW S \in SUBSET Nat, IsFiniteSet(S), NEW i \in S
  PROVE  /\ RowIn(S, i) \in Nat
         /\ RowIn(S, i) < Cardinality(S)
<1> DEFINE below == {j \in S : j < i}
<1>1. below \in SUBSET (S \ {i})
  OBVIOUS
<1>2. IsFiniteSet(S \ {i}) /\ Cardinality(S \ {i}) = Cardinality(S) - 1
  BY FS_RemoveElement
<1>3. IsFiniteSet(below) /\ Cardinality(below) <= Cardinality(S \ {i})
  BY <1>1, <1>2, FS_Subset
<1>4. Cardinality(below) \in Nat /\ Cardinality(S) \in Nat
  BY <1>3, FS_CardinalityType
<1> QED BY <1>2, <1>3, <1>4 DEF RowIn

(* Rows follow the order of the items: RowIn is strictly increasing.       *)
LEMMA RowIncreasing ==
  ASSUME NEW S \in SUBSET Nat, IsFiniteSet(S), NEW i \in S, NEW k \in S, i < k
  PROVE  RowIn(S, i) < RowIn(S, k)
<1> DEFINE T == {j \in S : j < k}
<1>1. IsFiniteSet(T) /\ T \in SUBSET Nat /\ i \in T
  BY FS_Subset
<1>2. RowIn(T, i) < Cardinality(T)
  <2> HIDE DEF T
  <2> QED BY <1>1, RowInRange
<1>3. {j \in T : j < i} = {j \in S : j < i}
  <2>1. \A j \in S : j \in Nat /\ (j < i => j < k)
    OBVIOUS
  <2> QED BY <2>1
<1> QED BY <1>2, <1>3 DEF RowIn

-----------------------------------------------------------------------------
(* Moving the selection *)

(* The rows every navigation operation may leave selected: the selected    *)
(* row itself, or the row of an item that is shown and selectable.         *)
RowChosen(row) ==
  \/ row = selected_visible
  \/ \E i \in shown \cap Selectable : row = RowOf(i)

LEMMA NearestInSet ==
  ASSUME cfg \in Configs, NEW S \in SUBSET Items, S # {}, NEW dir \in {1, -1}
  PROVE  Nearest(dir, S) \in S
<1>1. cfg.item_count \in Nat /\ S \in SUBSET (0 .. cfg.item_count - 1)
  BY ItemsFinite
<1>2. S \in SUBSET Nat
  BY <1>1
<1>3. Min(S) \in S
  BY <1>2, MinInSet
<1>4. Max(S) \in S
  BY <1>1, MaxInSet
<1> QED BY <1>3, <1>4 DEF Nearest

(* A wrapping scan among selectable items ends on one of them or nowhere.  *)
LEMMA NextRowChosen ==
  ASSUME TypeOK, NEW S \in SUBSET Selectable, NEW dir \in {1, -1}
  PROVE  RowChosen(NextRow(dir, S, selected_visible))
<1> DEFINE ahead == Beyond(dir, S, selected_visible)
           all == S \cap shown
<1>1. ahead \subseteq all /\ all \subseteq shown \cap Selectable /\ shown \subseteq Items
  BY DEF Beyond, TypeOK
<1>2. cfg \in Configs
  BY DEF TypeOK
<1>3. ahead # {} => Nearest(dir, ahead) \in ahead
  BY <1>1, <1>2, NearestInSet
<1>4. all # {} => Nearest(dir, all) \in all
  BY <1>1, <1>2, NearestInSet
<1> QED BY <1>1, <1>3, <1>4 DEF NextRow, RowChosen

LEMMA PageRowChosen ==
  ASSUME TypeOK, NEW dir \in {1, -1}, NEW page_size \in Nat \ {0}
  PROVE  RowChosen(PageRow(dir, page_size))
<1> DEFINE ahead == Beyond(dir, Selectable, selected_visible)
           before(i) == {j \in ahead : dir * j < dir * i}
           reached == {i \in ahead : Cardinality(before(i)) < page_size}
<1>1. cfg \in Configs /\ ahead \in SUBSET Items
      /\ ahead \subseteq shown \cap Selectable
  BY DEF Beyond, TypeOK, Selectable
<1>2. CASE ahead = {}
  BY <1>2 DEF PageRow, RowChosen
<1>3. CASE ahead # {}
  <2> DEFINE first == Nearest(dir, ahead)
  <2>1. first \in ahead
    BY <1>1, <1>3, NearestInSet
  <2>2. \A j \in ahead : ~ (dir * j < dir * first)
    <3>1. cfg.item_count \in Nat /\ ahead \in SUBSET (0 .. cfg.item_count - 1)
      BY <1>1, ItemsFinite
    <3>2. ahead \in SUBSET Nat
      BY <3>1
    <3>3. \A j \in ahead : Min(ahead) <= j /\ j <= Max(ahead)
      BY <1>3, <3>1, <3>2, MinInSet, MaxInSet
    <3>4. Min(ahead) \in Nat /\ Max(ahead) \in Nat
      BY <1>3, <3>1, <3>2, MinInSet, MaxInSet
    <3>5. CASE dir = 1
      BY <3>2, <3>3, <3>4, <3>5 DEF Nearest
    <3>6. CASE dir = -1
      BY <3>2, <3>3, <3>4, <3>6 DEF Nearest
    <3> QED BY <3>5, <3>6
  <2>3. before(first) = {}
    BY <2>2
  <2>4. first \in reached
    BY <2>1, <2>3, FS_EmptySet
  <2>5. Nearest(-dir, reached) \in reached
    <3>1. reached \in SUBSET Items /\ reached # {}
      BY <1>1, <2>4
    <3>2. -dir \in {1, -1}
      OBVIOUS
    <3> HIDE DEF reached
    <3> QED BY <1>1, <3>1, <3>2, NearestInSet
  <2>6. Nearest(-dir, reached) \in shown \cap Selectable
    BY <1>1, <2>5
  <2>7. PageRow(dir, page_size) = RowOf(Nearest(-dir, reached))
    BY <1>3 DEF PageRow
  <2> QED BY <2>6, <2>7 DEF RowChosen
<1> QED BY <1>2, <1>3

LEMMA HomeEndRowChosen ==
  ASSUME TypeOK
  PROVE  RowChosen(HomeRow) /\ RowChosen(EndRow)
<1> DEFINE S == shown \cap Selectable
<1>1. cfg \in Configs /\ S \in SUBSET Items
  BY DEF TypeOK
<1>2. S # {} => Nearest(1, S) \in S /\ Nearest(-1, S) \in S
  BY <1>1, NearestInSet
<1> QED BY <1>2 DEF HomeRow, EndRow, RowChosen, Nearest

(* Filtering with a query selects the first selectable match, or row 0.    *)
LEMMA SnapRowOfMatch ==
  ASSUME cfg \in Configs, NEW S \in SUBSET Items
  PROVE  \/ S \cap Selectable = {} /\ SnapRow(S) = 0
         \/ \E i \in S \cap Selectable : SnapRow(S) = RowIn(S, i)
<1>1. S \cap Selectable # {} => Min(S \cap Selectable) \in S \cap Selectable
  BY NearestInSet DEF Nearest
<1> QED BY <1>1 DEF SnapRow

-----------------------------------------------------------------------------
(* The inductive invariant *)

(* A menu that does not exist lists nothing; a live one has an item to     *)
(* select.  The second conjunct is what keeps row 0 in range when a query  *)
(* without matches is erased again.                                        *)
Lifecycle ==
  /\ status # "live" => /\ shown = {} /\ selected_visible = 0
                        /\ query = <<>>
  /\ status = "live" => Selectable # {}

IInv ==
  /\ TypeOK
  /\ Lifecycle
  /\ SelectionInRange
  /\ FilterIsCurrent
  /\ QuerySelectsMatch

LEMMA FilterInItems ==
  ASSUME NEW active, NEW q
  PROVE  FilterOf(active, q) \in SUBSET Items
BY DEF FilterOf, Matching

(* Moving to a chosen row keeps the invariant.                             *)
LEMMA MovePreserves ==
  ASSUME IInv, NEW row, RowChosen(row), SelectRow(row)
  PROVE  IInv'
<1>1. UNCHANGED <<cfg, status, shown, top_visible, query, search_active>>
      /\ selected_visible' = row
  BY DEF SelectRow, searchVars
<1>2. Items' = Items /\ Selectable' = Selectable
  BY <1>1 DEF Items, Selectable
<1>3. shown \in SUBSET Nat /\ IsFiniteSet(shown)
  <2>1. cfg \in Configs /\ shown \in SUBSET Items
    BY DEF IInv, TypeOK
  <2>2. Items \in SUBSET Nat
    BY <2>1, ItemsFinite
  <2> QED BY <2>1, <2>2, ItemsFinite
<1>4. \A i \in shown : RowOf(i) \in Nat /\ RowOf(i) < VisibleCount
  BY <1>3, RowInRange DEF RowOf, VisibleCount
<1>5. TypeOK'
  BY <1>1, <1>2, <1>4 DEF IInv, TypeOK, RowChosen
<1>6. Lifecycle'
  <2>1. status = "live"
    BY DEF SelectRow
  <2> QED BY <1>1, <1>2, <2>1 DEF IInv, Lifecycle
<1>7. SelectionInRange'
  BY <1>1, <1>4 DEF IInv, SelectionInRange, RowChosen, VisibleCount
<1>8. FilterIsCurrent'
  BY <1>1, <1>2 DEF IInv, FilterIsCurrent, FilterOf, Matching, Separators, Items
<1>9. QuerySelectsMatch'
  <2>1. SelectedItems' = {i \in shown : RowOf(i) = row}
    BY <1>1 DEF SelectedItems, RowOf
  <2>2. SelectedItems = {i \in shown : RowOf(i) = selected_visible}
    BY DEF SelectedItems
  <2>3. CASE row = selected_visible
    BY <1>1, <1>2, <2>1, <2>2, <2>3 DEF IInv, QuerySelectsMatch
  <2>4. CASE \E i \in shown \cap Selectable : row = RowOf(i)
    <3>1. PICK i \in shown \cap Selectable : row = RowOf(i)
      BY <2>4
    <3>2. i \in SelectedItems' \cap Selectable'
      BY <1>2, <2>1, <3>1
    <3> QED BY <3>2 DEF QuerySelectsMatch
  <2> QED BY <2>3, <2>4 DEF RowChosen
<1> QED BY <1>5, <1>6, <1>7, <1>8, <1>9 DEF IInv

(* Reapplying the filter after an edit of the query keeps the invariant.   *)
LEMMA FilterPreserves ==
  ASSUME IInv, status = "live", NEW active \in BOOLEAN, NEW q \in Seq(Chars),
         Len(q) <= QueryCap, ~active => q = <<>>, ApplyFilter(active, q)
  PROVE  IInv'
<1> DEFINE S == FilterOf(active, q)
<1>1. /\ UNCHANGED <<cfg, status, top_visible>>
      /\ search_active' = active /\ query' = q /\ shown' = S
      /\ selected_visible' = IF active /\ q # <<>> THEN SnapRow(S)
                                                   ELSE selected_visible
  BY DEF ApplyFilter
<1>2. Items' = Items /\ Selectable' = Selectable
  BY <1>1 DEF Items, Selectable
<1>3. cfg \in Configs /\ S \in SUBSET Items
  BY FilterInItems DEF IInv, TypeOK
<1>4. S \in SUBSET Nat /\ IsFiniteSet(S)
  <2>1. Items \in SUBSET Nat
    BY <1>3, ItemsFinite
  <2> QED BY <1>3, <2>1, ItemsFinite
<1>5. \A i \in S : RowIn(S, i) \in Nat /\ RowIn(S, i) < Cardinality(S)
  <2> HIDE DEF S
  <2> QED BY <1>4, RowInRange
<1>6. Cardinality(S) \in Nat /\ (S # {} => Cardinality(S) > 0)
  <2> HIDE DEF S
  <2> QED BY <1>4, FS_CardinalityType, FS_EmptySet
<1>7. \/ S \cap Selectable = {} /\ SnapRow(S) = 0
      \/ \E i \in S \cap Selectable : SnapRow(S) = RowIn(S, i)
  <2> HIDE DEF S
  <2> QED BY <1>3, SnapRowOfMatch
<1>8. TypeOK'
  <2>1. selected_visible' \in Nat
    BY <1>1, <1>5, <1>7 DEF IInv, TypeOK
  <2> QED BY <1>1, <1>2, <1>3, <2>1 DEF IInv, TypeOK
<1>9. Lifecycle'
  BY <1>1, <1>2 DEF IInv, Lifecycle
<1>10. SelectionInRange'
  <2>1. CASE active /\ q # <<>>
    <3>1. S # {} => SnapRow(S) < Cardinality(S)
      BY <1>5, <1>6, <1>7
    <3>2. S = {} => SnapRow(S) = 0
      BY <1>7
    <3> QED BY <1>1, <2>1, <3>1, <3>2 DEF SelectionInRange, VisibleCount
  <2>2. CASE ~ (active /\ q # <<>>)
    <3>1. S = Items
      BY <2>2 DEF FilterOf
    <3>2. Cardinality(shown) <= Cardinality(Items) /\ Cardinality(shown) \in Nat
          /\ Cardinality(Items) \in Nat
      <4>1. shown \in SUBSET Items
        BY DEF IInv, TypeOK
      <4> QED BY <1>3, <4>1, ItemsFinite, FS_Subset
    <3>3. Items # {}
      BY DEF IInv, Lifecycle, Selectable
    <3>4. selected_visible < Cardinality(Items)
      BY <1>6, <3>1, <3>2, <3>3
      DEF IInv, TypeOK, SelectionInRange, VisibleCount
    <3> QED BY <1>1, <2>2, <3>1, <3>3, <3>4 DEF SelectionInRange, VisibleCount
  <2> QED BY <2>1, <2>2
<1>11. FilterIsCurrent'
  BY <1>1, <1>2 DEF FilterIsCurrent, FilterOf, Matching, Separators, Items
<1>12. QuerySelectsMatch'
  <2> SUFFICES ASSUME q # <<>>, S \cap Selectable # {}
               PROVE  SelectedItems' \cap Selectable # {}
    BY <1>1, <1>2 DEF QuerySelectsMatch
  <2>1. PICK i \in S \cap Selectable : SnapRow(S) = RowIn(S, i)
    BY <1>7
  <2>2. selected_visible' = RowIn(S, i)
    BY <1>1, <2>1
  <2>3. SelectedItems' = {k \in S : RowIn(S, k) = selected_visible'}
    BY <1>1 DEF SelectedItems, RowOf, RowIn
  <2> QED BY <2>1, <2>2, <2>3
<1> QED BY <1>8, <1>9, <1>10, <1>11, <1>12 DEF IInv

(* Nothing but the status moves: a rejected menu, a dropped character, a   *)
(* scroll of the window.                                                   *)
LEMMA RowsUnchangedPreserves ==
  ASSUME IInv, UNCHANGED <<cfg, rowVars, searchVars>>, top_visible' \in Nat,
         status' \in {"uncreated", "live", "invalid_arg", "no_memory"},
         (status = "live") <=> (status' = "live")
  PROVE  IInv'
<1>1. UNCHANGED <<cfg, shown, selected_visible, query, search_active>>
  BY DEF rowVars, searchVars
<1> QED BY <1>1
    DEF IInv, TypeOK, Lifecycle, SelectionInRange, FilterIsCurrent,
        QuerySelectsMatch, Items, Selectable, Separators, FilterOf, Matching,
        SelectedItems, RowOf, VisibleCount

LEMMA CreatePreserves ==
  ASSUME IInv, NEW memory \in BOOLEAN, Create(memory)
  PROVE  IInv'
<1>1. status = "uncreated" /\ UNCHANGED <<cfg, top_visible, query, search_active>>
  BY DEF Create, searchVars
<1>2. Items' = Items /\ Selectable' = Selectable /\ cfg \in Configs
  BY <1>1 DEF Items, Selectable, IInv, TypeOK
<1>3. CASE status' = "live"
  <2>1. /\ Selectable # {} /\ shown' = Items
        /\ selected_visible' = RowIn(Items, InitialItem)
    BY <1>1, <1>3 DEF Create
  <2>2. InitialItem \in Items
    <3>1. Selectable \in SUBSET Items
      BY DEF Selectable
    <3>2. Min(Selectable) \in Selectable
      BY <1>2, <2>1, <3>1, NearestInSet DEF Nearest
    <3> QED BY <3>1, <3>2 DEF InitialItem
  <2>3. RowIn(Items, InitialItem) \in Nat
        /\ RowIn(Items, InitialItem) < Cardinality(Items)
    <3>1. Items \in SUBSET Nat /\ IsFiniteSet(Items)
      BY <1>2, ItemsFinite
    <3> QED BY <2>2, <3>1, RowInRange
  <2>4. query = <<>>
    BY <1>1 DEF IInv, Lifecycle
  <2>5. TypeOK'
    BY <1>1, <1>2, <1>3, <2>1, <2>3 DEF IInv, TypeOK
  <2>6. Lifecycle' /\ QuerySelectsMatch'
    BY <1>1, <1>2, <1>3, <2>1, <2>4 DEF Lifecycle, QuerySelectsMatch
  <2>7. SelectionInRange'
    BY <2>1, <2>2, <2>3 DEF SelectionInRange, VisibleCount
  <2>8. FilterIsCurrent'
    BY <1>1, <1>2, <2>1, <2>4 DEF FilterIsCurrent, FilterOf
  <2> QED BY <2>5, <2>6, <2>7, <2>8 DEF IInv
<1>4. CASE status' # "live"
  <2>1. UNCHANGED <<rowVars, searchVars>> /\ status' \in {"invalid_arg", "no_memory"}
    BY <1>4 DEF Create
  <2>2. top_visible' \in Nat
    BY <1>1 DEF IInv, TypeOK
  <2> QED BY <1>1, <2>1, <2>2, RowsUnchangedPreserves
<1> QED BY <1>3, <1>4

LEMMA EmptyQuery == <<>> \in Seq(Chars) /\ Len(<<>>) <= QueryCap
<1>1. <<>> \in Seq(Chars)
  OBVIOUS
<1>2. Len(<<>>) = 0
  OBVIOUS
<1> QED BY <1>1, <1>2, MenuAssumption

LEMMA InitInvariant == Init => IInv
<1> SUFFICES ASSUME Init PROVE IInv
  OBVIOUS
<1>1. TypeOK
  BY EmptyQuery DEF Init, TypeOK
<1> QED BY <1>1 DEF Init, IInv, Lifecycle, SelectionInRange, FilterIsCurrent, QuerySelectsMatch

LEMMA StepInvariant == IInv /\ [Next]_modelVars => IInv'
<1> SUFFICES ASSUME IInv, [Next]_modelVars PROVE IInv'
  OBVIOUS
<1> USE DEF IInv
<1>0. TypeOK
  OBVIOUS
<1>1. ASSUME NEW memory \in BOOLEAN, Create(memory) PROVE IInv'
  BY <1>1, CreatePreserves
<1>2. ASSUME NEW dir \in {1, -1}, Step(dir) PROVE IInv'
  <2>1. RowChosen(NextRow(dir, Selectable, selected_visible))
    BY <1>0, NextRowChosen
  <2> QED BY <1>2, <2>1, MovePreserves DEF Step
<1>3. ASSUME NEW dir \in {1, -1}, NEW n \in Viewports, Page(dir, n) PROVE IInv'
  <2>1. n \in Nat \ {0}
    BY MenuAssumption
  <2>2. RowChosen(PageRow(dir, n))
    BY <1>0, <2>1, PageRowChosen
  <2> QED BY <1>3, <2>2, MovePreserves DEF Page
<1>4. ASSUME Home \/ End PROVE IInv'
  BY <1>0, <1>4, HomeEndRowChosen, MovePreserves DEF Home, End
<1>5. ASSUME NEW row, SelectVisible(row) PROVE IInv'
  <2> DEFINE new == IF \E i \in shown \cap Selectable : RowOf(i) = row
                    THEN row ELSE selected_visible
  <2>1. RowChosen(new)
    BY DEF RowChosen
  <2>2. SelectRow(new)
    BY <1>5 DEF SelectVisible
  <2> HIDE DEF new
  <2> QED BY <2>1, <2>2, MovePreserves
<1>6. ASSUME NEW number, NumericJump(number) PROVE IInv'
  BY <1>5, <1>6 DEF NumericJump
<1>7. ASSUME NEW rows \in Viewports, EnsureSelectionVisible(rows) PROVE IInv'
  <2>1. rows \in Nat /\ top_visible \in Nat /\ selected_visible \in Nat
    BY MenuAssumption DEF TypeOK
  <2>2. top_visible' \in Nat
    BY <1>7, <2>1 DEF EnsureSelectionVisible
  <2>3. UNCHANGED <<cfg, rowVars, searchVars>> /\ status' = status /\ status = "live"
    BY <1>7 DEF EnsureSelectionVisible
  <2> QED BY <2>2, <2>3, RowsUnchangedPreserves
<1>8. ASSUME SearchOpen \/ SearchClose PROVE IInv'
  <2>1. status = "live" /\ <<>> \in Seq(Chars) /\ Len(<<>>) <= QueryCap
    BY <1>8, EmptyQuery DEF SearchOpen, SearchClose
  <2>2. ApplyFilter(TRUE, <<>>) \/ ApplyFilter(FALSE, <<>>)
    BY <1>8 DEF SearchOpen, SearchClose
  <2> QED BY <2>1, <2>2, FilterPreserves
<1>9. ASSUME UNCHANGED modelVars PROVE IInv'
  <2>1. UNCHANGED <<cfg, status, rowVars, top_visible, searchVars>>
    BY <1>9 DEF modelVars
  <2>2. top_visible' \in Nat /\ status' \in {"uncreated", "live", "invalid_arg", "no_memory"}
    BY <2>1 DEF TypeOK
  <2> QED BY <2>1, <2>2, RowsUnchangedPreserves
<1>10. ASSUME SearchBackspace PROVE IInv'
  <2> DEFINE q == SubSeq(query, 1, Len(query) - 1)
  <2>1. CASE search_active /\ query # <<>>
    <3>1. status = "live" /\ ApplyFilter(TRUE, q)
      BY <1>10, <2>1 DEF SearchBackspace
    <3>2. query \in Seq(Chars) /\ Len(query) <= QueryCap /\ QueryCap \in Nat
      BY MenuAssumption DEF TypeOK
    <3>3. q \in Seq(Chars) /\ Len(q) <= QueryCap
      BY <2>1, <3>2
    <3> HIDE DEF q
    <3> QED BY <3>1, <3>3, FilterPreserves
  <2>2. CASE ~ (search_active /\ query # <<>>)
    BY <1>9, <1>10, <2>2 DEF SearchBackspace
  <2> QED BY <2>1, <2>2
<1>11. ASSUME NEW ch \in Chars, SearchAppend(ch) PROVE IInv'
  <2> DEFINE q == Append(query, ch)
  <2>1. CASE search_active /\ Len(query) < QueryCap
    <3>1. status = "live" /\ ApplyFilter(TRUE, q)
      BY <1>11, <2>1 DEF SearchAppend
    <3>2. query \in Seq(Chars) /\ QueryCap \in Nat
      BY MenuAssumption DEF TypeOK
    <3>3. q \in Seq(Chars) /\ Len(q) <= QueryCap
      BY <2>1, <3>2
    <3> HIDE DEF q
    <3> QED BY <3>1, <3>3, FilterPreserves
  <2>2. CASE ~ (search_active /\ Len(query) < QueryCap)
    BY <1>9, <1>11, <2>2 DEF SearchAppend
  <2> QED BY <2>1, <2>2
<1>12. ASSUME NEW key \in Keys, MnemonicJump(key) PROVE IInv'
  <2> DEFINE new == IF MnemonicBeeps(key)
                    THEN NextRow(1, MnemonicMatches(key), selected_visible)
                    ELSE selected_visible
  <2>1. MnemonicMatches(key) \in SUBSET Selectable
    BY DEF MnemonicMatches
  <2>2. RowChosen(NextRow(1, MnemonicMatches(key), selected_visible))
    BY <1>0, <2>1, NextRowChosen
  <2>3. RowChosen(new)
    BY <2>2 DEF RowChosen
  <2>4. SelectRow(new)
    BY <1>12 DEF MnemonicJump
  <2> HIDE DEF new
  <2> QED BY <2>3, <2>4, MovePreserves
<1> HIDE DEF IInv
<1> QED BY <1>1, <1>2, <1>3, <1>4, <1>5, <1>6, <1>7, <1>8, <1>9, <1>10, <1>11, <1>12
    DEF Next

THEOREM InvariantHolds == Spec => []IInv
BY InitInvariant, StepInvariant, PTL DEF Spec

-----------------------------------------------------------------------------
(* The properties, for every menu *)

(* Type correctness of the model state.                                    *)
THEOREM TypeCorrect == Spec => []TypeOK
<1>1. IInv => TypeOK
  BY DEF IInv
<1> QED BY <1>1, InvariantHolds, PTL

(* No operation, in any order, leaves selected_visible outside visible[]:  *)
(* the unchecked array reads of tui_menu_model.c are in bounds.            *)
THEOREM SelectionAlwaysInRange == Spec => []SelectionInRange
<1>1. IInv => SelectionInRange
  BY DEF IInv
<1> QED BY <1>1, InvariantHolds, PTL

(* The visible list is always the list of the current query.               *)
THEOREM FilterAlwaysCurrent == Spec => []FilterIsCurrent
<1>1. IInv => FilterIsCurrent
  BY DEF IInv
<1> QED BY <1>1, InvariantHolds, PTL

(* A query with a selectable match always has one selected.                *)
THEOREM QueryAlwaysSelectsMatch == Spec => []QuerySelectsMatch
<1>1. IInv => QuerySelectsMatch
  BY DEF IInv
<1> QED BY <1>1, InvariantHolds, PTL

(* Counting the labelled items up to one is injective on them.             *)
LEMMA CountInjective ==
  ASSUME NEW L \in SUBSET Nat, IsFiniteSet(L), NEW i \in L, NEW k \in L, i < k
  PROVE  Cardinality({j \in L : j <= i}) < Cardinality({j \in L : j <= k})
<1> DEFINE I == {j \in L : j <= i}
           K == {j \in L : j <= k}
<1>1. I \in SUBSET K /\ k \in K /\ k \notin I
  <2>1. \A j \in L : j \in Nat /\ (j <= i => j <= k)
    OBVIOUS
  <2>2. k \in Nat /\ i \in Nat
    OBVIOUS
  <2>3. k \in K /\ k \notin I
    BY <2>2
  <2> QED BY <2>1, <2>3
<1>2. IsFiniteSet(K) /\ IsFiniteSet(I)
  BY FS_Subset
<1>3. Cardinality(I) <= Cardinality(K) /\ Cardinality(I) # Cardinality(K)
  BY <1>1, <1>2, FS_Subset
<1>4. Cardinality(I) \in Nat /\ Cardinality(K) \in Nat
  BY <1>2, FS_CardinalityType
<1> QED BY <1>3, <1>4

(* tui_menu_state_number_for_row and tui_menu_state_row_for_number are     *)
(* inverse whatever is filtered and wherever the separators are.           *)
THEOREM NumbersAlwaysNameTheirRow == Spec => []NumbersNameTheirRow
<1>1. TypeOK => NumbersNameTheirRow
  <2> SUFFICES ASSUME TypeOK, NEW i \in shown \ Separators
               PROVE  /\ NumberForRow(RowOf(i)) \in 1 .. VisibleCount
                      /\ RowForNumber(NumberForRow(RowOf(i))) = RowOf(i)
    BY DEF NumbersNameTheirRow
  <2> DEFINE L == shown \ Separators
             upTo(k) == {j \in L : j <= k}
             labelled == {k \in L : Cardinality(upTo(k)) = Cardinality(upTo(i))}
  <2>1. shown \in SUBSET Nat /\ IsFiniteSet(shown)
    <3>1. cfg \in Configs /\ shown \in SUBSET Items
      BY DEF TypeOK
    <3>2. Items \in SUBSET Nat
      BY <3>1, ItemsFinite
    <3> QED BY <3>1, <3>2, ItemsFinite
  <2>2. L \in SUBSET Nat /\ IsFiniteSet(L)
    BY <2>1, FS_Subset
  <2>3. \A k \in shown : RowOf(k) \in Nat
    BY <2>1, RowInRange DEF RowOf
  <2>4. \A k, m \in shown : k < m => RowOf(k) < RowOf(m)
    BY <2>1, RowIncreasing DEF RowOf
  <2>5. \A k \in shown : RowOf(k) <= RowOf(i) <=> k <= i
    <3> SUFFICES ASSUME NEW k \in shown
                 PROVE  RowOf(k) <= RowOf(i) <=> k <= i
      OBVIOUS
    <3>1. k \in Nat /\ i \in Nat /\ RowOf(k) \in Nat /\ RowOf(i) \in Nat
      BY <2>1, <2>3
    <3>2. k < i => RowOf(k) < RowOf(i)
      BY <2>4
    <3>3. i < k => RowOf(i) < RowOf(k)
      BY <2>4
    <3>4. k = i => RowOf(k) = RowOf(i)
      OBVIOUS
    <3> QED BY <3>1, <3>2, <3>3, <3>4
  <2>6. {k \in L : RowOf(k) <= RowOf(i)} = upTo(i)
    BY <2>5
  <2>7. NumberForRow(RowOf(i)) = Cardinality(upTo(i))
    BY <2>6 DEF NumberForRow
  <2>8. Cardinality(upTo(i)) \in 1 .. VisibleCount
    <3>1. i \in upTo(i) /\ upTo(i) \in SUBSET shown
      BY <2>2
    <3>2. IsFiniteSet(upTo(i)) /\ Cardinality(upTo(i)) <= VisibleCount
      BY <2>1, <3>1, FS_Subset DEF VisibleCount
    <3>3. Cardinality(upTo(i)) \in Nat /\ Cardinality(upTo(i)) # 0
          /\ VisibleCount \in Nat
      BY <2>1, <3>1, <3>2, FS_CardinalityType, FS_EmptySet DEF VisibleCount
    <3> QED BY <3>2, <3>3
  <2>9. labelled = {i}
    <3>1. \A k \in L : k < i => Cardinality(upTo(k)) < Cardinality(upTo(i))
      BY <2>2, CountInjective
    <3>2. \A k \in L : i < k => Cardinality(upTo(i)) < Cardinality(upTo(k))
      BY <2>2, CountInjective
    <3>3. \A k \in L : Cardinality(upTo(k)) \in Nat /\ k \in Nat
      BY <2>2, FS_Subset, FS_CardinalityType
    <3>4. \A k \in L : Cardinality(upTo(k)) = Cardinality(upTo(i)) => k = i
      <4> SUFFICES ASSUME NEW k \in L, Cardinality(upTo(k)) = Cardinality(upTo(i))
                   PROVE  k = i
        OBVIOUS
      <4> HIDE DEF upTo
      <4>1. k \in Nat /\ i \in Nat /\ Cardinality(upTo(i)) \in Nat
        BY <3>3
      <4> QED BY <3>1, <3>2, <4>1
    <3> QED BY <3>4
  <2>10. RowForNumber(Cardinality(upTo(i))) =
           IF labelled = {} THEN -1 ELSE RowOf(CHOOSE k \in labelled : TRUE)
    BY DEF RowForNumber
  <2>11. (CHOOSE k \in labelled : TRUE) = i
    BY <2>9
  <2> QED BY <2>7, <2>8, <2>9, <2>10, <2>11
<1> QED BY <1>1, TypeCorrect, PTL

-----------------------------------------------------------------------------
(* Scans in a direction *)

\* The order in which a scan in a direction meets two numbers.
Before(dir, a, b) == IF dir = 1 THEN a < b ELSE b < a

\* Multiplying by a direction orders numbers along it.
LEMMA AlongDirection ==
  ASSUME NEW dir \in {1, -1}, NEW a \in Int, NEW b \in Int
  PROVE  (dir * a < dir * b) <=> Before(dir, a, b)
<1>1. CASE dir = 1
  BY <1>1 DEF Before
<1>2. CASE dir = -1
  BY <1>2 DEF Before
<1> QED
  BY <1>1, <1>2

\* The nearest member of a set comes before all others.
LEMMA NearestIsFirst ==
  ASSUME cfg \in Configs, NEW S \in SUBSET Items, S # {}, NEW dir \in {1, -1}
  PROVE  /\ Nearest(dir, S) \in S
         /\ \A x \in S : ~Before(dir, x, Nearest(dir, S))
<1>1. cfg.item_count \in Nat /\ S \in SUBSET (0 .. cfg.item_count - 1) /\ S \in SUBSET Nat
  BY ItemsFinite
<1>2. Min(S) \in S /\ \A x \in S : Min(S) <= x
  BY <1>1, MinInSet
<1>3. Max(S) \in S /\ \A x \in S : x <= Max(S)
  BY <1>1, MaxInSet
<1>4. \A x \in S : x \in Nat
  BY <1>1
<1>5. CASE dir = 1
  <2>1. Nearest(dir, S) = Min(S)
    BY <1>5 DEF Nearest
  <2> QED
    BY <1>2, <1>4, <1>5, <2>1 DEF Before
<1>6. CASE dir = -1
  <2>1. Nearest(dir, S) = Max(S)
    BY <1>6 DEF Nearest
  <2> QED
    BY <1>3, <1>4, <1>6, <2>1 DEF Before
<1> QED
  BY <1>5, <1>6

\* Rows follow items.
LEMMA RowsFollowItems ==
  ASSUME TypeOK
  PROVE  /\ cfg \in Configs /\ shown \in SUBSET Items /\ shown \in SUBSET Nat /\ IsFiniteSet(shown)
         /\ \A i \in shown : RowOf(i) \in Nat
         /\ \A i, k \in shown, dir \in {1, -1} : Before(dir, RowOf(i), RowOf(k)) <=> Before(dir, i, k)
         /\ \A i, k \in shown : RowOf(i) = RowOf(k) <=> i = k
<1>1. cfg \in Configs /\ shown \in SUBSET Items
  BY DEF TypeOK
<1>2. shown \in SUBSET Nat /\ IsFiniteSet(shown)
  BY <1>1, ItemsFinite
<1>3. \A i \in shown : RowOf(i) \in Nat /\ i \in Nat
  BY <1>2, RowInRange DEF RowOf
<1>4. \A i, k \in shown : i < k => RowOf(i) < RowOf(k)
  BY <1>2, RowIncreasing DEF RowOf
<1>5. \A i, k \in shown : (RowOf(i) < RowOf(k) <=> i < k) /\ (RowOf(i) = RowOf(k) <=> i = k)
  <2> SUFFICES ASSUME NEW i \in shown, NEW k \in shown
               PROVE  (RowOf(i) < RowOf(k) <=> i < k) /\ (RowOf(i) = RowOf(k) <=> i = k)
    OBVIOUS
  <2>1. i \in Nat /\ k \in Nat /\ RowOf(i) \in Nat /\ RowOf(k) \in Nat
    BY <1>3
  <2>2. (i < k => RowOf(i) < RowOf(k)) /\ (k < i => RowOf(k) < RowOf(i)) /\ (i = k => RowOf(i) = RowOf(k))
    BY <1>4
  <2> QED
    BY <2>1, <2>2
<1> QED
  BY <1>1, <1>2, <1>3, <1>5 DEF Before

\* Where the wrapping scan ends: on the next row beyond, on the first one when there is
\* none, and where it began when there is nothing to find.
LEMMA NextRowIs ==
  ASSUME TypeOK, NEW S, NEW dir \in {1, -1}, NEW row \in Nat
  PROVE  LET next == NextRow(dir, S, row)
             rows == {RowOf(i) : i \in S \cap shown}
         IN /\ next \in Nat /\ rows \in SUBSET Nat
            /\ rows = {} => next = row
            /\ rows # {} => next \in rows
            /\ \A r \in rows : Before(dir, row, r) => Before(dir, row, next) /\ ~Before(dir, r, next)
            /\ (\A r \in rows : ~Before(dir, row, r)) => \A r \in rows : ~Before(dir, r, next)
<1> DEFINE next == NextRow(dir, S, row)
           all == S \cap shown
           rows == {RowOf(i) : i \in all}
           ahead == Beyond(dir, S, row)
<1>1. /\ cfg \in Configs /\ shown \in SUBSET Items /\ \A i \in shown : RowOf(i) \in Nat
      /\ \A i, k \in shown : Before(dir, RowOf(i), RowOf(k)) <=> Before(dir, i, k)
  BY RowsFollowItems
<1>2. all \in SUBSET Items /\ ahead \in SUBSET Items /\ rows \in SUBSET Nat
  BY <1>1 DEF Beyond
<1>3. \A i : i \in ahead <=> i \in all /\ Before(dir, row, RowOf(i))
  BY <1>1 DEF Beyond, Before
<1>4. CASE ahead # {}
  <2> DEFINE i == Nearest(dir, ahead)
  <2>1. i \in ahead /\ \A x \in ahead : ~Before(dir, x, i)
    <3> HIDE DEF ahead
    <3> QED
      BY <1>1, <1>2, <1>4, NearestIsFirst
  <2>2. next = RowOf(i)
    BY <1>4 DEF NextRow
  <2> HIDE DEF i, ahead, next
  <2>3. i \in all /\ Before(dir, row, next)
    BY <1>3, <2>1, <2>2
  <2>4. \A x \in all : Before(dir, row, RowOf(x)) => ~Before(dir, RowOf(x), next)
    BY <1>1, <1>3, <2>1, <2>2, <2>3
  <2>5. next \in Nat /\ next \in rows
    BY <1>1, <2>2, <2>3
  <2> QED
    BY <1>2, <2>3, <2>4, <2>5 DEF next
<1>5. CASE ahead = {} /\ all # {}
  <2> DEFINE i == Nearest(dir, all)
  <2>1. i \in all /\ \A x \in all : ~Before(dir, x, i)
    <3> HIDE DEF all
    <3> QED
      BY <1>1, <1>2, <1>5, NearestIsFirst
  <2>2. next = RowOf(i)
    BY <1>5 DEF NextRow
  <2> HIDE DEF i, ahead, next
  <2>3. \A x \in all : ~Before(dir, RowOf(x), next) /\ ~Before(dir, row, RowOf(x))
    BY <1>1, <1>3, <1>5, <2>1, <2>2
  <2>4. next \in Nat /\ next \in rows
    BY <1>1, <2>1, <2>2
  <2> QED
    BY <1>2, <2>3, <2>4 DEF next
<1>6. CASE ahead = {} /\ all = {}
  <2>1. next = row /\ rows = {}
    BY <1>6 DEF NextRow
  <2> QED
    BY <2>1
<1> QED
  BY <1>4, <1>5, <1>6

-----------------------------------------------------------------------------
(* Cycles *)

\* A cyclic sweep over the numbers of R that began behind start and is at now has met
\* the numbers of V: those up to now, or all behind start and, from the other end, those
\* up to now.
Sweep(V, R, start, now) ==
  /\ V \in SUBSET R
  /\ \/ start <= now /\ \A r \in R : r \in V <=> start < r /\ r <= now
     \/ now <= start /\ \A r \in R : r \in V <=> start < r \/ r <= now

\* Unless it has met all, the next number is a new one.
LEMMA SweepGoesOn ==
  ASSUME NEW R \in SUBSET Nat, NEW start \in Nat, NEW now \in Nat, NEW next \in R, NEW V,
         V # R, Sweep(V, R, start, now),
         \A r \in R : now < r => now < next /\ next <= r,
         (\A r \in R : ~(now < r)) => \A r \in R : next <= r
  PROVE  next \notin V /\ Sweep(V \cup {next}, R, start, next)
<1> DEFINE W == V \cup {next}
<1>1. next \in Nat /\ \A r \in R : r \in Nat
  OBVIOUS
<1>2. V \in SUBSET R /\ W \in SUBSET R /\ \A r \in R : r \in W <=> r \in V \/ r = next
  BY DEF Sweep
<1>3. PICK r0 \in R : r0 \notin V
  BY <1>2
<1> HIDE DEF W
<1>4. CASE start <= now /\ \A r \in R : r \in V <=> start < r /\ r <= now
  <2>1. CASE \E r \in R : now < r
    <3>1. now < next /\ \A r \in R : r <= next <=> r <= now \/ r = next
      BY <1>1, <2>1
    <3>2. start <= next /\ \A r \in R : r \in W <=> start < r /\ r <= next
      BY <1>1, <1>2, <1>4, <3>1
    <3> QED
      BY <1>1, <1>2, <1>4, <3>1, <3>2 DEF Sweep, W
  <2>2. CASE \A r \in R : ~(now < r)
    <3>1. next <= start /\ \A r \in R : next <= r
      BY <1>1, <1>3, <1>4, <2>2
    <3>2. \A r \in R : r \in W <=> start < r \/ r <= next
      BY <1>1, <1>2, <1>4, <2>2, <3>1
    <3> QED
      BY <1>1, <1>2, <1>4, <3>1, <3>2 DEF Sweep, W
  <2> QED
    BY <2>1, <2>2
<1>5. CASE now <= start /\ \A r \in R : r \in V <=> start < r \/ r <= now
  <2>1. now < r0 /\ r0 <= start
    BY <1>1, <1>3, <1>5
  <2>2. now < next /\ next <= start
    BY <1>1, <2>1
  <2>3. \A r \in R : r <= next <=> r <= now \/ r = next
    BY <1>1, <2>1, <2>2
  <2>4. \A r \in R : r \in W <=> start < r \/ r <= next
    BY <1>1, <1>2, <1>5, <2>3
  <2> QED
    BY <1>1, <1>2, <1>5, <2>2, <2>4 DEF Sweep, W
<1> QED
  BY <1>4, <1>5 DEF Sweep

\* As many steps as there are members reach each of them.
LEMMA CycleVisitsAll ==
  ASSUME TypeOK, NEW M \in SUBSET shown,
         NEW g \in [0 .. Cardinality(M) -> Nat], g[0] = selected_visible,
         \A n \in 1 .. Cardinality(M) : g[n] = NextRow(1, M, g[n - 1])
  PROVE  {g[n] : n \in 1 .. Cardinality(M)} = {RowOf(i) : i \in M}
<1> DEFINE N == Cardinality(M)
           R == {RowOf(i) : i \in M}
           V(n) == {g[k] : k \in 1 .. n}
           T == {n \in 0 .. N : /\ V(n) \in SUBSET R
                                /\ Cardinality(V(n)) = n
                                /\ Sweep(V(n), R, selected_visible, g[n])}
<1>1. /\ IsFiniteSet(M) /\ N \in Nat /\ M \cap shown = M /\ selected_visible \in Nat
      /\ R \in SUBSET Nat /\ \A i, k \in M : RowOf(i) = RowOf(k) <=> i = k
  <2>1. IsFiniteSet(M)
    BY RowsFollowItems, FS_Subset
  <2> QED
    BY <2>1, FS_CardinalityType, RowsFollowItems DEF TypeOK
<1>2. IsFiniteSet(R) /\ Cardinality(R) = N
  <2> DEFINE f == [i \in M |-> RowOf(i)]
  <2>1. f \in [M -> R] /\ (\A r \in R : \E i \in M : f[i] = r) /\ \A i, k \in M : f[i] = f[k] => i = k
    BY <1>1
  <2> HIDE DEF f, R
  <2>2. f \in Surjection(M, R) /\ f \in Injection(M, R)
    BY <2>1 DEF Surjection, Injection, IsInjective
  <2> QED
    BY <1>1, <2>2, FS_Surjection
<1>3. 0 \in T
  <2>1. V(0) = {} /\ Cardinality({}) = 0
    BY FS_EmptySet
  <2>2. Sweep({}, R, selected_visible, selected_visible)
    <3>1. \A r \in R : r \in {} <=> selected_visible < r /\ r <= selected_visible
      <4>1. \A r \in Nat : ~(selected_visible < r /\ r <= selected_visible)
        BY <1>1
      <4> HIDE DEF R, T, V, N
      <4> QED
        BY <1>1, <4>1
    <3> HIDE DEF R
    <3> QED
      BY <1>1, <3>1 DEF Sweep
  <2> HIDE DEF V, R
  <2> QED
    BY <1>1, <2>1, <2>2
<1>4. ASSUME NEW n \in 0 .. N - 1, n \in T
      PROVE  n + 1 \in T
  <2>1. n + 1 \in 1 .. N /\ (n + 1) - 1 = n /\ n \in 0 .. N /\ g[n] \in Nat
    BY <1>1
  <2>2. V(n + 1) = V(n) \cup {g[n + 1]}
    <3>1. 1 .. n + 1 = (1 .. n) \cup {n + 1}
      BY <2>1
    <3> QED
      BY <3>1
  <2>3. V(n) \in SUBSET R /\ Cardinality(V(n)) = n /\ Sweep(V(n), R, selected_visible, g[n])
    BY <1>4
  <2> HIDE DEF V
  <2>4. g[n + 1] = NextRow(1, M, g[n])
    BY <2>1
  <2>5. /\ R # {} => g[n + 1] \in R
        /\ \A r \in R : Before(1, g[n], r) => Before(1, g[n], g[n + 1]) /\ ~Before(1, r, g[n + 1])
        /\ (\A r \in R : ~Before(1, g[n], r)) => \A r \in R : ~Before(1, r, g[n + 1])
    <3>1. LET next == NextRow(1, M, g[n])
              rows == {RowOf(i) : i \in M \cap shown}
          IN /\ rows # {} => next \in rows
             /\ \A r \in rows : Before(1, g[n], r) => Before(1, g[n], next) /\ ~Before(1, r, next)
             /\ (\A r \in rows : ~Before(1, g[n], r)) => \A r \in rows : ~Before(1, r, next)
      BY <2>1, NextRowIs
    <3> QED
      BY <1>1, <2>4, <3>1
  <2>6. V(n) # R /\ R # {}
    <3>1. Cardinality(V(n)) # Cardinality(R) /\ Cardinality(R) # 0
      BY <1>1, <1>2, <2>1, <2>3
    <3> QED
      BY <3>1, FS_EmptySet
  <2> HIDE DEF R
  <2>7. \A r \in R : r \in Nat
    BY <1>1
  <2>8. /\ g[n + 1] \in R /\ g[n + 1] \in Nat
        /\ \A r \in R : g[n] < r => g[n] < g[n + 1] /\ g[n + 1] <= r
        /\ (\A r \in R : ~(g[n] < r)) => \A r \in R : g[n + 1] <= r
    BY <2>5, <2>6, <2>7 DEF Before
  <2>9. g[n + 1] \notin V(n) /\ Sweep(V(n + 1), R, selected_visible, g[n + 1])
    <3> DEFINE now == g[n]
               next == g[n + 1]
               seen == V(n)
    <3>1. /\ R \in SUBSET Nat /\ selected_visible \in Nat /\ now \in Nat /\ next \in R /\ seen # R
          /\ Sweep(seen, R, selected_visible, now)
          /\ \A r \in R : now < r => now < next /\ next <= r
          /\ (\A r \in R : ~(now < r)) => \A r \in R : next <= r
      BY <1>1, <2>1, <2>3, <2>6, <2>7, <2>8
    <3> HIDE DEF now, next, seen
    <3>2. next \notin seen /\ Sweep(seen \cup {next}, R, selected_visible, next)
      BY <3>1, SweepGoesOn
    <3> QED
      BY <2>2, <3>2 DEF now, next, seen
  <2>10. IsFiniteSet(V(n))
    BY <1>2, <2>3, FS_Subset
  <2>11. Cardinality(V(n + 1)) = n + 1
    <3>1. Cardinality(V(n) \cup {g[n + 1]}) = Cardinality(V(n)) + 1
      BY <2>9, <2>10, FS_AddElement
    <3> QED
      BY <2>2, <2>3, <3>1
  <2>12. V(n + 1) \in SUBSET R
    BY <2>2, <2>3, <2>8
  <2> QED
    BY <2>1, <2>9, <2>11, <2>12
<1>5. N \in T
  <2> HIDE DEF T
  <2>1. \A n \in 0 .. N : n \in T
    BY <1>1, <1>3, <1>4, Upwards
  <2> QED
    BY <1>1, <2>1
<1>6. V(N) = R
  <2>1. V(N) \in SUBSET R /\ Cardinality(V(N)) = N
    BY <1>5
  <2> HIDE DEF V, R
  <2> QED
    BY <1>2, <2>1, FS_Subset
<1> QED
  BY <1>6

-----------------------------------------------------------------------------
(* Pages *)

\* How many members of A come before i.
Rank(dir, A, i) == Cardinality({j \in A : dir * j < dir * i})

\* The last member that fewer than n come before.
LastIs(dir, A, n, i) ==
  /\ i \in A /\ Rank(dir, A, i) < n
  /\ \A j \in A : Before(dir, i, j) => ~(Rank(dir, A, j) < n)

\* Ranks follow the direction; the next member's rank is the next number.
LEMMA Ranks ==
  ASSUME NEW A \in SUBSET Nat, IsFiniteSet(A), NEW dir \in {1, -1}
  PROVE  /\ \A i \in A : Rank(dir, A, i) \in Nat
         /\ \A i, k \in A : Before(dir, i, k) => Rank(dir, A, i) < Rank(dir, A, k)
         /\ \A k \in A : (\A j \in A : ~Before(dir, j, k)) => Rank(dir, A, k) = 0
         /\ \A i, k \in A : Before(dir, i, k) /\ (\A j \in A : Before(dir, i, j) => ~Before(dir, j, k))
              => Rank(dir, A, k) = Rank(dir, A, i) + 1
<1> DEFINE below(i) == {j \in A : dir * j < dir * i}
<1>1. \A i, j \in A : j \in below(i) <=> Before(dir, j, i)
  BY AlongDirection
<1>2. \A i \in A : /\ below(i) \in SUBSET A /\ IsFiniteSet(below(i))
                   /\ Cardinality(below(i)) \in Nat /\ Rank(dir, A, i) = Cardinality(below(i))
  BY FS_Subset, FS_CardinalityType DEF Rank
<1> HIDE DEF below
<1>3. \A i \in A : i \in Nat
  OBVIOUS
<1>4. ASSUME NEW i \in A, NEW k \in A, Before(dir, i, k)
      PROVE  Rank(dir, A, i) < Rank(dir, A, k)
  <2>1. below(i) \cup {i} \in SUBSET below(k) /\ i \notin below(i)
    <3>1. \A j \in A : Before(dir, j, i) => Before(dir, j, k)
      BY <1>3, <1>4 DEF Before
    <3>2. ~Before(dir, i, i)
      BY <1>3 DEF Before
    <3> QED
      BY <1>1, <1>2, <1>4, <3>1, <3>2
  <2>2. Cardinality(below(i) \cup {i}) = Cardinality(below(i)) + 1
    BY <1>2, <2>1, FS_AddElement
  <2>3. Cardinality(below(i) \cup {i}) <= Cardinality(below(k))
    BY <1>2, <2>1, FS_Subset
  <2> QED
    BY <1>2, <2>2, <2>3
<1>5. ASSUME NEW k \in A, \A j \in A : ~Before(dir, j, k)
      PROVE  Rank(dir, A, k) = 0
  <2>1. below(k) = {}
    BY <1>1, <1>2, <1>5
  <2> QED
    BY <1>2, <2>1, FS_EmptySet
<1>6. ASSUME NEW i \in A, NEW k \in A, Before(dir, i, k),
             \A j \in A : Before(dir, i, j) => ~Before(dir, j, k)
      PROVE  Rank(dir, A, k) = Rank(dir, A, i) + 1
  <2>1. \A j \in A : Before(dir, j, k) <=> Before(dir, j, i) \/ j = i
    BY <1>3, <1>6 DEF Before
  <2>2. below(k) = below(i) \cup {i} /\ i \notin below(i)
    <3>1. ~Before(dir, i, i)
      BY <1>3 DEF Before
    <3> QED
      BY <1>1, <1>2, <2>1, <3>1
  <2>3. Cardinality(below(k)) = Cardinality(below(i)) + 1
    BY <1>2, <2>2, FS_AddElement
  <2> QED
    BY <1>2, <2>3
<1> QED
  BY <1>2, <1>4, <1>5, <1>6

\* What lies ahead of the selected row.
Ahead(dir) == Beyond(dir, Selectable, selected_visible)

LEMMA AheadIs ==
  ASSUME TypeOK, NEW dir \in {1, -1}
  PROVE  /\ Ahead(dir) \in SUBSET shown /\ Ahead(dir) \in SUBSET Nat /\ IsFiniteSet(Ahead(dir))
         /\ selected_visible \in Nat
         /\ \A i : i \in Ahead(dir) <=> i \in Selectable \cap shown /\ Before(dir, selected_visible, RowOf(i))
<1>1. Ahead(dir) \in SUBSET shown
  BY DEF Ahead, Beyond
<1>2. \A i : i \in Ahead(dir) <=> i \in Selectable \cap shown /\ Before(dir, selected_visible, RowOf(i))
  BY DEF Ahead, Beyond, Before
<1>3. shown \in SUBSET Nat /\ IsFiniteSet(shown)
  BY RowsFollowItems
<1> QED
  BY <1>1, <1>2, <1>3, FS_Subset DEF TypeOK

\* The closed form of a page: the last of the first n ahead.
LEMMA PageRowIsLast ==
  ASSUME TypeOK, NEW dir \in {1, -1}, NEW n \in Nat \ {0}, Ahead(dir) # {}
  PROVE  \E i : LastIs(dir, Ahead(dir), n, i) /\ PageRow(dir, n) = RowOf(i)
<1> DEFINE A == Ahead(dir)
           reached == {i \in A : Cardinality({j \in A : dir * j < dir * i}) < n}
           i == Nearest(-dir, reached)
<1>1. A \in SUBSET shown /\ A \in SUBSET Nat /\ IsFiniteSet(A) /\ A # {}
  BY AheadIs
<1>2. cfg \in Configs /\ A \in SUBSET Items /\ -dir \in {1, -1}
  BY <1>1, RowsFollowItems
<1>3. PageRow(dir, n) = RowOf(i)
  BY <1>1 DEF PageRow, Ahead
<1>4. \A j : j \in reached <=> j \in A /\ Rank(dir, A, j) < n
  BY DEF Rank
<1> HIDE DEF A, reached, i
<1>5. reached # {}
  <2>1. Nearest(dir, A) \in A /\ \A j \in A : ~Before(dir, j, Nearest(dir, A))
    BY <1>1, <1>2, NearestIsFirst
  <2>2. Rank(dir, A, Nearest(dir, A)) = 0
    BY <1>1, <2>1, Ranks
  <2> QED
    BY <1>4, <2>1, <2>2
<1>6. i \in reached /\ \A j \in reached : ~Before(-dir, j, i)
  <2>1. reached \in SUBSET Items
    BY <1>2, <1>4
  <2> QED
    BY <1>2, <1>5, <2>1, NearestIsFirst DEF i
<1>7. i \in A /\ Rank(dir, A, i) < n
  BY <1>4, <1>6
<1>8. ASSUME NEW j \in A, Before(dir, i, j)
      PROVE  ~(Rank(dir, A, j) < n)
  <2>1. Before(-dir, j, i)
    BY <1>8 DEF Before
  <2> QED
    BY <1>4, <1>6, <2>1
<1>9. LastIs(dir, A, n, i)
  BY <1>7, <1>8 DEF LastIs
<1> QED
  BY <1>3, <1>9 DEF A

\* There is only one.
LEMMA LastIsUnique ==
  ASSUME NEW A \in SUBSET Nat, NEW dir \in {1, -1}, NEW n, NEW i, NEW k,
         LastIs(dir, A, n, i), LastIs(dir, A, n, k)
  PROVE  i = k
<1>1. i \in Nat /\ k \in Nat /\ ~Before(dir, i, k) /\ ~Before(dir, k, i)
  BY DEF LastIs
<1> QED
  BY <1>1 DEF Before

\* The first pass of the loop.
LEMMA FirstPass ==
  ASSUME TypeOK, NEW dir \in {1, -1}
  PROVE  /\ Ahead(dir) = {} => ClampedStep(dir, selected_visible) = selected_visible
         /\ Ahead(dir) # {} =>
              \E k : LastIs(dir, Ahead(dir), 1, k) /\ ClampedStep(dir, selected_visible) = RowOf(k)
<1> DEFINE A == Ahead(dir)
           rows == {RowOf(i) : i \in Selectable \cap shown}
           next == NextRow(dir, Selectable, selected_visible)
<1>1. /\ A \in SUBSET shown /\ A \in SUBSET Nat /\ IsFiniteSet(A) /\ selected_visible \in Nat
      /\ \A i : i \in A <=> i \in Selectable \cap shown /\ Before(dir, selected_visible, RowOf(i))
  BY AheadIs
<1>2. /\ next \in Nat
      /\ rows = {} => next = selected_visible
      /\ rows # {} => next \in rows
      /\ \A r \in rows : Before(dir, selected_visible, r) =>
           Before(dir, selected_visible, next) /\ ~Before(dir, r, next)
  BY <1>1, ZenonT(30), NextRowIs
<1>3. ClampedStep(dir, selected_visible) =
        IF Before(dir, next, selected_visible) THEN selected_visible ELSE next
  BY <1>1, <1>2, AlongDirection DEF ClampedStep
<1> HIDE DEF A, next
<1>4. ASSUME A = {}
      PROVE  ClampedStep(dir, selected_visible) = selected_visible
  <2>1. next = selected_visible \/ ~Before(dir, selected_visible, next)
    BY <1>1, <1>2, <1>4
  <2> QED
    BY <1>1, <1>2, <1>3, <2>1 DEF Before
<1>5. ASSUME A # {}
      PROVE  \E k : LastIs(dir, A, 1, k) /\ ClampedStep(dir, selected_visible) = RowOf(k)
  <2>1. PICK i : i \in A
    BY <1>5
  <2>2. RowOf(i) \in rows /\ Before(dir, selected_visible, RowOf(i))
    BY <1>1, <2>1
  <2>3. Before(dir, selected_visible, next) /\ next \in rows
    BY <1>2, <2>2
  <2>4. PICK k \in Selectable \cap shown : next = RowOf(k)
    BY <2>3
  <2>5. k \in A /\ ClampedStep(dir, selected_visible) = RowOf(k)
    BY <1>1, <1>2, <1>3, <2>3, <2>4 DEF Before
  <2>6. \A j \in A : ~Before(dir, j, k)
    <3>1. \A j \in A : ~Before(dir, RowOf(j), RowOf(k))
      BY <1>1, <1>2, <2>4
    <3>2. \A j, m \in shown : Before(dir, RowOf(j), RowOf(m)) <=> Before(dir, j, m)
      BY RowsFollowItems
    <3> QED
      BY <1>1, <2>5, <3>1, <3>2
  <2>7. /\ Rank(dir, A, k) = 0
        /\ \A j \in A : Before(dir, k, j) => 0 < Rank(dir, A, j) /\ Rank(dir, A, j) \in Nat
    <3>1. /\ \A j \in A : Rank(dir, A, j) \in Nat
          /\ \A j \in A : Before(dir, k, j) => Rank(dir, A, k) < Rank(dir, A, j)
          /\ Rank(dir, A, k) = 0
      BY <1>1, <2>5, <2>6, Ranks
    <3> QED
      BY <3>1
  <2>8. LastIs(dir, A, 1, k)
    BY <2>5, <2>7 DEF LastIs
  <2> QED
    BY <2>5, <2>8
<1> QED
  BY <1>4, <1>5 DEF A

\* Every other pass.
LEMMA NextPass ==
  ASSUME TypeOK, NEW dir \in {1, -1}, NEW n \in Nat, NEW i, LastIs(dir, Ahead(dir), n, i)
  PROVE  \E k : LastIs(dir, Ahead(dir), n + 1, k) /\ ClampedStep(dir, RowOf(i)) = RowOf(k)
<1> DEFINE A == Ahead(dir)
           row == RowOf(i)
           rows == {RowOf(j) : j \in Selectable \cap shown}
           next == NextRow(dir, Selectable, row)
<1>1. /\ A \in SUBSET shown /\ A \in SUBSET Nat /\ IsFiniteSet(A) /\ selected_visible \in Nat
      /\ \A j : j \in A <=> j \in Selectable \cap shown /\ Before(dir, selected_visible, RowOf(j))
  BY AheadIs
<1>2. /\ i \in A /\ Rank(dir, A, i) < n
      /\ \A j \in A : Before(dir, i, j) => ~(Rank(dir, A, j) < n)
  BY DEF LastIs
<1>3. /\ \A j \in shown : RowOf(j) \in Nat
      /\ \A j, k \in shown : Before(dir, RowOf(j), RowOf(k)) <=> Before(dir, j, k)
  BY RowsFollowItems
<1>4. row \in Nat /\ Before(dir, selected_visible, row) /\ row \in rows
  BY <1>1, <1>2, <1>3
<1>5. /\ next \in Nat
      /\ rows # {} => next \in rows
      /\ \A r \in rows : Before(dir, row, r) => Before(dir, row, next) /\ ~Before(dir, r, next)
      /\ (\A r \in rows : ~Before(dir, row, r)) => \A r \in rows : ~Before(dir, r, next)
  BY <1>4, NextRowIs
<1>6. ClampedStep(dir, row) = IF Before(dir, next, row) THEN row ELSE next
  BY <1>4, <1>5, AlongDirection DEF ClampedStep
<1>7. /\ \A j \in A : Rank(dir, A, j) \in Nat
      /\ \A j, k \in A : Before(dir, j, k) => Rank(dir, A, j) < Rank(dir, A, k)
      /\ \A j, k \in A : Before(dir, j, k) /\ (\A m \in A : Before(dir, j, m) => ~Before(dir, m, k))
           => Rank(dir, A, k) = Rank(dir, A, j) + 1
  BY <1>1, Ranks
<1>8. \A j \in Selectable \cap shown : Before(dir, row, RowOf(j)) => j \in A /\ Before(dir, i, j)
  <2>1. \A j \in Selectable \cap shown :
          Before(dir, row, RowOf(j)) => Before(dir, selected_visible, RowOf(j))
    BY <1>1, <1>3, <1>4 DEF Before
  <2> QED
    BY <1>1, <1>2, <1>3, <2>1
<1> HIDE DEF A, row, next
<1>9. CASE \E r \in rows : Before(dir, row, r)
  <2>1. Before(dir, row, next) /\ next \in rows
    BY <1>5, <1>9
  <2>2. PICK k \in Selectable \cap shown : next = RowOf(k)
    BY <2>1
  <2>3. k \in A /\ Before(dir, i, k) /\ ClampedStep(dir, row) = RowOf(k)
    BY <1>4, <1>5, <1>6, <1>8, <2>1, <2>2 DEF Before
  <2>4. \A m \in A : Before(dir, i, m) => ~Before(dir, m, k)
    <3> SUFFICES ASSUME NEW m \in A, Before(dir, i, m)
                 PROVE  ~Before(dir, m, k)
      OBVIOUS
    <3>1. Before(dir, row, RowOf(m)) /\ RowOf(m) \in rows
      BY <1>1, <1>2, <1>3 DEF row
    <3>2. ~Before(dir, RowOf(m), RowOf(k))
      BY <1>5, <2>2, <3>1
    <3> QED
      BY <1>1, <1>3, <2>3, <3>2
  <2>5. Rank(dir, A, k) = Rank(dir, A, i) + 1 /\ Rank(dir, A, i) \in Nat
    BY <1>2, <1>7, <2>3, <2>4
  <2>6. \A j \in A : Before(dir, k, j) => ~(Rank(dir, A, j) < n + 1)
    <3> SUFFICES ASSUME NEW j \in A, Before(dir, k, j)
                 PROVE  ~(Rank(dir, A, j) < n + 1)
      OBVIOUS
    <3>1. Rank(dir, A, k) < Rank(dir, A, j) /\ ~(Rank(dir, A, k) < n)
      BY <1>2, <1>7, <2>3
    <3>2. Rank(dir, A, k) \in Nat /\ Rank(dir, A, j) \in Nat
      BY <1>7, <2>3
    <3> QED
      BY <3>1, <3>2
  <2>7. LastIs(dir, A, n + 1, k)
    BY <1>2, <2>3, <2>5, <2>6 DEF LastIs
  <2> QED
    BY <2>3, <2>7 DEF A, row
<1>10. CASE \A r \in rows : ~Before(dir, row, r)
  <2>1. ~Before(dir, row, next)
    BY <1>4, <1>5, <1>10
  <2>2. ClampedStep(dir, row) = row
    BY <1>4, <1>5, <1>6, <2>1 DEF Before
  <2>3. \A j \in A : ~Before(dir, i, j)
    BY <1>1, <1>2, <1>3, <1>10 DEF row
  <2>4. Rank(dir, A, i) < n + 1
    BY <1>2, <1>7
  <2>5. LastIs(dir, A, n + 1, i)
    BY <1>2, <2>3, <2>4 DEF LastIs
  <2> QED
    BY <2>2, <2>5 DEF A, row
<1> QED
  BY <1>9, <1>10

\* The passes of the loop end where the closed form says.
LEMMA PassesEndAtPage ==
  ASSUME TypeOK, NEW dir \in {1, -1}, NEW N \in Nat, NEW g \in [0 .. N -> Nat],
         g[0] = selected_visible, \A n \in 1 .. N : g[n] = ClampedStep(dir, g[n - 1])
  PROVE  \A n \in 1 .. N : g[n] = PageRow(dir, n)
<1> DEFINE A == Ahead(dir)
<1>1. CASE A = {}
  <2> DEFINE T == {n \in 0 .. N : g[n] = selected_visible}
  <2>1. 0 \in T
    OBVIOUS
  <2>2. \A n \in 0 .. N - 1 : n \in T => n + 1 \in T
    <3> SUFFICES ASSUME NEW n \in 0 .. N - 1, n \in T
                 PROVE  n + 1 \in T
      OBVIOUS
    <3>1. n + 1 \in 1 .. N /\ (n + 1) - 1 = n /\ g[n] = selected_visible
      OBVIOUS
    <3>2. g[n + 1] = ClampedStep(dir, selected_visible)
      BY <3>1
    <3> QED
      BY <1>1, <3>1, <3>2, FirstPass
  <2> HIDE DEF T
  <2>3. \A n \in 0 .. N : n \in T
    BY <2>1, <2>2, Upwards
  <2>4. \A n \in 1 .. N : PageRow(dir, n) = selected_visible
    BY <1>1 DEF PageRow, Ahead
  <2> QED
    BY <2>3, <2>4 DEF T
<1>2. CASE A # {}
  <2> DEFINE T == {n \in 0 .. N : n # 0 => \E i : LastIs(dir, A, n, i) /\ g[n] = RowOf(i)}
  <2>1. 0 \in T
    OBVIOUS
  <2>2. \A n \in 0 .. N - 1 : n \in T => n + 1 \in T
    <3> SUFFICES ASSUME NEW n \in 0 .. N - 1, n \in T
                 PROVE  n + 1 \in T
      OBVIOUS
    <3>1. n + 1 \in 1 .. N /\ (n + 1) - 1 = n /\ g[n + 1] = ClampedStep(dir, g[n]) /\ n \in Nat
      OBVIOUS
    <3>2. CASE n = 0
      <4>1. \E i : LastIs(dir, A, 1, i) /\ ClampedStep(dir, selected_visible) = RowOf(i)
        BY <1>2, FirstPass
      <4> QED
        BY <3>1, <3>2, <4>1
    <3>3. CASE n # 0
      <4>1. PICK i : LastIs(dir, A, n, i) /\ g[n] = RowOf(i)
        BY <3>3
      <4>2. \E k : LastIs(dir, A, n + 1, k) /\ ClampedStep(dir, RowOf(i)) = RowOf(k)
        BY <3>1, <4>1, NextPass
      <4> QED
        BY <3>1, <4>1, <4>2
    <3> QED
      BY <3>2, <3>3
  <2> HIDE DEF T
  <2>3. \A n \in 0 .. N : n \in T
    BY <2>1, <2>2, Upwards
  <2> SUFFICES ASSUME NEW n \in 1 .. N
               PROVE  g[n] = PageRow(dir, n)
    OBVIOUS
  <2>4. n \in 0 .. N /\ n \in Nat \ {0}
    OBVIOUS
  <2>5. PICK i : LastIs(dir, A, n, i) /\ g[n] = RowOf(i)
    BY <2>3, <2>4 DEF T
  <2>6. PICK k : LastIs(dir, A, n, k) /\ PageRow(dir, n) = RowOf(k)
    BY <1>2, <2>4, PageRowIsLast
  <2>7. i = k
    <3>1. A \in SUBSET Nat
      BY AheadIs
    <3> HIDE DEF A
    <3> QED
      BY <2>5, <2>6, <3>1, LastIsUnique
  <2> QED
    BY <2>5, <2>6, <2>7
<1> QED
  BY <1>1, <1>2

\* The wrapping scan and the clamped step lead from rows to rows.
LEMMA StepsAreRows ==
  ASSUME TypeOK, NEW dir \in {1, -1}, NEW row \in Nat
  PROVE  /\ \A S : NextRow(dir, S, row) \in Nat
         /\ ClampedStep(dir, row) \in Nat
<1>1. \A S : NextRow(dir, S, row) \in Nat
  BY NextRowIs
<1> QED
  BY <1>1 DEF ClampedStep

-----------------------------------------------------------------------------
(* Cycles and pages, for every menu *)

\* As many presses of an ambiguous mnemonic as it has shown matches visit each of them,
\* whatever the menu, the filter and the selected row (tui_menu_state_mnemonic_jump).
THEOREM MnemonicAlwaysVisitsAll == Spec => []MnemonicCycleVisitsAll
<1>1. ASSUME TypeOK, NEW key \in Keys
      PROVE  LET matches == MnemonicMatches(key) \cap shown
                 row[n \in 0 .. Cardinality(matches)] ==
                   IF n = 0 THEN selected_visible ELSE NextRow(1, matches, row[n - 1])
             IN {row[n] : n \in 1 .. Cardinality(matches)} = {RowOf(i) : i \in matches}
  <2> DEFINE M == MnemonicMatches(key) \cap shown
             N == Cardinality(M)
             F == [n \in 1 .. N |-> [r \in Nat |-> NextRow(1, M, r)]]
             Eq(g) == g = [n \in 0 .. N |-> IF n = 0 THEN selected_visible ELSE NextRow(1, M, g[n - 1])]
             row == CHOOSE g : Eq(g)
  <2>1. M \in SUBSET shown /\ N \in Nat /\ selected_visible \in Nat
    <3>1. M \in SUBSET shown /\ IsFiniteSet(shown) /\ selected_visible \in Nat
      BY <1>1, RowsFollowItems DEF TypeOK
    <3> HIDE DEF M
    <3>2. IsFiniteSet(M)
      BY <3>1, FS_Subset
    <3> QED
      BY <3>1, <3>2, FS_CardinalityType
  <2>2. F \in [1 .. N -> [Nat -> Nat]]
    <3>1. \A r \in Nat : NextRow(1, M, r) \in Nat
      BY <1>1, StepsAreRows
    <3> HIDE DEF M, N
    <3> QED
      BY <3>1
  <2>3. PICK g : Folded(g, Nat, selected_visible, N, F)
    <3> HIDE DEF F, N
    <3> QED
      BY <2>1, <2>2, FoldExists
  <2>4. /\ g \in [0 .. N -> Nat] /\ g[0] = selected_visible
        /\ \A n \in 1 .. N : g[n] = NextRow(1, M, g[n - 1])
    <3>1. /\ g \in [0 .. N -> Nat] /\ g[0] = selected_visible
          /\ \A n \in 1 .. N : g[n] = F[n][g[n - 1]]
      BY <2>3 DEF Folded
    <3>2. \A n \in 1 .. N : g[n - 1] \in Nat
      <4> HIDE DEF N
      <4> QED
        BY <2>1, <3>1
    <3> HIDE DEF M, N
    <3> QED
      BY <3>1, <3>2
  <2>5. Eq(g)
    <3> HIDE DEF M, N
    <3> QED
      BY <2>1, <2>4
  <2>6. Eq(row)
    <3> HIDE DEF Eq
    <3> QED
      BY <2>5
  <2> HIDE DEF row
  <2>7. \A n \in 0 .. N : row[n] = g[n]
    <3> DEFINE T == {n \in 0 .. N : row[n] = g[n]}
    <3> HIDE DEF M, N
    <3>1. \A n \in 0 .. N : row[n] = IF n = 0 THEN selected_visible ELSE NextRow(1, M, row[n - 1])
      BY <2>6
    <3>2. 0 \in T
      BY <2>1, <2>4, <3>1
    <3>3. \A n \in 0 .. N - 1 : n \in T => n + 1 \in T
      <4> SUFFICES ASSUME NEW n \in 0 .. N - 1, n \in T
                   PROVE  n + 1 \in T
        OBVIOUS
      <4>1. n + 1 \in 1 .. N /\ n + 1 \in 0 .. N /\ (n + 1) - 1 = n /\ n + 1 # 0 /\ row[n] = g[n]
        BY <2>1
      <4> QED
        BY <2>4, <3>1, <4>1
    <3> HIDE DEF T
    <3>4. \A n \in 0 .. N : n \in T
      BY <2>1, <3>2, <3>3, Upwards
    <3> QED
      BY <3>4 DEF T
  <2>8. {row[n] : n \in 1 .. N} = {RowOf(i) : i \in M}
    <3>1. {g[n] : n \in 1 .. N} = {RowOf(i) : i \in M}
      <4> HIDE DEF M
      <4> QED
        BY <1>1, <2>1, <2>4, CycleVisitsAll
    <3>2. \A n \in 1 .. N : row[n] = g[n]
      <4> HIDE DEF N
      <4> QED
        BY <2>1, <2>7
    <3> HIDE DEF M, N
    <3> QED
      BY <3>1, <3>2
  <2> QED
    BY <2>8 DEF row
<1>2. TypeOK => MnemonicCycleVisitsAll
  BY <1>1 DEF MnemonicCycleVisitsAll
<1> QED
  BY <1>2, TypeCorrect, PTL

\* A page is as many single steps that never wrap, for pages of any size and whatever
\* is selected (tui_menu_state_page).
THEOREM PagesAreClampedSteps == Spec => []PageIsClampedSteps
<1>1. ASSUME TypeOK, NEW dir \in {1, -1}, NEW page_size \in Viewports
      PROVE  LET row[n \in 0 .. page_size] ==
                   IF n = 0 THEN selected_visible ELSE ClampedStep(dir, row[n - 1])
             IN PageRow(dir, page_size) = row[page_size]
  <2> DEFINE N == page_size
             F == [n \in 1 .. N |-> [r \in Nat |-> ClampedStep(dir, r)]]
             Eq(g) == g = [n \in 0 .. N |-> IF n = 0 THEN selected_visible ELSE ClampedStep(dir, g[n - 1])]
             row == CHOOSE g : Eq(g)
  <2>1. N \in Nat \ {0} /\ selected_visible \in Nat
    BY <1>1, MenuAssumption DEF TypeOK
  <2>2. F \in [1 .. N -> [Nat -> Nat]]
    <3>1. \A r \in Nat : ClampedStep(dir, r) \in Nat
      BY <1>1, StepsAreRows
    <3> QED
      BY <3>1
  <2>3. PICK g : Folded(g, Nat, selected_visible, N, F)
    <3> HIDE DEF F
    <3> QED
      BY <2>1, <2>2, FoldExists
  <2>4. /\ g \in [0 .. N -> Nat] /\ g[0] = selected_visible
        /\ \A n \in 1 .. N : g[n] = ClampedStep(dir, g[n - 1])
    <3>1. /\ g \in [0 .. N -> Nat] /\ g[0] = selected_visible
          /\ \A n \in 1 .. N : g[n] = F[n][g[n - 1]]
      BY <2>3 DEF Folded
    <3>2. \A n \in 1 .. N : g[n - 1] \in Nat
      BY <2>1, <3>1
    <3> QED
      BY <3>1, <3>2
  <2>5. Eq(g)
    BY <2>1, <2>4
  <2>6. Eq(row)
    <3> HIDE DEF Eq
    <3> QED
      BY <2>5
  <2> HIDE DEF row
  <2>7. \A n \in 0 .. N : row[n] = g[n]
    <3> DEFINE T == {n \in 0 .. N : row[n] = g[n]}
    <3>1. \A n \in 0 .. N : row[n] = IF n = 0 THEN selected_visible ELSE ClampedStep(dir, row[n - 1])
      BY <2>6
    <3>2. 0 \in T
      BY <2>1, <2>4, <3>1
    <3>3. \A n \in 0 .. N - 1 : n \in T => n + 1 \in T
      <4> SUFFICES ASSUME NEW n \in 0 .. N - 1, n \in T
                   PROVE  n + 1 \in T
        OBVIOUS
      <4>1. n + 1 \in 1 .. N /\ n + 1 \in 0 .. N /\ (n + 1) - 1 = n /\ n + 1 # 0 /\ row[n] = g[n]
        BY <2>1
      <4> QED
        BY <2>4, <3>1, <4>1
    <3> HIDE DEF T
    <3>4. \A n \in 0 .. N : n \in T
      BY <2>1, <3>2, <3>3, Upwards
    <3> QED
      BY <3>4 DEF T
  <2>8. \A n \in 1 .. N : g[n] = PageRow(dir, n)
    BY <1>1, <2>1, <2>4, PassesEndAtPage
  <2>9. N \in 1 .. N /\ N \in 0 .. N
    BY <2>1
  <2>10. PageRow(dir, page_size) = row[page_size]
    BY <2>7, <2>8, <2>9
  <2> QED
    BY <2>10 DEF row
<1>2. TypeOK => PageIsClampedSteps
  BY <1>1 DEF PageIsClampedSteps
<1> QED
  BY <1>2, TypeCorrect, PTL

-----------------------------------------------------------------------------
(* The inductive invariant of a call of tui_show_menu *)

Statuses == {"none", "ok", "cancelled", "menu", "interrupted",
             "too_small", "invalid_arg", "no_memory"}

FrameOnScreen ==
  frame \in [h : Nat, w : Nat] /\ frame.h <= screen.rows /\ frame.w <= screen.cols

\* The frame lies on the terminal from the first layout to the return, although only
\* waiting needs it: a resize replaces both or ends the menu.  The window follows the
\* selection while the menu waits, and only an event ends the waiting.
MenuInvariant ==
  /\ IInv
  /\ pc \in {"entry", "loop", "wait", "blocked", "done"}
  /\ screen \in Screens /\ owns_frame \in BOOLEAN /\ interrupted \in BOOLEAN
  /\ woken \in BOOLEAN /\ beeped \in BOOLEAN
  /\ frame \in [h : Nat, w : Nat] \cup {NoFrame}
  /\ desired \in [h : Nat, w : Nat]
  /\ area \in Nat
  /\ (pc = "entry" /\ ~owns_frame) => FrameOnScreen
  /\ pc \in {"loop", "wait", "blocked"} => status = "live" /\ FrameOnScreen
  /\ Waiting =>
       /\ LayoutFits(frame) /\ area = Layout(frame).item_area_h
       /\ top_visible <= selected_visible /\ selected_visible < top_visible + area
  /\ result.status \in Statuses /\ result.selected_index \in Items \cup {NoItem}
  /\ result.status = "ok" => pc = "done"
  /\ ConfirmedItemShown

-----------------------------------------------------------------------------
(* Frames *)

LEMMA FrameIsCentered ==
  ASSUME NEW scr \in Screens, NEW height \in Nat, NEW width \in Nat,
         NEW f \in CenteredWindow(scr, height, width)
  PROVE  f = NoFrame \/ (f \in [h : Nat, w : Nat] /\ f.h <= scr.rows /\ f.w <= scr.cols)
<1>1. scr.rows \in Nat /\ scr.cols \in Nat
  BY ControllerAssumption
<1> QED
  BY <1>1 DEF CenteredWindow, MinOf

LEMMA FrameIsRecentered ==
  ASSUME NEW scr \in Screens, desired \in [h : Nat, w : Nat], NEW f \in Recentered(scr)
  PROVE  f = NoFrame \/ (f \in [h : Nat, w : Nat] /\ f.h <= scr.rows /\ f.w <= scr.cols)
<1>1. scr.rows \in Nat /\ scr.cols \in Nat
  BY ControllerAssumption
<1> QED
  BY <1>1 DEF Recentered, MinOf

\* The rows of a frame that fits its layout.
LEMMA LayoutRows ==
  ASSUME NEW f \in [h : Nat, w : Nat], LayoutFits(f)
  PROVE  /\ Layout(f).item_area_h \in Nat /\ Layout(f).item_area_h >= 3
         /\ Layout(f).title_y < Layout(f).rule_y /\ Layout(f).footer_y < f.h
         /\ Layout(f).rule_y < Layout(f).item_area_y
         /\ Layout(f).item_area_y + Layout(f).item_area_h < Layout(f).footer_y
         /\ Layout(f).rule_y \in Nat /\ Layout(f).item_area_y \in Nat
         /\ Layout(f).footer_y \in Nat /\ Layout(f).title_y \in Nat
<1>1. CASE f.h >= 12
  BY <1>1 DEF LayoutFits, Layout, MENU_MIN_ITEM_ROWS
<1>2. CASE f.h < 12
  BY <1>2 DEF LayoutFits, Layout, MENU_MIN_ITEM_ROWS
<1> QED
  BY <1>1, <1>2

-----------------------------------------------------------------------------
(* The loop *)

LEMMA MenuStarts == MenuInit => MenuInvariant
<1> SUFFICES ASSUME MenuInit PROVE MenuInvariant
  OBVIOUS
<1>1. IInv /\ cfg \in Configs
  BY InitInvariant DEF MenuInit, Init
<1>2. screen \in Screens /\ owns_frame \in BOOLEAN
  BY DEF MenuInit
<1>3. CASE owns_frame
  <2>1. frame = NoFrame
    BY <1>3 DEF MenuInit
  <2>2. desired \in [h : Nat, w : Nat]
    BY <1>1, <1>3, ControllerAssumption DEF MenuInit
  <2> QED
    BY <1>1, <1>2, <1>3, <2>1, <2>2
    DEF MenuInit, MenuInvariant, Waiting, ConfirmedItemShown, Statuses
<1>4. CASE ~owns_frame
  <2>1. frame \in CenteredWindow(screen, 20, 72) /\ frame # NoFrame
    BY <1>4 DEF MenuInit
  <2>2. FrameOnScreen
    BY <1>2, <2>1, FrameIsCentered DEF FrameOnScreen
  <2>3. desired \in [h : Nat, w : Nat]
    BY <1>1, <1>4, <2>2, ControllerAssumption DEF MenuInit, FrameOnScreen
  <2> QED
    BY <1>1, <1>2, <2>2, <2>3
    DEF MenuInit, MenuInvariant, Waiting, ConfirmedItemShown, Statuses, FrameOnScreen
<1> QED
  BY <1>2, <1>3, <1>4

\* A call that ends without an item ends as the invariant wants it.
LEMMA Ended ==
  ASSUME MenuInvariant, IInv', cfg' = cfg,
         screen' \in Screens, frame' \in [h : Nat, w : Nat] \cup {NoFrame}, area' \in Nat,
         UNCHANGED <<owns_frame, desired>>, interrupted' \in BOOLEAN,
         woken' \in BOOLEAN, beeped' \in BOOLEAN,
         NEW st \in Statuses \ {"ok"}, Finish(st, NoItem)
  PROVE  MenuInvariant'
<1>1. pc' = "done" /\ result'.status = st /\ result'.selected_index = NoItem
  BY DEF Finish
<1> QED
  BY <1>1 DEF MenuInvariant, Waiting, ConfirmedItemShown

\* So does one that goes round again, with a frame that lies on the terminal.
LEMMA WentOn ==
  ASSUME MenuInvariant, pc # "done", IInv', cfg' = cfg, status' = "live",
         screen' \in Screens, FrameOnScreen', area' \in Nat,
         UNCHANGED <<owns_frame, desired>>, interrupted' \in BOOLEAN,
         woken' \in BOOLEAN, beeped' \in BOOLEAN, Again
  PROVE  MenuInvariant'
<1>1. pc' = "loop" /\ result' = result
  BY DEF Again
<1>2. Items' = Items
  BY DEF Items
<1> QED
  BY <1>1, <1>2 DEF MenuInvariant, Waiting, ConfirmedItemShown, FrameOnScreen

LEMMA EnterKeeps ==
  ASSUME MenuInvariant, NEW memory \in BOOLEAN, Enter(memory)
  PROVE  MenuInvariant'
<1>1. /\ pc = "entry" /\ Create(memory) /\ result.status # "ok"
      /\ UNCHANGED <<screen, owns_frame, desired, area, interrupted, woken, beeped>>
  BY DEF Enter, MenuInvariant
<1>2. IInv' /\ cfg' = cfg
  BY <1>1, CreatePreserves DEF MenuInvariant, Create
<1>3. status' \in {"live", "invalid_arg", "no_memory"}
  BY <1>1 DEF Create
<1>4. /\ screen' \in Screens /\ area' \in Nat /\ interrupted' \in BOOLEAN
      /\ woken' \in BOOLEAN /\ beeped' \in BOOLEAN
      /\ frame \in [h : Nat, w : Nat] \cup {NoFrame}
      /\ desired.h \in Nat /\ desired.w \in Nat /\ desired \in [h : Nat, w : Nat]
      /\ screen \in Screens /\ (~owns_frame => FrameOnScreen)
  BY <1>1 DEF MenuInvariant
<1>5. CASE status' # "live"
  <2>1. Finish(status', NoItem) /\ UNCHANGED frame
    BY <1>5 DEF Enter
  <2>2. status' \in Statuses \ {"ok"}
    BY <1>3, <1>5 DEF Statuses
  <2> QED
    BY <1>1, <1>2, <1>4, <2>1, <2>2, Ended
<1>6. CASE status' = "live"
  <2>1. \/ Finish("too_small", NoItem) /\ frame' \in [h : Nat, w : Nat] \cup {NoFrame}
        \/ Again /\ FrameOnScreen'
    <3>1. CASE owns_frame
      <4>1. /\ frame' \in CenteredWindow(screen, desired.h, desired.w)
            /\ IF frame' = NoFrame THEN Finish("too_small", NoItem) ELSE Again
        BY <1>6, <3>1 DEF Enter
      <4> QED
        BY <1>1, <1>4, <4>1, FrameIsCentered DEF FrameOnScreen
    <3>2. CASE ~owns_frame /\ (cfg.frame_height > 0 \/ cfg.frame_width > 0)
      <4>1. PICK f \in Recentered(screen) :
              IF f = NoFrame THEN Finish("too_small", NoItem) /\ UNCHANGED frame
              ELSE Again /\ frame' = f
        BY <1>6, <3>2 DEF Enter
      <4> QED
        BY <1>1, <1>4, <4>1, FrameIsRecentered DEF FrameOnScreen
    <3>3. CASE ~owns_frame /\ ~(cfg.frame_height > 0 \/ cfg.frame_width > 0)
      <4>1. Again /\ UNCHANGED frame
        BY <1>6, <3>3 DEF Enter
      <4> QED
        BY <1>1, <1>4, <3>3, <4>1 DEF FrameOnScreen
    <3> QED
      BY <3>1, <3>2, <3>3
  <2>2. "too_small" \in Statuses \ {"ok"} /\ pc # "done"
    BY <1>1 DEF Statuses
  <2> QED
    BY <1>1, <1>2, <1>4, <1>6, <2>1, <2>2, Ended, WentOn
<1> QED
  BY <1>5, <1>6

\* Scrolling to the selection.
LEMMA ScrollKeeps ==
  ASSUME IInv, NEW rows \in Nat \ {0}, EnsureSelectionVisible(rows)
  PROVE  /\ IInv' /\ UNCHANGED <<cfg, status, shown, selected_visible>>
         /\ top_visible' <= selected_visible' /\ selected_visible' < top_visible' + rows
<1>1. rows \in Nat /\ top_visible \in Nat /\ selected_visible \in Nat
  BY DEF IInv, TypeOK
<1>2. top_visible' \in Nat
  BY <1>1 DEF EnsureSelectionVisible
<1>3. /\ UNCHANGED <<cfg, status, rowVars, searchVars>> /\ status = "live"
      /\ UNCHANGED <<shown, selected_visible>>
  BY DEF EnsureSelectionVisible, rowVars
<1>4. IInv'
  <2>1. /\ UNCHANGED <<cfg, rowVars, searchVars>>
        /\ status' \in {"uncreated", "live", "invalid_arg", "no_memory"}
        /\ (status = "live") <=> (status' = "live")
    BY <1>3
  <2> QED
    BY <1>2, <2>1, RowsUnchangedPreserves
<1>5. top_visible' <= selected_visible /\ selected_visible < top_visible' + rows
  BY <1>1 DEF EnsureSelectionVisible
<1> QED
  BY <1>3, <1>4, <1>5

LEMMA LoopTopKeeps ==
  ASSUME MenuInvariant, LoopTop
  PROVE  MenuInvariant'
<1>1. /\ pc = "loop" /\ UNCHANGED <<screen, frame, owns_frame, desired, interrupted, woken, beeped>>
      /\ result.status # "ok"
  BY DEF LoopTop, MenuInvariant, viewVars
<1>2. /\ screen' \in Screens /\ interrupted' \in BOOLEAN /\ woken' \in BOOLEAN
      /\ beeped' \in BOOLEAN /\ FrameOnScreen /\ FrameOnScreen' /\ status = "live"
      /\ IInv /\ area \in Nat /\ frame' \in [h : Nat, w : Nat] \cup {NoFrame}
  BY <1>1 DEF MenuInvariant, FrameOnScreen
<1>3. CASE interrupted \/ ~LayoutFits(frame)
  <2>1. /\ Finish("interrupted", NoItem) \/ Finish("too_small", NoItem)
        /\ UNCHANGED modelVars /\ UNCHANGED area
    BY <1>3 DEF LoopTop
  <2>2. IInv' /\ cfg' = cfg
    BY <1>2, <2>1, StepInvariant DEF modelVars
  <2>3. {"interrupted", "too_small"} \subseteq Statuses \ {"ok"}
    BY DEF Statuses
  <2> QED
    BY <1>1, <1>2, <2>1, <2>2, <2>3, Ended
<1>4. CASE ~interrupted /\ LayoutFits(frame)
  <2>1. /\ area' = Layout(frame).item_area_h /\ EnsureSelectionVisible(area')
        /\ pc' = "wait" /\ result' = result
    BY <1>4 DEF LoopTop
  <2>2. area' \in Nat \ {0} /\ frame \in [h : Nat, w : Nat]
    BY <1>2, <1>4, <2>1, LayoutRows DEF FrameOnScreen
  <2>3. /\ IInv' /\ UNCHANGED <<cfg, status, shown, selected_visible>>
        /\ top_visible' <= selected_visible' /\ selected_visible' < top_visible' + area'
    BY <1>2, <2>1, <2>2, ScrollKeeps
  <2>4. LayoutFits(frame') /\ area' = Layout(frame').item_area_h
    BY <1>1, <1>4, <2>1
  <2>5. Items' = Items
    BY <2>3 DEF Items
  <2> QED
    BY <1>1, <1>2, <2>1, <2>2, <2>3, <2>4, <2>5
    DEF MenuInvariant, Waiting, ConfirmedItemShown
<1> QED
  BY <1>3, <1>4

\* The model stands still.
LEMMA StillKeeps ==
  ASSUME IInv, UNCHANGED modelVars
  PROVE  /\ IInv' /\ Items' = Items /\ Selectable' = Selectable
         /\ UNCHANGED <<cfg, status, shown, selected_visible, top_visible, query, search_active>>
<1>1. UNCHANGED <<cfg, status, shown, selected_visible, top_visible, query, search_active>>
  BY DEF modelVars, rowVars, searchVars
<1>2. IInv'
  BY StepInvariant
<1> QED
  BY <1>1, <1>2 DEF Items, Selectable

\* wgetch is entered, or a signal comes: everything but pc, woken and interrupted stays.
LEMMA FlagsKeep ==
  ASSUME MenuInvariant, UNCHANGED <<modelVars, viewVars, area, beeped, result>>,
         interrupted' \in BOOLEAN, woken' \in BOOLEAN,
         pc' = pc \/ (pc = "wait" /\ pc' = "blocked")
  PROVE  MenuInvariant'
<1>1. /\ IInv' /\ Items' = Items /\ Selectable' = Selectable
      /\ UNCHANGED <<cfg, status, shown, selected_visible, top_visible>>
  BY StillKeeps DEF MenuInvariant
<1>2. UNCHANGED <<screen, frame, owns_frame, desired>>
  BY DEF viewVars
<1> QED
  BY <1>1, <1>2 DEF MenuInvariant, Waiting, ConfirmedItemShown, FrameOnScreen

LEMMA ReadErrorKeeps ==
  ASSUME MenuInvariant, ReadError
  PROVE  MenuInvariant'
<1>1. /\ pc = "blocked" /\ UNCHANGED <<screen, frame, owns_frame, desired, area, interrupted, beeped>>
      /\ UNCHANGED modelVars /\ woken' = FALSE
      /\ Finish("interrupted", NoItem) \/ Again
  BY DEF ReadError, viewVars
<1>2. /\ screen' \in Screens /\ interrupted' \in BOOLEAN /\ woken' \in BOOLEAN
      /\ beeped' \in BOOLEAN /\ FrameOnScreen' /\ status = "live" /\ IInv /\ area' \in Nat
      /\ frame' \in [h : Nat, w : Nat] \cup {NoFrame}
  BY <1>1 DEF MenuInvariant, FrameOnScreen
<1>3. IInv' /\ cfg' = cfg /\ status' = "live"
  BY <1>1, <1>2, StillKeeps
<1>4. "interrupted" \in Statuses \ {"ok"}
  BY DEF Statuses
<1> QED
  BY <1>1, <1>2, <1>3, <1>4, Ended, WentOn

LEMMA KeyResizeKeeps ==
  ASSUME MenuInvariant, NEW scr \in Screens, KeyResize(scr)
  PROVE  MenuInvariant'
<1>1. /\ pc = "blocked" /\ screen' = scr
      /\ UNCHANGED <<owns_frame, desired, area, interrupted, woken, beeped>> /\ UNCHANGED modelVars
  BY DEF KeyResize
<1>2. /\ screen' \in Screens /\ interrupted' \in BOOLEAN /\ woken' \in BOOLEAN
      /\ beeped' \in BOOLEAN /\ status = "live" /\ IInv /\ area' \in Nat
      /\ desired.h \in Nat /\ desired.w \in Nat /\ desired \in [h : Nat, w : Nat]
      /\ frame \in [h : Nat, w : Nat] \cup {NoFrame}
  BY <1>1 DEF MenuInvariant
<1>3. IInv' /\ cfg' = cfg /\ status' = "live"
  BY <1>1, <1>2, StillKeeps
<1>4. \/ Finish("too_small", NoItem) /\ frame' \in [h : Nat, w : Nat] \cup {NoFrame}
      \/ Again /\ FrameOnScreen'
  <2>1. CASE owns_frame
    <3>1. /\ frame' \in CenteredWindow(scr, desired.h, desired.w)
          /\ IF frame' = NoFrame THEN Finish("too_small", NoItem) ELSE Again
      BY <2>1 DEF KeyResize
    <3> QED
      BY <1>1, <1>2, <3>1, FrameIsCentered DEF FrameOnScreen
  <2>2. CASE ~owns_frame
    <3>1. PICK f \in Recentered(scr) :
            IF f = NoFrame THEN Finish("too_small", NoItem) /\ UNCHANGED frame
            ELSE Again /\ frame' = f
      BY <2>2 DEF KeyResize
    <3> QED
      BY <1>1, <1>2, <3>1, FrameIsRecentered DEF FrameOnScreen
  <2> QED
    BY <2>1, <2>2
<1>5. "too_small" \in Statuses \ {"ok"}
  BY DEF Statuses
<1> QED
  BY <1>1, <1>2, <1>3, <1>4, <1>5, Ended, WentOn

-----------------------------------------------------------------------------
(* Keys and clicks *)

\* What an event may do, once the model has made its step: go round again, leave, or
\* return an item that the step left visible and that may be chosen.
EventAllowed ==
  /\ beeped' \in BOOLEAN
  /\ \/ Again
     \/ \E st \in Statuses \ {"ok"} : Finish(st, NoItem)
     \/ \E i \in (shown \cap Selectable)' : Finish("ok", i)

LEMMA HandledKeeps ==
  ASSUME MenuInvariant, pc = "blocked", IInv', cfg' = cfg, status' = "live",
         UNCHANGED <<viewVars, area, interrupted, woken>>, EventAllowed
  PROVE  MenuInvariant'
<1>1. UNCHANGED <<screen, frame, owns_frame, desired, area, interrupted, woken>>
  BY DEF viewVars
<1>2. /\ screen' \in Screens /\ interrupted' \in BOOLEAN /\ woken' \in BOOLEAN
      /\ beeped' \in BOOLEAN /\ FrameOnScreen' /\ area' \in Nat
      /\ frame' \in [h : Nat, w : Nat] \cup {NoFrame}
  BY <1>1 DEF MenuInvariant, FrameOnScreen, EventAllowed
<1>3. CASE Again
  BY <1>1, <1>2, <1>3, WentOn
<1>4. CASE \E st \in Statuses \ {"ok"} : Finish(st, NoItem)
  BY <1>1, <1>2, <1>4, Ended
<1>5. CASE \E i \in (shown \cap Selectable)' : Finish("ok", i)
  <2>1. PICK i \in (shown \cap Selectable)' : Finish("ok", i)
    BY <1>5
  <2>2. pc' = "done" /\ result'.status = "ok" /\ result'.selected_index = i
    BY <2>1 DEF Finish
  <2>3. i \in Items' /\ "ok" \in Statuses
    BY DEF Selectable, Statuses
  <2> QED
    BY <1>1, <1>2, <2>2, <2>3 DEF MenuInvariant, Waiting, ConfirmedItemShown
<1> QED
  BY <1>3, <1>4, <1>5 DEF EventAllowed

\* Going on and leaving are allowed after every step of the model.
LEMMA PlainEvents ==
  /\ None => EventAllowed
  /\ Beep => EventAllowed
  /\ \A st \in {"menu", "cancelled"} : Leave(st) => EventAllowed
BY DEF None, Beep, Leave, EventAllowed, Statuses

\* Confirming is, if the item is among the rows that are shown.
LEMMA ConfirmEvent ==
  ASSUME NEW idx, Confirm(idx), cfg' = cfg, idx \in Selectable => idx \in shown'
  PROVE  EventAllowed
<1>1. Selectable' = Selectable
  BY DEF Selectable, Items
<1>2. CASE idx \in Selectable
  BY <1>1, <1>2 DEF Confirm, EventAllowed
<1>3. CASE idx \notin Selectable
  BY <1>3 DEF Confirm, Beep, EventAllowed
<1> QED
  BY <1>2, <1>3

\* A step of the model that moves the selection, and one that edits the query.
Moving(A) == A => IInv' /\ cfg' = cfg /\ status' = "live" /\ shown' = shown
Editing(A) == A => IInv' /\ cfg' = cfg /\ status' = "live"

LEMMA SelectRowMoves ==
  ASSUME IInv, NEW row, RowChosen(row)
  PROVE  Moving(SelectRow(row))
BY MovePreserves DEF Moving, SelectRow

LEMMA Moves ==
  ASSUME IInv
  PROVE  /\ Moving(Step(1)) /\ Moving(Step(-1)) /\ Moving(Home) /\ Moving(End)
         /\ \A n \in Nat \ {0} : Moving(Page(1, n)) /\ Moving(Page(-1, n))
         /\ \A row : Moving(SelectVisible(row))
         /\ \A key \in Keys : Moving(MnemonicJump(key))
<1>1. TypeOK
  BY DEF IInv
<1>2. Moving(Step(1)) /\ Moving(Step(-1))
  <2>1. /\ RowChosen(NextRow(1, Selectable, selected_visible))
        /\ RowChosen(NextRow(-1, Selectable, selected_visible))
    BY <1>1, NextRowChosen
  <2> QED
    BY <2>1, SelectRowMoves DEF Step
<1>3. Moving(Home) /\ Moving(End)
  BY <1>1, HomeEndRowChosen, SelectRowMoves DEF Home, End
<1>4. ASSUME NEW n \in Nat \ {0}
      PROVE  Moving(Page(1, n)) /\ Moving(Page(-1, n))
  <2>1. RowChosen(PageRow(1, n)) /\ RowChosen(PageRow(-1, n))
    BY <1>1, PageRowChosen
  <2> QED
    BY <2>1, SelectRowMoves DEF Page
<1>5. ASSUME NEW row
      PROVE  Moving(SelectVisible(row))
  <2> DEFINE new == IF \E i \in shown \cap Selectable : RowOf(i) = row
                    THEN row ELSE selected_visible
  <2>1. RowChosen(new)
    BY DEF RowChosen
  <2> HIDE DEF new
  <2>2. Moving(SelectRow(new))
    BY <2>1, SelectRowMoves
  <2> QED
    BY <2>2 DEF new, SelectVisible
<1>6. ASSUME NEW key \in Keys
      PROVE  Moving(MnemonicJump(key))
  <2> DEFINE new == IF MnemonicBeeps(key)
                    THEN NextRow(1, MnemonicMatches(key), selected_visible)
                    ELSE selected_visible
  <2>1. MnemonicMatches(key) \in SUBSET Selectable
    BY DEF MnemonicMatches
  <2>2. RowChosen(NextRow(1, MnemonicMatches(key), selected_visible))
    BY <1>1, <2>1, NextRowChosen
  <2>3. RowChosen(new)
    BY <2>2 DEF RowChosen
  <2> HIDE DEF new
  <2>4. Moving(SelectRow(new))
    BY <2>3, SelectRowMoves
  <2> QED
    BY <2>4 DEF new, MnemonicJump
<1> QED
  BY <1>2, <1>3, <1>4, <1>5, <1>6

LEMMA Edits ==
  ASSUME IInv
  PROVE  /\ Editing(SearchOpen) /\ Editing(SearchClose) /\ Editing(SearchBackspace)
         /\ \A ch \in Chars : Editing(SearchAppend(ch))
<1>1. SearchOpen \/ SearchClose \/ SearchBackspace \/ (\E ch \in Chars : SearchAppend(ch)) =>
        IInv'
  BY StepInvariant DEF Next
<1>2. SearchOpen \/ SearchClose \/ SearchBackspace \/ (\E ch \in Chars : SearchAppend(ch)) =>
        cfg' = cfg /\ status' = status /\ status = "live"
  BY DEF SearchOpen, SearchClose, SearchBackspace, SearchAppend, ApplyFilter, modelVars
<1> QED
  BY <1>1, <1>2 DEF Editing

\* The row that Enter confirms is shown.
LEMMA SelectedIsShown ==
  ASSUME IInv, SelectedIndex \in Selectable
  PROVE  SelectedIndex \in shown
<1>1. NoItem \notin Selectable
  <2>1. Items \in SUBSET Nat
    BY ItemsFinite DEF IInv, TypeOK
  <2> QED
    BY <2>1 DEF NoItem, Selectable
<1> QED
  BY <1>1 DEF SelectedIndex, SelectedItems

\* A mnemonic is looked up among all items, which are shown when no search is under way.
LEMMA MnemonicIsShown ==
  ASSUME IInv, status = "live", ~search_active, NEW i \in Selectable
  PROVE  i \in shown
BY DEF IInv, FilterIsCurrent, FilterOf, Selectable

LEMMA KeyInSearchKeeps ==
  ASSUME MenuInvariant, NEW key \in NavigationKeys \cup Chars, KeyInSearch(key)
  PROVE  MenuInvariant'
<1>1. IInv
  BY DEF MenuInvariant
<1>2. CASE Handle(SearchClose, None) \/ Handle(SearchBackspace, None)
  BY <1>1, <1>2, Edits, PlainEvents, HandledKeeps DEF Handle, Editing
<1>3. CASE \E ch \in Chars : Handle(SearchAppend(ch), None)
  BY <1>1, <1>3, Edits, PlainEvents, HandledKeeps DEF Handle, Editing
<1>4. CASE Handle(Still, None)
  <2>1. status = "live"
    BY <1>4 DEF Handle, MenuInvariant
  <2> QED
    BY <1>1, <1>4, <2>1, StillKeeps, PlainEvents, HandledKeeps DEF Handle, Still
<1>5. CASE Handle(Still, Confirm(SelectedIndex))
  <2>1. status = "live"
    BY <1>5 DEF Handle, MenuInvariant
  <2>2. cfg' = cfg /\ shown' = shown /\ IInv' /\ status' = "live"
    BY <1>1, <1>5, <2>1, StillKeeps DEF Handle, Still
  <2>3. EventAllowed
    BY <1>1, <1>5, <2>2, SelectedIsShown, ConfirmEvent DEF Handle
  <2> QED
    BY <1>5, <2>2, <2>3, HandledKeeps DEF Handle
<1> QED
  BY <1>2, <1>3, <1>4, <1>5 DEF KeyInSearch

\* A step of the model with an event that is allowed after every step.
LEMMA MovedKeeps ==
  ASSUME MenuInvariant, NEW ACTION A, Moving(A) \/ Editing(A), Handle(A, None) \/ Handle(A, Beep)
  PROVE  MenuInvariant'
BY PlainEvents, HandledKeeps DEF Handle, Moving, Editing

\* The model stands still, and an item may be confirmed.
LEMMA StillConfirmKeeps ==
  ASSUME MenuInvariant, NEW idx, Handle(Still, Confirm(idx)), idx \in Selectable => idx \in shown
  PROVE  MenuInvariant'
<1>1. IInv /\ status = "live"
  BY DEF MenuInvariant, Handle
<1>2. cfg' = cfg /\ shown' = shown /\ IInv' /\ status' = "live"
  BY <1>1, StillKeeps DEF Handle, Still
<1>3. EventAllowed
  BY <1>2, ConfirmEvent DEF Handle
<1> QED
  BY <1>2, <1>3, HandledKeeps DEF Handle

LEMMA StillEventKeeps ==
  ASSUME MenuInvariant,
         Handle(Still, None) \/ Handle(Still, Beep)
           \/ \E st \in {"menu", "cancelled"} : Handle(Still, Leave(st))
  PROVE  MenuInvariant'
<1>1. IInv /\ status = "live"
  BY DEF MenuInvariant, Handle
<1>2. cfg' = cfg /\ IInv' /\ status' = "live"
  BY <1>1, StillKeeps DEF Handle, Still
<1> QED
  BY <1>2, PlainEvents, HandledKeeps DEF Handle

LEMMA PlainKeyKeeps ==
  ASSUME MenuInvariant, NEW key, PlainKey(key)
  PROVE  MenuInvariant'
<1>1. IInv
  BY DEF MenuInvariant
<1>2. CASE \/ Handle(Step(1), None) \/ Handle(Step(-1), None)
           \/ Handle(Home, None) \/ Handle(End, None)
  BY <1>1, <1>2, Moves, MovedKeeps
<1>3. CASE Handle(Page(1, area), None) \/ Handle(Page(-1, area), None)
  <2>1. area \in Nat \ {0}
    <3>1. Waiting /\ frame \in [h : Nat, w : Nat] /\ LayoutFits(frame) /\ area = Layout(frame).item_area_h
      BY <1>3 DEF Handle, MenuInvariant, Waiting, FrameOnScreen
    <3> QED
      BY <3>1, LayoutRows
  <2>2. Moving(Page(1, area)) /\ Moving(Page(-1, area))
    BY <1>1, <2>1, Moves
  <2> QED
    BY <1>3, <2>2, MovedKeeps
<1>4. CASE Handle(Still, Confirm(SelectedIndex))
  BY <1>1, <1>4, SelectedIsShown, StillConfirmKeeps
<1>5. CASE \/ Handle(Still, Leave("menu")) \/ Handle(Still, Leave("cancelled"))
           \/ Handle(Still, None)
  BY <1>5, StillEventKeeps
<1>6. CASE Handle(SearchOpen, None)
  BY <1>1, <1>6, Edits, MovedKeeps
<1>7. CASE NumericKey(key)
  <2>1. CASE Handle(Still, Beep)
    BY <2>1, StillEventKeeps
  <2>2. CASE \E row : Handle(SelectVisible(row), None)
    BY <1>1, <2>2, Moves, MovedKeeps
  <2> QED
    BY <1>7, <2>1, <2>2 DEF NumericKey
<1>8. \/ Handle(Step(1), None) \/ Handle(Step(-1), None)
      \/ Handle(Home, None) \/ Handle(End, None)
      \/ Handle(Page(1, area), None) \/ Handle(Page(-1, area), None)
      \/ Handle(Still, Confirm(SelectedIndex))
      \/ Handle(Still, Leave("menu")) \/ Handle(Still, Leave("cancelled"))
      \/ Handle(Still, None)
      \/ Handle(SearchOpen, None) \/ NumericKey(key)
  BY DEF PlainKey
<1> QED
  BY <1>2, <1>3, <1>4, <1>5, <1>6, <1>7, <1>8

LEMMA KeyKeeps ==
  ASSUME MenuInvariant, NEW key \in NavigationKeys \cup Chars, Key(key)
  PROVE  MenuInvariant'
<1>1. IInv
  BY DEF MenuInvariant
<1>2. CASE search_active
  BY <1>2, KeyInSearchKeeps DEF Key
<1>3. CASE /\ ~search_active /\ key \in Keys /\ MnemonicReturn(key) # NoItem
  <2>1. Handle(Still, Confirm(MnemonicReturn(key)))
    BY <1>3 DEF Key
  <2>2. status = "live"
    BY <2>1 DEF Handle, MenuInvariant
  <2>3. MnemonicReturn(key) \in Selectable => MnemonicReturn(key) \in shown
    BY <1>1, <1>3, <2>2, MnemonicIsShown
  <2> QED
    BY <2>1, <2>3, StillConfirmKeeps
<1>4. CASE /\ ~search_active /\ ~(key \in Keys /\ MnemonicReturn(key) # NoItem)
           /\ key \in Keys /\ MnemonicBeeps(key)
  <2>1. Handle(MnemonicJump(key), Beep)
    BY <1>4 DEF Key
  <2> QED
    BY <1>1, <1>4, <2>1, Moves, MovedKeeps
<1>5. CASE /\ ~search_active /\ ~(key \in Keys /\ MnemonicReturn(key) # NoItem)
           /\ ~(key \in Keys /\ MnemonicBeeps(key))
  BY <1>5, PlainKeyKeeps DEF Key
<1> QED
  BY <1>2, <1>3, <1>4, <1>5

LEMMA MouseKeeps ==
  ASSUME MenuInvariant,
         \/ \E dir \in {1, -1} : Wheel(dir)
         \/ \E row \in 0 .. area - 1, double \in BOOLEAN : Click(row, double)
  PROVE  MenuInvariant'
<1>1. IInv
  BY DEF MenuInvariant
<1>2. CASE Wheel(1) \/ Wheel(-1)
  BY <1>1, <1>2, Moves, MovedKeeps DEF Wheel
<1>3. ASSUME NEW row, NEW double \in BOOLEAN, Click(row, double)
      PROVE  MenuInvariant'
  <2>1. PICK i \in shown :
          IF i \notin Selectable THEN Handle(Still, Beep)
          ELSE Handle(SelectVisible(RowOf(i)), IF double THEN Confirm(i) ELSE None)
    BY <1>3 DEF Click
  <2>2. CASE i \notin Selectable
    BY <2>1, <2>2, StillEventKeeps
  <2>3. CASE i \in Selectable /\ ~double
    BY <1>1, <2>1, <2>3, Moves, MovedKeeps
  <2>4. CASE i \in Selectable /\ double
    <3>1. Handle(SelectVisible(RowOf(i)), Confirm(i))
      BY <2>1, <2>4
    <3>2. IInv' /\ cfg' = cfg /\ status' = "live" /\ shown' = shown
      BY <1>1, <3>1, Moves DEF Handle, Moving
    <3>3. EventAllowed
      BY <2>4, <3>1, <3>2, ConfirmEvent DEF Handle
    <3> QED
      BY <3>1, <3>2, <3>3, HandledKeeps DEF Handle
  <2> QED
    BY <2>2, <2>3, <2>4
<1> QED
  BY <1>2, <1>3

-----------------------------------------------------------------------------
(* The menu *)

LEMMA MenuStep ==
  ASSUME MenuInvariant, [MenuNext]_menuVars
  PROVE  MenuInvariant'
<1>1. CASE \E memory \in BOOLEAN : Enter(memory)
  BY <1>1, EnterKeeps
<1>2. CASE LoopTop
  BY <1>2, LoopTopKeeps
<1>3. CASE Block
  BY <1>3, FlagsKeep DEF Block, MenuInvariant
<1>4. CASE ReadError
  BY <1>4, ReadErrorKeeps
<1>5. CASE User
  BY <1>5, KeyKeeps, MouseKeeps DEF User
<1>6. CASE Signal
  <2>1. interrupted' \in BOOLEAN /\ woken' \in BOOLEAN
    BY <1>6 DEF Signal
  <2> QED
    BY <1>6, <2>1, FlagsKeep DEF Signal
<1>7. CASE \E scr \in Screens : KeyResize(scr)
  BY <1>7, KeyResizeKeeps
<1>8. CASE UNCHANGED menuVars
  BY <1>8, FlagsKeep DEF menuVars, MenuInvariant
<1> QED
  BY <1>1, <1>2, <1>3, <1>4, <1>5, <1>6, <1>7, <1>8 DEF MenuNext, Program

\* The invariant of the menu's loop holds in every call.
THEOREM MenuInvariantHolds == MenuSpec => []MenuInvariant
<1>1. MenuInvariant /\ [MenuNext]_menuVars => MenuInvariant'
  BY MenuStep
<1> QED
  BY <1>1, MenuStarts, PTL DEF MenuSpec

\* The variables of a call keep their types, for every menu and terminal.
THEOREM MenuTypeCorrect == MenuSpec => []MenuTypeOK
<1>1. MenuInvariant => MenuTypeOK
  BY DEF MenuInvariant, IInv, MenuTypeOK, Statuses
<1> QED
  BY <1>1, MenuInvariantHolds, PTL

\* An item that tui_show_menu returns was visible and may be chosen, whichever of the
\* four ways it was confirmed.
THEOREM ConfirmedItemAlwaysShown == MenuSpec => []ConfirmedItemShown
<1>1. MenuInvariant => ConfirmedItemShown
  BY DEF MenuInvariant
<1> QED
  BY <1>1, MenuInvariantHolds, PTL

\* Whenever the menu waits for a key its selected row is painted between the rule and
\* the footer of a frame that lies on the terminal.
THEOREM SelectedRowAlwaysOnScreen == MenuSpec => []SelectedRowOnScreen
<1>1. MenuInvariant => SelectedRowOnScreen
  <2> SUFFICES ASSUME MenuInvariant, Waiting
               PROVE  LET L == Layout(frame)
                          row == selected_visible - top_visible
                      IN  /\ frame # NoFrame /\ area = L.item_area_h
                          /\ pc = "wait" => frame.h <= screen.rows /\ frame.w <= screen.cols
                          /\ shown # {} =>
                               /\ 0 <= row /\ row < area
                               /\ L.rule_y < L.item_area_y + row
                               /\ L.item_area_y + row + 1 < L.footer_y
                          /\ L.title_y < L.rule_y /\ L.footer_y < frame.h
    BY DEF SelectedRowOnScreen
  <2>1. /\ FrameOnScreen /\ frame \in [h : Nat, w : Nat] /\ LayoutFits(frame)
        /\ area = Layout(frame).item_area_h /\ area \in Nat
        /\ top_visible <= selected_visible /\ selected_visible < top_visible + area
    BY DEF MenuInvariant, Waiting, FrameOnScreen
  <2>2. selected_visible \in Nat /\ top_visible \in Nat
    BY DEF MenuInvariant, IInv, TypeOK
  <2>3. frame # NoFrame
    BY <2>1, ControllerAssumption
  <2>4. 0 <= selected_visible - top_visible /\ selected_visible - top_visible < area
    BY <2>1, <2>2
  <2>5. /\ Layout(frame).title_y < Layout(frame).rule_y /\ Layout(frame).footer_y < frame.h
        /\ Layout(frame).rule_y < Layout(frame).item_area_y
        /\ Layout(frame).item_area_y + area < Layout(frame).footer_y
        /\ Layout(frame).rule_y \in Nat /\ Layout(frame).item_area_y \in Nat
        /\ Layout(frame).footer_y \in Nat
    BY <2>1, LayoutRows
  <2>6. /\ Layout(frame).rule_y < Layout(frame).item_area_y + (selected_visible - top_visible)
        /\ Layout(frame).item_area_y + (selected_visible - top_visible) + 1 < Layout(frame).footer_y
    BY <2>1, <2>2, <2>4, <2>5
  <2> QED
    BY <2>1, <2>3, <2>4, <2>5, <2>6 DEF FrameOnScreen
<1> QED
  BY <1>1, MenuInvariantHolds, PTL
-----------------------------------------------------------------------------
(* Why an interrupt ends the menu *)

\* The steps before the menu looks at the interrupt and returns.
StepsLeft ==
  IF pc = "entry" THEN 4
  ELSE IF pc = "wait" THEN 3
  ELSE IF pc = "blocked" THEN 2
  ELSE IF pc = "loop" THEN 1
  ELSE 0

\* Every event leads back to the top of the loop or out of it.
Handled == pc = "blocked" /\ pc' \in {"loop", "done"} /\ UNCHANGED interrupted

LEMMA SearchKeyHandled ==
  ASSUME NEW key, KeyInSearch(key)
  PROVE  Handled
<1> USE DEF Handled, Handle, None, Beep, Confirm, Finish, Again, KeyInSearch
<1>1. CASE key = "esc"
  BY <1>1
<1>2. CASE key = "enter"
  BY <1>2
<1>3. CASE key = "backspace"
  BY <1>3
<1>4. CASE key \notin {"esc", "enter", "backspace"}
  BY <1>4
<1> QED
  BY <1>1, <1>2, <1>3, <1>4

LEMMA PlainKeyHandled ==
  ASSUME NEW key, PlainKey(key)
  PROVE  Handled
<1> USE DEF Handled, Handle, None, Beep, Confirm, Leave, Finish, Again
<1>1. CASE \/ Handle(Step(1), None) \/ Handle(Step(-1), None)
           \/ Handle(Home, None) \/ Handle(End, None)
           \/ Handle(Page(1, area), None) \/ Handle(Page(-1, area), None)
           \/ Handle(SearchOpen, None) \/ Handle(Still, None)
  BY <1>1
<1>2. CASE Handle(Still, Confirm(SelectedIndex))
  BY <1>2
<1>3. CASE Handle(Still, Leave("menu")) \/ Handle(Still, Leave("cancelled"))
  BY <1>3
<1>4. CASE NumericKey(key)
  BY <1>4 DEF NumericKey
<1> HIDE DEF Handle
<1>5. \/ Handle(Step(1), None) \/ Handle(Step(-1), None)
      \/ Handle(Home, None) \/ Handle(End, None)
      \/ Handle(Page(1, area), None) \/ Handle(Page(-1, area), None)
      \/ Handle(Still, Confirm(SelectedIndex))
      \/ Handle(Still, Leave("menu")) \/ Handle(Still, Leave("cancelled"))
      \/ Handle(Still, None)
      \/ Handle(SearchOpen, None) \/ NumericKey(key)
  BY DEF PlainKey
<1> QED
  BY <1>1, <1>2, <1>3, <1>4, <1>5

LEMMA UserHandled == User => Handled
<1>1. ASSUME NEW key \in NavigationKeys \cup Chars, Key(key) PROVE Handled
  <2>1. CASE KeyInSearch(key) \/ PlainKey(key)
    BY <2>1, SearchKeyHandled, PlainKeyHandled
  <2>2. CASE \/ Handle(Still, Confirm(MnemonicReturn(key)))
             \/ Handle(MnemonicJump(key), Beep)
    BY <2>2 DEF Handle, Confirm, Beep, Finish, Again, Handled
  <2> QED
    BY <1>1, <2>1, <2>2 DEF Key
<1>2. ASSUME NEW dir \in {1, -1}, Wheel(dir) PROVE Handled
  BY <1>2 DEF Wheel, Handle, None, Again, Handled
<1>3. ASSUME NEW row \in 0 .. area - 1, NEW double \in BOOLEAN, Click(row, double)
      PROVE  Handled
  BY <1>3 DEF Click, Handle, None, Beep, Confirm, Finish, Again, Handled
<1> QED
  BY <1>1, <1>2, <1>3 DEF User

\* Once a signal is recorded every step but another signal brings the menu nearer to
\* its return, and it reads at most one more event, whichever state, frame or search it
\* is in (the top of tui_menu.c's loop looks at tui_interrupted before it reads).  The
\* menu that stays is the one whose wgetch does not return: see InterruptEndsMenu.
THEOREM InterruptAlwaysUnwinds ==
  MenuSpec =>
    [][interrupted => /\ interrupted'
                      /\ IF Signal THEN StepsLeft' = StepsLeft
                                   ELSE StepsLeft' < StepsLeft]_menuVars
<1>1. ASSUME MenuNext, interrupted, ~Signal
      PROVE  interrupted' /\ StepsLeft' < StepsLeft
  <2>1. ASSUME NEW memory \in BOOLEAN, Enter(memory)
        PROVE  pc = "entry" /\ pc' \in {"loop", "done"} /\ UNCHANGED interrupted
    BY <2>1 DEF Enter, Finish, Again
  <2>2. LoopTop => pc = "loop" /\ pc' = "done" /\ UNCHANGED interrupted
    BY <1>1 DEF LoopTop, Finish
  <2>3. Block => pc = "wait" /\ pc' = "blocked" /\ UNCHANGED interrupted
    BY DEF Block
  <2>4. ReadError => Handled
    BY DEF ReadError, Finish, Again, Handled
  <2>5. ASSUME NEW scr \in Screens, KeyResize(scr) PROVE Handled
    BY <2>5 DEF KeyResize, Finish, Again, Handled
  <2>6. Handled => interrupted' /\ StepsLeft' < StepsLeft
    BY <1>1 DEF Handled, StepsLeft
  <2>7. (\E memory \in BOOLEAN : Enter(memory)) => interrupted' /\ StepsLeft' < StepsLeft
    <3>1. pc = "entry" /\ pc' \in {"loop", "done"} => StepsLeft' < StepsLeft
      BY DEF StepsLeft
    <3> QED
      BY <1>1, <2>1, <3>1
  <2>8. LoopTop \/ Block => interrupted' /\ StepsLeft' < StepsLeft
    <3>1. (pc = "loop" /\ pc' = "done") \/ (pc = "wait" /\ pc' = "blocked") =>
            StepsLeft' < StepsLeft
      BY DEF StepsLeft
    <3> QED
      BY <1>1, <2>2, <2>3, <3>1
  <2> QED
    BY <1>1, <2>4, <2>5, <2>6, <2>7, <2>8, UserHandled DEF MenuNext, Program
<1>2. Signal => interrupted' /\ StepsLeft' = StepsLeft
  BY DEF Signal, StepsLeft
<1>3. [MenuNext]_menuVars =>
        [interrupted => /\ interrupted'
                        /\ IF Signal THEN StepsLeft' = StepsLeft
                                     ELSE StepsLeft' < StepsLeft]_menuVars
  BY <1>1, <1>2
<1> QED
  BY <1>3, PTL DEF MenuSpec
=============================================================================
