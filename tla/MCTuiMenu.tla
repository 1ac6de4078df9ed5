------------------------------ MODULE MCTuiMenu ------------------------------
(* Menus of five items with separators, disabled items, a unique and a      *)
(* shared mnemonic; terminals from full size down to too small.             *)
EXTENDS TuiMenu

MCChars == {"a", "k", "q", "/", "1", "3"}
MCKeys == MCChars \ {"/"}

Menu(kinds, mnemonics, height, overlay) ==
  [item_count |-> 5, default_index |-> 0,
   kind |-> [i \in 0 .. 4 |-> kinds[i + 1]],
   mnemonic |-> [i \in 0 .. 4 |-> mnemonics[i + 1]],
   label |-> [i \in 0 .. 4 |-> <<<<"a">>, <<"a", "k">>, <<>>, <<"k", "a">>, <<"q">>>>[i + 1]],
   frame_height |-> height, frame_width |-> IF height = 0 THEN 0 ELSE 72,
   enable_search |-> TRUE, enable_mouse |-> TRUE,
   enable_menu_key |-> overlay, show_numeric_keys |-> overlay]

MCConfigs ==
  {Menu(<<"normal", "normal", "separator", "normal", "normal">>,
        <<"a", "k", "none", "a", "none">>, 20, TRUE),
   Menu(<<"normal", "disabled", "separator", "normal", "normal">>,
        <<"k", "a", "none", "none", "none">>, 0, FALSE),
   Menu(<<"disabled", "disabled", "separator", "disabled", "disabled">>,
        <<"none", "none", "none", "none", "none">>, 20, FALSE)}

MCScreens == {[rows |-> 24, cols |-> 80], [rows |-> 13, cols |-> 80],
              [rows |-> 9, cols |-> 80], [rows |-> 8, cols |-> 24],
              [rows |-> 2, cols |-> 80]}
=============================================================================
