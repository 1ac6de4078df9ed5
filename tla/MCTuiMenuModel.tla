---------------------------- MODULE MCTuiMenuModel ----------------------------
(* Every list of four items whose kinds are chosen freely, with labels that *)
(* overlap, one shared and one unique mnemonic, and three default rows.     *)
EXTENDS TuiMenuModel

MCChars == {"a", "b"}
MCKeys == {"x", "y"}
MCLabels == [i \in 0 .. 3 |->
  CASE i = 0 -> <<"a">> [] i = 1 -> <<"b", "a">> [] i = 2 -> <<"b">> [] i = 3 -> <<"a", "b">>]
MCMnemonics == [i \in 0 .. 3 |->
  CASE i = 0 -> "x" [] i = 1 -> "x" [] i = 2 -> "y" [] i = 3 -> "x"]

MCConfigs ==
  {[item_count |-> 4, default_index |-> d, kind |-> k,
    label |-> MCLabels, mnemonic |-> MCMnemonics] :
      d \in {-1, 2}, k \in [0 .. 3 -> Kinds]}
  \cup {[item_count |-> 0, default_index |-> -1, kind |-> <<>>,
         label |-> <<>>, mnemonic |-> <<>>]}
=============================================================================
