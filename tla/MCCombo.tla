------------------------------- MODULE MCCombo ------------------------------
(* Combos for TLC: fully and partially overlapping ones, one with a slow    *)
(* release, one that wants an idle keyboard, one of a layer; times differ.  *)
EXTENDS Combo, TLC

MCKey == 1 .. 4
MCLetter == {1, 2, 3}
MCLayerKey == {4}
MCCombos == {"ab", "abc", "bc"}

Plain(keys, timeout, virtual) ==
  [keys |-> keys, timeout |-> timeout, idle |-> 0 - 1, slow |-> FALSE,
   layers |-> {}, virtual |-> virtual]

MCConf ==
  "ab" :> Plain({1, 2}, 2, 1)
  @@ "abc" :> [Plain({1, 2, 3}, 3, 2) EXCEPT !.slow = TRUE]
  @@ "bc" :> [Plain({2, 3}, 2, 3) EXCEPT !.idle = 2, !.layers = {0}]
=============================================================================
