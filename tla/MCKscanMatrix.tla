--------------------------- MODULE MCKscanMatrix ----------------------------
(***************************************************************************)
(* Two ordinary keys, and the mode switch in the last row, which has no    *)
(* position.                                                               *)
(***************************************************************************)
EXTENDS KscanMatrix

MCMapped == {<<0, 0>>, <<0, 1>>}
MCKey == MCMapped \cup {<<1, 0>>}

Eager == [press |-> 0, release |-> 2]
=============================================================================
