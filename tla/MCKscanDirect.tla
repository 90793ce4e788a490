--------------------------- MODULE MCKscanDirect ----------------------------
(***************************************************************************)
(* Two pins, with a press time at the limit of a 2-bit counter.            *)
(***************************************************************************)
EXTENDS KscanDirect

MCConfig == [press |-> 3, release |-> 1]
=============================================================================
