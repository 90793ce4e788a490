-------------------------- MODULE MCDebounceSwitch --------------------------
(***************************************************************************)
(* DebounceSwitch with a 3-bit counter and three debounce settings: eager  *)
(* press, a short symmetric one and one at the limit of the counter.       *)
(***************************************************************************)
EXTENDS DebounceSwitch

MCTimes == {[press |-> 0, release |-> 3], [press |-> 2, release |-> 2],
            [press |-> 5, release |-> 7]}
=============================================================================
