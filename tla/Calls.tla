-------------------------------- MODULE Calls -------------------------------
(***************************************************************************)
(* Handlers that call one another are modelled by a sequence of the calls  *)
(* still to be made, innermost first. Here: one call for each array slot   *)
(* of a set, in the order of the array, as the code's loops make them.     *)
(***************************************************************************)
EXTENDS Naturals, Sequences, FiniteSets

\* The n-th slot of the set.
Nth(S, n) == CHOOSE s \in S : Cardinality({t \in S : t < s}) = n - 1

\* One call for each.
ForEach(S, Op(_)) == [n \in 1 .. Cardinality(S) |-> Op(Nth(S, n))]
=============================================================================
