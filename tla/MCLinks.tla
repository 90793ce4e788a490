------------------------------- MODULE MCLinks ------------------------------
(* Two profiles, one with its host, and a second host; a ring of two.       *)
EXTENDS Links

CONSTANTS h1, h2

MCHosts == {h1, h2}
MCKnown == <<h1>>
\* The first and the last report go alone.
MCKeyboard == {2, 3}
=============================================================================
