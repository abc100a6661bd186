--------------------------- MODULE MCEvoVelocity ---------------------------
(* EvoVelocity for TLC: a call, one that overrides it, and one more. *)
EXTENDS EvoVelocity

CONSTANTS c1, c2, c3

MCCalls == {c1, c2, c3}
=============================================================================
