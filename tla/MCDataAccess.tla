---------------------------- MODULE MCDataAccess ----------------------------
(* DataAccess for TLC: two blocks of one property; the initial value of one of *)
(* the properties is skipped, and the conversions of both may raise.           *)
EXTENDS DataAccess

CONSTANTS w1, w2

MCWatches == {w1, w2}
MCProperties == {"colorCode", "surfaceColor"}
=============================================================================
