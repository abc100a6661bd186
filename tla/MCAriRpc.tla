------------------------------ MODULE MCAriRpc ------------------------------
(* AriRpc for TLC: the ids of the calls are the numbers the counter hands out. *)
EXTENDS AriRpc

MCCalls == {0, 1}
MCWatches == {1}
=============================================================================
