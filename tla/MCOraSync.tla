------------------------------ MODULE MCOraSync ------------------------------
(* OraSync for TLC: more methods than the queue holds. *)
EXTENDS OraSync

CONSTANTS j1, j2, j3

MCJobs == {j1, j2, j3}
=============================================================================
