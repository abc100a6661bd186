----------------------------- MODULE MCTaskQueue -----------------------------
(* TaskQueue for TLC: more jobs than the queue holds. *)
EXTENDS TaskQueue, TLC

CONSTANTS j1, j2, j3, j4

MCJobs == {j1, j2, j3, j4}
MCBlocking == {j1, j2}

\* Calls of one kind are interchangeable.
Symmetric == {p \in Permutations(MCJobs) : {p[j] : j \in MCBlocking} = MCBlocking}
=============================================================================
