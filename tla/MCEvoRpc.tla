------------------------------ MODULE MCEvoRpc ------------------------------
(* EvoRpc for TLC: each RPC alone, and those that differ side by side. *)
EXTENDS EvoRpc

CONSTANTS c1, c2, c3

MCCalls == {c1, c2, c3}

Program(first, second, third) == c1 :> first @@ c2 :> second @@ c3 :> third

MCPrograms ==
  {Program(rpc, "none", "none") : rpc \in DOMAIN Requests \ {"StopExecution"}}
    \cup {Program(r, r, "none") : r \in {"MemRead", "ExecuteFile"}}
    \cup {Program("MemRead", "MemRead", "MemRead"),
          Program("MoveStraight", "MoveStraight", "PlayTone"),
          Program("MoveStraight", "ExecuteFile", "none")}
=============================================================================
