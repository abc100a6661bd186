----------------------------- MODULE RpcPromise -----------------------------
(***************************************************************************)
(* What Executor.execute promises about one request, whatever the          *)
(* transport does: it ends at most once, and an ending that speaks for the *)
(* robot - a command that returns its result, a JsonRpcError - is one the  *)
(* robot has really decided.  A watch that is left, a cancelled ending and *)
(* the error of a failed write speak for the program only and are always   *)
(* allowed.                                                                *)
(***************************************************************************)
CONSTANT Calls  \* the requests

VARIABLES
  status,    \* of the call, as its caller sees it
  verdict    \* of the robot: what it decided about the request

vars == << status, verdict >>

Init ==
  /\ status = [c \in Calls |-> "idle"]
  /\ verdict = [c \in Calls |-> "none"]

\* The request is out, or could not even be written.
Submit(c, s) ==
  /\ status[c] = "idle"
  /\ status' = [status EXCEPT ![c] = s]
  /\ UNCHANGED verdict

Decide(c, v) ==
  /\ status[c] # "idle" /\ verdict[c] = "none"
  /\ verdict' = [verdict EXCEPT ![c] = v]
  /\ UNCHANGED status

End(c, s) ==
  /\ status[c] = "pending"
  /\ s = "returned" => verdict[c] = "answered"
  /\ s = "failed" => verdict[c] = "errored"
  /\ status' = [status EXCEPT ![c] = s]
  /\ UNCHANGED verdict

Next ==
  \E c \in Calls :
    \/ \E s \in {"pending", "raised"} : Submit(c, s)
    \/ \E v \in {"answered", "errored", "aborted"} : Decide(c, v)
    \/ \E s \in {"returned", "left", "failed", "cancelled", "raised"} : End(c, s)

Spec == Init /\ [][Next]_vars
=============================================================================
