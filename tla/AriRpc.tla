------------------------------- MODULE AriRpc -------------------------------
(***************************************************************************)
(* One ARI connection: the executor and its transport (AriExecutor),       *)
(* composed with the robot at the other end.  The robot is not part of the *)
(* repository; it is modelled from what the protocol modules let it send:  *)
(* it sends notifications while a request runs and ends it once, with a    *)
(* response, an error, or a cancellation of its own.  A failed reader ends *)
(* the connection, so the robot sends nothing more after it.               *)
(***************************************************************************)
EXTENDS AriExecutor, Functions

CONSTANT MaxNotifications  \* bound: notifications the robot sends in all

ASSUME BoundAssumption == MaxNotifications \in Nat

VARIABLE
  sent   \* number of notifications the robot has sent for each request

vars == << transportVars, executorVars, sent >>

TypeOK ==
  /\ TransportTypeOK
  /\ ExecutorTypeOK
  /\ sent \in [Calls -> Nat]

Init ==
  /\ TransportInit
  /\ ExecutorInit
  /\ sent = [c \in Calls |-> 0]

-----------------------------------------------------------------------------
(* The robot (external).                                                   *)

robotOnly == << transport, context, lockedBy, stage, torn, nextId, pc,
                cause, recancel, outcome, arrived, notes, got, reader >>

RobotNotifies(c) ==
  /\ reader = "running" /\ op[c] = "running" /\ c \in Watches
  /\ FoldFunction(+, 0, sent) < MaxNotifications
  /\ sent' = [sent EXCEPT ![c] = @ + 1]
  /\ inbox' = Append(inbox, [id |-> c, kind |-> "notification", n |-> sent[c] + 1])
  /\ UNCHANGED << robotOnly, op >>

RobotEnds(c, o, kind) ==
  /\ reader = "running" /\ op[c] = "running"
  /\ kind = "response" => c \notin Watches
  /\ op' = [op EXCEPT ![c] = o]
  /\ inbox' = Append(inbox, [id |-> c, kind |-> kind, n |-> 0])
  /\ UNCHANGED << robotOnly, sent >>

Robot(c) ==
  \/ RobotNotifies(c)
  \/ RobotEnds(c, "answered", "response")
  \/ RobotEnds(c, "errored", "error")
  \/ RobotEnds(c, "aborted", "cancellation")

-----------------------------------------------------------------------------
Next ==
  \/ ExecutorNext /\ UNCHANGED sent
  \/ \E c \in Calls : Robot(c)

\* What the event loop runs of a call without anyone asking for it.
Task(c) ==
  /\ \/ ContinueWrite(c) \/ TakeResponse(c) \/ AbortGroup(c) \/ Close(c)
     \/ AwaitCancellation(c) \/ AwaitError(c)
  /\ UNCHANGED sent

\* The event loop runs what is ready and the link acknowledges every write.  A
\* call has finitely many of these steps, so it is enough that they do not stop.
\* Nothing is assumed of the robot or of when the program cancels.
Fairness == WF_vars(\E c \in Calls : Task(c))

Spec == Init /\ [][Next]_vars

FairSpec == Spec /\ Fairness

-----------------------------------------------------------------------------
(* Safety.                                                                 *)

Verdicts == {"answered", "errored", "aborted"}
InFlight(c, kinds) == {i \in DOMAIN inbox : inbox[i].id = c /\ inbox[i].kind \in kinds}
AnswerInFlight(c) == InFlight(c, Answers) # {}

\* Two tasks never write their frames to the characteristic at the same time:
\* a call is between its chunks exactly while it holds _write_lock.
OneWriter == \A c \in Calls : stage[c] \in {"part", "last"} <=> lockedBy = c

\* The notifications of c in flight are those after the first `read` ones that the
\* robot has sent: all of them, in order.
InFlightAfter(c, read) ==
  LET unread == InFlight(c, {"notification"})
  IN /\ {inbox[i].n : i \in unread} = read + 1 .. sent[c]
     /\ \A i, j \in unread : i < j => inbox[i].n < inbox[j].n

\* A sequence of numbers that counts up to `last`.
CountsTo(s, last) == \A i \in DOMAIN s : s[i] = last - Len(s) + i

\* While a call listens and its request is known, what its body has read and
\* what waits in its queue are the notifications before those in flight: in
\* order, none doubled, none of another call, nothing missing in the middle.
\* Over WebRTC nothing is missing at all.  (Over BLE those that come before the
\* write of the request has returned are.)
NotificationsInOrder ==
  \A c \in Calls :
    Subscribed(c) /\ c \in context =>
      \E read \in 0 .. sent[c] :
        /\ InFlightAfter(c, read)
        /\ CountsTo(got[c] \o notes[c], read)
        /\ transport = "webrtc" => Len(got[c] \o notes[c]) = read

\* _context forgets a request exactly when its answer is read or the client
\* cancels it: an entry whose request the robot has decided still has the
\* answer in flight, so the answer can be parsed when it comes.
ContextTracksUnanswered ==
  \A c \in Calls :
    /\ c \in context /\ op[c] \in Verdicts => AnswerInFlight(c)
    /\ pc[c] # "idle" /\ c \notin context =>
         cause[c] = "client" \/ (op[c] \in Verdicts /\ ~AnswerInFlight(c))

\* Over WebRTC no answer is lost between the robot and the waiting body: a
\* block that is open after the robot has decided will see the answer, or has
\* seen it.  (Over BLE an answer that beats the end of the write is lost.)
AnswerNotLost ==
  \A c \in Calls :
    transport = "webrtc" /\ pc[c] = "open" /\ op[c] \in Verdicts =>
      arrived[c] # {} \/ cause[c] # "none" \/ AnswerInFlight(c)

\* A request the program gives up - its own error, Query.cancel() - is stopped
\* at the robot once execute() has ended, unless the
\* task was cancelled from outside or a torn frame has cut the robot off.
CancelStopsRobot ==
  \A c \in Calls :
    outcome[c] = "cancelled" /\ ~recancel[c] /\ ~torn =>
      op[c] # "running"

-----------------------------------------------------------------------------
(* Refinement.                                                             *)

StatusOf(c) ==
  CASE pc[c] = "idle" -> "idle"
    [] pc[c] \notin {"idle", "done"} -> "pending"
    [] pc[c] = "done" /\ outcome[c] = "ok" /\ c \notin Watches -> "returned"
    [] pc[c] = "done" /\ outcome[c] = "ok" /\ c \in Watches -> "left"
    [] pc[c] = "done" /\ outcome[c] = "error" -> "failed"
    [] pc[c] = "done" /\ outcome[c] = "cancelled" -> "cancelled"
    [] pc[c] = "done" /\ outcome[c] = "raised" -> "raised"

Abstract ==
  INSTANCE RpcPromise WITH
    status <- [c \in Calls |-> StatusOf(c)],
    verdict <- [c \in Calls |-> IF op[c] \in Verdicts THEN op[c] ELSE "none"]

\* execute() ends once, and returns a result or raises a JsonRpcError only
\* when the robot has answered or refused that very request.
Promise == Abstract!Spec

-----------------------------------------------------------------------------
(* Liveness.                                                               *)

\* A block is left for good, or is open and has nothing to leave it for: no cause
\* has been set and no answer waits.  (An answer that has been read was lost only
\* over BLE, see AnswerNotLost.)
Settled(c) ==
  \/ pc[c] \in {"idle", "done"}
  \/ /\ pc[c] = "open" /\ cause[c] = "none" /\ arrived[c] = {}
     /\ transport = "webrtc" /\ op[c] \in Verdicts => AnswerInFlight(c)

\* execute() never hangs on the write lock, on an answer that has been read, or on
\* its own task group: a write returns, a call whose answer, error or server
\* cancellation has come ends, and so does a block that is left or that
\* Query.cancel() was called on, however the cancellations race with the answer.
CallsSettle == []<>(\A c \in Calls : Settled(c))

-----------------------------------------------------------------------------
(* What the documents say, and the code does not do.                       *)

\* transport.py: "Unknown message id received, ignoring": a message that comes
\* after its call is over does not end the connection.
LateAnswersIgnored == reader = "running"
=============================================================================
