----------------------------- MODULE AriExecutor ----------------------------
(***************************************************************************)
(* Executor of ozobot/common/rpc/executor.py over the ARI transport: the   *)
(* life of every `async with executor.execute(query)` block, the read task *)
(* that broadcasts inbound messages, and the tasks of CancellableTaskGroup *)
(* that wait for a cancellation or an error from the robot.                *)
(*                                                                         *)
(* One atomic action is what asyncio runs between two suspensions.  A call *)
(* is named by the message id it gets.  The program task that runs a call  *)
(* can be cancelled from outside (Task.cancel, asyncio.timeout) whenever   *)
(* it is suspended.                                                        *)
(***************************************************************************)
EXTENDS AriTransport, FiniteSets

CONSTANT Watches  \* the calls whose method has notifications but no response

ASSUME WatchesAssumption == Watches \subseteq Calls

VARIABLES
  nextId,     \* _RequestIdCounter._next_request_id
  pc,         \* where each call is: see Pcs
  cause,      \* cancellation_future of each call: "none" while not done
  recancel,   \* the call's task still counts an outside cancel()
  outcome,    \* how execute() ended
  arrived,    \* Response/Error/Cancellation waiting in the call's queues
  notes,      \* notifications waiting in the call's queue
  got,        \* notifications the body has read
  reader,     \* "running", or "failed" once _read() has raised
  inbox       \* robot-to-client messages not yet read, oldest first

executorVars == << nextId, pc, cause, recancel, outcome, arrived,
                   notes, got, reader, inbox >>

Pcs == {"idle", "writing", "open", "closing", "aborted", "cancelling", "done"}
Causes == {"none", "client", "server", "error"}
Outcomes == {"none", "ok", "error", "cancelled", "raised"}
Answers == {"response", "error", "cancellation"}
Inbound == [id : Calls, kind : Answers, n : {0}]
             \cup [id : Calls, kind : {"notification"}, n : Nat \ {0}]

ExecutorTypeOK ==
  /\ nextId \in Nat
  /\ pc \in [Calls -> Pcs]
  /\ cause \in [Calls -> Causes]
  /\ recancel \in [Calls -> BOOLEAN]
  /\ outcome \in [Calls -> Outcomes]
  /\ arrived \in [Calls -> SUBSET Answers]
  /\ notes \in [Calls -> Seq(Nat)]
  /\ got \in [Calls -> Seq(Nat)]
  /\ reader \in {"running", "failed"}
  /\ inbox \in Seq(Inbound)

ExecutorInit ==
  /\ nextId = 0
  /\ pc = [c \in Calls |-> "idle"]
  /\ cause = [c \in Calls |-> "none"]
  /\ recancel = [c \in Calls |-> FALSE]
  /\ outcome = [c \in Calls |-> "none"]
  /\ arrived = [c \in Calls |-> {}]
  /\ notes = [c \in Calls |-> << >>]
  /\ got = [c \in Calls |-> << >>]
  /\ reader = "running"
  /\ inbox = << >>

-----------------------------------------------------------------------------
(* Helpers.                                                                *)

Goto(c, l) == pc' = [pc EXCEPT ![c] = l]

\* execute() is left, and the call's queues with it.
End(c, o) ==
  /\ Goto(c, "done")
  /\ outcome' = [outcome EXCEPT ![c] = o]
  /\ arrived' = [arrived EXCEPT ![c] = {}]
  /\ notes' = [notes EXCEPT ![c] = << >>]

endVars == << outcome, arrived, notes >>
Written(c) == stage'[c] = "sent"

\* The four _expect_messages contexts are open until execute() is left.
Subscribed(c) == pc[c] \in {"open", "closing", "aborted", "cancelling"}

\* `if not cancellation_future.done(): cancellation_future.set_exception(...)`
FirstCause(c, k) == IF cause[c] = "none" THEN [cause EXCEPT ![c] = k] ELSE cause

\* _iterate_messages without the id test: a mutant of Receives.
ReceivesAny(c, m) == Subscribed(c)

\* _iterate_messages keeps the messages with the call's id.
Receives(c, m) == Subscribed(c) /\ m.id = c

-----------------------------------------------------------------------------
(* The program task: execute() from the request to the end of the block.   *)

\* Executor.create tears the program down once the reader has failed, so a
\* call begins only before that.  The id is drawn, the context entry made and
\* the request handed to the transport; only when the write returns are the queues subscribed.
Begin(c) ==
  /\ reader = "running"
  /\ pc[c] = "idle" /\ nextId = c /\ c \notin context
  /\ nextId' = nextId + 1
  /\ context' = context \cup {c}
  /\ StartWrite(c, Request(c))
  /\ Goto(c, IF Written(c) THEN "open" ELSE "writing")
  /\ UNCHANGED << transport, cause, recancel, endVars, got, reader, inbox >>

\* The transport raises at once: the error leaves execute() as it is, and the
\* context entry stays.
BeginFails(c) ==
  /\ reader = "running"
  /\ pc[c] = "idle" /\ nextId = c /\ c \notin context
  /\ nextId' = nextId + 1
  /\ context' = context \cup {c}
  /\ FailedWrite
  /\ End(c, "raised")
  /\ UNCHANGED << transport, cause, recancel, got, reader, inbox >>

\* A suspended write gets the lock, the next chunk's turn, or its end.
ContinueWrite(c) ==
  /\ pc[c] \in {"writing", "cancelling"}
  /\ LET m == IF pc[c] = "writing" THEN Request(c) ELSE Cancellation(c)
     IN TakeLock(c, m) \/ LastChunk(c, m) \/ FinishWrite(c)
  /\ CASE ~Written(c) -> UNCHANGED << pc, endVars >>
       [] Written(c) /\ pc[c] = "writing" -> Goto(c, "open") /\ UNCHANGED endVars
       [] Written(c) /\ pc[c] = "cancelling" -> End(c, "cancelled")
  /\ UNCHANGED << transport, context, nextId, cause, recancel,
                  got, reader, inbox >>

\* The task is cancelled while it writes: the error leaves execute() as is,
\* the request's context entry stays and no cancellation message is sent.
CancelledWriting(c) ==
  /\ pc[c] \in {"writing", "cancelling"}
  /\ AbortWrite(c)
  /\ End(c, "cancelled")
  /\ recancel' = [recancel EXCEPT ![c] = TRUE]
  /\ UNCHANGED << transport, context, nextId, cause, got,
                  reader, inbox >>

\* The transport raises in a suspended write, of the request or of the
\* cancellation message: the error leaves execute() in the place of any other.
WriteRaises(c) ==
  /\ pc[c] \in {"writing", "cancelling"}
  /\ BreakWrite(c)
  /\ End(c, "raised")
  /\ UNCHANGED << transport, context, nextId, cause, recancel, got,
                  reader, inbox >>

\* The consumer inside the block takes the next notification.
ReadNotification(c) ==
  /\ pc[c] = "open" /\ notes[c] # << >>
  /\ got' = [got EXCEPT ![c] = Append(@, Head(notes[c]))]
  /\ notes' = [notes EXCEPT ![c] = Tail(@)]
  /\ UNCHANGED << transportVars, nextId, pc, cause, recancel, outcome,
                  arrived, reader, inbox >>

\* `await q.response` returns and the block is left: normally, or with the
\* command error raised for an unsuccessful result ("General failure").
TakeResponse(c) ==
  /\ pc[c] = "open" /\ "response" \in arrived[c]
  /\ arrived' = [arrived EXCEPT ![c] = @ \ {"response"}]
  /\ Goto(c, "closing")
  /\ cause' \in {cause, FirstCause(c, "client")}
  /\ UNCHANGED << transportVars, nextId, recancel, outcome, notes, got,
                  reader, inbox >>

\* The block of a watch is left normally, without waiting for any message.
LeaveWatch(c) ==
  /\ pc[c] = "open" /\ c \in Watches
  /\ Goto(c, "closing")
  /\ UNCHANGED << transportVars, nextId, cause, recancel, endVars,
                  got, reader, inbox >>

\* The block raises an Exception of its own ("General failure").
BodyRaises(c) ==
  /\ pc[c] = "open"
  /\ Goto(c, "closing")
  /\ cause' = FirstCause(c, "client")
  /\ UNCHANGED << transportVars, nextId, recancel, endVars, got,
                  reader, inbox >>

\* _ExecutorQuery.cancel(): the group's canceller is started, the body goes on
\* until the group aborts it.
CancelQuery(c) ==
  /\ pc[c] = "open" /\ cause[c] = "none"
  /\ cause' = FirstCause(c, "client")
  /\ UNCHANGED << transportVars, nextId, pc, recancel, endVars,
                  got, reader, inbox >>

\* The program task is cancelled from outside while in the block.
CancelTask(c) ==
  /\ pc[c] = "open"
  /\ cause' = FirstCause(c, "client")
  /\ recancel' = [recancel EXCEPT ![c] = TRUE]
  /\ Goto(c, "closing")
  /\ UNCHANGED << transportVars, nextId, endVars, got, reader, inbox >>

\* Only a body that has been left is reaped: a mutant of AbortGroup.
AbortLeft(c) ==
  /\ pc[c] = "closing"
  /\ Goto(c, "aborted")
  /\ UNCHANGED << transportVars, nextId, cause, recancel, endVars,
                  got, reader, inbox >>

\* A canceller task runs: the group aborts its tasks, the body included.  A
\* body that is left has started one (cancel_quietly), and so has every cause.
AbortGroup(c) ==
  /\ \/ pc[c] = "closing"
     \/ pc[c] = "open" /\ cause[c] # "none"
  /\ Goto(c, "aborted")
  /\ UNCHANGED << transportVars, nextId, cause, recancel, endVars,
                  got, reader, inbox >>

\* Cancelled from outside in the group's __aexit__: before a canceller has
\* run, the CancelledError leaves execute() at once; after it, the group keeps
\* the cancellation for the task's next suspension.
CancelClosing(c) ==
  /\ recancel' = [recancel EXCEPT ![c] = TRUE]
  /\ \/ pc[c] = "closing" /\ End(c, "cancelled")
     \/ pc[c] = "aborted" /\ UNCHANGED << pc, endVars >>
  /\ UNCHANGED << transportVars, nextId, cause, got, reader, inbox >>

\* Leave the group without telling the robot: a mutant of SendCancellation.
ForgetCancellation(c) ==
  /\ cause[c] = "client"
  /\ context' = context \ {c}
  /\ UNCHANGED << lockedBy, stage, op, torn >> /\ End(c, "cancelled")

\* except CancelledByClientError: await self._send_cancellation_message(...).
\* A task cancelled from outside is cancelled again at the first suspension; a
\* write that raises takes the place of the CancelledError.
SendCancellation(c) ==
  /\ cause[c] = "client"
  /\ context' = context \ {c}
  /\ \/ /\ ~recancel[c]
        /\ StartWrite(c, Cancellation(c))
        /\ IF Written(c) THEN End(c, "cancelled")
                         ELSE Goto(c, "cancelling") /\ UNCHANGED endVars
     \/ /\ recancel[c]
        /\ InterruptedWrite(Cancellation(c))
        /\ UNCHANGED stage /\ End(c, "cancelled")
     \/ FailedWrite /\ End(c, "raised")

\* The CancelledByClientError is swallowed: a mutant of Close.
CloseQuietly(c) ==
  /\ pc[c] = "aborted"
  /\ End(c, IF cause[c] = "error" THEN "error" ELSE "ok")
  /\ UNCHANGED << transportVars, nextId, cause, recancel, got, reader, inbox >>

\* The group has ended; execute() returns or raises by cancellation_future.
Close(c) ==
  /\ pc[c] = "aborted"
  /\ \/ SendCancellation(c)
     \/ /\ cause[c] # "client"
        /\ End(c, CASE cause[c] = "none" -> "ok"
                    [] cause[c] = "error" -> "error"
                    [] cause[c] = "server" -> "cancelled")
        /\ UNCHANGED << context, lockedBy, stage, op, torn >>
  /\ UNCHANGED << transport, nextId, cause, recancel, got,
                  reader, inbox >>

-----------------------------------------------------------------------------
(* The group's waiter tasks and the connection's read task.                *)

\* The message is taken but the future is not set: a mutant of Waiter.
WaiterWithoutCause(c, kind, k) ==
  /\ pc[c] \in {"open", "closing"} /\ kind \in arrived[c]
  /\ arrived' = [arrived EXCEPT ![c] = @ \ {kind}]
  /\ UNCHANGED << transportVars, nextId, pc, cause, recancel, outcome, notes,
                  got, reader, inbox >>

\* _await_cancellation_from_server and _await_error_from_server.
Waiter(c, kind, k) ==
  /\ pc[c] \in {"open", "closing"} /\ kind \in arrived[c]
  /\ arrived' = [arrived EXCEPT ![c] = @ \ {kind}]
  /\ cause' = FirstCause(c, k)
  /\ UNCHANGED << transportVars, nextId, pc, recancel, outcome, notes,
                  got, reader, inbox >>

AwaitCancellation(c) == Waiter(c, "cancellation", "server")

\* The future is given a result, no exception: a mutant of AwaitError.
SetsResult(c) == Waiter(c, "error", "ok")

AwaitError(c) == Waiter(c, "error", "error")

\* BroadcastManager.broadcast to the calls whose queues accept the message.
Broadcast(m) ==
  IF m.kind = "notification"
  THEN /\ notes' = [c \in Calls |-> IF Receives(c, m) THEN Append(notes[c], m.n)
                                                      ELSE notes[c]]
       /\ UNCHANGED arrived
  ELSE /\ arrived' = [c \in Calls |-> IF Receives(c, m) THEN arrived[c] \cup {m.kind}
                                                        ELSE arrived[c]]
       /\ UNCHANGED notes

\* One turn of _read(): SerializingTransportLayer.read, then the broadcast.
Read ==
  /\ reader = "running" /\ inbox # << >>
  /\ inbox' = Tail(inbox)
  /\ LET m == Head(inbox)
     IN \/ ReadFails(m) /\ reader' = "failed" /\ UNCHANGED << context, arrived, notes >>
        \/ Ignored(m) /\ UNCHANGED << context, arrived, notes, reader >>
        \/ /\ m.id \in context
           /\ context' = ContextAfterRead(m)
           /\ Broadcast(m)
           /\ UNCHANGED reader
  /\ UNCHANGED << transport, lockedBy, stage, op, torn, nextId, pc,
                  cause, recancel, outcome, got >>

Program(c) ==
  \/ Begin(c) \/ BeginFails(c)
  \/ ContinueWrite(c) \/ CancelledWriting(c) \/ WriteRaises(c)
  \/ ReadNotification(c) \/ TakeResponse(c) \/ LeaveWatch(c) \/ BodyRaises(c)
  \/ CancelQuery(c) \/ CancelTask(c) \/ AbortGroup(c) \/ CancelClosing(c) \/ Close(c)

ExecutorNext ==
  \/ \E c \in Calls : Program(c) \/ AwaitCancellation(c) \/ AwaitError(c)
  \/ Read
=============================================================================
