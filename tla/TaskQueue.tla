------------------------------ MODULE TaskQueue ------------------------------
(***************************************************************************)
(* TaskQueue and LazyTaskGroup (ozobot/ora/queue.py): the bounded queue    *)
(* through which OraSync runs every motion.  A call submits one coroutine; *)
(* it waits while the queue is full, spawns the coroutine as a task - the  *)
(* job - and returns the job (run_nonblocking) or awaits it                *)
(* (run_blocking).  A job that fails aborts the others and is reported by  *)
(* the next call as part of an exception group.                            *)
(*                                                                         *)
(* A job and the call that submits it share a name.  Two calls of one      *)
(* caller are two calls, the second submitted after the first has ended.   *)
(* One action is what asyncio runs between two suspensions; the task's     *)
(* done-callback (Settle) is a step of its own that runs after the job     *)
(* ends and before a call blocked on the job resumes.                      *)
(***************************************************************************)
EXTENDS Naturals, FiniteSets

CONSTANTS
  Jobs,     \* the submitted coroutines, and the calls that submit them
  Blocking, \* the calls of run_blocking; the others are of run_nonblocking
  Maxsize   \* TaskQueue._maxsize

ASSUME BlockingAssumption == Blocking \subseteq Jobs
ASSUME MaxsizeAssumption == Maxsize \in Nat \ {0}

VARIABLES
  job,         \* the state of each job's asyncio task: see JobStates
  pending,     \* LazyTaskGroup._pending_tasks
  exceptions,  \* jobs whose failure is in LazyTaskGroup._exceptions
  waiter,      \* LazyTaskGroup._waiter: none, or a pending or cancelled future
  pc,          \* where each call is: see Pcs
  result,      \* how each call has ended
  reported,    \* history: in how many exception groups a failure was raised
  asked        \* history: jobs somebody outside the queue has cancelled

vars == << job, pending, exceptions, waiter, pc, result, reported, asked >>

JobStates == {"none", "running", "cancelling", "ok", "failed", "cancelled"}
Finished == {"ok", "failed", "cancelled"}
Results == {"none", "ok", "error", "group", "cancelled"}

\* "woken" and "interrupted": the awaited future is done, with a result or a
\* cancellation, and the call has still to resume.  "abandoned": blocked on a
\* finished job and cancelled before it could resume.
Pcs == {"idle", "waiting", "woken", "interrupted", "blocked", "abandoned", "left"}

TypeOK ==
  /\ job \in [Jobs -> JobStates]
  /\ pending \in SUBSET Jobs /\ IsFiniteSet(pending)
  /\ exceptions \in SUBSET Jobs
  /\ waiter \in {"none", "pending", "cancelled"}
  /\ pc \in [Jobs -> Pcs]
  /\ result \in [Jobs -> Results]
  /\ reported \in [Jobs -> Nat]
  /\ asked \in SUBSET Jobs

Init ==
  /\ job = [j \in Jobs |-> "none"]
  /\ pending = {}
  /\ exceptions = {}
  /\ waiter = "none"
  /\ pc = [j \in Jobs |-> "idle"]
  /\ result = [j \in Jobs |-> "none"]
  /\ reported = [j \in Jobs |-> 0]
  /\ asked = {}

-----------------------------------------------------------------------------
(* LazyTaskGroup.                                                          *)

Leave(c, r) ==
  /\ pc' = [pc EXCEPT ![c] = "left"]
  /\ result' = [result EXCEPT ![c] = r]

\* _abort: every task of ts that has not ended is asked to cancel itself.
Aborted(ts) ==
  [j \in Jobs |-> IF j \in ts /\ job[j] = "running" THEN "cancelling" ELSE job[j]]

\* The failures are raised but not forgotten: a mutant of RaiseGroup.
RaiseKeepingList ==
  /\ exceptions # {}
  /\ job' = Aborted(pending)
  /\ reported' = [j \in Jobs |-> IF j \in exceptions THEN reported[j] + 1 ELSE reported[j]]
  /\ UNCHANGED exceptions

\* validate_state with failures: abort, empty the list, raise them as a group.
RaiseGroup ==
  /\ exceptions # {}
  /\ job' = Aborted(pending)
  /\ reported' = [j \in Jobs |-> IF j \in exceptions THEN reported[j] + 1 ELSE reported[j]]
  /\ exceptions' = {}

Full == Cardinality(pending) >= Maxsize

Create(c) ==
  /\ job' = [job EXCEPT ![c] = "running"]
  /\ pending' = pending \cup {c}
  /\ IF c \in Blocking
     THEN pc' = [pc EXCEPT ![c] = "blocked"] /\ UNCHANGED result
     ELSE Leave(c, "ok")
  /\ UNCHANGED waiter

\* wait_for_change: all waiting calls share one future.  A future that was
\* cancelled is still there, and awaiting it raises CancelledError at once.
WaitForChange(c) ==
  /\ IF waiter = "cancelled"
     THEN Leave(c, "cancelled") /\ UNCHANGED waiter
     ELSE /\ waiter' = "pending"
          /\ pc' = [pc EXCEPT ![c] = "waiting"]
          /\ UNCHANGED result
  /\ UNCHANGED << job, pending >>

\* A group's next step after `validate_state()`: raise, or go on.
ValidateAnd(c, next) ==
  /\ \/ /\ RaiseGroup
        /\ Leave(c, "group")
        /\ UNCHANGED << pending, waiter >>
     \/ /\ exceptions = {}
        /\ next
        /\ UNCHANGED << exceptions, reported >>
  /\ UNCHANGED << asked >>

-----------------------------------------------------------------------------
(* The calls.                                                              *)

\* run_nonblocking up to its first suspension, or to the created task.
Submit(c) ==
  /\ pc[c] = "idle"
  /\ ValidateAnd(c, IF Full THEN WaitForChange(c) ELSE Create(c))

\* `if` for `while` in _wait_for_queue: a mutant of Resume.
ResumeWithoutRecheck(c) ==
  /\ pc[c] = "woken"
  /\ ValidateAnd(c, Create(c))

\* _wait_for_queue without validate_state: a mutant of Resume.
ResumeWithoutValidation(c) ==
  /\ pc[c] = "woken"
  /\ IF Full THEN WaitForChange(c) ELSE Create(c)
  /\ UNCHANGED << exceptions, reported, asked >>

\* A call whose wait is over validates and looks at the count again.
Resume(c) ==
  /\ pc[c] = "woken"
  /\ ValidateAnd(c, IF Full THEN WaitForChange(c) ELSE Create(c))

\* The CancelledError of the awaited future leaves the call.
Interrupt(c) ==
  /\ pc[c] = "interrupted"
  /\ Leave(c, "cancelled")
  /\ UNCHANGED << job, pending, exceptions, waiter, reported, asked >>

ReturnNormally(c) == Leave(c, "ok") /\ UNCHANGED << job, pending, waiter >>

\* run_blocking with a bare `except CancelledError: pass`: a mutant of
\* SwallowCancellation.
SwallowBlindly(c) ==
  /\ ReturnNormally(c)
  /\ UNCHANGED << exceptions, reported, asked >>

\* `except CancelledError: validate_state()`, and otherwise return.
SwallowCancellation(c) == ValidateAnd(c, ReturnNormally(c))

\* `await t` in run_blocking comes back, after the job's done-callback.
Unblock(c) ==
  /\ job[c] \in Finished /\ c \notin pending
  /\ \/ /\ pc[c] = "blocked" /\ job[c] # "cancelled"
        /\ Leave(c, IF job[c] = "ok" THEN "ok" ELSE "error")
        /\ UNCHANGED << job, pending, exceptions, waiter, reported, asked >>
     \/ /\ \/ pc[c] = "abandoned"
           \/ pc[c] = "blocked" /\ job[c] = "cancelled"
        /\ SwallowCancellation(c)

\* TaskQueue.__aexit__ validates the group once more.
ExitContext ==
  /\ RaiseGroup
  /\ UNCHANGED << pending, waiter, pc, result, asked >>

-----------------------------------------------------------------------------
(* The jobs.                                                               *)

\* A job returns or raises; one asked to cancel may do so, or still return or
\* raise something else (OraWebDriver raises CancellationNotSupported).
EndJob(j) ==
  /\ \/ job[j] = "running" /\ \E s \in {"ok", "failed"} : job' = [job EXCEPT ![j] = s]
     \/ job[j] = "cancelling" /\ \E s \in Finished : job' = [job EXCEPT ![j] = s]
  /\ UNCHANGED << pending, exceptions, waiter, pc, result, reported, asked >>

\* The shared future gets its result and is dropped.  If it was cancelled,
\* set_result raises, log_errors swallows the error and the future stays.
WakeWaiting ==
  IF waiter = "pending"
  THEN /\ waiter' = "none"
       /\ pc' = [c \in Jobs |-> IF pc[c] = "waiting" THEN "woken" ELSE pc[c]]
  ELSE UNCHANGED << waiter, pc >>

\* The task's outcome is recorded in place of its exception: a mutant of Settle.
SettleRecordingOutcome(j) ==
  /\ j \in pending /\ job[j] \in Finished
  /\ pending' = pending \ {j}
  /\ exceptions' = exceptions \cup {job[j]} /\ job' = Aborted(pending')
  /\ WakeWaiting
  /\ UNCHANGED << result, reported, asked >>

\* Waiting calls are woken by a success only: a mutant of Settle.
SettleWakingOnSuccess(j) ==
  /\ j \in pending /\ job[j] \in Finished
  /\ pending' = pending \ {j}
  /\ IF job[j] = "failed"
     THEN exceptions' = exceptions \cup {j} /\ job' = Aborted(pending') /\ UNCHANGED << waiter, pc >>
     ELSE UNCHANGED << exceptions, job >> /\ WakeWaiting
  /\ UNCHANGED << result, reported, asked >>

\* _on_task_done: drop the job, record a failure and abort the rest, wake.
Settle(j) ==
  /\ j \in pending /\ job[j] \in Finished
  /\ pending' = pending \ {j}
  /\ IF job[j] = "failed"
     THEN exceptions' = exceptions \cup {j} /\ job' = Aborted(pending')
     ELSE UNCHANGED << exceptions, job >>
  /\ WakeWaiting
  /\ UNCHANGED << result, reported, asked >>

-----------------------------------------------------------------------------
(* Task.cancel() from outside.                                             *)

\* The future is cancelled, but the others still wait: a mutant of CancelWaiting.
CancelWaitingAlone(c) ==
  /\ pc[c] = "waiting"
  /\ waiter' = "cancelled"
  /\ pc' = [pc EXCEPT ![c] = "interrupted"]
  /\ UNCHANGED << job, pending, exceptions, result, reported, asked >>

\* Cancelling a waiting call cancels the future it shares with the others.
CancelWaiting(c) ==
  /\ pc[c] = "waiting"
  /\ waiter' = "cancelled"
  /\ pc' = [d \in Jobs |-> IF pc[d] = "waiting" THEN "interrupted" ELSE pc[d]]
  /\ UNCHANGED << job, pending, exceptions, result, reported, asked >>

CancelWoken(c) ==
  /\ pc[c] = "woken"
  /\ pc' = [pc EXCEPT ![c] = "interrupted"]
  /\ UNCHANGED << job, pending, exceptions, waiter, result, reported, asked >>

\* The job is shielded from the cancellation: a mutant of CancelBlocked.
CancelBlockedShielded(c) ==
  /\ pc[c] = "blocked"
  /\ asked' = asked \cup {c}
  /\ UNCHANGED << job, pending, exceptions, waiter, pc, result, reported >>

\* The call leaves before its job has ended: a mutant of CancelBlocked.
CancelBlockedAtOnce(c) ==
  /\ pc[c] = "blocked"
  /\ asked' = asked \cup {c}
  /\ Leave(c, "cancelled") /\ job' = Aborted({c})
  /\ UNCHANGED << pending, exceptions, waiter, reported >>

\* Cancelling a blocked call cancels the job it awaits; if that has ended, the
\* call itself gets the CancelledError when it resumes.
CancelBlocked(c) ==
  /\ pc[c] = "blocked"
  /\ asked' = asked \cup {c}
  /\ IF job[c] \in Finished
     THEN pc' = [pc EXCEPT ![c] = "abandoned"] /\ UNCHANGED job
     ELSE job' = Aborted({c}) /\ UNCHANGED pc
  /\ UNCHANGED << pending, exceptions, waiter, result, reported >>

\* The caller of run_nonblocking cancels the task it was given.
CancelJob(j) ==
  /\ j \notin Blocking /\ job[j] = "running"
  /\ job' = Aborted({j})
  /\ asked' = asked \cup {j}
  /\ UNCHANGED << pending, exceptions, waiter, pc, result, reported >>

Cancel(c) == CancelWaiting(c) \/ CancelWoken(c) \/ CancelBlocked(c) \/ CancelJob(c)

-----------------------------------------------------------------------------
Loop(c) == Settle(c) \/ Resume(c) \/ Interrupt(c) \/ Unblock(c)

Next ==
  \/ \E c \in Jobs : Submit(c) \/ EndJob(c) \/ Loop(c) \/ Cancel(c)
  \/ ExitContext

Spec == Init /\ [][Next]_vars

-----------------------------------------------------------------------------
(* Properties.                                                             *)

Live == {j \in Jobs : job[j] \in {"running", "cancelling"}}

\* Never more than _maxsize jobs are alive, and each of them is known to the
\* group, so that an abort can reach it.
CapacityRespected ==
  /\ Live \subseteq pending
  /\ Cardinality(pending) <= Maxsize

\* Once a failure is recorded, no job goes on undisturbed: it has been asked to
\* cancel, or has ended; and none is started until the failure is reported.
AbortIsComplete == exceptions # {} => \A j \in Jobs : job[j] # "running"

\* A failure is recorded once its callback has run, and raised in exactly one
\* exception group: never lost, never in two groups.
FailureReportedOnce ==
  \A j \in Jobs :
    LET expected == IF job[j] = "failed" /\ j \notin pending \cup exceptions THEN 1 ELSE 0
    IN reported[j] = expected /\ (j \in exceptions => job[j] = "failed")

\* A call waits only on a future that the end of a job will resolve: waiting
\* calls share one pending future, and while it is pending the queue is full,
\* so there is a job whose end will wake them all.
NoLostWakeup ==
  /\ (\E c \in Jobs : pc[c] = "waiting") <=> waiter = "pending"
  /\ waiter = "pending" => Full

\* A blocking call returns normally only after its job has ended well, or was
\* cancelled on demand, or was aborted for a failure another call has raised.
BlockingMeansDone ==
  \A c \in Jobs :
    c \in Blocking /\ result[c] = "ok" =>
      \/ job[c] = "ok"
      \/ c \in asked
      \/ job[c] = "cancelled" /\ \E j \in Jobs : reported[j] > 0
=============================================================================
