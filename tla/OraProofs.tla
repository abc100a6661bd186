------------------------------ MODULE OraProofs ------------------------------
(***************************************************************************)
(* Proofs about TaskQueue, for any set of jobs and any queue size, and     *)
(* about OraSync, for any set of methods.                                  *)
(*                                                                         *)
(* The checked invariants of the queue support each other: an abort        *)
(* reaches every live job because Live is a subset of pending; a failure   *)
(* is raised once because a job in pending is not yet in exceptions.  What *)
(* they lack to be inductive is the bookkeeping stated first.              *)
(***************************************************************************)
EXTENDS OraSync, FiniteSetTheorems, TLAPS

\* A call that has not created its task yet has no job, and only a call that
\* has been left has a result.
CallsPrecedeJobs ==
  \A c \in Jobs :
    /\ pc[c] \in {"idle", "waiting", "woken", "interrupted"} => job[c] = "none"
    /\ pc[c] # "left" => result[c] = "none"

\* A failure is recorded when its job is dropped.
RecordedIsDropped == exceptions \cap pending = {}

\* A job is cancelled because somebody asked for it, or for a failure that is
\* recorded or has been raised; an abandoned call has been cancelled.
CancellationHasCause ==
  \A j \in Jobs :
    /\ job[j] \in {"cancelling", "cancelled"} =>
         \/ j \in asked
         \/ exceptions # {}
         \/ \E k \in Jobs : reported[k] > 0
    /\ pc[j] = "abandoned" => j \in asked

IInv ==
  /\ TypeOK
  /\ CapacityRespected
  /\ AbortIsComplete
  /\ FailureReportedOnce
  /\ NoLostWakeup
  /\ BlockingMeansDone
  /\ CallsPrecedeJobs
  /\ RecordedIsDropped
  /\ CancellationHasCause

-----------------------------------------------------------------------------
(* Facts about the parts the actions share.                                *)

\* Aborting keeps every job in a legal state and starts none.
LEMMA AbortedType ==
  ASSUME TypeOK, NEW ts \in SUBSET Jobs
  PROVE  Aborted(ts) \in [Jobs -> JobStates]
BY DEF TypeOK, Aborted, JobStates

\* A step of a call that validates first is one of these: the group is raised,
\* or there is no failure and the call waits, or creates its task.
LEMMA SubmitCases ==
  ASSUME NEW c \in Jobs, Submit(c) \/ Resume(c)
  PROVE  /\ pc[c] \in {"idle", "woken"}
         /\ \/ RaiseGroup /\ Leave(c, "group") /\ UNCHANGED << pending, waiter >>
            \/ /\ exceptions = {} /\ UNCHANGED << exceptions, reported >>
               /\ Full /\ WaitForChange(c)
            \/ /\ exceptions = {} /\ UNCHANGED << exceptions, reported >>
               /\ ~Full /\ Create(c)
         /\ UNCHANGED asked
BY DEF Submit, Resume, ValidateAnd

-----------------------------------------------------------------------------
(* Type correctness.                                                       *)

LEMMA TypeInit == Init => TypeOK
BY FS_EmptySet DEF Init, TypeOK, JobStates, Pcs, Results

LEMMA TypeRaiseGroup ==
  ASSUME TypeOK, RaiseGroup
  PROVE  /\ job' \in [Jobs -> JobStates]
         /\ exceptions' \in SUBSET Jobs
         /\ reported' \in [Jobs -> Nat]
BY AbortedType DEF TypeOK, RaiseGroup

LEMMA TypeStep ==
  ASSUME TypeOK, [Next]_vars
  PROVE  TypeOK'
<1> USE DEF TypeOK
<1>1. ASSUME NEW c \in Jobs, Submit(c) \/ Resume(c)
      PROVE  TypeOK'
  <2>1. CASE RaiseGroup /\ Leave(c, "group") /\ UNCHANGED << pending, waiter >>
    BY <1>1, <2>1, SubmitCases, TypeRaiseGroup DEF Leave, Pcs, Results
  <2>2. CASE exceptions = {} /\ UNCHANGED << exceptions, reported >>
             /\ Full /\ WaitForChange(c)
    BY <1>1, <2>2, SubmitCases DEF WaitForChange, Leave, Pcs, Results
  <2>3. CASE exceptions = {} /\ UNCHANGED << exceptions, reported >>
             /\ ~Full /\ Create(c)
    <3>1. IsFiniteSet(pending \cup {c})
      BY FS_AddElement
    <3>2. job' \in [Jobs -> JobStates] /\ pc' \in [Jobs -> Pcs] /\ result' \in [Jobs -> Results]
      BY <2>3 DEF Create, Leave, JobStates, Pcs, Results
    <3> QED
      BY <1>1, <2>3, <3>1, <3>2, SubmitCases DEF Create
  <2> QED
    BY <1>1, <2>1, <2>2, <2>3, SubmitCases
<1>2. ASSUME NEW c \in Jobs, Interrupt(c)
      PROVE  TypeOK'
  BY <1>2 DEF Interrupt, Leave, Pcs, Results
<1>3. ASSUME NEW c \in Jobs, Unblock(c)
      PROVE  TypeOK'
  <2>1. CASE Leave(c, IF job[c] = "ok" THEN "ok" ELSE "error")
             /\ UNCHANGED << job, pending, exceptions, waiter, reported, asked >>
    BY <2>1 DEF Leave, Pcs, Results
  <2>2. CASE SwallowCancellation(c)
    BY <2>2, TypeRaiseGroup DEF SwallowCancellation, ValidateAnd, ReturnNormally, Leave, Pcs, Results
  <2> QED
    BY <1>3, <2>1, <2>2 DEF Unblock
<1>4. CASE ExitContext
  BY <1>4, TypeRaiseGroup DEF ExitContext
<1>5. ASSUME NEW j \in Jobs, EndJob(j)
      PROVE  TypeOK'
  BY <1>5 DEF EndJob, JobStates, Finished
<1>6. ASSUME NEW j \in Jobs, Settle(j)
      PROVE  TypeOK'
  <2>1. pending' \in SUBSET Jobs /\ IsFiniteSet(pending')
    BY <1>6, FS_RemoveElement DEF Settle
  <2>2. job' \in [Jobs -> JobStates] /\ exceptions' \in SUBSET Jobs
    BY <1>6, <2>1, AbortedType DEF Settle
  <2>3. pc' \in [Jobs -> Pcs] /\ waiter' \in {"none", "pending", "cancelled"}
    BY <1>6 DEF Settle, WakeWaiting, Pcs
  <2> QED
    BY <1>6, <2>1, <2>2, <2>3 DEF Settle
<1>7. ASSUME NEW c \in Jobs, Cancel(c)
      PROVE  TypeOK'
  <2>1. CASE CancelWaiting(c)
    BY <2>1 DEF CancelWaiting, Pcs
  <2>2. CASE CancelWoken(c)
    BY <2>2 DEF CancelWoken, Pcs
  <2>3. CASE CancelBlocked(c)
    BY <2>3, AbortedType DEF CancelBlocked, Pcs
  <2>4. CASE CancelJob(c)
    BY <2>4, AbortedType DEF CancelJob
  <2> QED
    BY <1>7, <2>1, <2>2, <2>3, <2>4 DEF Cancel
<1>8. CASE UNCHANGED vars
  BY <1>8 DEF vars
<1> QED
  BY <1>1, <1>2, <1>3, <1>4, <1>5, <1>6, <1>7, <1>8 DEF Next, Loop

\* Every reachable state is type-correct; the pending set stays finite.
THEOREM TypeCorrect == Spec => []TypeOK
BY TypeInit, TypeStep, PTL DEF Spec

-----------------------------------------------------------------------------
(* The inductive invariant.                                                *)

LEMMA InvInit == Init => IInv
<1> SUFFICES ASSUME Init PROVE IInv
  OBVIOUS
<1>1. TypeOK
  BY TypeInit
<1>2. CapacityRespected
  BY FS_EmptySet, MaxsizeAssumption DEF Init, CapacityRespected, Live
<1> QED
  BY <1>1, <1>2 DEF Init, IInv, AbortIsComplete, FailureReportedOnce, NoLostWakeup,
     BlockingMeansDone, CallsPrecedeJobs, RecordedIsDropped, CancellationHasCause

\* What an abort leaves of a job.
LEMMA AbortedJob ==
  ASSUME TypeOK, NEW ts \in SUBSET Jobs, NEW j \in Jobs
  PROVE  /\ Aborted(ts)[j] = job[j] \/ (job[j] = "running" /\ Aborted(ts)[j] = "cancelling")
         /\ j \in ts => Aborted(ts)[j] # "running"
BY DEF Aborted, TypeOK

\* Raising the group leaves every part of the invariant about jobs, failures
\* and causes true, whatever the call that raises it does with itself.
LEMMA RaiseGroupKeeps ==
  ASSUME IInv, RaiseGroup, UNCHANGED << pending, asked >>
  PROVE  /\ CapacityRespected' /\ AbortIsComplete'
         /\ FailureReportedOnce' /\ RecordedIsDropped'
         /\ \E k \in Jobs : reported'[k] > 0
<1> USE DEF IInv
<1>1. \A j \in Jobs : job'[j] = job[j] \/ (job[j] = "running" /\ job'[j] = "cancelling")
  BY AbortedJob DEF RaiseGroup, TypeOK
<1>2. CapacityRespected'
  BY <1>1 DEF CapacityRespected, Live
<1>3. AbortIsComplete'
  BY DEF RaiseGroup, AbortIsComplete
<1>4. FailureReportedOnce'
  BY <1>1 DEF FailureReportedOnce, RaiseGroup, RecordedIsDropped, TypeOK
<1>5. RecordedIsDropped'
  BY DEF RecordedIsDropped, RaiseGroup
<1>6. \E k \in Jobs : reported'[k] > 0
  BY DEF RaiseGroup, TypeOK
<1> QED
  BY <1>2, <1>3, <1>4, <1>5, <1>6

\* A job created in a queue with room keeps the queue within its size.
LEMMA CreateKeepsCapacity ==
  ASSUME TypeOK, CapacityRespected, NEW c \in Jobs, ~Full, Create(c)
  PROVE  CapacityRespected'
<1>0. IsFiniteSet(pending) /\ IsFiniteSet(pending \cup {c})
  BY FS_AddElement DEF TypeOK
<1>1. /\ Cardinality(pending) \in Nat
      /\ Cardinality(pending \cup {c}) \in Nat
      /\ Cardinality(pending \cup {c}) <= Cardinality(pending) + 1
  BY <1>0, FS_AddElement, FS_CardinalityType
<1>2. Cardinality(pending') <= Maxsize
  BY <1>1, MaxsizeAssumption DEF Full, Create
<1>3. Live' \subseteq pending'
  BY DEF Create, CapacityRespected, Live, TypeOK
<1> QED
  BY <1>2, <1>3 DEF CapacityRespected

\* The steps of a call that has validated and may go on.
LEMMA CreateKeeps ==
  ASSUME IInv, NEW c \in Jobs, pc[c] \in {"idle", "woken"}, exceptions = {}, ~Full,
         Create(c), UNCHANGED << exceptions, reported, asked >>
  PROVE  IInv'
<1> USE DEF IInv
<1>1. TypeOK'
  <2>1. IsFiniteSet(pending \cup {c})
    BY FS_AddElement DEF TypeOK
  <2> QED
    BY <2>1 DEF TypeOK, Create, Leave, JobStates, Pcs, Results
<1>2. CapacityRespected'
  BY CreateKeepsCapacity
<1>3. job[c] = "none" /\ c \notin exceptions
  BY DEF CallsPrecedeJobs
<1>4. /\ \A j \in Jobs \ {c} : /\ job'[j] = job[j]
                             /\ pc'[j] = pc[j]
                             /\ result'[j] = result[j]
      /\ job'[c] = "running"
      /\ \/ c \in Blocking /\ pc'[c] = "blocked" /\ result'[c] = "none"
         \/ c \notin Blocking /\ pc'[c] = "left"
  BY DEF Create, Leave, TypeOK, CallsPrecedeJobs
<1>5. AbortIsComplete' /\ RecordedIsDropped'
  BY DEF AbortIsComplete, RecordedIsDropped
<1>6. FailureReportedOnce'
  BY <1>3, <1>4 DEF FailureReportedOnce, Create
<1>7. NoLostWakeup'
  <2>1. waiter # "pending"
    BY DEF NoLostWakeup
  <2>2. waiter' = waiter
    BY DEF Create
  <2> QED
    BY <1>4, <2>1, <2>2 DEF NoLostWakeup
<1>8. BlockingMeansDone'
  BY <1>4 DEF BlockingMeansDone
<1>9. CallsPrecedeJobs'
  BY <1>4 DEF CallsPrecedeJobs
<1>10. CancellationHasCause'
  BY <1>4 DEF CancellationHasCause
<1> QED
  BY <1>1, <1>2, <1>5, <1>6, <1>7, <1>8, <1>9, <1>10

LEMMA WaitKeeps ==
  ASSUME IInv, NEW c \in Jobs, pc[c] \in {"idle", "woken"}, Full,
         WaitForChange(c), UNCHANGED << exceptions, reported, asked >>
  PROVE  IInv'
<1> USE DEF IInv
<1>1. TypeOK'
  BY DEF TypeOK, WaitForChange, Leave, Pcs, Results
<1>2. job' = job /\ pending' = pending
  BY DEF WaitForChange
<1>3. CapacityRespected' /\ AbortIsComplete' /\ FailureReportedOnce' /\ RecordedIsDropped'
  BY <1>2 DEF CapacityRespected, Live, AbortIsComplete, FailureReportedOnce, RecordedIsDropped
<1>4. /\ \A j \in Jobs \ {c} : pc'[j] = pc[j] /\ result'[j] = result[j]
      /\ \/ pc'[c] = "waiting" /\ result'[c] = "none"
         \/ pc'[c] = "left" /\ result'[c] = "cancelled"
  BY DEF WaitForChange, Leave, TypeOK, CallsPrecedeJobs
<1>5. NoLostWakeup'
  <2>1. Full'
    BY <1>2 DEF Full
  <2>2. CASE waiter = "cancelled"
    BY <2>2 DEF NoLostWakeup, WaitForChange, Leave, TypeOK
  <2>3. CASE waiter # "cancelled"
    BY <2>1, <2>3 DEF NoLostWakeup, WaitForChange, TypeOK
  <2> QED
    BY <2>2, <2>3
<1>6. BlockingMeansDone' /\ CallsPrecedeJobs' /\ CancellationHasCause'
  BY <1>2, <1>4 DEF BlockingMeansDone, CallsPrecedeJobs, CancellationHasCause
<1> QED
  BY <1>1, <1>3, <1>5, <1>6

\* A call that raises the group is left, and was not waiting.
LEMMA RaiseKeeps ==
  ASSUME IInv, NEW c \in Jobs, pc[c] \in Pcs \ {"waiting", "left"}, RaiseGroup,
         Leave(c, "group"), UNCHANGED << pending, waiter, asked >>
  PROVE  IInv'
<1> USE DEF IInv
<1>1. TypeOK'
  BY TypeRaiseGroup DEF TypeOK, Leave, Pcs, Results
<1>2. \A j \in Jobs : job'[j] = job[j] \/ (job[j] = "running" /\ job'[j] = "cancelling")
  BY AbortedJob DEF RaiseGroup, TypeOK
<1>3. /\ \A j \in Jobs \ {c} : pc'[j] = pc[j] /\ result'[j] = result[j]
      /\ pc'[c] = "left" /\ result'[c] = "group"
  BY DEF Leave, TypeOK
<1>4. NoLostWakeup'
  BY <1>3 DEF NoLostWakeup, Full
<1>5. BlockingMeansDone' /\ CallsPrecedeJobs' /\ CancellationHasCause'
  BY <1>2, <1>3, RaiseGroupKeeps DEF BlockingMeansDone, CallsPrecedeJobs, CancellationHasCause
<1> QED
  BY <1>1, <1>4, <1>5, RaiseGroupKeeps

\* A call is left, and nothing else changes.
LEMMA LeaveKeeps ==
  ASSUME IInv, NEW c \in Jobs, NEW r \in Results \ {"none"},
         pc[c] \in Pcs \ {"waiting", "left"}, Leave(c, r),
         c \in Blocking /\ r = "ok" =>
           \/ job[c] = "ok"
           \/ c \in asked
           \/ job[c] = "cancelled" /\ \E j \in Jobs : reported[j] > 0,
         UNCHANGED << job, pending, exceptions, waiter, reported, asked >>
  PROVE  IInv'
<1> USE DEF IInv
<1>1. TypeOK'
  BY DEF TypeOK, Leave, Pcs, Results
<1>2. CapacityRespected' /\ AbortIsComplete' /\ FailureReportedOnce' /\ RecordedIsDropped'
  BY DEF CapacityRespected, Live, AbortIsComplete, FailureReportedOnce, RecordedIsDropped
<1>3. /\ \A j \in Jobs \ {c} : pc'[j] = pc[j] /\ result'[j] = result[j]
      /\ pc'[c] = "left" /\ result'[c] = r
  BY DEF Leave, TypeOK
<1>4. NoLostWakeup'
  BY <1>3 DEF NoLostWakeup, Full
<1>5. BlockingMeansDone' /\ CallsPrecedeJobs' /\ CancellationHasCause'
  BY <1>3 DEF BlockingMeansDone, CallsPrecedeJobs, CancellationHasCause
<1> QED
  BY <1>1, <1>2, <1>4, <1>5

\* The call's own end: its job is over and out of the pending set.
LEMMA UnblockKeeps ==
  ASSUME IInv, NEW c \in Jobs, Unblock(c)
  PROVE  IInv'
<1> USE DEF IInv
<1>1. pc[c] \in Pcs \ {"waiting", "left"}
  BY DEF Unblock, Pcs
<1>2. CASE /\ pc[c] = "blocked" /\ job[c] # "cancelled"
           /\ Leave(c, IF job[c] = "ok" THEN "ok" ELSE "error")
           /\ UNCHANGED << job, pending, exceptions, waiter, reported, asked >>
  BY <1>1, <1>2, LeaveKeeps DEF Results
<1>3. CASE /\ pc[c] = "abandoned" \/ (pc[c] = "blocked" /\ job[c] = "cancelled")
           /\ SwallowCancellation(c)
  <2>1. CASE RaiseGroup /\ Leave(c, "group") /\ UNCHANGED << pending, waiter, asked >>
    BY <1>1, <2>1, RaiseKeeps
  <2>2. CASE /\ exceptions = {}
             /\ ReturnNormally(c)
             /\ UNCHANGED << exceptions, reported, asked >>
    <3>1. \/ c \in asked
          \/ job[c] = "cancelled" /\ \E j \in Jobs : reported[j] > 0
      BY <1>3, <2>2 DEF CancellationHasCause
    <3> QED
      BY <1>1, <2>2, <3>1, LeaveKeeps DEF ReturnNormally, Results
  <2> QED
    BY <1>3, <2>1, <2>2 DEF SwallowCancellation, ValidateAnd
<1> QED
  BY <1>2, <1>3 DEF Unblock

\* A job ends; its done-callback has still to run.
LEMMA EndJobKeeps ==
  ASSUME IInv, NEW j \in Jobs, EndJob(j)
  PROVE  IInv'
<1> USE DEF IInv
<1>1. TypeOK'
  BY TypeStep DEF Next
<1>2. /\ \A k \in Jobs \ {j} : job'[k] = job[k]
      /\ job[j] \in {"running", "cancelling"} /\ job'[j] \in Finished
      /\ job'[j] = "cancelled" => job[j] = "cancelling"
  BY DEF EndJob, TypeOK, Finished
<1>3. j \in pending
  BY <1>2 DEF CapacityRespected, Live
<1>4. UNCHANGED << pending, exceptions, waiter, pc, result, reported, asked >>
  BY DEF EndJob
<1>5. CapacityRespected'
  BY <1>2, <1>4 DEF CapacityRespected, Live, Finished
<1>6. AbortIsComplete' /\ RecordedIsDropped'
  BY <1>2, <1>4 DEF AbortIsComplete, RecordedIsDropped, Finished
<1>7. FailureReportedOnce'
  BY <1>2, <1>3, <1>4 DEF FailureReportedOnce, Finished
<1>8. NoLostWakeup'
  BY <1>4 DEF NoLostWakeup, Full
<1>9. BlockingMeansDone' /\ CallsPrecedeJobs' /\ CancellationHasCause'
  BY <1>2, <1>4 DEF BlockingMeansDone, CallsPrecedeJobs, CancellationHasCause, Finished
<1> QED
  BY <1>1, <1>5, <1>6, <1>7, <1>8, <1>9

\* The done-callback: the job leaves the pending set, a failure aborts the
\* rest, and everybody waiting is woken.
LEMMA SettleKeeps ==
  ASSUME IInv, NEW j \in Jobs, Settle(j)
  PROVE  IInv'
<1> USE DEF IInv
<1>1. TypeOK'
  BY TypeStep DEF Next, Loop
<1>2. /\ j \in pending /\ job[j] \in Finished
      /\ pending' = pending \ {j}
      /\ UNCHANGED << result, reported, asked >>
  BY DEF Settle
<1>3. /\ \A k \in Jobs : job'[k] = job[k] \/ (job[k] = "running" /\ job'[k] = "cancelling")
      /\ job'[j] = job[j]
      /\ \/ job[j] = "failed" /\ exceptions' = exceptions \cup {j}
              /\ \A k \in pending' : job'[k] # "running"
         \/ job[j] # "failed" /\ exceptions' = exceptions /\ job' = job
  BY <1>2, AbortedJob DEF Settle, TypeOK, Finished
<1>4. CapacityRespected'
  <2>1. Cardinality(pending') \in Nat /\ Cardinality(pending) \in Nat
    BY <1>1, FS_CardinalityType DEF TypeOK
  <2>2. Cardinality(pending') <= Cardinality(pending)
    BY <1>2, FS_Subset DEF TypeOK
  <2>3. Live' \subseteq pending'
    BY <1>2, <1>3 DEF CapacityRespected, Live, Finished
  <2> QED
    BY <2>1, <2>2, <2>3, MaxsizeAssumption DEF CapacityRespected
<1>5. AbortIsComplete'
  BY <1>3, <1>4 DEF AbortIsComplete, CapacityRespected, Live
<1>6. FailureReportedOnce' /\ RecordedIsDropped'
  BY <1>2, <1>3 DEF FailureReportedOnce, RecordedIsDropped
<1>7. /\ waiter' # "pending"
      /\ \A c \in Jobs : /\ pc'[c] # "waiting"
                         /\ pc'[c] = pc[c] \/ (pc[c] = "waiting" /\ pc'[c] = "woken")
  BY DEF Settle, WakeWaiting, NoLostWakeup, TypeOK
<1>8. NoLostWakeup'
  BY <1>7 DEF NoLostWakeup
<1>9. BlockingMeansDone' /\ CallsPrecedeJobs' /\ CancellationHasCause'
  BY <1>2, <1>3, <1>7 DEF BlockingMeansDone, CallsPrecedeJobs, CancellationHasCause
<1> QED
  BY <1>1, <1>4, <1>5, <1>6, <1>8, <1>9

\* Cancelling calls that have no job yet changes who waits, and nothing else.
LEMMA CancelQueuedKeeps ==
  ASSUME IInv, NEW c \in Jobs, CancelWaiting(c) \/ CancelWoken(c)
  PROVE  IInv'
<1> USE DEF IInv
<1>1. TypeOK'
  BY TypeStep DEF Next, Cancel
<1>2. UNCHANGED << job, pending, exceptions, result, reported, asked >>
  BY DEF CancelWaiting, CancelWoken
<1>3. \A d \in Jobs : pc'[d] = pc[d] \/ (pc[d] \in {"waiting", "woken"} /\ pc'[d] = "interrupted")
  BY DEF CancelWaiting, CancelWoken, TypeOK
<1>4. CapacityRespected' /\ AbortIsComplete' /\ FailureReportedOnce' /\ RecordedIsDropped'
  BY <1>2 DEF CapacityRespected, Live, AbortIsComplete, FailureReportedOnce, RecordedIsDropped
<1>5. NoLostWakeup'
  <2>1. CASE CancelWaiting(c)
    BY <2>1 DEF CancelWaiting, NoLostWakeup, TypeOK
  <2>2. CASE CancelWoken(c)
    BY <2>2 DEF CancelWoken, NoLostWakeup, Full, TypeOK
  <2> QED
    BY <2>1, <2>2
<1>6. BlockingMeansDone' /\ CallsPrecedeJobs' /\ CancellationHasCause'
  BY <1>2, <1>3 DEF BlockingMeansDone, CallsPrecedeJobs, CancellationHasCause
<1> QED
  BY <1>1, <1>4, <1>5, <1>6

\* Cancelling a job, or the call blocked on it, adds to what was asked for.
LEMMA CancelSpawnedKeeps ==
  ASSUME IInv, NEW c \in Jobs, CancelBlocked(c) \/ CancelJob(c)
  PROVE  IInv'
<1> USE DEF IInv
<1>1. TypeOK'
  BY TypeStep DEF Next, Cancel
<1>2. /\ UNCHANGED << pending, exceptions, waiter, result, reported >>
      /\ asked' = asked \cup {c}
  BY DEF CancelBlocked, CancelJob
<1>3. /\ \A j \in Jobs \ {c} : job'[j] = job[j] /\ pc'[j] = pc[j]
      /\ job'[c] = job[c] \/ (job[c] = "running" /\ job'[c] = "cancelling")
      /\ pc'[c] = pc[c] \/ (pc[c] = "blocked" /\ pc'[c] = "abandoned")
  BY AbortedJob DEF CancelBlocked, CancelJob, Aborted, TypeOK
<1>4. CapacityRespected'
  BY <1>2, <1>3 DEF CapacityRespected, Live
<1>5. AbortIsComplete' /\ FailureReportedOnce' /\ RecordedIsDropped'
  BY <1>2, <1>3 DEF AbortIsComplete, FailureReportedOnce, RecordedIsDropped
<1>6. NoLostWakeup'
  BY <1>2, <1>3 DEF NoLostWakeup, Full
<1>7. BlockingMeansDone' /\ CallsPrecedeJobs' /\ CancellationHasCause'
  BY <1>2, <1>3 DEF BlockingMeansDone, CallsPrecedeJobs, CancellationHasCause
<1> QED
  BY <1>1, <1>4, <1>5, <1>6, <1>7

\* Leaving the context manager with failures: the group is raised to nobody's call.
LEMMA ExitKeeps ==
  ASSUME IInv, ExitContext
  PROVE  IInv'
<1> USE DEF IInv
<1>1. TypeOK'
  BY TypeStep DEF Next
<1>2. RaiseGroup /\ UNCHANGED << pending, waiter, pc, result, asked >>
  BY DEF ExitContext
<1>3. \A j \in Jobs : job'[j] = job[j] \/ (job[j] = "running" /\ job'[j] = "cancelling")
  BY <1>2, AbortedJob DEF RaiseGroup, TypeOK
<1>4. NoLostWakeup'
  BY <1>2 DEF NoLostWakeup, Full
<1>5. BlockingMeansDone' /\ CallsPrecedeJobs' /\ CancellationHasCause'
  BY <1>2, <1>3, RaiseGroupKeeps DEF BlockingMeansDone, CallsPrecedeJobs, CancellationHasCause
<1> QED
  BY <1>1, <1>2, <1>4, <1>5, RaiseGroupKeeps

LEMMA InvStep ==
  ASSUME IInv, [Next]_vars
  PROVE  IInv'
<1>1. ASSUME NEW c \in Jobs, Submit(c) \/ Resume(c)
      PROVE  IInv'
  <2>1. pc[c] \in Pcs \ {"waiting", "left"}
    BY <1>1, SubmitCases DEF Pcs
  <2> QED
    BY <1>1, <2>1, SubmitCases, RaiseKeeps, WaitKeeps, CreateKeeps
<1>2. ASSUME NEW c \in Jobs, Interrupt(c)
      PROVE  IInv'
  BY <1>2, LeaveKeeps DEF Interrupt, Pcs, Results
<1>3. ASSUME NEW c \in Jobs, Unblock(c) \/ EndJob(c) \/ Settle(c)
      PROVE  IInv'
  BY <1>3, UnblockKeeps, EndJobKeeps, SettleKeeps
<1>4. ASSUME NEW c \in Jobs, Cancel(c)
      PROVE  IInv'
  BY <1>4, CancelQueuedKeeps, CancelSpawnedKeeps DEF Cancel
<1>5. CASE ExitContext
  BY <1>5, ExitKeeps
<1>6. CASE UNCHANGED vars
  BY <1>6 DEF vars, IInv, TypeOK, CapacityRespected, Live, AbortIsComplete, FailureReportedOnce,
     NoLostWakeup, Full, BlockingMeansDone, CallsPrecedeJobs, RecordedIsDropped,
     CancellationHasCause
<1> QED
  BY <1>1, <1>2, <1>3, <1>4, <1>5, <1>6 DEF Next, Loop

\* The conjunction of everything below, and what makes it inductive, holds of
\* every behaviour.
THEOREM Invariance == Spec => []IInv
BY InvInit, InvStep, PTL DEF Spec

-----------------------------------------------------------------------------
(* The results, one for each invariant the runs check.                     *)

\* At most _maxsize jobs are alive, and the group knows each of them.
THEOREM Capacity == Spec => []CapacityRespected
<1>1. IInv => CapacityRespected
  BY DEF IInv
<1> QED
  BY <1>1, Invariance, PTL

\* Once a failure is recorded no job goes on undisturbed, and none is started.
THEOREM AbortComplete == Spec => []AbortIsComplete
<1>1. IInv => AbortIsComplete
  BY DEF IInv
<1> QED
  BY <1>1, Invariance, PTL

\* Every failure is raised in exactly one exception group.
THEOREM ReportedOnce == Spec => []FailureReportedOnce
<1>1. IInv => FailureReportedOnce
  BY DEF IInv
<1> QED
  BY <1>1, Invariance, PTL

\* A waiting call shares a pending future, and some job is in its way.
THEOREM Wakeup == Spec => []NoLostWakeup
<1>1. IInv => NoLostWakeup
  BY DEF IInv
<1> QED
  BY <1>1, Invariance, PTL

\* run_blocking returns normally only for one of the three named reasons.
THEOREM BlockingDone == Spec => []BlockingMeansDone
<1>1. IInv => BlockingMeansDone
  BY DEF IInv
<1> QED
  BY <1>1, Invariance, PTL

-----------------------------------------------------------------------------
(* The synchronous API.  The runner only restricts when the queue's steps  *)
(* are taken, so the queue keeps what the theorems above show of it.  From *)
(* that follows what the motions do: one that is under way belongs to a    *)
(* live job, which the queue knows and can abort.                          *)

\* An RPC is under way only while its job is alive.
InflightIsLive == \A j \in Jobs : rpc[j] = "inflight" => job[j] \in {"running", "cancelling"}

\* An interrupted RPC has failed its job.
InterruptedHasFailed == \A j \in Jobs : rpc[j] = "interrupted" => job[j] = "failed"

\* An RPC was interrupted only in what is now the undefined state.
InterruptedIsUndefined == \A j \in Jobs : rpc[j] = "interrupted" => undefined

\* A call that is left has no live job.
LeftHasEnded == \A c \in Jobs : pc[c] = "left" => job[c] \notin {"running", "cancelling"}

Motions ==
  /\ InflightIsLive
  /\ InterruptedHasFailed
  /\ InterruptedIsUndefined
  /\ LeftHasEnded
  /\ UndefinedStopsMotions

-----------------------------------------------------------------------------
(* The queue under the runner.                                             *)

\* A job ends with one of the outcomes the queue allows.
LEMMA FinishEnds ==
  ASSUME TypeOK, NEW j \in Jobs, NEW s, Finish(j, s)
  PROVE  /\ EndJob(j)
         /\ job[j] \in {"running", "cancelling"} /\ job'[j] \in Finished /\ job'[j] = s
         /\ \A k \in Jobs : k # j => job'[k] = job[k]
         /\ UNCHANGED << pending, pc >>
BY DEF TypeOK, Finish, EndJob, Finished

\* A step of the runner, the arm or the user is a step of the queue or none.
LEMMA RunnerStep ==
  ASSUME [SyncNext]_allVars
  PROVE  [Next]_vars
<1>1. ASSUME NEW c \in Jobs, Call(c) \/ InterruptOnce(c)
      PROVE  Submit(c) \/ Cancel(c)
  BY <1>1 DEF Call, InterruptOnce
<1>2. ASSUME NEW c \in Jobs, Return(c) \/ InterruptTwice(c)
      PROVE  UNCHANGED vars
  BY <1>2 DEF Return, InterruptTwice
<1>3. ASSUME NEW c \in Jobs, Step(c) \/ Answer(c)
      PROVE  Loop(c) \/ EndJob(c) \/ UNCHANGED vars
  BY <1>3 DEF Step, Answer, StartRpc, CancelUnstarted, RpcInterrupted, RpcEnds, Finish
<1>4. UNCHANGED allVars => UNCHANGED vars
  BY DEF allVars
<1> QED
  BY <1>1, <1>2, <1>3, <1>4 DEF SyncNext, Next

\* Whatever the runner, the arm and the user do, the queue behaves as TaskQueue.
THEOREM RunnerRunsTheQueue == SyncSpec => RunsTheQueue
<1>1. SyncInit => Init
  BY DEF SyncInit
<1> QED
  BY <1>1, RunnerStep, PTL DEF SyncSpec, RunsTheQueue, Spec

-----------------------------------------------------------------------------
(* Type correctness.                                                       *)

LEMMA SyncTypeInit == SyncInit => SyncTypeOK
BY TypeInit DEF SyncInit, SyncTypeOK

LEMMA SyncTypeStep ==
  ASSUME SyncTypeOK, [SyncNext]_allVars
  PROVE  SyncTypeOK'
<1>1. TypeOK'
  BY RunnerStep, TypeStep DEF SyncTypeOK
<1>2. ASSUME NEW c \in Jobs, Call(c) \/ Return(c) \/ InterruptOnce(c) \/ InterruptTwice(c)
      PROVE  SyncTypeOK'
  BY <1>1, <1>2 DEF SyncTypeOK, Call, Return, InterruptOnce, InterruptTwice
<1>3. ASSUME NEW c \in Jobs, Step(c) \/ Answer(c)
      PROVE  SyncTypeOK'
  BY <1>1, <1>3 DEF SyncTypeOK, Step, Answer, StartRpc, CancelUnstarted, RpcInterrupted, RpcEnds,
                    SetRpc
<1>4. CASE UNCHANGED allVars
  BY <1>1, <1>4 DEF allVars, syncVars, SyncTypeOK
<1> QED
  BY <1>2, <1>3, <1>4 DEF SyncNext

\* The variables keep their types; the runner counts one interruption at most.
THEOREM SyncTypeHolds == SyncSpec => []SyncTypeOK
BY SyncTypeInit, SyncTypeStep, PTL DEF SyncSpec

-----------------------------------------------------------------------------
(* Motions.                                                                *)

\* What a step that ends no job does: a job is created for a call that blocks on
\* it, is told to stop, or stays as it is; a call is left only when it has no live
\* job; and dropping a failed job leaves nothing running.
Course ==
  /\ \A j \in Jobs :
       /\ \/ job'[j] = job[j]
          \/ job[j] = "running" /\ job'[j] = "cancelling"
          \/ job[j] = "none" /\ job'[j] = "running" /\ pc'[j] = "blocked"
       /\ pc'[j] = "left" => pc[j] = "left" \/ job[j] \notin {"running", "cancelling"}
  /\ \A k \in pending \ pending' : job[k] = "failed" => \A j \in Jobs : job'[j] # "running"

LEMMA RaiseCourse ==
  ASSUME IInv, NEW c \in Jobs, job[c] \notin {"running", "cancelling"},
         RaiseGroup, UNCHANGED pending, NEW r, Leave(c, r)
  PROVE  Course
<1>1. \A j \in Jobs : job'[j] = job[j] \/ (job[j] = "running" /\ job'[j] = "cancelling")
  BY AbortedJob DEF RaiseGroup, IInv, TypeOK
<1>2. \A j \in Jobs : pc'[j] = "left" => pc[j] = "left" \/ j = c
  BY DEF Leave, IInv, TypeOK
<1> QED
  BY <1>1, <1>2 DEF Course

\* With every call blocking on its job, a step of a call without a job.
LEMMA SubmitCourse ==
  ASSUME IInv, NEW c \in Jobs, Submit(c) \/ Resume(c)
  PROVE  Course
<1>1. job[c] = "none"
  BY SubmitCases DEF IInv, CallsPrecedeJobs
<1>2. CASE RaiseGroup /\ Leave(c, "group") /\ UNCHANGED << pending, waiter >>
  BY <1>1, <1>2, RaiseCourse
<1>3. CASE WaitForChange(c)
  BY <1>1, <1>3 DEF WaitForChange, Leave, Course, IInv, TypeOK
<1>4. CASE Create(c)
  BY <1>1, <1>4, SyncAssumption DEF Create, Course, IInv, TypeOK
<1> QED
  BY <1>2, <1>3, <1>4, SubmitCases

LEMMA UnblockCourse ==
  ASSUME IInv, NEW c \in Jobs, Unblock(c) \/ Interrupt(c)
  PROVE  Course
<1>1. job[c] \notin {"running", "cancelling"}
  BY DEF Unblock, Interrupt, Finished, IInv, CallsPrecedeJobs
<1>2. ASSUME NEW r, Leave(c, r), UNCHANGED << job, pending >>
      PROVE  Course
  BY <1>1, <1>2 DEF Leave, Course, IInv, TypeOK
<1>3. CASE SwallowCancellation(c)
  BY <1>1, <1>2, <1>3, RaiseCourse DEF SwallowCancellation, ValidateAnd, ReturnNormally
<1> QED
  BY <1>2, <1>3 DEF Unblock, Interrupt

\* The callback of a failed job tells every other one to stop.
LEMMA SettleCourse ==
  ASSUME IInv, NEW k \in Jobs, Settle(k)
  PROVE  Course
<1>1. IInv'
  BY SettleKeeps
<1>2. /\ pending' = pending \ {k} /\ UNCHANGED result
      /\ job[k] = "failed" => exceptions' # {}
  BY DEF Settle
<1>3. \A j \in Jobs : job'[j] = job[j] \/ (job[j] = "running" /\ job'[j] = "cancelling")
  BY <1>2, AbortedJob DEF Settle, IInv, TypeOK
<1>4. \A j \in Jobs : pc'[j] = "left" => pc[j] = "left"
  BY DEF Settle, WakeWaiting, IInv, TypeOK
<1>5. job[k] = "failed" => \A j \in Jobs : job'[j] # "running"
  BY <1>1, <1>2 DEF IInv, AbortIsComplete
<1> QED
  BY <1>2, <1>3, <1>4, <1>5 DEF Course

LEMMA CancelCourse ==
  ASSUME IInv, NEW c \in Jobs, Cancel(c)
  PROVE  Course
<1>1. CASE CancelWaiting(c) \/ CancelWoken(c)
  BY <1>1 DEF CancelWaiting, CancelWoken, Course, IInv, TypeOK
<1>2. CASE CancelBlocked(c) \/ CancelJob(c)
  <2>1. UNCHANGED pending /\ (job' = job \/ job' = Aborted({c}))
    BY <1>2 DEF CancelBlocked, CancelJob
  <2>2. \A j \in Jobs : job'[j] = job[j] \/ (job[j] = "running" /\ job'[j] = "cancelling")
    BY <2>1, AbortedJob DEF IInv
  <2>3. \A j \in Jobs : pc'[j] = "left" => pc[j] = "left"
    BY <1>2 DEF CancelBlocked, CancelJob, IInv, TypeOK
  <2> QED
    BY <2>1, <2>2, <2>3 DEF Course
<1> QED
  BY <1>1, <1>2 DEF Cancel

\* Such a step starts no motion, and loses sight of none.
LEMMA CourseKeepsMotions ==
  ASSUME TypeOK, Motions, Course, UNCHANGED << undefined, rpc >>
  PROVE  Motions'
<1>1. InflightIsLive' /\ InterruptedHasFailed' /\ InterruptedIsUndefined' /\ LeftHasEnded'
  BY DEF Motions, Course, InflightIsLive, InterruptedHasFailed, InterruptedIsUndefined,
         LeftHasEnded
<1>2. UndefinedStopsMotions'
  <2> SUFFICES ASSUME undefined, NEW j \in Jobs, rpc[j] = "inflight", job'[j] # "cancelling"
               PROVE  \E k \in pending' : rpc[k] = "interrupted"
    BY DEF UndefinedStopsMotions
  <2>1. job'[j] = "running" /\ job[j] # "cancelling"
    BY <1>1 DEF InflightIsLive, Course
  <2>2. PICK k \in pending : rpc[k] = "interrupted"
    BY <2>1 DEF Motions, UndefinedStopsMotions
  <2>3. job[k] = "failed"
    BY <2>2 DEF Motions, InterruptedHasFailed, TypeOK
  <2> QED
    BY <2>1, <2>2, <2>3 DEF Course
<1> QED
  BY <1>1, <1>2 DEF Motions

\* The steps of a motion: it is not started in the undefined state, and one that is
\* interrupted fails a job that the queue knows.
LEMMA RpcKeepsMotions ==
  ASSUME SyncTypeOK, IInv, Motions, NEW c \in Jobs,
         StartRpc(c) \/ CancelUnstarted(c) \/ RpcInterrupted(c) \/ RpcEnds(c)
  PROVE  Motions'
<1>1. TypeOK /\ rpc \in [Jobs -> {"none", "inflight", "done", "interrupted"}]
  BY DEF SyncTypeOK
<1>2. ASSUME NEW s, Finish(c, s), NEW r \in {"none", "done"}, r = "none" => rpc[c] = "none",
             rpc' = [rpc EXCEPT ![c] = r], UNCHANGED undefined
      PROVE  Motions'
  <2>1. /\ \A j \in Jobs : j # c => job'[j] = job[j] /\ rpc'[j] = rpc[j]
        /\ job[c] \in {"running", "cancelling"} /\ job'[c] \notin {"running", "cancelling"}
        /\ rpc'[c] = r /\ UNCHANGED << pending, pc >>
    BY <1>1, <1>2, FinishEnds DEF Finished
  <2>2. rpc[c] # "interrupted"
    BY <2>1 DEF Motions, InterruptedHasFailed
  <2>3. InflightIsLive' /\ InterruptedHasFailed' /\ InterruptedIsUndefined' /\ LeftHasEnded'
    BY <1>2, <2>1 DEF Motions, InflightIsLive, InterruptedHasFailed, InterruptedIsUndefined,
                      LeftHasEnded
  <2>4. UndefinedStopsMotions'
    BY <1>1, <1>2, <2>1, <2>2 DEF Motions, UndefinedStopsMotions, TypeOK
  <2> QED
    BY <2>3, <2>4 DEF Motions
<1>3. rpc[c] = "none" /\ UNCHANGED rpc => rpc' = [rpc EXCEPT ![c] = "none"]
  BY <1>1
<1>4. CASE StartRpc(c) /\ ~undefined /\ SetRpc(c, "inflight") /\ UNCHANGED vars
  BY <1>1, <1>4 DEF StartRpc, SetRpc, vars, Motions, InflightIsLive, InterruptedHasFailed,
                    InterruptedIsUndefined, LeftHasEnded, UndefinedStopsMotions
<1>5. CASE StartRpc(c) /\ UNCHANGED rpc /\ \E s \in {"ok", "failed"} : Finish(c, s)
  BY <1>2, <1>3, <1>5 DEF StartRpc, SetRpc
<1>6. CASE CancelUnstarted(c)
  BY <1>2, <1>3, <1>6 DEF CancelUnstarted
<1>7. CASE RpcEnds(c)
  BY <1>2, <1>7 DEF RpcEnds, SetRpc
<1>8. CASE RpcInterrupted(c)
  <2>1. /\ Finish(c, "failed") /\ rpc' = [rpc EXCEPT ![c] = "interrupted"]
        /\ job[c] \in {"running", "cancelling"} /\ undefined'
    BY <1>8 DEF RpcInterrupted, SetRpc
  <2>2. c \in pending
    BY <2>1 DEF IInv, CapacityRespected, Live
  <2> QED
    BY <1>1, <2>1, <2>2, FinishEnds
       DEF Motions, InflightIsLive, InterruptedHasFailed, InterruptedIsUndefined, LeftHasEnded,
           UndefinedStopsMotions, Finished
<1> QED
  BY <1>4, <1>5, <1>6, <1>7, <1>8 DEF StartRpc

LEMMA MotionsInit == SyncInit => Motions
BY DEF SyncInit, Init, Motions, InflightIsLive, InterruptedHasFailed, InterruptedIsUndefined,
       LeftHasEnded, UndefinedStopsMotions

LEMMA MotionsStep ==
  ASSUME SyncTypeOK, IInv, Motions, [SyncNext]_allVars
  PROVE  Motions'
<1>1. ASSUME NEW c \in Jobs, Call(c)
      PROVE  Motions'
  BY <1>1, SubmitCourse, CourseKeepsMotions DEF Call, SyncTypeOK
<1>2. ASSUME NEW c \in Jobs, InterruptOnce(c)
      PROVE  Motions'
  BY <1>2, CancelCourse, CourseKeepsMotions DEF InterruptOnce, SyncTypeOK
<1>3. ASSUME NEW c \in Jobs, Loop(c), UNCHANGED << undefined, rpc >>
      PROVE  Motions'
  BY <1>3, SubmitCourse, UnblockCourse, SettleCourse, CourseKeepsMotions
     DEF Loop, SyncTypeOK
<1>4. ASSUME NEW c \in Jobs, Step(c) \/ Answer(c)
      PROVE  Motions'
  BY <1>3, <1>4, RpcKeepsMotions DEF Step, Answer
<1>5. ASSUME UNCHANGED << vars, undefined, rpc >>
      PROVE  Motions'
  BY <1>5 DEF vars, Motions, InflightIsLive, InterruptedHasFailed, InterruptedIsUndefined,
              LeftHasEnded, UndefinedStopsMotions
<1>6. ASSUME NEW c \in Jobs, Return(c) \/ InterruptTwice(c)
      PROVE  Motions'
  BY <1>5, <1>6 DEF Return, InterruptTwice
<1>7. CASE UNCHANGED allVars
  BY <1>5, <1>7 DEF allVars, syncVars
<1> QED
  BY <1>1, <1>2, <1>4, <1>6, <1>7 DEF SyncNext

LEMMA QueueHolds == SyncSpec => []IInv
<1>1. SyncInit => IInv
  BY InvInit DEF SyncInit
<1>2. IInv /\ [SyncNext]_allVars => IInv'
  BY RunnerStep, InvStep
<1> QED
  BY <1>1, <1>2, PTL DEF SyncSpec

LEMMA MotionsHold == SyncSpec => []Motions
<1>1. SyncTypeOK /\ IInv /\ Motions /\ [SyncNext]_allVars => Motions'
  BY MotionsStep
<1> QED
  BY SyncTypeHolds, QueueHolds, MotionsInit, <1>1, PTL DEF SyncSpec

\* An RPC is sent by the first step of a job alone, in a defined state.
LEMMA SentWhenDefined ==
  ASSUME SyncTypeOK, [SyncNext]_allVars, NEW j \in Jobs, rpc[j] = "none", rpc'[j] = "inflight"
  PROVE  ~undefined
<1>1. PICK c \in Jobs : StartRpc(c) \/ CancelUnstarted(c) \/ RpcInterrupted(c) \/ RpcEnds(c)
  BY DEF SyncNext, Call, Return, InterruptOnce, InterruptTwice, Step, Answer, allVars, syncVars
<1>2. CASE StartRpc(c)
  BY <1>2 DEF StartRpc
<1>3. CASE CancelUnstarted(c) \/ RpcInterrupted(c) \/ RpcEnds(c)
  BY <1>3 DEF CancelUnstarted, RpcInterrupted, RpcEnds, SetRpc, SyncTypeOK
<1> QED
  BY <1>1, <1>2, <1>3

\* Whenever an RPC is sent, what the arm may still be doing is awaited by a job in
\* the queue and by a call that has not come back, for any number of methods and
\* interrupts.
THEOREM NothingOnTopHolds == SyncSpec => NothingOnTop
<1>1. ASSUME SyncTypeOK, IInv, Motions, [SyncNext]_allVars, NEW j \in Jobs,
             rpc[j] = "none", rpc'[j] = "inflight", NEW c \in Jobs, MayBeMoving(c)
      PROVE  Awaited(c)
  <2>1. rpc[c] = "inflight"
    BY <1>1, SentWhenDefined DEF MayBeMoving, Motions, InterruptedIsUndefined
  <2>2. job[c] \in {"running", "cancelling"}
    BY <1>1, <2>1 DEF Motions, InflightIsLive
  <2> QED
    BY <1>1, <2>1, <2>2
       DEF Awaited, Motions, LeftHasEnded, IInv, CapacityRespected, Live
<1>2. SyncTypeOK /\ IInv /\ Motions /\ [SyncNext]_allVars =>
        [\A j \in Jobs :
           rpc[j] = "none" /\ rpc'[j] = "inflight" =>
             \A c \in Jobs : MayBeMoving(c) => Awaited(c)]_allVars
  BY <1>1
<1> QED
  BY SyncTypeHolds, QueueHolds, MotionsHold, <1>2, PTL DEF SyncSpec, NothingOnTop

\* In the undefined state no motion goes on unless it is about to be told to stop.
THEOREM UndefinedStops == SyncSpec => []UndefinedStopsMotions
<1>1. Motions => UndefinedStopsMotions
  BY DEF Motions
<1> QED
  BY MotionsHold, <1>1, PTL
=============================================================================
