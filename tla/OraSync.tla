------------------------------- MODULE OraSync -------------------------------
(***************************************************************************)
(* OraSync (ozobot/ora/sync.py): the synchronous API of the Ora arm.  Each *)
(* method runs TaskQueue.run_blocking to its end on one shared             *)
(* asyncio.Runner (ozobot/common/sync.py), so the event loop runs only     *)
(* while a method does.  The job of a method is a controller RPC of        *)
(* OraWebDriver under _cancellation_guard (ozobot/ora/driver/web.py); an   *)
(* RPC that is cancelled leaves the arm in an undefined state, after which *)
(* the driver refuses every further one.                                   *)
(*                                                                         *)
(* The runner turns the first Ctrl-C during a method into a cancellation   *)
(* of its task.  A second one raises KeyboardInterrupt out of the loop:    *)
(* the method is left with its task still pending, and that task goes on   *)
(* under whatever method runs next.  A Ctrl-C is taken between two steps.  *)
(***************************************************************************)
EXTENDS TaskQueue

CONSTANT NoCall  \* no method runs: the event loop stands still

ASSUME SyncAssumption == Blocking = Jobs /\ NoCall \notin Jobs

VARIABLES
  foreground, \* the call that the runner runs, or NoCall
  interrupts, \* Runner._interrupt_count: Ctrl-C's of the current run
  undefined,  \* OraWebDriver._cancelled_undefined_state
  rpc         \* the controller RPC of each job

syncVars == << foreground, interrupts, undefined, rpc >>
allVars == << vars, syncVars >>

SyncTypeOK ==
  /\ TypeOK
  /\ foreground \in Jobs \cup {NoCall}
  /\ interrupts \in {0, 1}
  /\ undefined \in BOOLEAN
  /\ rpc \in [Jobs -> {"none", "inflight", "done", "interrupted"}]

SyncInit ==
  /\ Init
  /\ foreground = NoCall
  /\ interrupts = 0
  /\ undefined = FALSE
  /\ rpc = [j \in Jobs |-> "none"]

-----------------------------------------------------------------------------
(* The runner.                                                             *)

\* A method starts; its task gets to its first suspension.
Call(c) ==
  /\ foreground = NoCall
  /\ Submit(c)
  /\ foreground' = c
  /\ interrupts' = 0
  /\ UNCHANGED << undefined, rpc >>

\* The task of the running method is done and run_until_complete returns.
Return(c) ==
  /\ foreground = c /\ pc[c] = "left"
  /\ foreground' = NoCall
  /\ UNCHANGED << vars, interrupts, undefined, rpc >>

\* First Ctrl-C: main_task.cancel().
InterruptOnce(c) ==
  /\ foreground = c /\ interrupts = 0
  /\ Cancel(c)
  /\ interrupts' = 1
  /\ UNCHANGED << foreground, undefined, rpc >>

\* The task is dropped with the method, and its job goes on: a mutant of
\* InterruptTwice.
InterruptTwiceDropping(c) ==
  /\ foreground = c /\ interrupts = 1 /\ pc[c] # "left"
  /\ foreground' = NoCall
  /\ pc' = [pc EXCEPT ![c] = "left"]
  /\ UNCHANGED << job, pending, exceptions, waiter, reported, asked, result,
                  interrupts, undefined, rpc >>

\* Second Ctrl-C: KeyboardInterrupt leaves the loop, not the task.
InterruptTwice(c) ==
  /\ foreground = c /\ interrupts = 1 /\ pc[c] # "left"
  /\ foreground' = NoCall
  /\ UNCHANGED << vars, interrupts, undefined, rpc >>

-----------------------------------------------------------------------------
(* The jobs: OraWebDriver under _cancellation_guard.                       *)

Finish(j, s) ==
  /\ EndJob(j)
  /\ job'[j] = s

SetRpc(j, s) == rpc' = [rpc EXCEPT ![j] = s]

\* _cancellation_guard without its first test: a mutant of StartRpc.
StartRpcUnguarded(j) ==
  /\ job[j] = "running" /\ rpc[j] = "none"
  /\ SetRpc(j, "inflight")
  /\ UNCHANGED << vars, undefined >>

\* The job's first step.  It ends with it if it sends nothing (set_defaults_*),
\* has an argument that cannot be converted, or is refused in the undefined
\* state; otherwise it sends its RPC.
StartRpc(j) ==
  /\ job[j] = "running" /\ rpc[j] = "none"
  /\ \/ \E s \in {"ok", "failed"} : Finish(j, s) /\ UNCHANGED rpc
     \/ ~undefined /\ SetRpc(j, "inflight") /\ UNCHANGED vars
  /\ UNCHANGED undefined

\* A job cancelled before its first step never calls the driver.
CancelUnstarted(j) ==
  /\ job[j] = "cancelling" /\ rpc[j] = "none"
  /\ Finish(j, "cancelled")
  /\ UNCHANGED << undefined, rpc >>

\* The outcome of the job is kept as the state of the RPC: a mutant of RpcEnds.
RpcEndsAsJob(j) ==
  /\ job[j] = "running" /\ rpc[j] = "inflight"
  /\ Finish(j, "ok") \/ Finish(j, "failed")
  /\ SetRpc(j, job'[j])
  /\ UNCHANGED undefined

\* The arm answers the RPC, with a result or an error.
RpcEnds(j) ==
  /\ job[j] = "running" /\ rpc[j] = "inflight"
  /\ Finish(j, "ok") \/ Finish(j, "failed")
  /\ SetRpc(j, "done")
  /\ UNCHANGED undefined

\* CancelledError out of _rpcCoroutine becomes CancellationNotSupported: that of
\* the job's own cancellation, or one that the coroutine raises by itself.
RpcInterrupted(j) ==
  /\ job[j] \in {"running", "cancelling"} /\ rpc[j] = "inflight"
  /\ Finish(j, "failed")
  /\ SetRpc(j, "interrupted")
  /\ undefined' = TRUE

-----------------------------------------------------------------------------
\* A finished job schedules its callbacks together, _on_task_done and then the
\* wake-up of the call blocked on it, so the loop runs nothing in between.
Resuming ==
  {c \in Jobs : pc[c] \in {"blocked", "abandoned"} /\ job[c] \in Finished /\ c \notin pending}

LoopRuns(c) == foreground # NoCall /\ Resuming \subseteq {c}

Step(c) ==
  /\ LoopRuns(c)
  /\ \/ Loop(c) /\ UNCHANGED << undefined, rpc >>
     \/ StartRpc(c) \/ CancelUnstarted(c)
     \/ job[c] = "cancelling" /\ RpcInterrupted(c)
  /\ UNCHANGED << foreground, interrupts >>

\* The RPC ends without anyone having asked it to.
Answer(c) ==
  /\ LoopRuns(c)
  /\ RpcEnds(c) \/ RpcInterrupted(c)
  /\ UNCHANGED << foreground, interrupts >>

SyncNext ==
  \E c \in Jobs :
    Call(c) \/ Return(c) \/ InterruptOnce(c) \/ InterruptTwice(c) \/ Step(c) \/ Answer(c)

\* The loop runs what is ready while a method runs, and a method whose task is
\* done returns.  Nothing is assumed of the arm, the program or the user.
SyncSpec ==
  /\ SyncInit /\ [][SyncNext]_allVars
  /\ \A c \in Jobs : WF_allVars(Step(c)) /\ WF_allVars(Return(c))

-----------------------------------------------------------------------------
(* Properties.                                                             *)

\* The arm may be carrying out an RPC that has not been answered, one that was
\* interrupted (nothing tells the arm) included.
MayBeMoving(c) == rpc[c] \in {"inflight", "interrupted"}

\* The answer is still waited for: by a job that the queue counts and can abort,
\* and by a call that has not come back.
Awaited(c) == rpc[c] = "inflight" /\ c \in pending /\ pc[c] # "left"

\* No motion is sent on top of one that is out of hand: whenever an RPC is sent,
\* everything the arm may still be doing is awaited.  So no method comes back while
\* its RPC is under way, and after one that was interrupted nothing is sent at all,
\* whatever the interrupted methods that still run under others do.
NothingOnTop ==
  [][\A j \in Jobs :
       rpc[j] = "none" /\ rpc'[j] = "inflight" =>
         \A c \in Jobs : MayBeMoving(c) => Awaited(c)]_allVars

\* Once an interrupted motion has made the state of the arm undefined, every
\* other motion still under way has been told to stop, or is told by the
\* callback of the interrupted job; none is started.
UndefinedStopsMotions ==
  undefined =>
    \A j \in Jobs :
      rpc[j] = "inflight" =>
        job[j] = "cancelling" \/ \E k \in pending : rpc[k] = "interrupted"

\* What the runner and the user do to the queue - methods left half-way, the loop
\* standing still between two methods - is nothing the queue does not allow: it
\* keeps what TaskQueue promises.
RunsTheQueue == Spec

\* Ctrl-C gives the prompt back: the running method ends, whatever the arm does.
InterruptReturns ==
  \A c \in Jobs : (foreground = c /\ interrupts = 1) ~> (foreground # c)

\* A method waiting for room in the queue is woken by any job that ends, well
\* or not, while the method runs.
RoomIsNoticed ==
  \A c \in Jobs :
    (foreground = c /\ pc[c] = "waiting" /\ \E j \in pending : job[j] \in Finished)
      ~> (foreground # c \/ pc[c] # "waiting")
=============================================================================
