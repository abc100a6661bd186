---------------------------- MODULE EvoVelocity ----------------------------
(***************************************************************************)
(* Evo.set_velocity (ozobot/evo/api/core.py).  The robot does not tell     *)
(* when a velocity is overridden by the next one, so each call first       *)
(* notifies an asyncio.Condition and then runs two child tasks, the        *)
(* driver's velocity and a wait on the condition, until one of them is     *)
(* done; the other is cancelled.                                           *)
(*                                                                         *)
(* The wait gives back the lock that its parent has taken and takes it     *)
(* again before it ends, however it ends; the parent releases it.  A wait  *)
(* that ends with an exception passes its notification on, because it may  *)
(* have had one (asyncio.Condition.wait as of Python 3.13).                *)
(*                                                                         *)
(* One action is what asyncio runs between two suspensions, or less.       *)
(***************************************************************************)
EXTENDS Naturals, SequencesExt

CONSTANTS
  Calls,
  NoCall

VARIABLES
  parent,    \* the task that called set_velocity: idle, locking, waiting for
             \* its children, joining them, left
  velocity,  \* its child that runs driver.velocity: none, created, sending,
             \* running, stopping, or Over
  wait,      \* its child that waits for the condition: none, created, waiting,
             \* woken or interrupted, acquiring the lock or reraising, or Over
  lockQueue, \* the condition's lock: its owner and then those that wait for it,
             \* pairs of "call" or "wait" and the call
  waiters,   \* the condition's waiting calls, in order
  radio,     \* the RPCs of the driver, in order: velocities and stops
  current,   \* the call whose velocity the robot keeps
  entered,   \* history: the calls in the order they have taken the lock
  cancelled  \* history: the calls whose program has cancelled them

vars == << parent, velocity, wait, lockQueue, waiters, radio, current, entered, cancelled >>

\* How a child ends.
Over == {"finished", "failed", "cancelled"}

Init ==
  /\ parent = [c \in Calls |-> "idle"]
  /\ velocity = [c \in Calls |-> "none"]
  /\ wait = [c \in Calls |-> "none"]
  /\ lockQueue = << >> /\ waiters = << >> /\ radio = << >>
  /\ current = NoCall
  /\ entered = << >> /\ cancelled = {}

Holds(kind, c) == lockQueue # << >> /\ Head(lockQueue) = << kind, c >>

-----------------------------------------------------------------------------
(* The condition.                                                          *)

\* notify(): the first waiter whose future is not done; `w' is what the wait
\* children are otherwise.
Notify(w) ==
  LET i == SelectInSeq(waiters, LAMBDA c : w[c] = "waiting") IN
  IF i = 0 THEN w ELSE [w EXCEPT ![waiters[i]] = "woken"]

\* wait() up to its suspension: it releases the lock of its parent.
StartWait(c) ==
  /\ wait[c] = "created" /\ velocity[c] # "created"
  /\ Holds("call", c)
  /\ wait' = [wait EXCEPT ![c] = "waiting"]
  /\ waiters' = Append(waiters, c)
  /\ lockQueue' = Tail(lockQueue)
  /\ UNCHANGED << parent, velocity, radio, current, entered, cancelled >>

\* The lock is not taken again by a wait that was cancelled: a mutant of Resume.
ResumeWithoutLock(c) ==
  /\ wait[c] \in {"woken", "interrupted"}
  /\ waiters' = RemoveFirst(waiters, c)
  /\ IF wait[c] = "woken"
     THEN lockQueue' = Append(lockQueue, << "wait", c >>) /\ wait' = [wait EXCEPT ![c] = "acquiring"]
     ELSE UNCHANGED lockQueue /\ wait' = [wait EXCEPT ![c] = "cancelled"]
  /\ UNCHANGED << parent, velocity, radio, current, entered, cancelled >>

\* The wait is over, notified or cancelled, and queues for the lock again.
Resume(c) ==
  /\ wait[c] \in {"woken", "interrupted"}
  /\ waiters' = RemoveFirst(waiters, c)
  /\ lockQueue' = Append(lockQueue, << "wait", c >>)
  /\ wait' = [wait EXCEPT ![c] = IF @ = "woken" THEN "acquiring" ELSE "reraising"]
  /\ UNCHANGED << parent, velocity, radio, current, entered, cancelled >>

\* It has the lock, which its parent will release; a wait that raises notifies
\* another waiter.
Reacquire(c) ==
  /\ wait[c] \in {"acquiring", "reraising"} /\ Holds("wait", c)
  /\ wait' = IF wait[c] = "acquiring"
             THEN [wait EXCEPT ![c] = "finished"]
             ELSE Notify([wait EXCEPT ![c] = "cancelled"])
  /\ UNCHANGED << parent, velocity, lockQueue, waiters, radio, current, entered, cancelled >>

-----------------------------------------------------------------------------
(* The call.                                                               *)

\* A program calls set_velocity.
Call(c) ==
  /\ parent[c] = "idle"
  /\ parent' = [parent EXCEPT ![c] = "locking"]
  /\ lockQueue' = Append(lockQueue, << "call", c >>)
  /\ UNCHANGED << velocity, wait, waiters, radio, current, entered, cancelled >>

\* Nobody is told of the new call: a mutant of Enter.
EnterSilently(c) ==
  /\ parent[c] = "locking" /\ Holds("call", c)
  /\ parent' = [parent EXCEPT ![c] = "waiting"]
  /\ velocity' = [velocity EXCEPT ![c] = "created"]
  /\ wait' = [wait EXCEPT ![c] = "created"]
  /\ entered' = Append(entered, c)
  /\ UNCHANGED << lockQueue, waiters, radio, current, cancelled >>

\* With the lock: notify(), create both children, asyncio.wait().
Enter(c) ==
  /\ parent[c] = "locking" /\ Holds("call", c)
  /\ parent' = [parent EXCEPT ![c] = "waiting"]
  /\ velocity' = [velocity EXCEPT ![c] = "created"]
  /\ wait' = Notify([wait EXCEPT ![c] = "created"])
  /\ entered' = Append(entered, c)
  /\ UNCHANGED << lockQueue, waiters, radio, current, cancelled >>

\* Task.cancel() on a velocity child: one that is running sends its stop, and
\* an RPC that is cancelled may still be sent.
CancelVelocity(c) ==
  LET sent == CASE velocity[c] = "sending" -> << "velocity", c >>
                [] velocity[c] = "stopping" -> << "stop", c >>
                [] OTHER -> << >>
  IN CASE velocity[c] \in Over -> UNCHANGED << velocity, radio >>
       [] velocity[c] = "running" ->
            /\ velocity' = [velocity EXCEPT ![c] = "stopping"]
            /\ radio' = Append(radio, << "stop", c >>)
       [] OTHER ->
            /\ velocity' = [velocity EXCEPT ![c] = "cancelled"]
            /\ radio' \in {radio, RemoveFirst(radio, sent)}

\* Task.cancel() on a wait child: one that has not started never does, and one
\* that is after the lock queues again, to raise once it has it: behind all others
\* even if it had been given the lock, unless it had run on with it.
CancelWait(c) ==
  CASE wait[c] = "created" ->
         wait' = [wait EXCEPT ![c] = "cancelled"] /\ UNCHANGED lockQueue
    [] wait[c] \in {"waiting", "woken"} ->
         wait' = [wait EXCEPT ![c] = "interrupted"] /\ UNCHANGED lockQueue
    [] wait[c] \in {"acquiring", "reraising"} ->
         /\ wait' = [wait EXCEPT ![c] = "reraising"]
         /\ \/ lockQueue' = Append(RemoveFirst(lockQueue, << "wait", c >>), << "wait", c >>)
            \/ Holds("wait", c) /\ UNCHANGED lockQueue
    [] OTHER -> UNCHANGED << wait, lockQueue >>

\* The children that are not done are cancelled and the TaskGroup is left.
CancelChildren(c) ==
  /\ CancelVelocity(c) /\ CancelWait(c)
  /\ parent' = [parent EXCEPT ![c] = "joining"]
  /\ UNCHANGED << waiters, current, entered >>

\* asyncio.wait returns with the first child that is done.
ChildDone(c) ==
  /\ parent[c] = "waiting"
  /\ velocity[c] \in Over \/ wait[c] \in Over
  /\ CancelChildren(c)
  /\ UNCHANGED cancelled

\* Both children are done: the TaskGroup ends and the lock is released.
Leave(c) ==
  /\ parent[c] = "joining" /\ velocity[c] \in Over /\ wait[c] \in Over
  /\ Holds("call", c) \/ Holds("wait", c)
  /\ lockQueue' = Tail(lockQueue)
  /\ parent' = [parent EXCEPT ![c] = "left"]
  /\ UNCHANGED << velocity, wait, waiters, radio, current, entered, cancelled >>

\* The program cancels the call, say by asyncio.timeout: while it waits for the
\* lock or has just been given it (the next gets it), for its children or for the
\* end of the TaskGroup, which cancels those that are left.
Cancel(c) ==
  /\ c \notin cancelled
  /\ cancelled' = cancelled \cup {c}
  /\ \/ /\ parent[c] = "locking"
        /\ parent' = [parent EXCEPT ![c] = "left"]
        /\ lockQueue' = RemoveFirst(lockQueue, << "call", c >>)
        /\ UNCHANGED << velocity, wait, waiters, radio, current, entered >>
     \/ parent[c] \in {"waiting", "joining"} /\ CancelChildren(c)

-----------------------------------------------------------------------------
(* driver.velocity and the robot.                                          *)

StartVelocity(c) ==
  /\ velocity[c] = "created"
  /\ velocity' = [velocity EXCEPT ![c] = "sending"]
  /\ radio' = Append(radio, << "velocity", c >>)
  /\ UNCHANGED << parent, wait, lockQueue, waiters, current, entered, cancelled >>

\* The robot takes the next RPC: a velocity replaces the one it keeps, silently.
RobotHandles ==
  /\ radio # << >>
  /\ radio' = Tail(radio)
  /\ LET kind == Head(radio)[1]  c == Head(radio)[2] IN
     IF kind = "velocity"
     THEN /\ current' = c
          /\ velocity' = [velocity EXCEPT ![c] = IF @ = "sending" THEN "running" ELSE @]
     ELSE /\ current' = IF current = c THEN NoCall ELSE current
          /\ velocity' = [velocity EXCEPT ![c] = IF @ = "stopping" THEN "cancelled" ELSE @]
  /\ UNCHANGED << parent, wait, lockQueue, waiters, entered, cancelled >>

\* The duration is over, or the robot gives up, and says so.
RobotEnds ==
  /\ current # NoCall
  /\ current' = NoCall
  /\ \E e \in {"finished", "failed"} :
       velocity' = [velocity EXCEPT ![current] = IF @ = "running" THEN e ELSE @]
  /\ UNCHANGED << parent, wait, lockQueue, waiters, radio, entered, cancelled >>

-----------------------------------------------------------------------------
Runs(c) ==
  \/ StartWait(c) \/ Resume(c) \/ Reacquire(c)
  \/ Enter(c) \/ ChildDone(c) \/ Leave(c) \/ StartVelocity(c)

Works == RobotHandles \/ \E c \in Calls : Runs(c)

Next ==
  \/ \E c \in Calls : Call(c) \/ Cancel(c)
  \/ Works \/ RobotEnds

\* The loop runs the tasks that are ready and the robot handles its RPCs.  That
\* a velocity ends is not assumed: its duration may be infinite.  (No behaviour
\* takes infinitely many of these steps, so they all come to an end.)
Fairness == WF_vars(Works)

Spec == Init /\ [][Next]_vars /\ Fairness

-----------------------------------------------------------------------------
(* Properties.                                                             *)

\* The lock is back when a call is about to release it: whichever child ended
\* first and however the other was cancelled, the wait has given it back to its
\* own call and to no other.
LockIsBack ==
  \A c \in Calls :
    parent[c] = "joining" /\ velocity[c] \in Over /\ wait[c] \in Over =>
      Holds("call", c) \/ Holds("wait", c)

\* Another call has taken the lock after c, or the program has cancelled c.
Overridden(c) == c \in cancelled \/ \E k \in DOMAIN entered : k < Len(entered) /\ entered[k] = c

\* A call that another has overridden returns, although the robot never tells
\* it, and every call that has been cancelled does.
OverriddenReturns == []<>(\A c \in Calls : Overridden(c) => parent[c] = "left")

\* The robot moves for the given duration: a call that nobody has cancelled and
\* no other call has followed is not stopped before its velocity has ended.
RunsItsDuration ==
  \A c \in Calls :
    velocity[c] = "stopping" =>
      c \in cancelled \/ entered[Len(entered)] # c
=============================================================================
