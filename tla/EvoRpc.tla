------------------------------- MODULE EvoRpc -------------------------------
(***************************************************************************)
(* AsyncControl._rpc and _long_rpc (ozobot/evo/protocol.py) over the       *)
(* sessions of a BLE characteristic (ozobot/ble/connection.py), as the     *)
(* operations of EvoNativeDriver (ozobot/evo/driver/native.py) use them,   *)
(* and the robot at the other end.                                         *)
(*                                                                         *)
(* An RPC opens a session for its events, takes the re-entrant RPC lock,   *)
(* opens a session for its response, writes the request, takes the first   *)
(* message that is_response_to it, gives the second session and the lock   *)
(* back, runs the caller's body and closes the first session.  A request   *)
(* or response too long for a packet goes through the robot's memory: the  *)
(* lock is kept while nested RPCs write it in chunks, execute it and read  *)
(* the response.  A driver operation whose body fails or is cancelled      *)
(* sends StopExecution, a nested RPC again.                                *)
(*                                                                         *)
(* A call is an asyncio task that runs one operation: a stack of RPCs of   *)
(* which the last is running.  One action is what asyncio runs between two *)
(* suspensions.  The robot handles requests in the order they are written; *)
(* what it sends is received at once, or lost if nobody has subscribed.    *)
(***************************************************************************)
EXTENDS EvoPackets, SequencesExt

CONSTANTS
  Calls,         \* the tasks, each of which makes one call
  Programs,      \* what the calls may be: the RPC of each, or "none"
  NoCall,
  MaxCancels,    \* how often tasks are cancelled, in all
  WriteChunks,   \* the chunks of a long request
  MaxRequestId   \* the largest number that get_next_request_id packs

ASSUME CallsAssumption == IsFiniteSet(Calls) /\ NoCall \notin Calls
\* Of a call only _cancellation sends a StopExecution; the one for request 0 that
\* open sends before there are calls is left out.
ASSUME ProgramsAssumption ==
  Programs \subseteq [Calls -> (DOMAIN Requests \ {"StopExecution"}) \cup {"none"}]
ASSUME BoundsAssumption == MaxCancels \in Nat /\ WriteChunks \in Nat \ {0} /\ MaxRequestId \in Nat

VARIABLES
  program,        \* the RPC of each call
  frames,         \* the RPCs each call is in, the innermost last
  outcome,        \* how each call has ended
  cancels,        \* how often each call has been cancelled
  requestId,      \* the request id of each call
  requestCounter, \* AsyncControl._request_counter
  event,          \* the final event in each call's events session
  loose,          \* history: calls that have left before the robot could be told
  lockQueue,      \* RLock._lock: its owner, and the tasks that wait for it
  owner,          \* RLock._lock_owner
  counter,        \* RLock._counter
  notifyQueue,    \* Characteristic._notify_lock: likewise
  refcount,       \* Characteristic._refcount
  subscribed,     \* whether notifications are on
  unheard,        \* history: a start_notify has failed or been cancelled
  inbox,          \* the requests the robot has still to handle
  memory,         \* longRPCExtensionData, chunk by chunk
  executing       \* the calls whose operation the robot is executing

rlock == << lockQueue, owner, counter >>
sessions == << refcount, subscribed, unheard >>
ble == << notifyQueue, sessions >>
robot == << inbox, memory, executing >>
ids == << cancels, requestId, requestCounter, event >>
task == << loose, outcome, ids >>
vars == << program, frames, task, rlock, ble, robot >>

-----------------------------------------------------------------------------
(* What is sent.                                                           *)

\* EvoNativeDriver: the operations that run until an event says they are done,
\* under _cancellation.
Motions ==
  {"MoveStraight", "Rotate", "Velocity", "PlayTone", "ExecuteFile", "LineNavigation"}

\* The bytes of the longest property the driver reads or writes, and of the
\* path of an audio asset ("/system/audio/" + name + ".wav").
RestBytes(rpc) ==
  CASE rpc \in {"MemRead", "MemWrite"} -> 8
    [] rpc = "ExecuteFile" -> 19
    [] OTHER -> 0

Long(rpc) == IsLong(rpc, RestBytes(rpc), RestBytes(rpc))

\* A response of the right type will do: a mutant of IsResponseTo.
IsResponseToByType(message, rpc, id) == message.rpc = rpc

\* is_response_to: by type, and by request id for a keyed RPC.
IsResponseTo(message, rpc, id) ==
  /\ message.rpc = rpc
  /\ Requests[rpc].keyed => message.key = id

\* Responses that carry a status can refuse the request.
HasStatus(rpc) ==
  LET response == Requests[rpc].response IN
  HasField(response, "callStatus") \/ HasField(response, "result")

NoMessage == [rpc |-> "none", key |-> 0, by |-> NoCall, step |-> 0, ok |-> TRUE, data |-> << >>]

Ats == {"subscribe", "notifying", "lock", "write", "read", "long", "abort", "body",
        "stopping", "unsubscribe", "stopnotify"}

Frame(rpc) ==
  [rpc |-> rpc, at |-> "subscribe", step |-> 0, response |-> NoMessage,
   crc |-> << >>, data |-> << >>, result |-> "ok"]

Top(c) == frames[c][Len(frames[c])]
At(c, at) == frames[c] # << >> /\ Top(c).at = at

\* The innermost RPC, and the one around it.
WithTop(stack, f) == [stack EXCEPT ![Len(stack)] = f]
SetTop(c, f) == frames' = [frames EXCEPT ![c] = WithTop(@, f)]
Push(c, f, inner) == frames' = [frames EXCEPT ![c] = Append(WithTop(@, f), Frame(inner))]

Init ==
  /\ program \in Programs
  /\ frames = [c \in Calls |-> << >>]
  /\ outcome = [c \in Calls |-> "idle"]
  /\ cancels = [c \in Calls |-> 0]
  /\ requestId = [c \in Calls |-> 0]
  /\ requestCounter = 0
  /\ event = [c \in Calls |-> "none"]
  /\ loose = {}
  /\ lockQueue = << >> /\ owner = NoCall /\ counter = 0
  /\ notifyQueue = << >> /\ refcount = 0 /\ subscribed = FALSE /\ unheard = FALSE
  /\ inbox = << >> /\ executing = {}
  /\ memory = [k \in 1 .. WriteChunks |-> << >>]

-----------------------------------------------------------------------------
(* The locks.                                                              *)

\* asyncio.Lock is fair: its owner is the head of the queue.  A call whose
\* innermost RPC has still to open or to close its events session waits for
\* the notification lock.
Leaves(queue, c) == RemoveFirst(queue, c)

Waits(f) == f.at \in {"subscribe", "unsubscribe"}

NotifyQueueAfter(c, f) ==
  notifyQueue' = Leaves(notifyQueue, c) \o (IF Waits(f) THEN << c >> ELSE << >>)

\* RLock by the count alone: a mutant of Reenters.
ReentersByCount(c) == counter # 0

\* RLock.__aenter__ has to wait, unless this task is the owner.
Reenters(c) == counter # 0 /\ owner = c

\* The owner queues up behind itself: a mutant of JoinLock.
JoinLockAgain(c) == lockQueue' = Append(lockQueue, c)

JoinLock(c) == lockQueue' = IF Reenters(c) THEN lockQueue ELSE Append(lockQueue, c)

Acquire(c) ==
  /\ Reenters(c) \/ Head(lockQueue) = c
  /\ owner' = c
  /\ counter' = counter + 1
  /\ UNCHANGED lockQueue

Release ==
  /\ counter' = counter - 1
  /\ IF counter = 1
     THEN lockQueue' = Tail(lockQueue) /\ owner' = NoCall
     ELSE UNCHANGED << lockQueue, owner >>

\* The long RPC goes on although its last chunk could not be read: a mutant of
\* Resumed.
ResumedUnread(outer, inner, result) ==
  CASE outer.at = "stopping" ->
         [outer EXCEPT !.at = "unsubscribe", !.result = IF result = "ok" THEN @ ELSE result]
    [] outer.at = "long" /\ (result = "ok" \/ inner.rpc = "MemRead") ->
         [outer EXCEPT !.step = @ + 1,
           !.crc = IF inner.rpc = "LongRPCExtensionExecute" THEN inner.response.data ELSE @,
           !.data = IF inner.rpc = "MemRead" THEN inner.response.data ELSE @]
    [] OTHER -> [outer EXCEPT !.at = "abort", !.result = result]

\* Where an RPC goes when the one nested in it is over: an assertion of _long_rpc
\* is on the result of each, and what _cancellation raises again is what it was
\* given.
Resumed(outer, inner, result) ==
  CASE outer.at = "stopping" ->
         [outer EXCEPT !.at = "unsubscribe", !.result = IF result = "ok" THEN @ ELSE result]
    [] outer.at = "long" /\ result = "ok" ->
         [outer EXCEPT !.step = @ + 1,
           !.crc = IF inner.rpc = "LongRPCExtensionExecute" THEN inner.response.data ELSE @,
           !.data = IF inner.rpc = "MemRead" THEN inner.response.data ELSE @]
    [] OTHER -> [outer EXCEPT !.at = "abort", !.result = result]

\* The innermost RPC of c is over: the caller of the operation gets its result,
\* or the RPC around it goes on.
Ends(c, result) ==
  LET rest == Front(frames[c])
      next == Resumed(rest[Len(rest)], Top(c), result)
  IN IF rest = << >>
     THEN /\ frames' = [frames EXCEPT ![c] = << >>]
          /\ outcome' = [outcome EXCEPT ![c] = result]
          /\ notifyQueue' = Leaves(notifyQueue, c)
          /\ UNCHANGED loose
     ELSE /\ frames' = [frames EXCEPT ![c] = WithTop(rest, next)]
          /\ NotifyQueueAfter(c, next)
          /\ loose' = IF result = "ok" THEN loose ELSE loose \cup {c}
          /\ UNCHANGED outcome

\* The innermost RPC goes on at `f'.
GoesOn(c, f) ==
  /\ SetTop(c, f)
  /\ NotifyQueueAfter(c, f)
  /\ loose' = IF f.at = "abort" THEN loose \cup {c} ELSE loose
  /\ UNCHANGED outcome

-----------------------------------------------------------------------------
(* _rpc.                                                                   *)

\* The counter starts again when it no longer fits: a mutant of NextRequestId.
NextRequestIdWraps(c) ==
  /\ requestCounter' = (requestCounter % MaxRequestId) + 1
  /\ requestId' = [requestId EXCEPT ![c] = requestCounter']

\* get_next_request_id packs the counter into three bytes, or raises.
NextRequestId(c) ==
  /\ requestCounter' = requestCounter + 1
  /\ requestId' = [requestId EXCEPT ![c] = requestCounter + 1]

\* A task makes its call.
Call(c) ==
  /\ outcome[c] = "idle" /\ program[c] # "none"
  /\ IF program[c] \in Motions THEN NextRequestId(c) ELSE UNCHANGED << requestId, requestCounter >>
  /\ IF program[c] \in Motions /\ requestCounter' > MaxRequestId
     THEN outcome' = [outcome EXCEPT ![c] = "error"] /\ UNCHANGED << frames, notifyQueue >>
     ELSE /\ outcome' = [outcome EXCEPT ![c] = "running"]
          /\ frames' = [frames EXCEPT ![c] = << Frame(program[c]) >>]
          /\ notifyQueue' = Append(notifyQueue, c)
  /\ UNCHANGED << cancels, event, loose, rlock, sessions, robot >>

\* _subscribe_notifications counts the session and, if it is the first, starts
\* notifications with the lock held.
Subscribe(c) ==
  /\ At(c, "subscribe") /\ Head(notifyQueue) = c
  /\ refcount' = refcount + 1
  /\ IF refcount = 0
     THEN /\ SetTop(c, [Top(c) EXCEPT !.at = "notifying"])
          /\ UNCHANGED << outcome, loose, notifyQueue, lockQueue >>
     ELSE GoesOn(c, [Top(c) EXCEPT !.at = "lock"]) /\ JoinLock(c)
  /\ UNCHANGED << ids, owner, counter, subscribed, unheard, robot >>

\* The lock is kept after start_notify: a mutant of StartNotify.
StartNotifyKeepsLock(c) ==
  /\ At(c, "notifying")
  /\ subscribed' = TRUE
  /\ SetTop(c, [Top(c) EXCEPT !.at = "lock"]) /\ JoinLock(c)
  /\ UNCHANGED << task, owner, counter, notifyQueue, refcount, unheard, robot >>

StartNotify(c) ==
  /\ At(c, "notifying")
  /\ subscribed' = TRUE
  /\ GoesOn(c, [Top(c) EXCEPT !.at = "lock"]) /\ JoinLock(c)
  /\ UNCHANGED << ids, owner, counter, refcount, unheard, robot >>

\* The RPC lock and the response session; its _notify_lock is held by nobody
\* for long, because this call's events session is counted.
EnterLock(c) ==
  /\ At(c, "lock") /\ notifyQueue = << >>
  /\ Acquire(c)
  /\ refcount' = refcount + 1
  /\ GoesOn(c, [Top(c) EXCEPT !.at = IF Long(Top(c).rpc) THEN "long" ELSE "write"])
  /\ UNCHANGED << ids, subscribed, unheard, robot >>

\* The key of a request is its request id: the operation's own, or for a
\* StopExecution that of the operation it stops.
Request(c) ==
  LET f == Top(c) IN
  [rpc |-> f.rpc, key |-> IF Requests[f.rpc].keyed THEN requestId[c] ELSE 0, by |-> c,
   step |-> IF frames[c][1].at = "long" THEN frames[c][1].step + 1 ELSE 0]

Write(c) ==
  /\ At(c, "write")
  /\ inbox' = Append(inbox, Request(c))
  /\ GoesOn(c, [Top(c) EXCEPT !.at = "read"])
  /\ UNCHANGED << ids, rlock, sessions, memory, executing >>

WriteFails(c) ==
  /\ At(c, "write")
  /\ GoesOn(c, [Top(c) EXCEPT !.at = "abort", !.result = "error"])
  /\ UNCHANGED << ids, rlock, sessions, robot >>

\* Where an RPC goes with its response: a motion to its body; the others' body
\* checks the status (handle_response) and is over.
Answered(f, response) ==
  IF f.rpc \in Motions
  THEN [f EXCEPT !.at = "body", !.response = response]
  ELSE [f EXCEPT !.at = "unsubscribe", !.response = response,
          !.result = IF response.ok THEN "ok" ELSE "error"]

\* The response session and the RPC lock are given back.
Read(c) ==
  /\ At(c, "read") /\ Top(c).response # NoMessage /\ notifyQueue = << >>
  /\ Release
  /\ refcount' = refcount - 1
  /\ GoesOn(c, Answered(Top(c), Top(c).response))
  /\ UNCHANGED << ids, subscribed, unheard, robot >>

\* The same on the way out of an RPC that has failed or been cancelled.
Abort(c) ==
  /\ At(c, "abort") /\ notifyQueue = << >>
  /\ Release
  /\ refcount' = refcount - 1
  /\ GoesOn(c, [Top(c) EXCEPT !.at = "unsubscribe"])
  /\ UNCHANGED << ids, subscribed, unheard, robot >>

\* Notifications are turned off one session too early: a mutant of Unsubscribe.
UnsubscribeEarly(c) ==
  /\ At(c, "unsubscribe") /\ Head(notifyQueue) = c
  /\ refcount' = refcount - 1
  /\ IF refcount - 1 <= 1
     THEN /\ SetTop(c, [Top(c) EXCEPT !.at = "stopnotify"])
          /\ UNCHANGED << outcome, loose, notifyQueue >>
     ELSE Ends(c, Top(c).result)
  /\ UNCHANGED << ids, rlock, subscribed, unheard, robot >>

\* _unsubscribe_notifications of the events session; the last one turns
\* notifications off with the lock held.
Unsubscribe(c) ==
  /\ At(c, "unsubscribe") /\ Head(notifyQueue) = c
  /\ refcount' = refcount - 1
  /\ IF refcount - 1 < 1
     THEN /\ SetTop(c, [Top(c) EXCEPT !.at = "stopnotify"])
          /\ UNCHANGED << outcome, loose, notifyQueue >>
     ELSE Ends(c, Top(c).result)
  /\ UNCHANGED << ids, rlock, subscribed, unheard, robot >>

StopNotify(c) ==
  /\ At(c, "stopnotify")
  /\ subscribed' = FALSE
  /\ Ends(c, Top(c).result)
  /\ UNCHANGED << ids, rlock, refcount, unheard, robot >>

\* start_notify or stop_notify does not return, and may or may not have taken
\* effect: the session is left with its count as it is.
NotifyEnds(c, result) ==
  /\ At(c, "notifying") \/ At(c, "stopnotify")
  /\ Ends(c, result)
  /\ subscribed' \in {subscribed, At(c, "notifying")}
  /\ unheard' = (unheard \/ At(c, "notifying"))
  /\ UNCHANGED << rlock, refcount, robot >>

\* It raises.
NotifyFails(c) == NotifyEnds(c, "error") /\ UNCHANGED ids

-----------------------------------------------------------------------------
(* _long_rpc, with the lock held and the outer response session open.      *)

\* The nested RPCs, in order; the response of ExecuteFile is one chunk long.
Nested(step) ==
  IF step < WriteChunks THEN "MemWrite"
  ELSE IF step = WriteChunks THEN "LongRPCExtensionExecute" ELSE "MemRead"

LongNext(c) ==
  /\ At(c, "long") /\ Top(c).step < WriteChunks + 2
  /\ Push(c, Top(c), Nested(Top(c).step))
  /\ notifyQueue' = Append(notifyQueue, c)
  /\ UNCHANGED << task, rlock, sessions, robot >>

\* The CRC of what was read has to be the one the robot has announced.
LongEnds(c) ==
  /\ At(c, "long") /\ Top(c).step = WriteChunks + 2 /\ notifyQueue = << >>
  /\ LET f == Top(c) IN
     IF f.data = f.crc
     THEN /\ GoesOn(c, Answered(f, [NoMessage EXCEPT !.rpc = f.rpc, !.by = f.data[1], !.ok = f.data[2]]))
          /\ Release
          /\ refcount' = refcount - 1
     ELSE /\ GoesOn(c, [f EXCEPT !.at = "abort", !.result = "error"])
          /\ UNCHANGED << rlock, refcount >>
  /\ UNCHANGED << ids, subscribed, unheard, robot >>

-----------------------------------------------------------------------------
(* The body of a motion: handle_response, handle_events, _cancellation.    *)

\* The body is left without telling the robot: a mutant of Stop.
LeaveMoving(c, result) ==
  GoesOn(c, [Top(c) EXCEPT !.at = "unsubscribe", !.result = result]) /\ UNCHANGED lockQueue

Stop(c, result) ==
  /\ Push(c, [Top(c) EXCEPT !.at = "stopping", !.result = result], "StopExecution")
  /\ notifyQueue' = Append(notifyQueue, c)
  /\ UNCHANGED << outcome, loose, lockQueue >>

\* handle_events returns with the event that confirms success.
BodyReturns(c) ==
  /\ At(c, "body") /\ Top(c).response.ok /\ event[c] = "finished"
  /\ GoesOn(c, [Top(c) EXCEPT !.at = "unsubscribe"])
  /\ UNCHANGED << ids, rlock, sessions, robot >>

\* The response has refused the request, or an event tells of a failure.
BodyRaises(c) ==
  /\ At(c, "body") /\ (~Top(c).response.ok \/ event[c] = "failed")
  /\ Stop(c, "error")
  /\ UNCHANGED << ids, owner, counter, sessions, robot >>

-----------------------------------------------------------------------------
(* Task.cancel(), at each suspension of the innermost RPC.                 *)

\* Waiting to open or to close the events session: the count does not change,
\* so that a session that was being closed stays counted.
CancelWaiting(c) ==
  /\ At(c, "subscribe") \/ At(c, "unsubscribe")
  /\ Head(notifyQueue) # c
  /\ Ends(c, "cancelled")
  /\ UNCHANGED << rlock, sessions, robot >>

CancelNotify(c) == NotifyEnds(c, "cancelled")

CancelLock(c) ==
  /\ At(c, "lock") /\ ~Reenters(c) /\ Head(lockQueue) # c
  /\ lockQueue' = Leaves(lockQueue, c)
  /\ GoesOn(c, [Top(c) EXCEPT !.at = "unsubscribe", !.result = "cancelled"])
  /\ UNCHANGED << owner, counter, sessions, robot >>

\* A write that is cancelled may have been sent.
CancelExchange(c) ==
  /\ At(c, "write") \/ At(c, "read")
  /\ GoesOn(c, [Top(c) EXCEPT !.at = "abort", !.result = "cancelled"])
  /\ inbox' \in {inbox} \cup IF At(c, "write") THEN {Append(inbox, Request(c))} ELSE {}
  /\ UNCHANGED << rlock, sessions, memory, executing >>

\* Waiting to close the response session: it stays counted.
CancelAbort(c) ==
  /\ At(c, "abort") /\ notifyQueue # << >>
  /\ Release
  /\ GoesOn(c, [Top(c) EXCEPT !.at = "unsubscribe", !.result = "cancelled"])
  /\ UNCHANGED << sessions, robot >>

CancelBody(c) ==
  /\ At(c, "body")
  /\ Stop(c, "cancelled")
  /\ UNCHANGED << owner, counter, sessions, robot >>

Cancel(c) ==
  /\ MapThenSumSet(LAMBDA d : cancels[d], Calls) < MaxCancels
  /\ cancels' = [cancels EXCEPT ![c] = @ + 1]
  /\ \/ CancelWaiting(c) \/ CancelNotify(c) \/ CancelLock(c)
     \/ CancelExchange(c) \/ CancelAbort(c) \/ CancelBody(c)
  /\ UNCHANGED << requestId, requestCounter, event >>

-----------------------------------------------------------------------------
(* The robot.                                                              *)

\* A response is received by every open response session that is without its
\* response and to whose request it is_response_to.
Received(message) ==
  frames' =
    [c \in Calls |->
       IF /\ subscribed
          /\ At(c, "write") \/ At(c, "read")
          /\ Top(c).response = NoMessage
          /\ IsResponseTo(message, Top(c).rpc, requestId[c])
       THEN WithTop(frames[c], [Top(c) EXCEPT !.response = message])
       ELSE frames[c]]

\* The request of a long RPC has arrived in whole.
Complete(c) == \A k \in 1 .. WriteChunks : memory[k] = << c, "request" >>

\* What handling a request does, and the data of its response: a motion starts,
\* a StopExecution ends the one of its key, the nested RPCs of a long RPC use
\* the memory, in which the response replaces the request.
Handle(q, ok) ==
  LET answer(data) ==
        Received([rpc |-> q.rpc, key |-> q.key, by |-> q.by, step |-> q.step, ok |-> ok,
                  data |-> data])
  IN CASE q.rpc = "StopExecution" ->
            /\ answer(<< >>)
            /\ executing' = executing \ {q.by} /\ UNCHANGED memory
       [] q.rpc = "MemWrite" /\ q.step > 0 ->
            /\ answer(<< >>)
            /\ memory' = [memory EXCEPT ![q.step] = << q.by, "request" >>]
            /\ UNCHANGED executing
       [] q.rpc = "LongRPCExtensionExecute" /\ q.step > 0 ->
            \E accepted \in BOOLEAN :
              /\ Complete(q.by)
              /\ answer(<< q.by, accepted >>)
              /\ memory' = [memory EXCEPT ![1] = << q.by, accepted >>]
              /\ executing' = executing \cup (IF accepted THEN {q.by} ELSE {})
       [] q.rpc = "MemRead" /\ q.step > 0 ->
            /\ answer(memory[1]) /\ UNCHANGED << memory, executing >>
       [] OTHER ->
            /\ answer(<< >>)
            /\ executing' = executing \cup (IF q.rpc \in Motions THEN {q.by} ELSE {})
            /\ UNCHANGED memory

\* Only a request that is not nested is refused: refusing one of a long RPC fails
\* an assertion of _long_rpc, which ends it as WriteFails does.
RobotHandles ==
  /\ inbox # << >>
  /\ inbox' = Tail(inbox)
  /\ LET q == Head(inbox) IN
     \E ok \in {TRUE} \cup (IF HasStatus(q.rpc) /\ q.step = 0 THEN {FALSE} ELSE {}) :
       Handle(q, ok)
  /\ UNCHANGED << task, rlock, ble >>

\* An events session is open from its subscription to its end.
Listening(c) ==
  /\ frames[c] # << >>
  /\ frames[c][1].at \notin {"subscribe", "notifying"}

\* The final event of a motion, received if its events session is open.
RobotEnds(c) ==
  /\ c \in executing
  /\ executing' = executing \ {c}
  /\ IF subscribed /\ Listening(c)
     THEN \E e \in {"finished", "failed"} : event' = [event EXCEPT ![c] = e]
     ELSE UNCHANGED event
  /\ UNCHANGED << frames, outcome, loose, cancels, requestId, requestCounter, rlock, ble, inbox, memory >>

-----------------------------------------------------------------------------
Runs(c) ==
  \/ Subscribe(c) \/ StartNotify(c) \/ EnterLock(c) \/ Write(c) \/ Read(c) \/ Abort(c)
  \/ Unsubscribe(c) \/ StopNotify(c) \/ LongNext(c) \/ LongEnds(c)
  \/ BodyReturns(c) \/ BodyRaises(c)

Fails(c) == NotifyFails(c) \/ WriteFails(c)

Works == RobotHandles \/ \E c \in Calls : Runs(c) \/ RobotEnds(c)

Next ==
  /\ Works \/ \E c \in Calls : Call(c) \/ Fails(c) \/ Cancel(c)
  /\ UNCHANGED program

\* Something happens as long as something can: the loop runs a task that is
\* ready, the BLE stack answers, or the robot handles a request or ends a
\* motion.  Every call is finite, so this needs no fairness among them; nothing
\* is assumed of callers.
Fairness == WF_vars(Works /\ UNCHANGED program)

Spec == Init /\ [][Next]_vars /\ Fairness

-----------------------------------------------------------------------------
(* Properties.                                                             *)

FrameOK(f) ==
  /\ f.rpc \in DOMAIN Requests /\ f.at \in Ats
  /\ f.step \in 0 .. WriteChunks + 2
  /\ f.response = NoMessage \/ f.response.rpc = f.rpc
  /\ f.result \in {"ok", "error", "cancelled"}

\* A call is in at most two RPCs, an operation and a nested one, and a waiting
\* call is in the queue of the lock it waits for, once.
RpcTypeOK ==
  /\ \A c \in Calls : /\ Len(frames[c]) <= 2
                     /\ \A i \in DOMAIN frames[c] : FrameOK(frames[c][i])
                     /\ (outcome[c] = "running") = (frames[c] # << >>)
  /\ outcome \in [Calls -> {"idle", "running", "ok", "error", "cancelled"}]
  /\ cancels \in [Calls -> Nat]
  /\ requestId \in [Calls -> 0 .. requestCounter]
  /\ event \in [Calls -> {"none", "finished", "failed"}]
  /\ loose \subseteq Calls /\ executing \subseteq Calls
  /\ owner \in Calls \cup {NoCall} /\ counter \in 0 .. 2
  /\ refcount \in Nat /\ subscribed \in BOOLEAN /\ unheard \in BOOLEAN
  /\ IsInjective(lockQueue) /\ IsInjective(notifyQueue)
  /\ \A c \in Calls : frames[c] # << >> /\ Waits(Top(c)) => c \in Range(notifyQueue)

Exchanging == {"write", "read", "long", "abort"}

\* The RPC lock keeps exchanges apart: of all calls only the owner is between
\* taking the lock and giving it back, and the counter says how often.
OneRpcAtATime ==
  LET Held(c) == Cardinality({i \in DOMAIN frames[c] : frames[c][i].at \in Exchanging})
  IN \A c \in Calls : Held(c) = IF c = owner THEN counter ELSE 0

\* The response an RPC returns is the robot's answer to its own request.  Only
\* an RPC whose responses carry no request id can take the answer to another
\* one's request for its own, and only once some call has been cancelled: it has
\* left an answer behind, and whoever takes that one leaves its own.
ResponseIsOwn ==
  \A c \in Calls : \A i \in DOMAIN frames[c] :
    LET f == frames[c][i] IN
    ~Long(f.rpc) /\ f.response # NoMessage /\ f.response.by # c =>
      ~Requests[f.rpc].keyed /\ \E d \in Calls : cancels[d] > 0

\* A long RPC reads back its own response from the memory it shares with the
\* others, with the CRC it was told, while no more calls have been cancelled than
\* its request has chunks: with one late answer more it can be a whole RPC ahead.
LongResponseIsOwn ==
  MapThenSumSet(LAMBDA d : cancels[d], Calls) <= WriteChunks =>
    \A c \in Calls : \A i \in DOMAIN frames[c] :
      LET f == frames[c][i] IN
      /\ f.at = "long" /\ f.step = WriteChunks + 2 => f.data = f.crc /\ f.data[1] = c
      /\ Long(f.rpc) /\ f.response # NoMessage => f.response.by = c

\* Nobody waits for an answer that has already gone by: while a call waits for
\* its response notifications are on, and the robot has still to handle a request
\* whose answer the call will take.  A start_notify that has failed or been
\* cancelled is the one exception.
AnswersAreHeard ==
  unheard \/
    \A c \in Calls : At(c, "read") /\ Top(c).response = NoMessage =>
      /\ subscribed
      /\ \E q \in Range(inbox) : /\ q.by = c /\ q.rpc = Top(c).rpc
                                 /\ Requests[q.rpc].keyed => q.key = requestId[c]

\* A call that has ended leaves no motion behind, however its body ended,
\* unless it was interrupted before it had its response or while it stopped
\* the motion.
EndedMeansStopped ==
  \A c \in executing : outcome[c] = "running" \/ c \in loose

\* No two calls under way share a request id, and neither does a motion that
\* the robot still executes for a call that has ended; every id fits its bytes.
KeysAreUnique ==
  LET Keyed == {c \in Calls : requestId[c] # 0 /\ (outcome[c] = "running" \/ c \in executing)}
  IN /\ \A c, d \in Keyed : requestId[c] = requestId[d] => c = d
     /\ \A c \in Keyed : requestId[c] <= MaxRequestId

\* Every call returns while the robot answers, ends its motions and is heard:
\* neither lock is kept, nested RPCs do not wait for their own operation.
Returns ==
  (\E c \in Calls : outcome[c] = "running")
    ~> (unheard \/ \A c \in Calls : outcome[c] # "running")
=============================================================================
