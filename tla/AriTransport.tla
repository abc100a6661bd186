---------------------------- MODULE AriTransport ----------------------------
(***************************************************************************)
(* The transport stack under the ARI JSON-RPC executor                     *)
(* (ozobot/ari/driver/transport.py): SerializingTransportLayer, which      *)
(* remembers the method of every unanswered request in _context, on top of *)
(* either the WebRTC adapter or _BleTransport.                             *)
(*                                                                         *)
(* A WebRTC send never suspends the writing coroutine.  A BLE write takes  *)
(* _write_lock and hands the frame to the adapter chunk by chunk,          *)
(* suspending after each one; a writer cancelled between two chunks leaves *)
(* half a frame on the characteristic, after which the length-prefix       *)
(* framing of everything later is lost (torn).                             *)
(*                                                                         *)
(* A frame of several chunks is abstracted to "some chunks but the last    *)
(* are out" (part) and "the last chunk is out" (last); a message counts as *)
(* delivered to the robot when its last chunk is handed over.              *)
(***************************************************************************)
EXTENDS Naturals, Sequences

CONSTANTS
  Calls,    \* ids of the requests made over one connection, 0 .. N - 1
  NoCall    \* a value that is no call: the write lock is free

ASSUME NoCallAssumption == NoCall \notin Calls

VARIABLES
  transport,  \* which adapter the connection uses: "webrtc" or "ble"
  context,    \* keys of SerializingTransportLayer._context
  lockedBy,   \* the call holding _BleTransport._write_lock, or NoCall
  stage,      \* how far each call's current frame is: see Stages
  op,         \* the robot's state of each request: see Ops
  torn        \* a truncated frame is on the characteristic

transportVars == << transport, context, lockedBy, stage, op, torn >>

Transports == {"webrtc", "ble"}
Stages == {"none", "queued", "part", "last", "sent"}
Ops == {"absent", "running", "answered", "errored", "aborted", "stopped"}

Request(c) == [id |-> c, kind |-> "request"]
Cancellation(c) == [id |-> c, kind |-> "cancel"]

TransportTypeOK ==
  /\ transport \in Transports
  /\ context \subseteq Calls
  /\ lockedBy \in Calls \cup {NoCall}
  /\ stage \in [Calls -> Stages]
  /\ op \in [Calls -> Ops]
  /\ torn \in BOOLEAN

TransportInit ==
  /\ transport \in Transports
  /\ context = {}
  /\ lockedBy = NoCall
  /\ stage = [c \in Calls |-> "none"]
  /\ op = [c \in Calls |-> "absent"]
  /\ torn = FALSE

-----------------------------------------------------------------------------
(* Writing one message.                                                    *)

\* The robot takes a whole message at once, unless a truncated frame precedes
\* it: it starts a request, and silently stops a running one it is told to
\* cancel.  Delay is modelled on the way back only (AriExecutor's inbox), which
\* the client cannot tell from delay on both ways.
Deliver(m) ==
  op' = [op EXCEPT ![m.id] =
           CASE torn -> @
             [] ~torn /\ m.kind = "request" -> "running"
             [] ~torn /\ m.kind = "cancel" -> IF @ = "running" THEN "stopped" ELSE @]

SetStage(c, s) == stage' = [stage EXCEPT ![c] = s]

\* The lock is c's: the first chunk is the whole frame, or is not.
FirstChunk(c, m) ==
  /\ lockedBy' = c
  /\ \/ SetStage(c, "last") /\ Deliver(m)
     \/ SetStage(c, "part") /\ UNCHANGED op
  /\ UNCHANGED torn

\* Up to the first suspension of `await self._transport.write(raw)`.
StartWrite(c, m) ==
  \/ /\ transport = "webrtc"
     /\ SetStage(c, "sent") /\ Deliver(m)
     /\ UNCHANGED << lockedBy, torn >>
  \/ /\ transport = "ble" /\ lockedBy = NoCall
     /\ FirstChunk(c, m)
  \/ /\ transport = "ble" /\ lockedBy # NoCall
     /\ SetStage(c, "queued")
     /\ UNCHANGED << lockedBy, op, torn >>

TakeLock(c, m) == stage[c] = "queued" /\ lockedBy = NoCall /\ FirstChunk(c, m)

LastChunk(c, m) ==
  /\ stage[c] = "part"
  /\ SetStage(c, "last") /\ Deliver(m)
  /\ UNCHANGED << lockedBy, torn >>

FinishWrite(c) ==
  /\ stage[c] = "last"
  /\ SetStage(c, "sent")
  /\ lockedBy' = NoCall
  /\ UNCHANGED << op, torn >>

\* Abort without the lock being given back, a mutant of AbortWrite.
AbortKeepingLock(c) ==
  /\ stage[c] \in {"queued", "part", "last"}
  /\ SetStage(c, "none")
  /\ torn' = (torn \/ stage[c] = "part")
  /\ UNCHANGED << op, lockedBy >>

\* CancelledError inside a suspended write: `async with` gives the lock back.
AbortWrite(c) ==
  /\ stage[c] \in {"queued", "part", "last"}
  /\ SetStage(c, "none")
  /\ lockedBy' = IF lockedBy = c THEN NoCall ELSE lockedBy
  /\ torn' = (torn \/ stage[c] = "part")
  /\ UNCHANGED op

\* The adapter raises in its first write, before it has suspended: nothing is sent.
\* A frame behind another waits for _write_lock first.
FailedWrite ==
  /\ transport = "ble" => lockedBy = NoCall
  /\ UNCHANGED << lockedBy, stage, op, torn >>

\* The adapter raises in a suspended write: `async with` gives the lock back.
\* When it is the first chunk that fails, nothing of the frame has gone out.
BreakWrite(c) ==
  /\ stage[c] \in {"part", "last"}
  /\ SetStage(c, "none")
  /\ lockedBy' = NoCall
  /\ torn' \in {torn, torn \/ stage[c] = "part"}
  /\ UNCHANGED op

\* A write started by a task that is already marked to be cancelled at its
\* next suspension: it goes as far as it can without suspending.
InterruptedWrite(m) ==
  /\ \/ transport = "webrtc" /\ Deliver(m) /\ UNCHANGED torn
     \/ transport = "ble" /\ UNCHANGED << op, torn >>
     \/ transport = "ble" /\ lockedBy = NoCall /\ Deliver(m) /\ UNCHANGED torn
     \/ transport = "ble" /\ lockedBy = NoCall /\ torn' = TRUE /\ UNCHANGED op
  /\ UNCHANGED lockedBy

-----------------------------------------------------------------------------
(* SerializingTransportLayer: what reading one message does to _context.   *)

\* An Error or Cancellation is parsed without looking the id up, and its id
\* is then popped unconditionally: a KeyError when the id is not there.
ReadFails(m) == m.kind \in {"error", "cancellation"} /\ m.id \notin context

\* A Response or Notification with an unknown id is dropped.
Ignored(m) == m.kind \in {"response", "notification"} /\ m.id \notin context

\* Mutants of ContextAfterRead: the isinstance test without Response, and a
\* pop for every message.
KeepsResponses(m) ==
  IF m.kind \in {"notification", "response"} THEN context ELSE context \ {m.id}

PopsAlways(m) == context \ {m.id}

\* A Response, Cancellation or Error ends the request's entry.
ContextAfterRead(m) ==
  IF m.kind = "notification" THEN context ELSE context \ {m.id}
=============================================================================
