---------------------------- MODULE AriRpcProofs ----------------------------
(***************************************************************************)
(* Proofs about AriRpc, for any number of calls and notifications.         *)
(*                                                                         *)
(* OneWriter rests on where a call is while its frame is half out.  The    *)
(* refinement of RpcPromise rests on a chain from the robot to the caller: *)
(* a request is not decided before it has been sent, what is on its way    *)
(* says what the robot has decided, and so does what the call makes of it. *)
(* CancelStopsRobot needs that chain too, for the requests that the robot  *)
(* has cancelled, and where a cancellation message stops the robot.        *)
(*                                                                         *)
(* The last part is about what is on its way from the robot to the calls:  *)
(* an answer is there exactly while the request's context entry waits for  *)
(* it, and notifications arrive in order.  It rests on the others: a       *)
(* request is decided once, and what is on its way says what has been      *)
(* decided.                                                                *)
(***************************************************************************)
EXTENDS AriRpc, TLAPS

\* A frame is on its way only while its call is in a write.
WritersWrite ==
  \A c \in Calls :
    stage[c] \in {"queued", "part", "last"} => pc[c] \in {"writing", "cancelling"}

\* The robot does not know a request whose last chunk is not out.
UnsentIsAbsent ==
  \A c \in Calls :
    pc[c] = "idle" \/ (pc[c] = "writing" /\ stage[c] \in {"queued", "part"}) =>
      op[c] = "absent"

\* What the robot has decided when it sends an answer of this kind.
VerdictOf(kind) ==
  CASE kind = "response" -> "answered"
    [] kind = "error" -> "errored"
    [] kind = "cancellation" -> "aborted"

\* An answer on its way, or in a call's queues, is the robot's verdict.
InboxIsTrue ==
  \A i \in 1 .. Len(inbox) :
    inbox[i].kind \in Answers => op[inbox[i].id] = VerdictOf(inbox[i].kind)

ArrivedIsTrue == \A c \in Calls : \A kind \in arrived[c] : op[c] = VerdictOf(kind)

\* So is an ending that speaks for the robot: an error, or a command's normal one.
CauseIsTrue ==
  \A c \in Calls :
    /\ cause[c] = "error" => op[c] = "errored"
    /\ cause[c] = "server" => op[c] = "aborted"
    /\ pc[c] \in {"closing", "aborted"} /\ cause[c] = "none" /\ c \notin Watches =>
         op[c] = "answered"

\* execute() has ended one way or another.
DoneHasOutcome == \A c \in Calls : pc[c] = "done" => outcome[c] # "none"

-----------------------------------------------------------------------------
(* Type correctness.                                                       *)

LEMMA TypeInit == Init => TypeOK
<1> SUFFICES ASSUME Init PROVE TypeOK
  OBVIOUS
<1>1. TransportTypeOK
  BY DEF Init, TransportInit, TransportTypeOK, Stages, Ops
<1>2. ExecutorTypeOK
  <2>1. << >> \in Seq(Nat) /\ << >> \in Seq(Inbound)
    OBVIOUS
  <2> QED
    BY <2>1 DEF Init, ExecutorInit, ExecutorTypeOK, Pcs, Causes, Outcomes
<1> QED
  BY <1>1, <1>2 DEF Init, TypeOK

\* The robot's answer to a message is one of its states.
LEMMA TypeDeliver ==
  ASSUME TypeOK, NEW c \in Calls, NEW m, m \in {Request(c), Cancellation(c)}, Deliver(m)
  PROVE  op' \in [Calls -> Ops]
BY DEF TypeOK, TransportTypeOK, Deliver, Request, Cancellation, Ops

\* A write, however far it gets.
LEMMA TypeStartWrite ==
  ASSUME TypeOK, NEW c \in Calls, NEW m, m \in {Request(c), Cancellation(c)},
         StartWrite(c, m)
  PROVE  /\ lockedBy' \in Calls \cup {NoCall} /\ stage' \in [Calls -> Stages]
         /\ op' \in [Calls -> Ops] /\ torn' \in BOOLEAN
BY TypeDeliver
   DEF TypeOK, TransportTypeOK, StartWrite, FirstChunk, SetStage, Stages

LEMMA TypeGoOnWriting ==
  ASSUME TypeOK, NEW c \in Calls, NEW m, m \in {Request(c), Cancellation(c)},
         TakeLock(c, m) \/ LastChunk(c, m) \/ FinishWrite(c)
  PROVE  /\ lockedBy' \in Calls \cup {NoCall} /\ stage' \in [Calls -> Stages]
         /\ op' \in [Calls -> Ops] /\ torn' \in BOOLEAN
BY TypeDeliver
   DEF TypeOK, TransportTypeOK, TakeLock, LastChunk, FinishWrite, FirstChunk, SetStage,
       Stages

\* Leaving execute().
LEMMA TypeEnd ==
  ASSUME TypeOK, NEW c \in Calls, NEW o \in Outcomes, End(c, o)
  PROVE  /\ pc' \in [Calls -> Pcs] /\ outcome' \in [Calls -> Outcomes]
         /\ arrived' \in [Calls -> SUBSET Answers] /\ notes' \in [Calls -> Seq(Nat)]
BY DEF TypeOK, ExecutorTypeOK, End, Goto, Pcs

\* The first cause is kept.
LEMMA TypeFirstCause ==
  ASSUME TypeOK, NEW c \in Calls, NEW k \in Causes
  PROVE  FirstCause(c, k) \in [Calls -> Causes]
BY DEF TypeOK, ExecutorTypeOK, FirstCause

\* The program's side: writing, the block, and the task group.
LEMMA TypeProgram ==
  ASSUME TypeOK, NEW c \in Calls, Program(c), UNCHANGED sent
  PROVE  TypeOK'
<1> USE DEF TypeOK, TransportTypeOK, ExecutorTypeOK, transportVars, endVars
<1>1. CASE Begin(c)
  <2>1. nextId \in Nat /\ nextId' = nextId + 1
    BY <1>1 DEF Begin
  <2>2. pc' \in [Calls -> Pcs]
    BY <1>1 DEF Begin, Goto, Pcs
  <2>3. /\ lockedBy' \in Calls \cup {NoCall} /\ stage' \in [Calls -> Stages]
        /\ op' \in [Calls -> Ops] /\ torn' \in BOOLEAN
    BY <1>1, TypeStartWrite DEF Begin
  <2>4. /\ context' = context \cup {c}
        /\ UNCHANGED << transport, cause, recancel, outcome, arrived, notes, got, reader, inbox >>
    BY <1>1, Zenon DEF Begin, endVars
  <2> QED
    BY <2>1, <2>2, <2>3, <2>4
<1>2. CASE ContinueWrite(c)
  <2> DEFINE m == IF pc[c] = "writing" THEN Request(c) ELSE Cancellation(c)
  <2>1. /\ lockedBy' \in Calls \cup {NoCall} /\ stage' \in [Calls -> Stages]
        /\ op' \in [Calls -> Ops] /\ torn' \in BOOLEAN
    BY <1>2, TypeGoOnWriting DEF ContinueWrite
  <2>2. /\ pc' \in [Calls -> Pcs] /\ outcome' \in [Calls -> Outcomes]
        /\ arrived' \in [Calls -> SUBSET Answers] /\ notes' \in [Calls -> Seq(Nat)]
    <3>1. CASE ~Written(c)
      BY <3>1, <1>2 DEF ContinueWrite
    <3>2. CASE Written(c) /\ pc[c] = "writing"
      BY <3>2, <1>2 DEF ContinueWrite, Goto, Pcs
    <3>3. CASE Written(c) /\ pc[c] = "cancelling"
      BY <3>3, <1>2, TypeEnd DEF ContinueWrite, Outcomes
    <3> QED
      BY <3>1, <3>2, <3>3, <1>2 DEF ContinueWrite
  <2> QED
    BY <2>1, <2>2, <1>2 DEF ContinueWrite
<1>3. CASE CancelledWriting(c) \/ WriteRaises(c)
  <2>1. CASE CancelledWriting(c)
    BY <2>1, TypeEnd DEF CancelledWriting, AbortWrite, SetStage, Stages, Outcomes
  <2>2. CASE WriteRaises(c)
    BY <2>2, TypeEnd DEF WriteRaises, BreakWrite, SetStage, Stages, Outcomes
  <2> QED
    BY <1>3, <2>1, <2>2
<1>4. CASE ReadNotification(c)
  BY <1>4 DEF ReadNotification
<1>5. CASE TakeResponse(c)
  BY <1>5, TypeFirstCause DEF TakeResponse, Goto, Pcs, Causes
<1>6. CASE LeaveWatch(c)
  BY <1>6 DEF LeaveWatch, Goto, Pcs
<1>7. CASE BodyRaises(c)
  BY <1>7, TypeFirstCause DEF BodyRaises, Goto, Pcs, Causes
<1>8. CASE CancelQuery(c)
  BY <1>8, TypeFirstCause DEF CancelQuery, Causes
<1>9. CASE CancelTask(c)
  BY <1>9, TypeFirstCause DEF CancelTask, Goto, Pcs, Causes
<1>10. CASE AbortGroup(c)
  BY <1>10 DEF AbortGroup, Goto, Pcs
<1>11. CASE CancelClosing(c)
  BY <1>11, TypeEnd DEF CancelClosing, Outcomes
<1>12. CASE Close(c)
  <2>1. CASE SendCancellation(c) /\ ~recancel[c]
    <3>1. CASE StartWrite(c, Cancellation(c)) /\ Written(c) /\ End(c, "cancelled")
      BY <1>12, <2>1, <3>1, TypeStartWrite, TypeEnd DEF Close, SendCancellation, Outcomes
    <3>2. CASE /\ StartWrite(c, Cancellation(c)) /\ Goto(c, "cancelling")
               /\ UNCHANGED endVars
      BY <1>12, <2>1, <3>2, TypeStartWrite DEF Close, SendCancellation, Goto, Pcs
    <3>3. CASE FailedWrite /\ End(c, "raised")
      BY <1>12, <2>1, <3>3, TypeEnd DEF Close, SendCancellation, FailedWrite, Outcomes
    <3> QED
      BY <2>1, <3>1, <3>2, <3>3 DEF SendCancellation
  <2>2. CASE SendCancellation(c) /\ recancel[c]
    BY <1>12, <2>2, TypeDeliver, TypeEnd
       DEF Close, SendCancellation, InterruptedWrite, FailedWrite, Outcomes
  <2>3. CASE ~SendCancellation(c)
    BY <1>12, <2>3, TypeEnd DEF Close, Outcomes, Causes
  <2> QED
    BY <2>1, <2>2, <2>3
<1>13. CASE BeginFails(c)
  <2>1. /\ pc' \in [Calls -> Pcs] /\ outcome' \in [Calls -> Outcomes]
        /\ arrived' \in [Calls -> SUBSET Answers] /\ notes' \in [Calls -> Seq(Nat)]
    BY <1>13, TypeEnd DEF BeginFails, Outcomes
  <2>2. nextId' = nextId + 1 /\ context' = context \cup {c}
    BY <1>13, Zenon DEF BeginFails
  <2>3. UNCHANGED << transport, lockedBy, stage, op, torn, cause, recancel, got, reader, inbox >>
    BY <1>13, Zenon DEF BeginFails, FailedWrite
  <2> QED
    BY <2>1, <2>2, <2>3
<1> QED
  BY <1>1, <1>2, <1>3, <1>4, <1>5, <1>6, <1>7, <1>8, <1>9, <1>10, <1>11, <1>12, <1>13
     DEF Program

\* A message that is read is what the robot can send.
LEMMA TypeRead ==
  ASSUME TypeOK, Read, UNCHANGED sent
  PROVE  TypeOK'
<1> USE DEF TypeOK, TransportTypeOK, ExecutorTypeOK
<1> DEFINE m == Head(inbox)
<1>1. m \in Inbound /\ inbox' \in Seq(Inbound)
  BY DEF Read
<1>2. /\ m.id \in Calls /\ m.n \in Nat
      /\ m.kind \in Answers \cup {"notification"}
  BY <1>1 DEF Inbound
<1>3. /\ context' \subseteq Calls /\ reader' \in {"running", "failed"}
      /\ arrived' \in [Calls -> SUBSET Answers] /\ notes' \in [Calls -> Seq(Nat)]
  <2>1. CASE Broadcast(m) /\ context' = ContextAfterRead(m) /\ UNCHANGED reader
    <3> HIDE DEF m
    <3>1. CASE m.kind = "notification"
      <4>1. \A d \in Calls : Append(notes[d], m.n) \in Seq(Nat)
        BY <1>2
      <4>2. \A d \in Calls :
              (IF Receives(d, m) THEN Append(notes[d], m.n) ELSE notes[d]) \in Seq(Nat)
        BY <4>1
      <4>3. /\ notes' = [d \in Calls |-> IF Receives(d, m) THEN Append(notes[d], m.n)
                                                           ELSE notes[d]]
            /\ UNCHANGED << arrived, context, reader >>
        BY <2>1, <3>1 DEF Broadcast, ContextAfterRead
      <4>4. notes' \in [Calls -> Seq(Nat)]
        BY <4>2, <4>3, Zenon
      <4>5. /\ context' \subseteq Calls /\ reader' \in {"running", "failed"}
            /\ arrived' \in [Calls -> SUBSET Answers]
        BY <4>3
      <4> QED
        BY <4>4, <4>5, Zenon
    <3>2. CASE m.kind # "notification"
      <4>1. \A d \in Calls :
              (IF Receives(d, m) THEN arrived[d] \cup {m.kind} ELSE arrived[d]) \in SUBSET Answers
        BY <1>2, <3>2
      <4>2. /\ arrived' = [d \in Calls |-> IF Receives(d, m) THEN arrived[d] \cup {m.kind}
                                                             ELSE arrived[d]]
            /\ context' = context \ {m.id} /\ UNCHANGED << notes, reader >>
        BY <2>1, <3>2 DEF Broadcast, ContextAfterRead
      <4>3. arrived' \in [Calls -> SUBSET Answers]
        BY <4>1, <4>2, Zenon
      <4>4. /\ context' \subseteq Calls /\ reader' \in {"running", "failed"}
            /\ notes' \in [Calls -> Seq(Nat)]
        BY <4>2
      <4> QED
        BY <4>3, <4>4, Zenon
    <3> QED
      BY <3>1, <3>2
  <2>2. CASE UNCHANGED << arrived, notes, context >> /\ reader' \in {reader, "failed"}
    BY <2>2
  <2>3. \/ ReadFails(m) /\ reader' = "failed" /\ UNCHANGED << context, arrived, notes >>
        \/ Ignored(m) /\ UNCHANGED << context, arrived, notes, reader >>
        \/ /\ m.id \in context
           /\ context' = ContextAfterRead(m)
           /\ Broadcast(m)
           /\ UNCHANGED reader
    BY Zenon DEF Read
  <2> QED
    BY <2>1, <2>2, <2>3
<1> QED
  BY <1>1, <1>3 DEF Read

LEMMA TypeRobot ==
  ASSUME TypeOK, NEW c \in Calls, Robot(c)
  PROVE  TypeOK'
<1> USE DEF TypeOK, TransportTypeOK, ExecutorTypeOK, robotOnly
<1>1. CASE RobotNotifies(c)
  <2>1. [id |-> c, kind |-> "notification", n |-> sent[c] + 1] \in Inbound
    BY DEF Inbound
  <2>2. /\ sent' = [sent EXCEPT ![c] = @ + 1]
        /\ inbox' = Append(inbox, [id |-> c, kind |-> "notification", n |-> sent[c] + 1])
        /\ UNCHANGED << robotOnly, op >>
    BY <1>1, Zenon DEF RobotNotifies
  <2> QED
    BY <2>1, <2>2
<1>2. ASSUME NEW o \in Ops, NEW kind \in Answers, RobotEnds(c, o, kind)
      PROVE  TypeOK'
  <2>1. [id |-> c, kind |-> kind, n |-> 0] \in Inbound
    BY DEF Inbound
  <2> QED
    BY <1>2, <2>1 DEF RobotEnds
<1> QED
  BY <1>1, <1>2 DEF Robot, Ops, Answers

LEMMA TypeStep ==
  ASSUME TypeOK, [Next]_vars
  PROVE  TypeOK'
<1>1. ASSUME NEW c \in Calls, AwaitCancellation(c) \/ AwaitError(c), UNCHANGED sent
      PROVE  TypeOK'
  BY <1>1, TypeFirstCause
     DEF AwaitCancellation, AwaitError, Waiter, TypeOK, TransportTypeOK, ExecutorTypeOK,
         transportVars, Causes
<1>2. CASE UNCHANGED vars
  BY <1>2 DEF vars, transportVars, executorVars, TypeOK, TransportTypeOK, ExecutorTypeOK
<1> QED
  BY <1>1, <1>2, TypeProgram, TypeRead, TypeRobot DEF Next, ExecutorNext

-----------------------------------------------------------------------------
(* Writing.                                                                *)

\* What the robot has decided stays decided, and other requests are not touched.
LEMMA DeliverKeeps ==
  ASSUME TypeOK, NEW c \in Calls, NEW m, m \in {Request(c), Cancellation(c)},
         m = Request(c) => op[c] = "absent", Deliver(m)
  PROVE  /\ \A d \in Calls : d # c => op'[d] = op[d]
         /\ op[c] \in Verdicts \/ op'[c] \in Verdicts => op'[c] = op[c]
BY DEF TypeOK, TransportTypeOK, Deliver, Request, Cancellation, Verdicts

\* A step of a write moves its own frame, and passes the lock on correctly.
Moves(c) ==
  /\ OneWriter'
  /\ \A d \in Calls : d # c => stage'[d] = stage[d] /\ op'[d] = op[d]
  /\ op[c] \in Verdicts \/ op'[c] \in Verdicts => op'[c] = op[c]
  /\ stage'[c] \in {"queued", "part"} => op'[c] = op[c]

LEMMA StartWriteMoves ==
  ASSUME TypeOK, OneWriter, NEW c \in Calls, NEW m, m \in {Request(c), Cancellation(c)},
         m = Request(c) => op[c] = "absent",
         stage[c] \notin {"queued", "part", "last"}, StartWrite(c, m)
  PROVE  Moves(c)
<1> USE DEF TypeOK, TransportTypeOK, OneWriter, SetStage
<1>1. CASE transport = "webrtc" /\ SetStage(c, "sent") /\ Deliver(m) /\ UNCHANGED lockedBy
  BY <1>1, DeliverKeeps DEF Moves
<1>2. CASE lockedBy = NoCall /\ lockedBy' = c /\ SetStage(c, "last") /\ Deliver(m)
  BY <1>2, DeliverKeeps, NoCallAssumption DEF Moves
<1>3. CASE lockedBy = NoCall /\ lockedBy' = c /\ SetStage(c, "part") /\ UNCHANGED op
  BY <1>3, NoCallAssumption DEF Moves
<1>4. CASE lockedBy # NoCall /\ SetStage(c, "queued") /\ UNCHANGED << lockedBy, op >>
  BY <1>4 DEF Moves
<1> QED
  BY <1>1, <1>2, <1>3, <1>4 DEF StartWrite, FirstChunk

LEMMA GoOnWritingMoves ==
  ASSUME TypeOK, OneWriter, NEW c \in Calls, NEW m, m \in {Request(c), Cancellation(c)},
         m = Request(c) /\ stage[c] \in {"queued", "part"} => op[c] = "absent",
         TakeLock(c, m) \/ LastChunk(c, m) \/ FinishWrite(c)
  PROVE  Moves(c) /\ stage[c] \in {"queued", "part", "last"}
         /\ stage'[c] \in {"part", "last", "sent"}
<1> USE DEF TypeOK, TransportTypeOK, OneWriter, SetStage
<1>1. CASE TakeLock(c, m) /\ SetStage(c, "last") /\ Deliver(m)
  BY <1>1, DeliverKeeps, NoCallAssumption DEF Moves, TakeLock, FirstChunk
<1>2. CASE TakeLock(c, m) /\ SetStage(c, "part") /\ UNCHANGED op
  BY <1>2, NoCallAssumption DEF Moves, TakeLock, FirstChunk
<1>3. CASE LastChunk(c, m)
  BY <1>3, DeliverKeeps DEF Moves, LastChunk
<1>4. CASE FinishWrite(c)
  BY <1>4, NoCallAssumption DEF Moves, FinishWrite
<1> QED
  BY <1>1, <1>2, <1>3, <1>4 DEF TakeLock, FirstChunk

LEMMA AbortWriteMoves ==
  ASSUME TypeOK, OneWriter, NEW c \in Calls, AbortWrite(c)
  PROVE  Moves(c) /\ stage'[c] = "none"
BY NoCallAssumption DEF TypeOK, TransportTypeOK, OneWriter, SetStage, AbortWrite, Moves

LEMMA BreakWriteMoves ==
  ASSUME TypeOK, OneWriter, NEW c \in Calls, BreakWrite(c)
  PROVE  Moves(c) /\ stage'[c] = "none"
BY NoCallAssumption DEF TypeOK, TransportTypeOK, OneWriter, SetStage, BreakWrite, Moves

\* What the calls have written, and what the robot knows of it.
Writing == TypeOK /\ OneWriter /\ WritersWrite /\ UnsentIsAbsent

\* A step of one call.
Step(c) ==
  /\ OneWriter' /\ WritersWrite' /\ UnsentIsAbsent'
  /\ \A d \in Calls : d # c => op'[d] = op[d] /\ pc'[d] = pc[d] /\ stage'[d] = stage[d]
  /\ op[c] \in Verdicts \/ op'[c] \in Verdicts => op'[c] = op[c]

\* It is enough to look at the call that moves.
LEMMA MoveIsStep ==
  ASSUME Writing, NEW c \in Calls, Moves(c),
         \A d \in Calls : d # c => pc'[d] = pc[d],
         stage'[c] \in {"queued", "part", "last"} => pc'[c] \in {"writing", "cancelling"},
         pc'[c] = "idle" \/ (pc'[c] = "writing" /\ stage'[c] \in {"queued", "part"}) =>
           op'[c] = "absent"
  PROVE  Step(c)
BY DEF Writing, Moves, Step, WritersWrite, UnsentIsAbsent

\* A call that does not write is never half-way through one.
LEMMA QuietIsStep ==
  ASSUME Writing, NEW c \in Calls, NEW p \in Pcs, UNCHANGED << stage, lockedBy, op >>,
         pc[c] \notin {"idle", "writing", "cancelling"}, p \notin {"idle", "writing"},
         pc' = [pc EXCEPT ![c] = p]
  PROVE  Step(c)
BY DEF Writing, Step, OneWriter, WritersWrite, UnsentIsAbsent, TypeOK, ExecutorTypeOK

LEMMA BeginIsStep ==
  ASSUME Writing, NEW c \in Calls, Begin(c)
  PROVE  Step(c)
<1>1. /\ pc[c] = "idle" /\ StartWrite(c, Request(c))
      /\ pc' = [pc EXCEPT ![c] = IF stage'[c] = "sent" THEN "open" ELSE "writing"]
  BY Zenon DEF Begin, Goto, Written
<1>2. stage[c] \notin {"queued", "part", "last"} /\ op[c] = "absent"
  BY <1>1 DEF Writing, WritersWrite, UnsentIsAbsent
<1>3. Moves(c)
  BY <1>1, <1>2, StartWriteMoves DEF Writing
<1>4. pc'[c] \in {"open", "writing"} /\ (stage'[c] # "sent" => pc'[c] = "writing")
      /\ \A d \in Calls : d # c => pc'[d] = pc[d]
  BY <1>1 DEF Writing, TypeOK, ExecutorTypeOK
<1>5. stage'[c] \in {"queued", "part"} => op'[c] = "absent"
  BY <1>2, <1>3 DEF Moves
<1> QED
  BY <1>3, <1>4, <1>5, MoveIsStep

LEMMA BeginFailsIsStep ==
  ASSUME Writing, NEW c \in Calls, BeginFails(c)
  PROVE  Step(c)
BY DEF BeginFails, FailedWrite, End, Goto, Writing, Step, OneWriter, WritersWrite,
       UnsentIsAbsent, TypeOK, ExecutorTypeOK

LEMMA ContinueWriteIsStep ==
  ASSUME Writing, NEW c \in Calls, ContinueWrite(c)
  PROVE  Step(c)
<1> DEFINE m == IF pc[c] = "writing" THEN Request(c) ELSE Cancellation(c)
<1>1. /\ pc[c] \in {"writing", "cancelling"} /\ m \in {Request(c), Cancellation(c)}
      /\ TakeLock(c, m) \/ LastChunk(c, m) \/ FinishWrite(c)
  BY DEF ContinueWrite
<1>2. m = Request(c) /\ stage[c] \in {"queued", "part"} => op[c] = "absent"
  BY <1>1 DEF Writing, UnsentIsAbsent, Request, Cancellation
<1>3. Moves(c) /\ stage[c] \in {"queued", "part", "last"} /\ stage'[c] \in {"part", "last", "sent"}
  BY <1>1, <1>2, GoOnWritingMoves DEF Writing
<1>4. /\ \A d \in Calls : d # c => pc'[d] = pc[d]
      /\ stage'[c] # "sent" => pc'[c] = pc[c]
      /\ stage'[c] = "sent" => pc'[c] \in {"open", "done"}
  BY <1>1 DEF ContinueWrite, Written, Goto, End, Writing, TypeOK, ExecutorTypeOK
<1>5. pc'[c] = "writing" /\ stage'[c] \in {"queued", "part"} => op'[c] = "absent"
  <2> SUFFICES ASSUME pc'[c] = "writing", stage'[c] = "part"
               PROVE  op'[c] = "absent"
    BY <1>3
  <2>1. pc[c] = "writing" /\ op'[c] = op[c]
    BY <1>3, <1>4 DEF Moves
  <2>2. stage[c] \in {"queued", "part"}
    BY <1>1 DEF TakeLock, LastChunk, FinishWrite, SetStage, Writing, TypeOK, TransportTypeOK
  <2> QED
    BY <2>1, <2>2 DEF Writing, UnsentIsAbsent
<1> QED
  BY <1>1, <1>3, <1>4, <1>5, MoveIsStep

LEMMA CloseIsStep ==
  ASSUME Writing, NEW c \in Calls, Close(c)
  PROVE  Step(c)
<1>1. pc[c] = "aborted" /\ stage[c] \notin {"queued", "part", "last"}
  BY DEF Close, Writing, WritersWrite
<1>2. Request(c) # Cancellation(c)
  BY DEF Request, Cancellation
<1>3. CASE SendCancellation(c) /\ ~recancel[c] /\ StartWrite(c, Cancellation(c))
           /\ IF Written(c) THEN End(c, "cancelled")
                            ELSE Goto(c, "cancelling") /\ UNCHANGED endVars
  <2>1. /\ StartWrite(c, Cancellation(c))
        /\ pc' = [pc EXCEPT ![c] = IF stage'[c] = "sent" THEN "done" ELSE "cancelling"]
    BY <1>3 DEF SendCancellation, Written, End, Goto
  <2>2. Moves(c)
    BY <1>1, <1>2, <2>1, StartWriteMoves DEF Writing
  <2>3. pc'[c] \in {"done", "cancelling"} /\ (stage'[c] # "sent" => pc'[c] = "cancelling")
        /\ \A d \in Calls : d # c => pc'[d] = pc[d]
    BY <2>1 DEF Writing, TypeOK, ExecutorTypeOK
  <2> QED
    BY <2>2, <2>3, MoveIsStep
<1>4. CASE SendCancellation(c) /\ recancel[c] /\ InterruptedWrite(Cancellation(c))
           /\ UNCHANGED stage /\ End(c, "cancelled")
  <2>1. UNCHANGED << stage, lockedBy >> /\ pc' = [pc EXCEPT ![c] = "done"]
    BY <1>4 DEF SendCancellation, InterruptedWrite, End, Goto
  <2>2. /\ \A d \in Calls : d # c => op'[d] = op[d]
        /\ op[c] \in Verdicts \/ op'[c] \in Verdicts => op'[c] = op[c]
    BY <1>2, <1>4, DeliverKeeps DEF SendCancellation, InterruptedWrite, Writing
  <2> QED
    BY <1>1, <2>1, <2>2
       DEF Writing, Step, OneWriter, WritersWrite, UnsentIsAbsent, TypeOK, ExecutorTypeOK
<1>5. CASE ~SendCancellation(c) \/ (FailedWrite /\ End(c, "raised"))
  <2>1. pc' = [pc EXCEPT ![c] = "done"] /\ UNCHANGED << stage, lockedBy, op >>
    BY <1>5 DEF Close, FailedWrite, End, Goto
  <2> QED
    BY <1>1, <2>1, QuietIsStep DEF Pcs
<1> QED
  BY <1>3, <1>4, <1>5 DEF SendCancellation

LEMMA ProgramIsStep ==
  ASSUME Writing, NEW c \in Calls, Program(c)
  PROVE  Step(c)
<1>1. CASE CancelledWriting(c) \/ WriteRaises(c)
  <2>1. Moves(c) /\ stage'[c] = "none"
    BY <1>1, AbortWriteMoves, BreakWriteMoves DEF CancelledWriting, WriteRaises, Writing
  <2>2. pc'[c] = "done" /\ \A d \in Calls : d # c => pc'[d] = pc[d]
    BY <1>1 DEF CancelledWriting, WriteRaises, End, Goto, Writing, TypeOK, ExecutorTypeOK
  <2> QED
    BY <2>1, <2>2, MoveIsStep
<1>2. ASSUME NEW p \in {"open", "closing", "aborted", "done"},
             pc[c] \in {"open", "closing", "aborted"}, pc' = [pc EXCEPT ![c] = p],
             UNCHANGED << stage, lockedBy, op >>
      PROVE  Step(c)
  BY <1>2, QuietIsStep DEF Pcs
<1>3. pc[c] = "open" /\ UNCHANGED pc => pc' = [pc EXCEPT ![c] = "open"]
  BY DEF Writing, TypeOK, ExecutorTypeOK
<1>4. CASE ReadNotification(c) \/ CancelQuery(c)
  BY <1>2, <1>3, <1>4 DEF ReadNotification, CancelQuery, transportVars
<1>5. CASE TakeResponse(c) \/ LeaveWatch(c) \/ BodyRaises(c) \/ CancelTask(c)
  BY <1>2, <1>5 DEF TakeResponse, LeaveWatch, BodyRaises, CancelTask, Goto, transportVars
<1>6. CASE AbortGroup(c)
  BY <1>2, <1>6 DEF AbortGroup, Goto, transportVars
<1>7. CASE CancelClosing(c)
  <2>1. pc[c] = "aborted" /\ UNCHANGED pc => pc' = [pc EXCEPT ![c] = "aborted"]
    BY DEF Writing, TypeOK, ExecutorTypeOK
  <2> QED
    BY <1>2, <1>7, <2>1 DEF CancelClosing, End, Goto, transportVars
<1> QED
  BY <1>1, <1>4, <1>5, <1>6, <1>7, BeginIsStep, BeginFailsIsStep, ContinueWriteIsStep, CloseIsStep
     DEF Program

LEMMA WritingInit == Init => Writing
<1> SUFFICES ASSUME Init PROVE Writing
  OBVIOUS
<1> QED
  BY TypeInit, NoCallAssumption
     DEF Init, TransportInit, ExecutorInit, Writing, OneWriter, WritersWrite, UnsentIsAbsent

\* The robot ends only what is running, which has been sent.
LEMMA RobotEndsKeeps ==
  ASSUME Writing, NEW c \in Calls, NEW o \in Verdicts, op[c] = "running",
         op' = [op EXCEPT ![c] = o], UNCHANGED robotOnly
  PROVE  /\ OneWriter' /\ WritersWrite' /\ UnsentIsAbsent'
         /\ \A d \in Calls : op[d] \in Verdicts => op'[d] = op[d]
BY DEF Writing, OneWriter, WritersWrite, UnsentIsAbsent, Verdicts, robotOnly, TypeOK,
       TransportTypeOK

\* Whatever happens, frames stay apart and the robot's verdicts stand.
LEMMA WritingStep ==
  ASSUME Writing, [Next]_vars
  PROVE  Writing' /\ \A d \in Calls : op[d] \in Verdicts => op'[d] = op[d]
<1>1. TypeOK'
  BY TypeStep DEF Writing
<1> SUFFICES /\ OneWriter' /\ WritersWrite' /\ UnsentIsAbsent'
             /\ \A d \in Calls : op[d] \in Verdicts => op'[d] = op[d]
  BY <1>1 DEF Writing
<1>2. ASSUME UNCHANGED << stage, lockedBy, pc, op >>
      PROVE  /\ OneWriter' /\ WritersWrite' /\ UnsentIsAbsent'
             /\ \A d \in Calls : op[d] \in Verdicts => op'[d] = op[d]
  BY <1>2 DEF Writing, OneWriter, WritersWrite, UnsentIsAbsent
<1>3. ASSUME NEW c \in Calls, Program(c)
      PROVE  /\ OneWriter' /\ WritersWrite' /\ UnsentIsAbsent'
             /\ \A d \in Calls : op[d] \in Verdicts => op'[d] = op[d]
  BY <1>3, ProgramIsStep DEF Step
<1>4. ASSUME NEW c \in Calls, AwaitCancellation(c) \/ AwaitError(c)
      PROVE  UNCHANGED << stage, lockedBy, pc, op >>
  BY <1>4 DEF AwaitCancellation, AwaitError, Waiter, transportVars
<1>5. Read => UNCHANGED << stage, lockedBy, pc, op >>
  BY DEF Read
<1>6. ASSUME NEW c \in Calls, Robot(c)
      PROVE  \/ UNCHANGED << stage, lockedBy, pc, op >>
             \/ \E o \in Verdicts : /\ op[c] = "running" /\ op' = [op EXCEPT ![c] = o]
                                   /\ UNCHANGED robotOnly
  <2>1. RobotNotifies(c) => UNCHANGED << robotOnly, op >>
    BY Zenon DEF RobotNotifies
  <2> QED
    BY <1>6, <2>1 DEF Robot, RobotEnds, robotOnly, Verdicts
<1>7. UNCHANGED vars => UNCHANGED << stage, lockedBy, pc, op >>
  BY DEF vars, transportVars, executorVars
<1> QED
  BY <1>2, <1>3, <1>4, <1>5, <1>6, <1>7, RobotEndsKeeps DEF Next, ExecutorNext

LEMMA WritingHolds == Spec => []Writing
<1>1. Writing /\ [Next]_vars => Writing'
  BY WritingStep
<1> QED
  BY WritingInit, <1>1, PTL DEF Spec

\* The variables keep their types.
THEOREM TypeHolds == Spec => []TypeOK
<1>1. Writing => TypeOK
  BY DEF Writing
<1> QED
  BY WritingHolds, <1>1, PTL

\* Two tasks never write their frames to the characteristic at the same time.
THEOREM OneWriterHolds == Spec => []OneWriter
<1>1. Writing => OneWriter
  BY DEF Writing
<1> QED
  BY WritingHolds, <1>1, PTL

-----------------------------------------------------------------------------
(* From the robot's verdict to what the caller gets.                       *)

Truth == InboxIsTrue /\ ArrivedIsTrue /\ CauseIsTrue

LEMMA TruthInit == Init => Truth
<1> SUFFICES ASSUME Init PROVE Truth
  OBVIOUS
<1> QED
  BY DEF Init, ExecutorInit, Truth, InboxIsTrue, ArrivedIsTrue, CauseIsTrue

LEMMA VerdictOfIsVerdict == \A kind \in Answers : VerdictOf(kind) \in Verdicts
BY DEF Answers, VerdictOf, Verdicts

\* Messages on their way stay true while the robot's verdicts stand.
LEMMA InboxStaysTrue ==
  ASSUME TypeOK, InboxIsTrue, \A d \in Calls : op[d] \in Verdicts => op'[d] = op[d],
         UNCHANGED inbox
  PROVE  InboxIsTrue'
<1> SUFFICES ASSUME NEW i \in 1 .. Len(inbox), inbox[i].kind \in Answers
             PROVE  op'[inbox[i].id] = VerdictOf(inbox[i].kind)
  BY DEF InboxIsTrue
<1>1. inbox[i] \in Inbound
  BY DEF TypeOK, ExecutorTypeOK
<1>2. inbox[i].id \in Calls
  BY <1>1 DEF Inbound
<1> QED
  BY <1>2, VerdictOfIsVerdict DEF InboxIsTrue

\* Taking answers out of the queues leaves the others true.
LEMMA ArrivedStaysTrue ==
  ASSUME TypeOK, ArrivedIsTrue, \A d \in Calls : op[d] \in Verdicts => op'[d] = op[d],
         \A d \in Calls : arrived'[d] \subseteq arrived[d]
  PROVE  ArrivedIsTrue'
<1> SUFFICES ASSUME NEW d \in Calls, NEW kind \in arrived'[d]
             PROVE  op'[d] = VerdictOf(kind)
  BY DEF ArrivedIsTrue
<1>1. kind \in arrived[d] /\ kind \in Answers
  BY DEF TypeOK, ExecutorTypeOK
<1> QED
  BY <1>1, VerdictOfIsVerdict DEF ArrivedIsTrue

\* A cause that has been set stands, and so does a cause that is missing.
LEMMA CauseStaysTrue ==
  ASSUME TypeOK, CauseIsTrue, \A d \in Calls : op[d] \in Verdicts => op'[d] = op[d],
         NEW c \in Calls, \A d \in Calls : d # c => cause'[d] = cause[d] /\ pc'[d] = pc[d],
         cause'[c] = "error" => op'[c] = "errored",
         cause'[c] = "server" => op'[c] = "aborted",
         pc'[c] \in {"closing", "aborted"} /\ cause'[c] = "none" /\ c \notin Watches =>
           op'[c] = "answered"
  PROVE  CauseIsTrue'
BY DEF CauseIsTrue, Verdicts

LEMMA ProgramIsTrue ==
  ASSUME Writing, Truth, NEW c \in Calls, Program(c)
  PROVE  Truth'
<1>1. /\ \A d \in Calls : op[d] \in Verdicts => op'[d] = op[d]
      /\ \A d \in Calls : d # c => pc'[d] = pc[d]
  BY ProgramIsStep DEF Step
<1>2. UNCHANGED inbox /\ \A d \in Calls : arrived'[d] \subseteq arrived[d]
  <2> USE DEF endVars, End, Writing, TypeOK, ExecutorTypeOK
  <2>1. CASE Begin(c)
    BY <2>1, Zenon DEF Begin
  <2>2. CASE ContinueWrite(c)
    BY <2>2 DEF ContinueWrite
  <2>3. CASE CancelledWriting(c) \/ WriteRaises(c) \/ BeginFails(c)
    BY <2>3 DEF CancelledWriting, WriteRaises, BeginFails
  <2>4. CASE ReadNotification(c) \/ TakeResponse(c) \/ LeaveWatch(c) \/ BodyRaises(c)
    BY <2>4 DEF ReadNotification, TakeResponse, LeaveWatch, BodyRaises
  <2>5. CASE CancelQuery(c) \/ CancelTask(c) \/ AbortGroup(c) \/ CancelClosing(c)
    BY <2>5 DEF CancelQuery, CancelTask, AbortGroup, CancelClosing
  <2>6. CASE Close(c)
    BY <2>6 DEF Close, SendCancellation
  <2> QED
    BY <2>1, <2>2, <2>3, <2>4, <2>5, <2>6 DEF Program
<1>3. /\ \A d \in Calls : d # c => cause'[d] = cause[d]
      /\ cause'[c] \in {cause[c], "client"}
  <2> USE DEF Writing, TypeOK, ExecutorTypeOK, FirstCause
  <2>1. CASE Begin(c)
    BY <2>1, Zenon DEF Begin
  <2>2. CASE \/ ContinueWrite(c) \/ CancelledWriting(c) \/ WriteRaises(c) \/ BeginFails(c)
             \/ ReadNotification(c) \/ LeaveWatch(c)
    BY <2>2 DEF ContinueWrite, CancelledWriting, WriteRaises, BeginFails, ReadNotification,
                LeaveWatch
  <2>3. CASE TakeResponse(c) \/ BodyRaises(c) \/ CancelQuery(c) \/ CancelTask(c)
    BY <2>3 DEF TakeResponse, BodyRaises, CancelQuery, CancelTask
  <2>4. CASE AbortGroup(c) \/ CancelClosing(c) \/ Close(c)
    BY <2>4 DEF AbortGroup, CancelClosing, Close
  <2> QED
    BY <2>1, <2>2, <2>3, <2>4 DEF Program
<1>4. ASSUME pc'[c] \in {"closing", "aborted"}, cause'[c] = "none", c \notin Watches
      PROVE  op[c] = "answered"
  <2>1. cause[c] = "none"
    BY <1>3, <1>4
  <2> SUFFICES pc[c] \notin {"closing", "aborted"} => op[c] = "answered"
    BY <1>4, <2>1 DEF Truth, CauseIsTrue
  <2> USE <1>4, <2>1 DEF Goto, End, endVars, Writing, TypeOK, ExecutorTypeOK, FirstCause
  <2>2. CASE Begin(c)
    BY <2>2 DEF Begin
  <2>3. CASE \/ ContinueWrite(c) \/ CancelledWriting(c) \/ WriteRaises(c) \/ BeginFails(c)
             \/ ReadNotification(c) \/ LeaveWatch(c)
    BY <2>3 DEF ContinueWrite, CancelledWriting, WriteRaises, BeginFails, ReadNotification,
                LeaveWatch
  <2>4. CASE TakeResponse(c)
    BY <2>4 DEF TakeResponse, Truth, ArrivedIsTrue, VerdictOf
  <2>5. CASE BodyRaises(c) \/ CancelQuery(c) \/ CancelTask(c)
    BY <2>5 DEF BodyRaises, CancelQuery, CancelTask
  <2>6. CASE AbortGroup(c) \/ CancelClosing(c) \/ Close(c)
    BY <2>6 DEF AbortGroup, CancelClosing, Close, SendCancellation
  <2> QED
    BY <2>2, <2>3, <2>4, <2>5, <2>6 DEF Program
<1>5. CauseIsTrue'
  <2>1. /\ cause'[c] = "error" => op'[c] = "errored"
        /\ cause'[c] = "server" => op'[c] = "aborted"
    BY <1>1, <1>3 DEF Truth, CauseIsTrue, Verdicts
  <2> QED
    BY <1>1, <1>3, <1>4, <2>1, CauseStaysTrue DEF Truth, Writing, Verdicts
<1> QED
  BY <1>1, <1>2, <1>5, InboxStaysTrue, ArrivedStaysTrue DEF Truth, Writing

LEMMA WaiterIsTrue ==
  ASSUME Writing, Truth, NEW c \in Calls, AwaitCancellation(c) \/ AwaitError(c)
  PROVE  Truth'
<1> USE DEF Writing, TypeOK, ExecutorTypeOK
<1>1. /\ UNCHANGED << op, pc, inbox >>
      /\ \A d \in Calls : arrived'[d] \subseteq arrived[d]
  BY DEF AwaitCancellation, AwaitError, Waiter, transportVars
<1>2. /\ \A d \in Calls : d # c => cause'[d] = cause[d]
      /\ \/ cause'[c] = cause[c]
         \/ cause'[c] = "server" /\ op[c] = "aborted"
         \/ cause'[c] = "error" /\ op[c] = "errored"
  BY DEF AwaitCancellation, AwaitError, Waiter, FirstCause, Truth, ArrivedIsTrue, VerdictOf
<1>3. CauseIsTrue'
  BY <1>1, <1>2 DEF Truth, CauseIsTrue
<1> QED
  BY <1>1, <1>3, InboxStaysTrue, ArrivedStaysTrue DEF Truth

\* What is read is true, and reaches the call it belongs to.
LEMMA ReadIsTrue ==
  ASSUME Writing, Truth, Read
  PROVE  Truth'
<1> DEFINE m == Head(inbox)
<1> USE DEF Writing, TypeOK, ExecutorTypeOK
<1>1. /\ m.id \in Calls /\ m.kind \in Answers \cup {"notification"}
      /\ m.kind \in Answers => op[m.id] = VerdictOf(m.kind)
  <2>1. m = inbox[1] /\ 1 \in 1 .. Len(inbox) /\ m \in Inbound
    BY DEF Read
  <2> QED
    BY <2>1 DEF Inbound, Truth, InboxIsTrue
<1>2. UNCHANGED << op, pc, cause >> /\ inbox' = Tail(inbox) /\ inbox # << >>
  BY DEF Read
<1>3. InboxIsTrue'
  <2>1. /\ Len(inbox') = Len(inbox) - 1
        /\ \A i \in 1 .. Len(inbox') : inbox'[i] = inbox[i + 1] /\ i + 1 \in 1 .. Len(inbox)
    BY <1>2
  <2> QED
    BY <1>2, <2>1 DEF Truth, InboxIsTrue
<1>4. ArrivedIsTrue'
  <2>1. UNCHANGED arrived \/ Broadcast(m)
    BY Zenon DEF Read
  <2> SUFFICES ASSUME NEW d \in Calls, NEW kind \in arrived'[d], kind \notin arrived[d]
               PROVE  op[d] = VerdictOf(kind)
    BY <1>2 DEF Truth, ArrivedIsTrue
  <2>2. arrived' = [e \in Calls |-> IF Receives(e, m) THEN arrived[e] \cup {m.kind}
                                                      ELSE arrived[e]]
        /\ m.kind # "notification"
    BY <2>1, Zenon DEF Broadcast
  <2>3. Receives(d, m) /\ kind = m.kind
    BY <2>2, Zenon
  <2> QED
    BY <1>1, <2>2, <2>3 DEF Receives
<1> QED
  BY <1>2, <1>3, <1>4 DEF Truth, CauseIsTrue

\* A message that is true when it is sent stays so on its way.
LEMMA SentIsTrue ==
  ASSUME TypeOK, InboxIsTrue, \A d \in Calls : op[d] \in Verdicts => op'[d] = op[d],
         NEW m \in Inbound, inbox' = Append(inbox, m),
         m.kind \in Answers => op'[m.id] = VerdictOf(m.kind)
  PROVE  InboxIsTrue'
<1>1. inbox \in Seq(Inbound)
  BY DEF TypeOK, ExecutorTypeOK
<1>2. Len(inbox) \in Nat /\ Len(inbox') = Len(inbox) + 1
  BY <1>1
<1> SUFFICES ASSUME NEW i \in 1 .. Len(inbox'), inbox'[i].kind \in Answers
             PROVE  op'[inbox'[i].id] = VerdictOf(inbox'[i].kind)
  BY DEF InboxIsTrue
<1>3. CASE i = Len(inbox) + 1
  <2>1. inbox'[i] = m
    BY <1>1, <1>3
  <2> QED
    BY <2>1
<1>4. CASE i # Len(inbox) + 1
  <2>1. i \in 1 .. Len(inbox)
    BY <1>2, <1>4
  <2>2. inbox'[i] = inbox[i] /\ inbox[i] \in Inbound
    BY <1>1, <2>1
  <2>3. inbox[i].id \in Calls
    BY <2>2 DEF Inbound
  <2> QED
    BY <2>1, <2>2, <2>3, VerdictOfIsVerdict DEF InboxIsTrue
<1> QED
  BY <1>3, <1>4

\* The robot sends the answer that it has decided.
LEMMA RobotIsTrue ==
  ASSUME Writing, Truth, NEW c \in Calls, Robot(c),
         \A d \in Calls : op[d] \in Verdicts => op'[d] = op[d]
  PROVE  Truth'
<1> USE DEF Writing, TypeOK, TransportTypeOK, ExecutorTypeOK
<1>1. UNCHANGED << pc, cause, arrived >>
  <2>1. RobotNotifies(c) => UNCHANGED robotOnly
    BY Zenon DEF RobotNotifies
  <2> QED
    BY <2>1 DEF Robot, RobotEnds, robotOnly
<1>2. \E m \in Inbound : /\ inbox' = Append(inbox, m)
                         /\ m.kind \in Answers => op'[m.id] = VerdictOf(m.kind)
  <2>1. CASE RobotNotifies(c)
    <3>1. inbox' = Append(inbox, [id |-> c, kind |-> "notification", n |-> sent[c] + 1])
      BY <2>1, Zenon DEF RobotNotifies
    <3>2. [id |-> c, kind |-> "notification", n |-> sent[c] + 1] \in Inbound
      BY DEF Inbound
    <3> QED
      BY <3>1, <3>2 DEF Answers
  <2>2. ASSUME NEW kind \in Answers, RobotEnds(c, VerdictOf(kind), kind)
        PROVE  \E m \in Inbound : /\ inbox' = Append(inbox, m)
                                  /\ m.kind \in Answers => op'[m.id] = VerdictOf(m.kind)
    <3>1. /\ inbox' = Append(inbox, [id |-> c, kind |-> kind, n |-> 0])
          /\ op' = [op EXCEPT ![c] = VerdictOf(kind)]
      BY <2>2 DEF RobotEnds
    <3>2. [id |-> c, kind |-> kind, n |-> 0] \in Inbound
      BY DEF Inbound
    <3> QED
      BY <3>1, <3>2
  <2> QED
    BY <2>1, <2>2 DEF Robot, Answers, VerdictOf
<1>3. InboxIsTrue'
  BY <1>2, SentIsTrue DEF Truth
<1>4. ArrivedIsTrue'
  BY <1>1, ArrivedStaysTrue DEF Truth
<1> QED
  BY <1>1, <1>3, <1>4 DEF Truth, CauseIsTrue, Verdicts

LEMMA TruthStep ==
  ASSUME Writing, Truth, [Next]_vars
  PROVE  Truth'
<1>1. CASE UNCHANGED vars
  BY <1>1 DEF vars, transportVars, executorVars, Truth, InboxIsTrue, ArrivedIsTrue, CauseIsTrue
<1> QED
  BY <1>1, WritingStep, ProgramIsTrue, WaiterIsTrue, ReadIsTrue, RobotIsTrue DEF Next, ExecutorNext

-----------------------------------------------------------------------------
(* The refinement.                                                         *)

Status == [c \in Calls |-> StatusOf(c)]
Verdict == [c \in Calls |-> IF op[c] \in Verdicts THEN op[c] ELSE "none"]

\* What a call's task does to the call's status, and with what right.
LEMMA ProgramOutcome ==
  ASSUME Writing, Truth, NEW c \in Calls, Program(c)
  PROVE  /\ \A d \in Calls : d # c => outcome'[d] = outcome[d]
         /\ pc[c] # "done"
         /\ pc[c] = "idle" =>
              \/ pc'[c] \in {"writing", "open"}
              \/ pc'[c] = "done" /\ outcome'[c] = "raised"
         /\ pc[c] # "idle" => pc'[c] # "idle"
         /\ pc'[c] = "done" =>
              \/ outcome'[c] \in {"cancelled", "raised"}
              \/ outcome'[c] = "error" /\ op[c] = "errored"
              \/ outcome'[c] = "ok" /\ (c \in Watches \/ op[c] = "answered")
<1> USE DEF Writing, TypeOK, ExecutorTypeOK, Goto, End, endVars
<1>1. CASE Begin(c)
  <2>1. /\ pc[c] = "idle" /\ UNCHANGED outcome
        /\ pc' = [pc EXCEPT ![c] = IF Written(c) THEN "open" ELSE "writing"]
    BY <1>1, Zenon DEF Begin, Goto, endVars
  <2> QED
    BY <2>1
<1>2. CASE ContinueWrite(c)
  BY <1>2 DEF ContinueWrite
<1>3. CASE CancelledWriting(c) \/ WriteRaises(c) \/ BeginFails(c)
  BY <1>3 DEF CancelledWriting, WriteRaises, BeginFails
<1>4. CASE ReadNotification(c) \/ TakeResponse(c) \/ LeaveWatch(c) \/ BodyRaises(c)
  BY <1>4 DEF ReadNotification, TakeResponse, LeaveWatch, BodyRaises
<1>5. CASE CancelQuery(c) \/ CancelTask(c) \/ AbortGroup(c) \/ CancelClosing(c)
  BY <1>5 DEF CancelQuery, CancelTask, AbortGroup, CancelClosing
<1>6. CASE Close(c)
  <2>1. CASE SendCancellation(c)
    BY <1>6, <2>1 DEF Close, SendCancellation
  <2>2. CASE ~SendCancellation(c)
    BY <1>6, <2>2 DEF Close, Truth, CauseIsTrue, Causes
  <2> QED
    BY <2>1, <2>2
<1> QED
  BY <1>1, <1>2, <1>3, <1>4, <1>5, <1>6 DEF Program

LEMMA AbstractInit == Init => Abstract!Init
<1> SUFFICES ASSUME Init PROVE Abstract!Init
  OBVIOUS
<1> QED
  BY DEF Init, TransportInit, ExecutorInit, Abstract!Init, StatusOf, Verdicts

\* A call whose place and result stay has the same status.
LEMMA StatusStays ==
  ASSUME NEW c \in Calls, pc'[c] = pc[c], outcome'[c] = outcome[c]
  PROVE  StatusOf(c)' = StatusOf(c)
BY DEF StatusOf

LEMMA ProgramRefines ==
  ASSUME Writing, Truth, TypeOK', NEW c \in Calls, Program(c)
  PROVE  UNCHANGED << Status, Verdict >> \/ Abstract!Next
<1>1. UNCHANGED Verdict
  <2>1. \A d \in Calls : op'[d] = op[d] \/ (op[d] \notin Verdicts /\ op'[d] \notin Verdicts)
    BY ProgramIsStep DEF Step
  <2> QED
    BY <2>1 DEF Verdict
<1>2. \A d \in Calls : d # c => StatusOf(d)' = StatusOf(d)
  BY ProgramIsStep, ProgramOutcome, StatusStays DEF Step
<1>3. Status' = [Status EXCEPT ![c] = StatusOf(c)'] /\ Status[c] = StatusOf(c)
  BY <1>2 DEF Status
<1>4. pc[c] \in Pcs /\ pc'[c] \in Pcs
  BY DEF Writing, TypeOK, ExecutorTypeOK
<1>5. CASE pc[c] = "idle"
  <2>1. StatusOf(c) = "idle" /\ StatusOf(c)' \in {"pending", "raised"}
    BY <1>5, ProgramOutcome DEF StatusOf
  <2>2. \E s \in {"pending", "raised"} : Abstract!Submit(c, s)
    BY <1>1, <1>3, <2>1 DEF Abstract!Submit, Status, Verdict
  <2> QED
    BY <2>2 DEF Abstract!Next
<1>6. CASE pc[c] # "idle" /\ pc'[c] # "done"
  <2>1. StatusOf(c) = "pending" /\ StatusOf(c)' = "pending"
    BY <1>4, <1>6, ProgramOutcome DEF StatusOf, Pcs
  <2> QED
    BY <1>1, <1>2, <2>1 DEF Status
<1>7. CASE pc[c] # "idle" /\ pc'[c] = "done"
  <2>1. StatusOf(c) = "pending"
    BY <1>4, <1>7, ProgramOutcome DEF StatusOf, Pcs
  <2>2. /\ StatusOf(c)' \in {"returned", "left", "failed", "cancelled", "raised"}
        /\ StatusOf(c)' = "returned" => op[c] = "answered"
        /\ StatusOf(c)' = "failed" => op[c] = "errored"
    BY <1>7, ProgramOutcome DEF StatusOf
  <2>3. \E s \in {"returned", "left", "failed", "cancelled", "raised"} : Abstract!End(c, s)
    <3>1. PICK s \in {"returned", "left", "failed", "cancelled", "raised"} : s = StatusOf(c)'
      BY <2>2
    <3>2. Abstract!End(c, s)
      BY <1>1, <1>3, <2>1, <2>2, <3>1 DEF Abstract!End, Status, Verdict, Verdicts
    <3> QED
      BY <3>2
  <2> QED
    BY <2>3 DEF Abstract!Next
<1> QED
  BY <1>5, <1>6, <1>7

LEMMA RobotRefines ==
  ASSUME Writing, DoneHasOutcome, NEW c \in Calls, Robot(c)
  PROVE  UNCHANGED << Status, Verdict >> \/ Abstract!Next
<1>1. UNCHANGED << pc, outcome >>
  <2>1. RobotNotifies(c) => UNCHANGED robotOnly
    BY Zenon DEF RobotNotifies
  <2> QED
    BY <2>1 DEF Robot, RobotEnds, robotOnly
<1>2. UNCHANGED Status
  BY <1>1 DEF Status, StatusOf
<1>3. CASE RobotNotifies(c)
  <2>1. UNCHANGED op
    BY <1>3, Zenon DEF RobotNotifies
  <2> QED
    BY <1>2, <2>1 DEF Verdict
<1>4. ASSUME NEW v \in Verdicts, op[c] = "running", op' = [op EXCEPT ![c] = v]
      PROVE  Abstract!Next
  <2>1. pc[c] # "idle"
    BY <1>4 DEF Writing, UnsentIsAbsent
  <2>2. Status[c] # "idle" /\ Verdict[c] = "none"
    <3>1. /\ pc[c] \in Pcs /\ outcome[c] \in Outcomes
          /\ pc[c] = "done" => outcome[c] # "none"
      BY DEF Writing, TypeOK, ExecutorTypeOK, DoneHasOutcome
    <3>2. StatusOf(c) # "idle"
      BY <2>1, <3>1 DEF StatusOf, Pcs, Outcomes
    <3> QED
      BY <1>4, <3>2 DEF Status, Verdict, Verdicts
  <2>3. Verdict' = [Verdict EXCEPT ![c] = v]
    BY <1>4 DEF Verdict, Writing, TypeOK, TransportTypeOK
  <2>4. Abstract!Decide(c, v)
    BY <1>2, <2>2, <2>3 DEF Abstract!Decide, Status, Verdict
  <2> QED
    BY <2>4 DEF Abstract!Next, Verdicts
<1> QED
  BY <1>3, <1>4 DEF Robot, RobotEnds, Verdicts

IInv == Writing /\ Truth /\ DoneHasOutcome

LEMMA IInvInit == Init => IInv
<1> SUFFICES ASSUME Init PROVE IInv
  OBVIOUS
<1> QED
  BY WritingInit, TruthInit DEF Init, ExecutorInit, IInv, DoneHasOutcome

\* The steps that leave the calls' status and the robot alone, and the others.
LEMMA StepCases ==
  ASSUME [Next]_vars
  PROVE  \/ \E c \in Calls : Program(c) \/ Robot(c)
         \/ UNCHANGED << pc, outcome, op >>
<1>1. ASSUME NEW c \in Calls, AwaitCancellation(c) \/ AwaitError(c)
      PROVE  UNCHANGED << pc, outcome, op >>
  BY <1>1 DEF AwaitCancellation, AwaitError, Waiter, transportVars
<1>2. Read => UNCHANGED << pc, outcome, op >>
  BY DEF Read
<1>3. UNCHANGED vars => UNCHANGED << pc, outcome, op >>
  BY DEF vars, transportVars, executorVars
<1> QED
  BY <1>1, <1>2, <1>3 DEF Next, ExecutorNext

LEMMA IInvStep ==
  ASSUME IInv, [Next]_vars
  PROVE  IInv'
<1>1. Writing' /\ Truth'
  BY WritingStep, TruthStep DEF IInv
<1>2. ASSUME NEW c \in Calls, Program(c)
      PROVE  DoneHasOutcome'
  <2>1. \A d \in Calls : d # c => outcome'[d] = outcome[d] /\ pc'[d] = pc[d]
    BY <1>2, ProgramOutcome, ProgramIsStep DEF IInv, Step
  <2>2. pc'[c] = "done" => outcome'[c] # "none"
    BY <1>2, ProgramOutcome DEF IInv
  <2> QED
    BY <2>1, <2>2 DEF IInv, DoneHasOutcome
<1>3. ASSUME NEW c \in Calls, Robot(c)
      PROVE  UNCHANGED << pc, outcome >>
  <2>1. RobotNotifies(c) => UNCHANGED robotOnly
    BY Zenon DEF RobotNotifies
  <2> QED
    BY <1>3, <2>1 DEF Robot, RobotEnds, robotOnly
<1>4. UNCHANGED << pc, outcome >> => DoneHasOutcome'
  BY DEF IInv, DoneHasOutcome
<1> QED
  BY <1>1, <1>2, <1>3, <1>4, StepCases DEF IInv

LEMMA AbstractStep ==
  ASSUME IInv, [Next]_vars
  PROVE  [Abstract!Next]_(Abstract!vars)
<1>1. UNCHANGED << Status, Verdict >> => UNCHANGED Abstract!vars
  BY DEF Status, Verdict, Abstract!vars
<1>2. ASSUME NEW c \in Calls, Program(c)
      PROVE  UNCHANGED << Status, Verdict >> \/ Abstract!Next
  BY <1>2, ProgramRefines, IInvStep DEF IInv, Writing
<1>3. ASSUME NEW c \in Calls, Robot(c)
      PROVE  UNCHANGED << Status, Verdict >> \/ Abstract!Next
  BY <1>3, RobotRefines DEF IInv
<1>4. UNCHANGED << pc, outcome, op >> => UNCHANGED << Status, Verdict >>
  BY DEF Status, Verdict, StatusOf
<1> QED
  BY <1>1, <1>2, <1>3, <1>4, StepCases

\* execute() implements RpcPromise: a call ends at most once, and returns a result
\* or raises a JsonRpcError only when the robot has decided so.
THEOREM PromiseHolds == Spec => Promise
<1>1. IInv /\ [Next]_vars => IInv'
  BY IInvStep
<1>2. IInv /\ [Next]_vars => [Abstract!Next]_(Abstract!vars)
  BY AbstractStep
<1> QED
  BY IInvInit, AbstractInit, <1>1, <1>2, PTL DEF Spec, Promise, Abstract!Spec

-----------------------------------------------------------------------------
(* Cancelled requests are stopped.                                         *)

\* A cancellation message whose last chunk is out has stopped the robot.
LastChunkStops ==
  \A c \in Calls :
    pc[c] = "cancelling" /\ stage[c] = "last" => torn \/ op[c] # "running"

\* Only what has ended has a result.
OutcomeMeansDone == \A c \in Calls : outcome[c] # "none" => pc[c] = "done"

Stops == LastChunkStops /\ OutcomeMeansDone /\ CancelStopsRobot

LEMMA DeliveredStops ==
  ASSUME TypeOK, NEW c \in Calls, Deliver(Cancellation(c))
  PROVE  torn \/ op'[c] # "running"
BY DEF TypeOK, TransportTypeOK, Deliver, Cancellation

\* What is on the characteristic and what was asked of a task stay.
LEMMA TornStays ==
  ASSUME TypeOK, NEW c \in Calls, Program(c)
  PROVE  /\ torn => torn'
         /\ \A d \in Calls : recancel[d] => recancel'[d]
<1> USE DEF TypeOK, TransportTypeOK, ExecutorTypeOK, transportVars
<1>1. CASE Begin(c)
  <2>1. StartWrite(c, Request(c)) /\ UNCHANGED recancel
    BY <1>1, Zenon DEF Begin
  <2> QED
    BY <2>1 DEF StartWrite, FirstChunk
<1>2. CASE ContinueWrite(c)
  BY <1>2 DEF ContinueWrite, TakeLock, LastChunk, FinishWrite, FirstChunk
<1>3. CASE CancelledWriting(c) \/ WriteRaises(c) \/ BeginFails(c)
  BY <1>3 DEF CancelledWriting, AbortWrite, WriteRaises, BreakWrite, BeginFails, FailedWrite
<1>4. CASE ReadNotification(c) \/ TakeResponse(c) \/ LeaveWatch(c) \/ BodyRaises(c)
  BY <1>4 DEF ReadNotification, TakeResponse, LeaveWatch, BodyRaises
<1>5. CASE CancelQuery(c) \/ CancelTask(c) \/ AbortGroup(c) \/ CancelClosing(c)
  BY <1>5 DEF CancelQuery, CancelTask, AbortGroup, CancelClosing
<1>6. CASE Close(c)
  BY <1>6 DEF Close, SendCancellation, StartWrite, FirstChunk, InterruptedWrite, FailedWrite
<1> QED
  BY <1>1, <1>2, <1>3, <1>4, <1>5, <1>6 DEF Program

\* The call that moves stops its request, or has an excuse.
StopsItself(c) ==
  /\ pc'[c] = "cancelling" /\ stage'[c] = "last" => torn' \/ op'[c] # "running"
  /\ outcome'[c] # "none" => pc'[c] = "done"
  /\ outcome'[c] = "cancelled" /\ ~recancel'[c] /\ ~torn' => op'[c] # "running"

LEMMA ContinueWriteStops ==
  ASSUME IInv, Stops, NEW c \in Calls, ContinueWrite(c)
  PROVE  StopsItself(c)
<1> USE DEF IInv, Writing, TypeOK, TransportTypeOK, ExecutorTypeOK, Stops
<1>1. outcome[c] = "none" /\ pc[c] \in {"writing", "cancelling"}
  BY DEF ContinueWrite, OutcomeMeansDone
<1>2. CASE pc[c] = "writing"
  BY <1>1, <1>2 DEF ContinueWrite, Goto, endVars, StopsItself
<1>3. CASE pc[c] = "cancelling"
  <2>1. TakeLock(c, Cancellation(c)) \/ LastChunk(c, Cancellation(c)) \/ FinishWrite(c)
    BY <1>3 DEF ContinueWrite
  <2>2. CASE FinishWrite(c)
    BY <1>3, <2>2 DEF FinishWrite, SetStage, ContinueWrite, Written, End, Goto,
                      LastChunkStops, StopsItself
  <2>3. CASE ~FinishWrite(c)
    <3>1. stage'[c] # "sent" /\ (stage'[c] = "last" => Deliver(Cancellation(c))) /\ UNCHANGED torn
      BY <2>1, <2>3 DEF TakeLock, FirstChunk, LastChunk, SetStage
    <3> QED
      BY <1>1, <1>3, <3>1, DeliveredStops DEF ContinueWrite, Written, endVars, StopsItself
  <2> QED
    BY <2>2, <2>3
<1> QED
  BY <1>1, <1>2, <1>3

LEMMA CloseStops ==
  ASSUME IInv, Stops, NEW c \in Calls, Close(c)
  PROVE  StopsItself(c)
<1> USE DEF IInv, Writing, TypeOK, TransportTypeOK, ExecutorTypeOK, Stops
<1>1. outcome[c] = "none" /\ pc[c] = "aborted" /\ UNCHANGED recancel
  BY DEF Close, OutcomeMeansDone
<1>2. CASE SendCancellation(c) /\ ~recancel[c] /\ ~(FailedWrite /\ End(c, "raised"))
  <2>1. StartWrite(c, Cancellation(c))
    BY <1>2 DEF SendCancellation
  <2>2. stage'[c] \in {"sent", "last"} => Deliver(Cancellation(c)) /\ UNCHANGED torn
    BY <2>1 DEF StartWrite, FirstChunk, SetStage
  <2>3. CASE Written(c)
    BY <1>2, <2>2, <2>3, DeliveredStops DEF SendCancellation, Written, End, Goto, StopsItself
  <2>4. CASE ~Written(c)
    BY <1>1, <1>2, <2>2, <2>4, DeliveredStops DEF SendCancellation, Goto, endVars, StopsItself
  <2> QED
    BY <2>3, <2>4
<1>3. CASE SendCancellation(c) /\ (recancel[c] \/ (FailedWrite /\ End(c, "raised")))
  BY <1>1, <1>3 DEF SendCancellation, FailedWrite, End, Goto, StopsItself
<1>4. CASE ~SendCancellation(c)
  BY <1>4 DEF Close, End, Goto, StopsItself, Truth, CauseIsTrue, Causes
<1> QED
  BY <1>2, <1>3, <1>4

LEMMA ProgramStops ==
  ASSUME IInv, Stops, NEW c \in Calls, Program(c)
  PROVE  StopsItself(c)
<1> USE DEF IInv, Writing, TypeOK, TransportTypeOK, ExecutorTypeOK, Stops, OutcomeMeansDone
<1>1. CASE Begin(c)
  <2>1. /\ pc[c] = "idle" /\ UNCHANGED outcome
        /\ pc' = [pc EXCEPT ![c] = IF Written(c) THEN "open" ELSE "writing"]
    BY <1>1, Zenon DEF Begin, Goto, endVars
  <2> QED
    BY <2>1 DEF StopsItself
<1>2. CASE CancelledWriting(c) \/ WriteRaises(c) \/ BeginFails(c) \/ CancelClosing(c)
  BY <1>2 DEF CancelledWriting, WriteRaises, BeginFails, CancelClosing, End, Goto, endVars, StopsItself
<1>3. CASE ReadNotification(c) \/ TakeResponse(c) \/ LeaveWatch(c) \/ BodyRaises(c)
  BY <1>3 DEF ReadNotification, TakeResponse, LeaveWatch, BodyRaises, Goto, endVars, StopsItself
<1>4. CASE CancelQuery(c) \/ CancelTask(c) \/ AbortGroup(c)
  BY <1>4 DEF CancelQuery, CancelTask, AbortGroup, Goto, endVars, StopsItself
<1> QED
  BY <1>1, <1>2, <1>3, <1>4, ContinueWriteStops, CloseStops DEF Program

LEMMA StopsStep ==
  ASSUME IInv, Stops, [Next]_vars
  PROVE  Stops'
<1>1. ASSUME NEW c \in Calls, Program(c)
      PROVE  Stops'
  <2>1. StopsItself(c)
    BY <1>1, ProgramStops
  <2>2. \A d \in Calls : d # c =>
          op'[d] = op[d] /\ pc'[d] = pc[d] /\ stage'[d] = stage[d] /\ outcome'[d] = outcome[d]
    BY <1>1, ProgramIsStep, ProgramOutcome DEF IInv, Step
  <2>3. (torn => torn') /\ \A d \in Calls : recancel[d] => recancel'[d]
    BY <1>1, TornStays DEF IInv, Writing
  <2> QED
    BY <2>1, <2>2, <2>3
       DEF StopsItself, Stops, LastChunkStops, OutcomeMeansDone, CancelStopsRobot
<1>2. ASSUME NEW c \in Calls, Robot(c)
      PROVE  /\ UNCHANGED << pc, outcome, stage, torn, recancel >>
             /\ \A d \in Calls : op'[d] = "running" => op[d] = "running"
  <2>1. RobotNotifies(c) => UNCHANGED << robotOnly, op >>
    BY Zenon DEF RobotNotifies
  <2> QED
    BY <1>2, <2>1 DEF Robot, RobotEnds, robotOnly, IInv, Writing, TypeOK, TransportTypeOK
<1>3. ASSUME NEW c \in Calls, AwaitCancellation(c) \/ AwaitError(c)
      PROVE  UNCHANGED << pc, outcome, stage, torn, recancel, op >>
  BY <1>3 DEF AwaitCancellation, AwaitError, Waiter, transportVars
<1>4. Read => UNCHANGED << pc, outcome, stage, torn, recancel, op >>
  BY DEF Read
<1>5. UNCHANGED vars => UNCHANGED << pc, outcome, stage, torn, recancel, op >>
  BY DEF vars, transportVars, executorVars
<1>6. ASSUME UNCHANGED << pc, outcome, stage, torn, recancel >>,
             \A d \in Calls : op'[d] = "running" => op[d] = "running"
      PROVE  Stops'
  BY <1>6 DEF Stops, LastChunkStops, OutcomeMeansDone, CancelStopsRobot
<1> QED
  BY <1>1, <1>2, <1>3, <1>4, <1>5, <1>6 DEF Next, ExecutorNext

\* A request the program gives up is stopped at the robot once execute() has ended,
\* unless the task was cancelled from outside or a torn frame has cut it off.
THEOREM CancelStopsRobotHolds == Spec => []CancelStopsRobot
<1>1. Init => Stops
  BY DEF Init, ExecutorInit, Stops, LastChunkStops, OutcomeMeansDone, CancelStopsRobot
<1>2. IInv /\ [Next]_vars => IInv'
  BY IInvStep
<1>3. IInv /\ Stops /\ [Next]_vars => Stops'
  BY StopsStep
<1>4. Stops => CancelStopsRobot
  BY DEF Stops
<1> QED
  BY IInvInit, <1>1, <1>2, <1>3, <1>4, PTL DEF Spec

-----------------------------------------------------------------------------
(* The inbox.                                                              *)

IsAnswerTo(m, c) == m.id = c /\ m.kind \in Answers

\* Reading takes the first message, the others move up.
LEMMA TakenFromInbox ==
  ASSUME TypeOK, inbox # << >>, inbox' = Tail(inbox)
  PROVE  /\ 1 \in DOMAIN inbox /\ Head(inbox) = inbox[1] /\ inbox[1] \in Inbound
         /\ \A i \in DOMAIN inbox' : i \in Nat /\ i + 1 \in DOMAIN inbox /\ inbox'[i] = inbox[i + 1]
         /\ \A i \in DOMAIN inbox : i \in Nat /\ (i # 1 => i - 1 \in DOMAIN inbox')
<1>1. inbox \in Seq(Inbound) /\ Len(inbox) \in Nat /\ Len(inbox) > 0
  BY DEF TypeOK, ExecutorTypeOK
<1>2. /\ Len(inbox') = Len(inbox) - 1 /\ DOMAIN inbox' = 1 .. Len(inbox')
      /\ DOMAIN inbox = 1 .. Len(inbox)
      /\ \A i \in 1 .. Len(inbox) - 1 : inbox'[i] = inbox[i + 1]
  BY <1>1
<1> QED
  BY <1>1, <1>2

\* Sending puts a message behind those on their way.
LEMMA AddedToInbox ==
  ASSUME TypeOK, NEW m \in Inbound, inbox' = Append(inbox, m)
  PROVE  /\ Len(inbox) + 1 \in DOMAIN inbox' /\ inbox'[Len(inbox) + 1] = m
         /\ \A i \in DOMAIN inbox : /\ i \in Nat /\ i < Len(inbox) + 1
                                    /\ i \in DOMAIN inbox' /\ inbox'[i] = inbox[i]
         /\ \A i \in DOMAIN inbox' : i \in DOMAIN inbox \/ i = Len(inbox) + 1
<1>1. inbox \in Seq(Inbound) /\ Len(inbox) \in Nat
  BY DEF TypeOK, ExecutorTypeOK
<1>2. /\ Len(inbox') = Len(inbox) + 1 /\ DOMAIN inbox' = 1 .. Len(inbox')
      /\ DOMAIN inbox = 1 .. Len(inbox)
      /\ \A i \in 1 .. Len(inbox) : inbox'[i] = inbox[i]
      /\ inbox'[Len(inbox) + 1] = m
  BY <1>1
<1> QED
  BY <1>1, <1>2

\* A request is answered once.
OneAnswer ==
  \A i, j \in DOMAIN inbox :
    /\ inbox[i].kind \in Answers /\ inbox[j].kind \in Answers
    /\ inbox[i].id = inbox[j].id
    => i = j

LEMMA AnswersAfterRead ==
  ASSUME TypeOK, OneAnswer, inbox # << >>, inbox' = Tail(inbox), NEW c \in Calls
  PROVE  /\ OneAnswer'
         /\ IsAnswerTo(Head(inbox), c) => AnswerInFlight(c) /\ ~AnswerInFlight(c)'
         /\ ~IsAnswerTo(Head(inbox), c) => (AnswerInFlight(c)' <=> AnswerInFlight(c))
<1>1. OneAnswer'
  BY TakenFromInbox DEF OneAnswer
<1>2. CASE IsAnswerTo(Head(inbox), c)
  <2>1. AnswerInFlight(c)
    BY <1>2, TakenFromInbox DEF IsAnswerTo, AnswerInFlight, InFlight
  <2>2. ASSUME NEW i \in DOMAIN inbox', IsAnswerTo(inbox'[i], c)
        PROVE  FALSE
    BY <1>2, <2>2, TakenFromInbox DEF IsAnswerTo, OneAnswer
  <2> QED
    BY <1>1, <1>2, <2>1, <2>2 DEF IsAnswerTo, AnswerInFlight, InFlight
<1>3. CASE ~IsAnswerTo(Head(inbox), c)
  BY <1>1, <1>3, TakenFromInbox DEF IsAnswerTo, AnswerInFlight, InFlight
<1> QED
  BY <1>2, <1>3

LEMMA AnswersAfterSend ==
  ASSUME TypeOK, NEW m \in Inbound, inbox' = Append(inbox, m), NEW c \in Calls
  PROVE  AnswerInFlight(c)' <=> AnswerInFlight(c) \/ IsAnswerTo(m, c)
BY AddedToInbox DEF IsAnswerTo, AnswerInFlight, InFlight

-----------------------------------------------------------------------------
(* Answers.                                                                *)

\* Over WebRTC no call is ever suspended in a write.
NeverSuspended ==
  transport = "webrtc" => \A c \in Calls : pc[c] \notin {"writing", "cancelling"}

Tracking ==
  /\ OneAnswer
  /\ NeverSuspended
  /\ ContextTracksUnanswered
  /\ AnswerNotLost

LEMMA TrackingInit == Init => Tracking
BY DEF Init, TransportInit, ExecutorInit, Tracking, OneAnswer, NeverSuspended,
       ContextTracksUnanswered, AnswerNotLost

\* What a step of a call's own task does to the call's entry and cause.
Course(c) ==
  /\ UNCHANGED << transport, inbox >>
  /\ \A d \in Calls : d # c =>
       /\ d \in context' <=> d \in context
       /\ cause'[d] = cause[d] /\ arrived'[d] = arrived[d]
  /\ pc[c] = "idle" => c \in context'
  /\ pc[c] # "idle" /\ c \in context' => c \in context
  /\ c \in context /\ c \notin context' => cause'[c] = "client"
  /\ cause[c] # "none" => cause'[c] = cause[c]
  /\ pc'[c] = "open" => pc[c] \in {"idle", "writing", "open"}
  /\ pc[c] = "open" /\ pc'[c] = "open" => arrived'[c] = arrived[c]
  /\ transport = "webrtc" => pc'[c] \notin {"writing", "cancelling"}

LEMMA WriteCourse ==
  ASSUME TypeOK, NeverSuspended, NEW c \in Calls,
         \/ Begin(c) \/ BeginFails(c)
         \/ ContinueWrite(c) \/ CancelledWriting(c) \/ WriteRaises(c)
  PROVE  Course(c)
<1> USE DEF TypeOK, TransportTypeOK, ExecutorTypeOK, NeverSuspended
<1>1. CASE Begin(c)
  <2>1. /\ pc[c] = "idle" /\ StartWrite(c, Request(c)) /\ context' = context \cup {c}
        /\ pc' = [pc EXCEPT ![c] = IF stage'[c] = "sent" THEN "open" ELSE "writing"]
        /\ UNCHANGED << transport, inbox, cause, arrived >>
    BY <1>1, Zenon DEF Begin, Goto, Written, endVars
  <2>2. transport = "webrtc" => stage'[c] = "sent"
    BY <2>1 DEF StartWrite, SetStage
  <2> QED
    BY <2>1, <2>2 DEF Course
<1>2. CASE ContinueWrite(c)
  BY <1>2 DEF ContinueWrite, Goto, End, endVars, Course
<1>3. CASE CancelledWriting(c) \/ WriteRaises(c) \/ BeginFails(c)
  BY <1>3 DEF CancelledWriting, WriteRaises, BeginFails, Goto, End, endVars, Course
<1> QED
  BY <1>1, <1>2, <1>3

LEMMA ProgramCourse ==
  ASSUME TypeOK, NeverSuspended, NEW c \in Calls, Program(c)
  PROVE  Course(c)
<1> USE DEF TypeOK, TransportTypeOK, ExecutorTypeOK, NeverSuspended, FirstCause, Goto, End,
            endVars, transportVars, Course
<1>1. CASE ReadNotification(c) \/ TakeResponse(c) \/ LeaveWatch(c) \/ BodyRaises(c)
  BY <1>1 DEF ReadNotification, TakeResponse, LeaveWatch, BodyRaises
<1>2. CASE CancelQuery(c) \/ CancelTask(c) \/ AbortGroup(c) \/ CancelClosing(c)
  BY <1>2 DEF CancelQuery, CancelTask, AbortGroup, CancelClosing
<1>3. CASE Close(c)
  <2>1. pc[c] = "aborted" /\ UNCHANGED << transport, cause, inbox >>
    BY <1>3 DEF Close
  <2>2. CASE SendCancellation(c) /\ ~recancel[c] /\ ~(FailedWrite /\ End(c, "raised"))
    <3>1. /\ StartWrite(c, Cancellation(c)) /\ context' = context \ {c} /\ cause[c] = "client"
          /\ \/ stage'[c] = "sent" /\ End(c, "cancelled")
             \/ stage'[c] # "sent" /\ Goto(c, "cancelling") /\ UNCHANGED endVars
      BY <2>2 DEF SendCancellation, Written
    <3>2. transport = "webrtc" => stage'[c] = "sent"
      BY <3>1 DEF StartWrite, SetStage
    <3> QED
      BY <2>1, <3>1, <3>2
  <2>3. CASE SendCancellation(c) /\ (recancel[c] \/ (FailedWrite /\ End(c, "raised")))
    BY <2>1, <2>3 DEF SendCancellation
  <2>4. CASE ~SendCancellation(c)
    BY <1>3, <2>1, <2>4 DEF Close
  <2> QED
    BY <2>2, <2>3, <2>4
<1> QED
  BY <1>1, <1>2, <1>3, WriteCourse DEF Program

\* The program gives an entry up only for a client cancellation, and leaves the
\* answers where they are.
LEMMA ProgramKeepsTracking ==
  ASSUME Writing, Tracking, NEW c \in Calls, Program(c)
  PROVE  Tracking'
<1>1. Course(c) /\ Step(c)
  BY ProgramCourse, ProgramIsStep DEF Writing, Tracking
<1>2. OneAnswer' /\ \A d \in Calls : AnswerInFlight(d)' <=> AnswerInFlight(d)
  BY <1>1 DEF Course, Tracking, OneAnswer, AnswerInFlight, InFlight
<1>3. NeverSuspended'
  BY <1>1 DEF Course, Step, Tracking, NeverSuspended
<1>4. /\ \A d \in Calls : d # c => op'[d] = op[d] /\ pc'[d] = pc[d]
      /\ op[c] \in Verdicts \/ op'[c] \in Verdicts => op'[c] = op[c]
      /\ pc[c] = "idle" => op[c] \notin Verdicts
  BY <1>1 DEF Step, Writing, UnsentIsAbsent, Verdicts
<1>5. ContextTracksUnanswered'
  BY <1>1, <1>2, <1>4 DEF Course, Tracking, ContextTracksUnanswered
<1>6. AnswerNotLost'
  BY <1>1, <1>2, <1>4 DEF Course, Tracking, NeverSuspended, AnswerNotLost
<1> QED
  BY <1>2, <1>3, <1>5, <1>6 DEF Tracking

LEMMA WaiterKeepsTracking ==
  ASSUME TypeOK, Tracking, NEW c \in Calls, AwaitCancellation(c) \/ AwaitError(c)
  PROVE  Tracking'
<1>1. /\ UNCHANGED << transport, context, op, pc, inbox >>
      /\ cause'[c] # "none" /\ (cause[c] # "none" => cause'[c] = cause[c])
      /\ \A d \in Calls : d # c => cause'[d] = cause[d] /\ arrived'[d] = arrived[d]
  BY DEF AwaitCancellation, AwaitError, Waiter, FirstCause, transportVars, TypeOK, ExecutorTypeOK
<1>2. OneAnswer' /\ NeverSuspended' /\ \A d \in Calls : AnswerInFlight(d)' <=> AnswerInFlight(d)
  BY <1>1 DEF Tracking, OneAnswer, NeverSuspended, AnswerInFlight, InFlight
<1> QED
  BY <1>1, <1>2 DEF Tracking, ContextTracksUnanswered, AnswerNotLost

\* An answer that is read ends its entry, and reaches the call if it is open.
LEMMA ReadKeepsTracking ==
  ASSUME Writing, Truth, Tracking, Read
  PROVE  Tracking'
<1> DEFINE m == Head(inbox)
<1>1. /\ inbox # << >> /\ inbox' = Tail(inbox) /\ UNCHANGED << transport, op, pc, cause >>
      /\ TypeOK /\ OneAnswer /\ NeverSuspended
  BY DEF Read, Writing, Tracking
<1>2. m.id \in Calls /\ (m.kind \in Answers => op[m.id] \in Verdicts)
      /\ m.kind \in Answers \cup {"notification"}
  <2>1. m = inbox[1] /\ 1 \in 1 .. Len(inbox) /\ m \in Inbound
    BY <1>1, TakenFromInbox DEF TypeOK, ExecutorTypeOK
  <2> QED
    BY <2>1, VerdictOfIsVerdict DEF Inbound, Truth, InboxIsTrue
<1>3. /\ OneAnswer'
      /\ \A d \in Calls :
           /\ IsAnswerTo(m, d) => AnswerInFlight(d) /\ ~AnswerInFlight(d)'
           /\ ~IsAnswerTo(m, d) => (AnswerInFlight(d)' <=> AnswerInFlight(d))
  BY <1>1, <1>2, AnswersAfterRead
<1>4. \/ m.id \notin context /\ UNCHANGED << context, arrived >>
      \/ /\ m.id \in context /\ m.kind = "notification"
         /\ UNCHANGED << context, arrived >>
      \/ /\ m.id \in context /\ m.kind \in Answers
         /\ context' = context \ {m.id}
         /\ arrived' = [d \in Calls |-> IF Receives(d, m) THEN arrived[d] \cup {m.kind}
                                                           ELSE arrived[d]]
  <2>1. \/ m.id \notin context /\ UNCHANGED << context, arrived >>
        \/ m.id \in context /\ context' = ContextAfterRead(m) /\ Broadcast(m)
    BY Zenon DEF Read, ReadFails, Ignored
  <2>2. Broadcast(m) =>
          IF m.kind = "notification" THEN UNCHANGED arrived
          ELSE arrived' = [d \in Calls |-> IF Receives(d, m) THEN arrived[d] \cup {m.kind}
                                                             ELSE arrived[d]]
    BY Zenon DEF Broadcast
  <2> HIDE DEF m
  <2> QED
    BY <1>2, <2>1, <2>2 DEF ContextAfterRead
<1> HIDE DEF m
<1>5. \A d \in Calls : /\ d \in context' => d \in context /\ ~IsAnswerTo(m, d)
                       /\ d \in context /\ d \notin context' => IsAnswerTo(m, d)
  BY <1>4 DEF IsAnswerTo, Answers
<1>6. \A d \in Calls : IsAnswerTo(m, d) => op[d] \in Verdicts
  BY <1>2 DEF IsAnswerTo
<1>7. ContextTracksUnanswered'
  BY <1>1, <1>3, <1>5, <1>6 DEF Tracking, ContextTracksUnanswered
<1>8. ASSUME NEW d \in Calls, pc[d] = "open", IsAnswerTo(m, d)
      PROVE  arrived'[d] # {} \/ cause[d] # "none"
  <2>1. CASE d \in context
    BY <1>2, <1>4, <1>8, <2>1 DEF IsAnswerTo, Receives, Subscribed, Answers
  <2>2. CASE d \notin context
    BY <1>3, <1>8, <2>2 DEF Tracking, ContextTracksUnanswered
  <2> QED
    BY <2>1, <2>2
<1>9. \A d \in Calls : arrived[d] # {} => arrived'[d] # {}
  BY <1>4 DEF Writing, TypeOK, ExecutorTypeOK
<1>10. AnswerNotLost'
  BY <1>1, <1>3, <1>8, <1>9 DEF Tracking, AnswerNotLost
<1>11. NeverSuspended'
  BY <1>1 DEF NeverSuspended
<1> QED
  BY <1>3, <1>7, <1>10, <1>11 DEF Tracking

\* What a message of the robot is.
LEMMA RobotSends ==
  ASSUME TypeOK, NEW c \in Calls, Robot(c)
  PROVE  /\ UNCHANGED robotOnly /\ op[c] = "running"
         /\ \E m \in Inbound :
              /\ inbox' = Append(inbox, m) /\ m.id = c
              /\ \/ /\ m.kind = "notification" /\ m.n = sent[c] + 1
                    /\ sent' = [sent EXCEPT ![c] = @ + 1] /\ UNCHANGED op
                 \/ /\ m.kind \in Answers /\ op' = [op EXCEPT ![c] = VerdictOf(m.kind)]
                    /\ UNCHANGED sent
<1>1. CASE RobotNotifies(c)
  <2>1. /\ op[c] = "running" /\ sent' = [sent EXCEPT ![c] = @ + 1]
        /\ inbox' = Append(inbox, [id |-> c, kind |-> "notification", n |-> sent[c] + 1])
        /\ UNCHANGED << robotOnly, op >>
    BY <1>1, Zenon DEF RobotNotifies
  <2>2. [id |-> c, kind |-> "notification", n |-> sent[c] + 1] \in Inbound
    BY DEF TypeOK, Inbound
  <2> QED
    BY <2>1, <2>2
<1>2. ASSUME NEW kind \in Answers, RobotEnds(c, VerdictOf(kind), kind)
      PROVE  /\ UNCHANGED robotOnly /\ op[c] = "running"
             /\ \E m \in Inbound :
                  /\ inbox' = Append(inbox, m) /\ m.id = c /\ m.kind \in Answers
                  /\ op' = [op EXCEPT ![c] = VerdictOf(m.kind)] /\ UNCHANGED sent
  <2>1. [id |-> c, kind |-> kind, n |-> 0] \in Inbound
    BY DEF Inbound
  <2> QED
    BY <1>2, <2>1 DEF RobotEnds
<1> QED
  BY <1>1, <1>2 DEF Robot, Answers, VerdictOf

\* An answer is on its way from the moment the robot has decided.
LEMMA RobotKeepsTracking ==
  ASSUME Writing, Truth, Tracking, NEW c \in Calls, Robot(c)
  PROVE  Tracking'
<1>1. TypeOK /\ op \in [Calls -> Ops] /\ inbox \in Seq(Inbound)
  BY DEF Writing, TypeOK, TransportTypeOK, ExecutorTypeOK
<1>2. UNCHANGED << transport, context, pc, cause, arrived >> /\ op[c] = "running"
  BY <1>1, RobotSends DEF robotOnly
<1>3. PICK m \in Inbound :
        /\ inbox' = Append(inbox, m) /\ m.id = c
        /\ \/ m.kind = "notification" /\ UNCHANGED op
           \/ m.kind \in Answers /\ op' = [op EXCEPT ![c] = VerdictOf(m.kind)]
  BY <1>1, RobotSends
<1>4. \A d \in Calls : AnswerInFlight(d)' <=> AnswerInFlight(d) \/ IsAnswerTo(m, d)
  BY <1>1, <1>3, AnswersAfterSend
<1>5. \A d \in Calls : IsAnswerTo(m, d) <=> d = c /\ m.kind \in Answers
  BY <1>3 DEF IsAnswerTo
<1>6. \A d \in Calls : op'[d] \in Verdicts => op[d] \in Verdicts \/ (d = c /\ m.kind \in Answers)
  BY <1>1, <1>3
<1>7. \A d \in Calls : op[d] \in Verdicts => op'[d] = op[d] /\ d # c
  BY <1>1, <1>2, <1>3 DEF Verdicts
<1>8. OneAnswer'
  <2>1. \A i \in DOMAIN inbox : inbox[i].kind \in Answers => inbox[i].id # c
    BY <1>1, <1>2, VerdictOfIsVerdict DEF Truth, InboxIsTrue, Verdicts
  <2> QED
    BY <1>1, <1>3, <2>1, AddedToInbox DEF Tracking, OneAnswer
<1>9. NeverSuspended'
  BY <1>2 DEF Tracking, NeverSuspended
<1>10. ContextTracksUnanswered'
  BY <1>2, <1>4, <1>5, <1>6, <1>7 DEF Tracking, ContextTracksUnanswered
<1>11. AnswerNotLost'
  BY <1>2, <1>4, <1>5, <1>6 DEF Tracking, AnswerNotLost
<1> QED
  BY <1>8, <1>9, <1>10, <1>11 DEF Tracking

LEMMA TrackingStep ==
  ASSUME Writing, Truth, Tracking, [Next]_vars
  PROVE  Tracking'
<1>1. CASE UNCHANGED vars
  BY <1>1 DEF vars, transportVars, executorVars, Tracking, OneAnswer, NeverSuspended,
              ContextTracksUnanswered, AnswerNotLost, AnswerInFlight, InFlight
<1> QED
  BY <1>1, ProgramKeepsTracking, WaiterKeepsTracking, ReadKeepsTracking, RobotKeepsTracking
     DEF Writing, Next, ExecutorNext

LEMMA TrackingHolds == Spec => []Tracking
<1>1. IInv /\ [Next]_vars => IInv'
  BY IInvStep
<1>2. IInv /\ Tracking /\ [Next]_vars => Tracking'
  BY TrackingStep DEF IInv
<1> QED
  BY IInvInit, TrackingInit, <1>1, <1>2, PTL DEF Spec

\* _context forgets a request exactly when its answer is read, or when the client
\* cancels it: an entry does not end before its answer has come, nor outlive it.
THEOREM ContextTracksHolds == Spec => []ContextTracksUnanswered
<1>1. Tracking => ContextTracksUnanswered
  BY DEF Tracking
<1> QED
  BY TrackingHolds, <1>1, PTL

\* Over WebRTC an open block whose request is decided has seen the answer, or will.
THEOREM AnswerNotLostHolds == Spec => []AnswerNotLost
<1>1. Tracking => AnswerNotLost
  BY DEF Tracking
<1> QED
  BY TrackingHolds, <1>1, PTL

-----------------------------------------------------------------------------
(* Notifications.                                                          *)

Notes(c) == InFlight(c, {"notification"})

\* InFlightAfter, one message at a time.
EachInFlightAfter(c, read) ==
  /\ \A i \in Notes(c) : inbox[i].n \in read + 1 .. sent[c]
  /\ \A n \in read + 1 .. sent[c] : \E i \in Notes(c) : inbox[i].n = n
  /\ \A i, j \in Notes(c) : i < j => inbox[i].n < inbox[j].n

LEMMA InFlightAfterMeans ==
  ASSUME NEW c, NEW read
  PROVE  /\ InFlightAfter(c, read) <=> EachInFlightAfter(c, read)
         /\ InFlightAfter(c, read)' <=> EachInFlightAfter(c, read)'
BY DEF InFlightAfter, EachInFlightAfter, Notes

\* The notification that is read is the next one.
LEMMA NextIsRead ==
  ASSUME TypeOK, inbox # << >>, inbox' = Tail(inbox), UNCHANGED sent,
         NEW c \in Calls, NEW read \in 0 .. sent[c], InFlightAfter(c, read),
         Head(inbox).id = c, Head(inbox).kind = "notification"
  PROVE  /\ Head(inbox).n = read + 1 /\ read + 1 \in 0 .. sent[c]
         /\ InFlightAfter(c, read + 1)'
<1>0. /\ \A i \in Notes(c) : inbox[i].n \in read + 1 .. sent[c]
      /\ \A n \in read + 1 .. sent[c] : \E i \in Notes(c) : inbox[i].n = n
      /\ \A i, j \in Notes(c) : i < j => inbox[i].n < inbox[j].n
  BY InFlightAfterMeans DEF EachInFlightAfter
<1>1. sent[c] \in Nat
  BY DEF TypeOK
<1>2. 1 \in Notes(c) /\ Head(inbox) = inbox[1] /\ \A i \in Notes(c) : i \in Nat /\ i >= 1
  BY TakenFromInbox DEF Notes, InFlight, TypeOK, ExecutorTypeOK
<1>3. inbox[1].n \in read + 1 .. sent[c]
  BY <1>2, <1>0
<1>4. inbox[1].n = read + 1
  <2>1. PICK i \in Notes(c) : inbox[i].n = read + 1
    BY <1>1, <1>3, <1>0
  <2>2. i # 1 => inbox[1].n < inbox[i].n
    BY <1>2, <1>0
  <2> QED
    BY <1>1, <1>3, <2>1, <2>2
<1>5. \A i \in Notes(c)' : i \in Nat /\ i + 1 \in Notes(c) /\ inbox'[i] = inbox[i + 1] /\ i + 1 # 1
  BY TakenFromInbox DEF Notes, InFlight, TypeOK, ExecutorTypeOK
<1>6. \A i \in Notes(c) : i # 1 => i - 1 \in Notes(c)' /\ inbox'[i - 1] = inbox[i]
  BY TakenFromInbox DEF Notes, InFlight, TypeOK, ExecutorTypeOK
<1>7. \A i \in Notes(c)' : inbox'[i].n \in read + 2 .. sent[c]
  <2> SUFFICES ASSUME NEW i \in Notes(c)'
               PROVE  inbox'[i].n \in read + 2 .. sent[c]
    OBVIOUS
  <2>1. inbox'[i] = inbox[i + 1] /\ i \in Nat /\ i + 1 \in Notes(c)
    BY <1>5
  <2>2. 1 < i + 1
    BY <1>2, <1>5, <2>1
  <2>3. inbox[1].n < inbox[i + 1].n /\ inbox[i + 1].n \in read + 1 .. sent[c]
    BY <1>0, <1>2, <2>1, <2>2
  <2>4. \A x \in read + 1 .. sent[c] : read + 1 < x => x \in read + 2 .. sent[c]
    BY <1>1
  <2> QED
    BY <1>4, <2>1, <2>3, <2>4
<1>8. ASSUME NEW n \in read + 2 .. sent[c]
      PROVE  \E i \in Notes(c)' : inbox'[i].n = n
  <2>1. PICK i \in Notes(c) : inbox[i].n = n
    BY <1>1, <1>0
  <2>2. i # 1
    BY <1>1, <1>4, <2>1
  <2> QED
    BY <1>6, <2>1, <2>2
<1>9. ASSUME NEW i \in Notes(c)', NEW j \in Notes(c)', i < j
      PROVE  inbox'[i].n < inbox'[j].n
  <2>1. i \in Nat /\ j \in Nat /\ i + 1 < j + 1
    BY <1>5, <1>9
  <2> QED
    BY <1>0, <1>5, <2>1
<1>10. InFlightAfter(c, read + 1)'
  <2>1. (read + 1) + 1 = read + 2 /\ sent'[c] = sent[c]
    BY <1>1
  <2>2. EachInFlightAfter(c, read + 1)'
    BY <1>7, <1>8, <1>9, <2>1 DEF EachInFlightAfter
  <2> QED
    BY <2>2, InFlightAfterMeans
<1> QED
  BY <1>1, <1>2, <1>3, <1>4, <1>10

\* Reading anything else leaves a call's notifications where they are.
LEMMA OthersAreRead ==
  ASSUME TypeOK, inbox # << >>, inbox' = Tail(inbox), UNCHANGED sent,
         NEW c \in Calls, NEW read \in 0 .. sent[c], InFlightAfter(c, read),
         Head(inbox).id # c \/ Head(inbox).kind # "notification"
  PROVE  InFlightAfter(c, read)'
<1>0. /\ \A i \in Notes(c) : inbox[i].n \in read + 1 .. sent[c]
      /\ \A n \in read + 1 .. sent[c] : \E i \in Notes(c) : inbox[i].n = n
      /\ \A i, j \in Notes(c) : i < j => inbox[i].n < inbox[j].n
  BY InFlightAfterMeans DEF EachInFlightAfter
<1>1. \A i \in Notes(c)' : i \in Nat /\ i + 1 \in Notes(c) /\ inbox'[i] = inbox[i + 1]
  BY TakenFromInbox DEF Notes, InFlight, TypeOK, ExecutorTypeOK
<1>2. \A i \in Notes(c) : i \in Nat /\ i - 1 \in Notes(c)' /\ inbox'[i - 1] = inbox[i]
  BY TakenFromInbox DEF Notes, InFlight, TypeOK, ExecutorTypeOK
<1>3. \A i \in Notes(c)' : inbox'[i].n \in read + 1 .. sent[c]
  BY <1>1, <1>0
<1>4. ASSUME NEW n \in read + 1 .. sent[c]
      PROVE  \E i \in Notes(c)' : inbox'[i].n = n
  BY <1>2, <1>0
<1>5. ASSUME NEW i \in Notes(c)', NEW j \in Notes(c)', i < j
      PROVE  inbox'[i].n < inbox'[j].n
  <2>1. i \in Nat /\ j \in Nat /\ i + 1 < j + 1
    BY <1>1, <1>5
  <2> QED
    BY <1>0, <1>1, <2>1
<1> QED
  BY <1>3, <1>4, <1>5, InFlightAfterMeans DEF EachInFlightAfter

\* What the robot sends is the next notification of its request, or none.
LEMMA NextIsSent ==
  ASSUME TypeOK, NEW m \in Inbound, inbox' = Append(inbox, m), NEW c \in Calls,
         NEW read \in 0 .. sent[c], InFlightAfter(c, read),
         \/ m.id = c /\ m.kind = "notification" /\ m.n = sent[c] + 1 /\ sent'[c] = sent[c] + 1
         \/ (m.id # c \/ m.kind # "notification") /\ sent'[c] = sent[c]
  PROVE  read \in 0 .. sent'[c] /\ InFlightAfter(c, read)'
<1>0. /\ \A i \in Notes(c) : inbox[i].n \in read + 1 .. sent[c]
      /\ \A n \in read + 1 .. sent[c] : \E i \in Notes(c) : inbox[i].n = n
      /\ \A i, j \in Notes(c) : i < j => inbox[i].n < inbox[j].n
  BY InFlightAfterMeans DEF EachInFlightAfter
<1>1. sent[c] \in Nat
  BY DEF TypeOK
<1>2. /\ \A i \in Notes(c) : i \in Nat /\ i < Len(inbox) + 1 /\ i \in Notes(c)' /\ inbox'[i] = inbox[i]
      /\ \A i \in Notes(c)' : \/ i \in Notes(c)
                              \/ i = Len(inbox) + 1 /\ m.id = c /\ m.kind = "notification"
      /\ m.id = c /\ m.kind = "notification" => Len(inbox) + 1 \in Notes(c)'
      /\ inbox'[Len(inbox) + 1] = m
  BY AddedToInbox DEF Notes, InFlight
<1>3. ASSUME NEW i \in Notes(c)'
      PROVE  inbox'[i].n \in read + 1 .. sent'[c]
  <2>1. CASE i \in Notes(c)
    <3>1. \A x \in read + 1 .. sent[c] : x \in read + 1 .. sent'[c]
      BY <1>1
    <3> QED
      BY <1>0, <1>2, <2>1, <3>1
  <2>2. CASE i = Len(inbox) + 1 /\ m.id = c /\ m.kind = "notification"
    <3>1. m.n = sent[c] + 1 /\ sent'[c] = sent[c] + 1
      BY <2>2
    <3> QED
      BY <1>1, <1>2, <2>2, <3>1
  <2> QED
    BY <1>2, <2>1, <2>2
<1>4. ASSUME NEW n \in read + 1 .. sent'[c]
      PROVE  \E i \in Notes(c)' : inbox'[i].n = n
  <2>1. CASE n \in read + 1 .. sent[c]
    BY <1>2, <2>1, <1>0
  <2>2. CASE n \notin read + 1 .. sent[c]
    <3>1. m.id = c /\ m.kind = "notification" /\ n = m.n
      BY <1>1, <2>2
    <3> QED
      BY <1>2, <3>1
  <2> QED
    BY <2>1, <2>2
<1>5. ASSUME NEW i \in Notes(c)', NEW j \in Notes(c)', i < j
      PROVE  inbox'[i].n < inbox'[j].n
  <2>1. Len(inbox) \in Nat
    BY DEF TypeOK, ExecutorTypeOK
  <2>2. i \in Notes(c)
    BY <1>2, <1>5, <2>1
  <2>3. CASE j \in Notes(c)
    BY <1>2, <1>5, <2>2, <2>3, <1>0
  <2>4. CASE j = Len(inbox) + 1 /\ m.id = c /\ m.kind = "notification"
    <3>1. inbox'[i].n \in read + 1 .. sent[c]
      BY <1>0, <1>2, <2>2
    <3>2. inbox'[j].n = sent[c] + 1
      BY <1>2, <2>4
    <3>3. \A x \in read + 1 .. sent[c] : x < sent[c] + 1
      BY <1>1
    <3> QED
      BY <3>1, <3>2, <3>3
  <2> QED
    BY <1>2, <2>3, <2>4
<1>6. InFlightAfter(c, read)'
  BY <1>3, <1>4, <1>5, InFlightAfterMeans DEF EachInFlightAfter
<1> QED
  BY <1>1, <1>6

\* The body takes a notification from its queue: together they are what they were.
LEMMA HeadMoves ==
  ASSUME NEW s \in Seq(Nat), NEW t \in Seq(Nat), t # << >>
  PROVE  Append(s, Head(t)) \o Tail(t) = s \o t
<1>1. Len(t) > 0 /\ Len(t) \in Nat /\ Len(s) \in Nat /\ Head(t) = t[1] /\ Head(t) \in Nat
  OBVIOUS
<1>2. Tail(t) \in Seq(Nat) /\ Len(Tail(t)) = Len(t) - 1
      /\ \A i \in 1 .. Len(t) - 1 : Tail(t)[i] = t[i + 1]
  BY <1>1
<1>3. /\ Append(s, Head(t)) \in Seq(Nat) /\ Len(Append(s, Head(t))) = Len(s) + 1
      /\ Append(s, Head(t))[Len(s) + 1] = t[1]
      /\ \A i \in 1 .. Len(s) : Append(s, Head(t))[i] = s[i]
  BY <1>1
<1> DEFINE l == Append(s, Head(t)) \o Tail(t)
           r == s \o t
<1>4. /\ l \in Seq(Nat) /\ r \in Seq(Nat) /\ Len(l) = Len(s) + Len(t) /\ Len(r) = Len(s) + Len(t)
  BY <1>1, <1>2, <1>3
<1>5. ASSUME NEW i \in 1 .. Len(s) + Len(t)
      PROVE  l[i] = r[i]
  <2>1. CASE i <= Len(s)
    BY <1>1, <1>2, <1>3, <2>1
  <2>2. CASE i = Len(s) + 1
    BY <1>1, <1>2, <1>3, <2>2
  <2>3. CASE i > Len(s) + 1
    <3>1. l[i] = Tail(t)[i - (Len(s) + 1)]
      BY <1>1, <1>2, <1>3, <2>3
    <3>2. i - (Len(s) + 1) \in 1 .. Len(t) - 1 /\ (i - (Len(s) + 1)) + 1 = i - Len(s)
      BY <1>1, <2>3
    <3>3. r[i] = t[i - Len(s)]
      BY <1>1, <2>3
    <3> QED
      BY <1>2, <3>1, <3>2, <3>3
  <2> QED
    BY <1>1, <2>1, <2>2, <2>3
<1> HIDE DEF l, r
<1>6. l = r
  BY <1>4, <1>5
<1> QED
  BY <1>6 DEF l, r

\* A sequence that counts to k goes on counting with k + 1.
LEMMA CountsOn ==
  ASSUME NEW s \in Seq(Nat), NEW t \in Seq(Nat), NEW k \in Nat, CountsTo(s \o t, k)
  PROVE  /\ CountsTo(s \o Append(t, k + 1), k + 1)
         /\ Len(s \o Append(t, k + 1)) = Len(s \o t) + 1
<1> DEFINE old == s \o t
           new == s \o Append(t, k + 1)
<1>1. /\ Len(s) \in Nat /\ Len(t) \in Nat
      /\ old \in Seq(Nat) /\ Len(old) = Len(s) + Len(t)
      /\ new \in Seq(Nat) /\ Len(new) = Len(s) + Len(t) + 1
  OBVIOUS
<1>2. \A i \in 1 .. Len(s) + Len(t) : new[i] = old[i]
  <2> SUFFICES ASSUME NEW i \in 1 .. Len(s) + Len(t)
               PROVE  new[i] = old[i]
    OBVIOUS
  <2>1. CASE i <= Len(s)
    BY <1>1, <2>1
  <2>2. CASE i > Len(s)
    BY <1>1, <2>2
  <2> QED
    BY <1>1, <2>1, <2>2
<1>3. new[Len(s) + Len(t) + 1] = k + 1
  BY <1>1
<1>4. \A i \in DOMAIN old : old[i] = k - Len(old) + i
  BY DEF CountsTo
<1> HIDE DEF old, new
<1>5. \A i \in DOMAIN new : new[i] = (k + 1) - Len(new) + i
  <2> SUFFICES ASSUME NEW i \in 1 .. Len(s) + Len(t) + 1
               PROVE  new[i] = (k + 1) - Len(new) + i
    BY <1>1
  <2>1. CASE i = Len(s) + Len(t) + 1
    BY <1>1, <1>3, <2>1
  <2>2. CASE i # Len(s) + Len(t) + 1
    <3>1. i \in 1 .. Len(s) + Len(t) /\ DOMAIN old = 1 .. Len(s) + Len(t)
      BY <1>1, <2>2
    <3>2. i \in DOMAIN old /\ new[i] = old[i]
      BY <1>2, <3>1
    <3> QED
      BY <1>1, <1>4, <3>1, <3>2
  <2> QED
    BY <2>1, <2>2
<1> QED
  BY <1>1, <1>5 DEF CountsTo, old, new

Listens(c) == Subscribed(c) /\ c \in context

\* What the body has read and what waits for it ends with the number `read`.
HeardUpTo(c, read) ==
  /\ CountsTo(got[c] \o notes[c], read)
  /\ transport = "webrtc" => Len(got[c] \o notes[c]) = read

\* Every notification is behind a call that does not listen, heard, or in flight.
InOrder ==
  \A c \in Calls :
    \E read \in 0 .. sent[c] : InFlightAfter(c, read) /\ (Listens(c) => HeardUpTo(c, read))

\* Before it begins a call's request is silent, and before it is written the call
\* has heard nothing.
SilentAtFirst ==
  \A c \in Calls :
    /\ pc[c] = "idle" => sent[c] = 0
    /\ pc[c] \in {"idle", "writing"} => got[c] = << >> /\ notes[c] = << >>

Order == InOrder /\ SilentAtFirst

LEMMA OrderInit == Init => Order
<1> SUFFICES ASSUME Init PROVE Order
  OBVIOUS
<1>1. SilentAtFirst
  BY DEF Init, TransportInit, ExecutorInit, SilentAtFirst
<1>2. \A c \in Calls : ~Listens(c) /\ sent[c] = 0
  BY DEF Init, ExecutorInit, TransportInit, Listens
<1>3. \A c \in Calls : EachInFlightAfter(c, 0)
  <2>1. DOMAIN inbox = {}
    BY DEF Init, ExecutorInit
  <2>2. \A c \in Calls : Notes(c) = {}
    BY <2>1 DEF Notes, InFlight
  <2>3. \A n \in 0 + 1 .. 0 : FALSE
    OBVIOUS
  <2> QED
    BY <1>2, <2>2, <2>3 DEF EachInFlightAfter
<1>4. InOrder
  BY <1>2, <1>3, InFlightAfterMeans DEF InOrder
<1> QED
  BY <1>1, <1>4 DEF Order

\* A call that hears nothing new loses nothing either.
LEMMA HeardStays ==
  ASSUME NEW c \in Calls, NEW read, HeardUpTo(c, read), UNCHANGED transport,
         got'[c] \o notes'[c] = got[c] \o notes[c]
  PROVE  HeardUpTo(c, read)'
BY DEF HeardUpTo, CountsTo

\* What a step of a call's own task does to what the call has heard: nothing, if
\* it still listens afterwards.  Before that it has heard nothing.
Hearing(c) ==
  /\ UNCHANGED << transport, inbox, sent >>
  /\ \A d \in Calls : d # c =>
       /\ Listens(d)' <=> Listens(d)
       /\ pc'[d] = pc[d] /\ got'[d] = got[d] /\ notes'[d] = notes[d]
  /\ Listens(c)' =>
       \/ Listens(c) /\ got'[c] \o notes'[c] = got[c] \o notes[c]
       \/ /\ pc[c] \in {"idle", "writing"}
          /\ got'[c] = << >> /\ notes'[c] = << >>
          /\ pc[c] = "writing" => transport # "webrtc"
  /\ pc'[c] # "idle"
  /\ pc'[c] = "writing" => got'[c] = << >> /\ notes'[c] = << >>

LEMMA ProgramHearing ==
  ASSUME Writing, NeverSuspended, SilentAtFirst, NEW c \in Calls, Program(c), UNCHANGED sent
  PROVE  Hearing(c)
<1>1. Course(c) /\ \A d \in Calls : d # c => pc'[d] = pc[d]
  BY ProgramCourse, ProgramIsStep DEF Writing, Step
<1>2. \A d \in Calls : d # c => (Listens(d)' <=> Listens(d))
  BY <1>1 DEF Course, Listens, Subscribed
<1>3. /\ got[c] \in Seq(Nat) /\ notes[c] \in Seq(Nat)
      /\ got \in [Calls -> Seq(Nat)] /\ notes \in [Calls -> Seq(Nat)] /\ pc \in [Calls -> Pcs]
  BY DEF Writing, TypeOK, ExecutorTypeOK
<1>4. CASE Begin(c)
  <2>1. /\ pc[c] = "idle" /\ UNCHANGED << got, notes >>
        /\ pc' = [pc EXCEPT ![c] = IF Written(c) THEN "open" ELSE "writing"]
    BY <1>4, Zenon DEF Begin, Goto, endVars
  <2>2. pc'[c] # "idle"
    BY <1>3, <2>1
  <2> QED
    BY <1>1, <1>2, <2>1, <2>2 DEF Hearing, SilentAtFirst, Course
<1>5. CASE ContinueWrite(c)
  <2>1. /\ pc[c] \in {"writing", "cancelling"} /\ UNCHANGED got
        /\ \/ UNCHANGED << pc, notes >>
           \/ pc[c] = "writing" /\ pc' = [pc EXCEPT ![c] = "open"] /\ UNCHANGED notes
           \/ pc' = [pc EXCEPT ![c] = "done"] /\ notes' = [notes EXCEPT ![c] = << >>]
    BY <1>5 DEF ContinueWrite, Goto, End, endVars
  <2> QED
    BY <1>1, <1>2, <1>3, <2>1
       DEF Hearing, SilentAtFirst, Course, Listens, Subscribed, NeverSuspended
<1>6. CASE ReadNotification(c)
  <2>1. /\ pc[c] = "open" /\ notes[c] # << >> /\ UNCHANGED << pc, context >>
        /\ got' = [got EXCEPT ![c] = Append(@, Head(notes[c]))]
        /\ notes' = [notes EXCEPT ![c] = Tail(@)]
    BY <1>6 DEF ReadNotification, transportVars
  <2>2. got'[c] \o notes'[c] = got[c] \o notes[c]
    BY <1>3, <2>1, HeadMoves
  <2>3. \A d \in Calls : d # c => got'[d] = got[d] /\ notes'[d] = notes[d]
    BY <1>3, <2>1
  <2> QED
    BY <1>1, <1>2, <2>1, <2>2, <2>3 DEF Hearing, Course, Listens, Subscribed
<1>7. CASE \/ TakeResponse(c) \/ LeaveWatch(c) \/ BodyRaises(c) \/ CancelQuery(c)
           \/ CancelTask(c) \/ AbortGroup(c)
  <2>1. /\ UNCHANGED << got, notes, context >> /\ pc[c] \in {"open", "closing"}
        /\ pc'[c] \in {"open", "closing", "aborted"}
    BY <1>3, <1>7 DEF TakeResponse, LeaveWatch, BodyRaises, CancelQuery, CancelTask, AbortGroup,
                      Goto, endVars, transportVars
  <2> QED
    BY <1>1, <1>2, <2>1 DEF Hearing, Course, Listens, Subscribed
<1>8. CASE \/ CancelledWriting(c) \/ WriteRaises(c) \/ BeginFails(c) \/ CancelClosing(c)
           \/ Close(c)
  <2>1. /\ UNCHANGED got
        /\ \/ pc'[c] = "done" /\ notes' = [notes EXCEPT ![c] = << >>]
           \/ pc'[c] = "cancelling" /\ c \notin context' /\ UNCHANGED notes
           \/ pc[c] = "aborted" /\ UNCHANGED << pc, notes, context >>
    BY <1>3, <1>8 DEF CancelledWriting, WriteRaises, BeginFails, CancelClosing, Close, SendCancellation, End, Goto, endVars,
                      transportVars
  <2> QED
    BY <1>1, <1>2, <1>3, <2>1 DEF Hearing, Course, Listens, Subscribed
<1> QED
  BY <1>4, <1>5, <1>6, <1>7, <1>8 DEF Program

\* A call that starts listening has missed nothing: over WebRTC the robot has not
\* said anything yet, and over BLE it need not have heard it all.
LEMMA ProgramKeepsOrder ==
  ASSUME Writing, NeverSuspended, Order, NEW c \in Calls, Program(c), UNCHANGED sent
  PROVE  Order'
<1>1. Hearing(c)
  BY ProgramHearing DEF Order
<1>2. SilentAtFirst'
  BY <1>1 DEF Order, SilentAtFirst, Hearing
<1>3. ASSUME NEW d \in Calls
      PROVE  \E read \in 0 .. sent'[d] :
               InFlightAfter(d, read)' /\ (Listens(d)' => HeardUpTo(d, read)')
  <2>1. PICK read \in 0 .. sent[d] :
          InFlightAfter(d, read) /\ (Listens(d) => HeardUpTo(d, read))
    BY DEF Order, InOrder
  <2>2. InFlightAfter(d, read)' /\ sent'[d] = sent[d]
    BY <1>1, <2>1 DEF Hearing, InFlightAfter, InFlight
  <2>3. CASE Listens(d)' /\ Listens(d) /\ got'[d] \o notes'[d] = got[d] \o notes[d]
    BY <1>1, <2>1, <2>2, <2>3, HeardStays DEF Hearing
  <2>4. CASE /\ Listens(d)' /\ d = c /\ pc[c] \in {"idle", "writing"}
             /\ got'[c] = << >> /\ notes'[c] = << >>
             /\ pc[c] = "writing" => transport # "webrtc"
    <3>1. pc[d] = "idle" => read = 0
      BY <2>1, <2>4 DEF Order, SilentAtFirst
    <3>2. got'[d] \o notes'[d] = << >>
      BY <2>4
    <3>3. HeardUpTo(d, read)'
      BY <1>1, <2>4, <3>1, <3>2 DEF Hearing, HeardUpTo, CountsTo
    <3> QED
      BY <2>2, <3>3
  <2>5. CASE ~Listens(d)'
    BY <2>2, <2>5
  <2> QED
    BY <1>1, <2>3, <2>4, <2>5 DEF Hearing
<1> QED
  BY <1>2, <1>3 DEF Order, InOrder

\* A notification that is read goes to the queue of the call that listens.
LEMMA ReadKeepsOrder ==
  ASSUME Writing, Order, Read, UNCHANGED sent
  PROVE  Order'
<1> DEFINE m == Head(inbox)
<1>1. /\ inbox # << >> /\ inbox' = Tail(inbox) /\ UNCHANGED << transport, pc, got >>
      /\ TypeOK
  BY DEF Read, Writing
<1>2. m \in Inbound
  BY <1>1, TakenFromInbox
<1>3. \/ UNCHANGED << context, notes >> /\ (m.kind = "notification" => m.id \notin context)
      \/ /\ m.id \in context /\ m.kind = "notification" /\ context' = context
         /\ notes' = [d \in Calls |-> IF Receives(d, m) THEN Append(notes[d], m.n)
                                                         ELSE notes[d]]
      \/ m.kind # "notification" /\ context' = context \ {m.id} /\ notes' = notes
  <2>1. \/ UNCHANGED << context, notes >> /\ (ReadFails(m) \/ Ignored(m))
        \/ m.id \in context /\ context' = ContextAfterRead(m) /\ Broadcast(m)
    BY Zenon DEF Read
  <2>2. Broadcast(m) =>
          IF m.kind = "notification"
          THEN notes' = [d \in Calls |-> IF Receives(d, m) THEN Append(notes[d], m.n)
                                                          ELSE notes[d]]
          ELSE UNCHANGED notes
    BY Zenon DEF Broadcast
  <2> HIDE DEF m
  <2> QED
    BY <2>1, <2>2 DEF ReadFails, Ignored, ContextAfterRead
<1> HIDE DEF m
<1>4. \A d \in Calls : Listens(d)' => Listens(d)
  BY <1>1, <1>3 DEF Listens, Subscribed
<1>5. SilentAtFirst'
  <2>1. \A d \in Calls : ~Subscribed(d) => notes'[d] = notes[d]
    BY <1>3 DEF Receives
  <2> QED
    BY <1>1, <2>1 DEF Order, SilentAtFirst, Subscribed
<1>6. ASSUME NEW d \in Calls
      PROVE  \E read \in 0 .. sent'[d] :
               InFlightAfter(d, read)' /\ (Listens(d)' => HeardUpTo(d, read)')
  <2>1. PICK read \in 0 .. sent[d] :
          InFlightAfter(d, read) /\ (Listens(d) => HeardUpTo(d, read))
    BY DEF Order, InOrder
  <2>2. CASE m.id = d /\ m.kind = "notification"
    <3>1. m.n = read + 1 /\ read + 1 \in 0 .. sent[d] /\ InFlightAfter(d, read + 1)'
      BY <1>1, <2>1, <2>2, NextIsRead DEF m
    <3>2. ASSUME Listens(d)
          PROVE  HeardUpTo(d, read + 1)'
      <4>1. notes'[d] = Append(notes[d], read + 1) /\ got'[d] = got[d]
        BY <1>1, <1>3, <2>2, <3>1, <3>2 DEF Listens, Receives
      <4>2. got[d] \in Seq(Nat) /\ notes[d] \in Seq(Nat) /\ read \in Nat
        BY <1>1 DEF TypeOK, ExecutorTypeOK
      <4>3. HeardUpTo(d, read)
        BY <2>1, <3>2
      <4>4. /\ CountsTo(got[d] \o Append(notes[d], read + 1), read + 1)
            /\ Len(got[d] \o Append(notes[d], read + 1)) = Len(got[d] \o notes[d]) + 1
        BY <4>2, <4>3, CountsOn DEF HeardUpTo
      <4> QED
        BY <1>1, <4>1, <4>3, <4>4 DEF HeardUpTo, CountsTo
    <3> QED
      BY <1>4, <3>1, <3>2
  <2>3. CASE m.id # d \/ m.kind # "notification"
    <3>1. InFlightAfter(d, read)'
      BY <1>1, <2>1, <2>3, OthersAreRead DEF m
    <3>2. notes'[d] = notes[d] /\ got'[d] = got[d]
      BY <1>1, <1>3, <2>3 DEF Receives
    <3> QED
      BY <1>1, <1>4, <2>1, <3>1, <3>2, HeardStays
  <2> QED
    BY <2>2, <2>3
<1> QED
  BY <1>5, <1>6 DEF Order, InOrder

\* What the robot says next comes last.
LEMMA RobotKeepsOrder ==
  ASSUME Writing, Order, NEW c \in Calls, Robot(c)
  PROVE  Order'
<1>1. TypeOK /\ UNCHANGED << transport, context, pc, got, notes >> /\ pc[c] # "idle"
  BY RobotSends DEF robotOnly, Writing, UnsentIsAbsent
<1>2. PICK m \in Inbound :
        /\ inbox' = Append(inbox, m) /\ m.id = c
        /\ \/ /\ m.kind = "notification" /\ m.n = sent[c] + 1
              /\ sent' = [sent EXCEPT ![c] = @ + 1]
           \/ m.kind # "notification" /\ UNCHANGED sent
  BY <1>1, RobotSends DEF Answers
<1>3. \A d \in Calls :
        \/ m.id = d /\ m.kind = "notification" /\ m.n = sent[d] + 1 /\ sent'[d] = sent[d] + 1
        \/ (m.id # d \/ m.kind # "notification") /\ sent'[d] = sent[d]
  BY <1>1, <1>2 DEF TypeOK
<1>4. SilentAtFirst'
  BY <1>1, <1>2, <1>3 DEF Order, SilentAtFirst
<1>5. ASSUME NEW d \in Calls
      PROVE  \E read \in 0 .. sent'[d] :
               InFlightAfter(d, read)' /\ (Listens(d)' => HeardUpTo(d, read)')
  <2>1. PICK read \in 0 .. sent[d] :
          InFlightAfter(d, read) /\ (Listens(d) => HeardUpTo(d, read))
    BY DEF Order, InOrder
  <2>2. read \in 0 .. sent'[d] /\ InFlightAfter(d, read)'
    BY <1>1, <1>2, <1>3, <2>1, NextIsSent
  <2>3. Listens(d)' => HeardUpTo(d, read)'
    BY <1>1, <2>1, HeardStays DEF Listens, Subscribed
  <2> QED
    BY <2>2, <2>3
<1> QED
  BY <1>4, <1>5 DEF Order, InOrder

LEMMA OrderStep ==
  ASSUME Writing, NeverSuspended, Order, [Next]_vars
  PROVE  Order'
<1>1. ASSUME UNCHANGED << transport, context, inbox, sent, pc, got, notes >>
      PROVE  Order'
  <2>1. \A d \in Calls : \A read : /\ InFlightAfter(d, read) => InFlightAfter(d, read)'
                                   /\ Listens(d)' => Listens(d)
                                   /\ HeardUpTo(d, read) => HeardUpTo(d, read)'
    BY <1>1 DEF InFlightAfter, InFlight, Listens, Subscribed, HeardUpTo, CountsTo
  <2> QED
    BY <1>1, <2>1 DEF Order, InOrder, SilentAtFirst
<1>2. ASSUME NEW c \in Calls, AwaitCancellation(c) \/ AwaitError(c), UNCHANGED sent
      PROVE  UNCHANGED << transport, context, inbox, sent, pc, got, notes >>
  BY <1>2 DEF AwaitCancellation, AwaitError, Waiter, transportVars
<1>3. UNCHANGED vars => UNCHANGED << transport, context, inbox, sent, pc, got, notes >>
  BY DEF vars, transportVars, executorVars
<1> QED
  BY <1>1, <1>2, <1>3, ProgramKeepsOrder, ReadKeepsOrder, RobotKeepsOrder
     DEF Next, ExecutorNext

\* While a call listens, its notifications are heard and queued in the order the
\* robot sent them: none doubled, none of another call, none skipped; over WebRTC
\* none lost at all.
THEOREM NotificationsHold == Spec => []NotificationsInOrder
<1>1. Writing /\ Tracking /\ Order /\ [Next]_vars => Order'
  BY OrderStep DEF Tracking
<1>2. Order => NotificationsInOrder
  BY DEF Order, InOrder, NotificationsInOrder, Listens, HeardUpTo
<1> QED
  BY WritingHolds, TrackingHolds, OrderInit, <1>1, <1>2, PTL DEF Spec
=============================================================================
