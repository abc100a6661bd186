-------------------------- MODULE EvoAnswersProofs --------------------------
(***************************************************************************)
(* A second layer of proofs about EvoRpc: nobody waits for an answer that  *)
(* has gone by, what is answered is one's own request, and a call that has *)
(* ended leaves no motion behind.                                          *)
(*                                                                         *)
(* A call that waits for its response has two sessions open, so the count  *)
(* is past the one at which notifications are turned on and nobody can be  *)
(* turning them off.  And the request it has written is still in the inbox *)
(* of the robot, because the call takes the answer when it is handled.     *)
(***************************************************************************)
EXTENDS EvoRpcProofs

-----------------------------------------------------------------------------
(* Notifications are on.                                                   *)

\* A call that exchanges has both of its sessions counted.
LEMMA ExchangingIsCountedTwice ==
  ASSUME SessionInv, NEW c \in Calls, NEW i \in {1, 2}, Where(c, i) \in Exchanging
  PROVE  refcount >= 2
<1> DEFINE s == << c, << i, "events" >> >>
           t == << c, << i, "response" >> >>
<1>1. s \in OpenSessions /\ t \in OpenSessions /\ s # t
  BY DEF OpenSessions, Kinds, IsOpen, Exchanging
<1> HIDE DEF s, t
<1>2. /\ Cardinality(OpenSessions \ {s}) = Cardinality(OpenSessions) - 1
      /\ IsFiniteSet(OpenSessions \ {s})
  BY <1>1, OpenIsFinite, FS_RemoveElement
<1>3. t \in OpenSessions \ {s}
  BY <1>1
<1>4. Cardinality(OpenSessions \ {s}) # 0 /\ Cardinality(OpenSessions \ {s}) \in Nat
  BY <1>2, <1>3, FS_EmptySet, FS_CardinalityType
<1>5. Cardinality(OpenSessions) \in Nat
  BY OpenIsFinite, FS_CardinalityType
<1> QED
  BY <1>2, <1>4, <1>5 DEF SessionInv

LEMMA ExchangingIsHeard ==
  ASSUME IInv, NEW c \in Calls, NEW i \in {1, 2}, Where(c, i) \in Exchanging
  PROVE  unheard \/ subscribed
<1>1. refcount >= 2 /\ refcount \in Nat
  BY ExchangingIsCountedTwice DEF IInv, SessionInv
<1>2. \A d \in Calls, j \in {1, 2} : Where(d, j) # "notifying"
  BY <1>1 DEF IInv, HearInv
<1> QED
  BY <1>1, <1>2 DEF IInv, HearInv

-----------------------------------------------------------------------------
(* The request is still to be handled.                                     *)

Awaits(c) == At(c, "read") /\ Top(c).response = NoMessage

\* Whose answer the call will take.
IsRequestOf(q, c) ==
  /\ q.by = c /\ q.rpc = Top(c).rpc
  /\ Requests[q.rpc].keyed => q.key = requestId[c]

HasRequest(c) == \E i \in DOMAIN inbox : IsRequestOf(inbox[i], c)

AwaitInv == unheard \/ \A c \in Calls : Awaits(c) => HasRequest(c)

LEMMA AwaitsIsHeard ==
  ASSUME IInv, NEW c \in Calls, At(c, "read")
  PROVE  unheard \/ subscribed
<1>1. \E i \in {1, 2} : Where(c, i) = "read"
  BY AtWhere DEF IInv
<1>2. "read" \in Exchanging
  BY DEF Exchanging
<1> QED
  BY <1>1, <1>2, ExchangingIsHeard

\* Before an RPC waits for its response.
Early == {"subscribe", "notifying", "lock", "write"}

\* The innermost RPC of c goes on as f, with the response it had; a long RPC has
\* read its own from memory.
Moves(c, f) ==
  /\ f.at # "read" /\ f.rpc = Top(c).rpc
  /\ f.response = Top(c).response \/ Long(f.rpc)
  /\ f.at \in Early => Top(c).at \in Early /\ f.response = Top(c).response

\* An RPC is nested in it, keyed only if it is itself.
Nesting(c, f, rpc) ==
  /\ f.rpc = Top(c).rpc /\ f.response = Top(c).response
  /\ Requests[rpc].keyed => Requests[f.rpc].keyed

\* What a step of c does to its stack, unless it writes its request.
Proceeds(c) ==
  \/ frames[c] # << >> /\ \E f : Moves(c, f) /\ SetTop(c, f)
  \/ frames[c] # << >> /\ \E f, rpc : Nesting(c, f, rpc) /\ Push(c, f, rpc)
  \/ frames[c] # << >> /\ \E result \in Results : Ends(c, result)

Passes(c) ==
  \/ Proceeds(c)
  \/ frames' = [frames EXCEPT ![c] = << Frame(program[c]) >>]
  \/ frames' = frames /\ frames[c] = << >>

\* The innermost RPC of a stack of one or two.
LEMMA TopIs ==
  ASSUME NEW c, NEW f, frames'[c] = << f >> \/ \E o : frames'[c] = << o, f >>
  PROVE  Top(c)' = f
<1>1. Top(c)' = frames'[c][Len(frames'[c])]
  BY Zenon DEF Top
<1>2. \A s : s = << f >> \/ (\E o : s = << o, f >>) => s[Len(s)] = f
  BY TupleWhere
<1> QED
  BY <1>1, <1>2, Zenon

LEMMA TopChanged ==
  ASSUME IInv, NEW c \in Calls, frames[c] # << >>, NEW f
  PROVE  WithTop(frames[c], f) = << f >> \/ \E o : WithTop(frames[c], f) = << o, f >>
<1>1. CASE frames[c] = << Top(c) >>
  <2>1. \A g : WithTop(<< g >>, f) = << f >>
    BY TopOfOne
  <2> QED
    BY <1>1, <2>1, Zenon
<1>2. CASE \E o : frames[c] = << o, Top(c) >>
  <2>1. \A o, g : WithTop(<< o, g >>, f) = << o, f >>
    BY TopOfTwo
  <2> QED
    BY <1>2, <2>1, Zenon
<1> QED
  BY <1>1, <1>2, Shape DEF IInv

LEMMA PassesBy ==
  ASSUME IInv, NEW c \in Calls, Passes(c)
  PROVE  ~At(c, "read")' /\ \A d \in Calls \ {c} : frames'[d] = frames[d]
<1>0. DOMAIN frames = Calls
  BY DEF IInv, Stacks
<1>1. CASE frames[c] # << >> /\ \E f : Moves(c, f) /\ SetTop(c, f)
  <2>1. PICK f : f.at # "read" /\ SetTop(c, f)
    BY <1>1 DEF Moves
  <2>2. frames' = [frames EXCEPT ![c] = WithTop(frames[c], f)]
    BY <2>1 DEF SetTop
  <2>4. WithTop(frames[c], f) = << f >> \/ \E o : WithTop(frames[c], f) = << o, f >>
    BY <1>1, TopChanged
  <2>5. frames'[c] = << f >> \/ \E o : frames'[c] = << o, f >>
    BY <1>0, <2>2, <2>4
  <2>6. Top(c)' = f
    BY <2>5, TopIs
  <2> QED
    BY <1>0, <2>1, <2>2, <2>6 DEF At
<1>2. CASE frames[c] # << >> /\ \E f, rpc : Nesting(c, f, rpc) /\ Push(c, f, rpc)
  <2>1. PICK f, rpc : Push(c, f, rpc)
    BY <1>2
  <2> DEFINE g == Frame(rpc)
             s == WithTop(frames[c], f)
  <2>2. frames' = [frames EXCEPT ![c] = Append(s, g)]
    BY <2>1 DEF Push
  <2>4. s = << f >> \/ \E o : s = << o, f >>
    BY <1>2, TopChanged
  <2>5. g.at # "read"
    BY DEF Frame
  <2> HIDE DEF g, s
  <2>6. Append(s, g)[Len(Append(s, g))] = g
    <3>1. CASE s = << f >>
      BY <3>1
    <3>2. CASE \E o : s = << o, f >>
      BY <3>2
    <3> QED
      BY <2>4, <3>1, <3>2
  <2>7. frames'[c] = Append(s, g)
    BY <1>0, <2>2
  <2>8. Top(c)' = g
    BY <2>6, <2>7 DEF Top
  <2> QED
    BY <1>0, <2>2, <2>5, <2>8 DEF At
<1>3. CASE frames[c] # << >> /\ \E result \in Results : Ends(c, result)
  <2>1. PICK result \in Results : Ends(c, result)
    BY <1>3
  <2>2. CASE frames[c] = << Top(c) >>
    <3>1. Front(frames[c]) = << >>
      BY <2>2, TopOfOne
    <3>2. frames' = [frames EXCEPT ![c] = << >>]
      BY <2>1, <3>1, Zenon DEF Ends
    <3> QED
      BY <1>0, <3>2 DEF At
  <2>3. CASE \E o : frames[c] = << o, Top(c) >> /\ Around(o)
    <3>1. PICK o : frames[c] = << o, Top(c) >> /\ Around(o)
      BY <2>3
    <3> DEFINE f == Resumed(o, Top(c), result)
    <3>2. f.at # "read"
      BY <3>1, ResumedFrame
    <3>3. Front(frames[c]) = << o >>
      BY <3>1, TopOfTwo
    <3>4. << o >> # << >> /\ << o >>[Len(<< o >>)] = o
      BY TupleWhere
    <3>5. frames' = [frames EXCEPT ![c] = WithTop(<< o >>, f)]
      BY <2>1, <3>3, <3>4, Zenon DEF Ends
    <3> HIDE DEF f
    <3>6. frames' = [frames EXCEPT ![c] = << f >>]
      BY <3>5, TopOfOne
    <3>7. frames'[c] = << f >>
      BY <1>0, <3>6
    <3>8. Top(c)' = f
      BY <3>7, TopIs
    <3> QED
      BY <1>0, <3>2, <3>6, <3>8 DEF At
  <2> QED
    BY <1>3, <2>2, <2>3, Shape DEF IInv
<1>4. CASE frames' = [frames EXCEPT ![c] = << Frame(program[c]) >>]
  <2> DEFINE g == Frame(program[c])
  <2>1. g.at # "read"
    BY DEF Frame
  <2> HIDE DEF g
  <2>2. frames'[c] = << g >>
    BY <1>0, <1>4 DEF g
  <2>3. Top(c)' = g
    BY <2>2, TopIs
  <2> QED
    BY <1>0, <1>4, <2>1, <2>3 DEF At
<1>5. CASE frames' = frames /\ frames[c] = << >>
  BY <1>5 DEF At
<1> QED
  BY <1>1, <1>2, <1>3, <1>4, <1>5 DEF Passes, Proceeds

\* What a step of c does to what the others wait for.
InboxKept(c) == inbox' = inbox \/ inbox' = Append(inbox, Request(c))

Records(c) ==
  /\ InboxKept(c)
  /\ \A d \in Calls \ {c} : requestId'[d] = requestId[d]
  /\ unheard => unheard'

LEMMA RequestsStay ==
  ASSUME IInv, NEW c, InboxKept(c)
  PROVE  \A i \in DOMAIN inbox : i \in DOMAIN inbox' /\ inbox'[i] = inbox[i]
<1>1. inbox \in Seq(Queries)
  BY DEF IInv, KeyInv
<1> QED
  BY <1>1 DEF InboxKept

\* The others wait for what they have waited for.
LEMMA OthersAwait ==
  ASSUME IInv, AwaitInv, NEW c \in Calls, Records(c), ~unheard',
         NEW d \in Calls, frames'[d] = frames[d], d # c, Awaits(d)'
  PROVE  HasRequest(d)'
<1>1. Awaits(d) /\ Top(d)' = Top(d)
  BY DEF Awaits, At, Top
<1>2. PICK i \in DOMAIN inbox : IsRequestOf(inbox[i], d)
  BY <1>1 DEF AwaitInv, Records, HasRequest
<1>3. i \in DOMAIN inbox' /\ inbox'[i] = inbox[i]
  BY RequestsStay DEF Records
<1>4. requestId'[d] = requestId[d]
  BY DEF Records
<1> QED
  BY <1>1, <1>2, <1>3, <1>4 DEF IsRequestOf, HasRequest

LEMMA PassesAwait ==
  ASSUME IInv, AwaitInv, NEW c \in Calls, Passes(c), Records(c)
  PROVE  AwaitInv'
<1> SUFFICES ASSUME ~unheard', NEW d \in Calls, Awaits(d)'
             PROVE  HasRequest(d)'
  BY Zenon DEF AwaitInv
<1>1. d # c
  BY PassesBy DEF Awaits
<1>2. frames'[d] = frames[d]
  BY <1>1, PassesBy
<1> QED
  BY <1>1, <1>2, OthersAwait

-----------------------------------------------------------------------------
(* The steps of the calls.                                                 *)

LEMMA WriteAwait ==
  ASSUME IInv, AwaitInv, NEW c \in Calls, Write(c)
  PROVE  AwaitInv'
<1> DEFINE f == [Top(c) EXCEPT !.at = "read"]
<1>1. /\ At(c, "write") /\ SetTop(c, f) /\ inbox' = Append(inbox, Request(c))
      /\ UNCHANGED << requestId, unheard >>
  BY DEF Write, GoesOn, ids, sessions
<1>2. Innermost(f) /\ f.rpc = Top(c).rpc /\ frames[c] # << >>
  BY <1>1, AtWhere, InnermostAt DEF IInv, Plainly, Ats
<1> HIDE DEF f
<1>3. Top(c)' = f
  BY <1>1, <1>2, GoesOnTurns DEF IInv
<1>4. \A d \in Calls \ {c} : frames'[d] = frames[d]
  BY <1>1 DEF IInv, Stacks, SetTop
<1>5. Records(c)
  BY <1>1 DEF Records, InboxKept
<1>6. \A q : q = Request(c) => IsRequestOf(q, c)'
  <2>1. /\ Request(c).by = c /\ Request(c).rpc = Top(c).rpc
        /\ Requests[Request(c).rpc].keyed => Request(c).key = requestId[c]
    BY DEF Request
  <2> TAKE q
  <2> HAVE q = Request(c)
  <2> QED
    BY <1>1, <1>2, <1>3, <2>1 DEF IsRequestOf
<1>7. /\ Len(inbox) + 1 \in DOMAIN inbox'
      /\ inbox'[Len(inbox) + 1] = Request(c)
  <2>1. inbox \in Seq(Queries) /\ Request(c) \in Queries
    BY <1>2, RequestIsBegun DEF IInv, KeyInv
  <2> QED
    BY <1>1, <2>1
<1> SUFFICES ASSUME ~unheard', NEW d \in Calls, Awaits(d)'
             PROVE  HasRequest(d)'
  BY Zenon DEF AwaitInv
<1>8. CASE d = c
  BY <1>6, <1>7, <1>8 DEF HasRequest
<1>9. CASE d # c
  BY <1>4, <1>5, <1>9, OthersAwait
<1> QED
  BY <1>8, <1>9

LEMMA CallAwait ==
  ASSUME IInv, AwaitInv, NEW c \in Calls, Call(c)
  PROVE  AwaitInv'
<1>1. outcome[c] = "idle" /\ UNCHANGED << inbox, unheard >>
  BY DEF Call, sessions, robot
<1>2. frames[c] = << >>
  BY <1>1, StackFacts DEF IInv, Plain
<1>3. \/ frames' = [frames EXCEPT ![c] = << Frame(program[c]) >>]
      \/ frames' = frames
  BY DEF Call
<1>4. \A d \in Calls \ {c} : requestId'[d] = requestId[d]
  BY DEF Call, NextRequestId, IInv, KeyInv
<1>5. Passes(c)
  BY <1>2, <1>3 DEF Passes
<1>6. Records(c)
  BY <1>1, <1>4 DEF Records, InboxKept
<1> QED
  BY <1>5, <1>6, PassesAwait

\* A step that records nothing the others wait for.
LEMMA PlainlyRecords ==
  ASSUME NEW c, UNCHANGED << inbox, requestId, unheard >>
  PROVE  Records(c)
BY DEF Records, InboxKept

LEMMA GoesOnProceeds ==
  ASSUME IInv, NEW c \in Calls, NEW a, At(c, a), NEW f, Moves(c, f), GoesOn(c, f)
  PROVE  Proceeds(c)
BY Zenon DEF GoesOn, Proceeds, At

\* An RPC can go anywhere but to where it waits for its response.
LEMMA GoesElsewhere ==
  ASSUME IInv, NEW c \in Calls, NEW a, At(c, a), NEW b \in Plainly, b # "read",
         b \in Early => a \in Early
  PROVE  /\ Moves(c, [Top(c) EXCEPT !.at = b])
         /\ \A r : Moves(c, [Top(c) EXCEPT !.at = b, !.result = r])
<1>1. Innermost(Top(c)) /\ Top(c).at = a
  BY AtWhere DEF IInv
<1> DEFINE t == Top(c)
<1>2. t \in [rpc : {t.rpc}, at : {t.at}, step : {t.step}, response : {t.response},
             crc : {t.crc}, data : {t.data}, result : {t.result}]
  BY <1>1 DEF Innermost, IsFrame
<1> HIDE DEF t
<1>3. \A r : LET f == [t EXCEPT !.at = b]
               g == [t EXCEPT !.at = b, !.result = r]
           IN  /\ f.at = b /\ f.rpc = t.rpc /\ f.response = t.response
               /\ g.at = b /\ g.rpc = t.rpc /\ g.response = t.response
  BY <1>2
<1> QED
  BY <1>1, <1>3 DEF Moves, t

LEMMA AnsweredElsewhere ==
  ASSUME IInv, NEW c \in Calls, NEW a, At(c, a), NEW m, m = NoMessage \/ m.rpc = Top(c).rpc,
         m = Top(c).response \/ Long(Top(c).rpc)
  PROVE  Moves(c, Answered(Top(c), m))
<1> DEFINE t == Top(c)
           f == Answered(t, m)
<1>1. Innermost(t)
  BY AtWhere DEF IInv
<1>2. f.at \in {"body", "unsubscribe"} /\ f.rpc = t.rpc
  BY <1>1, AnsweredFrame
<1>3. f.response = m
  <2>1. t \in [rpc : {t.rpc}, at : {t.at}, step : {t.step}, response : {t.response},
               crc : {t.crc}, data : {t.data}, result : {t.result}]
    BY <1>1 DEF Innermost, IsFrame
  <2> HIDE DEF t
  <2>2. /\ [t EXCEPT !.at = "body", !.response = m].response = m
        /\ \A r : [t EXCEPT !.at = "unsubscribe", !.response = m, !.result = r].response = m
    BY <2>1
  <2> QED
    BY <2>2, Zenon DEF f, Answered
<1> HIDE DEF f
<1>4. Moves(c, f)
  BY <1>2, <1>3 DEF Moves, Early
<1> QED
  BY <1>4 DEF f

LEMMA EntersElsewhere ==
  ASSUME IInv, NEW c \in Calls, At(c, "lock"), NEW b \in {"long", "write"}
  PROVE  Moves(c, [Top(c) EXCEPT !.at = b])
<1>1. Innermost(Top(c)) /\ Top(c).at = "lock"
  BY AtWhere DEF IInv
<1> DEFINE t == Top(c)
<1>2. t \in [rpc : {t.rpc}, at : {t.at}, step : {t.step}, response : {t.response},
             crc : {t.crc}, data : {t.data}, result : {t.result}]
  BY <1>1 DEF Innermost, IsFrame
<1> HIDE DEF t
<1>3. LET f == [t EXCEPT !.at = b] IN f.at = b /\ f.rpc = t.rpc /\ f.response = t.response
  BY <1>2
<1> QED
  BY <1>1, <1>3 DEF Moves, Early, t

\* The RPCs with a request id are the motions and what stops them.
LEMMA KeyedRpcs ==
  \A rpc \in DOMAIN Requests : Requests[rpc].keyed <=> rpc \in Motions \cup {"StopExecution"}
<1>1. /\ MoveStraight.keyed /\ Rotate.keyed /\ Velocity.keyed /\ LineNavigation.keyed
      /\ StopExecution.keyed /\ ExecuteFile.keyed /\ PlayTone.keyed
  BY DEF MoveStraight, Rotate, Velocity, LineNavigation, StopExecution, ExecuteFile, PlayTone
<1>2. /\ ~MemRead.keyed /\ ~MemWrite.keyed /\ ~WatcherSetup.keyed /\ ~WatcherRegionSetup.keyed
      /\ ~SetLED.keyed /\ ~Calibrate.keyed /\ ~TurnOff.keyed /\ ~UpdateFirmware.keyed
  BY DEF MemRead, MemWrite, WatcherSetup, WatcherRegionSetup, SetLED, Calibrate, TurnOff,
         UpdateFirmware
<1>3. /\ ~LongRPCExtensionExecute.keyed /\ ~SetRNGSeed.keyed /\ ~SensorsLogging.keyed
      /\ ~MemoryTest.keyed
  BY DEF LongRPCExtensionExecute, SetRNGSeed, SensorsLogging, MemoryTest
<1> QED
  BY <1>1, <1>2, <1>3 DEF Requests, Motions

LEMMA LongNests ==
  ASSUME NEW c
  PROVE  Nesting(c, Top(c), Nested(Top(c).step))
<1>1. Nested(Top(c).step) \in NestedRpcs \ {"StopExecution"}
  BY DEF Nested, NestedRpcs
<1> QED
  BY <1>1, KeyedRpcs, NestedAreShort DEF Nesting

LEMMA StopNests ==
  ASSUME IInv, NEW c \in Calls, At(c, "body"), NEW result, Stop(c, result)
  PROVE  \E f, rpc : Nesting(c, f, rpc) /\ Push(c, f, rpc)
<1> DEFINE t == Top(c)
           f == [t EXCEPT !.at = "stopping", !.result = result]
<1>1. Innermost(t) /\ t.at = "body"
  BY AtWhere DEF IInv
<1>2. Requests[t.rpc].keyed
  BY <1>1, KeyedRpcs DEF Innermost, IsFrame, FrameOK
<1>3. f.rpc = t.rpc /\ f.response = t.response
  <2>1. t \in [rpc : {t.rpc}, at : {t.at}, step : {t.step}, response : {t.response},
               crc : {t.crc}, data : {t.data}, result : {t.result}]
    BY <1>1 DEF Innermost, IsFrame
  <2> HIDE DEF t
  <2> QED
    BY <2>1
<1>4. Push(c, f, "StopExecution")
  BY DEF Stop
<1> HIDE DEF f
<1> QED
  BY <1>2, <1>3, <1>4 DEF Nesting

LEMMA RunsProceeds ==
  ASSUME IInv, NEW c \in Calls, Runs(c), ~Write(c)
  PROVE  Proceeds(c) /\ Records(c)
<1>1. CASE Subscribe(c)
  <2>1. At(c, "subscribe") /\ frames[c] # << >> /\ UNCHANGED << inbox, requestId, unheard >>
    BY <1>1 DEF Subscribe, At, ids, robot
  <2>2. Moves(c, [Top(c) EXCEPT !.at = "notifying"]) /\ Moves(c, [Top(c) EXCEPT !.at = "lock"])
    BY <2>1, GoesElsewhere DEF Plainly, Ats, Early
  <2>3. SetTop(c, [Top(c) EXCEPT !.at = "notifying"]) \/ SetTop(c, [Top(c) EXCEPT !.at = "lock"])
    BY <1>1, Zenon DEF Subscribe, GoesOn
  <2> QED
    BY <2>1, <2>2, <2>3, PlainlyRecords DEF Proceeds
<1>2. CASE StartNotify(c)
  <2>1. /\ At(c, "notifying") /\ GoesOn(c, [Top(c) EXCEPT !.at = "lock"])
        /\ UNCHANGED << inbox, requestId, unheard >>
    BY <1>2 DEF StartNotify, ids, robot
  <2>2. Moves(c, [Top(c) EXCEPT !.at = "lock"])
    BY <2>1, GoesElsewhere DEF Plainly, Ats, Early
  <2> QED
    BY <2>1, <2>2, PlainlyRecords, GoesOnProceeds
<1>3. CASE EnterLock(c)
  <2> DEFINE at == IF Long(Top(c).rpc) THEN "long" ELSE "write"
  <2>1. /\ At(c, "lock") /\ GoesOn(c, [Top(c) EXCEPT !.at = at])
        /\ UNCHANGED << inbox, requestId, unheard >>
    BY <1>3 DEF EnterLock, ids, robot
  <2>2. at \in {"long", "write"}
    OBVIOUS
  <2> HIDE DEF at
  <2>4. Moves(c, [Top(c) EXCEPT !.at = at])
    BY <2>1, <2>2, EntersElsewhere
  <2> QED
    BY <2>1, <2>4, PlainlyRecords, GoesOnProceeds
<1>4. CASE Read(c)
  <2>1. /\ At(c, "read") /\ GoesOn(c, Answered(Top(c), Top(c).response))
        /\ UNCHANGED << inbox, requestId, unheard >>
    BY <1>4 DEF Read, ids, robot
  <2>2. Top(c).response = NoMessage \/ Top(c).response.rpc = Top(c).rpc
    BY <2>1, AtWhere DEF IInv, Innermost, IsFrame, FrameOK
  <2>3. Moves(c, Answered(Top(c), Top(c).response))
    BY <2>1, <2>2, AnsweredElsewhere
  <2> QED
    BY <2>1, <2>3, PlainlyRecords, GoesOnProceeds
<1>5. CASE Abort(c)
  <2>1. /\ At(c, "abort") /\ GoesOn(c, [Top(c) EXCEPT !.at = "unsubscribe"])
        /\ UNCHANGED << inbox, requestId, unheard >>
    BY <1>5 DEF Abort, ids, robot
  <2>2. Moves(c, [Top(c) EXCEPT !.at = "unsubscribe"])
    BY <2>1, GoesElsewhere DEF Plainly, Ats, Early
  <2> QED
    BY <2>1, <2>2, PlainlyRecords, GoesOnProceeds
<1>6. CASE Unsubscribe(c)
  <2>1. /\ At(c, "unsubscribe") /\ frames[c] # << >> /\ UNCHANGED << inbox, requestId, unheard >>
    BY <1>6 DEF Unsubscribe, At, ids, robot
  <2>2. Moves(c, [Top(c) EXCEPT !.at = "stopnotify"]) /\ Top(c).result \in Results
    BY <2>1, GoesElsewhere, ResultOfTop DEF Plainly, Ats, Early
  <2>3. SetTop(c, [Top(c) EXCEPT !.at = "stopnotify"]) \/ Ends(c, Top(c).result)
    BY <1>6, Zenon DEF Unsubscribe
  <2> QED
    BY <2>1, <2>2, <2>3, PlainlyRecords DEF Proceeds
<1>7. CASE StopNotify(c)
  <2>1. /\ At(c, "stopnotify") /\ frames[c] # << >> /\ Ends(c, Top(c).result)
        /\ UNCHANGED << inbox, requestId, unheard >>
    BY <1>7 DEF StopNotify, At, ids, robot
  <2> QED
    BY <2>1, ResultOfTop, PlainlyRecords DEF Proceeds
<1>8. CASE LongNext(c)
  <2>1. /\ frames[c] # << >> /\ Push(c, Top(c), Nested(Top(c).step))
        /\ UNCHANGED << inbox, requestId, unheard >>
    BY <1>8 DEF LongNext, At, task, ids, sessions, robot
  <2> QED
    BY <2>1, LongNests, PlainlyRecords DEF Proceeds
<1>9. CASE LongEnds(c)
  <2> DEFINE m == [NoMessage EXCEPT !.rpc = Top(c).rpc, !.by = Top(c).data[1], !.ok = Top(c).data[2]]
  <2>1. /\ At(c, "long")
        /\ \/ GoesOn(c, Answered(Top(c), m))
           \/ GoesOn(c, [Top(c) EXCEPT !.at = "abort", !.result = "error"])
        /\ UNCHANGED << inbox, requestId, unheard >>
    BY <1>9, Zenon DEF LongEnds, ids, robot
  <2>2. m.rpc = Top(c).rpc /\ Long(Top(c).rpc)
    BY <2>1, AtWhere DEF NoMessage, IInv, Innermost
  <2> HIDE DEF m
  <2>3. Moves(c, Answered(Top(c), m))
    BY <2>1, <2>2, AnsweredElsewhere
  <2>4. Moves(c, [Top(c) EXCEPT !.at = "abort", !.result = "error"])
    BY <2>1, GoesElsewhere DEF Plainly, Ats, Early
  <2> QED
    BY <2>1, <2>3, <2>4, PlainlyRecords, GoesOnProceeds
<1>10. CASE BodyReturns(c)
  <2>1. /\ At(c, "body") /\ GoesOn(c, [Top(c) EXCEPT !.at = "unsubscribe"])
        /\ UNCHANGED << inbox, requestId, unheard >>
    BY <1>10 DEF BodyReturns, ids, sessions, robot
  <2>2. Moves(c, [Top(c) EXCEPT !.at = "unsubscribe"])
    BY <2>1, GoesElsewhere DEF Plainly, Ats, Early
  <2> QED
    BY <2>1, <2>2, PlainlyRecords, GoesOnProceeds
<1>11. CASE BodyRaises(c)
  <2>1. /\ frames[c] # << >> /\ At(c, "body") /\ Stop(c, "error")
        /\ UNCHANGED << inbox, requestId, unheard >>
    BY <1>11 DEF BodyRaises, At, ids, sessions, robot
  <2> QED
    BY <2>1, StopNests, PlainlyRecords DEF Proceeds
<1> QED
  BY <1>1, <1>2, <1>3, <1>4, <1>5, <1>6, <1>7, <1>8, <1>9, <1>10, <1>11, Zenon DEF Runs

LEMMA FailsProceeds ==
  ASSUME IInv, NEW c \in Calls, Fails(c)
  PROVE  Proceeds(c) /\ Records(c)
<1>1. CASE NotifyFails(c)
  <2>1. /\ frames[c] # << >> /\ Ends(c, "error")
        /\ UNCHANGED << inbox, requestId >> /\ (unheard => unheard')
    BY <1>1 DEF NotifyFails, NotifyEnds, At, ids, robot
  <2>2. Proceeds(c)
    BY <2>1 DEF Proceeds, Results
  <2> QED
    BY <2>1, <2>2 DEF Records, InboxKept
<1>2. CASE WriteFails(c)
  <2>1. /\ At(c, "write") /\ GoesOn(c, [Top(c) EXCEPT !.at = "abort", !.result = "error"])
        /\ UNCHANGED << inbox, requestId, unheard >>
    BY <1>2 DEF WriteFails, ids, sessions, robot
  <2>2. Moves(c, [Top(c) EXCEPT !.at = "abort", !.result = "error"])
    BY <2>1, GoesElsewhere DEF Plainly, Ats, Early
  <2> QED
    BY <2>1, <2>2, PlainlyRecords, GoesOnProceeds
<1> QED
  BY <1>1, <1>2 DEF Fails

LEMMA CancelProceeds ==
  ASSUME IInv, NEW c \in Calls, Cancel(c)
  PROVE  Proceeds(c) /\ Records(c)
<1>1. requestId' = requestId
  BY DEF Cancel
<1>2. CASE CancelWaiting(c)
  <2>1. frames[c] # << >> /\ Ends(c, "cancelled") /\ UNCHANGED << inbox, unheard >>
    BY <1>2 DEF CancelWaiting, At, sessions, robot
  <2> QED
    BY <1>1, <2>1, PlainlyRecords DEF Proceeds, Results
<1>3. CASE CancelNotify(c)
  <2>1. /\ frames[c] # << >> /\ Ends(c, "cancelled") /\ UNCHANGED inbox
        /\ unheard => unheard'
    BY <1>3 DEF CancelNotify, NotifyEnds, At, robot
  <2>2. Proceeds(c)
    BY <2>1 DEF Proceeds, Results
  <2> QED
    BY <1>1, <2>1, <2>2 DEF Records, InboxKept
<1>4. CASE CancelLock(c)
  <2>1. /\ At(c, "lock") /\ GoesOn(c, [Top(c) EXCEPT !.at = "unsubscribe", !.result = "cancelled"])
        /\ UNCHANGED << inbox, unheard >>
    BY <1>4 DEF CancelLock, sessions, robot
  <2>2. Moves(c, [Top(c) EXCEPT !.at = "unsubscribe", !.result = "cancelled"])
    BY <2>1, GoesElsewhere DEF Plainly, Ats, Early
  <2> QED
    BY <1>1, <2>1, <2>2, PlainlyRecords, GoesOnProceeds
<1>5. CASE CancelExchange(c)
  <2>1. /\ At(c, "write") \/ At(c, "read")
        /\ GoesOn(c, [Top(c) EXCEPT !.at = "abort", !.result = "cancelled"])
        /\ inbox' = inbox \/ inbox' = Append(inbox, Request(c))
        /\ UNCHANGED unheard
    BY <1>5 DEF CancelExchange, sessions
  <2>2. Moves(c, [Top(c) EXCEPT !.at = "abort", !.result = "cancelled"])
    BY <2>1, GoesElsewhere DEF Plainly, Ats, Early
  <2>3. Records(c)
    BY <1>1, <2>1 DEF Records, InboxKept
  <2> QED
    BY <2>1, <2>2, <2>3, GoesOnProceeds
<1>6. CASE CancelAbort(c)
  <2>1. /\ At(c, "abort") /\ GoesOn(c, [Top(c) EXCEPT !.at = "unsubscribe", !.result = "cancelled"])
        /\ UNCHANGED << inbox, unheard >>
    BY <1>6 DEF CancelAbort, sessions, robot
  <2>2. Moves(c, [Top(c) EXCEPT !.at = "unsubscribe", !.result = "cancelled"])
    BY <2>1, GoesElsewhere DEF Plainly, Ats, Early
  <2> QED
    BY <1>1, <2>1, <2>2, PlainlyRecords, GoesOnProceeds
<1>7. CASE CancelBody(c)
  <2>1. /\ frames[c] # << >> /\ At(c, "body") /\ Stop(c, "cancelled")
        /\ UNCHANGED << inbox, unheard >>
    BY <1>7 DEF CancelBody, At, sessions, robot
  <2> QED
    BY <1>1, <2>1, StopNests, PlainlyRecords DEF Proceeds
<1> QED
  BY <1>2, <1>3, <1>4, <1>5, <1>6, <1>7, Zenon DEF Cancel

-----------------------------------------------------------------------------
(* The robot.                                                              *)

\* A response carries what says whose it is.
LEMMA HandleAnswers ==
  ASSUME NEW q, NEW ok, Handle(q, ok)
  PROVE  \E m : Received(m) /\ m.rpc = q.rpc /\ m.key = q.key /\ m.by = q.by
<1> DEFINE m(data) == [rpc |-> q.rpc, key |-> q.key, by |-> q.by, step |-> q.step, ok |-> ok,
                       data |-> data]
<1>1. \E data : Received(m(data))
  <2>1. CASE q.rpc = "StopExecution"
    BY <2>1, Zenon DEF Handle
  <2>2. CASE q.rpc = "MemWrite" /\ q.step > 0
    BY <2>2 DEF Handle
  <2>3. CASE q.rpc = "LongRPCExtensionExecute" /\ q.step > 0
    BY <2>3 DEF Handle
  <2>4. CASE q.rpc = "MemRead" /\ q.step > 0
    BY <2>4 DEF Handle
  <2>5. CASE /\ q.rpc # "StopExecution" /\ ~(q.rpc = "MemWrite" /\ q.step > 0)
             /\ ~(q.rpc = "LongRPCExtensionExecute" /\ q.step > 0)
             /\ ~(q.rpc = "MemRead" /\ q.step > 0)
    BY <2>5 DEF Handle
  <2> QED
    BY <2>1, <2>2, <2>3, <2>4, <2>5
<1>2. \A data : m(data).rpc = q.rpc /\ m(data).key = q.key /\ m(data).by = q.by
  OBVIOUS
<1> HIDE DEF m
<1> QED
  BY <1>1, <1>2

\* Who waits before the answer and after it has not been answered.
LEMMA StillAwaits ==
  ASSUME IInv, AwaitInv, ~unheard, NEW m, Received(m), m.by \in Calls, UNCHANGED requestId,
         NEW d \in Calls, Awaits(d)'
  PROVE  /\ frames'[d] = frames[d] /\ Awaits(d)
         /\ ~IsResponseTo(m, Top(d).rpc, requestId[d])
<1> DEFINE heard == /\ subscribed
                    /\ At(d, "write") \/ At(d, "read")
                    /\ Top(d).response = NoMessage
                    /\ IsResponseTo(m, Top(d).rpc, requestId[d])
           g == [Top(d) EXCEPT !.response = m]
<1>1. frames'[d] = IF heard THEN WithTop(frames[d], g) ELSE frames[d]
  BY Zenon DEF Received
<1>2. ~heard
  <2> SUFFICES ASSUME heard PROVE FALSE
    OBVIOUS
  <2>1. frames'[d] = WithTop(frames[d], g) /\ frames[d] # << >>
    BY <1>1 DEF At
  <2>2. IsFrame(Top(d))
    BY <2>1, Shape DEF IInv, Innermost
  <2>3. g.response = m
    <3> DEFINE t == Top(d)
    <3>1. t \in [rpc : {t.rpc}, at : {t.at}, step : {t.step}, response : {t.response},
                 crc : {t.crc}, data : {t.data}, result : {t.result}]
      BY <2>2 DEF IsFrame
    <3> HIDE DEF t
    <3>2. [t EXCEPT !.response = m].response = m
      BY <3>1
    <3> QED
      BY <3>2 DEF t
  <2>4. PICK f : f = g
    OBVIOUS
  <2> HIDE DEF g, heard
  <2>5. Top(d)' = f
    <3>1. WithTop(frames[d], f) = << f >> \/ \E o : WithTop(frames[d], f) = << o, f >>
      BY <2>1, TopChanged
    <3>2. frames'[d] = << f >> \/ \E o : frames'[d] = << o, f >>
      BY <2>1, <2>4, <3>1
    <3>3. Top(d)' = frames'[d][Len(frames'[d])]
      BY DEF Top
    <3>4. \A h, o : << h >>[Len(<< h >>)] = h /\ << o, h >>[Len(<< o, h >>)] = h
      BY TupleWhere
    <3> QED
      BY <3>2, <3>3, <3>4, Zenon
  <2>6. m = NoMessage
    BY <2>3, <2>4, <2>5 DEF Awaits
  <2> QED
    BY <2>6, CallsAssumption DEF NoMessage
<1>3. frames'[d] = frames[d]
  BY <1>1, <1>2
<1>4. Awaits(d)
  BY <1>3 DEF Awaits, At, Top
<1>5. subscribed
  BY <1>4, AwaitsIsHeard DEF Awaits
<1>6. ~IsResponseTo(m, Top(d).rpc, requestId[d])
  BY <1>2, <1>4, <1>5 DEF Awaits
<1> QED
  BY <1>3, <1>4, <1>6

LEMMA RobotHandlesAwait ==
  ASSUME IInv, AwaitInv, RobotHandles
  PROVE  AwaitInv'
<1> DEFINE q == Head(inbox)
<1>1. /\ inbox # << >> /\ inbox' = Tail(inbox)
      /\ UNCHANGED << requestId, unheard >>
  BY DEF RobotHandles, task, ids, ble, sessions
<1>2. PICK ok \in BOOLEAN : Handle(q, ok)
  BY DEF RobotHandles
<1>3. inbox \in Seq(Queries)
  BY DEF IInv, KeyInv
<1>4. /\ q = inbox[1] /\ 1 \in DOMAIN inbox
      /\ \A i \in DOMAIN inbox : i # 1 => i - 1 \in DOMAIN inbox' /\ inbox'[i - 1] = inbox[i]
  BY <1>1, <1>3
<1>5. q.by \in Calls
  BY <1>4 DEF IInv, KeyInv, Begun
<1> HIDE DEF q
<1>6. PICK m : Received(m) /\ m.rpc = q.rpc /\ m.key = q.key /\ m.by = q.by
  BY <1>2, HandleAnswers
<1> SUFFICES ASSUME ~unheard', NEW d \in Calls, Awaits(d)' PROVE HasRequest(d)'
  BY Zenon DEF AwaitInv
<1>7. ~unheard
  BY <1>1
<1>8. /\ frames'[d] = frames[d] /\ Awaits(d)
      /\ ~IsResponseTo(m, Top(d).rpc, requestId[d])
  BY <1>1, <1>5, <1>6, <1>7, StillAwaits
<1>9. PICK i \in DOMAIN inbox : IsRequestOf(inbox[i], d)
  BY <1>7, <1>8 DEF AwaitInv, HasRequest
<1>10. i # 1
  BY <1>4, <1>6, <1>8, <1>9 DEF IsRequestOf, IsResponseTo
<1>11. i - 1 \in DOMAIN inbox' /\ inbox'[i - 1] = inbox[i]
  BY <1>4, <1>10
<1>12. Top(d)' = Top(d)
  BY <1>8 DEF Top
<1> QED
  BY <1>1, <1>9, <1>11, <1>12 DEF IsRequestOf, HasRequest

-----------------------------------------------------------------------------
(* The invariant.                                                          *)

LEMMA QuietAwait ==
  ASSUME AwaitInv, UNCHANGED << frames, inbox, requestId, unheard >>
  PROVE  AwaitInv'
BY DEF AwaitInv, Awaits, HasRequest, IsRequestOf, At, Top

LEMMA NextAwait ==
  ASSUME IInv, AwaitInv, [Next]_vars
  PROVE  AwaitInv'
<1>1. CASE Next
  <2>1. CASE RobotHandles
    BY <2>1, RobotHandlesAwait
  <2>2. CASE \E c \in Calls : Runs(c)
    BY <2>2, RunsProceeds, PassesAwait, WriteAwait DEF Passes
  <2>3. CASE \E c \in Calls : RobotEnds(c)
    BY <2>3, QuietAwait DEF RobotEnds, ble, sessions
  <2>4. CASE \E c \in Calls : Call(c)
    BY <2>4, CallAwait
  <2>5. CASE \E c \in Calls : Fails(c)
    BY <2>5, FailsProceeds, PassesAwait DEF Passes
  <2>6. CASE \E c \in Calls : Cancel(c)
    BY <2>6, CancelProceeds, PassesAwait DEF Passes
  <2> QED
    BY <1>1, <2>1, <2>2, <2>3, <2>4, <2>5, <2>6, Zenon DEF Next, Works
<1>2. CASE UNCHANGED vars
  BY <1>2, QuietAwait DEF vars, task, ids, ble, sessions, robot
<1> QED
  BY <1>1, <1>2

LEMMA InitAwait ==
  ASSUME Init
  PROVE  AwaitInv
BY DEF Init, AwaitInv, Awaits, At

LEMMA HeardFromInv ==
  ASSUME IInv, AwaitInv
  PROVE  AnswersAreHeard
<1> SUFFICES ASSUME ~unheard, NEW c \in Calls, At(c, "read"), Top(c).response = NoMessage
             PROVE  /\ subscribed
                    /\ \E q \in Range(inbox) : /\ q.by = c /\ q.rpc = Top(c).rpc
                                               /\ Requests[q.rpc].keyed => q.key = requestId[c]
  BY Zenon DEF AnswersAreHeard
<1>1. PICK i \in DOMAIN inbox : IsRequestOf(inbox[i], c)
  BY DEF AwaitInv, Awaits, HasRequest
<1>2. inbox[i] \in Range(inbox)
  BY DEF Range
<1> QED
  BY <1>1, <1>2, AwaitsIsHeard DEF IsRequestOf

\* While a call waits for its response, notifications are on and the robot has
\* still to handle a request of the call whose answer it will take, whoever else
\* opens and closes sessions and whatever has been cancelled before; unless a
\* start_notify has failed or been cancelled (_rpc, _subscribe_notifications,
\* _unsubscribe_notifications).
THEOREM AnswersAreHeardHolds == Spec => []AnswersAreHeard
<1>1. Spec => []AwaitInv
  BY InitAwait, NextAwait, SpecIInv, PTL DEF Spec
<1> QED
  BY <1>1, SpecIInv, HeardFromInv, PTL

-----------------------------------------------------------------------------
(* The answers are one's own.                                              *)

Uncancelled == \A d \in Calls : cancels[d] = 0

\* The response of an RPC that is not long.
OwnResponse(c, f) ==
  ~Long(f.rpc) /\ f.response # NoMessage /\ f.response.by # c =>
    ~Requests[f.rpc].keyed /\ ~Uncancelled

OwnFrame(c, f) == (Requests[f.rpc].keyed => requestId[c] # 0) /\ OwnResponse(c, f)

\* A request carries the id of the call that has sent it.
Genuine(q) == Requests[q.rpc].keyed => q.key = requestId[q.by] /\ q.key # 0

\* As long as nobody is cancelled, a request in the inbox is that of the call
\* that holds the lock, and its answer is not taken by an RPC to come.
InTurn ==
  /\ inbox = << >> \/ (Len(inbox) = 1 /\ Awaits(inbox[1].by))
  /\ \A c \in Calls : frames[c] # << >> /\ Top(c).at \in Early => Top(c).response = NoMessage

OwnInv ==
  /\ \A c \in Calls : program[c] # "StopExecution"
  /\ \A c \in Calls : \A i \in DOMAIN frames[c] : OwnFrame(c, frames[c][i])
  /\ \A i \in DOMAIN inbox : Genuine(inbox[i])
  /\ Uncancelled => InTurn

-----------------------------------------------------------------------------
(* What becomes of the RPCs of a call.                                     *)

\* An RPC that goes on as g, or in which g is nested.
Carries(f, g) ==
  \/ g.rpc = f.rpc /\ (g.response = f.response \/ Long(g.rpc))
  \/ g.response = NoMessage /\ (Requests[g.rpc].keyed => Requests[f.rpc].keyed)

CarriesAll(c) ==
  \A i \in DOMAIN frames'[c] : \E j \in DOMAIN frames[c] : Carries(frames[c][j], frames'[c][i])

LEMMA SetTopCarries ==
  ASSUME IInv, NEW c \in Calls, frames[c] # << >>, NEW g, Carries(Top(c), g), SetTop(c, g)
  PROVE  CarriesAll(c) /\ Top(c)' = g /\ \A d \in Calls \ {c} : frames'[d] = frames[d]
<1>1. /\ frames'[c] = WithTop(frames[c], g)
      /\ \A d \in Calls \ {c} : frames'[d] = frames[d]
  BY DEF SetTop, IInv, Stacks
<1>2. CASE frames[c] = << Top(c) >>
  <2>1. frames'[c] = << g >>
    <3>1. \A t : WithTop(<< t >>, g) = << g >>
      BY TopOfOne
    <3> QED
      BY <1>1, <1>2, <3>1, Zenon
  <2>2. Top(c)' = g
    BY <2>1, TopIs
  <2>3. \A i \in DOMAIN frames'[c] : frames'[c][i] = g
    BY <2>1, TupleWhere
  <2>4. 1 \in DOMAIN frames[c] /\ frames[c][1] = Top(c)
    BY <1>2, TupleWhere
  <2> QED
    BY <1>1, <2>2, <2>3, <2>4 DEF CarriesAll
<1>3. CASE \E o : frames[c] = << o, Top(c) >>
  <2>1. PICK o : frames[c] = << o, Top(c) >>
    BY <1>3
  <2>2. frames'[c] = << o, g >>
    <3>1. \A t : WithTop(<< o, t >>, g) = << o, g >>
      BY TopOfTwo
    <3> QED
      BY <1>1, <2>1, <3>1, Zenon
  <2>3. Top(c)' = g
    BY <2>2, TopIs
  <2>4. \A i \in DOMAIN frames'[c] : (i = 1 /\ frames'[c][i] = o) \/ (i = 2 /\ frames'[c][i] = g)
    BY <2>2, TupleWhere
  <2>5. /\ 1 \in DOMAIN frames[c] /\ frames[c][1] = o
        /\ 2 \in DOMAIN frames[c] /\ frames[c][2] = Top(c)
    BY <2>1, TupleWhere
  <2>6. Carries(o, o)
    BY DEF Carries
  <2> QED
    BY <1>1, <2>3, <2>4, <2>5, <2>6 DEF CarriesAll
<1> QED
  BY <1>2, <1>3, Shape DEF IInv

LEMMA PushCarries ==
  ASSUME IInv, NEW c \in Calls, frames[c] # << >>, NEW f, NEW rpc, Nesting(c, f, rpc),
         Push(c, f, rpc)
  PROVE  CarriesAll(c) /\ frames'[c] # << >> /\ Top(c)'.response = NoMessage
<1> DEFINE g == Frame(rpc)
           s == WithTop(frames[c], f)
<1>1. frames'[c] = Append(s, g)
  BY DEF Push, IInv, Stacks
<1>2. g.rpc = rpc /\ g.response = NoMessage
  BY DEF Frame
<1>3. Carries(Top(c), g) /\ Carries(Top(c), f)
  BY <1>2 DEF Carries, Nesting
<1> HIDE DEF g
<1>4. CASE frames[c] = << Top(c) >>
  <2>1. frames'[c] = << f, g >>
    <3>1. \A t : WithTop(<< t >>, f) = << f >> /\ Append(<< f >>, g) = << f, g >>
      BY TopOfOne
    <3> QED
      BY <1>1, <1>4, <3>1, Zenon
  <2>2. Top(c)' = g /\ frames'[c] # << >>
    BY <2>1, TupleWhere DEF Top
  <2>3. \A i \in DOMAIN frames'[c] : frames'[c][i] \in {f, g}
    BY <2>1, TupleWhere
  <2>4. 1 \in DOMAIN frames[c] /\ frames[c][1] = Top(c)
    BY <1>4, TupleWhere
  <2> QED
    BY <1>2, <1>3, <2>2, <2>3, <2>4 DEF CarriesAll
<1>5. CASE \E o : frames[c] = << o, Top(c) >>
  <2>1. PICK o : frames[c] = << o, Top(c) >>
    BY <1>5
  <2> DEFINE t == << o, f >>
  <2>2. frames'[c] = Append(t, g)
    <3>1. \A h : WithTop(<< o, h >>, f) = << o, f >>
      BY TopOfTwo
    <3> QED
      BY <1>1, <2>1, <3>1, Zenon
  <2>3. /\ DOMAIN Append(t, g) = {1, 2, 3} /\ Len(Append(t, g)) = 3 /\ Append(t, g) # << >>
        /\ Append(t, g)[1] = o /\ Append(t, g)[2] = f /\ Append(t, g)[3] = g
    OBVIOUS
  <2> HIDE DEF t
  <2>4. Top(c)' = g /\ frames'[c] # << >>
    BY <2>2, <2>3 DEF Top
  <2>5. \A i \in DOMAIN frames'[c] : frames'[c][i] \in {o, f, g}
    BY <2>2, <2>3
  <2>6. /\ 1 \in DOMAIN frames[c] /\ frames[c][1] = o
        /\ 2 \in DOMAIN frames[c] /\ frames[c][2] = Top(c)
    BY <2>1, TupleWhere
  <2>7. Carries(o, o)
    BY DEF Carries
  <2> QED
    BY <1>2, <1>3, <2>4, <2>5, <2>6, <2>7 DEF CarriesAll
<1> QED
  BY <1>4, <1>5, Shape DEF IInv

LEMMA ResumedKeeps ==
  ASSUME NEW outer, Around(outer), NEW inner, NEW result
  PROVE  LET f == Resumed(outer, inner, result) IN
         f.rpc = outer.rpc /\ f.response = outer.response
<1>1. outer \in [rpc : {outer.rpc}, at : {outer.at}, step : {outer.step},
                 response : {outer.response}, crc : {outer.crc}, data : {outer.data},
                 result : {outer.result}]
  BY DEF Around, IsFrame
<1>2. \A r, k, x, d :
        /\ LET f == [outer EXCEPT !.at = "unsubscribe", !.result = r]
           IN  f.rpc = outer.rpc /\ f.response = outer.response
        /\ LET f == [outer EXCEPT !.step = k, !.crc = x, !.data = d]
           IN  f.rpc = outer.rpc /\ f.response = outer.response
        /\ LET f == [outer EXCEPT !.at = "abort", !.result = r]
           IN  f.rpc = outer.rpc /\ f.response = outer.response
  BY <1>1
<1> DEFINE f == Resumed(outer, inner, result)
<1>3. CASE outer.at = "stopping"
  <2>1. \E r : f = [outer EXCEPT !.at = "unsubscribe", !.result = r]
    BY <1>3 DEF Resumed
  <2> HIDE DEF f
  <2>2. f.rpc = outer.rpc /\ f.response = outer.response
    BY <1>2, <2>1
  <2> QED
    BY <2>2 DEF f
<1>4. CASE outer.at = "long" /\ result = "ok"
  <2>1. \E x, d : f = [outer EXCEPT !.step = outer.step + 1, !.crc = x, !.data = d]
    BY <1>4, Zenon DEF Resumed
  <2> HIDE DEF f
  <2>2. f.rpc = outer.rpc /\ f.response = outer.response
    BY <1>2, <2>1
  <2> QED
    BY <2>2 DEF f
<1>5. CASE outer.at = "long" /\ result # "ok"
  <2>1. f = [outer EXCEPT !.at = "abort", !.result = result]
    BY <1>5 DEF Resumed
  <2> HIDE DEF f
  <2>2. f.rpc = outer.rpc /\ f.response = outer.response
    BY <1>2, <2>1
  <2> QED
    BY <2>2 DEF f
<1> QED
  BY <1>3, <1>4, <1>5 DEF Around

LEMMA EndsCarries ==
  ASSUME IInv, NEW c \in Calls, frames[c] # << >>, NEW result \in Results, Ends(c, result)
  PROVE  CarriesAll(c) /\ (frames'[c] # << >> => Top(c)'.at \notin Early)
<1>0. DOMAIN frames = Calls
  BY DEF IInv, Stacks
<1>1. CASE frames[c] = << Top(c) >>
  <2>1. Front(frames[c]) = << >>
    BY <1>1, TopOfOne
  <2>2. frames' = [frames EXCEPT ![c] = << >>]
    BY <2>1, Zenon DEF Ends
  <2>3. frames'[c] = << >>
    BY <1>0, <2>2
  <2> QED
    BY <2>3 DEF CarriesAll
<1>2. CASE \E o : frames[c] = << o, Top(c) >> /\ Around(o)
  <2>1. PICK o : frames[c] = << o, Top(c) >> /\ Around(o)
    BY <1>2
  <2> DEFINE f == Resumed(o, Top(c), result)
  <2>2. f.at \notin Early /\ f.rpc = o.rpc /\ f.response = o.response
    BY <2>1, ResumedFrame, ResumedKeeps DEF Early
  <2>3. Front(frames[c]) = << o >>
    BY <2>1, TopOfTwo
  <2>4. << o >> # << >> /\ << o >>[Len(<< o >>)] = o
    BY TupleWhere
  <2>5. frames' = [frames EXCEPT ![c] = WithTop(<< o >>, f)]
    BY <2>1, <2>3, <2>4, Zenon DEF Ends
  <2> HIDE DEF f
  <2>6. frames'[c] = << f >>
    BY <1>0, <2>5, TopOfOne
  <2>7. Top(c)' = f
    BY <2>6, TopIs
  <2>8. \A i \in DOMAIN frames'[c] : frames'[c][i] = f
    BY <2>6, TupleWhere
  <2>9. 1 \in DOMAIN frames[c] /\ frames[c][1] = o
    BY <2>1, TupleWhere
  <2>10. Carries(o, f)
    BY <2>2 DEF Carries
  <2> QED
    BY <2>2, <2>7, <2>8, <2>9, <2>10 DEF CarriesAll
<1> QED
  BY <1>1, <1>2, Shape DEF IInv

LEMMA ProceedsCarriesAll ==
  ASSUME IInv, NEW c \in Calls, Proceeds(c)
  PROVE  CarriesAll(c)
<1>1. CASE frames[c] # << >> /\ \E f : Moves(c, f) /\ SetTop(c, f)
  <2>1. \A f : Moves(c, f) => Carries(Top(c), f)
    BY DEF Carries, Moves
  <2> QED
    BY <1>1, <2>1, SetTopCarries
<1>2. CASE frames[c] # << >> /\ \E f, rpc : Nesting(c, f, rpc) /\ Push(c, f, rpc)
  BY <1>2, PushCarries
<1>3. CASE frames[c] # << >> /\ \E result \in Results : Ends(c, result)
  BY <1>3, EndsCarries
<1> QED
  BY <1>1, <1>2, <1>3 DEF Proceeds

\* An RPC that has still to write has no response before it has a request.
LEMMA ProceedsEarly ==
  ASSUME IInv, NEW c \in Calls, Proceeds(c),
         Top(c).at \in Early => Top(c).response = NoMessage
  PROVE  frames'[c] # << >> /\ Top(c)'.at \in Early => Top(c)'.response = NoMessage
<1>1. CASE frames[c] # << >> /\ \E f : Moves(c, f) /\ SetTop(c, f)
  <2>1. PICK f : Moves(c, f) /\ SetTop(c, f)
    BY <1>1
  <2>2. Carries(Top(c), f)
    BY <2>1 DEF Carries, Moves
  <2> QED
    BY <1>1, <2>1, <2>2, SetTopCarries DEF Moves
<1>2. CASE frames[c] # << >> /\ \E f, rpc : Nesting(c, f, rpc) /\ Push(c, f, rpc)
  BY <1>2, PushCarries
<1>3. CASE frames[c] # << >> /\ \E result \in Results : Ends(c, result)
  BY <1>3, EndsCarries
<1> QED
  BY <1>1, <1>2, <1>3 DEF Proceeds

\* The RPCs of every call, after a step of c that keeps the request ids.
LEMMA FramesStayOwn ==
  ASSUME IInv, OwnInv, NEW c \in Calls, CarriesAll(c),
         \A d \in Calls \ {c} : frames'[d] = frames[d],
         requestId' = requestId, Uncancelled' => Uncancelled
  PROVE  \A d \in Calls : \A i \in DOMAIN frames'[d] : OwnFrame(d, frames[d][i])'
<1> SUFFICES ASSUME NEW d \in Calls, NEW i \in DOMAIN frames'[d]
             PROVE  OwnFrame(d, frames[d][i])'
  OBVIOUS
<1>1. PICK j \in DOMAIN frames[d] : Carries(frames[d][j], frames'[d][i])
  <2>1. CASE d = c
    BY <2>1 DEF CarriesAll
  <2>2. CASE d # c
    <3>1. frames'[d] = frames[d]
      BY <2>2
    <3>2. Carries(frames[d][i], frames'[d][i])
      BY <3>1 DEF Carries
    <3> QED
      BY <3>1, <3>2
  <2> QED
    BY <2>1, <2>2
<1>2. OwnFrame(d, frames[d][j])
  BY DEF OwnInv
<1> QED
  BY <1>1, <1>2 DEF Carries, OwnFrame, OwnResponse

\* The inbox, after a step of c that writes its request or not.
LEMMA InboxStaysGenuine ==
  ASSUME IInv, OwnInv, NEW c \in Calls, frames[c] # << >>, InboxKept(c), requestId' = requestId
  PROVE  \A i \in DOMAIN inbox' : Genuine(inbox[i])'
<1>1. inbox \in Seq(Queries)
  BY DEF IInv, KeyInv
<1>2. \A i \in DOMAIN inbox' : inbox'[i] = Request(c) \/ (i \in DOMAIN inbox /\ inbox'[i] = inbox[i])
  BY <1>1 DEF InboxKept
<1>3. \A q : q = Request(c) =>
        q.by = c /\ q.rpc = Top(c).rpc /\ (Requests[q.rpc].keyed => q.key = requestId[c])
  BY DEF Request
<1>4. \E i \in DOMAIN frames[c] : frames[c][i] = Top(c)
  <2>1. CASE frames[c] = << Top(c) >>
    <3>1. 1 \in DOMAIN << Top(c) >> /\ << Top(c) >>[1] = Top(c)
      BY TupleWhere
    <3> QED
      BY <2>1, <3>1
  <2>2. CASE \E o : frames[c] = << o, Top(c) >>
    <3>1. \A o : 2 \in DOMAIN << o, Top(c) >> /\ << o, Top(c) >>[2] = Top(c)
      BY TupleWhere
    <3> QED
      BY <2>2, <3>1
  <2> QED
    BY <2>1, <2>2, Shape DEF IInv
<1>5. Requests[Top(c).rpc].keyed => requestId[c] # 0
  BY <1>4 DEF OwnInv, OwnFrame
<1> SUFFICES ASSUME NEW i \in DOMAIN inbox' PROVE Genuine(inbox[i])'
  OBVIOUS
<1>6. CASE i \in DOMAIN inbox /\ inbox'[i] = inbox[i]
  BY <1>6 DEF OwnInv, Genuine
<1>7. CASE inbox'[i] = Request(c)
  BY <1>3, <1>5, <1>7 DEF Genuine
<1> QED
  BY <1>2, <1>6, <1>7

\* Only one call can be in an exchange.
LEMMA ExchangeAlone ==
  ASSUME IInv, NEW c \in Calls, NEW a \in Exchanging, At(c, a),
         NEW d \in Calls, NEW b \in Exchanging, At(d, b)
  PROVE  c = d
<1>1. (Where(c, 1) = a \/ Where(c, 2) = a) /\ (Where(d, 1) = b \/ Where(d, 2) = b)
  BY AtWhere DEF IInv
<1>2. Held(c) # 0 /\ Held(d) # 0
  BY <1>1 DEF Held
<1> QED
  BY <1>2 DEF IInv, LockInv

-----------------------------------------------------------------------------
(* The steps of the calls.                                                 *)

\* A step of c that is not cancelled, and neither reads a response it has not
\* got nor writes.
LEMMA ProceedsOwn ==
  ASSUME IInv, OwnInv, NEW c \in Calls, Proceeds(c), ~Awaits(c), frames[c] # << >>,
         UNCHANGED << program, inbox, requestId, cancels >>
  PROVE  OwnInv'
<1>1. \A d \in Calls \ {c} : frames'[d] = frames[d]
  BY PassesBy DEF Passes
<1>2. Uncancelled' <=> Uncancelled
  BY DEF Uncancelled
<1>3. CarriesAll(c)
  BY ProceedsCarriesAll
<1>4. \A d \in Calls : \A i \in DOMAIN frames'[d] : OwnFrame(d, frames[d][i])'
  BY <1>1, <1>2, <1>3, FramesStayOwn
<1>5. \A i \in DOMAIN inbox' : Genuine(inbox[i])'
  BY InboxStaysGenuine DEF InboxKept
<1>6. ASSUME Uncancelled' PROVE InTurn'
  <2>1. InTurn
    BY <1>2, <1>6 DEF OwnInv
  <2>2. inbox # << >> => Awaits(inbox[1].by)'
    <3> SUFFICES ASSUME inbox # << >> PROVE Awaits(inbox[1].by)'
      OBVIOUS
    <3>1. Awaits(inbox[1].by) /\ inbox[1].by \in Calls
      <4>1. 1 \in DOMAIN inbox
        BY <2>1 DEF InTurn, IInv, KeyInv
      <4> QED
        BY <2>1, <4>1 DEF InTurn, IInv, KeyInv, Begun
    <3>2. \A d \in Calls : Awaits(d) => frames'[d] = frames[d]
      BY <1>1
    <3>3. \A d : frames'[d] = frames[d] /\ Awaits(d) => Awaits(d)'
      BY DEF Awaits, At, Top
    <3> QED
      BY <3>1, <3>2, <3>3
  <2>3. ASSUME NEW d \in Calls, frames'[d] # << >>, Top(d)'.at \in Early
        PROVE  Top(d)'.response = NoMessage
    <3>1. CASE d = c
      <4>1. Top(c).at \in Early => Top(c).response = NoMessage
        BY <2>1 DEF InTurn
      <4> QED
        BY <2>3, <3>1, <4>1, ProceedsEarly
    <3>2. CASE d # c
      BY <1>1, <2>1, <2>3, <3>2 DEF InTurn, Top
    <3> QED
      BY <3>1, <3>2
  <2> QED
    BY <2>1, <2>2, <2>3 DEF InTurn
<1> QED
  BY <1>4, <1>5, <1>6 DEF OwnInv

\* Once somebody has been cancelled, only the ids count.
LEMMA CancelOwn ==
  ASSUME IInv, OwnInv, NEW c \in Calls, Cancel(c), UNCHANGED program
  PROVE  OwnInv'
<1>1. Proceeds(c) /\ Records(c) /\ requestId' = requestId
  BY CancelProceeds DEF Cancel
<1>2. ~Uncancelled'
  <2>1. cancels' = [cancels EXCEPT ![c] = cancels[c] + 1]
    BY Zenon DEF Cancel
  <2>2. cancels'[c] # 0
    BY <2>1 DEF IInv, Plain
  <2> QED
    BY <2>2 DEF Uncancelled
<1>3. frames[c] # << >>
  BY <1>1 DEF Proceeds
<1>4. \A d \in Calls \ {c} : frames'[d] = frames[d]
  BY <1>1, PassesBy DEF Passes
<1>5. CarriesAll(c)
  BY <1>1, ProceedsCarriesAll
<1>6. \A d \in Calls : \A i \in DOMAIN frames'[d] : OwnFrame(d, frames[d][i])'
  BY <1>1, <1>2, <1>4, <1>5, FramesStayOwn
<1>7. \A i \in DOMAIN inbox' : Genuine(inbox[i])'
  BY <1>1, <1>3, InboxStaysGenuine DEF Records
<1> QED
  BY <1>2, <1>6, <1>7 DEF OwnInv

\* A call that runs has what it has waited for, or does not wait.
LEMMA RunsQuietly ==
  ASSUME NEW c \in Calls, Runs(c) \/ Fails(c), ~Write(c)
  PROVE  /\ ~Awaits(c) /\ frames[c] # << >>
         /\ UNCHANGED << inbox, requestId, cancels >>
<1>1. CASE Subscribe(c) \/ StartNotify(c) \/ EnterLock(c)
  BY <1>1 DEF Subscribe, StartNotify, EnterLock, Awaits, At, ids, robot
<1>2. CASE Read(c) \/ Abort(c)
  BY <1>2 DEF Read, Abort, Awaits, At, ids, robot
<1>3. CASE Unsubscribe(c) \/ StopNotify(c)
  BY <1>3 DEF Unsubscribe, StopNotify, Awaits, At, ids, robot
<1>4. CASE LongNext(c) \/ LongEnds(c)
  BY <1>4, Zenon DEF LongNext, LongEnds, Awaits, At, task, ids, robot
<1>5. CASE BodyReturns(c) \/ BodyRaises(c)
  BY <1>5 DEF BodyReturns, BodyRaises, Awaits, At, ids, robot
<1>6. CASE NotifyFails(c) \/ WriteFails(c)
  BY <1>6 DEF NotifyFails, NotifyEnds, WriteFails, Awaits, At, ids, robot
<1> QED
  BY <1>1, <1>2, <1>3, <1>4, <1>5, <1>6, Zenon DEF Runs, Fails

LEMMA WriteOwn ==
  ASSUME IInv, OwnInv, NEW c \in Calls, Write(c), UNCHANGED program
  PROVE  OwnInv'
<1> DEFINE f == [Top(c) EXCEPT !.at = "read"]
<1>1. /\ At(c, "write") /\ SetTop(c, f) /\ inbox' = Append(inbox, Request(c))
      /\ UNCHANGED << requestId, cancels >>
  BY DEF Write, GoesOn, ids, sessions
<1>2. frames[c] # << >> /\ Top(c).at = "write" /\ Innermost(Top(c))
  BY <1>1, AtWhere DEF IInv
<1>3. f.at = "read" /\ f.rpc = Top(c).rpc /\ f.response = Top(c).response
  <2> DEFINE t == Top(c)
  <2>1. t \in [rpc : {t.rpc}, at : {t.at}, step : {t.step}, response : {t.response},
               crc : {t.crc}, data : {t.data}, result : {t.result}]
    BY <1>2 DEF Innermost, IsFrame
  <2> HIDE DEF t
  <2> QED
    BY <2>1
<1> HIDE DEF f
<1>4. CarriesAll(c) /\ Top(c)' = f /\ \A d \in Calls \ {c} : frames'[d] = frames[d]
  <2>1. Carries(Top(c), f)
    BY <1>3 DEF Carries
  <2> QED
    BY <1>1, <1>2, <2>1, SetTopCarries
<1>5. Uncancelled' <=> Uncancelled
  BY <1>1 DEF Uncancelled
<1>6. \A d \in Calls : \A i \in DOMAIN frames'[d] : OwnFrame(d, frames[d][i])'
  BY <1>1, <1>4, <1>5, FramesStayOwn
<1>7. \A i \in DOMAIN inbox' : Genuine(inbox[i])'
  BY <1>1, <1>2, InboxStaysGenuine DEF InboxKept
<1>8. frames'[c] # << >>
  <2>1. WithTop(frames[c], f) # << >>
    <3>1. WithTop(frames[c], f) = << f >> \/ \E o : WithTop(frames[c], f) = << o, f >>
      BY <1>2, TopChanged
    <3>2. << f >> # << >> /\ \A o : << o, f >> # << >>
      BY TupleWhere
    <3> QED
      BY <3>1, <3>2, Zenon
  <2> QED
    BY <1>1, <2>1 DEF SetTop, IInv, Stacks
<1>9. ASSUME Uncancelled' PROVE InTurn'
  <2>1. InTurn
    BY <1>5, <1>9 DEF OwnInv
  <2>2. inbox = << >>
    <3> SUFFICES ASSUME inbox # << >> PROVE FALSE
      OBVIOUS
    <3>1. Awaits(inbox[1].by) /\ inbox[1].by \in Calls
      BY <2>1 DEF InTurn, IInv, KeyInv, Begun
    <3>2. inbox[1].by = c
      BY <1>1, <3>1, ExchangeAlone DEF Awaits, Exchanging
    <3> QED
      BY <1>2, <3>1, <3>2 DEF Awaits, At
  <2>3. \A q : inbox' = Append(<< >>, q) => Len(inbox') = 1 /\ inbox'[1] = q
    OBVIOUS
  <2>4. Len(inbox') = 1 /\ inbox'[1] = Request(c)
    BY <1>1, <2>2, <2>3
  <2>5. Request(c).by = c
    BY <1>2, RequestIsBegun
  <2>6. Awaits(c)'
    <3>1. Top(c).response = NoMessage
      BY <1>2, <2>1 DEF InTurn, Early
    <3> QED
      BY <1>3, <1>4, <1>8, <3>1 DEF Awaits, At
  <2>7. inbox'[1].by = c
    BY <2>4, <2>5
  <2>8. Awaits(inbox[1].by)'
    <3>1. \A d : d = c => Awaits(d)'
      BY <2>6
    <3> QED
      BY <2>7, <3>1
  <2>9. ASSUME NEW d \in Calls, frames'[d] # << >>, Top(d)'.at \in Early
        PROVE  Top(d)'.response = NoMessage
    <3>1. d # c
      BY <1>3, <1>4, <2>9 DEF Early
    <3> QED
      BY <1>4, <2>1, <2>9, <3>1 DEF InTurn, Top
  <2> QED
    BY <2>4, <2>8, <2>9 DEF InTurn
<1> QED
  BY <1>6, <1>7, <1>9 DEF OwnInv

LEMMA CallOwn ==
  ASSUME IInv, OwnInv, NEW c \in Calls, Call(c), UNCHANGED program
  PROVE  OwnInv'
<1> DEFINE g == Frame(program[c])
<1>1. /\ outcome[c] = "idle" /\ program[c] # "none" /\ program[c] # "StopExecution"
      /\ UNCHANGED << inbox, cancels >>
  BY DEF Call, robot, OwnInv
<1>2. frames[c] = << >> /\ program[c] \in DOMAIN Requests
  BY <1>1, StackFacts DEF IInv, Plain
<1>3. /\ \A d \in Calls \ {c} : requestId'[d] = requestId[d]
      /\ Requests[program[c]].keyed => requestId'[c] # 0
  <2>1. CASE program[c] \in Motions
    <3>1. requestId' = [requestId EXCEPT ![c] = requestCounter + 1]
      BY <2>1 DEF Call, NextRequestId
    <3> QED
      BY <3>1 DEF IInv, KeyInv
  <2>2. CASE program[c] \notin Motions
    BY <1>1, <1>2, <2>2, KeyedRpcs DEF Call
  <2> QED
    BY <2>1, <2>2
<1>4. /\ g.rpc = program[c] /\ g.response = NoMessage
  BY DEF Frame
<1> HIDE DEF g
<1>5. /\ \A d \in Calls \ {c} : frames'[d] = frames[d]
      /\ frames'[c] = << >> \/ frames'[c] = << g >>
  BY <1>2 DEF Call, IInv, Stacks, g
<1>6. Uncancelled' <=> Uncancelled
  BY <1>1 DEF Uncancelled
<1>7. ASSUME NEW d \in Calls, NEW i \in DOMAIN frames'[d]
      PROVE  OwnFrame(d, frames[d][i])'
  <2>1. CASE d = c
    <3>1. frames'[c][i] = g
      BY <1>5, <1>7, <2>1, TupleWhere
    <3> QED
      BY <1>3, <1>4, <2>1, <3>1 DEF OwnFrame, OwnResponse
  <2>2. CASE d # c
    <3>1. OwnFrame(d, frames[d][i]) /\ frames'[d] = frames[d] /\ requestId'[d] = requestId[d]
      BY <1>3, <1>5, <1>7, <2>2 DEF OwnInv
    <3> QED
      BY <1>6, <3>1 DEF OwnFrame, OwnResponse
  <2> QED
    BY <2>1, <2>2
<1>8. \A i \in DOMAIN inbox' : Genuine(inbox[i])'
  <2>1. \A i \in DOMAIN inbox : inbox[i].by \in Calls /\ inbox[i].by # c
    BY <1>1 DEF IInv, KeyInv, Begun
  <2> QED
    BY <1>1, <1>3, <2>1 DEF OwnInv, Genuine
<1>9. ASSUME Uncancelled' PROVE InTurn'
  <2>1. InTurn
    BY <1>6, <1>9 DEF OwnInv
  <2>2. inbox # << >> => Awaits(inbox[1].by)'
    <3> SUFFICES ASSUME inbox # << >> PROVE Awaits(inbox[1].by)'
      OBVIOUS
    <3>1. Awaits(inbox[1].by) /\ inbox[1].by \in Calls
      BY <2>1 DEF InTurn, IInv, KeyInv, Begun
    <3>2. \A d \in Calls : Awaits(d) => frames'[d] = frames[d]
      BY <1>2, <1>5 DEF Awaits, At
    <3>3. \A d : frames'[d] = frames[d] /\ Awaits(d) => Awaits(d)'
      BY DEF Awaits, At, Top
    <3>4. inbox' = inbox
      BY <1>1
    <3> QED
      BY <3>1, <3>2, <3>3, <3>4
  <2>3. ASSUME NEW d \in Calls, frames'[d] # << >>, Top(d)'.at \in Early
        PROVE  Top(d)'.response = NoMessage
    <3>1. CASE d = c
      <4>1. frames'[c] = << g >>
        BY <1>5, <2>3, <3>1
      <4>2. Top(c)' = g
        BY <4>1, TopIs
      <4> QED
        BY <1>4, <3>1, <4>2
    <3>2. CASE d # c
      BY <1>5, <2>1, <2>3, <3>2 DEF InTurn, Top
    <3> QED
      BY <3>1, <3>2
  <2> QED
    BY <1>1, <2>1, <2>2, <2>3 DEF InTurn
<1> QED
  BY <1>7, <1>8, <1>9 DEF OwnInv

-----------------------------------------------------------------------------
(* The robot.                                                              *)

\* An answer goes to the call whose id it carries, or, without an id and as long
\* as nobody has been cancelled, to the only one that waits.
LEMMA TakenIsOwn ==
  ASSUME IInv, OwnInv, inbox # << >>, NEW m, m.rpc = inbox[1].rpc, m.key = inbox[1].key,
         m.by = inbox[1].by, NEW c \in Calls, At(c, "write") \/ At(c, "read"),
         IsResponseTo(m, Top(c).rpc, requestId[c])
  PROVE  /\ Requests[m.rpc].keyed => m.by = c
         /\ Uncancelled => m.by = c /\ At(c, "read")
<1>1. 1 \in DOMAIN inbox /\ inbox[1].by \in Calls
  BY DEF IInv, KeyInv, Begun
<1>2. ASSUME Requests[m.rpc].keyed PROVE m.by = c
  <2>1. m.key = requestId[m.by] /\ m.key # 0
    BY <1>1, <1>2 DEF OwnInv, Genuine
  <2>2. m.key = requestId[c]
    BY <1>2 DEF IsResponseTo
  <2> QED
    BY <1>1, <2>1, <2>2 DEF IInv, KeyInv
<1>3. ASSUME Uncancelled PROVE m.by = c /\ At(c, "read")
  <2>1. Awaits(m.by)
    BY <1>3 DEF OwnInv, InTurn
  <2>2. m.by = c
    BY <1>1, <2>1, ExchangeAlone DEF Awaits, Exchanging
  <2> QED
    BY <2>1, <2>2 DEF Awaits
<1> QED
  BY <1>2, <1>3

\* The innermost RPC of c has its response.
Takes(c, m) ==
  \E g : /\ g.at = Top(c).at /\ g.rpc = Top(c).rpc /\ g.step = Top(c).step
         /\ g.response = m /\ frames'[c] = WithTop(frames[c], g)

\* Who takes an answer waits for one, and goes on waiting where it is.
LEMMA AnswerTaken ==
  ASSUME IInv, OwnInv, inbox # << >>, NEW m, Received(m), m.rpc = inbox[1].rpc,
         m.key = inbox[1].key, m.by = inbox[1].by, NEW c \in Calls, frames'[c] # frames[c]
  PROVE  /\ frames[c] # << >> /\ (At(c, "write") \/ At(c, "read"))
         /\ m.rpc = Top(c).rpc
         /\ Requests[m.rpc].keyed => m.by = c
         /\ Uncancelled => m.by = c /\ At(c, "read")
         /\ Takes(c, m)
<1> DEFINE t == Top(c)
           g == [t EXCEPT !.response = m]
           heard == /\ subscribed
                    /\ At(c, "write") \/ At(c, "read")
                    /\ t.response = NoMessage
                    /\ IsResponseTo(m, t.rpc, requestId[c])
<1>1. frames'[c] = IF heard THEN WithTop(frames[c], g) ELSE frames[c]
  BY Zenon DEF Received
<1>2. heard
  BY <1>1
<1>3. frames[c] # << >>
  BY <1>2 DEF At
<1>4. m.rpc = t.rpc
  BY <1>2 DEF IsResponseTo
<1>5. /\ Requests[m.rpc].keyed => m.by = c
      /\ Uncancelled => m.by = c /\ At(c, "read")
  BY <1>2, TakenIsOwn
<1>6. g.at = t.at /\ g.rpc = t.rpc /\ g.step = t.step /\ g.response = m
  <2>1. t \in [rpc : {t.rpc}, at : {t.at}, step : {t.step}, response : {t.response},
               crc : {t.crc}, data : {t.data}, result : {t.result}]
    BY <1>3, Shape DEF IInv, Innermost, IsFrame
  <2> HIDE DEF t
  <2> QED
    BY <2>1
<1>7. frames'[c] = WithTop(frames[c], g)
  BY <1>1, <1>2
<1> HIDE DEF g
<1> QED
  BY <1>2, <1>3, <1>4, <1>5, <1>6, <1>7 DEF Takes

LEMMA RobotHandlesOwn ==
  ASSUME IInv, OwnInv, RobotHandles, UNCHANGED program
  PROVE  OwnInv'
<1> DEFINE q == Head(inbox)
<1>1. /\ inbox # << >> /\ inbox' = Tail(inbox)
      /\ UNCHANGED << requestId, cancels >>
  BY DEF RobotHandles, task, ids, ble, sessions
<1>2. PICK ok \in BOOLEAN : Handle(q, ok)
  BY DEF RobotHandles
<1>3. inbox \in Seq(Queries)
  BY DEF IInv, KeyInv
<1>4. /\ q = inbox[1] /\ 1 \in DOMAIN inbox
      /\ \A i \in DOMAIN inbox' : i + 1 \in DOMAIN inbox /\ inbox'[i] = inbox[i + 1]
      /\ Len(inbox) = 1 => inbox' = << >>
  BY <1>1, <1>3
<1> HIDE DEF q
<1>5. PICK m : Received(m) /\ m.rpc = q.rpc /\ m.key = q.key /\ m.by = q.by
  BY <1>2, HandleAnswers
<1>6. Uncancelled' <=> Uncancelled
  BY <1>1 DEF Uncancelled
\* Who takes the answer, and who does not.
<1>7. ASSUME NEW c \in Calls, frames'[c] # frames[c]
      PROVE  /\ frames[c] # << >>
             /\ m.rpc = Top(c).rpc
             /\ Requests[m.rpc].keyed => m.by = c
             /\ Uncancelled => m.by = c /\ At(c, "read")
             /\ Takes(c, m)
  BY <1>1, <1>4, <1>5, <1>7, AnswerTaken
<1>8. ASSUME NEW c \in Calls, NEW i \in DOMAIN frames'[c]
      PROVE  OwnFrame(c, frames[c][i])'
  <2>1. CASE i \in DOMAIN frames[c] /\ frames'[c][i] = frames[c][i]
    <3>1. OwnFrame(c, frames[c][i])
      BY <2>1 DEF OwnInv
    <3> QED
      BY <1>1, <1>6, <2>1, <3>1 DEF OwnFrame, OwnResponse
  <2>2. CASE ~(i \in DOMAIN frames[c] /\ frames'[c][i] = frames[c][i])
    <3>1. frames'[c] # frames[c]
      BY <1>8, <2>2
    <3>2. PICK g : /\ g.at = Top(c).at /\ g.rpc = Top(c).rpc /\ g.step = Top(c).step
                   /\ g.response = m /\ frames'[c] = WithTop(frames[c], g)
      BY <1>7, <3>1, Zenon DEF Takes
    <3>3. frames[c] # << >>
      BY <1>7, <3>1, Zenon
    <3>4. frames'[c][i] = g /\ \E j \in DOMAIN frames[c] : frames[c][j] = Top(c)
      <4>1. CASE frames[c] = << Top(c) >>
        <5>1. frames'[c] = << g >>
          <6>1. \A t : WithTop(<< t >>, g) = << g >>
            BY TopOfOne
          <6> QED
            BY <3>2, <4>1, <6>1, Zenon
        <5>2. frames'[c][i] = g
          BY <1>8, <5>1, TupleWhere
        <5>3. 1 \in DOMAIN frames[c] /\ frames[c][1] = Top(c)
          BY <4>1, TupleWhere
        <5> QED
          BY <5>2, <5>3
      <4>2. CASE \E o : frames[c] = << o, Top(c) >>
        <5>1. PICK o : frames[c] = << o, Top(c) >>
          BY <4>2
        <5>2. frames'[c] = << o, g >>
          <6>1. \A t : WithTop(<< o, t >>, g) = << o, g >>
            BY TopOfTwo
          <6> QED
            BY <3>2, <5>1, <6>1, Zenon
        <5>3. /\ 1 \in DOMAIN frames[c] /\ frames[c][1] = o
              /\ 2 \in DOMAIN frames[c] /\ frames[c][2] = Top(c)
          BY <5>1, TupleWhere
        <5>4. (i = 1 /\ frames'[c][i] = o) \/ (i = 2 /\ frames'[c][i] = g)
          BY <1>8, <5>2, TupleWhere
        <5> QED
          BY <2>2, <5>3, <5>4
      <4> QED
        BY <3>3, <4>1, <4>2, Shape DEF IInv
    <3>5. Requests[g.rpc].keyed => requestId[c] # 0
      BY <3>2, <3>4 DEF OwnInv, OwnFrame
    <3>6. (Requests[g.rpc].keyed => m.by = c) /\ (Uncancelled => m.by = c)
      <4>1. g.rpc = m.rpc
        <5>1. m.rpc = Top(c).rpc
          BY <1>7, <3>1, Zenon
        <5> QED
          BY <3>2, <5>1, Zenon
      <4>2. (Requests[m.rpc].keyed => m.by = c) /\ (Uncancelled => m.by = c)
        BY <1>7, <3>1, Zenon
      <4> QED
        BY <4>1, <4>2
    <3>7. \A h : h = g => OwnFrame(c, h)'
      BY <1>1, <1>6, <3>2, <3>5, <3>6 DEF OwnFrame, OwnResponse
    <3> QED
      BY <3>4, <3>7
  <2> QED
    BY <2>1, <2>2
<1>9. \A i \in DOMAIN inbox' : Genuine(inbox[i])'
  BY <1>1, <1>4 DEF OwnInv, Genuine
<1>10. ASSUME Uncancelled' PROVE InTurn'
  <2>1. InTurn
    BY <1>6, <1>10 DEF OwnInv
  <2>2. inbox' = << >>
    BY <1>1, <1>4, <2>1 DEF InTurn
  <2>3. ASSUME NEW d \in Calls, frames'[d] # << >>, Top(d)'.at \in Early
        PROVE  Top(d)'.response = NoMessage
    <3>1. CASE frames'[d] = frames[d]
      BY <2>1, <2>3, <3>1 DEF InTurn, Top
    <3>2. CASE frames'[d] # frames[d]
      <4>1. PICK g : /\ g.at = Top(d).at /\ g.rpc = Top(d).rpc /\ g.step = Top(d).step
                     /\ g.response = m /\ frames'[d] = WithTop(frames[d], g)
        BY <1>7, <3>2, Zenon DEF Takes
      <4>2. frames[d] # << >> /\ At(d, "read")
        BY <1>6, <1>7, <1>10, <3>2, Zenon
      <4>3. Top(d)' = g
        <5>1. WithTop(frames[d], g) = << g >> \/ \E o : WithTop(frames[d], g) = << o, g >>
          BY <4>2, TopChanged
        <5>2. frames'[d] = << g >> \/ \E o : frames'[d] = << o, g >>
          BY <4>1, <5>1
        <5> QED
          BY <5>2, TopIs
      <4> QED
        BY <2>3, <4>1, <4>2, <4>3 DEF At, Early
    <3> QED
      BY <3>1, <3>2
  <2> QED
    BY <2>2, <2>3 DEF InTurn
<1> QED
  BY <1>8, <1>9, <1>10 DEF OwnInv

-----------------------------------------------------------------------------
(* The invariant.                                                          *)

LEMMA QuietOwn ==
  ASSUME OwnInv, UNCHANGED << program, frames, inbox, requestId, cancels >>
  PROVE  OwnInv'
<1>1. Uncancelled' <=> Uncancelled
  BY DEF Uncancelled
<1>2. \A c, f : OwnFrame(c, f)' <=> OwnFrame(c, f)
  BY <1>1 DEF OwnFrame, OwnResponse
<1>3. InTurn' <=> InTurn
  BY DEF InTurn, Awaits, At, Top
<1> QED
  BY <1>1, <1>2, <1>3 DEF OwnInv, Genuine

LEMMA NextOwn ==
  ASSUME IInv, OwnInv, [Next]_vars
  PROVE  OwnInv'
<1>1. CASE Next
  <2>1. UNCHANGED program
    BY <1>1 DEF Next
  <2>2. CASE RobotHandles
    BY <2>1, <2>2, RobotHandlesOwn
  <2>3. CASE \E c \in Calls : Runs(c) \/ Fails(c)
    <3>1. PICK c \in Calls : Runs(c) \/ Fails(c)
      BY <2>3
    <3>2. CASE Write(c)
      BY <2>1, <3>2, WriteOwn
    <3>3. CASE ~Write(c)
      BY <2>1, <3>1, <3>3, RunsQuietly, RunsProceeds, FailsProceeds, ProceedsOwn
    <3> QED
      BY <3>2, <3>3
  <2>4. CASE \E c \in Calls : RobotEnds(c)
    BY <2>1, <2>4, QuietOwn DEF RobotEnds
  <2>5. CASE \E c \in Calls : Call(c)
    BY <2>1, <2>5, CallOwn
  <2>6. CASE \E c \in Calls : Cancel(c)
    BY <2>1, <2>6, CancelOwn
  <2> QED
    BY <1>1, <2>2, <2>3, <2>4, <2>5, <2>6, Zenon DEF Next, Works
<1>2. CASE UNCHANGED vars
  BY <1>2, QuietOwn DEF vars, task, ids, robot
<1> QED
  BY <1>1, <1>2

LEMMA InitOwn ==
  ASSUME Init
  PROVE  OwnInv
<1>1. \A c \in Calls : program[c] # "StopExecution"
  BY ProgramsAssumption DEF Init
<1> QED
  BY <1>1 DEF Init, OwnInv, InTurn

LEMMA OwnFromInv ==
  ASSUME IInv, OwnInv
  PROVE  ResponseIsOwn
<1> SUFFICES ASSUME NEW c \in Calls, NEW i \in DOMAIN frames[c],
                    ~Long(frames[c][i].rpc), frames[c][i].response # NoMessage,
                    frames[c][i].response.by # c
             PROVE  ~Requests[frames[c][i].rpc].keyed /\ \E d \in Calls : cancels[d] > 0
  BY Zenon DEF ResponseIsOwn
<1>1. ~Requests[frames[c][i].rpc].keyed /\ ~Uncancelled
  BY DEF OwnInv, OwnFrame, OwnResponse
<1> QED
  BY <1>1 DEF Uncancelled, IInv, Plain

\* The response of an RPC that is not long answers its own request, whatever is
\* cancelled, refused or late, if it carries a request id; and if not, then as
\* long as no call has been cancelled (_rpc, is_response_to,
\* get_next_request_id).
THEOREM ResponseIsOwnHolds == Spec => []ResponseIsOwn
<1>1. Spec => []OwnInv
  BY InitOwn, NextOwn, SpecIInv, PTL DEF Spec
<1> QED
  BY <1>1, SpecIInv, OwnFromInv, PTL
-----------------------------------------------------------------------------
(* What is left has been stopped.                                          *)
(*                                                                         *)
(* A motion begins with the request that starts it, and from then on the   *)
(* call keeps an eye on it: it waits for the response, is in the body, or  *)
(* in a StopExecution that has still to be answered.  When that answer     *)
(* comes, the robot has handled the StopExecution, and so, in the order    *)
(* they were written, the request that started the motion.                 *)

\* The requests that start a motion of their call, and that stop it.
Starts(q) == q.rpc \in Motions \/ (q.rpc = "LongRPCExtensionExecute" /\ q.step > 0)

StartOf(q, c) == q.by = c /\ Starts(q)
StopOf(q, c) == q.by = c /\ q.rpc = "StopExecution"

\* The robot executes the motion of c, or will.
Moving(c) == c \in executing \/ \E i \in DOMAIN inbox : StartOf(inbox[i], c)

\* Nothing has been sent that starts a motion.
Unsent(s) ==
  /\ s # << >>
  /\ \/ s[1].at \in Early
     \/ s[1].at = "long" /\ s[1].step < WriteChunks
     \/ /\ s[1].at = "long" /\ s[1].step = WriteChunks
        /\ 2 \in DOMAIN s => s[2].at \in Early

Before(c) == outcome[c] = "idle" \/ Unsent(frames[c])

\* A StopExecution that has not been answered, and will not end well unless it is.
Stopping(f) ==
  /\ f.response = NoMessage
  /\ f.at \in {"unsubscribe", "stopnotify"} => f.result # "ok"

\* The call has still to see to its motion.
SeesTo(s) ==
  /\ s # << >>
  /\ \/ s[1].at \in {"long", "body"}
     \/ s[1].at = "read" /\ s[1].rpc \in Motions
     \/ s[1].at = "stopping" /\ Stopping(s[2])

\* Which RPC is nested in which.
NestedAsMeant(s) ==
  2 \in DOMAIN s => s[2].rpc = IF s[1].at = "long" THEN Nested(s[1].step) ELSE "StopExecution"

AbortsLoose(c) == \A i \in DOMAIN frames[c] : frames[c][i].at = "abort" => c \in loose

CallMotion(c) ==
  /\ NestedAsMeant(frames[c]) /\ AbortsLoose(c)
  /\ Before(c) => /\ event[c] = "none" /\ ~Moving(c)
                  /\ \A i \in DOMAIN inbox : ~StopOf(inbox[i], c)
  /\ Moving(c) => c \in loose \/ SeesTo(frames[c])
  /\ Moving(c) => event[c] = "none"
  /\ c \in executing => \A i \in DOMAIN inbox : ~StartOf(inbox[i], c)

\* A call starts its motion once, and stops it after that.
InboxMotion ==
  \A i, j \in DOMAIN inbox :
    /\ Starts(inbox[i]) /\ Starts(inbox[j]) /\ inbox[i].by = inbox[j].by => i = j
    /\ Starts(inbox[i]) /\ StopOf(inbox[j], inbox[i].by) => i < j

MotionInv == (\A c \in Calls : CallMotion(c)) /\ InboxMotion

-----------------------------------------------------------------------------
(* What becomes of a stack.                                                *)

\* Only motions have requests too long for a packet.
LEMMA LongAreMotions ==
  \A rpc \in DOMAIN Requests : Long(rpc) => rpc \in Motions
<1> SUFFICES ASSUME NEW rpc \in DOMAIN Requests \ Motions PROVE ~Long(rpc)
  OBVIOUS
<1> USE DEF Long, IsLong, Length, RestBytes, PacketSizeMax, Packet
<1>1. ~Long("MemRead") /\ ~Long("MemWrite") /\ ~Long("StopExecution") /\ ~Long("LongRPCExtensionExecute")
  BY NestedAreShort DEF NestedRpcs
<1>2. ~Long("WatcherSetup")
  BY DEF Requests, WatcherSetup
<1>3. ~Long("WatcherRegionSetup")
  BY DEF Requests, WatcherRegionSetup
<1>4. ~Long("SetLED")
  BY DEF Requests, SetLED
<1>5. ~Long("Calibrate")
  BY DEF Requests, Calibrate
<1>6. ~Long("TurnOff")
  BY DEF Requests, TurnOff
<1>7. ~Long("UpdateFirmware")
  BY DEF Requests, UpdateFirmware
<1>8. ~Long("SetRNGSeed")
  BY DEF Requests, SetRNGSeed
<1>9. ~Long("SensorsLogging")
  BY DEF Requests, SensorsLogging
<1>10. ~Long("MemoryTest")
  BY DEF Requests, MemoryTest
<1> HIDE DEF Long
<1>11. DOMAIN Requests \ Motions \subseteq
         {"MemRead", "MemWrite", "StopExecution", "LongRPCExtensionExecute", "WatcherSetup",
          "WatcherRegionSetup", "SetLED", "Calibrate", "TurnOff", "UpdateFirmware", "SetRNGSeed",
          "SensorsLogging", "MemoryTest"}
  BY DEF Requests, Motions
<1> QED
  BY <1>1, <1>2, <1>3, <1>4, <1>5, <1>6, <1>7, <1>8, <1>9, <1>10, <1>11

\* The predicates on a stack of one and of two.
LEMMA StackOfOne ==
  ASSUME NEW f
  PROVE  /\ Unsent(<< f >>) <=>
              f.at \in Early \/ (f.at = "long" /\ (f.step < WriteChunks \/ f.step = WriteChunks))
         /\ f.at \in {"long", "body"} \/ (f.at = "read" /\ f.rpc \in Motions) => SeesTo(<< f >>)
         /\ SeesTo(<< f >>) =>
              f.at \in {"long", "body", "stopping"} \/ (f.at = "read" /\ f.rpc \in Motions)
         /\ NestedAsMeant(<< f >>)
BY TupleWhere DEF Unsent, SeesTo, NestedAsMeant

LEMMA StackOfTwo ==
  ASSUME NEW o, NEW f, o.at \in {"long", "stopping"}
  PROVE  /\ Unsent(<< o, f >>) <=>
              /\ o.at = "long"
              /\ o.step < WriteChunks \/ (o.step = WriteChunks /\ f.at \in Early)
         /\ SeesTo(<< o, f >>) <=> o.at = "long" \/ Stopping(f)
         /\ NestedAsMeant(<< o, f >>) <=>
              f.rpc = IF o.at = "long" THEN Nested(o.step) ELSE "StopExecution"
BY TupleWhere DEF Unsent, SeesTo, NestedAsMeant, Early

LEMMA StackOfNone == ~Unsent(<< >>) /\ ~SeesTo(<< >>) /\ NestedAsMeant(<< >>)
BY TupleWhere DEF Unsent, SeesTo, NestedAsMeant

-----------------------------------------------------------------------------
(* The steps of a call that are quiet about its motion.                    *)

\* A call does not go back to where nothing has been sent, and loses sight of
\* its motion only when there is none, or before the robot could be told.
Keeps(c) ==
  /\ \A d \in Calls \ {c} : frames'[d] = frames[d] /\ outcome'[d] = outcome[d]
  /\ loose \subseteq loose'
  /\ Before(c)' => Before(c)
  /\ SeesTo(frames[c]) => SeesTo(frames'[c]) \/ c \in loose' \/ ~Moving(c)
  /\ NestedAsMeant(frames'[c]) /\ AbortsLoose(c)'

\* The innermost RPC of c goes on as f.
Onward(c, f) ==
  LET t == Top(c) IN
  /\ f.rpc = t.rpc
  /\ f.at \in Early \cup {"long"} => t.at \in Early
  /\ t.at \in {"long", "body"} \/ (t.at = "read" /\ t.rpc \in Motions) =>
       f.at \in {"body", "abort"} \/ ~Moving(c)
  /\ t.at \notin {"long", "body"} /\ Stopping(t) => Stopping(f) \/ "abort" \in {t.at, f.at}

LEMMA TopAborts ==
  ASSUME IInv, MotionInv, NEW c \in Calls, At(c, "abort")
  PROVE  c \in loose
<1>1. \E i \in DOMAIN frames[c] : frames[c][i] = Top(c)
  <2>1. CASE frames[c] = << Top(c) >>
    <3>1. 1 \in DOMAIN frames[c] /\ frames[c][1] = Top(c)
      BY <2>1, TupleWhere
    <3> QED
      BY <3>1
  <2>2. CASE \E o : frames[c] = << o, Top(c) >>
    <3>1. 2 \in DOMAIN frames[c] /\ frames[c][2] = Top(c)
      BY <2>2, TupleWhere
    <3> QED
      BY <3>1
  <2> QED
    BY <2>1, <2>2, AtWhere DEF IInv
<1> QED
  BY <1>1 DEF MotionInv, CallMotion, AbortsLoose, At

LEMMA OnwardKeeps ==
  ASSUME IInv, MotionInv, NEW c \in Calls, frames[c] # << >>, NEW f, Onward(c, f),
         SetTop(c, f), UNCHANGED outcome, loose' = IF f.at = "abort" THEN loose \cup {c} ELSE loose
  PROVE  Keeps(c)
<1> DEFINE t == Top(c)
<1>1. /\ frames'[c] = WithTop(frames[c], f)
      /\ \A d \in Calls \ {c} : frames'[d] = frames[d] /\ outcome'[d] = outcome[d]
      /\ loose \subseteq loose' /\ (f.at = "abort" => c \in loose')
  BY DEF SetTop, IInv, Stacks
<1>2. Innermost(t)
  BY Shape DEF IInv
<1>3. t.at = "abort" => c \in loose'
  BY <1>1, TopAborts DEF At
<1>4. NestedAsMeant(frames[c])
  BY DEF MotionInv, CallMotion
<1>5. CASE frames[c] = << t >>
  <2>1. frames'[c] = << f >>
    <3>1. \A h : WithTop(<< h >>, f) = << f >>
      BY TopOfOne
    <3> QED
      BY <1>1, <1>5, <3>1, Zenon
  <2>2. Unsent(frames'[c]) => Unsent(frames[c])
    <3>1. Unsent(<< f >>) => f.at \in Early \cup {"long"}
      BY StackOfOne
    <3>2. t.at \in Early => Unsent(<< t >>)
      BY StackOfOne
    <3> QED
      BY <1>5, <2>1, <3>1, <3>2 DEF Onward
  <2>3. SeesTo(frames[c]) => SeesTo(frames'[c]) \/ c \in loose' \/ ~Moving(c)
    <3>1. SeesTo(<< t >>) => t.at \in {"long", "body"} \/ (t.at = "read" /\ t.rpc \in Motions)
      BY <1>2, StackOfOne DEF Innermost
    <3>2. f.at = "body" => SeesTo(<< f >>)
      BY StackOfOne
    <3> QED
      BY <1>1, <1>5, <2>1, <3>1, <3>2 DEF Onward
  <2>4. NestedAsMeant(frames'[c])
    BY <2>1, StackOfOne
  <2>5. \A i \in DOMAIN frames'[c] : frames'[c][i] = f
    BY <2>1, TupleWhere
  <2> QED
    BY <1>1, <2>2, <2>3, <2>4, <2>5 DEF Keeps, Before, AbortsLoose
<1>6. CASE \E o : frames[c] = << o, t >> /\ Around(o) /\ t.rpc \in NestedRpcs
  <2>1. PICK o : frames[c] = << o, t >> /\ Around(o)
    BY <1>6
  <2>0. t.at \notin {"long", "body"}
    BY <1>2, <1>6, NestedWhere
  <2>2. frames'[c] = << o, f >>
    <3>1. \A h : WithTop(<< o, h >>, f) = << o, f >>
      BY TopOfTwo
    <3> QED
      BY <1>1, <2>1, <3>1, Zenon
  <2>3. o.at \in {"long", "stopping"}
    BY <2>1 DEF Around
  <2>4. Unsent(frames'[c]) => Unsent(frames[c])
    <3>1. /\ Unsent(<< o, f >>) =>
               o.at = "long" /\ (o.step < WriteChunks \/ (o.step = WriteChunks /\ f.at \in Early))
          /\ o.at = "long" /\ (o.step < WriteChunks \/ (o.step = WriteChunks /\ t.at \in Early)) =>
               Unsent(<< o, t >>)
      BY <2>3, StackOfTwo
    <3> QED
      BY <2>1, <2>2, <3>1 DEF Onward
  <2>5. SeesTo(frames[c]) => SeesTo(frames'[c]) \/ c \in loose'
    <3>1. /\ SeesTo(<< o, t >>) => o.at = "long" \/ Stopping(t)
          /\ o.at = "long" \/ Stopping(f) => SeesTo(<< o, f >>)
      BY <2>3, StackOfTwo
    <3> QED
      BY <1>1, <1>3, <2>0, <2>1, <2>2, <3>1 DEF Onward
  <2>6. NestedAsMeant(frames'[c])
    <3>1. /\ NestedAsMeant(<< o, t >>) => t.rpc = IF o.at = "long" THEN Nested(o.step) ELSE "StopExecution"
          /\ f.rpc = (IF o.at = "long" THEN Nested(o.step) ELSE "StopExecution") => NestedAsMeant(<< o, f >>)
      BY <2>3, StackOfTwo
    <3> QED
      BY <1>4, <2>1, <2>2, <3>1 DEF Onward
  <2>7. \A i \in DOMAIN frames'[c] : frames'[c][i] = o \/ frames'[c][i] = f
    BY <2>2, TupleWhere
  <2> QED
    BY <1>1, <2>3, <2>4, <2>5, <2>6, <2>7 DEF Keeps, Before, AbortsLoose
<1> QED
  BY <1>5, <1>6, Shape DEF IInv

\* A chunk of a long RPC, or a StopExecution, begins.
LEMMA PushKeeps ==
  ASSUME IInv, MotionInv, NEW c \in Calls, frames[c] = << Top(c) >>, NEW f, NEW rpc,
         \/ f = Top(c) /\ f.at = "long" /\ rpc = Nested(f.step)
         \/ f.at = "stopping" /\ rpc = "StopExecution",
         Push(c, f, rpc), UNCHANGED << outcome, loose >>
  PROVE  Keeps(c)
<1> DEFINE t == Top(c)
           g == Frame(rpc)
<1>1. /\ frames'[c] = Append(WithTop(frames[c], f), g)
      /\ \A d \in Calls \ {c} : frames'[d] = frames[d] /\ outcome'[d] = outcome[d]
  BY DEF Push, IInv, Stacks
<1>2. g.rpc = rpc /\ g.at = "subscribe" /\ Stopping(g)
  BY DEF Frame, Stopping
<1> HIDE DEF g
<1>3. frames'[c] = << f, g >>
  <2>1. \A h : WithTop(<< h >>, f) = << f >> /\ Append(<< f >>, g) = << f, g >>
    BY TopOfOne
  <2> QED
    BY <1>1, <2>1, Zenon
<1>4. f.at \in {"long", "stopping"}
  OBVIOUS
<1>5. Unsent(frames'[c]) => Unsent(frames[c])
  <2>1. Unsent(<< f, g >>) => f.at = "long" /\ (f.step < WriteChunks \/ f.step = WriteChunks)
    BY <1>4, StackOfTwo
  <2>2. f.at = "long" /\ (f.step < WriteChunks \/ f.step = WriteChunks) => Unsent(<< f >>)
    BY StackOfOne
  <2> QED
    BY <1>3, <2>1, <2>2
<1>6. SeesTo(frames'[c]) /\ NestedAsMeant(frames'[c])
  <2>1. /\ f.at = "long" \/ Stopping(g) => SeesTo(<< f, g >>)
        /\ g.rpc = (IF f.at = "long" THEN Nested(f.step) ELSE "StopExecution") => NestedAsMeant(<< f, g >>)
    BY <1>4, StackOfTwo
  <2> QED
    BY <1>2, <1>3, <2>1
<1>7. AbortsLoose(c)'
  <2>1. \A i \in DOMAIN frames'[c] : frames'[c][i] = f \/ frames'[c][i] = g
    BY <1>3, TupleWhere
  <2> QED
    BY <1>2, <1>4, <2>1 DEF AbortsLoose
<1> QED
  BY <1>1, <1>5, <1>6, <1>7 DEF Keeps, Before

\* The RPC around goes on: a long one with its next chunk, if the last has ended
\* well, and a motion that has been stopped by leaving.
LEMMA ResumedAs ==
  ASSUME NEW o, Around(o), NEW inner, NEW result, NEW f, f = Resumed(o, inner, result)
  PROVE  /\ o.at = "stopping" => f.at = "unsubscribe"
         /\ o.at = "long" /\ result = "ok" => f.at = "long" /\ f.step = o.step + 1
         /\ o.at = "long" /\ result # "ok" => f.at = "abort"
<1>1. o \in [rpc : {o.rpc}, at : {o.at}, step : {o.step}, response : {o.response},
             crc : {o.crc}, data : {o.data}, result : {o.result}]
  BY DEF Around, IsFrame
<1>2. CASE o.at = "stopping"
  <2>1. PICK r : f = [o EXCEPT !.at = "unsubscribe", !.result = r]
    BY <1>2, Zenon DEF Resumed
  <2> QED
    BY <1>1, <1>2, <2>1
<1>3. CASE o.at = "long" /\ result = "ok"
  <2>1. PICK x, d : f = [o EXCEPT !.step = o.step + 1, !.crc = x, !.data = d]
    BY <1>3, Zenon DEF Resumed
  <2> QED
    BY <1>1, <1>3, <2>1
<1>4. CASE o.at = "long" /\ result # "ok"
  <2>1. f = [o EXCEPT !.at = "abort", !.result = result]
    BY <1>4, Zenon DEF Resumed
  <2> QED
    BY <1>1, <1>4, <2>1
<1>5. o.at \in {"long", "stopping"}
  BY DEF Around
<1> QED
  BY <1>2, <1>3, <1>4, <1>5

LEMMA EndsKeeps ==
  ASSUME IInv, MotionInv, NEW c \in Calls,
         NEW a \in {"subscribe", "notifying", "unsubscribe", "stopnotify"}, At(c, a),
         NEW result \in Results,
         result # "ok" \/ (a \in {"unsubscribe", "stopnotify"} /\ result = Top(c).result),
         Ends(c, result)
  PROVE  Keeps(c)
<1> DEFINE t == Top(c)
<1>1. frames[c] # << >> /\ t.at = a
  BY DEF At
<1>2. CASE frames[c] = << t >>
  <2>1. Front(frames[c]) = << >>
    BY <1>2, TopOfOne
  <2>2. /\ frames' = [frames EXCEPT ![c] = << >>]
        /\ outcome' = [outcome EXCEPT ![c] = result] /\ loose' = loose
    BY <2>1, Zenon DEF Ends
  <2>3. /\ frames'[c] = << >> /\ outcome'[c] # "idle"
        /\ \A d \in Calls \ {c} : frames'[d] = frames[d] /\ outcome'[d] = outcome[d]
    BY <2>2 DEF IInv, Stacks, Plain, Results
  <2>4. ~SeesTo(frames[c])
    BY <1>1, <1>2, StackOfOne
  <2>5. ~Unsent(frames'[c]) /\ NestedAsMeant(frames'[c])
    BY <2>3, StackOfNone
  <2>6. AbortsLoose(c)'
    BY <2>3, TupleWhere DEF AbortsLoose
  <2> QED
    BY <2>2, <2>3, <2>4, <2>5, <2>6 DEF Keeps, Before
<1>3. CASE \E o : frames[c] = << o, t >> /\ Around(o)
  <2>1. PICK o : frames[c] = << o, t >> /\ Around(o)
    BY <1>3
  <2>2. Front(frames[c]) = << o >>
    BY <2>1, TopOfTwo
  <2>3. << o >> # << >> /\ << o >>[Len(<< o >>)] = o
    BY TupleWhere
  <2>4. PICK f : /\ f = Resumed(o, t, result)
                 /\ frames' = [frames EXCEPT ![c] = WithTop(<< o >>, f)]
                 /\ loose' = IF result = "ok" THEN loose ELSE loose \cup {c}
                 /\ UNCHANGED outcome
    BY <2>2, <2>3, Zenon DEF Ends
  <2>5. /\ o.at = "stopping" => f.at = "unsubscribe"
        /\ o.at = "long" /\ result = "ok" => f.at = "long" /\ f.step = o.step + 1
        /\ o.at = "long" /\ result # "ok" => f.at = "abort"
    BY <2>1, <2>4, ResumedAs
  <2>6. frames' = [frames EXCEPT ![c] = << f >>]
    BY <2>4, TopOfOne
  <2>7. /\ frames'[c] = << f >> /\ loose \subseteq loose' /\ (result # "ok" => c \in loose')
        /\ \A d \in Calls \ {c} : frames'[d] = frames[d] /\ outcome'[d] = outcome[d]
    BY <2>4, <2>6 DEF IInv, Stacks
  <2>8. o.at \in {"long", "stopping"} /\ o.step \in Nat /\ WriteChunks \in Nat
    BY <2>1, BoundsAssumption DEF Around, IsFrame, FrameOK
  <2>9. Unsent(frames'[c]) => Unsent(frames[c])
    <3>1. Unsent(<< f >>) => f.at \in Early \/ (f.at = "long" /\ (f.step < WriteChunks \/ f.step = WriteChunks))
      BY StackOfOne
    <3>2. o.at = "long" /\ o.step < WriteChunks => Unsent(<< o, t >>)
      BY <2>8, StackOfTwo
    <3>3. Unsent(<< f >>) => o.at = "long" /\ f.step = o.step + 1
      BY <2>5, <2>8, <3>1 DEF Early
    <3>4. Unsent(<< f >>) => o.step < WriteChunks
      BY <2>5, <2>8, <3>1, <3>3 DEF Early
    <3> QED
      BY <2>1, <2>7, <3>2, <3>3, <3>4
  <2>10. SeesTo(frames[c]) => SeesTo(frames'[c]) \/ c \in loose'
    <3>1. SeesTo(<< o, t >>) => o.at = "long" \/ Stopping(t)
      BY <2>8, StackOfTwo
    <3>2. f.at = "long" => SeesTo(<< f >>)
      BY StackOfOne
    <3>3. result = "ok" => ~Stopping(t)
      BY <1>1 DEF Stopping
    <3> QED
      BY <2>1, <2>5, <2>7, <3>1, <3>2, <3>3
  <2>11. NestedAsMeant(frames'[c])
    BY <2>7, StackOfOne
  <2>12. AbortsLoose(c)'
    <3>1. \A i \in DOMAIN frames'[c] : frames'[c][i] = f
      BY <2>7, TupleWhere
    <3>2. f.at = "abort" => result # "ok"
      BY <2>5, <2>8
    <3> QED
      BY <2>7, <3>1, <3>2 DEF AbortsLoose
  <2> QED
    BY <2>4, <2>7, <2>9, <2>10, <2>11, <2>12 DEF Keeps, Before
<1> QED
  BY <1>1, <1>2, <1>3, Shape DEF IInv

-----------------------------------------------------------------------------
(* The steps of a call, seen that way.                                     *)

\* The RPC at t goes on as f, at b with the result r.
MovedTo(f, t, b, r) ==
  f.at = b /\ f.rpc = t.rpc /\ f.response = t.response /\ f.result = r

LEMMA AtAs ==
  ASSUME IInv, NEW c \in Calls, NEW a, At(c, a), NEW b
  PROVE  /\ MovedTo([Top(c) EXCEPT !.at = b], Top(c), b, Top(c).result)
         /\ \A r : MovedTo([Top(c) EXCEPT !.at = b, !.result = r], Top(c), b, r)
<1> DEFINE t == Top(c)
<1>1. t \in [rpc : {t.rpc}, at : {t.at}, step : {t.step}, response : {t.response},
             crc : {t.crc}, data : {t.data}, result : {t.result}]
  BY AtWhere DEF IInv, Innermost, IsFrame
<1> HIDE DEF t
<1>2. MovedTo([t EXCEPT !.at = b], t, b, t.result)
  BY <1>1 DEF MovedTo
<1>3. \A r : MovedTo([t EXCEPT !.at = b, !.result = r], t, b, r)
  BY <1>1 DEF MovedTo
<1> QED
  BY <1>2, <1>3 DEF t

LEMMA MovesOnward ==
  ASSUME IInv, NEW c \in Calls, NEW a, At(c, a), NEW b, NEW r, NEW f, MovedTo(f, Top(c), b, r),
         b \in Early \cup {"long"} => a \in Early,
         a \in {"read", "long", "body"} => b \in {"body", "abort"} \/ ~Moving(c),
         b \in {"unsubscribe", "stopnotify"} =>
           \/ a \in {"abort", "long", "body"} \/ r # "ok"
           \/ a = "unsubscribe" /\ r = Top(c).result
  PROVE  Onward(c, f)
<1>1. Top(c).at = a
  BY DEF At
<1> QED
  BY <1>1 DEF Onward, Stopping, MovedTo

\* A motion that has been answered is in its body.
LEMMA AnsweredOnward ==
  ASSUME IInv, NEW c \in Calls, NEW a \in {"read", "long"}, At(c, a),
         a = "read" => Top(c).response # NoMessage, NEW m, NEW f, f = Answered(Top(c), m)
  PROVE  Onward(c, f) /\ f.at # "abort"
<1> DEFINE t == Top(c)
<1>1. t.at = a /\ Innermost(t)
  BY AtWhere DEF IInv
<1>2. t \in [rpc : {t.rpc}, at : {t.at}, step : {t.step}, response : {t.response},
             crc : {t.crc}, data : {t.data}, result : {t.result}]
  BY <1>1 DEF Innermost, IsFrame
<1>3. a = "long" => t.rpc \in Motions
  BY <1>1, LongAreMotions DEF Innermost, IsFrame, FrameOK
<1> HIDE DEF t
<1>4. CASE t.rpc \in Motions
  <2>1. f = [t EXCEPT !.at = "body", !.response = m]
    BY <1>4 DEF Answered, t
  <2>2. f.at = "body" /\ f.rpc = t.rpc
    BY <1>2, <2>1
  <2> QED
    BY <1>1, <2>2 DEF Onward, Stopping, Early, t
<1>5. CASE t.rpc \notin Motions
  <2>1. \E r : f = [t EXCEPT !.at = "unsubscribe", !.response = m, !.result = r]
    BY <1>5, Zenon DEF Answered, t
  <2>2. f.at = "unsubscribe" /\ f.rpc = t.rpc
    BY <1>2, <2>1
  <2> QED
    BY <1>1, <1>3, <1>5, <2>2 DEF Onward, Stopping, Early, t
<1> QED
  BY <1>4, <1>5

LEMMA GoesOnKeeps ==
  ASSUME IInv, MotionInv, NEW c \in Calls, NEW a, At(c, a), NEW f, Onward(c, f), GoesOn(c, f)
  PROVE  Keeps(c)
<1>1. frames[c] # << >>
  BY DEF At
<1>2. /\ SetTop(c, f) /\ UNCHANGED outcome
      /\ loose' = IF f.at = "abort" THEN loose \cup {c} ELSE loose
  BY DEF GoesOn
<1> QED
  BY <1>1, <1>2, OnwardKeeps

LEMMA AloneInside ==
  ASSUME IInv, NEW c \in Calls, NEW a \in {"long", "body"}, At(c, a)
  PROVE  frames[c] = << Top(c) >> /\ Top(c).at = a
BY AtWhere DEF IInv, Nests

\* What the robot has still to handle or executes, and what it has told.
Unmoved == UNCHANGED << inbox, executing, event >>

LEMMA StopKeeps ==
  ASSUME IInv, MotionInv, NEW c \in Calls, At(c, "body"), NEW result, Stop(c, result)
  PROVE  Keeps(c)
<1>1. frames[c] = << Top(c) >>
  BY AloneInside
<1>2. PICK f : /\ MovedTo(f, Top(c), "stopping", result)
               /\ Push(c, f, "StopExecution") /\ UNCHANGED << outcome, loose >>
  BY AtAs, Zenon DEF Stop
<1>3. f.at = "stopping"
  BY <1>2 DEF MovedTo
<1> QED
  BY <1>1, <1>2, <1>3, PushKeeps

LEMMA RunsKeeps ==
  ASSUME IInv, MotionInv, NEW c \in Calls, Runs(c), ~Write(c)
  PROVE  Keeps(c) /\ Unmoved
<1> USE DEF Unmoved
<1>1. CASE Subscribe(c)
  <2>1. At(c, "subscribe") /\ frames[c] # << >> /\ UNCHANGED << inbox, executing, event >>
    BY <1>1 DEF Subscribe, At, ids, robot
  <2>2. CASE SetTop(c, [Top(c) EXCEPT !.at = "notifying"]) /\ UNCHANGED << outcome, loose >>
    <3>1. PICK f : MovedTo(f, Top(c), "notifying", Top(c).result) /\ SetTop(c, f)
      BY <2>2, <2>1, AtAs, Zenon
    <3>2. Onward(c, f)
      BY <2>1, <3>1, MovesOnward DEF Early
    <3>3. f.at = "notifying"
      BY <3>1 DEF MovedTo
    <3> QED
      BY <2>1, <2>2, <3>1, <3>2, <3>3, OnwardKeeps
  <2>3. CASE GoesOn(c, [Top(c) EXCEPT !.at = "lock"])
    <3>1. PICK f : MovedTo(f, Top(c), "lock", Top(c).result) /\ GoesOn(c, f)
      BY <2>3, <2>1, AtAs, Zenon
    <3>2. Onward(c, f)
      BY <2>1, <3>1, MovesOnward DEF Early
    <3> QED
      BY <2>1, <3>1, <3>2, GoesOnKeeps
  <2> QED
    BY <1>1, <2>2, <2>3, Zenon DEF Subscribe
<1>2. CASE StartNotify(c)
  <2>1. At(c, "notifying") /\ UNCHANGED << inbox, executing, event >>
    BY <1>2 DEF StartNotify, ids, robot
  <2>2. PICK f : MovedTo(f, Top(c), "lock", Top(c).result) /\ GoesOn(c, f)
    BY <1>2, <2>1, AtAs, Zenon DEF StartNotify
  <2>3. Onward(c, f)
    BY <2>1, <2>2, MovesOnward DEF Early
  <2> QED
    BY <2>1, <2>2, <2>3, GoesOnKeeps
<1>3. CASE EnterLock(c)
  <2>1. At(c, "lock") /\ UNCHANGED << inbox, executing, event >>
    BY <1>3 DEF EnterLock, ids, robot
  <2>2. PICK at, f : at \in {"long", "write"} /\ MovedTo(f, Top(c), at, Top(c).result) /\ GoesOn(c, f)
    <3>1. GoesOn(c, [Top(c) EXCEPT !.at = IF Long(Top(c).rpc) THEN "long" ELSE "write"])
      BY <1>3 DEF EnterLock
    <3>2. (IF Long(Top(c).rpc) THEN "long" ELSE "write") \in {"long", "write"}
      OBVIOUS
    <3> QED
      BY <2>1, <3>1, <3>2, AtAs, Zenon
  <2>3. Onward(c, f)
    BY <2>1, <2>2, MovesOnward DEF Early
  <2> QED
    BY <2>1, <2>2, <2>3, GoesOnKeeps
<1>4. CASE Read(c)
  <2>1. /\ At(c, "read") /\ Top(c).response # NoMessage
        /\ UNCHANGED << inbox, executing, event >>
    BY <1>4 DEF Read, ids, robot
  <2>2. PICK f : f = Answered(Top(c), Top(c).response) /\ GoesOn(c, f)
    BY <1>4, Zenon DEF Read
  <2>3. Onward(c, f)
    BY <2>1, <2>2, AnsweredOnward
  <2> QED
    BY <2>1, <2>2, <2>3, GoesOnKeeps
<1>5. CASE Abort(c)
  <2>1. At(c, "abort") /\ UNCHANGED << inbox, executing, event >>
    BY <1>5 DEF Abort, ids, robot
  <2>2. PICK f : MovedTo(f, Top(c), "unsubscribe", Top(c).result) /\ GoesOn(c, f)
    BY <1>5, <2>1, AtAs, Zenon DEF Abort
  <2>3. Onward(c, f)
    BY <2>1, <2>2, MovesOnward DEF Early
  <2> QED
    BY <2>1, <2>2, <2>3, GoesOnKeeps
<1>6. CASE Unsubscribe(c)
  <2>1. At(c, "unsubscribe") /\ frames[c] # << >> /\ UNCHANGED << inbox, executing, event >>
    BY <1>6 DEF Unsubscribe, At, ids, robot
  <2>2. CASE SetTop(c, [Top(c) EXCEPT !.at = "stopnotify"]) /\ UNCHANGED << outcome, loose >>
    <3>1. PICK f : MovedTo(f, Top(c), "stopnotify", Top(c).result) /\ SetTop(c, f)
      BY <2>2, <2>1, AtAs, Zenon
    <3>2. Onward(c, f)
      BY <2>1, <3>1, MovesOnward DEF Early
    <3>3. f.at = "stopnotify"
      BY <3>1 DEF MovedTo
    <3> QED
      BY <2>1, <2>2, <3>1, <3>2, <3>3, OnwardKeeps
  <2>3. CASE Ends(c, Top(c).result)
    BY <2>1, <2>3, ResultOfTop, EndsKeeps
  <2> QED
    BY <1>6, <2>2, <2>3, Zenon DEF Unsubscribe
<1>7. CASE StopNotify(c)
  <2>1. At(c, "stopnotify") /\ frames[c] # << >> /\ UNCHANGED << inbox, executing, event >>
    BY <1>7 DEF StopNotify, At, ids, robot
  <2>2. Ends(c, Top(c).result)
    BY <1>7 DEF StopNotify
  <2> QED
    BY <2>1, <2>2, ResultOfTop, EndsKeeps
<1>8. CASE LongNext(c)
  <2>1. /\ At(c, "long") /\ Push(c, Top(c), Nested(Top(c).step))
        /\ UNCHANGED << outcome, loose, inbox, executing, event >>
    BY <1>8 DEF LongNext, task, ids, robot
  <2>2. frames[c] = << Top(c) >> /\ Top(c).at = "long"
    BY <2>1, AloneInside
  <2> QED
    BY <2>1, <2>2, PushKeeps
<1>9. CASE LongEnds(c)
  <2>1. At(c, "long") /\ UNCHANGED << inbox, executing, event >>
    BY <1>9 DEF LongEnds, ids, robot
  <2>2. CASE \E m : GoesOn(c, Answered(Top(c), m))
    <3>1. PICK m, f : f = Answered(Top(c), m) /\ GoesOn(c, f)
      BY <2>2, Zenon
    <3>2. Onward(c, f)
      BY <2>1, <3>1, AnsweredOnward
    <3> QED
      BY <2>1, <3>1, <3>2, GoesOnKeeps
  <2>3. CASE GoesOn(c, [Top(c) EXCEPT !.at = "abort", !.result = "error"])
    <3>1. PICK f : MovedTo(f, Top(c), "abort", "error") /\ GoesOn(c, f)
      BY <2>3, <2>1, AtAs, Zenon
    <3>2. Onward(c, f)
      BY <2>1, <3>1, MovesOnward DEF Early
    <3> QED
      BY <2>1, <3>1, <3>2, GoesOnKeeps
  <2> QED
    BY <1>9, <2>2, <2>3, Zenon DEF LongEnds
<1>10. CASE BodyReturns(c)
  <2>1. At(c, "body") /\ event[c] = "finished" /\ UNCHANGED << inbox, executing, event >>
    BY <1>10 DEF BodyReturns, ids, robot
  <2>2. ~Moving(c)
    BY <2>1 DEF MotionInv, CallMotion
  <2>3. PICK f : MovedTo(f, Top(c), "unsubscribe", Top(c).result) /\ GoesOn(c, f)
    BY <1>10, <2>1, AtAs, Zenon DEF BodyReturns
  <2>4. Onward(c, f)
    BY <2>1, <2>2, <2>3, MovesOnward DEF Early
  <2> QED
    BY <2>1, <2>3, <2>4, GoesOnKeeps
<1>11. CASE BodyRaises(c)
  BY <1>11, StopKeeps DEF BodyRaises, ids, robot
<1> QED
  BY <1>1, <1>2, <1>3, <1>4, <1>5, <1>6, <1>7, <1>8, <1>9, <1>10, <1>11, Zenon DEF Runs

LEMMA FailsKeeps ==
  ASSUME IInv, MotionInv, NEW c \in Calls, Fails(c)
  PROVE  Keeps(c) /\ Unmoved
<1> USE DEF Unmoved
<1>1. CASE NotifyFails(c)
  <2>1. /\ At(c, "notifying") \/ At(c, "stopnotify")
        /\ Ends(c, "error") /\ UNCHANGED << inbox, executing, event >>
    BY <1>1 DEF NotifyFails, NotifyEnds, ids, robot
  <2> QED
    BY <2>1, EndsKeeps DEF Results
<1>2. CASE WriteFails(c)
  <2>1. At(c, "write") /\ UNCHANGED << inbox, executing, event >>
    BY <1>2 DEF WriteFails, ids, robot
  <2>2. PICK f : MovedTo(f, Top(c), "abort", "error") /\ GoesOn(c, f)
    BY <1>2, <2>1, AtAs, Zenon DEF WriteFails
  <2>3. Onward(c, f)
    BY <2>1, <2>2, MovesOnward DEF Early
  <2> QED
    BY <2>1, <2>2, <2>3, GoesOnKeeps
<1> QED
  BY <1>1, <1>2 DEF Fails

LEMMA CancelKeeps ==
  ASSUME IInv, MotionInv, NEW c \in Calls, Cancel(c), ~CancelExchange(c)
  PROVE  Keeps(c) /\ Unmoved
<1> USE DEF Unmoved
<1>1. event' = event
  BY DEF Cancel
<1>2. CASE CancelWaiting(c)
  <2>1. /\ At(c, "subscribe") \/ At(c, "unsubscribe")
        /\ Ends(c, "cancelled") /\ UNCHANGED << inbox, executing >>
    BY <1>2 DEF CancelWaiting, robot
  <2> QED
    BY <1>1, <2>1, EndsKeeps DEF Results
<1>3. CASE CancelNotify(c)
  <2>1. /\ At(c, "notifying") \/ At(c, "stopnotify")
        /\ Ends(c, "cancelled") /\ UNCHANGED << inbox, executing >>
    BY <1>3 DEF CancelNotify, NotifyEnds, robot
  <2> QED
    BY <1>1, <2>1, EndsKeeps DEF Results
<1>4. CASE CancelLock(c)
  <2>1. At(c, "lock") /\ UNCHANGED << inbox, executing >>
    BY <1>4 DEF CancelLock, robot
  <2>2. PICK f : /\ MovedTo(f, Top(c), "unsubscribe", "cancelled")
                 /\ GoesOn(c, f)
    BY <1>4, <2>1, AtAs, Zenon DEF CancelLock
  <2>3. Onward(c, f)
    BY <2>1, <2>2, MovesOnward DEF Early
  <2> QED
    BY <1>1, <2>1, <2>2, <2>3, GoesOnKeeps
<1>5. CASE CancelAbort(c)
  <2>1. At(c, "abort") /\ UNCHANGED << inbox, executing >>
    BY <1>5 DEF CancelAbort, robot
  <2>2. PICK f : /\ MovedTo(f, Top(c), "unsubscribe", "cancelled")
                 /\ GoesOn(c, f)
    BY <1>5, <2>1, AtAs, Zenon DEF CancelAbort
  <2>3. Onward(c, f)
    BY <2>1, <2>2, MovesOnward DEF Early
  <2> QED
    BY <1>1, <2>1, <2>2, <2>3, GoesOnKeeps
<1>6. CASE CancelBody(c)
  BY <1>1, <1>6, StopKeeps DEF CancelBody, robot
<1> QED
  BY <1>2, <1>3, <1>4, <1>5, <1>6, Zenon DEF Cancel

LEMMA CallKeeps ==
  ASSUME IInv, MotionInv, NEW c \in Calls, Call(c)
  PROVE  Keeps(c) /\ Unmoved
<1>1. /\ outcome[c] = "idle" /\ UNCHANGED << loose, inbox, executing, event >>
  BY DEF Call, robot
<1>2. frames[c] = << >>
  BY <1>1, StackFacts DEF IInv, Plain
<1>3. PICK g : /\ g.at = "subscribe"
               /\ \A d \in Calls \ {c} : frames'[d] = frames[d] /\ outcome'[d] = outcome[d]
               /\ frames'[c] = << >> \/ frames'[c] = << g >>
  <2>1. Frame(program[c]).at = "subscribe"
    BY DEF Frame
  <2>2. /\ \A d \in Calls \ {c} : frames'[d] = frames[d] /\ outcome'[d] = outcome[d]
        /\ frames'[c] = << >> \/ frames'[c] = << Frame(program[c]) >>
    BY <1>2 DEF Call, IInv, Stacks, Plain
  <2> QED
    BY <2>1, <2>2
<1>4. ~SeesTo(frames[c])
  BY <1>2, StackOfNone
<1>5. NestedAsMeant(frames'[c])
  BY <1>3, StackOfNone, StackOfOne
<1>6. AbortsLoose(c)'
  BY <1>3, TupleWhere DEF AbortsLoose
<1> QED
  BY <1>1, <1>3, <1>4, <1>5, <1>6 DEF Keeps, Before, Unmoved

-----------------------------------------------------------------------------
(* What a step of a call leaves in the inbox.                              *)

\* A call sends nothing, or a request: if it starts a motion then nothing has
\* been sent before, and what it does next is see to it.
Sends(c) ==
  \/ inbox' = inbox
  \/ \E q \in Queries :
       /\ inbox' = Append(inbox, q) /\ q.by = c
       /\ Starts(q) => Before(c) /\ ~Before(c)' /\ (SeesTo(frames'[c]) \/ c \in loose')
       /\ q.rpc = "StopExecution" => ~Before(c)'

LEMMA StartsOrStops ==
  ASSUME NEW q, q.rpc = "StopExecution"
  PROVE  ~Starts(q)
BY NestedAreShort DEF Starts, NestedRpcs

LEMMA InboxAfter ==
  ASSUME IInv, NEW c, Sends(c)
  PROVE  \/ inbox' = inbox
         \/ \E q \in Queries :
              /\ q.by = c
              /\ Starts(q) => Before(c) /\ ~Before(c)' /\ (SeesTo(frames'[c]) \/ c \in loose')
              /\ q.rpc = "StopExecution" => ~Before(c)'
              /\ \A i \in DOMAIN inbox : i \in DOMAIN inbox' /\ inbox'[i] = inbox[i]
              /\ \A i \in DOMAIN inbox' :
                   i \in DOMAIN inbox \/ (inbox'[i] = q /\ \A j \in DOMAIN inbox : j < i)
              /\ \A i, j \in DOMAIN inbox' : i \notin DOMAIN inbox /\ j \notin DOMAIN inbox => i = j
<1>1. inbox \in Seq(Queries)
  BY DEF IInv, KeyInv
<1>2. ASSUME NEW q \in Queries, inbox' = Append(inbox, q)
      PROVE  /\ \A i \in DOMAIN inbox : i \in DOMAIN inbox' /\ inbox'[i] = inbox[i]
             /\ \A i \in DOMAIN inbox' :
                  i \in DOMAIN inbox \/ (inbox'[i] = q /\ \A j \in DOMAIN inbox : j < i)
             /\ \A i, j \in DOMAIN inbox' : i \notin DOMAIN inbox /\ j \notin DOMAIN inbox => i = j
  <2>1. /\ DOMAIN inbox = 1 .. Len(inbox) /\ DOMAIN inbox' = 1 .. Len(inbox) + 1
        /\ \A i \in 1 .. Len(inbox) : inbox'[i] = inbox[i]
        /\ inbox'[Len(inbox) + 1] = q /\ Len(inbox) \in Nat
    BY <1>1, <1>2
  <2> QED
    BY <2>1
<1> QED
  BY <1>2, Zenon DEF Sends

\* One that begins, waits or ends, is cancelled, or sends its request.
LEMMA KeepsMotion ==
  ASSUME IInv, MotionInv, NEW c \in Calls, Keeps(c), Sends(c), UNCHANGED << executing, event >>
  PROVE  MotionInv'
<1>1. CASE inbox' = inbox
  <2>1. \A d : Moving(d)' <=> Moving(d)
    BY <1>1 DEF Moving
  <2>2. ASSUME NEW d \in Calls PROVE CallMotion(d)'
    <3>1. CallMotion(d)
      BY DEF MotionInv
    <3>2. CASE d = c
      BY <1>1, <2>1, <3>1, <3>2, Zenon DEF CallMotion, Keeps
    <3>3. CASE d # c
      <4>1. frames'[d] = frames[d] /\ outcome'[d] = outcome[d] /\ loose \subseteq loose'
        BY <3>3 DEF Keeps
      <4>2. (Before(d)' <=> Before(d)) /\ (AbortsLoose(d) => AbortsLoose(d)')
        BY <4>1 DEF Before, AbortsLoose
      <4> QED
        BY <1>1, <2>1, <3>1, <4>1, <4>2 DEF CallMotion
    <3> QED
      BY <3>2, <3>3
  <2>3. InboxMotion'
    BY <1>1 DEF MotionInv, InboxMotion
  <2> QED
    BY <2>2, <2>3 DEF MotionInv
<1>2. CASE inbox' # inbox
  <2>1. PICK q \in Queries :
          /\ q.by = c
          /\ Starts(q) => Before(c) /\ ~Before(c)' /\ (SeesTo(frames'[c]) \/ c \in loose')
          /\ q.rpc = "StopExecution" => ~Before(c)'
          /\ \A i \in DOMAIN inbox : i \in DOMAIN inbox' /\ inbox'[i] = inbox[i]
          /\ \A i \in DOMAIN inbox' :
               i \in DOMAIN inbox \/ (inbox'[i] = q /\ \A j \in DOMAIN inbox : j < i)
          /\ \A i, j \in DOMAIN inbox' : i \notin DOMAIN inbox /\ j \notin DOMAIN inbox => i = j
    BY <1>2, InboxAfter, Zenon
  <2>2. \A d : Moving(d)' => Moving(d) \/ StartOf(q, d)
    BY <2>1 DEF Moving
  <2>3. \A d : Moving(d) => Moving(d)'
    BY <2>1 DEF Moving
  <2>4. \A d, i \in DOMAIN inbox' : i \in DOMAIN inbox \/ inbox'[i] = q
    BY <2>1
  <2>5. CallMotion(c)'
    <3>1. CallMotion(c)
      BY DEF MotionInv
    <3>2. NestedAsMeant(frames'[c]) /\ AbortsLoose(c)' /\ (Before(c)' => Before(c)) /\ loose \subseteq loose'
      BY DEF Keeps
    <3>3. ASSUME Before(c)'
          PROVE  event'[c] = "none" /\ ~Moving(c)' /\ \A i \in DOMAIN inbox' : ~StopOf(inbox'[i], c)
      <4>1. ~Starts(q) /\ q.rpc # "StopExecution"
        BY <2>1, <3>3
      <4>2. event[c] = "none" /\ ~Moving(c) /\ \A i \in DOMAIN inbox : ~StopOf(inbox[i], c)
        BY <3>1, <3>2, <3>3 DEF CallMotion
      <4> QED
        BY <2>1, <2>2, <4>1, <4>2 DEF StartOf, StopOf
    <3>4. ASSUME Moving(c)' PROVE (c \in loose' \/ SeesTo(frames'[c])) /\ event'[c] = "none"
      <4>1. CASE Starts(q)
        BY <2>1, <3>1, <4>1 DEF CallMotion
      <4>2. CASE ~Starts(q)
        <5>1. Moving(c)
          BY <2>2, <3>4, <4>2 DEF StartOf
        <5> QED
          BY <3>1, <3>2, <5>1 DEF CallMotion, Keeps
      <4> QED
        BY <4>1, <4>2
    <3>5. ASSUME c \in executing PROVE \A i \in DOMAIN inbox' : ~StartOf(inbox'[i], c)
      <4>1. Moving(c)
        BY <3>5 DEF Moving
      <4>2. ~Starts(q)
        BY <2>1, <3>1, <4>1 DEF CallMotion
      <4>3. \A i \in DOMAIN inbox : ~StartOf(inbox[i], c)
        BY <3>1, <3>5 DEF CallMotion
      <4> QED
        BY <2>1, <4>2, <4>3 DEF StartOf
    <3>6. executing' = executing
      OBVIOUS
    <3> QED
      BY <3>2, <3>3, <3>4, <3>5, <3>6, Zenon DEF CallMotion
  <2>6. ASSUME NEW d \in Calls, d # c PROVE CallMotion(d)'
    <3>1. CallMotion(d)
      BY DEF MotionInv
    <3>2. frames'[d] = frames[d] /\ outcome'[d] = outcome[d] /\ loose \subseteq loose'
      BY <2>6 DEF Keeps
    <3>3. (Before(d)' <=> Before(d)) /\ (AbortsLoose(d) => AbortsLoose(d)')
      BY <3>2 DEF Before, AbortsLoose
    <3>4. ~StartOf(q, d) /\ ~StopOf(q, d)
      BY <2>1, <2>6 DEF StartOf, StopOf
    <3>5. Moving(d)' <=> Moving(d)
      BY <2>2, <2>3, <3>4
    <3>6. /\ (\A i \in DOMAIN inbox : ~StopOf(inbox[i], d)) => \A i \in DOMAIN inbox' : ~StopOf(inbox'[i], d)
          /\ (\A i \in DOMAIN inbox : ~StartOf(inbox[i], d)) => \A i \in DOMAIN inbox' : ~StartOf(inbox'[i], d)
      BY <2>1, <3>4
    <3> QED
      BY <3>1, <3>2, <3>3, <3>5, <3>6 DEF CallMotion
  <2>7. InboxMotion'
    <3> SUFFICES ASSUME NEW i \in DOMAIN inbox', NEW j \in DOMAIN inbox', Starts(inbox'[i])
                 PROVE  /\ Starts(inbox'[j]) /\ inbox'[i].by = inbox'[j].by => i = j
                        /\ StopOf(inbox'[j], inbox'[i].by) => i < j
      BY DEF InboxMotion
    <3>1. CallMotion(c)
      BY DEF MotionInv
    <3>2. Starts(q) => \A k \in DOMAIN inbox : ~StartOf(inbox[k], c) /\ ~StopOf(inbox[k], c)
      BY <2>1, <3>1 DEF CallMotion, Moving
    <3>3. CASE i \in DOMAIN inbox /\ j \in DOMAIN inbox
      BY <2>1, <3>3 DEF MotionInv, InboxMotion
    <3>4. CASE i \in DOMAIN inbox /\ j \notin DOMAIN inbox
      BY <2>1, <3>2, <3>4 DEF StartOf
    <3>5. CASE i \notin DOMAIN inbox /\ j \in DOMAIN inbox
      BY <2>1, <3>2, <3>5 DEF StartOf, StopOf
    <3>6. CASE i \notin DOMAIN inbox /\ j \notin DOMAIN inbox
      <4>1. inbox'[j] = q /\ inbox'[i] = q /\ i = j
        BY <2>1, <3>6
      <4> QED
        BY <4>1, StartsOrStops DEF StopOf
    <3> QED
      BY <3>3, <3>4, <3>5, <3>6
  <2> QED
    BY <2>5, <2>6, <2>7 DEF MotionInv
<1> QED
  BY <1>1, <1>2

\* A request that starts a motion is the first of its call that does, and the
\* call goes on to wait for the answer.
LEMMA RequestSent ==
  ASSUME IInv, MotionInv, NEW c \in Calls, At(c, "write"),
         NEW b \in {"read", "abort"}, NEW r, NEW f, MovedTo(f, Top(c), b, r),
         SetTop(c, f), UNCHANGED outcome, loose' = IF b = "abort" THEN loose \cup {c} ELSE loose
  PROVE  /\ Request(c) \in Queries /\ Request(c).by = c
         /\ Starts(Request(c)) => Before(c) /\ ~Before(c)' /\ (SeesTo(frames'[c]) \/ c \in loose')
         /\ Request(c).rpc = "StopExecution" => ~Before(c)'
<1> DEFINE t == Top(c)
<1>1. frames[c] # << >> /\ t.at = "write" /\ f.at = b /\ f.rpc = t.rpc
  BY DEF At, MovedTo
<1>2. Request(c) \in Queries /\ Request(c).by = c
  BY <1>1, RequestIsBegun DEF IInv
<1>3. PICK k : k = Request(c)
  OBVIOUS
<1>4. k.rpc = t.rpc /\ k.step = IF frames[c][1].at = "long" THEN frames[c][1].step + 1 ELSE 0
  BY <1>3 DEF Request
<1>5. outcome'[c] # "idle"
  BY <1>1, StackFacts DEF IInv, Plain
<1>6. frames'[c] = WithTop(frames[c], f) /\ (b = "abort" => c \in loose')
  BY DEF SetTop, IInv, Stacks
<1>7. CASE frames[c] = << t >>
  <2>1. frames'[c] = << f >>
    <3>1. \A h : WithTop(<< h >>, f) = << f >>
      BY TopOfOne
    <3> QED
      BY <1>6, <1>7, <3>1, Zenon
  <2>2. ~Before(c)' /\ Before(c)
    <3>1. ~Unsent(<< f >>) /\ Unsent(<< t >>)
      BY <1>1, StackOfOne DEF Early
    <3> QED
      BY <1>5, <1>7, <2>1, <3>1 DEF Before
  <2>3. frames[c][1] = t
    BY <1>7, TupleWhere
  <2>4. Starts(k) => f.rpc \in Motions
    BY <1>1, <1>4, <2>3 DEF Starts
  <2>5. f.at = "read" /\ f.rpc \in Motions => SeesTo(<< f >>)
    BY StackOfOne
  <2> QED
    BY <1>1, <1>2, <1>3, <1>6, <2>1, <2>2, <2>4, <2>5
<1>8. CASE \E o : frames[c] = << o, t >> /\ Around(o)
  <2>1. PICK o : frames[c] = << o, t >> /\ Around(o)
    BY <1>8
  <2>2. frames'[c] = << o, f >>
    <3>1. \A h : WithTop(<< o, h >>, f) = << o, f >>
      BY TopOfTwo
    <3> QED
      BY <1>6, <2>1, <3>1, Zenon
  <2>3. o.at \in {"long", "stopping"} /\ o.step \in Nat /\ WriteChunks \in Nat
    BY <2>1, BoundsAssumption DEF Around, IsFrame, FrameOK
  <2>4. t.rpc = IF o.at = "long" THEN Nested(o.step) ELSE "StopExecution"
    <3>1. NestedAsMeant(<< o, t >>)
      BY <2>1 DEF MotionInv, CallMotion
    <3> QED
      BY <2>3, <3>1, StackOfTwo
  <2>5. t.rpc \notin Motions
    BY <2>4, NestedAreShort DEF Nested, NestedRpcs
  <2>6. k.rpc = "StopExecution" => o.at = "stopping"
    BY <1>4, <2>3, <2>4 DEF Nested
  <2>7. Starts(k) => o.at = "long" /\ o.step = WriteChunks
    <3>1. Starts(k) => t.rpc = "LongRPCExtensionExecute"
      BY <1>4, <2>5 DEF Starts
    <3> QED
      BY <2>3, <2>4, <3>1 DEF Nested
  <2>8. /\ o.at = "stopping" => ~Before(c)'
        /\ o.at = "long" /\ o.step = WriteChunks => Before(c) /\ ~Before(c)'
    <3>1. o.at = "stopping" => ~Unsent(<< o, f >>)
      BY StackOfTwo
    <3>2. o.at = "long" /\ o.step = WriteChunks => Unsent(<< o, t >>) /\ ~Unsent(<< o, f >>)
      BY <1>1, <2>3, StackOfTwo DEF Early
    <3> QED
      BY <1>5, <2>1, <2>2, <3>1, <3>2 DEF Before
  <2>9. o.at = "long" => SeesTo(frames'[c])
    BY <2>2, <2>3, StackOfTwo
  <2> QED
    BY <1>2, <1>3, <2>6, <2>7, <2>8, <2>9
<1> QED
  BY <1>1, <1>7, <1>8, Shape DEF IInv

LEMMA WriteMotion ==
  ASSUME IInv, MotionInv, NEW c \in Calls, Write(c)
  PROVE  MotionInv'
<1>1. /\ At(c, "write") /\ inbox' = Append(inbox, Request(c))
      /\ UNCHANGED << executing, event >>
  BY DEF Write, ids
<1>2. PICK f : MovedTo(f, Top(c), "read", Top(c).result) /\ GoesOn(c, f)
  BY <1>1, AtAs, Zenon DEF Write
<1>3. Onward(c, f)
  BY <1>1, <1>2, MovesOnward DEF Early
<1>4. Keeps(c)
  BY <1>1, <1>2, <1>3, GoesOnKeeps
<1>5. f.at = "read" /\ SetTop(c, f) /\ UNCHANGED << outcome, loose >>
  BY <1>2 DEF MovedTo, GoesOn
<1>6. /\ Request(c) \in Queries /\ Request(c).by = c
      /\ Starts(Request(c)) => Before(c) /\ ~Before(c)' /\ (SeesTo(frames'[c]) \/ c \in loose')
      /\ Request(c).rpc = "StopExecution" => ~Before(c)'
  BY <1>1, <1>2, <1>5, RequestSent
<1>7. Sends(c)
  BY <1>1, <1>6, Zenon DEF Sends
<1> QED
  BY <1>1, <1>4, <1>7, KeepsMotion

LEMMA CancelExchangeMotion ==
  ASSUME IInv, MotionInv, NEW c \in Calls, CancelExchange(c), event' = event
  PROVE  MotionInv'
<1>1. PICK a \in {"write", "read"} : At(c, a)
  BY DEF CancelExchange
<1>2. /\ inbox' = inbox \/ (At(c, "write") /\ inbox' = Append(inbox, Request(c)))
      /\ executing' = executing
  BY DEF CancelExchange
<1>3. PICK f : MovedTo(f, Top(c), "abort", "cancelled") /\ GoesOn(c, f)
  BY <1>1, AtAs, Zenon DEF CancelExchange
<1>4. Onward(c, f)
  BY <1>1, <1>3, MovesOnward DEF Early
<1>5. Keeps(c)
  BY <1>1, <1>3, <1>4, GoesOnKeeps
<1>6. f.at = "abort" /\ SetTop(c, f) /\ outcome' = outcome /\ loose' = loose \cup {c}
  BY <1>3 DEF MovedTo, GoesOn
<1>7. CASE inbox' = inbox
  BY <1>2, <1>5, <1>7, KeepsMotion DEF Sends
<1>8. CASE At(c, "write") /\ inbox' = Append(inbox, Request(c))
  <2>1. /\ Request(c) \in Queries /\ Request(c).by = c
        /\ Starts(Request(c)) => Before(c) /\ ~Before(c)' /\ (SeesTo(frames'[c]) \/ c \in loose')
        /\ Request(c).rpc = "StopExecution" => ~Before(c)'
    BY <1>3, <1>6, <1>8, RequestSent
  <2>2. Sends(c)
    BY <1>8, <2>1, Zenon DEF Sends
  <2> QED
    BY <1>2, <1>5, <2>2, KeepsMotion
<1> QED
  BY <1>2, <1>7, <1>8

-----------------------------------------------------------------------------
(* The robot, as it starts and stops motions.                              *)

\* What handling a request does to what the robot executes.
LEMMA HandleExecutes ==
  ASSUME NEW q, NEW ok, Handle(q, ok)
  PROVE  /\ executing' \subseteq executing \cup (IF Starts(q) THEN {q.by} ELSE {})
         /\ q.rpc = "StopExecution" => q.by \notin executing'
<1>1. CASE q.rpc = "StopExecution"
  BY <1>1 DEF Handle
<1>2. CASE q.rpc = "MemWrite" /\ q.step > 0
  BY <1>2 DEF Handle
<1>3. CASE q.rpc = "LongRPCExtensionExecute" /\ q.step > 0
  <2>1. Starts(q)
    BY <1>3 DEF Starts
  <2>2. executing' \subseteq executing \cup {q.by}
    BY <1>3 DEF Handle
  <2> QED
    BY <1>3, <2>1, <2>2
<1>4. CASE q.rpc = "MemRead" /\ q.step > 0
  BY <1>4 DEF Handle
<1>5. CASE /\ q.rpc # "StopExecution" /\ ~(q.rpc = "MemWrite" /\ q.step > 0)
           /\ ~(q.rpc = "LongRPCExtensionExecute" /\ q.step > 0)
           /\ ~(q.rpc = "MemRead" /\ q.step > 0)
  <2>1. executing' = executing \cup (IF q.rpc \in Motions THEN {q.by} ELSE {})
    BY <1>5 DEF Handle
  <2>2. q.rpc \in Motions => Starts(q)
    BY DEF Starts
  <2> QED
    BY <1>5, <2>1, <2>2
<1> QED
  BY <1>1, <1>2, <1>3, <1>4, <1>5

\* An answer takes no RPC anywhere, and the sight of its motion from a call only
\* when it is that to its own StopExecution.
LEMMA AnswerSeen ==
  ASSUME IInv, OwnInv, MotionInv, inbox # << >>, NEW m, Received(m), m.rpc = inbox[1].rpc,
         m.key = inbox[1].key, m.by = inbox[1].by, UNCHANGED << outcome, loose >>, NEW c \in Calls
  PROVE  /\ Before(c)' => Before(c)
         /\ NestedAsMeant(frames'[c]) /\ AbortsLoose(c)'
         /\ SeesTo(frames[c]) => SeesTo(frames'[c]) \/ StopOf(inbox[1], c)
<1>1. CallMotion(c)
  BY DEF MotionInv
<1>2. CASE frames'[c] = frames[c]
  BY <1>1, <1>2 DEF CallMotion, Before, AbortsLoose
<1>3. CASE frames'[c] # frames[c]
  <2> DEFINE t == Top(c)
  <2>0. /\ frames[c] # << >> /\ (At(c, "write") \/ At(c, "read"))
        /\ m.rpc = t.rpc /\ (Requests[m.rpc].keyed => m.by = c) /\ Takes(c, m)
    BY <1>3, AnswerTaken
  <2>1. PICK g : /\ g.at = t.at /\ g.rpc = t.rpc /\ g.step = t.step
                 /\ g.response = m /\ frames'[c] = WithTop(frames[c], g)
    BY <2>0, Zenon DEF Takes
  <2>2. t.at \in {"write", "read"}
    BY <2>0 DEF At
  <2>3. CASE frames[c] = << t >>
    <3>1. frames'[c] = << g >>
      <4>1. \A h : WithTop(<< h >>, g) = << g >>
        BY TopOfOne
      <4> QED
        BY <2>1, <2>3, <4>1, Zenon
    <3>2. Unsent(<< g >>) => Unsent(<< t >>)
      BY <2>1, StackOfOne
    <3>3. SeesTo(<< t >>) => SeesTo(<< g >>)
      BY <2>1, <2>2, StackOfOne
    <3>4. NestedAsMeant(frames'[c])
      BY <3>1, StackOfOne
    <3>5. AbortsLoose(c)'
      <4>1. \A i \in DOMAIN frames'[c] : frames'[c][i] = g
        BY <3>1, TupleWhere
      <4> QED
        BY <2>1, <2>2, <4>1 DEF AbortsLoose
    <3> QED
      BY <2>3, <3>1, <3>2, <3>3, <3>4, <3>5 DEF Before
  <2>4. CASE \E o : frames[c] = << o, t >> /\ Around(o)
    <3>1. PICK o : frames[c] = << o, t >> /\ Around(o)
      BY <2>4
    <3>2. frames'[c] = << o, g >>
      <4>1. \A h : WithTop(<< o, h >>, g) = << o, g >>
        BY TopOfTwo
      <4> QED
        BY <2>1, <3>1, <4>1, Zenon
    <3>3. o.at \in {"long", "stopping"}
      BY <3>1 DEF Around
    <3>4. Unsent(<< o, g >>) => Unsent(<< o, t >>)
      BY <2>1, <3>3, StackOfTwo
    <3>5. /\ NestedAsMeant(<< o, g >>)
          /\ o.at = "stopping" => t.rpc = "StopExecution"
      <4>1. NestedAsMeant(<< o, t >>)
        BY <1>1, <3>1 DEF CallMotion
      <4>2. t.rpc = IF o.at = "long" THEN Nested(o.step) ELSE "StopExecution"
        BY <3>3, <4>1, StackOfTwo
      <4>3. NestedAsMeant(<< o, g >>)
        BY <2>1, <3>3, <4>2, StackOfTwo
      <4> QED
        BY <4>2, <4>3
    <3>6. SeesTo(<< o, g >>) \/ StopOf(inbox[1], c)
      <4>1. CASE o.at = "long"
        BY <4>1, StackOfTwo
      <4>2. CASE o.at = "stopping"
        <5>1. m.rpc = "StopExecution" /\ Requests["StopExecution"].keyed
          BY <2>0, <3>5, <4>2, NestedAreShort, KeyedRpcs DEF NestedRpcs
        <5> QED
          BY <2>0, <5>1 DEF StopOf
      <4> QED
        BY <3>3, <4>1, <4>2
    <3>7. AbortsLoose(c)'
      <4>1. \A i \in DOMAIN frames'[c] : frames'[c][i] = o \/ frames'[c][i] = g
        BY <3>2, TupleWhere
      <4> QED
        BY <2>1, <2>2, <3>3, <4>1 DEF AbortsLoose
    <3> QED
      BY <3>1, <3>2, <3>4, <3>5, <3>6, <3>7 DEF Before
  <2> QED
    BY <2>0, <2>3, <2>4, Shape DEF IInv
<1> QED
  BY <1>2, <1>3

LEMMA RobotHandlesMotion ==
  ASSUME IInv, OwnInv, MotionInv, RobotHandles
  PROVE  MotionInv'
<1> DEFINE q == Head(inbox)
<1>1. /\ inbox # << >> /\ inbox' = Tail(inbox)
      /\ UNCHANGED << outcome, loose, event >>
  BY DEF RobotHandles, task, ids
<1>2. PICK ok \in BOOLEAN : Handle(q, ok)
  BY DEF RobotHandles
<1>3. inbox \in Seq(Queries)
  BY DEF IInv, KeyInv
<1>4. /\ q = inbox[1] /\ 1 \in DOMAIN inbox
      /\ \A i \in DOMAIN inbox' : /\ i + 1 \in DOMAIN inbox /\ inbox'[i] = inbox[i + 1]
                                  /\ i + 1 # 1 /\ ~(i + 1 < 1)
      /\ \A i, j \in DOMAIN inbox' : /\ i + 1 = j + 1 => i = j
                                     /\ i + 1 < j + 1 => i < j
  BY <1>1, <1>3
<1> HIDE DEF q
<1>5. /\ executing' \subseteq executing \cup (IF Starts(q) THEN {q.by} ELSE {})
      /\ q.rpc = "StopExecution" => q.by \notin executing'
  BY <1>2, HandleExecutes
<1>6. PICK m : Received(m) /\ m.rpc = q.rpc /\ m.key = q.key /\ m.by = q.by
  BY <1>2, HandleAnswers
<1>7. \A c : Moving(c)' => Moving(c)
  BY <1>4, <1>5 DEF Moving, StartOf
<1>8. ASSUME NEW c \in Calls PROVE CallMotion(c)'
  <2>1. CallMotion(c)
    BY DEF MotionInv
  <2>2. /\ Before(c)' => Before(c)
        /\ NestedAsMeant(frames'[c]) /\ AbortsLoose(c)'
        /\ SeesTo(frames[c]) => SeesTo(frames'[c]) \/ StopOf(q, c)
    BY <1>1, <1>4, <1>6, AnswerSeen
  <2>3. ASSUME Before(c)'
        PROVE  event'[c] = "none" /\ ~Moving(c)' /\ \A i \in DOMAIN inbox' : ~StopOf(inbox'[i], c)
    BY <1>1, <1>4, <1>7, <2>1, <2>2, <2>3 DEF CallMotion
  <2>4. StopOf(q, c) => ~Moving(c)'
    <3> SUFFICES ASSUME StopOf(q, c) PROVE ~Moving(c)'
      OBVIOUS
    <3>1. c \notin executing'
      BY <1>5 DEF StopOf
    <3>2. ASSUME NEW i \in DOMAIN inbox', StartOf(inbox'[i], c) PROVE FALSE
      <4>1. Starts(inbox[i + 1]) /\ StopOf(inbox[1], inbox[i + 1].by)
        BY <1>4, <3>2 DEF StartOf, StopOf
      <4> QED
        BY <1>4, <3>2, <4>1 DEF MotionInv, InboxMotion
    <3> QED
      BY <3>1, <3>2 DEF Moving
  <2>5. ASSUME Moving(c)' PROVE (c \in loose' \/ SeesTo(frames'[c])) /\ event'[c] = "none"
    BY <1>1, <1>7, <2>1, <2>2, <2>4, <2>5 DEF CallMotion
  <2>6. ASSUME c \in executing' PROVE \A i \in DOMAIN inbox' : ~StartOf(inbox'[i], c)
    <3>1. CASE c \in executing
      BY <1>4, <2>1, <3>1 DEF CallMotion
    <3>2. CASE c \notin executing
      <4>1. Starts(inbox[1]) /\ inbox[1].by = c
        BY <1>4, <1>5, <2>6, <3>2
      <4> QED
        BY <1>4, <4>1 DEF MotionInv, InboxMotion, StartOf
    <3> QED
      BY <3>1, <3>2
  <2> QED
    BY <2>2, <2>3, <2>5, <2>6, Zenon DEF CallMotion
<1>9. InboxMotion'
  <2> SUFFICES ASSUME NEW i \in DOMAIN inbox', NEW j \in DOMAIN inbox', Starts(inbox'[i])
               PROVE  /\ Starts(inbox'[j]) /\ inbox'[i].by = inbox'[j].by => i = j
                      /\ StopOf(inbox'[j], inbox'[i].by) => i < j
    BY DEF InboxMotion
  <2>1. /\ i + 1 \in DOMAIN inbox /\ j + 1 \in DOMAIN inbox
        /\ inbox'[i] = inbox[i + 1] /\ inbox'[j] = inbox[j + 1]
    BY <1>4
  <2>2. /\ Starts(inbox[j + 1]) /\ inbox[i + 1].by = inbox[j + 1].by => i + 1 = j + 1
        /\ StopOf(inbox[j + 1], inbox[i + 1].by) => i + 1 < j + 1
    BY <2>1 DEF MotionInv, InboxMotion
  <2> QED
    BY <1>4, <2>1, <2>2
<1> QED
  BY <1>8, <1>9 DEF MotionInv

LEMMA RobotEndsMotion ==
  ASSUME IInv, MotionInv, NEW c \in Calls, RobotEnds(c)
  PROVE  MotionInv'
<1>1. /\ c \in executing /\ executing' = executing \ {c}
      /\ UNCHANGED << frames, outcome, loose, inbox >>
      /\ \A d \in Calls \ {c} : event'[d] = event[d]
  BY DEF RobotEnds, IInv, Plain
<1>2. Moving(c) /\ ~Moving(c)' /\ \A d : Moving(d)' => Moving(d)
  BY <1>1 DEF Moving, MotionInv, CallMotion
<1>3. InboxMotion'
  BY <1>1 DEF MotionInv, InboxMotion
<1>4. ASSUME NEW d \in Calls PROVE CallMotion(d)'
  <2>1. CallMotion(d)
    BY DEF MotionInv
  <2>2. (Before(d)' <=> Before(d)) /\ (AbortsLoose(d)' <=> AbortsLoose(d))
    BY <1>1 DEF Before, AbortsLoose
  <2>3. CASE d = c
    <3>1. ~Before(c)
      BY <1>2, <2>1, <2>3 DEF CallMotion
    <3> QED
      BY <1>1, <1>2, <2>1, <2>2, <2>3, <3>1 DEF CallMotion
  <2>4. CASE d # c
    BY <1>1, <1>2, <2>1, <2>2, <2>4 DEF CallMotion
  <2> QED
    BY <2>3, <2>4
<1> QED
  BY <1>3, <1>4 DEF MotionInv

-----------------------------------------------------------------------------
(* The invariant.                                                          *)

LEMMA QuietMotion ==
  ASSUME MotionInv, UNCHANGED << frames, outcome, loose, inbox, executing, event >>
  PROVE  MotionInv'
<1>1. \A c : (Moving(c)' <=> Moving(c)) /\ (Before(c)' <=> Before(c)) /\ (AbortsLoose(c)' <=> AbortsLoose(c))
  BY DEF Moving, Before, AbortsLoose
<1> QED
  BY <1>1 DEF MotionInv, CallMotion, InboxMotion

LEMMA NextMotion ==
  ASSUME IInv, OwnInv, MotionInv, [Next]_vars
  PROVE  MotionInv'
<1>1. \A c \in Calls : Keeps(c) /\ Unmoved => MotionInv'
  BY KeepsMotion DEF Unmoved, Sends
<1>2. CASE Next
  <2>1. CASE RobotHandles
    BY <2>1, RobotHandlesMotion
  <2>2. CASE \E c \in Calls : Runs(c)
    BY <1>1, <2>2, RunsKeeps, WriteMotion
  <2>3. CASE \E c \in Calls : RobotEnds(c)
    BY <2>3, RobotEndsMotion
  <2>4. CASE \E c \in Calls : Call(c)
    BY <1>1, <2>4, CallKeeps
  <2>5. CASE \E c \in Calls : Fails(c)
    BY <1>1, <2>5, FailsKeeps
  <2>6. CASE \E c \in Calls : Cancel(c)
    <3>1. PICK c \in Calls : Cancel(c)
      BY <2>6
    <3>2. event' = event
      BY <3>1 DEF Cancel
    <3> QED
      BY <1>1, <3>1, <3>2, CancelKeeps, CancelExchangeMotion
  <2> QED
    BY <1>2, <2>1, <2>2, <2>3, <2>4, <2>5, <2>6, Zenon DEF Next, Works
<1>3. CASE UNCHANGED vars
  BY <1>3, QuietMotion DEF vars, task, ids, robot
<1> QED
  BY <1>2, <1>3

LEMMA InitMotion ==
  ASSUME Init
  PROVE  MotionInv
<1>1. /\ inbox = << >> /\ executing = {}
      /\ \A c \in Calls : frames[c] = << >> /\ event[c] = "none"
  BY DEF Init
<1>2. \A c : ~Moving(c)
  BY <1>1 DEF Moving
<1>3. \A c \in Calls : CallMotion(c)
  BY <1>1, <1>2, StackOfNone DEF CallMotion, AbortsLoose
<1>4. InboxMotion
  BY <1>1 DEF InboxMotion
<1> QED
  BY <1>3, <1>4 DEF MotionInv

LEMMA StoppedFromInv ==
  ASSUME IInv, MotionInv
  PROVE  EndedMeansStopped
<1> SUFFICES ASSUME NEW c \in executing, c \notin loose PROVE outcome[c] = "running"
  BY DEF EndedMeansStopped
<1>1. c \in Calls /\ CallMotion(c) /\ Moving(c)
  BY DEF IInv, KeyInv, MotionInv, Moving
<1>2. SeesTo(frames[c])
  BY <1>1 DEF CallMotion
<1>3. frames[c] # << >>
  BY <1>2, StackOfNone
<1> QED
  BY <1>1, <1>3, StackFacts DEF IInv, Plain

\* A call that has ended has left no motion behind, whatever its body raised,
\* unless it was interrupted before it had the response or while it stopped the
\* motion: it does not leave its body before an event has said that the motion
\* is over, or a StopExecution that the robot handles after the request has been
\* answered (_cancellation, handle_events, _long_rpc).
THEOREM EndedMeansStoppedHolds == Spec => []EndedMeansStopped
<1>1. Spec => []OwnInv
  BY InitOwn, NextOwn, SpecIInv, PTL DEF Spec
<1>2. Spec => []MotionInv
  BY <1>1, InitMotion, NextMotion, SpecIInv, PTL DEF Spec
<1> QED
  BY <1>2, SpecIInv, StoppedFromInv, PTL
=============================================================================
