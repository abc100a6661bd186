--------------------------- MODULE EvoLongProofs ---------------------------
(***************************************************************************)
(* A third layer of proofs about EvoRpc: a long RPC reads back its own     *)
(* response from the memory that all calls share.                          *)
(*                                                                         *)
(* Every request in the inbox of the robot that nobody waits for has been  *)
(* left there by a cancellation, so their number is at most the number of  *)
(* cancellations.  A request of somebody else that is in front of those of *)
(* a long RPC, on the other hand, has all the RPC's requests behind it,    *)
(* each of which has taken an answer it was not meant to take.  With no    *)
(* more cancellations than chunks there are too few of them when the long  *)
(* request is executed, and from then on the memory is the call's own.     *)
(***************************************************************************)
EXTENDS EvoAnswersProofs, WellFoundedInduction

-----------------------------------------------------------------------------
(* The naturals are well ordered.                                          *)

\* The order of the natural numbers, as a relation.
InOrder == {p \in Nat \X Nat : p[1] < p[2]}

\* It is well founded: the library's theorem about the order of the naturals.
LEMMA NatIsInOrder == IsWellFoundedOn(InOrder, Nat)
  BY NatLessThanWellFounded, Zenon DEF InOrder, OpToRel

\* Every set of naturals has a least element.
LEMMA LeastOf == ASSUME NEW T \in SUBSET Nat, T # {} PROVE \E n \in T : \A m \in T : n <= m
<1>1. PICK n \in T : \A m \in T : << m, n >> \notin InOrder
  BY WFMin, NatIsInOrder, Zenon
<1>2. \A m \in T : << m, n >> \in Nat \X Nat /\ << m, n >>[1] = m /\ << m, n >>[2] = n
  OBVIOUS
<1>3. \A m \in T : ~ m < n
  BY <1>1, <1>2, Zenon DEF InOrder
<1> QED BY <1>3

-----------------------------------------------------------------------------
(* How often calls have been cancelled, in all.  MapThenSumSet is a        *)
(* recursion over the subsets of a set that takes a chosen element off at  *)
(* each step: what is needed of it is shown by the smallest counterexample.*)

Total == MapThenSumSet(LAMBDA d : cancels[d], Calls)

Chosen(s) == CHOOSE x \in s : TRUE
SumStep(w, g, s) == IF s = {} THEN 0 ELSE w[Chosen(s)] + g[s \ {Chosen(s)}]
SumOver(w, All) == CHOOSE g : g = [s \in SUBSET All |-> SumStep(w, g, s)]

\* The fold of the library is the function it defines.
LEMMA TotalIs == Total = SumOver(cancels, Calls)[Calls]
  BY Zenon DEF Total, MapThenSumSet, MapThenFoldSet, SumStep, SumOver, Chosen

LEMMA ChosenIn == \A s : s # {} => Chosen(s) \in s
  BY Zenon DEF Chosen

\* The recursion over the subsets of a finite set has a solution: otherwise take the
\* least size up to which it has none.
LEMMA SumExists ==
  ASSUME NEW w, NEW All, IsFiniteSet(All)
  PROVE  \E g : g = [s \in SUBSET All |-> SumStep(w, g, s)]
<1> DEFINE Small(n) == {s \in SUBSET All : Cardinality(s) <= n}
           Solved(n) == \E g : g = [s \in Small(n) |-> SumStep(w, g, s)]
           T == {n \in Nat : ~ Solved(n)}
<1>1. \A s \in SUBSET All : IsFiniteSet(s) /\ Cardinality(s) \in Nat /\ Cardinality(s) <= Cardinality(All)
  BY FS_Subset, FS_CardinalityType
<1>2. Solved(0)
  <2>1. \A s \in Small(0) : s = {}
    BY <1>1, FS_EmptySet
  <2>2. [s \in Small(0) |-> 0] = [s \in Small(0) |-> SumStep(w, [t \in Small(0) |-> 0], s)]
    BY <2>1, Zenon DEF SumStep
  <2> QED BY <2>2, Zenon
<1>3. ASSUME NEW n \in Nat, Solved(n) PROVE Solved(n + 1)
  <2>1. PICK g : g = [s \in Small(n) |-> SumStep(w, g, s)]
    BY <1>3, Zenon
  <2> DEFINE h == [s \in Small(n + 1) |-> SumStep(w, g, s)]
  <2>2. \A s \in Small(n) : s \in Small(n + 1)
    BY <1>1
  <2>3. \A s \in Small(n) : h[s] = g[s]
    BY <2>1, <2>2, Zenon
  <2>4. \A s \in Small(n + 1) : s # {} => s \ {Chosen(s)} \in Small(n)
    BY <1>1, FS_RemoveElement, ChosenIn
  <2> HIDE DEF h
  <2>5. \A s \in Small(n + 1) : SumStep(w, g, s) = SumStep(w, h, s)
    BY <2>3, <2>4, Zenon DEF SumStep
  <2>6. h = [s \in Small(n + 1) |-> SumStep(w, h, s)]
    BY <2>5, Zenon DEF h
  <2> QED BY <2>6, Zenon
<1>4. T = {}
  <2> SUFFICES ASSUME T # {} PROVE FALSE
    OBVIOUS
  <2> HIDE DEF Solved
  <2>1. PICK n \in T : \A m \in T : n <= m
    BY LeastOf
  <2>2. n # 0 /\ n \in Nat /\ ~ Solved(n)
    BY <1>2
  <2>3. n - 1 \in Nat /\ n - 1 \notin T /\ (n - 1) + 1 = n
    BY <2>1, <2>2
  <2>4. Solved((n - 1) + 1)
    BY <2>3, <1>3
  <2> QED BY <2>2, <2>3, <2>4
<1>5. Solved(Cardinality(All))
  <2> HIDE DEF Solved
  <2> QED BY <1>4, FS_CardinalityType
<1>6. Small(Cardinality(All)) = SUBSET All
  BY <1>1
<1> QED BY <1>5, <1>6, Zenon

LEMMA SumUnfolds ==
  ASSUME NEW w, NEW All, IsFiniteSet(All)
  PROVE  \A s \in SUBSET All : SumOver(w, All)[s] = SumStep(w, SumOver(w, All), s)
<1>1. \E g : g = [s \in SUBSET All |-> SumStep(w, g, s)]
  BY SumExists, Zenon
<1>2. SumOver(w, All) = [s \in SUBSET All |-> SumStep(w, SumOver(w, All), s)]
  BY <1>1, Zenon DEF SumOver
<1> HIDE DEF SumOver
<1> QED BY <1>2, Zenon

\* Sums of naturals are naturals, and an element that counts once more adds one
\* to the sums it is in.
LEMMA SumAdds ==
  ASSUME NEW All, IsFiniteSet(All), NEW w \in [All -> Nat], NEW c \in All
  PROVE  LET v == [w EXCEPT ![c] = @ + 1] IN
         \A s \in SUBSET All :
           /\ SumOver(w, All)[s] \in Nat
           /\ SumOver(v, All)[s] = SumOver(w, All)[s] + (IF c \in s THEN 1 ELSE 0)
<1> DEFINE v == [w EXCEPT ![c] = @ + 1]
           Adds(a, b, s) == a[s] \in Nat /\ b[s] = a[s] + (IF c \in s THEN 1 ELSE 0)
<1>0. v \in [All -> Nat] /\ \A x \in All : v[x] = w[x] + (IF x = c THEN 1 ELSE 0)
  OBVIOUS
<1> HIDE DEF v
<1> SUFFICES \A s \in SUBSET All : Adds(SumOver(w, All), SumOver(v, All), s)
  BY Zenon DEF v
<1>1. PICK a, b : a = SumOver(w, All) /\ b = SumOver(v, All)
  OBVIOUS
<1>2. \A s \in SUBSET All : a[s] = SumStep(w, a, s) /\ b[s] = SumStep(v, b, s)
  BY <1>1, SumUnfolds
<1> DEFINE Bad(n) == \E s \in SUBSET All : Cardinality(s) = n /\ ~ Adds(a, b, s)
           T == {n \in Nat : Bad(n)}
<1>3. \A s \in SUBSET All : IsFiniteSet(s) /\ Cardinality(s) \in Nat
  BY FS_Subset, FS_CardinalityType
<1>4. T = {}
  <2> SUFFICES ASSUME T # {} PROVE FALSE
    OBVIOUS
  <2>1. PICK n \in T : \A m \in T : n <= m
    <3> HIDE DEF Bad
    <3> QED BY LeastOf
  <2>2. PICK s \in SUBSET All : Cardinality(s) = n /\ ~ Adds(a, b, s)
    BY Zenon
  <2>3. s # {}
    <3>1. CASE s = {}
      <4>1. a[s] = 0 /\ b[s] = 0
        BY <1>2, <3>1 DEF SumStep
      <4> QED BY <2>2, <3>1, <4>1
    <3> QED BY <3>1
  <2>4. PICK x \in s : x = Chosen(s)
    BY <2>3, ChosenIn
  <2>5. PICK rest \in SUBSET All : rest = s \ {x}
    OBVIOUS
  <2>6. Cardinality(rest) \in Nat /\ Cardinality(rest) < n
    BY <1>3, <2>2, <2>5, FS_RemoveElement
  <2>7. n \in Nat /\ Cardinality(rest) \notin T
    <3> HIDE DEF Bad
    <3> QED BY <2>1, <2>6
  <2>8. Adds(a, b, rest)
    BY <2>6, <2>7
  <2>9. a[s] = w[x] + a[rest] /\ b[s] = v[x] + b[rest]
    BY <1>2, <2>3, <2>4, <2>5, Zenon DEF SumStep
  <2>10. w[x] \in Nat /\ v[x] = w[x] + (IF x = c THEN 1 ELSE 0)
    BY <1>0
  <2>11. c \in s <=> x = c \/ c \in rest
    BY <2>5
  <2>12. x \notin rest
    BY <2>5
  <2> QED BY <2>2, <2>8, <2>9, <2>10, <2>11, <2>12
<1> QED
  <2> SUFFICES ASSUME NEW s \in SUBSET All PROVE Adds(a, b, s)
    BY <1>1, Zenon
  <2>1. Cardinality(s) \in Nat
    BY <1>3
  <2>2. ~ Bad(Cardinality(s))
    <3> HIDE DEF Bad
    <3> QED BY <1>4, <2>1
  <2> QED BY <2>2, Zenon

\* The total is a number, and a cancellation adds one to it.
LEMMA TotalAdds ==
  ASSUME Plain, NEW c \in Calls
  PROVE  /\ Total \in Nat
         /\ cancels' = [cancels EXCEPT ![c] = @ + 1] => Total' = Total + 1
         /\ cancels' = cancels => Total' = Total
<1>1. cancels \in [Calls -> Nat] /\ IsFiniteSet(Calls) /\ Calls \in SUBSET Calls
  BY CallsAssumption DEF Plain
<1>2. PICK v : v = [cancels EXCEPT ![c] = @ + 1]
  OBVIOUS
<1>3. /\ SumOver(cancels, Calls)[Calls] \in Nat
      /\ SumOver(v, Calls)[Calls] = SumOver(cancels, Calls)[Calls] + 1
  BY <1>1, <1>2, SumAdds
<1>4. Total' = SumOver(cancels', Calls)[Calls]
  BY Zenon DEF Total, MapThenSumSet, MapThenFoldSet, SumStep, SumOver, Chosen
<1> QED
  BY <1>2, <1>3, <1>4, TotalIs

LEMMA TotalIsNat ==
  ASSUME cancels \in [Calls -> Nat]
  PROVE  Total \in Nat
<1>1. CASE Calls = {}
  <2>1. SumOver(cancels, Calls)[Calls] = SumStep(cancels, SumOver(cancels, Calls), Calls)
    BY SumUnfolds, CallsAssumption
  <2> QED
    BY <1>1, <2>1, TotalIs DEF SumStep
<1>2. ASSUME NEW c \in Calls PROVE Total \in Nat
  BY SumAdds, TotalIs, CallsAssumption
<1> QED
  BY <1>1, <1>2

LEMMA TotalKept ==
  ASSUME cancels' = cancels
  PROVE  Total' = Total
<1>1. Total' = SumOver(cancels', Calls)[Calls]
  BY Zenon DEF Total, MapThenSumSet, MapThenFoldSet, SumStep, SumOver, Chosen
<1> QED
  BY <1>1, TotalIs

-----------------------------------------------------------------------------
(* The invariant.                                                          *)

Few == Total <= WriteChunks

\* Before an RPC has the lock, and with it an open session for its response.
Outside == {"subscribe", "notifying", "lock"}

\* A response is not there before its session is open.  Of a long RPC only the
\* nested ones write and read.
FrameOrderly(f) ==
  /\ f.at \in Outside => f.response = NoMessage
  /\ f.at \in {"write", "read"} => ~Long(f.rpc)

\* A nested RPC of a long one has ended well only with a response.
NestedOrderly(g) ==
  /\ g.at \in Early \cup {"read"} => g.result = "ok"
  /\ g.at = "abort" => g.result # "ok"
  /\ g.at \in {"unsubscribe", "stopnotify"} /\ g.result = "ok" => g.response # NoMessage

Orderly(s) ==
  /\ \A i \in DOMAIN s : FrameOrderly(s[i])
  /\ 1 \in DOMAIN s /\ s[1].at \in Early => s[1].step = 0
  /\ 2 \in DOMAIN s /\ s[1].at = "long" => NestedOrderly(s[2])

\* A long RPC under way: nothing has gone wrong with the one nested in it.
UnderWay(s) ==
  /\ 1 \in DOMAIN s /\ s[1].at = "long"
  /\ 2 \in DOMAIN s => s[2].result = "ok" /\ s[2].at # "abort"

\* How many requests it has sent.
Sent(s) == IF 2 \in DOMAIN s /\ s[2].at \notin Early THEN s[1].step + 1 ELSE s[1].step

\* All that is in the inbox has been left there by cancellations, but for the
\* request that a call waits for.
Balance ==
  /\ Len(inbox) <= Total + 1
  /\ (\A c \in Calls : ~Awaits(c)) => Len(inbox) <= Total
  /\ \A c \in Calls : At(c, "write") /\ Top(c).response # NoMessage => Len(inbox) + 1 <= Total

\* The i-th request of the inbox, when c has sent n: its own are of different
\* chunks and with nothing else behind them, and behind another's are all of them.
Placed(i, c, n) ==
  /\ inbox[i].by = c =>
       /\ inbox[i].step \in 1 .. n /\ inbox[i].rpc = Nested(inbox[i].step - 1)
       /\ \A j \in DOMAIN inbox : i < j => inbox[j].by = c /\ inbox[j].step > inbox[i].step
  /\ inbox[i].by # c => i + n <= Len(inbox)

InboxOrderly(c) ==
  UnderWay(frames[c]) => \A i \in DOMAIN inbox : Placed(i, c, Sent(frames[c]))

\* The memory holds the response to c, and nobody is about to overwrite it.
Kept(c) == memory[1][1] = c /\ \A i \in DOMAIN inbox : inbox[i].rpc = "MemRead"

\* What a long RPC has been told and has read is m.
Remembers(s, m) ==
  /\ s[1].step >= WriteChunks + 1 => s[1].crc = m
  /\ s[1].step = WriteChunks + 2 => s[1].data = m
  /\ /\ 2 \in DOMAIN s /\ s[2].response # NoMessage
     /\ s[2].rpc \in {"LongRPCExtensionExecute", "MemRead"}
     => s[2].at # "write" /\ s[2].response.data = m

\* It has been told that the robot has executed its request.
Executed(s) ==
  \/ s[1].step >= WriteChunks + 1
  \/ /\ 2 \in DOMAIN s
     /\ s[2].rpc = "LongRPCExtensionExecute" /\ s[2].response # NoMessage

\* A call that has not been asked for or has not sent anything yet.
Silent(c) == outcome[c] = "idle" \/ (1 \in DOMAIN frames[c] /\ frames[c][1].at \in Early)

LongOwn(c, f) == Long(f.rpc) /\ f.response # NoMessage => f.response.by = c

CallLong(c) ==
  /\ Orderly(frames[c])
  /\ Silent(c) => \A i \in DOMAIN inbox : inbox[i].by # c
  /\ InboxOrderly(c)
  /\ Few /\ UnderWay(frames[c]) =>
       /\ Remembers(frames[c], memory[1])
       /\ Executed(frames[c]) => Kept(c)
  /\ Few => \A i \in DOMAIN frames[c] : LongOwn(c, frames[c][i])

LongInv == DOMAIN memory = 1 .. WriteChunks /\ Balance /\ \A c \in Calls : CallLong(c)

\* These definitions of stacks of one and of two RPCs.
LEMMA LongOfOne ==
  ASSUME NEW f
  PROVE  /\ Orderly(<< f >>) <=> FrameOrderly(f) /\ (f.at \in Early => f.step = 0)
         /\ UnderWay(<< f >>) <=> f.at = "long"
         /\ Sent(<< f >>) = f.step
         /\ \A m : Remembers(<< f >>, m) <=>
              /\ f.step >= WriteChunks + 1 => f.crc = m
              /\ f.step = WriteChunks + 2 => f.data = m
         /\ Executed(<< f >>) <=> f.step >= WriteChunks + 1
         /\ \A i \in DOMAIN << f >> : << f >>[i] = f
<1>1. DOMAIN << f >> = {1} /\ << f >>[1] = f /\ 2 \notin {1}
  BY TupleWhere
<1> QED
  BY <1>1 DEF Orderly, UnderWay, Sent, Remembers, Executed

LEMMA LongOfTwo ==
  ASSUME NEW o, NEW g, o.at \in {"long", "stopping"}
  PROVE  /\ Orderly(<< o, g >>) <=> FrameOrderly(g) /\ (o.at = "long" => NestedOrderly(g))
         /\ UnderWay(<< o, g >>) <=> o.at = "long" /\ g.result = "ok" /\ g.at # "abort"
         /\ Sent(<< o, g >>) = IF g.at \in Early THEN o.step ELSE o.step + 1
         /\ \A m : Remembers(<< o, g >>, m) <=>
              /\ o.step >= WriteChunks + 1 => o.crc = m
              /\ o.step = WriteChunks + 2 => o.data = m
              /\ g.response # NoMessage /\ g.rpc \in {"LongRPCExtensionExecute", "MemRead"} =>
                   g.at # "write" /\ g.response.data = m
         /\ Executed(<< o, g >>) <=>
              \/ o.step >= WriteChunks + 1
              \/ g.rpc = "LongRPCExtensionExecute" /\ g.response # NoMessage
<1>1. /\ DOMAIN << o, g >> = {1, 2} /\ << o, g >>[1] = o /\ << o, g >>[2] = g
      /\ o.at \notin Early /\ FrameOrderly(o)
  BY TupleWhere DEF Early, Outside, FrameOrderly
<1> QED
  BY <1>1 DEF Orderly, UnderWay, Sent, Remembers, Executed

LEMMA LongOfNone == Orderly(<< >>) /\ ~UnderWay(<< >>)
BY TupleWhere DEF Orderly, UnderWay

-----------------------------------------------------------------------------
(* The steps of a call.                                                    *)

\* The innermost RPC of c goes on as g.
Shifts(c, g) ==
  \/ frames[c] = << Top(c) >> /\ frames'[c] = << g >>
  \/ \E o : /\ frames[c] = << o, Top(c) >> /\ Around(o) /\ Top(c).rpc \in NestedRpcs
            /\ frames'[c] = << o, g >>

\* How an RPC at f goes on as g, when it does not write, and keeps its response.
Turned(f, g) ==
  /\ g.rpc = f.rpc /\ g.response = f.response /\ g.at # "read"
  /\ g.at \in Early => f.at \in Outside /\ g.step = f.step /\ g.result = f.result
  /\ g.at = "write" => ~Long(g.rpc)
  /\ g.at = "long" => f.at = "lock" /\ g.step = f.step /\ Long(g.rpc)
  /\ f.at \in Early /\ g.at \notin Early \cup {"long"} => g.result # "ok"
  /\ g.at = "abort" => g.result # "ok"
  /\ g.at \notin Early \cup {"long"} /\ g.result = "ok" =>
       \/ f.at = "read" /\ f.response # NoMessage
       \/ f.at \in {"abort", "unsubscribe"} /\ f.result = "ok"
       \/ f.at \in {"long", "body"}

\* A long RPC has read its response.
Returned(f, g) ==
  /\ f.at = "long" /\ f.step = WriteChunks + 2 /\ f.data = f.crc
  /\ g.at = "body" /\ g.rpc = f.rpc /\ g.response.by = f.data[1]

\* A nested RPC begins.
Begins(g) ==
  g.at = "subscribe" /\ g.response = NoMessage /\ g.result = "ok" /\ ~Long(g.rpc)

\* The RPC at o, around one at f, goes on as g when that is over.
Continues(o, f, g) ==
  /\ g.rpc = o.rpc /\ g.response = o.response
  /\ \/ g.at \in {"unsubscribe", "abort"}
     \/ /\ o.at = "long" /\ g.at = "long" /\ g.step = o.step + 1
        /\ f.at \in {"unsubscribe", "stopnotify"} /\ f.result = "ok"
        /\ g.crc = IF f.rpc = "LongRPCExtensionExecute" THEN f.response.data ELSE o.crc
        /\ g.data = IF f.rpc = "MemRead" THEN f.response.data ELSE o.data

Advances(c) ==
  \/ \E g : Turned(Top(c), g) /\ Shifts(c, g)
  \/ \E g : Returned(Top(c), g) /\ frames[c] = << Top(c) >> /\ frames'[c] = << g >>
  \/ \E g : /\ Top(c).at = "long" /\ frames[c] = << Top(c) >>
            /\ Begins(g) /\ frames'[c] = << Top(c), g >>
  \/ \E o, g : /\ o.at = "stopping" /\ o.rpc = Top(c).rpc /\ o.response = Top(c).response
               /\ frames[c] = << Top(c) >> /\ Begins(g) /\ frames'[c] = << o, g >>
  \/ frames'[c] = << >>
  \/ \E o, g : /\ frames[c] = << o, Top(c) >> /\ Around(o)
               /\ Continues(o, Top(c), g) /\ frames'[c] = << g >>

\* A call that has been made takes such a step, and no other call does.
Steps(c) ==
  /\ frames[c] # << >> /\ Advances(c) /\ outcome'[c] # "idle"
  /\ \A d \in Calls \ {c} : frames'[d] = frames[d] /\ outcome'[d] = outcome[d]

LEMMA SetTopShifts ==
  ASSUME IInv, NEW c \in Calls, frames[c] # << >>, NEW g, SetTop(c, g)
  PROVE  Shifts(c, g) /\ \A d \in Calls \ {c} : frames'[d] = frames[d]
<1>1. /\ frames'[c] = WithTop(frames[c], g)
      /\ \A d \in Calls \ {c} : frames'[d] = frames[d]
  BY DEF SetTop, IInv, Stacks
<1>2. CASE frames[c] = << Top(c) >>
  <2>1. \A t : WithTop(<< t >>, g) = << g >>
    BY TopOfOne
  <2>2. frames'[c] = << g >>
    BY <1>1, <1>2, <2>1, Zenon
  <2> QED
    BY <1>1, <1>2, <2>2 DEF Shifts
<1>3. CASE \E o : frames[c] = << o, Top(c) >> /\ Around(o) /\ Top(c).rpc \in NestedRpcs
  <2>1. PICK o : frames[c] = << o, Top(c) >> /\ Around(o) /\ Top(c).rpc \in NestedRpcs
    BY <1>3
  <2>2. \A t : WithTop(<< o, t >>, g) = << o, g >>
    BY TopOfTwo
  <2>3. frames'[c] = << o, g >>
    BY <1>1, <2>1, <2>2, Zenon
  <2> QED
    BY <1>1, <2>1, <2>3 DEF Shifts
<1> QED
  BY <1>2, <1>3, Shape DEF IInv

LEMMA SetTopSteps ==
  ASSUME IInv, NEW c \in Calls, frames[c] # << >>, NEW g, Turned(Top(c), g), SetTop(c, g),
         UNCHANGED outcome
  PROVE  Steps(c)
<1>1. Shifts(c, g) /\ \A d \in Calls \ {c} : frames'[d] = frames[d]
  BY SetTopShifts
<1>2. outcome[c] = "running"
  BY StackFacts DEF IInv, Plain
<1> QED
  BY <1>1, <1>2 DEF Steps, Advances

LEMMA GoesOnSteps ==
  ASSUME IInv, NEW c \in Calls, NEW a, At(c, a), NEW g, Turned(Top(c), g), GoesOn(c, g)
  PROVE  Steps(c)
BY SetTopSteps DEF GoesOn, At

\* The RPC at f goes on at b with the result r.
Moved(f, g, b, r) == MovedTo(g, f, b, r) /\ g.step = f.step

LEMMA AtMoved ==
  ASSUME IInv, NEW c \in Calls, NEW a, At(c, a), NEW b
  PROVE  /\ Moved(Top(c), [Top(c) EXCEPT !.at = b], b, Top(c).result)
         /\ \A r : Moved(Top(c), [Top(c) EXCEPT !.at = b, !.result = r], b, r)
<1> DEFINE t == Top(c)
<1>1. t \in [rpc : {t.rpc}, at : {t.at}, step : {t.step}, response : {t.response},
             crc : {t.crc}, data : {t.data}, result : {t.result}]
  BY AtWhere DEF IInv, Innermost, IsFrame
<1> HIDE DEF t
<1>2. Moved(t, [t EXCEPT !.at = b], b, t.result)
  BY <1>1 DEF Moved, MovedTo
<1>3. \A r : Moved(t, [t EXCEPT !.at = b, !.result = r], b, r)
  BY <1>1 DEF Moved, MovedTo
<1> QED
  BY <1>2, <1>3 DEF t

LEMMA MovedTurned ==
  ASSUME NEW c, NEW a, At(c, a), NEW b, NEW r, NEW g, Moved(Top(c), g, b, r),
         b \in Early \cup {"long", "abort", "unsubscribe", "stopnotify"},
         b \in Early => a \in Outside /\ r = Top(c).result,
         b = "write" => ~Long(Top(c).rpc),
         b = "long" => a = "lock" /\ Long(Top(c).rpc),
         a \in Early /\ b \notin Early \cup {"long"} => r # "ok",
         b = "abort" => r # "ok",
         b \in {"unsubscribe", "stopnotify"} =>
           r # "ok" \/ a \in {"long", "body"} \/ (a \in {"abort", "unsubscribe"} /\ r = Top(c).result)
  PROVE  Turned(Top(c), g)
<1>1. Top(c).at = a
  BY DEF At
<1> QED
  BY <1>1 DEF Turned, Moved, MovedTo, Early

\* The response has been read.
LEMMA AnsweredTurned ==
  ASSUME IInv, NEW c \in Calls, At(c, "read"), Top(c).response # NoMessage
  PROVE  Turned(Top(c), Answered(Top(c), Top(c).response))
<1> DEFINE t == Top(c)
<1>1. t.at = "read" /\ t.response # NoMessage
  BY DEF At
<1>2. t \in [rpc : {t.rpc}, at : {t.at}, step : {t.step}, response : {t.response},
             crc : {t.crc}, data : {t.data}, result : {t.result}]
  BY AtWhere DEF IInv, Innermost, IsFrame
<1> HIDE DEF t
<1>3. PICK g : g = Answered(t, t.response)
  OBVIOUS
<1>4. CASE t.rpc \in Motions
  <2>1. g = [t EXCEPT !.at = "body", !.response = t.response]
    BY <1>3, <1>4, Zenon DEF Answered
  <2>2. g.at = "body" /\ g.rpc = t.rpc /\ g.response = t.response
    BY <1>2, <2>1
  <2> QED
    BY <1>1, <1>3, <2>2 DEF Turned, Early, t
<1>5. CASE t.rpc \notin Motions
  <2>1. PICK r : g = [t EXCEPT !.at = "unsubscribe", !.response = t.response, !.result = r]
    BY <1>3, <1>5, Zenon DEF Answered
  <2>2. g.at = "unsubscribe" /\ g.rpc = t.rpc /\ g.response = t.response
    BY <1>2, <2>1
  <2> QED
    BY <1>1, <1>3, <2>2 DEF Turned, Early, t
<1> QED
  BY <1>4, <1>5

\* A nested RPC is pushed.
LEMMA PushSteps ==
  ASSUME IInv, NEW c \in Calls, NEW a \in {"long", "body"}, At(c, a), NEW o, NEW rpc \in NestedRpcs,
         \/ a = "long" /\ o = Top(c)
         \/ o.at = "stopping" /\ o.rpc = Top(c).rpc /\ o.response = Top(c).response,
         Push(c, o, rpc), UNCHANGED outcome
  PROVE  Steps(c)
<1> DEFINE g == Frame(rpc)
<1>1. frames[c] = << Top(c) >> /\ Top(c).at = a /\ frames[c] # << >>
  BY AloneInside DEF At
<1>2. /\ frames'[c] = Append(WithTop(frames[c], o), g)
      /\ \A d \in Calls \ {c} : frames'[d] = frames[d]
  BY DEF Push, IInv, Stacks
<1>3. Begins(g)
  BY NestedAreShort DEF Frame, Begins
<1> HIDE DEF g
<1>4. frames'[c] = << o, g >>
  <2>1. \A h : WithTop(<< h >>, o) = << o >> /\ Append(<< o >>, g) = << o, g >>
    BY TopOfOne
  <2> QED
    BY <1>1, <1>2, <2>1, Zenon
<1>5. outcome[c] = "running"
  BY <1>1, StackFacts DEF IInv, Plain
<1>6. Advances(c)
  <2>1. CASE a = "long" /\ o = Top(c)
    BY <1>1, <1>3, <1>4, <2>1 DEF Advances
  <2>2. CASE o.at = "stopping" /\ o.rpc = Top(c).rpc /\ o.response = Top(c).response
    BY <1>1, <1>3, <1>4, <2>2 DEF Advances
  <2> QED
    BY <2>1, <2>2
<1> QED
  BY <1>1, <1>2, <1>5, <1>6 DEF Steps

LEMMA StopSteps ==
  ASSUME IInv, NEW c \in Calls, At(c, "body"), NEW result, Stop(c, result)
  PROVE  Steps(c)
<1>1. PICK o : Moved(Top(c), o, "stopping", result) /\ Push(c, o, "StopExecution")
  BY AtMoved, Zenon DEF Stop
<1>2. o.at = "stopping" /\ o.rpc = Top(c).rpc /\ o.response = Top(c).response
  BY <1>1 DEF Moved, MovedTo
<1>3. UNCHANGED outcome
  BY DEF Stop
<1> QED
  BY <1>1, <1>2, <1>3, PushSteps DEF NestedRpcs

\* What the RPC around a nested one goes on as.
LEMMA ResumedContinues ==
  ASSUME NEW o, Around(o), NEW f, NEW result,
         result # "ok" \/ (f.at \in {"unsubscribe", "stopnotify"} /\ f.result = result)
  PROVE  Continues(o, f, Resumed(o, f, result))
<1>1. o \in [rpc : {o.rpc}, at : {o.at}, step : {o.step}, response : {o.response},
             crc : {o.crc}, data : {o.data}, result : {o.result}]
  BY DEF Around, IsFrame
<1>2. PICK g : g = Resumed(o, f, result)
  OBVIOUS
<1>3. CASE o.at = "stopping"
  <2>1. PICK r : g = [o EXCEPT !.at = "unsubscribe", !.result = r]
    BY <1>2, <1>3, Zenon DEF Resumed
  <2>2. g.at = "unsubscribe" /\ g.rpc = o.rpc /\ g.response = o.response
    BY <1>1, <2>1
  <2> QED
    BY <1>2, <2>2 DEF Continues
<1>4. CASE o.at = "long" /\ result = "ok"
  <2>1. PICK x, d : /\ g = [o EXCEPT !.step = o.step + 1, !.crc = x, !.data = d]
                    /\ x = IF f.rpc = "LongRPCExtensionExecute" THEN f.response.data ELSE o.crc
                    /\ d = IF f.rpc = "MemRead" THEN f.response.data ELSE o.data
    BY <1>2, <1>4, Zenon DEF Resumed
  <2>2. /\ g.at = o.at /\ g.rpc = o.rpc /\ g.response = o.response
        /\ g.step = o.step + 1 /\ g.crc = x /\ g.data = d
    BY <1>1, <2>1
  <2> QED
    BY <1>2, <1>4, <2>1, <2>2 DEF Continues
<1>5. CASE o.at = "long" /\ result # "ok"
  <2>1. g = [o EXCEPT !.at = "abort", !.result = result]
    BY <1>2, <1>5, Zenon DEF Resumed
  <2>2. g.at = "abort" /\ g.rpc = o.rpc /\ g.response = o.response
    BY <1>1, <2>1
  <2> QED
    BY <1>2, <2>2 DEF Continues
<1> QED
  BY <1>3, <1>4, <1>5 DEF Around

LEMMA EndsSteps ==
  ASSUME IInv, NEW c \in Calls, frames[c] # << >>, NEW result \in Results,
         result # "ok" \/ (Top(c).at \in {"unsubscribe", "stopnotify"} /\ Top(c).result = result),
         Ends(c, result)
  PROVE  Steps(c)
<1> DEFINE t == Top(c)
<1>1. CASE frames[c] = << t >>
  <2>1. Front(frames[c]) = << >>
    BY <1>1, TopOfOne
  <2>2. frames' = [frames EXCEPT ![c] = << >>] /\ outcome' = [outcome EXCEPT ![c] = result]
    BY <2>1, Zenon DEF Ends
  <2>3. /\ frames'[c] = << >> /\ outcome'[c] # "idle"
        /\ \A d \in Calls \ {c} : frames'[d] = frames[d] /\ outcome'[d] = outcome[d]
    BY <2>2 DEF IInv, Stacks, Plain, Results
  <2> QED
    BY <2>3 DEF Steps, Advances
<1>2. CASE \E o : frames[c] = << o, t >> /\ Around(o)
  <2>1. PICK o : frames[c] = << o, t >> /\ Around(o)
    BY <1>2
  <2>2. Front(frames[c]) = << o >>
    BY <2>1, TopOfTwo
  <2>3. << o >> # << >> /\ << o >>[Len(<< o >>)] = o
    BY TupleWhere
  <2>4. PICK g : /\ g = Resumed(o, t, result)
                 /\ frames' = [frames EXCEPT ![c] = WithTop(<< o >>, g)]
                 /\ UNCHANGED outcome
    BY <2>2, <2>3, Zenon DEF Ends
  <2>5. Continues(o, t, g)
    BY <2>1, <2>4, ResumedContinues
  <2>6. frames' = [frames EXCEPT ![c] = << g >>]
    BY <2>4, TopOfOne
  <2>7. /\ frames'[c] = << g >>
        /\ \A d \in Calls \ {c} : frames'[d] = frames[d] /\ outcome'[d] = outcome[d]
    BY <2>4, <2>6 DEF IInv, Stacks
  <2>8. outcome'[c] # "idle"
    BY <2>4, StackFacts DEF IInv, Plain
  <2> QED
    BY <2>1, <2>5, <2>7, <2>8 DEF Steps, Advances
<1> QED
  BY <1>1, <1>2, Shape DEF IInv

\* The response of a long RPC is the one whose owner its first part names.
LEMMA LongEndsSteps ==
  ASSUME IInv, NEW c \in Calls, LongEnds(c)
  PROVE  Steps(c)
<1> DEFINE f == Top(c)
           m == [NoMessage EXCEPT !.rpc = f.rpc, !.by = f.data[1], !.ok = f.data[2]]
<1>1. At(c, "long") /\ f.step = WriteChunks + 2
  BY DEF LongEnds
<1>2. CASE f.data = f.crc
  <2>1. m.by = f.data[1]
    BY DEF NoMessage
  <2>2. GoesOn(c, Answered(f, m))
    BY <1>2, Zenon DEF LongEnds
  <2> HIDE DEF m
  <2>3. /\ Innermost(f) /\ f.at = "long" /\ frames[c] = << f >> /\ frames[c] # << >>
    BY <1>1, AloneInside, AtWhere DEF IInv
  <2>4. f.rpc \in Motions
    BY <2>3, LongAreMotions DEF Innermost, IsFrame, FrameOK
  <2>5. PICK g : g = [f EXCEPT !.at = "body", !.response = m] /\ GoesOn(c, g)
    BY <2>2, <2>4 DEF Answered
  <2>6. g.at = "body" /\ g.rpc = f.rpc /\ g.response = m
    <3>1. f \in [rpc : {f.rpc}, at : {f.at}, step : {f.step}, response : {f.response},
                 crc : {f.crc}, data : {f.data}, result : {f.result}]
      BY <2>3 DEF Innermost, IsFrame
    <3> HIDE DEF f
    <3> QED
      BY <2>5, <3>1
  <2>7. Returned(f, g)
    BY <1>1, <1>2, <2>1, <2>3, <2>6 DEF Returned
  <2>8. SetTop(c, g) /\ UNCHANGED outcome
    BY <2>5 DEF GoesOn
  <2>9. Shifts(c, g) /\ \A d \in Calls \ {c} : frames'[d] = frames[d]
    BY <2>3, <2>8, SetTopShifts
  <2>10. frames'[c] = << g >>
    BY <2>3, <2>9, TupleWhere DEF Shifts
  <2>11. outcome[c] = "running"
    BY <2>3, StackFacts DEF IInv, Plain
  <2> QED
    BY <2>3, <2>7, <2>8, <2>9, <2>10, <2>11 DEF Steps, Advances
<1>3. CASE f.data # f.crc
  <2>1. PICK g : Moved(f, g, "abort", "error") /\ GoesOn(c, g)
    BY <1>1, <1>3, AtMoved, Zenon DEF LongEnds
  <2>2. Turned(f, g)
    BY <1>1, <2>1, MovedTurned DEF Early, Outside
  <2> QED
    BY <1>1, <2>1, <2>2, GoesOnSteps
<1> QED
  BY <1>2, <1>3

LEMMA RunsSteps ==
  ASSUME IInv, NEW c \in Calls, Runs(c), ~Write(c)
  PROVE  Steps(c)
<1>1. CASE Subscribe(c)
  <2>1. At(c, "subscribe") /\ frames[c] # << >>
    BY <1>1 DEF Subscribe, At
  <2>2. CASE SetTop(c, [Top(c) EXCEPT !.at = "notifying"]) /\ UNCHANGED outcome
    <3>1. PICK g : Moved(Top(c), g, "notifying", Top(c).result) /\ SetTop(c, g)
      BY <2>1, <2>2, AtMoved, Zenon
    <3>2. Turned(Top(c), g)
      BY <2>1, <3>1, MovedTurned DEF Early, Outside
    <3> QED
      BY <2>1, <2>2, <3>1, <3>2, SetTopSteps
  <2>3. CASE GoesOn(c, [Top(c) EXCEPT !.at = "lock"])
    <3>1. PICK g : Moved(Top(c), g, "lock", Top(c).result) /\ GoesOn(c, g)
      BY <2>1, <2>3, AtMoved, Zenon
    <3>2. Turned(Top(c), g)
      BY <2>1, <3>1, MovedTurned DEF Early, Outside
    <3> QED
      BY <2>1, <3>1, <3>2, GoesOnSteps
  <2> QED
    BY <1>1, <2>2, <2>3, Zenon DEF Subscribe
<1>2. CASE StartNotify(c)
  <2>1. At(c, "notifying")
    BY <1>2 DEF StartNotify
  <2>2. PICK g : Moved(Top(c), g, "lock", Top(c).result) /\ GoesOn(c, g)
    BY <1>2, <2>1, AtMoved, Zenon DEF StartNotify
  <2>3. Turned(Top(c), g)
    BY <2>1, <2>2, MovedTurned DEF Early, Outside
  <2> QED
    BY <2>1, <2>2, <2>3, GoesOnSteps
<1>3. CASE EnterLock(c)
  <2>1. At(c, "lock")
    BY <1>3 DEF EnterLock
  <2>2. CASE Long(Top(c).rpc)
    <3>1. GoesOn(c, [Top(c) EXCEPT !.at = "long"])
      BY <1>3, <2>2, Zenon DEF EnterLock
    <3>2. PICK g : Moved(Top(c), g, "long", Top(c).result) /\ GoesOn(c, g)
      BY <2>1, <3>1, AtMoved, Zenon
    <3>3. Turned(Top(c), g)
      BY <2>1, <2>2, <3>2, MovedTurned DEF Early, Outside
    <3> QED
      BY <2>1, <3>2, <3>3, GoesOnSteps
  <2>3. CASE ~Long(Top(c).rpc)
    <3>1. GoesOn(c, [Top(c) EXCEPT !.at = "write"])
      BY <1>3, <2>3, Zenon DEF EnterLock
    <3>2. PICK g : Moved(Top(c), g, "write", Top(c).result) /\ GoesOn(c, g)
      BY <2>1, <3>1, AtMoved, Zenon
    <3>3. Turned(Top(c), g)
      BY <2>1, <2>3, <3>2, MovedTurned DEF Early, Outside
    <3> QED
      BY <2>1, <3>2, <3>3, GoesOnSteps
  <2> QED
    BY <2>2, <2>3
<1>4. CASE Read(c)
  <2>1. At(c, "read") /\ Top(c).response # NoMessage
    BY <1>4 DEF Read
  <2>2. GoesOn(c, Answered(Top(c), Top(c).response))
    BY <1>4 DEF Read
  <2> QED
    BY <2>1, <2>2, AnsweredTurned, GoesOnSteps
<1>5. CASE Abort(c)
  <2>1. At(c, "abort")
    BY <1>5 DEF Abort
  <2>2. PICK g : Moved(Top(c), g, "unsubscribe", Top(c).result) /\ GoesOn(c, g)
    BY <1>5, <2>1, AtMoved, Zenon DEF Abort
  <2>3. Turned(Top(c), g)
    BY <2>1, <2>2, MovedTurned DEF Early, Outside
  <2> QED
    BY <2>1, <2>2, <2>3, GoesOnSteps
<1>6. CASE Unsubscribe(c)
  <2>1. At(c, "unsubscribe") /\ frames[c] # << >> /\ Top(c).at = "unsubscribe"
    BY <1>6 DEF Unsubscribe, At
  <2>2. CASE SetTop(c, [Top(c) EXCEPT !.at = "stopnotify"]) /\ UNCHANGED outcome
    <3>1. PICK g : Moved(Top(c), g, "stopnotify", Top(c).result) /\ SetTop(c, g)
      BY <2>1, <2>2, AtMoved, Zenon
    <3>2. Turned(Top(c), g)
      BY <2>1, <3>1, MovedTurned DEF Early, Outside
    <3> QED
      BY <2>1, <2>2, <3>1, <3>2, SetTopSteps
  <2>3. CASE Ends(c, Top(c).result)
    BY <2>1, <2>3, ResultOfTop, EndsSteps
  <2> QED
    BY <1>6, <2>2, <2>3, Zenon DEF Unsubscribe
<1>7. CASE StopNotify(c)
  <2>1. At(c, "stopnotify") /\ frames[c] # << >> /\ Top(c).at = "stopnotify"
    BY <1>7 DEF StopNotify, At
  <2>2. Ends(c, Top(c).result)
    BY <1>7 DEF StopNotify
  <2> QED
    BY <2>1, <2>2, ResultOfTop, EndsSteps
<1>8. CASE LongNext(c)
  <2>1. /\ At(c, "long") /\ Push(c, Top(c), Nested(Top(c).step)) /\ UNCHANGED outcome
    BY <1>8 DEF LongNext, task
  <2> QED
    BY <2>1, PushSteps DEF NestedRpcs, Nested
<1>9. CASE LongEnds(c)
  BY <1>9, LongEndsSteps
<1>10. CASE BodyReturns(c)
  <2>1. At(c, "body")
    BY <1>10 DEF BodyReturns
  <2>2. PICK g : Moved(Top(c), g, "unsubscribe", Top(c).result) /\ GoesOn(c, g)
    BY <1>10, <2>1, AtMoved, Zenon DEF BodyReturns
  <2>3. Turned(Top(c), g)
    BY <2>1, <2>2, MovedTurned DEF Early, Outside
  <2> QED
    BY <2>1, <2>2, <2>3, GoesOnSteps
<1>11. CASE BodyRaises(c)
  BY <1>11, StopSteps DEF BodyRaises
<1> QED
  BY <1>1, <1>2, <1>3, <1>4, <1>5, <1>6, <1>7, <1>8, <1>9, <1>10, <1>11, Zenon DEF Runs

LEMMA FailsSteps ==
  ASSUME IInv, NEW c \in Calls, Fails(c)
  PROVE  Steps(c)
<1>1. CASE NotifyFails(c)
  <2>1. frames[c] # << >> /\ Ends(c, "error")
    BY <1>1 DEF NotifyFails, NotifyEnds, At
  <2> QED
    BY <2>1, EndsSteps DEF Results
<1>2. CASE WriteFails(c)
  <2>1. At(c, "write")
    BY <1>2 DEF WriteFails
  <2>2. PICK g : Moved(Top(c), g, "abort", "error") /\ GoesOn(c, g)
    BY <1>2, <2>1, AtMoved, Zenon DEF WriteFails
  <2>3. Turned(Top(c), g)
    BY <2>1, <2>2, MovedTurned DEF Early, Outside
  <2> QED
    BY <2>1, <2>2, <2>3, GoesOnSteps
<1> QED
  BY <1>1, <1>2 DEF Fails

LEMMA CancelSteps ==
  ASSUME IInv, NEW c \in Calls, Cancel(c)
  PROVE  Steps(c)
<1>1. CASE CancelWaiting(c) \/ CancelNotify(c)
  <2>1. frames[c] # << >> /\ Ends(c, "cancelled")
    BY <1>1 DEF CancelWaiting, CancelNotify, NotifyEnds, At
  <2> QED
    BY <2>1, EndsSteps DEF Results
<1>2. CASE CancelLock(c)
  <2>1. At(c, "lock")
    BY <1>2 DEF CancelLock
  <2>2. PICK g : Moved(Top(c), g, "unsubscribe", "cancelled") /\ GoesOn(c, g)
    BY <1>2, <2>1, AtMoved, Zenon DEF CancelLock
  <2>3. Turned(Top(c), g)
    BY <2>1, <2>2, MovedTurned DEF Early, Outside
  <2> QED
    BY <2>1, <2>2, <2>3, GoesOnSteps
<1>3. CASE CancelExchange(c)
  <2>1. PICK a \in {"write", "read"} : At(c, a)
    BY <1>3 DEF CancelExchange
  <2>2. PICK g : Moved(Top(c), g, "abort", "cancelled") /\ GoesOn(c, g)
    BY <1>3, <2>1, AtMoved, Zenon DEF CancelExchange
  <2>3. Turned(Top(c), g)
    BY <2>1, <2>2, MovedTurned DEF Early, Outside
  <2> QED
    BY <2>1, <2>2, <2>3, GoesOnSteps
<1>4. CASE CancelAbort(c)
  <2>1. At(c, "abort")
    BY <1>4 DEF CancelAbort
  <2>2. PICK g : Moved(Top(c), g, "unsubscribe", "cancelled") /\ GoesOn(c, g)
    BY <1>4, <2>1, AtMoved, Zenon DEF CancelAbort
  <2>3. Turned(Top(c), g)
    BY <2>1, <2>2, MovedTurned DEF Early, Outside
  <2> QED
    BY <2>1, <2>2, <2>3, GoesOnSteps
<1>5. CASE CancelBody(c)
  BY <1>5, StopSteps DEF CancelBody
<1> QED
  BY <1>1, <1>2, <1>3, <1>4, <1>5, Zenon DEF Cancel

-----------------------------------------------------------------------------
(* What such a step keeps.                                                 *)

\* A nested RPC is neither long nor a motion.
LEMMA NestedAt ==
  ASSUME IInv, NEW c \in Calls, NEW o, frames[c] = << o, Top(c) >>, Around(o),
         Top(c).rpc \in NestedRpcs
  PROVE  /\ o.at \in {"long", "stopping"} /\ o.step \in Nat
         /\ o.at = "long" => o.step < WriteChunks + 2
         /\ Top(c).at \notin {"long", "body", "stopping"}
<1>1. frames[c] # << >>
  BY TupleWhere
<1>2. Innermost(Top(c))
  BY <1>1, Shape DEF IInv
<1> QED
  BY <1>2, NestedWhere, BoundsAssumption DEF Around, IsFrame, FrameOK

LEMMA StepsOrderly ==
  ASSUME IInv, NEW c \in Calls, Orderly(frames[c]), Steps(c)
  PROVE  Orderly(frames'[c])
<1> DEFINE f == Top(c)
<1>1. ASSUME NEW g, Turned(f, g), Shifts(c, g)
      PROVE  Orderly(frames'[c])
  <2>1. CASE frames[c] = << f >> /\ frames'[c] = << g >>
    <3>1. FrameOrderly(f) /\ (f.at \in Early => f.step = 0)
      BY <2>1, LongOfOne
    <3>2. FrameOrderly(g) /\ (g.at \in Early => g.step = 0)
      BY <1>1, <3>1 DEF Turned, FrameOrderly, Outside, Early
    <3> QED
      BY <2>1, <3>2, LongOfOne
  <2>2. CASE \E o : /\ frames[c] = << o, f >> /\ Around(o) /\ f.rpc \in NestedRpcs
                    /\ frames'[c] = << o, g >>
    <3>1. PICK o : /\ frames[c] = << o, f >> /\ Around(o) /\ f.rpc \in NestedRpcs
                   /\ frames'[c] = << o, g >>
      BY <2>2
    <3>2. o.at \in {"long", "stopping"} /\ f.at \notin {"long", "body", "stopping"}
      BY <3>1, NestedAt
    <3>3. FrameOrderly(f) /\ (o.at = "long" => NestedOrderly(f))
      BY <3>1, <3>2, LongOfTwo
    <3>4. FrameOrderly(g)
      BY <1>1, <3>3 DEF Turned, FrameOrderly, Outside, Early
    <3>5. o.at = "long" => NestedOrderly(g)
      BY <1>1, <3>2, <3>3 DEF Turned, NestedOrderly, Outside, Early
    <3> QED
      BY <3>1, <3>2, <3>4, <3>5, LongOfTwo
  <2> QED
    BY <1>1, <2>1, <2>2 DEF Shifts
<1>2. ASSUME NEW g, Returned(f, g), frames'[c] = << g >>
      PROVE  Orderly(frames'[c])
  BY <1>2, LongOfOne DEF Returned, FrameOrderly, Outside, Early
<1>3. ASSUME NEW o, o.at \in {"long", "stopping"}, NEW g, Begins(g), frames'[c] = << o, g >>
      PROVE  Orderly(frames'[c])
  <2>1. FrameOrderly(g) /\ NestedOrderly(g)
    BY <1>3 DEF Begins, FrameOrderly, NestedOrderly, Outside, Early
  <2> QED
    BY <1>3, <2>1, LongOfTwo
<1>4. ASSUME NEW o, NEW g, Continues(o, f, g), frames'[c] = << g >>
      PROVE  Orderly(frames'[c])
  <2>1. FrameOrderly(g) /\ g.at \notin Early
    BY <1>4 DEF Continues, FrameOrderly, Outside, Early
  <2> QED
    BY <1>4, <2>1, LongOfOne
<1>5. CASE frames'[c] = << >>
  BY <1>5, LongOfNone
<1> QED
  BY <1>1, <1>2, <1>3, <1>4, <1>5 DEF Steps, Advances

\* It neither waits for an answer nor writes with one, and it is silent after it
\* only before its first request.
LEMMA StepsSilent ==
  ASSUME IInv, NEW c \in Calls, Orderly(frames[c]), Steps(c)
  PROVE  /\ ~Awaits(c)'
         /\ At(c, "write")' => Top(c)'.response = NoMessage
         /\ Silent(c)' => Silent(c) /\ Top(c).at \in Outside
<1> DEFINE f == Top(c)
           Top1(g) == frames'[c] = << g >> /\ g = Top(c)' /\ frames'[c][1] = g
           Top2(o, g) == frames'[c] = << o, g >> /\ g = Top(c)' /\ frames'[c][1] = o
<1>1. /\ \A g : frames'[c] = << g >> => Top1(g)
      /\ \A o, g : frames'[c] = << o, g >> => Top2(o, g)
  BY TopIs, TupleWhere
<1>2. outcome'[c] # "idle"
  BY DEF Steps
<1>3. ASSUME NEW g, Turned(f, g), Shifts(c, g)
      PROVE  /\ g = Top(c)' /\ g.at # "read" /\ (g.at = "write" => g.response = NoMessage)
             /\ frames'[c][1].at \in Early => Silent(c) /\ f.at \in Outside
  <2>1. CASE frames[c] = << f >> /\ frames'[c] = << g >>
    <3>1. FrameOrderly(f) /\ Top1(g) /\ frames[c][1] = f /\ 1 \in DOMAIN frames[c]
      BY <1>1, <2>1, LongOfOne, TupleWhere
    <3> QED
      BY <1>3, <3>1 DEF Turned, FrameOrderly, Silent, Outside, Early
  <2>2. CASE \E o : /\ frames[c] = << o, f >> /\ Around(o) /\ f.rpc \in NestedRpcs
                    /\ frames'[c] = << o, g >>
    <3>1. PICK o : /\ frames[c] = << o, f >> /\ Around(o) /\ f.rpc \in NestedRpcs
                   /\ frames'[c] = << o, g >>
      BY <2>2
    <3>2. o.at \in {"long", "stopping"}
      BY <3>1, NestedAt
    <3>3. FrameOrderly(f) /\ Top2(o, g)
      BY <1>1, <3>1, <3>2, LongOfTwo
    <3> QED
      BY <1>3, <3>2, <3>3 DEF Turned, FrameOrderly, Outside, Early
  <2> QED
    BY <1>3, <2>1, <2>2 DEF Shifts
<1>4. ASSUME NEW g, Returned(f, g), frames'[c] = << g >>
      PROVE  g = Top(c)' /\ g.at \notin {"read", "write"} /\ frames'[c][1].at \notin Early
  BY <1>1, <1>4 DEF Returned, Early
<1>5. ASSUME NEW o, o.at \in {"long", "stopping"}, NEW g, Begins(g), frames'[c] = << o, g >>
      PROVE  g = Top(c)' /\ g.at \notin {"read", "write"} /\ frames'[c][1].at \notin Early
  BY <1>1, <1>5 DEF Begins, Early
<1>6. ASSUME NEW o, NEW g, Continues(o, f, g), frames'[c] = << g >>
      PROVE  g = Top(c)' /\ g.at \notin {"read", "write"} /\ frames'[c][1].at \notin Early
  BY <1>1, <1>6 DEF Continues, Early
<1>7. frames'[c] = << >> => ~At(c, "read")' /\ ~At(c, "write")' /\ 1 \notin DOMAIN frames'[c]
  BY TupleWhere DEF At
<1>8. \/ ~At(c, "read")' /\ ~At(c, "write")' /\ 1 \notin DOMAIN frames'[c]
      \/ \E g : /\ g = Top(c)' /\ g.at # "read" /\ (g.at = "write" => g.response = NoMessage)
                /\ frames'[c][1].at \in Early => Silent(c) /\ f.at \in Outside
  BY <1>3, <1>4, <1>5, <1>6, <1>7 DEF Steps, Advances
<1> QED
  BY <1>2, <1>8 DEF Awaits, At, Silent

\* How a long RPC of c can be under way after it: it has just got the lock, nests
\* an RPC, goes on with the nested one, or takes its response over.
Follows(s, t) ==
  \/ \E f, g : s = << f >> /\ t = << g >> /\ f.at \in Early /\ g.at = "long" /\ g.step = 0
  \/ \E f, g : s = << f >> /\ t = << f, g >> /\ f.at = "long" /\ Begins(g)
  \/ \E o, f, g : /\ s = << o, f >> /\ t = << o, g >> /\ Around(o) /\ o.at = "long"
                  /\ UnderWay(s) /\ (f.at \in Early <=> g.at \in Early)
                  /\ g.rpc = f.rpc /\ g.response = f.response
                  /\ g.at = "write" => g.response = NoMessage
  \/ \E o, f, g : /\ s = << o, f >> /\ t = << g >> /\ Around(o) /\ o.at = "long"
                  /\ UnderWay(s) /\ f.at \notin Early /\ f.response # NoMessage
                  /\ Continues(o, f, g) /\ g.at = "long"

LEMMA StepsFollow ==
  ASSUME IInv, NEW c \in Calls, Orderly(frames[c]), Steps(c), UnderWay(frames'[c])
  PROVE  Follows(frames[c], frames'[c])
<1> DEFINE f == Top(c)
<1>1. ASSUME NEW g, Turned(f, g), Shifts(c, g)
      PROVE  Follows(frames[c], frames'[c])
  <2>1. CASE frames[c] = << f >> /\ frames'[c] = << g >>
    <3>1. g.at = "long" /\ (f.at \in Early => f.step = 0)
      BY <2>1, LongOfOne
    <3>2. f.at \in Early /\ g.step = 0
      BY <1>1, <3>1 DEF Turned, Early
    <3> QED
      BY <2>1, <3>1, <3>2 DEF Follows
  <2>2. CASE \E o : /\ frames[c] = << o, f >> /\ Around(o) /\ f.rpc \in NestedRpcs
                    /\ frames'[c] = << o, g >>
    <3>1. PICK o : /\ frames[c] = << o, f >> /\ Around(o) /\ f.rpc \in NestedRpcs
                   /\ frames'[c] = << o, g >>
      BY <2>2
    <3>2. o.at \in {"long", "stopping"} /\ f.at \notin {"long", "body", "stopping"}
      BY <3>1, NestedAt
    <3>3. o.at = "long" /\ g.result = "ok" /\ g.at # "abort"
      BY <3>1, <3>2, LongOfTwo
    <3>4. FrameOrderly(f) /\ NestedOrderly(f)
      BY <3>1, <3>2, <3>3, LongOfTwo
    <3>5. g.at # "long"
      BY <1>1, <3>1, NestedAreShort DEF Turned
    <3>6. (f.at \in Early <=> g.at \in Early) /\ (g.at = "write" => g.response = NoMessage)
      BY <1>1, <3>3, <3>4, <3>5 DEF Turned, FrameOrderly, Outside, Early
    <3>7. f.result = "ok" /\ f.at # "abort"
      BY <1>1, <3>2, <3>3, <3>4, <3>5 DEF Turned, NestedOrderly, Outside, Early
    <3>8. UnderWay(frames[c])
      BY <3>1, <3>2, <3>3, <3>7, LongOfTwo
    <3>9. g.rpc = f.rpc /\ g.response = f.response
      BY <1>1 DEF Turned
    <3> QED
      BY <3>1, <3>3, <3>6, <3>8, <3>9 DEF Follows
  <2> QED
    BY <1>1, <2>1, <2>2 DEF Shifts
<1>2. ASSUME NEW g, Returned(f, g), frames'[c] = << g >>
      PROVE  FALSE
  <2>1. g.at = "long"
    BY <1>2, LongOfOne
  <2> QED
    BY <1>2, <2>1 DEF Returned
<1>3. ASSUME NEW g, f.at = "long", frames[c] = << f >>, Begins(g), frames'[c] = << f, g >>
      PROVE  Follows(frames[c], frames'[c])
  BY <1>3 DEF Follows
<1>4. ASSUME NEW o, NEW g, o.at = "stopping", frames'[c] = << o, g >>
      PROVE  FALSE
  <2>1. o.at = "long"
    BY <1>4, LongOfTwo
  <2> QED
    BY <1>4, <2>1
<1>5. ASSUME NEW o, NEW g, frames[c] = << o, f >>, Around(o), Continues(o, f, g),
             frames'[c] = << g >>
      PROVE  Follows(frames[c], frames'[c])
  <2>1. g.at = "long"
    BY <1>5, LongOfOne
  <2>2. o.at = "long" /\ f.at \in {"unsubscribe", "stopnotify"} /\ f.result = "ok"
    BY <1>5, <2>1 DEF Continues
  <2>3. NestedOrderly(f) /\ UnderWay(frames[c])
    BY <1>5, <2>2, LongOfTwo
  <2>4. f.at \notin Early /\ f.response # NoMessage
    BY <2>2, <2>3 DEF NestedOrderly, Early
  <2> QED
    BY <1>5, <2>1, <2>2, <2>3, <2>4 DEF Follows
<1>6. frames'[c] # << >>
  BY LongOfNone
<1> QED
  BY <1>1, <1>2, <1>3, <1>4, <1>5, <1>6 DEF Steps, Advances

\* The requests stay placed: none has been sent, and none that was not counted.
LEMMA FollowsInbox ==
  ASSUME IInv, NEW c \in Calls, frames[c] # << >>, CallLong(c), inbox' = inbox,
         Follows(frames[c], frames'[c])
  PROVE  InboxOrderly(c)'
<1>1. inbox \in Seq(Queries)
  BY DEF IInv, KeyInv
<1>2. \/ UnderWay(frames[c]) /\ Sent(frames'[c]) = Sent(frames[c])
      \/ Silent(c) /\ Sent(frames'[c]) = 0
  <2>1. CASE \E f, g : /\ frames[c] = << f >> /\ frames'[c] = << g >> /\ f.at \in Early
                       /\ g.at = "long" /\ g.step = 0
    <3>1. PICK f, g : frames[c] = << f >> /\ frames'[c] = << g >> /\ f.at \in Early /\ g.step = 0
      BY <2>1
    <3> QED
      BY <3>1, LongOfOne, TupleWhere DEF Silent
  <2>2. CASE \E f, g : frames[c] = << f >> /\ frames'[c] = << f, g >> /\ f.at = "long" /\ Begins(g)
    <3>1. PICK f, g : frames[c] = << f >> /\ frames'[c] = << f, g >> /\ f.at = "long" /\ Begins(g)
      BY <2>2
    <3>2. g.at \in Early
      BY <3>1 DEF Begins, Early
    <3> QED
      BY <3>1, <3>2, LongOfOne, LongOfTwo
  <2>3. CASE \E o, f, g : /\ frames[c] = << o, f >> /\ frames'[c] = << o, g >> /\ o.at = "long"
                          /\ UnderWay(frames[c]) /\ (f.at \in Early <=> g.at \in Early)
    BY <2>3, LongOfTwo
  <2>4. CASE \E o, f, g : /\ frames[c] = << o, f >> /\ frames'[c] = << g >> /\ o.at = "long"
                          /\ UnderWay(frames[c]) /\ f.at \notin Early
                          /\ Continues(o, f, g) /\ g.at = "long"
    <3>1. PICK o, f, g : /\ frames[c] = << o, f >> /\ frames'[c] = << g >> /\ o.at = "long"
                         /\ UnderWay(frames[c]) /\ f.at \notin Early
                         /\ Continues(o, f, g) /\ g.at = "long"
      BY <2>4
    <3>2. g.step = o.step + 1
      BY <3>1 DEF Continues
    <3> QED
      BY <3>1, <3>2, LongOfOne, LongOfTwo
  <2> QED
    BY <2>1, <2>2, <2>3, <2>4 DEF Follows
<1>3. CASE UnderWay(frames[c]) /\ Sent(frames'[c]) = Sent(frames[c])
  BY <1>3 DEF CallLong, InboxOrderly, Placed
<1>4. CASE Silent(c) /\ Sent(frames'[c]) = 0
  <2>1. \A i \in DOMAIN inbox : i + 0 <= Len(inbox)
    BY <1>1
  <2>2. \A i \in DOMAIN inbox : inbox[i].by # c
    BY <1>4 DEF CallLong
  <2> QED
    BY <1>4, <2>1, <2>2 DEF InboxOrderly, Placed
<1> QED
  BY <1>2, <1>3, <1>4

\* What the memory has been told to hold is remembered.
LEMMA FollowsRemembers ==
  ASSUME IInv, NEW c \in Calls, NEW m, NestedAsMeant(frames[c]),
         UnderWay(frames[c]) => Remembers(frames[c], m), Follows(frames[c], frames'[c])
  PROVE  /\ Remembers(frames'[c], m)
         /\ Executed(frames'[c]) => UnderWay(frames[c]) /\ Executed(frames[c])
<1>0. WriteChunks \in Nat /\ WriteChunks > 0
  BY BoundsAssumption
<1>1. CASE \E f, g : frames'[c] = << g >> /\ g.step = 0
  BY <1>0, <1>1, LongOfOne
<1>2. CASE \E f, g : frames[c] = << f >> /\ frames'[c] = << f, g >> /\ f.at = "long" /\ Begins(g)
  <2>1. PICK f, g : frames[c] = << f >> /\ frames'[c] = << f, g >> /\ f.at = "long" /\ Begins(g)
    BY <1>2
  <2>2. g.response = NoMessage
    BY <2>1 DEF Begins
  <2>3. UnderWay(frames[c])
    BY <2>1, LongOfOne
  <2> QED
    BY <2>1, <2>2, <2>3, LongOfOne, LongOfTwo
<1>3. CASE \E o, f, g : /\ frames[c] = << o, f >> /\ frames'[c] = << o, g >> /\ o.at = "long"
                        /\ UnderWay(frames[c]) /\ g.rpc = f.rpc /\ g.response = f.response
                        /\ g.at = "write" => g.response = NoMessage
  <2>1. PICK o, f, g : /\ frames[c] = << o, f >> /\ frames'[c] = << o, g >> /\ o.at = "long"
                       /\ UnderWay(frames[c]) /\ g.rpc = f.rpc /\ g.response = f.response
                       /\ g.at = "write" => g.response = NoMessage
    BY <1>3
  <2> QED
    BY <2>1, LongOfTwo
<1>4. CASE \E o, f, g : /\ frames[c] = << o, f >> /\ frames'[c] = << g >> /\ Around(o)
                        /\ o.at = "long" /\ UnderWay(frames[c]) /\ f.response # NoMessage
                        /\ Continues(o, f, g) /\ g.at = "long"
  <2>1. PICK o, f, g : /\ frames[c] = << o, f >> /\ frames'[c] = << g >> /\ Around(o)
                       /\ o.at = "long" /\ UnderWay(frames[c]) /\ f.response # NoMessage
                       /\ Continues(o, f, g) /\ g.at = "long"
    BY <1>4
  <2>2. /\ g.step = o.step + 1
        /\ g.crc = IF f.rpc = "LongRPCExtensionExecute" THEN f.response.data ELSE o.crc
        /\ g.data = IF f.rpc = "MemRead" THEN f.response.data ELSE o.data
    BY <2>1 DEF Continues
  <2>3. f.rpc = Nested(o.step)
    BY <2>1, StackOfTwo
  <2>4. o.step \in Nat /\ o.step < WriteChunks + 2
    BY <2>1, BoundsAssumption DEF Around, IsFrame, FrameOK
  <2>5. /\ o.step >= WriteChunks + 1 => o.crc = m
        /\ f.rpc \in {"LongRPCExtensionExecute", "MemRead"} => f.response.data = m
    BY <2>1, LongOfTwo
  <2>6. /\ o.step = WriteChunks => f.rpc = "LongRPCExtensionExecute"
        /\ o.step > WriteChunks => f.rpc = "MemRead"
        /\ o.step < WriteChunks => f.rpc = "MemWrite"
    BY <1>0, <2>3, <2>4 DEF Nested
  <2>7. g.step >= WriteChunks + 1 => g.crc = m
    BY <1>0, <2>2, <2>4, <2>5, <2>6
  <2>8. g.step = WriteChunks + 2 => g.data = m
    BY <1>0, <2>2, <2>4, <2>5, <2>6
  <2>9. g.step >= WriteChunks + 1 => Executed(frames[c])
    BY <1>0, <2>1, <2>2, <2>4, <2>6, LongOfTwo
  <2> QED
    BY <2>1, <2>7, <2>8, <2>9, LongOfOne
<1> QED
  BY <1>1, <1>2, <1>3, <1>4 DEF Follows

\* The response of a long RPC is the one in the memory.
LEMMA StepsLongOwn ==
  ASSUME IInv, NEW c \in Calls, Steps(c), CallLong(c), Few
  PROVE  \A i \in DOMAIN frames'[c] : LongOwn(c, frames'[c][i])
<1> DEFINE f == Top(c)
           Kin(g, h) == g.rpc = h.rpc /\ g.response = h.response
<1>0. \A i \in DOMAIN frames[c] : LongOwn(c, frames[c][i])
  BY DEF CallLong
<1>1. /\ \A h : frames[c] = << h >> => LongOwn(c, h)
      /\ \A o, h : frames[c] = << o, h >> => LongOwn(c, o) /\ LongOwn(c, h)
  BY <1>0, TupleWhere
<1>2. /\ \A g : frames'[c] = << g >> => \A i \in DOMAIN frames'[c] : frames'[c][i] = g
      /\ \A o, g : frames'[c] = << o, g >> =>
           \A i \in DOMAIN frames'[c] : frames'[c][i] = o \/ frames'[c][i] = g
  BY TupleWhere
<1>3. \A g, h : Kin(g, h) /\ LongOwn(c, h) => LongOwn(c, g)
  BY DEF LongOwn
<1>4. ASSUME NEW g, Turned(f, g), Shifts(c, g)
      PROVE  \A i \in DOMAIN frames'[c] : LongOwn(c, frames'[c][i])
  BY <1>1, <1>2, <1>3, <1>4 DEF Shifts, Turned
<1>5. ASSUME NEW g, Returned(f, g), frames[c] = << f >>, frames'[c] = << g >>
      PROVE  \A i \in DOMAIN frames'[c] : LongOwn(c, frames'[c][i])
  <2>1. f.at = "long" /\ f.step = WriteChunks + 2 /\ f.data = f.crc /\ g.response.by = f.data[1]
    BY <1>5 DEF Returned
  <2>2. f.step >= WriteChunks + 1
    BY <2>1, BoundsAssumption
  <2>3. UnderWay(frames[c]) /\ Executed(frames[c])
    BY <1>5, <2>1, <2>2, LongOfOne
  <2>4. Remembers(frames[c], memory[1]) /\ memory[1][1] = c
    BY <2>3 DEF CallLong, Kept
  <2>5. f.crc = memory[1]
    BY <1>5, <2>2, <2>4, LongOfOne
  <2> QED
    BY <1>2, <1>5, <2>1, <2>4, <2>5 DEF LongOwn
<1>6. ASSUME NEW o, Kin(o, f), frames[c] = << f >>, NEW g, Begins(g), frames'[c] = << o, g >>
      PROVE  \A i \in DOMAIN frames'[c] : LongOwn(c, frames'[c][i])
  BY <1>1, <1>2, <1>3, <1>6 DEF Begins, LongOwn
<1>7. ASSUME NEW o, frames[c] = << o, f >>, NEW g, Continues(o, f, g), frames'[c] = << g >>
      PROVE  \A i \in DOMAIN frames'[c] : LongOwn(c, frames'[c][i])
  BY <1>1, <1>2, <1>3, <1>7 DEF Continues
<1>8. frames'[c] = << >> => DOMAIN frames'[c] = {}
  BY TupleWhere
<1> QED
  BY <1>4, <1>5, <1>6, <1>7, <1>8 DEF Steps, Advances

\* Together, for the call that steps and for the others.
LEMMA StepsCall ==
  ASSUME IInv, MotionInv, NEW c \in Calls, CallLong(c), Steps(c), UNCHANGED << inbox, memory >>,
         Few' => Few
  PROVE  CallLong(c)'
<1>1. Orderly(frames[c]) /\ frames[c] # << >>
  BY DEF CallLong, Steps
<1>2. Orderly(frames'[c]) /\ (Silent(c)' => Silent(c))
  BY <1>1, StepsOrderly, StepsSilent
<1>3. ASSUME UnderWay(frames'[c])
      PROVE  /\ InboxOrderly(c)'
             /\ Few' => /\ Remembers(frames'[c], memory'[1])
                        /\ Executed(frames'[c]) => Kept(c)'
  <2>1. Follows(frames[c], frames'[c])
    BY <1>1, <1>3, StepsFollow
  <2>2. NestedAsMeant(frames[c])
    BY DEF MotionInv, CallMotion
  <2>3. ASSUME Few
        PROVE  /\ Remembers(frames'[c], memory[1])
               /\ Executed(frames'[c]) => Kept(c)
    <3>1. UnderWay(frames[c]) =>
            Remembers(frames[c], memory[1]) /\ (Executed(frames[c]) => Kept(c))
      BY <2>3 DEF CallLong
    <3> QED
      BY <2>1, <2>2, <3>1, FollowsRemembers
  <2>4. InboxOrderly(c)'
    BY <1>1, <2>1, FollowsInbox
  <2> QED
    BY <2>3, <2>4 DEF Kept
<1>4. Few' => \A i \in DOMAIN frames'[c] : LongOwn(c, frames'[c][i])
  BY StepsLongOwn
<1>5. ~UnderWay(frames'[c]) => InboxOrderly(c)'
  BY DEF InboxOrderly
<1> QED
  BY <1>2, <1>3, <1>4, <1>5 DEF CallLong

\* Another call can have sent a request, while no long RPC of d is under way.
LEMMA OthersCall ==
  ASSUME IInv, NEW d \in Calls, CallLong(d), frames'[d] = frames[d], outcome'[d] = outcome[d],
         memory' = memory, Few' => Few,
         \/ inbox' = inbox
         \/ ~UnderWay(frames[d]) /\ \E q \in Queries : q.by # d /\ inbox' = Append(inbox, q)
  PROVE  CallLong(d)'
<1>1. Silent(d)' <=> Silent(d)
  BY DEF Silent
<1>2. CASE inbox' = inbox
  BY <1>1, <1>2 DEF CallLong, InboxOrderly, Placed, Kept, LongOwn
<1>3. CASE ~UnderWay(frames[d]) /\ \E q \in Queries : q.by # d /\ inbox' = Append(inbox, q)
  <2>1. PICK q \in Queries : q.by # d /\ inbox' = Append(inbox, q)
    BY <1>3
  <2>2. inbox \in Seq(Queries)
    BY DEF IInv, KeyInv
  <2>3. \A i \in DOMAIN inbox' : inbox'[i] = q \/ (i \in DOMAIN inbox /\ inbox'[i] = inbox[i])
    BY <2>1, <2>2
  <2>4. Silent(d)' => \A i \in DOMAIN inbox' : inbox'[i].by # d
    BY <1>1, <2>1, <2>3 DEF CallLong
  <2> QED
    BY <1>3, <2>4 DEF CallLong, InboxOrderly, LongOwn
<1> QED
  BY <1>2, <1>3

\* A long RPC is under way only of the call that has the lock.
LEMMA ExchangeApart ==
  ASSUME IInv, NEW c \in Calls, NEW a \in Exchanging, At(c, a), NEW d \in Calls, d # c
  PROVE  ~UnderWay(frames[d])
<1>1. UnderWay(frames[d]) => Where(d, 1) = "long"
  BY DEF UnderWay, Where
<1>2. Where(c, 1) = a \/ Where(c, 2) = a
  BY AtWhere DEF IInv
<1>3. Held(c) # 0 /\ (Where(d, 1) = "long" => Held(d) # 0)
  BY <1>2 DEF Held, Exchanging
<1> QED
  BY <1>1, <1>3 DEF IInv, LockInv

\* There are no more cancellations after a step than before it, or one more.
LEMMA FewStays ==
  ASSUME Plain, NEW c \in Calls, cancels' = cancels \/ cancels' = [cancels EXCEPT ![c] = @ + 1]
  PROVE  /\ Total \in Nat /\ Total' \in Nat
         /\ Total' = (IF cancels' = cancels THEN Total ELSE Total + 1)
         /\ Few' => Few
<1>1. /\ Total \in Nat
      /\ cancels' = [cancels EXCEPT ![c] = @ + 1] => Total' = Total + 1
      /\ cancels' = cancels => Total' = Total
  BY TotalAdds
<1> QED
  BY <1>1, BoundsAssumption DEF Few

\* A step that neither sends nor cancels keeps the balance.
LEMMA StepsBalance ==
  ASSUME IInv, Balance, NEW c \in Calls, Orderly(frames[c]), Steps(c), ~Awaits(c),
         UNCHANGED << inbox, cancels >>
  PROVE  Balance'
<1>1. Total' = Total /\ Total \in Nat
  BY FewStays DEF IInv
<1>2. /\ ~Awaits(c)'
      /\ At(c, "write")' => Top(c)'.response = NoMessage
  BY StepsSilent
<1>3. \A d \in Calls \ {c} : frames'[d] = frames[d]
  BY DEF Steps
<1>4. \A d \in Calls \ {c} : /\ Awaits(d)' <=> Awaits(d)
                             /\ At(d, "write")' <=> At(d, "write")
                             /\ Top(d)' = Top(d)
  BY <1>3 DEF Awaits, At, Top
<1> QED
  BY <1>1, <1>2, <1>4 DEF Balance

-----------------------------------------------------------------------------
(* The steps of a call that leave the inbox alone.                         *)

LEMMA RunsKeepMemory ==
  ASSUME NEW c \in Calls, Runs(c) \/ Fails(c), ~Write(c)
  PROVE  memory' = memory
<1>1. CASE Subscribe(c) \/ StartNotify(c) \/ EnterLock(c)
  BY <1>1 DEF Subscribe, StartNotify, EnterLock, robot
<1>2. CASE Read(c) \/ Abort(c)
  BY <1>2 DEF Read, Abort, robot
<1>3. CASE Unsubscribe(c) \/ StopNotify(c)
  BY <1>3 DEF Unsubscribe, StopNotify, robot
<1>4. CASE LongNext(c) \/ LongEnds(c)
  BY <1>4, Zenon DEF LongNext, LongEnds, robot
<1>5. CASE BodyReturns(c) \/ BodyRaises(c)
  BY <1>5 DEF BodyReturns, BodyRaises, robot
<1>6. CASE NotifyFails(c) \/ WriteFails(c)
  BY <1>6 DEF NotifyFails, NotifyEnds, WriteFails, robot
<1> QED
  BY <1>1, <1>2, <1>3, <1>4, <1>5, <1>6, Zenon DEF Runs, Fails

\* One call has made a step, and the robot has not been reached.
LEMMA StepsLong ==
  ASSUME IInv, MotionInv, LongInv, NEW c \in Calls, Steps(c), UNCHANGED << inbox, memory >>,
         Few' => Few, Balance'
  PROVE  LongInv'
<1>1. CallLong(c)'
  BY StepsCall DEF LongInv
<1>2. ASSUME NEW d \in Calls, d # c PROVE CallLong(d)'
  <2>1. frames'[d] = frames[d] /\ outcome'[d] = outcome[d]
    BY <1>2 DEF Steps
  <2> QED
    BY <2>1, OthersCall DEF LongInv
<1> QED
  BY <1>1, <1>2 DEF LongInv

LEMMA RunsLong ==
  ASSUME IInv, MotionInv, LongInv, NEW c \in Calls, Runs(c) \/ Fails(c), ~Write(c)
  PROVE  LongInv'
<1>1. ~Awaits(c) /\ UNCHANGED << inbox, cancels >> /\ memory' = memory
  BY RunsQuietly, RunsKeepMemory
<1>2. Steps(c)
  BY RunsSteps, FailsSteps
<1>3. Balance /\ Orderly(frames[c])
  BY DEF LongInv, CallLong
<1>4. Balance'
  BY <1>1, <1>2, <1>3, StepsBalance
<1>5. Few' => Few
  BY <1>1, FewStays DEF IInv
<1> QED
  BY <1>1, <1>2, <1>4, <1>5, StepsLong

\* A task makes its call: nothing of it is in the inbox.
LEMMA CallLongStep ==
  ASSUME IInv, MotionInv, LongInv, NEW c \in Calls, Call(c)
  PROVE  LongInv'
<1>1. outcome[c] = "idle" /\ UNCHANGED << inbox, memory, cancels >>
  BY DEF Call, robot
<1>2. frames[c] = << >>
  BY <1>1, StackFacts DEF IInv, Plain
<1>3. PICK g : /\ g.at = "subscribe" /\ g.response = NoMessage /\ g.step = 0
               /\ \A d \in Calls \ {c} : frames'[d] = frames[d] /\ outcome'[d] = outcome[d]
               /\ frames'[c] = << >> \/ frames'[c] = << g >>
  <2>1. LET g == Frame(program[c]) IN g.at = "subscribe" /\ g.response = NoMessage /\ g.step = 0
    BY DEF Frame
  <2>2. /\ \A d \in Calls \ {c} : frames'[d] = frames[d] /\ outcome'[d] = outcome[d]
        /\ frames'[c] = << >> \/ frames'[c] = << Frame(program[c]) >>
    BY <1>2 DEF Call, IInv, Stacks, Plain
  <2> QED
    BY <2>1, <2>2
<1>4. (Few' => Few) /\ Total' = Total
  BY <1>1, FewStays DEF IInv
<1>5. CallLong(c)'
  <2>1. Orderly(frames'[c]) /\ ~UnderWay(frames'[c])
    BY <1>3, LongOfNone, LongOfOne DEF FrameOrderly
  <2>2. \A i \in DOMAIN inbox : inbox[i].by # c
    BY <1>1 DEF LongInv, CallLong, Silent
  <2>3. \A i \in DOMAIN frames'[c] : frames'[c][i].response = NoMessage
    BY <1>3, TupleWhere
  <2> QED
    BY <1>1, <2>1, <2>2, <2>3 DEF CallLong, InboxOrderly, LongOwn
<1>6. ASSUME NEW d \in Calls, d # c PROVE CallLong(d)'
  BY <1>1, <1>3, <1>4, <1>6, OthersCall DEF LongInv
<1>7. Balance'
  <2>1. ~Awaits(c)' /\ ~At(c, "write")'
    <3>1. frames'[c] # << >> => Top(c)' = g
      BY <1>3, TopIs
    <3> QED
      BY <1>3, <3>1 DEF Awaits, At
  <2>2. ~Awaits(c)
    BY <1>2 DEF Awaits, At
  <2>3. \A d \in Calls \ {c} : /\ Awaits(d)' <=> Awaits(d)
                               /\ At(d, "write")' <=> At(d, "write")
                               /\ Top(d)' = Top(d)
    BY <1>3 DEF Awaits, At, Top
  <2> QED
    BY <1>1, <1>4, <2>1, <2>2, <2>3 DEF LongInv, Balance
<1> QED
  BY <1>1, <1>5, <1>6, <1>7 DEF LongInv

-----------------------------------------------------------------------------
(* A request is sent.                                                      *)

\* Nobody awaits a response while another one writes.
LEMMA NobodyAwaits ==
  ASSUME IInv, NEW c \in Calls, At(c, "write"), NEW d \in Calls
  PROVE  ~Awaits(d) /\ (d # c => ~At(d, "write"))
BY ExchangeAlone DEF Awaits, At, Exchanging

\* The top of c is a request that goes on at g.
LEMMA WriteShifts ==
  ASSUME IInv, NEW c \in Calls, Write(c)
  PROVE  \E g : Moved(Top(c), g, "read", Top(c).result) /\ Shifts(c, g)
<1>1. At(c, "write") /\ frames[c] # << >>
  BY DEF Write, At
<1>2. PICK g : Moved(Top(c), g, "read", Top(c).result) /\ GoesOn(c, g)
  BY <1>1, AtMoved, Zenon DEF Write
<1> QED
  BY <1>1, <1>2, SetTopShifts, Zenon DEF GoesOn

\* A nested request is the last of its call in the inbox.
LEMMA WritePlaced ==
  ASSUME IInv, NEW c \in Calls, NEW n \in Nat, NEW q \in Queries,
         q.by = c, q.step = n + 1, q.rpc = Nested(n), inbox' = Append(inbox, q),
         \A i \in DOMAIN inbox : Placed(i, c, n)
  PROVE  \A i \in DOMAIN inbox' : Placed(i, c, n + 1)'
<1>1. inbox \in Seq(Queries)
  BY DEF IInv, KeyInv
<1>2. /\ Len(inbox) \in Nat /\ Len(inbox') = Len(inbox) + 1
      /\ \A i \in DOMAIN inbox' : \/ i \in DOMAIN inbox /\ inbox'[i] = inbox[i]
                                  \/ i = Len(inbox) + 1 /\ inbox'[i] = q
      /\ DOMAIN inbox = 1 .. Len(inbox)
  BY <1>1
<1>3. ASSUME NEW i \in DOMAIN inbox', i \in DOMAIN inbox, inbox'[i] = inbox[i]
      PROVE  Placed(i, c, n + 1)'
  <2>1. Placed(i, c, n)
    BY <1>3
  <2>2. ASSUME inbox[i].by = c
        PROVE  /\ inbox[i].step \in 1 .. n + 1 /\ inbox[i].rpc = Nested(inbox[i].step - 1)
               /\ \A j \in DOMAIN inbox' : i < j => inbox'[j].by = c /\ inbox'[j].step > inbox[i].step
    <3>1. inbox[i].step \in 1 .. n /\ inbox[i].rpc = Nested(inbox[i].step - 1)
      BY <2>1, <2>2 DEF Placed
    <3>2. ASSUME NEW j \in DOMAIN inbox', i < j
          PROVE  inbox'[j].by = c /\ inbox'[j].step > inbox[i].step
      BY <1>2, <2>1, <2>2, <3>1, <3>2 DEF Placed
    <3> QED
      BY <3>1, <3>2
  <2>3. inbox[i].by # c => i + (n + 1) <= Len(inbox')
    BY <1>2, <1>3, <2>1 DEF Placed
  <2> QED
    BY <1>3, <2>2, <2>3 DEF Placed
<1>4. ASSUME NEW i \in DOMAIN inbox', i = Len(inbox) + 1, inbox'[i] = q
      PROVE  Placed(i, c, n + 1)'
  <2>1. \A j \in DOMAIN inbox' : ~(i < j)
    BY <1>2, <1>4
  <2>2. (n + 1) - 1 = n
    OBVIOUS
  <2> QED
    BY <1>4, <2>1, <2>2 DEF Placed
<1> QED
  BY <1>2, <1>3, <1>4

LEMMA WriteCall ==
  ASSUME IInv, MotionInv, LongInv, NEW c \in Calls, Write(c)
  PROVE  CallLong(c)'
<1> DEFINE t == Top(c)
<1>1. /\ At(c, "write") /\ t.at = "write" /\ frames[c] # << >>
      /\ inbox' = Append(inbox, Request(c)) /\ UNCHANGED << memory, cancels, outcome >>
  BY DEF Write, At, GoesOn, ids
<1>2. PICK g : Moved(t, g, "read", t.result) /\ Shifts(c, g)
  BY WriteShifts
<1>3. g.at = "read" /\ g.rpc = t.rpc /\ g.response = t.response /\ g.result = t.result
  BY <1>2 DEF Moved, MovedTo
<1>4. Request(c) \in Queries /\ Request(c).by = c
  BY <1>1, RequestIsBegun DEF IInv
<1>5. PICK q \in Queries : q = Request(c) /\ q.by = c /\ inbox' = Append(inbox, q)
  BY <1>1, <1>4
<1>6. q.rpc = t.rpc /\ q.step = IF frames[c][1].at = "long" THEN frames[c][1].step + 1 ELSE 0
  BY <1>5 DEF Request
<1>7. CallLong(c) /\ NestedAsMeant(frames[c]) /\ outcome'[c] # "idle" /\ (Few' <=> Few)
  <2>1. outcome[c] # "idle"
    BY <1>1, StackFacts DEF IInv, Plain
  <2>2. Total' = Total
    BY <1>1, FewStays DEF IInv
  <2> QED
    BY <1>1, <2>1, <2>2 DEF LongInv, MotionInv, CallMotion, Few
<1> HIDE DEF t
<1>8. CASE frames[c] = << t >> /\ frames'[c] = << g >>
  <2>1. FrameOrderly(t)
    BY <1>7, <1>8, LongOfOne DEF CallLong
  <2>2. FrameOrderly(g) /\ ~Long(g.rpc)
    BY <1>1, <1>3, <2>1 DEF FrameOrderly, Outside
  <2>3. Orderly(frames'[c]) /\ ~UnderWay(frames'[c])
    BY <1>3, <1>8, <2>2, LongOfOne DEF Early
  <2>4. ~Silent(c)'
    BY <1>3, <1>7, <1>8, TupleWhere DEF Silent, Early
  <2>5. \A i \in DOMAIN frames'[c] : LongOwn(c, frames'[c][i])
    BY <1>8, <2>2, TupleWhere DEF LongOwn
  <2> QED
    BY <2>3, <2>4, <2>5 DEF CallLong, InboxOrderly
<1>9. ASSUME NEW o, frames[c] = << o, t >>, Around(o), frames'[c] = << o, g >>
      PROVE  CallLong(c)'
  <2>1. o.at \in {"long", "stopping"} /\ o.step \in Nat
    BY <1>9 DEF Around, IsFrame, FrameOK
  <2>2. FrameOrderly(t) /\ (o.at = "long" => NestedOrderly(t))
    BY <1>7, <1>9, <2>1, LongOfTwo DEF CallLong
  <2>3. FrameOrderly(g) /\ ~Long(g.rpc) /\ (o.at = "long" => NestedOrderly(g) /\ g.result = "ok")
    BY <1>1, <1>3, <2>2 DEF FrameOrderly, Outside, NestedOrderly, Early
  <2>4. Orderly(frames'[c])
    BY <1>9, <2>1, <2>3, LongOfTwo
  <2>5. ~Silent(c)'
    BY <1>7, <1>9, <2>1, TupleWhere DEF Silent, Early
  <2>6. Few' => \A i \in DOMAIN frames'[c] : LongOwn(c, frames'[c][i])
    <3>1. Few => LongOwn(c, o)
      BY <1>7, <1>9, TupleWhere DEF CallLong
    <3> QED
      BY <1>7, <1>9, <2>3, <3>1, TupleWhere DEF LongOwn
  <2>7. CASE o.at = "stopping"
    BY <1>9, <2>4, <2>5, <2>6, <2>7, LongOfTwo DEF CallLong, InboxOrderly
  <2>8. CASE o.at = "long"
    <3>1. t.at \in Early /\ t.at # "abort" /\ t.result = "ok" /\ g.at \notin Early
      BY <1>1, <1>3, <2>2, <2>8 DEF NestedOrderly, Early
    <3>2. UnderWay(frames[c]) /\ Sent(frames[c]) = o.step /\ Sent(frames'[c]) = o.step + 1
      BY <1>9, <2>1, <2>8, <3>1, LongOfTwo
    <3>3. t.rpc = Nested(o.step) /\ frames[c][1] = o
      BY <1>7, <1>9, <2>1, <2>8, StackOfTwo, TupleWhere
    <3>4. q.step = o.step + 1 /\ q.rpc = Nested(o.step)
      BY <1>6, <2>8, <3>3
    <3>5. \A i \in DOMAIN inbox' : Placed(i, c, o.step + 1)'
      <4>1. \A i \in DOMAIN inbox : Placed(i, c, o.step)
        BY <1>7, <3>2 DEF CallLong, InboxOrderly
      <4> QED
        BY <1>5, <2>1, <3>4, <4>1, WritePlaced
    <3>6. ASSUME Few
          PROVE  /\ Remembers(frames'[c], memory[1])
                 /\ Executed(frames'[c]) => Kept(c)'
      <4>1. Remembers(frames[c], memory[1]) /\ (Executed(frames[c]) => Kept(c))
        BY <1>7, <3>2, <3>6 DEF CallLong
      <4>2. /\ o.step >= WriteChunks + 1 => o.crc = memory[1]
            /\ o.step = WriteChunks + 2 => o.data = memory[1]
            /\ ~(t.response # NoMessage /\ t.rpc \in {"LongRPCExtensionExecute", "MemRead"})
        BY <1>1, <1>9, <2>1, <4>1, LongOfTwo
      <4>3. Remembers(frames'[c], memory[1])
        BY <1>3, <1>9, <2>1, <4>2, LongOfTwo
      <4>4. ASSUME Executed(frames'[c])
            PROVE  Kept(c)'
        <5>1. o.step >= WriteChunks + 1
          BY <1>3, <1>9, <2>1, <4>2, <4>4, LongOfTwo
        <5>2. Kept(c)
          BY <1>9, <2>1, <4>1, <5>1, LongOfTwo
        <5>3. q.rpc = "MemRead"
          BY <2>1, <3>4, <5>1, BoundsAssumption DEF Nested
        <5>4. inbox \in Seq(Queries)
          BY DEF IInv, KeyInv
        <5> QED
          BY <1>1, <1>5, <5>2, <5>3, <5>4 DEF Kept
      <4> QED
        BY <4>3, <4>4
    <3> QED
      BY <1>1, <1>7, <2>4, <2>5, <2>6, <3>2, <3>5, <3>6 DEF CallLong, InboxOrderly
  <2> QED
    BY <2>1, <2>7, <2>8
<1> QED
  BY <1>2, <1>8, <1>9 DEF Shifts, t

LEMMA WriteBalance ==
  ASSUME IInv, LongInv, NEW c \in Calls, Write(c)
  PROVE  Balance'
<1>1. At(c, "write") /\ inbox' = Append(inbox, Request(c)) /\ cancels' = cancels
  BY DEF Write, ids
<1>2. Total' = Total /\ Total \in Nat
  BY <1>1, FewStays DEF IInv
<1>3. PICK g : Moved(Top(c), g, "read", Top(c).result) /\ Shifts(c, g)
  BY WriteShifts
<1>4. g.at = "read" /\ g.response = Top(c).response
  BY <1>3 DEF Moved, MovedTo
<1>5. Top(c)' = g /\ At(c, "read")' /\ ~At(c, "write")'
  <2>1. Top(c)' = g /\ frames'[c] # << >>
    <3>1. frames'[c] = << g >> \/ \E o : frames'[c] = << o, g >>
      BY <1>3 DEF Shifts
    <3>2. frames'[c] # << >>
      BY <3>1, TupleWhere
    <3> QED
      BY <3>1, <3>2, TopIs
  <2> QED
    BY <1>4, <2>1 DEF At
<1>6. \A d \in Calls \ {c} : frames'[d] = frames[d]
  BY DEF Write, GoesOn, SetTop, IInv, Stacks
<1>7. \A d \in Calls \ {c} : ~At(d, "write")'
  BY <1>1, <1>6, NobodyAwaits DEF At, Top
<1>8. inbox \in Seq(Queries) /\ Request(c) \in Queries
  BY <1>1, RequestIsBegun DEF IInv, KeyInv, At
<1>9. Len(inbox) \in Nat /\ Len(inbox') = Len(inbox) + 1
  BY <1>1, <1>8
<1>10. Len(inbox) <= Total
  BY <1>1, NobodyAwaits DEF LongInv, Balance
<1>11. ~Awaits(c)' => Len(inbox) + 1 <= Total
  BY <1>1, <1>4, <1>5 DEF Awaits, LongInv, Balance
<1> QED
  BY <1>2, <1>5, <1>7, <1>9, <1>10, <1>11 DEF Balance

\* No long RPC of another call is under way.
LEMMA WriteLong ==
  ASSUME IInv, MotionInv, LongInv, NEW c \in Calls, Write(c)
  PROVE  LongInv'
<1>1. /\ At(c, "write") /\ inbox' = Append(inbox, Request(c))
      /\ UNCHANGED << memory, cancels, outcome >>
  BY DEF Write, GoesOn, ids
<1>2. Few' => Few
  BY <1>1, FewStays DEF IInv
<1>3. Request(c) \in Queries /\ Request(c).by = c
  BY <1>1, RequestIsBegun DEF IInv, At
<1>4. \A d \in Calls \ {c} : frames'[d] = frames[d]
  BY DEF Write, GoesOn, SetTop, IInv, Stacks
<1>5. ASSUME NEW d \in Calls, d # c PROVE CallLong(d)'
  <2>1. ~UnderWay(frames[d])
    BY <1>1, <1>5, ExchangeApart DEF Exchanging
  <2>2. CallLong(d) /\ frames'[d] = frames[d] /\ outcome'[d] = outcome[d]
    BY <1>1, <1>4, <1>5 DEF LongInv
  <2>3. \E q \in Queries : q.by # d /\ inbox' = Append(inbox, q)
    BY <1>1, <1>3, <1>5, Zenon
  <2> QED
    BY <1>1, <1>2, <2>1, <2>2, <2>3, OthersCall
<1>6. CallLong(c)' /\ Balance'
  BY WriteCall, WriteBalance
<1> QED
  BY <1>1, <1>5, <1>6 DEF LongInv

-----------------------------------------------------------------------------
(* A cancellation.                                                         *)

LEMMA CancelBalance ==
  ASSUME IInv, LongInv, NEW c \in Calls, Cancel(c)
  PROVE  Balance'
<1>1. Total' = Total + 1 /\ Total \in Nat
  BY TotalAdds DEF Cancel, IInv
<1>2. Steps(c) /\ Balance /\ Orderly(frames[c])
  BY CancelSteps DEF LongInv, CallLong
<1>3. At(c, "write")' => Top(c)'.response = NoMessage
  BY <1>2, StepsSilent
<1>4. \A d \in Calls \ {c} : (At(d, "write")' <=> At(d, "write")) /\ Top(d)' = Top(d)
  BY <1>2 DEF Steps, At, Top
<1>5. inbox \in Seq(Queries)
  BY DEF IInv, KeyInv
<1>6. CASE inbox' = inbox
  BY <1>1, <1>2, <1>3, <1>4, <1>5, <1>6 DEF Balance
<1>7. CASE At(c, "write") /\ inbox' = Append(inbox, Request(c)) /\ CancelExchange(c)
  <2>1. Len(inbox) <= Total
    BY <1>2, <1>7, NobodyAwaits DEF Balance
  <2>2. Len(inbox') = Len(inbox) + 1 /\ Len(inbox) \in Nat
    <3>1. Request(c) \in Queries
      BY <1>7, RequestIsBegun DEF IInv, At
    <3> QED
      BY <1>5, <1>7, <3>1
  <2>3. ~At(c, "write")'
    <3>1. PICK g : Moved(Top(c), g, "abort", "cancelled") /\ GoesOn(c, g)
      BY <1>7, AtMoved, Zenon DEF CancelExchange
    <3>2. Shifts(c, g) /\ g.at = "abort"
      BY <1>7, <3>1, SetTopShifts DEF GoesOn, At, Moved, MovedTo
    <3>3. Top(c)' = g
      BY <3>2, TopIs DEF Shifts
    <3> QED
      BY <3>2, <3>3 DEF At
  <2>4. \A d \in Calls \ {c} : ~At(d, "write")'
    BY <1>4, <1>7, NobodyAwaits
  <2> QED
    BY <1>1, <2>1, <2>2, <2>3, <2>4 DEF Balance
<1>8. inbox' = inbox \/ (At(c, "write") /\ inbox' = Append(inbox, Request(c)) /\ CancelExchange(c))
  BY Zenon DEF Cancel, CancelWaiting, CancelNotify, NotifyEnds, CancelLock, CancelExchange, CancelAbort, CancelBody,
         robot
<1> QED
  BY <1>6, <1>7, <1>8

\* An exchange that is cancelled ends the long RPC that it is nested in.
LEMMA CancelExchangeLong ==
  ASSUME IInv, MotionInv, LongInv, NEW c \in Calls, Cancel(c), CancelExchange(c)
  PROVE  LongInv'
<1>1. PICK a \in {"write", "read"} : At(c, a)
  BY DEF CancelExchange
<1>2. /\ inbox' = inbox \/ (At(c, "write") /\ inbox' = Append(inbox, Request(c)))
      /\ memory' = memory
  BY DEF CancelExchange
<1>3. PICK g : Moved(Top(c), g, "abort", "cancelled") /\ GoesOn(c, g)
  BY <1>1, AtMoved, Zenon DEF CancelExchange
<1>4. Shifts(c, g) /\ g.at = "abort"
  BY <1>1, <1>3, SetTopShifts DEF GoesOn, At, Moved, MovedTo
<1>5. Steps(c) /\ Balance' /\ CallLong(c) /\ (Few' => Few)
  BY CancelSteps, CancelBalance, FewStays DEF LongInv, IInv, Cancel
<1>6. Orderly(frames'[c]) /\ ~Silent(c)'
  <2>1. Orderly(frames'[c]) /\ (Silent(c)' => Top(c).at \in Outside)
    BY <1>5, StepsOrderly, StepsSilent DEF CallLong
  <2> QED
    BY <1>1, <2>1 DEF At, Outside
<1>7. ~UnderWay(frames'[c])
  <2>1. CASE frames'[c] = << g >>
    BY <1>4, <2>1, LongOfOne
  <2>2. CASE \E o : frames'[c] = << o, g >> /\ Around(o)
    BY <1>4, <2>2, LongOfTwo DEF Around
  <2> QED
    BY <1>4, <2>1, <2>2 DEF Shifts
<1>8. CallLong(c)'
  <2>1. Few' => \A i \in DOMAIN frames'[c] : LongOwn(c, frames'[c][i])
    BY <1>5, StepsLongOwn
  <2> QED
    BY <1>6, <1>7, <2>1 DEF CallLong, InboxOrderly
<1>9. ASSUME NEW d \in Calls, d # c PROVE CallLong(d)'
  <2>1. ~UnderWay(frames[d])
    BY <1>1, <1>9, ExchangeApart DEF Exchanging
  <2>2. CallLong(d) /\ frames'[d] = frames[d] /\ outcome'[d] = outcome[d]
    BY <1>5, <1>9 DEF LongInv, Steps
  <2>3. Request(c) \in Queries /\ Request(c).by = c
    BY <1>1, RequestIsBegun DEF IInv, At
  <2>4. inbox' = inbox \/ \E q \in Queries : q.by # d /\ inbox' = Append(inbox, q)
    BY <1>2, <1>9, <2>3, Zenon
  <2> QED
    BY <1>2, <1>5, <2>1, <2>2, <2>4, OthersCall
<1> QED
  BY <1>2, <1>5, <1>8, <1>9 DEF LongInv

LEMMA CancelLong ==
  ASSUME IInv, MotionInv, LongInv, NEW c \in Calls, Cancel(c)
  PROVE  LongInv'
<1>1. Steps(c) /\ Balance' /\ (Few' => Few)
  BY CancelSteps, CancelBalance, FewStays DEF IInv, Cancel
<1>2. CASE CancelExchange(c)
  BY <1>2, CancelExchangeLong
<1>3. CASE ~CancelExchange(c)
  <2>1. UNCHANGED << inbox, memory >>
    BY <1>3, Zenon DEF Cancel, CancelWaiting, CancelNotify, NotifyEnds, CancelLock, CancelAbort, CancelBody, robot
  <2> QED
    BY <1>1, <2>1, StepsLong
<1> QED
  BY <1>2, <1>3

-----------------------------------------------------------------------------
(* The robot handles a request.                                            *)

\* What handling q does with the memory, and what the response m says of it.
Accesses(q, m) ==
  /\ q.rpc \notin {"MemWrite", "LongRPCExtensionExecute"} => memory' = memory
  /\ q.rpc = "MemRead" /\ q.step > 0 => m.data = memory[1]
  /\ q.rpc = "LongRPCExtensionExecute" /\ q.step > 0 =>
       m.data = memory'[1] /\ memory'[1][1] = q.by

LEMMA HandleAccesses ==
  ASSUME DOMAIN memory = 1 .. WriteChunks, NEW q, NEW ok, Handle(q, ok)
  PROVE  /\ \E m : Received(m) /\ m.rpc = q.rpc /\ Accesses(q, m)
         /\ DOMAIN memory' = 1 .. WriteChunks
<1> DEFINE m(data) == [rpc |-> q.rpc, key |-> q.key, by |-> q.by, step |-> q.step, ok |-> ok,
                       data |-> data]
<1>1. 1 \in DOMAIN memory
  BY BoundsAssumption
<1>2. \A data : m(data).rpc = q.rpc /\ m(data).data = data
  OBVIOUS
<1>3. CASE q.rpc = "StopExecution"
  <2>1. Received(m(<< >>)) /\ memory' = memory
    BY <1>3, Zenon DEF Handle
  <2> HIDE DEF m
  <2> QED
    BY <1>2, <1>3, <2>1 DEF Accesses
<1>4. CASE q.rpc = "MemWrite" /\ q.step > 0
  <2>1. Received(m(<< >>)) /\ memory' = [memory EXCEPT ![q.step] = << q.by, "request" >>]
    BY <1>4 DEF Handle
  <2> HIDE DEF m
  <2> QED
    BY <1>2, <1>4, <2>1 DEF Accesses
<1>5. CASE q.rpc = "LongRPCExtensionExecute" /\ q.step > 0
  <2>1. PICK accepted \in BOOLEAN :
          Received(m(<< q.by, accepted >>)) /\ memory' = [memory EXCEPT ![1] = << q.by, accepted >>]
    BY <1>5 DEF Handle
  <2> HIDE DEF m
  <2>2. DOMAIN memory' = DOMAIN memory /\ memory'[1] = << q.by, accepted >>
    BY <1>1, <2>1
  <2> QED
    BY <1>2, <1>5, <2>1, <2>2 DEF Accesses
<1>6. CASE q.rpc = "MemRead" /\ q.step > 0
  <2>1. Received(m(memory[1])) /\ memory' = memory
    BY <1>6 DEF Handle
  <2> HIDE DEF m
  <2> QED
    BY <1>2, <1>6, <2>1 DEF Accesses
<1>7. CASE /\ q.rpc # "StopExecution" /\ ~(q.rpc = "MemWrite" /\ q.step > 0)
           /\ ~(q.rpc = "LongRPCExtensionExecute" /\ q.step > 0)
           /\ ~(q.rpc = "MemRead" /\ q.step > 0)
  <2>1. Received(m(<< >>)) /\ memory' = memory
    BY <1>7 DEF Handle
  <2> HIDE DEF m
  <2> QED
    BY <1>2, <1>7, <2>1 DEF Accesses
<1> QED
  BY <1>3, <1>4, <1>5, <1>6, <1>7

\* Where f was there is the same RPC, with its response m.
Holds(f, g, m) ==
  /\ f.at \in {"write", "read"} /\ f.response = NoMessage /\ f.rpc = m.rpc
  /\ g.at = f.at /\ g.rpc = f.rpc /\ g.step = f.step /\ g.result = f.result /\ g.response = m

LEMMA Heard ==
  ASSUME IInv, NEW m, Received(m), NEW c \in Calls, frames'[c] # frames[c]
  PROVE  \E g : Holds(Top(c), g, m) /\ Shifts(c, g)
<1> DEFINE t == Top(c)
           g == [t EXCEPT !.response = m]
           heard == /\ subscribed
                    /\ At(c, "write") \/ At(c, "read")
                    /\ t.response = NoMessage
                    /\ IsResponseTo(m, t.rpc, requestId[c])
<1>1. frames'[c] = IF heard THEN WithTop(frames[c], g) ELSE frames[c]
  BY Zenon DEF Received
<1>2. heard /\ frames'[c] = WithTop(frames[c], g)
  BY <1>1
<1>3. frames[c] # << >> /\ t.at \in {"write", "read"} /\ t.response = NoMessage /\ t.rpc = m.rpc
  BY <1>2 DEF At, IsResponseTo
<1>4. /\ g.at = t.at /\ g.rpc = t.rpc /\ g.step = t.step /\ g.result = t.result
      /\ g.response = m
  <2>1. t \in [rpc : {t.rpc}, at : {t.at}, step : {t.step}, response : {t.response},
               crc : {t.crc}, data : {t.data}, result : {t.result}]
    BY <1>3, Shape DEF IInv, Innermost, IsFrame
  <2> HIDE DEF t
  <2> QED
    BY <2>1
<1> HIDE DEF g, heard
<1>5. Shifts(c, g)
  <2>1. CASE frames[c] = << t >>
    <3>1. \A h : WithTop(<< h >>, g) = << g >>
      BY TopOfOne
    <3>2. frames'[c] = << g >>
      BY <1>2, <2>1, <3>1, Zenon
    <3> QED
      BY <2>1, <3>2 DEF Shifts
  <2>2. CASE \E o : frames[c] = << o, t >> /\ Around(o) /\ t.rpc \in NestedRpcs
    <3>1. PICK o : frames[c] = << o, t >> /\ Around(o) /\ t.rpc \in NestedRpcs
      BY <2>2
    <3>2. \A h : WithTop(<< o, h >>, g) = << o, g >>
      BY TopOfTwo
    <3>3. frames'[c] = << o, g >>
      BY <1>2, <3>1, <3>2, Zenon
    <3> QED
      BY <3>1, <3>3 DEF Shifts
  <2> QED
    BY <1>3, <2>1, <2>2, Shape DEF IInv
<1> QED
  BY <1>3, <1>4, <1>5 DEF Holds

\* The next request leaves the inbox: the others keep their places.
LEMMA TailPlaced ==
  ASSUME IInv, inbox # << >>, inbox' = Tail(inbox), NEW c, NEW n \in Nat,
         \A i \in DOMAIN inbox : Placed(i, c, n)
  PROVE  \A i \in DOMAIN inbox' : Placed(i, c, n)'
<1>1. /\ Len(inbox) \in Nat /\ Len(inbox') = Len(inbox) - 1
      /\ \A i \in DOMAIN inbox' : i \in Nat /\ i + 1 \in DOMAIN inbox /\ inbox'[i] = inbox[i + 1]
  BY DEF IInv, KeyInv
<1>2. ASSUME NEW i \in DOMAIN inbox' PROVE Placed(i, c, n)'
  <2>1. Placed(i + 1, c, n) /\ inbox'[i] = inbox[i + 1]
    BY <1>1
  <2>2. ASSUME inbox[i + 1].by = c, NEW j \in DOMAIN inbox', i < j
        PROVE  inbox'[j].by = c /\ inbox'[j].step > inbox'[i].step
    BY <1>1, <2>1, <2>2 DEF Placed
  <2>3. inbox[i + 1].by # c => i + n <= Len(inbox')
    BY <1>1, <2>1 DEF Placed
  <2> QED
    BY <2>1, <2>2, <2>3 DEF Placed
<1> QED
  BY <1>2

\* Before the long request is executed there is nothing to remember.
LEMMA NothingToRemember ==
  ASSUME IInv, NEW c \in Calls, UnderWay(frames[c]), NestedAsMeant(frames[c]),
         ~Executed(frames[c]), NEW m
  PROVE  Remembers(frames[c], m)
<1>0. frames[c] # << >> /\ WriteChunks \in Nat
  BY BoundsAssumption, TupleWhere DEF UnderWay
<1>1. CASE frames[c] = << Top(c) >>
  <2>1. Top(c).step \in Nat
    BY <1>0, Shape DEF IInv, Innermost, IsFrame, FrameOK
  <2> QED
    BY <1>0, <1>1, <2>1, LongOfOne
<1>2. ASSUME NEW o, frames[c] = << o, Top(c) >>, Around(o) PROVE Remembers(frames[c], m)
  <2>1. o.at \in {"long", "stopping"} /\ o.step \in Nat
    BY <1>2 DEF Around, IsFrame, FrameOK
  <2>2. o.at = "long"
    BY <1>2, <2>1, LongOfTwo
  <2>3. Top(c).rpc = Nested(o.step)
    BY <1>2, <2>1, <2>2, StackOfTwo
  <2>4. /\ ~(o.step >= WriteChunks + 1)
        /\ ~(Top(c).rpc = "LongRPCExtensionExecute" /\ Top(c).response # NoMessage)
    BY <1>2, <2>1, LongOfTwo
  <2>5. Top(c).rpc # "MemRead"
    BY <1>0, <2>1, <2>3, <2>4 DEF Nested
  <2>6. o.step # WriteChunks + 2
    BY <1>0, <2>1, <2>4
  <2> QED
    BY <1>2, <2>1, <2>4, <2>5, <2>6, LongOfTwo
<1> QED
  BY <1>0, <1>1, <1>2, Shape DEF IInv

\* What has been sent is counted from zero.
LEMMA SentIsNat ==
  ASSUME IInv, NEW c \in Calls, UnderWay(frames[c])
  PROVE  Sent(frames[c]) \in Nat
<1>1. frames[c] # << >>
  BY TupleWhere DEF UnderWay
<1>2. CASE frames[c] = << Top(c) >>
  <2>1. Top(c).step \in Nat
    BY <1>1, Shape, BoundsAssumption DEF IInv, Innermost, IsFrame, FrameOK
  <2> QED
    BY <1>2, <2>1, LongOfOne
<1>3. ASSUME NEW o, frames[c] = << o, Top(c) >>, Around(o) PROVE Sent(frames[c]) \in Nat
  BY <1>3, LongOfTwo, BoundsAssumption DEF Around, IsFrame, FrameOK
<1> QED
  BY <1>1, <1>2, <1>3, Shape DEF IInv

\* With few cancellations, the answer that a long RPC takes to its execution,
\* or to a read that follows, is the one to its last request: every request of
\* somebody else in front of it stands for a cancellation, and so does each of
\* its own requests that is still behind.
LEMMA AnswerIsLast ==
  ASSUME IInv, LongInv, Few, inbox # << >>, NEW c \in Calls,
         NEW o, frames[c] = << o, Top(c) >>, Around(o), o.at = "long", UnderWay(frames[c]),
         Top(c).at \in {"write", "read"}, Top(c).response = NoMessage,
         inbox[1].rpc = Nested(o.step), o.step >= WriteChunks
  PROVE  Top(c).at = "read" /\ inbox[1].by = c /\ inbox[1].step > 0 /\ Len(inbox) = 1
<1> DEFINE n == Sent(frames[c])
<1>1. /\ o.step \in Nat /\ WriteChunks \in Nat /\ Total \in Nat /\ Total <= WriteChunks
      /\ o.step < WriteChunks + 2
  BY BoundsAssumption, TotalAdds DEF Around, IsFrame, FrameOK, Few, IInv
<1>2. n = IF Top(c).at = "write" THEN o.step ELSE o.step + 1
  BY LongOfTwo DEF Early
<1>3. \A i \in DOMAIN inbox : Placed(i, c, n)
  BY DEF LongInv, CallLong, InboxOrderly
<1> HIDE DEF n
<1>4. inbox \in Seq(Queries)
  BY DEF IInv, KeyInv
<1>5. Len(inbox) \in Nat /\ DOMAIN inbox = 1 .. Len(inbox) /\ 1 \in DOMAIN inbox
  BY <1>4
<1>6. Placed(1, c, n)
  BY <1>3, <1>5
<1>7. Len(inbox) <= Total + 1 /\ (Top(c).at = "write" => Len(inbox) <= Total)
  <2>1. Top(c).at = "write" => \A d \in Calls : ~Awaits(d)
    <3>1. Top(c).at = "write" => At(c, "write")
      BY TupleWhere DEF At
    <3> QED
      BY <3>1, NobodyAwaits
  <2> QED
    BY <2>1 DEF LongInv, Balance
<1>8. inbox[1].by = c
  BY <1>1, <1>2, <1>5, <1>6, <1>7 DEF Placed
<1>9. inbox[1].step \in 1 .. n /\ inbox[1].rpc = Nested(inbox[1].step - 1)
  BY <1>6, <1>8 DEF Placed
<1>10. PICK k \in Nat : k + 1 = inbox[1].step /\ k = inbox[1].step - 1
  BY <1>1, <1>2, <1>9
<1>11. k + 1 <= n /\ Nested(k) = Nested(o.step)
  BY <1>1, <1>2, <1>9, <1>10
<1>12. k >= o.step
  BY <1>1, <1>2, <1>11 DEF Nested
<1>13. Top(c).at = "read" /\ n = k + 1
  BY <1>1, <1>2, <1>11, <1>12
<1>14. Len(inbox) = 1
  <2> SUFFICES ASSUME Len(inbox) # 1 PROVE FALSE
    OBVIOUS
  <2>1. 2 \in DOMAIN inbox
    BY <1>5
  <2>2. inbox[2].by = c /\ inbox[2].step > inbox[1].step
    BY <1>6, <1>8, <2>1 DEF Placed
  <2>3. inbox[2].step \in 1 .. n
    BY <1>3, <2>1, <2>2 DEF Placed
  <2> QED
    BY <1>10, <1>13, <2>2, <2>3
<1> QED
  BY <1>8, <1>10, <1>13, <1>14

\* What the robot's step does to a call that is not answered.
LEMMA ServedUnheard ==
  ASSUME IInv, MotionInv, LongInv, inbox # << >>, inbox' = Tail(inbox),
         UNCHANGED << outcome, cancels >>, NEW m, Accesses(inbox[1], m),
         NEW c \in Calls, frames'[c] = frames[c]
  PROVE  CallLong(c)'
<1>1. /\ \A i \in DOMAIN inbox' : i + 1 \in DOMAIN inbox /\ inbox'[i] = inbox[i + 1]
      /\ 1 \in DOMAIN inbox
  BY DEF IInv, KeyInv
<1>2. CallLong(c) /\ NestedAsMeant(frames[c]) /\ (Few' => Few)
  BY FewStays DEF LongInv, MotionInv, CallMotion, IInv
<1>3. Silent(c)' => \A i \in DOMAIN inbox' : inbox'[i].by # c
  BY <1>1, <1>2 DEF CallLong, Silent
<1>4. InboxOrderly(c)'
  <2> SUFFICES ASSUME UnderWay(frames[c])
               PROVE  \A i \in DOMAIN inbox' : Placed(i, c, Sent(frames[c]))'
    BY DEF InboxOrderly
  <2>1. \A i \in DOMAIN inbox : Placed(i, c, Sent(frames[c]))
    BY <1>2 DEF CallLong, InboxOrderly
  <2>2. Sent(frames[c]) \in Nat
    BY SentIsNat
  <2> QED
    BY <2>1, <2>2, TailPlaced
<1>5. ASSUME Few, UnderWay(frames[c])
      PROVE  /\ Remembers(frames[c], memory'[1])
             /\ Executed(frames[c]) => Kept(c)'
  <2>1. CASE Executed(frames[c])
    <3>1. Kept(c) /\ Remembers(frames[c], memory[1])
      BY <1>2, <1>5, <2>1 DEF CallLong
    <3>2. memory' = memory
      BY <1>1, <3>1 DEF Kept, Accesses
    <3> QED
      BY <1>1, <3>1, <3>2 DEF Kept
  <2>2. CASE ~Executed(frames[c])
    BY <1>2, <1>5, <2>2, NothingToRemember
  <2> QED
    BY <2>1, <2>2
<1> QED
  BY <1>2, <1>3, <1>4, <1>5 DEF CallLong, LongOwn

\* What it does to a call that takes the answer.
LEMMA ServedHeard ==
  ASSUME IInv, MotionInv, LongInv, inbox # << >>, inbox' = Tail(inbox),
         UNCHANGED << outcome, cancels >>, NEW m, m.rpc = inbox[1].rpc, Accesses(inbox[1], m),
         NEW c \in Calls, NEW g, Holds(Top(c), g, m), Shifts(c, g)
  PROVE  CallLong(c)'
<1> DEFINE t == Top(c)
<1>1. /\ \A i \in DOMAIN inbox' : i + 1 \in DOMAIN inbox /\ inbox'[i] = inbox[i + 1]
      /\ 1 \in DOMAIN inbox /\ (Len(inbox) = 1 => DOMAIN inbox' = {})
  BY DEF IInv, KeyInv
<1>2. CallLong(c) /\ NestedAsMeant(frames[c]) /\ (Few' => Few)
  BY FewStays DEF LongInv, MotionInv, CallMotion, IInv
<1>3. /\ t.at \in {"write", "read"} /\ t.response = NoMessage /\ t.rpc = inbox[1].rpc
      /\ g.at = t.at /\ g.rpc = t.rpc /\ g.step = t.step /\ g.result = t.result
      /\ g.response = m
  BY DEF Holds
<1> HIDE DEF t
<1>4. Silent(c) => \A i \in DOMAIN inbox' : inbox'[i].by # c
  BY <1>1, <1>2 DEF CallLong
<1>5. CASE frames[c] = << t >> /\ frames'[c] = << g >>
  <2>1. FrameOrderly(t) /\ (t.at \in Early => t.step = 0)
    BY <1>2, <1>5, LongOfOne DEF CallLong
  <2>2. FrameOrderly(g) /\ ~Long(g.rpc)
    BY <1>3, <2>1 DEF FrameOrderly, Outside
  <2>3. Orderly(frames'[c]) /\ ~UnderWay(frames'[c])
    BY <1>3, <1>5, <2>1, <2>2, LongOfOne
  <2>4. Silent(c)' => Silent(c)
    BY <1>3, <1>5, TupleWhere DEF Silent
  <2>5. \A i \in DOMAIN frames'[c] : LongOwn(c, frames'[c][i])
    BY <1>5, <2>2, TupleWhere DEF LongOwn
  <2> QED
    BY <1>4, <2>3, <2>4, <2>5 DEF CallLong, InboxOrderly
<1>6. ASSUME NEW o, frames[c] = << o, t >>, Around(o), frames'[c] = << o, g >>
      PROVE  CallLong(c)'
  <2>1. o.at \in {"long", "stopping"} /\ o.step \in Nat /\ WriteChunks \in Nat
        /\ o.step < WriteChunks + 3
    BY <1>6, BoundsAssumption DEF Around, IsFrame, FrameOK
  <2>2. FrameOrderly(t) /\ (o.at = "long" => NestedOrderly(t))
    BY <1>2, <1>6, <2>1, LongOfTwo DEF CallLong
  <2>3. FrameOrderly(g) /\ ~Long(g.rpc) /\ (o.at = "long" => NestedOrderly(g))
    BY <1>3, <2>2 DEF FrameOrderly, Outside, NestedOrderly, Early
  <2>4. Orderly(frames'[c])
    BY <1>6, <2>1, <2>3, LongOfTwo
  <2>5. Silent(c)' => Silent(c)
    BY <1>6, <2>1, TupleWhere DEF Silent, Early
  <2>6. Few' => \A i \in DOMAIN frames'[c] : LongOwn(c, frames'[c][i])
    <3>1. Few => LongOwn(c, o)
      BY <1>2, <1>6, TupleWhere DEF CallLong
    <3> QED
      BY <1>2, <1>6, <2>3, <3>1, TupleWhere DEF LongOwn
  <2>7. CASE ~UnderWay(frames'[c])
    BY <1>4, <2>4, <2>5, <2>6, <2>7 DEF CallLong, InboxOrderly
  <2>8. CASE UnderWay(frames'[c])
    <3>1. o.at = "long" /\ UnderWay(frames[c]) /\ Sent(frames'[c]) = Sent(frames[c])
      BY <1>3, <1>6, <2>1, <2>8, LongOfTwo
    <3>2. t.rpc = Nested(o.step)
      BY <1>2, <1>6, <2>1, <3>1, StackOfTwo
    <3>3. InboxOrderly(c)'
      <4>1. PICK n \in Nat : n = Sent(frames[c])
        BY SentIsNat, <3>1
      <4>2. \A i \in DOMAIN inbox : Placed(i, c, n)
        BY <1>2, <3>1, <4>1 DEF CallLong, InboxOrderly
      <4>3. \A i \in DOMAIN inbox' : Placed(i, c, n)'
        BY <4>2, TailPlaced
      <4> QED
        BY <3>1, <4>1, <4>3 DEF InboxOrderly, Placed
    <3>4. CASE o.step < WriteChunks
      <4>1. g.rpc = "MemWrite"
        BY <1>3, <2>1, <3>2, <3>4 DEF Nested
      <4>2. Remembers(frames'[c], memory'[1]) /\ ~Executed(frames'[c])
        BY <1>6, <2>1, <3>4, <4>1, LongOfTwo
      <4> QED
        BY <1>4, <2>4, <2>5, <2>6, <3>3, <4>2 DEF CallLong
    <3>5. ASSUME Few, ~(o.step < WriteChunks)
          PROVE  Remembers(frames'[c], memory'[1]) /\ Kept(c)'
      <4>1. t.at = "read" /\ inbox[1].by = c /\ inbox[1].step > 0 /\ Len(inbox) = 1
        BY <1>3, <1>6, <2>1, <3>1, <3>2, <3>5, AnswerIsLast DEF t
      <4>2. DOMAIN inbox' = {} /\ g.at # "write"
        BY <1>1, <1>3, <4>1
      <4>3. CASE o.step = WriteChunks
        <5>1. inbox[1].rpc = "LongRPCExtensionExecute"
          BY <1>3, <2>1, <3>2, <4>3 DEF Nested
        <5>2. m.data = memory'[1] /\ memory'[1][1] = c
          BY <4>1, <5>1 DEF Accesses
        <5>3. Remembers(frames'[c], memory'[1])
          BY <1>3, <1>6, <2>1, <4>2, <4>3, <5>2, LongOfTwo
        <5> QED
          BY <4>2, <5>2, <5>3 DEF Kept
      <4>4. CASE o.step > WriteChunks
        <5>1. inbox[1].rpc = "MemRead"
          BY <1>3, <2>1, <3>2, <4>4 DEF Nested
        <5>2. m.data = memory[1] /\ memory' = memory
          BY <4>1, <5>1 DEF Accesses
        <5>3. o.step >= WriteChunks + 1
          BY <2>1, <4>4
        <5>4. Remembers(frames[c], memory[1]) /\ Kept(c)
          BY <1>2, <1>6, <2>1, <3>1, <3>5, <5>3, LongOfTwo DEF CallLong
        <5>5. Remembers(frames'[c], memory[1])
          BY <1>3, <1>6, <2>1, <4>2, <5>2, <5>4, LongOfTwo
        <5> QED
          BY <4>2, <5>2, <5>4, <5>5 DEF Kept
      <4> QED
        BY <2>1, <3>5, <4>3, <4>4
    <3> QED
      BY <1>2, <1>4, <2>4, <2>5, <2>6, <3>3, <3>4, <3>5 DEF CallLong
  <2> QED
    BY <2>7, <2>8
<1> QED
  BY <1>5, <1>6 DEF Shifts, t

LEMMA RobotHandlesLong ==
  ASSUME IInv, MotionInv, LongInv, RobotHandles
  PROVE  LongInv'
<1> DEFINE q == Head(inbox)
<1>1. inbox # << >> /\ inbox' = Tail(inbox) /\ UNCHANGED << outcome, cancels >>
  BY DEF RobotHandles, task, ids
<1>2. PICK ok \in BOOLEAN : Handle(q, ok)
  BY DEF RobotHandles
<1>3. /\ q = inbox[1] /\ Len(inbox) \in Nat /\ Len(inbox') = Len(inbox) - 1
  BY <1>1 DEF IInv, KeyInv
<1> HIDE DEF q
<1>4. DOMAIN memory' = 1 .. WriteChunks
  BY <1>2, HandleAccesses DEF LongInv
<1>5. PICK m : Received(m) /\ m.rpc = q.rpc /\ Accesses(q, m)
  BY <1>2, HandleAccesses DEF LongInv
<1>6. \A c \in Calls : frames'[c] = frames[c] \/ \E g : Holds(Top(c), g, m) /\ Shifts(c, g)
  BY <1>5, Heard
<1>7. ASSUME NEW c \in Calls PROVE CallLong(c)'
  <2>1. CASE frames'[c] = frames[c]
    BY <1>1, <1>3, <1>5, <2>1, ServedUnheard
  <2>2. CASE \E g : Holds(Top(c), g, m) /\ Shifts(c, g)
    BY <1>1, <1>3, <1>5, <2>2, ServedHeard
  <2> QED
    BY <1>6, <2>1, <2>2
<1>8. Balance'
  <2>1. Total' = Total /\ Total \in Nat
    BY <1>1, TotalKept, TotalIsNat DEF IInv, Plain
  <2>2. ASSUME NEW c \in Calls, At(c, "write")' PROVE At(c, "write")
    <3>1. CASE frames'[c] = frames[c]
      BY <2>2, <3>1 DEF At, Top
    <3>2. ASSUME NEW g, Holds(Top(c), g, m), Shifts(c, g) PROVE At(c, "write")
      <4>1. Top(c)' = g
        <5>1. frames'[c] = << g >> \/ \E o : frames'[c] = << o, g >>
          BY <3>2 DEF Shifts
        <5> QED
          BY <5>1, TopIs
      <4>2. frames[c] # << >>
        BY <3>2, TupleWhere DEF Shifts
      <4> QED
        BY <2>2, <3>2, <4>1, <4>2 DEF At, Holds
    <3> QED
      BY <1>6, <3>1, <3>2
  <2>3. ASSUME NEW c \in Calls, At(c, "write") PROVE Len(inbox) <= Total
    BY <2>3, NobodyAwaits DEF LongInv, Balance
  <2> QED
    BY <1>3, <2>1, <2>2, <2>3 DEF LongInv, Balance
<1> QED
  BY <1>4, <1>7, <1>8 DEF LongInv

-----------------------------------------------------------------------------
(* The invariant holds.                                                    *)

LEMMA QuietLong ==
  ASSUME IInv, LongInv, UNCHANGED << frames, outcome, cancels, inbox, memory >>
  PROVE  LongInv'
<1>1. Total' = Total
  BY TotalKept
<1>2. \A c \in Calls : CallLong(c)'
  BY <1>1, OthersCall DEF LongInv, Few
<1>3. \A c \in Calls : /\ Awaits(c)' <=> Awaits(c)
                       /\ At(c, "write")' <=> At(c, "write")
                       /\ Top(c)' = Top(c)
  BY DEF Awaits, At, Top
<1>4. Balance'
  BY <1>1, <1>3 DEF LongInv, Balance
<1> QED
  BY <1>2, <1>4 DEF LongInv

LEMMA NextLong ==
  ASSUME IInv, MotionInv, LongInv, [Next]_vars
  PROVE  LongInv'
<1>1. CASE Next
  <2>1. CASE RobotHandles
    BY <2>1, RobotHandlesLong
  <2>2. CASE \E c \in Calls : Runs(c)
    BY <2>2, RunsLong, WriteLong
  <2>3. CASE \E c \in Calls : RobotEnds(c)
    BY <2>3, QuietLong DEF RobotEnds
  <2>4. CASE \E c \in Calls : Call(c)
    BY <2>4, CallLongStep
  <2>5. CASE \E c \in Calls : Fails(c)
    <3>1. PICK c \in Calls : Fails(c)
      BY <2>5
    <3>2. CASE Write(c)
      BY <3>2, WriteLong
    <3>3. CASE ~Write(c)
      BY <3>1, <3>3, RunsLong
    <3> QED
      BY <3>2, <3>3
  <2>6. CASE \E c \in Calls : Cancel(c)
    BY <2>6, CancelLong
  <2> QED
    BY <1>1, <2>1, <2>2, <2>3, <2>4, <2>5, <2>6, Zenon DEF Next, Works
<1>2. CASE UNCHANGED vars
  BY <1>2, QuietLong DEF vars, task, ids, robot
<1> QED
  BY <1>1, <1>2

\* Nothing has been cancelled.
LEMMA TotalAtFirst ==
  ASSUME Init
  PROVE  Total \in Nat
<1>1. cancels \in [Calls -> Nat]
  BY DEF Init
<1> QED
  BY <1>1, TotalIsNat

LEMMA InitLong ==
  ASSUME Init
  PROVE  LongInv
<1>1. inbox = << >> /\ \A c \in Calls : frames[c] = << >>
  BY DEF Init
<1>2. DOMAIN memory = 1 .. WriteChunks
  BY DEF Init
<1>3. \A c \in Calls : CallLong(c)
  BY <1>1, LongOfNone DEF CallLong, InboxOrderly
<1>4. Balance
  BY <1>1, TotalAtFirst DEF Balance, At
<1> QED
  BY <1>2, <1>3, <1>4 DEF LongInv

LEMMA LongFromInv ==
  ASSUME IInv, LongInv
  PROVE  LongResponseIsOwn
<1> SUFFICES ASSUME Few, NEW c \in Calls, NEW i \in DOMAIN frames[c]
             PROVE  LET f == frames[c][i] IN
                    /\ f.at = "long" /\ f.step = WriteChunks + 2 => f.data = f.crc /\ f.data[1] = c
                    /\ Long(f.rpc) /\ f.response # NoMessage => f.response.by = c
  BY DEF LongResponseIsOwn, Few, Total
<1>1. CallLong(c) /\ frames[c] # << >> /\ WriteChunks \in Nat
  BY BoundsAssumption, TupleWhere DEF LongInv
<1>2. LongOwn(c, frames[c][i])
  BY <1>1 DEF CallLong
<1>3. ASSUME frames[c][i].at = "long", frames[c][i].step = WriteChunks + 2
      PROVE  frames[c][i].data = frames[c][i].crc /\ frames[c][i].data[1] = c
  <2>1. CASE frames[c] = << Top(c) >>
    <3>1. frames[c][i] = Top(c) /\ Top(c).at = "long" /\ Top(c).step = WriteChunks + 2
      BY <1>3, <2>1, TupleWhere
    <3>2. Top(c).step >= WriteChunks + 1
      BY <1>1, <3>1
    <3>3. UnderWay(frames[c]) /\ Executed(frames[c])
      BY <2>1, <3>1, <3>2, LongOfOne
    <3>4. Remembers(frames[c], memory[1]) /\ memory[1][1] = c
      BY <1>1, <3>3 DEF CallLong, Kept
    <3>5. Top(c).crc = memory[1] /\ Top(c).data = memory[1]
      BY <2>1, <3>1, <3>2, <3>4, LongOfOne
    <3> QED
      BY <3>1, <3>4, <3>5
  <2>2. ASSUME NEW o, frames[c] = << o, Top(c) >>, Around(o), Top(c).rpc \in NestedRpcs
        PROVE  FALSE
    <3>1. /\ o.at = "long" => o.step < WriteChunks + 2
          /\ Top(c).at # "long"
      BY <2>2, NestedAt
    <3>2. frames[c][i] = o \/ frames[c][i] = Top(c)
      BY <2>2, TupleWhere
    <3> QED
      BY <1>1, <1>3, <3>1, <3>2 DEF Around
  <2> QED
    BY <1>1, <2>1, <2>2, Shape DEF IInv
<1> QED
  BY <1>2, <1>3 DEF LongOwn

\* A long RPC reads back the response to its own request, with the CRC it was
\* told, from the memory that the calls share, as long as no more calls have been
\* cancelled than its request has chunks: the robot has no request of another
\* call left when it executes the long one, and touches the memory for nobody
\* else until the response has been read (_rpc, _long_rpc).
THEOREM LongResponseIsOwnHolds == Spec => []LongResponseIsOwn
<1>1. Spec => []OwnInv
  BY InitOwn, NextOwn, SpecIInv, PTL DEF Spec
<1>2. Spec => []MotionInv
  BY <1>1, InitMotion, NextMotion, SpecIInv, PTL DEF Spec
<1>3. Spec => []LongInv
  BY <1>2, InitLong, NextLong, SpecIInv, PTL DEF Spec
<1> QED
  BY <1>3, SpecIInv, LongFromInv, PTL
=============================================================================
