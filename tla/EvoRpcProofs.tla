---------------------------- MODULE EvoRpcProofs ----------------------------
(***************************************************************************)
(* Proofs about EvoRpc, for any tasks, any chunks of a long request and    *)
(* any largest request id.                                                 *)
(*                                                                         *)
(* A task is in at most two RPCs, and where each of them is says which of  *)
(* the two locks the task holds or waits for, and which sessions it has    *)
(* open.  So each step is looked at twice: what it does to the task's      *)
(* stack of RPCs, and what it does to the lock, the queue or the count     *)
(* that has to agree with it.                                              *)
(***************************************************************************)
EXTENDS EvoRpc, FiniteSetTheorems, TLAPS

-----------------------------------------------------------------------------
(* The queues of the locks.                                                *)

IsQueue(q) == q \in Seq(Calls) /\ IsInjective(q)

LEMMA QueueJoined ==
  ASSUME NEW q, IsQueue(q), NEW c \in Calls, c \notin Range(q)
  PROVE  /\ IsQueue(Append(q, c))
         /\ Range(Append(q, c)) = Range(q) \cup {c}
         /\ Append(q, c) # << >>
         /\ Head(Append(q, c)) = IF q = << >> THEN c ELSE Head(q)
<1> USE DEF IsQueue, Range
<1>1. q \in Seq(Calls)
  OBVIOUS
<1> DEFINE r == Append(q, c)
<1>2. /\ r \in Seq(Calls) /\ Len(r) = Len(q) + 1 /\ r # << >>
      /\ \A i \in 1 .. Len(q) : r[i] = q[i]
      /\ r[Len(q) + 1] = c
  BY <1>1
<1> HIDE DEF r
<1>3. \A i \in 1 .. Len(q) + 1 : i \in 1 .. Len(q) \/ i = Len(q) + 1
  BY <1>1
<1>4. DOMAIN r = 1 .. Len(q) + 1 /\ DOMAIN q = 1 .. Len(q) /\ Len(q) + 1 \in 1 .. Len(q) + 1
  BY <1>1, <1>2
<1>5. IsInjective(r)
  BY <1>2, <1>3, <1>4 DEF IsInjective
<1>6. Range(r) = Range(q) \cup {c}
  BY <1>2, <1>3, <1>4
<1>7. Head(r) = IF q = << >> THEN c ELSE Head(q)
  BY <1>1, <1>2
<1> QED
  BY <1>2, <1>5, <1>6, <1>7 DEF r

LEMMA QueueServed ==
  ASSUME NEW q, IsQueue(q), q # << >>
  PROVE  /\ IsQueue(Tail(q))
         /\ Head(q) \in Calls /\ Head(q) \in Range(q)
         /\ Range(Tail(q)) = Range(q) \ {Head(q)}
<1> USE DEF IsQueue, Range
<1> DEFINE r == Tail(q)
<1>1. /\ r \in Seq(Calls) /\ DOMAIN q = 1 .. Len(q) /\ DOMAIN r = 1 .. Len(q) - 1
      /\ \A i \in DOMAIN r : r[i] = q[i + 1]
      /\ Head(q) = q[1] /\ 1 \in DOMAIN q /\ q[1] \in Calls
  OBVIOUS
<1> HIDE DEF r
<1>2. /\ \A i \in DOMAIN r : i + 1 \in DOMAIN q /\ i + 1 # 1
      /\ \A i \in DOMAIN q : i # 1 => i - 1 \in DOMAIN r /\ (i - 1) + 1 = i
      /\ \A i, j \in DOMAIN r : i + 1 = j + 1 => i = j
  BY <1>1
<1>3. IsInjective(r)
  BY <1>1, <1>2 DEF IsInjective
<1>4. Range(r) = Range(q) \ {q[1]}
  <2>1. ASSUME NEW i \in DOMAIN r PROVE r[i] \in Range(q) /\ r[i] # q[1]
    BY <1>1, <1>2 DEF IsInjective
  <2>2. ASSUME NEW i \in DOMAIN q, q[i] # q[1] PROVE q[i] \in Range(r)
    <3>1. i - 1 \in DOMAIN r /\ r[i - 1] = q[i]
      BY <1>1, <1>2, <2>2
    <3> QED
      BY <3>1
  <2> QED
    BY <2>1, <2>2
<1> QED
  BY <1>1, <1>3, <1>4 DEF r

\* A task that is not in the queue leaves it as it is.
LEMMA QueueNotLeft ==
  ASSUME NEW q, IsQueue(q), NEW c \in Calls, c \notin Range(q)
  PROVE  Leaves(q, c) = q
<1>1. ~ \E i \in 1 .. Len(q) : q[i] = c
  BY DEF Range, IsQueue
<1> QED
  BY <1>1, Zenon DEF Leaves, RemoveFirst

LEMMA RemovedAt ==
  ASSUME NEW q, IsQueue(q), NEW i \in 1 .. Len(q)
  PROVE  /\ RemoveAt(q, i) \in Seq(Calls)
         /\ Len(RemoveAt(q, i)) = Len(q) - 1
         /\ \A j \in 1 .. Len(q) - 1 : RemoveAt(q, i)[j] = IF j < i THEN q[j] ELSE q[j + 1]
<1> DEFINE s == SubSeq(q, 1, i - 1)
           t == SubSeq(q, i + 1, Len(q))
<1>1. q \in Seq(Calls)
  BY DEF IsQueue
<1>2. s \in Seq(Calls) /\ Len(s) = i - 1 /\ \A j \in 1 .. i - 1 : s[j] = q[j]
  BY <1>1
<1>3. t \in Seq(Calls) /\ Len(t) = Len(q) - i /\ \A j \in 1 .. Len(q) - i : t[j] = q[j + i]
  BY <1>1
<1> HIDE DEF s, t
<1>4. s \o t \in Seq(Calls) /\ Len(s \o t) = Len(s) + Len(t)
  <2>1. s \in Seq(Calls) /\ t \in Seq(Calls)
    BY <1>2, <1>3
  <2> QED
    BY <2>1
<1>5. Len(s) + Len(t) = Len(q) - 1
  BY <1>1, <1>2, <1>3
<1>6. \A j \in 1 .. Len(s) + Len(t) : (s \o t)[j] = IF j <= Len(s) THEN s[j] ELSE t[j - Len(s)]
  BY <1>2, <1>3
<1>7. ASSUME NEW j \in 1 .. Len(q) - 1
      PROVE  (s \o t)[j] = IF j < i THEN q[j] ELSE q[j + 1]
  <2>1. (s \o t)[j] = IF j <= Len(s) THEN s[j] ELSE t[j - Len(s)]
    BY <1>5, <1>6
  <2>2. j \in Int /\ i \in Int
    BY <1>1
  <2>3. CASE j < i
    <3>1. j <= Len(s) /\ j \in 1 .. i - 1
      BY <1>2, <2>2, <2>3
    <3> QED
      BY <1>2, <2>1, <2>3, <3>1
  <2>4. CASE j >= i
    <3>1. j - Len(s) \in 1 .. Len(q) - i /\ (j - Len(s)) + i = j + 1 /\ ~(j <= Len(s)) /\ ~(j < i)
      BY <1>1, <1>2, <2>2, <2>4
    <3> QED
      BY <1>3, <2>1, <3>1
  <2>5. j < i \/ j >= i
    BY <2>2
  <2> QED
    BY <2>3, <2>4, <2>5, Zenon
<1> QED
  BY <1>4, <1>5, <1>7 DEF RemoveAt, s, t

LEMMA QueueLeft ==
  ASSUME NEW q, IsQueue(q), NEW c \in Calls
  PROVE  /\ IsQueue(Leaves(q, c))
         /\ Range(Leaves(q, c)) = Range(q) \ {c}
         /\ q # << >> /\ Head(q) # c =>
              Leaves(q, c) # << >> /\ Head(Leaves(q, c)) = Head(q)
<1>1. CASE c \notin Range(q)
  BY <1>1, QueueNotLeft
<1>2. CASE c \in Range(q)
  <2>1. /\ q \in Seq(Calls) /\ DOMAIN q = 1 .. Len(q)
        /\ \A i, j \in 1 .. Len(q) : q[i] = q[j] => i = j
    BY DEF IsQueue, IsInjective
  <2>2. PICK i \in 1 .. Len(q) : q[i] = c
    BY <1>2, <2>1 DEF Range
  <2>3. {j \in 1 .. Len(q) : q[j] = c} = {i}
    BY <2>1, <2>2
  <2>4. Min({i}) = i
    BY DEF Min
  <2>5. SelectInSeq(q, LAMBDA v : v = c) = i
    BY <2>3, <2>4 DEF SelectInSeq
  <2>6. \E j \in 1 .. Len(q) : q[j] = c
    BY <2>2
  <2> DEFINE r == RemoveAt(q, i)
  <2>7. Leaves(q, c) = r
    BY <2>5, <2>6, Zenon DEF Leaves, RemoveFirst
  <2>8. /\ r \in Seq(Calls) /\ Len(r) = Len(q) - 1
        /\ \A j \in 1 .. Len(q) - 1 : r[j] = IF j < i THEN q[j] ELSE q[j + 1]
    BY RemovedAt
  <2> HIDE DEF r
  <2> DEFINE from(j) == IF j < i THEN j ELSE j + 1
  <2>9. /\ DOMAIN r = 1 .. Len(q) - 1
        /\ \A j \in DOMAIN r : from(j) \in 1 .. Len(q) /\ from(j) # i /\ r[j] = q[from(j)]
        /\ \A j, k \in DOMAIN r : from(j) = from(k) => j = k
    BY <2>1, <2>8
  <2>10. \A k \in 1 .. Len(q) : k # i => \E j \in DOMAIN r : from(j) = k
    <3>1. ASSUME NEW k \in 1 .. Len(q), k < i PROVE k \in DOMAIN r /\ from(k) = k
      BY <2>1, <2>9, <3>1
    <3>2. ASSUME NEW k \in 1 .. Len(q), k > i PROVE k - 1 \in DOMAIN r /\ from(k - 1) = k
      BY <2>1, <2>9, <3>2
    <3>3. \A k \in 1 .. Len(q) : k # i => k < i \/ k > i
      BY <2>1
    <3> QED
      BY <3>1, <3>2, <3>3
  <2>11. q # << >> /\ Head(q) # c => r # << >> /\ Head(r) = Head(q)
    <3> SUFFICES ASSUME q # << >>, Head(q) # c PROVE r # << >> /\ Head(r) = Head(q)
      OBVIOUS
    <3>1. 1 < i /\ 1 \in 1 .. Len(q) - 1 /\ q[1] = Head(q)
      BY <2>1, <2>2
    <3>2. r # << >> /\ r[1] = q[1]
      BY <3>1, <2>8
    <3> QED
      BY <3>1, <3>2, <2>8
  <2> HIDE DEF from
  <2>12. IsInjective(r)
    BY <2>1, <2>9 DEF IsInjective
  <2>13. Range(r) = Range(q) \ {c}
    BY <2>1, <2>2, <2>9, <2>10 DEF Range
  <2> QED
    BY <2>7, <2>8, <2>11, <2>12, <2>13 DEF IsQueue
<1> QED
  BY <1>1, <1>2

-----------------------------------------------------------------------------
(* The stack of RPCs of a task.                                            *)

LEMMA OneLong ==
  ASSUME NEW Frames, NEW s \in Seq(Frames), Len(s) = 1
  PROVE  s = << s[1] >>
OBVIOUS

LEMMA TwoLong ==
  ASSUME NEW Frames, NEW s \in Seq(Frames), Len(s) = 2
  PROVE  s = << s[1], s[2] >>
OBVIOUS

LEMMA TopOfOne ==
  ASSUME NEW f, NEW g
  PROVE  /\ WithTop(<< f >>, g) = << g >>
         /\ Append(<< f >>, g) = << f, g >>
         /\ Front(<< f >>) = << >>
<1> DEFINE s == << f >>
<1>1. s \in Seq({f, g}) /\ Len(s) = 1 /\ s[1] = f
  OBVIOUS
<1> HIDE DEF s
<1>2. WithTop(s, g) \in Seq({f, g}) /\ Len(WithTop(s, g)) = 1 /\ WithTop(s, g)[1] = g
  BY <1>1 DEF WithTop
<1>3. /\ Append(s, g) \in Seq({f, g}) /\ Len(Append(s, g)) = 2
      /\ Append(s, g)[1] = s[1] /\ Append(s, g)[2] = g
  <2> DEFINE Frames == {f, g}
  <2>1. s \in Seq(Frames) /\ g \in Frames
    BY <1>1
  <2> HIDE DEF Frames
  <2>2. Append(s, g) \in Seq(Frames)
    BY <2>1
  <2>3. /\ Len(Append(s, g)) = Len(s) + 1
        /\ \A i \in 1 .. Len(s) : Append(s, g)[i] = s[i]
        /\ Append(s, g)[Len(s) + 1] = g
    BY <2>1
  <2>4. Len(Append(s, g)) = 2 /\ Append(s, g)[1] = s[1] /\ Append(s, g)[2] = g
    BY <1>1, <2>3
  <2> QED
    BY <2>2, <2>4 DEF Frames
<1>4. Front(s) = << >>
  BY <1>1 DEF Front
<1> QED
  BY <1>1, <1>2, <1>3, <1>4, OneLong, TwoLong DEF s

LEMMA TopOfTwo ==
  ASSUME NEW f, NEW g, NEW h
  PROVE  WithTop(<< f, g >>, h) = << f, h >> /\ Front(<< f, g >>) = << f >>
<1> DEFINE s == << f, g >>
<1>1. s \in Seq({f, g, h}) /\ Len(s) = 2 /\ s[1] = f
  OBVIOUS
<1> HIDE DEF s
<1>2. /\ WithTop(s, h) \in Seq({f, g, h}) /\ Len(WithTop(s, h)) = 2
      /\ WithTop(s, h)[1] = f /\ WithTop(s, h)[2] = h
  <2> DEFINE Frames == {f, g, h}
  <2>1. s \in Seq(Frames) /\ h \in Frames
    BY <1>1
  <2> HIDE DEF Frames
  <2>2. WithTop(s, h) \in Seq(Frames) /\ Len(WithTop(s, h)) = 2
    BY <1>1, <2>1 DEF WithTop
  <2>3. WithTop(s, h)[1] = f /\ WithTop(s, h)[2] = h
    BY <1>1, <2>1 DEF WithTop
  <2> QED
    BY <2>2, <2>3 DEF Frames
<1>3. Front(s) \in Seq({f, g, h}) /\ Len(Front(s)) = 1 /\ Front(s)[1] = f
  BY <1>1 DEF Front
<1> QED
  BY <1>1, <1>2, <1>3, OneLong, TwoLong DEF s

NestedRpcs == {"MemWrite", "LongRPCExtensionExecute", "MemRead", "StopExecution"}

\* The chunks of a long RPC, and a StopExecution, are never long themselves.
LEMMA NestedAreShort ==
  /\ NestedRpcs \subseteq DOMAIN Requests
  /\ \A rpc \in NestedRpcs : ~Long(rpc) /\ rpc \notin Motions
<1>1. NestedRpcs \subseteq DOMAIN Requests
  BY DEF NestedRpcs, Requests
<1>2. \A rpc \in NestedRpcs : rpc \notin Motions
  BY DEF NestedRpcs, Motions
<1>3. /\ Requests["MemWrite"] = MemWrite /\ Requests["MemRead"] = MemRead
      /\ Requests["StopExecution"] = StopExecution
      /\ Requests["LongRPCExtensionExecute"] = LongRPCExtensionExecute
  BY DEF Requests
<1>4. ~Long("MemWrite")
  BY <1>3 DEF Long, IsLong, Length, RestBytes, PacketSizeMax, MemWrite, Packet
<1>5. ~Long("MemRead")
  BY <1>3 DEF Long, IsLong, Length, RestBytes, PacketSizeMax, MemRead, Packet
<1>6. ~Long("StopExecution")
  BY <1>3 DEF Long, IsLong, Length, RestBytes, PacketSizeMax, StopExecution, Packet
<1>7. ~Long("LongRPCExtensionExecute")
  BY <1>3 DEF Long, IsLong, Length, RestBytes, PacketSizeMax, LongRPCExtensionExecute, Packet
<1> QED
  BY <1>1, <1>2, <1>4, <1>5, <1>6, <1>7 DEF NestedRpcs

\* A frame of an RPC: FrameOK, and what its fields are.
IsFrame(f) ==
  /\ f \in [rpc : {f.rpc}, at : {f.at}, step : {f.step}, response : {f.response},
            crc : {f.crc}, data : {f.data}, result : {f.result}]
  /\ FrameOK(f)

\* One that can be the innermost.
Innermost(f) ==
  /\ IsFrame(f) /\ f.at # "stopping"
  /\ f.at = "long" => Long(f.rpc)
  /\ f.at = "body" => f.rpc \in Motions

\* One around a nested RPC.
Around(f) ==
  /\ IsFrame(f) /\ f.at \in {"long", "stopping"}
  /\ f.at = "long" => f.step < WriteChunks + 2 /\ Long(f.rpc)

StackOK(s) ==
  \/ s = << >>
  \/ \E f : s = << f >> /\ Innermost(f)
  \/ \E f, g : s = << f, g >> /\ Around(f) /\ Innermost(g) /\ g.rpc \in NestedRpcs

Stacks == DOMAIN frames = Calls /\ \A c \in Calls : StackOK(frames[c])

\* Where the outer and the inner RPC of c are.
Where(c, i) == IF i \in DOMAIN frames[c] THEN frames[c][i].at ELSE "none"

Alone(c) == Where(c, 2) = "none"

Nests(c) ==
  /\ Where(c, 1) \in {"long", "stopping"}
  /\ Where(c, 2) \notin {"none", "long", "body", "stopping"}

OthersStay(c) == \A d \in Calls, i \in {1, 2} : d # c => Where(d, i)' = Where(d, i)

\* The innermost RPC of c goes from a to b.
Turns(c, a, b) ==
  /\ OthersStay(c)
  /\ \/ Where(c, 1) = a /\ Where(c, 1)' = b /\ Alone(c) /\ Alone(c)'
     \/ Nests(c) /\ Where(c, 2) = a /\ Where(c, 2)' = b /\ Where(c, 1)' = Where(c, 1)

\* The only RPC of c goes from a to b, with a nested one that begins.
NestsAt(c, a, b) ==
  /\ OthersStay(c)
  /\ Where(c, 1) = a /\ Where(c, 1)' = b /\ Alone(c) /\ Where(c, 2)' = "subscribe"

\* The innermost RPC of c is over at a, and the one around it goes on.
Over(c, a) ==
  /\ OthersStay(c) /\ Alone(c)'
  /\ \/ Where(c, 1) = a /\ Where(c, 1)' = "none" /\ Alone(c)
     \/ /\ Nests(c) /\ Where(c, 2) = a
        /\ \/ Where(c, 1) = "stopping" /\ Where(c, 1)' = "unsubscribe"
           \/ Where(c, 1) = "long" /\ Where(c, 1)' \in {"long", "abort"}

LEMMA TupleWhere ==
  ASSUME NEW f, NEW g
  PROVE  /\ DOMAIN << f >> = {1} /\ DOMAIN << f, g >> = {1, 2} /\ DOMAIN << >> = {}
         /\ << f >>[1] = f /\ << f, g >>[1] = f /\ << f, g >>[2] = g
         /\ Len(<< f >>) = 1 /\ Len(<< f, g >>) = 2
         /\ << f >> # << >> /\ << f, g >> # << >>
OBVIOUS

\* What a stack that is not empty looks like.
LEMMA Shape ==
  ASSUME Stacks, NEW c \in Calls, frames[c] # << >>
  PROVE  /\ Innermost(Top(c))
         /\ \/ frames[c] = << Top(c) >>
            \/ \E o : frames[c] = << o, Top(c) >> /\ Around(o) /\ Top(c).rpc \in NestedRpcs
<1>1. CASE \E f : frames[c] = << f >> /\ Innermost(f)
  <2>1. PICK f : frames[c] = << f >> /\ Innermost(f)
    BY <1>1
  <2>2. Top(c) = f
    BY <2>1, TupleWhere DEF Top
  <2> QED
    BY <2>1, <2>2
<1>2. CASE \E f, g : frames[c] = << f, g >> /\ Around(f) /\ Innermost(g) /\ g.rpc \in NestedRpcs
  <2>1. PICK f, g : frames[c] = << f, g >> /\ Around(f) /\ Innermost(g) /\ g.rpc \in NestedRpcs
    BY <1>2
  <2>2. Top(c) = g
    BY <2>1, TupleWhere DEF Top
  <2> QED
    BY <2>1, <2>2
<1> QED
  BY <1>1, <1>2, Zenon DEF Stacks, StackOK

LEMMA WhereOne ==
  ASSUME NEW c, NEW f, frames[c] = << f >>
  PROVE  Where(c, 1) = f.at /\ Where(c, 2) = "none" /\ Alone(c)
BY TupleWhere DEF Where, Alone

LEMMA WhereTwo ==
  ASSUME NEW c, NEW f, NEW g, frames[c] = << f, g >>
  PROVE  Where(c, 1) = f.at /\ Where(c, 2) = g.at
BY TupleWhere DEF Where

LEMMA WhereNone ==
  ASSUME NEW c, frames[c] = << >>
  PROVE  Where(c, 1) = "none" /\ Where(c, 2) = "none" /\ Alone(c)
BY DEF Where, Alone

LEMMA NestedWhere ==
  ASSUME NEW f, Around(f), NEW g, Innermost(g), g.rpc \in NestedRpcs
  PROVE  f.at \in {"long", "stopping"} /\ g.at \notin {"none", "long", "body", "stopping"}
<1>1. g.at \in Ats
  BY DEF Innermost, IsFrame, FrameOK
<1> QED
  BY <1>1, NestedAreShort DEF Around, Innermost, Ats

\* What is known of c from the place its innermost RPC is at.
LEMMA AtWhere ==
  ASSUME Stacks, NEW c \in Calls, NEW a, At(c, a)
  PROVE  /\ frames[c] # << >> /\ Innermost(Top(c)) /\ Top(c).at = a
         /\ \/ Where(c, 1) = a /\ Alone(c) /\ frames[c] = << Top(c) >>
            \/ Nests(c) /\ Where(c, 2) = a /\ \E o : frames[c] = << o, Top(c) >> /\ Around(o)
<1>1. frames[c] # << >> /\ Top(c).at = a
  BY DEF At
<1>2. Innermost(Top(c))
  BY <1>1, Shape
<1>3. CASE frames[c] = << Top(c) >>
  BY <1>1, <1>2, <1>3, WhereOne
<1>4. CASE \E o : frames[c] = << o, Top(c) >> /\ Around(o) /\ Top(c).rpc \in NestedRpcs
  <2>1. PICK o : frames[c] = << o, Top(c) >> /\ Around(o) /\ Top(c).rpc \in NestedRpcs
    BY <1>4
  <2>2. Where(c, 1) = o.at /\ Where(c, 2) = Top(c).at
    BY <2>1, WhereTwo
  <2>3. Nests(c)
    BY <1>2, <2>1, <2>2, NestedWhere DEF Nests
  <2> QED
    BY <1>1, <1>2, <2>1, <2>2, <2>3
<1> QED
  BY <1>1, <1>3, <1>4, Shape

\* The other stacks, when one is replaced.
LEMMA OneStackChanges ==
  ASSUME Stacks, NEW c \in Calls, NEW s, StackOK(s), frames' = [frames EXCEPT ![c] = s]
  PROVE  Stacks' /\ OthersStay(c) /\ frames'[c] = s
<1>1. DOMAIN frames' = Calls /\ frames'[c] = s /\ \A d \in Calls : d # c => frames'[d] = frames[d]
  BY DEF Stacks
<1>2. Stacks'
  BY <1>1 DEF Stacks
<1>3. OthersStay(c)
  BY <1>1 DEF OthersStay, Where
<1> QED
  BY <1>1, <1>2, <1>3

Results == {"ok", "error", "cancelled"}

\* A frame that goes on somewhere else, with its fields otherwise kept.
LEMMA FrameAt ==
  ASSUME NEW f, IsFrame(f), NEW a \in Ats
  PROVE  /\ IsFrame([f EXCEPT !.at = a]) /\ [f EXCEPT !.at = a].at = a
         /\ [f EXCEPT !.at = a].rpc = f.rpc /\ [f EXCEPT !.at = a].step = f.step
BY DEF IsFrame, FrameOK

LEMMA FrameAtWith ==
  ASSUME NEW f, IsFrame(f), NEW a \in Ats, NEW r \in Results
  PROVE  /\ IsFrame([f EXCEPT !.at = a, !.result = r]) /\ [f EXCEPT !.at = a, !.result = r].at = a
         /\ [f EXCEPT !.at = a, !.result = r].rpc = f.rpc
BY DEF IsFrame, FrameOK, Results

LEMMA FrameNew ==
  ASSUME NEW rpc \in DOMAIN Requests
  PROVE  Innermost(Frame(rpc)) /\ Frame(rpc).at = "subscribe" /\ Frame(rpc).rpc = rpc
<1>1. /\ Frame(rpc) \in [rpc : {Frame(rpc).rpc}, at : {Frame(rpc).at}, step : {Frame(rpc).step},
                         response : {Frame(rpc).response}, crc : {Frame(rpc).crc},
                         data : {Frame(rpc).data}, result : {Frame(rpc).result}]
      /\ Frame(rpc).rpc = rpc /\ Frame(rpc).at = "subscribe" /\ Frame(rpc).step = 0
      /\ Frame(rpc).response = NoMessage /\ Frame(rpc).result = "ok"
  BY DEF Frame
<1>2. 0 \in 0 .. WriteChunks + 2
  BY BoundsAssumption
<1> HIDE DEF Frame
<1> QED
  BY <1>1, <1>2 DEF Innermost, IsFrame, FrameOK, Ats

\* The innermost RPC goes on.
LEMMA GoesOnTurns ==
  ASSUME Stacks, NEW c \in Calls, NEW a, At(c, a),
         NEW f, Innermost(f), f.rpc = Top(c).rpc, SetTop(c, f)
  PROVE  /\ Stacks' /\ Turns(c, a, f.at)
         /\ frames'[c] # << >> /\ Top(c)' = f
<1>1. frames[c] # << >> /\ Innermost(Top(c)) /\ Top(c).at = a
  BY AtWhere
<1>2. frames' = [frames EXCEPT ![c] = WithTop(frames[c], f)]
  BY DEF SetTop
<1>3. CASE frames[c] = << Top(c) >>
  <2>1. WithTop(frames[c], f) = << f >>
    BY <1>3, TopOfOne
  <2>2. Stacks' /\ OthersStay(c) /\ frames'[c] = << f >>
    <3>1. StackOK(<< f >>)
      BY DEF StackOK
    <3> QED
      BY <1>2, <2>1, <3>1, OneStackChanges
  <2>3. Where(c, 1)' = f.at /\ Alone(c)' /\ Where(c, 1) = a /\ Alone(c)
    BY <1>1, <1>3, <2>2, WhereOne, TupleWhere DEF Where, Alone
  <2>4. Top(c)' = f /\ frames'[c] # << >>
    BY <2>2, TupleWhere DEF Top
  <2> QED
    BY <2>2, <2>3, <2>4 DEF Turns
<1>4. CASE \E o : frames[c] = << o, Top(c) >> /\ Around(o) /\ Top(c).rpc \in NestedRpcs
  <2>1. PICK o : frames[c] = << o, Top(c) >> /\ Around(o) /\ Top(c).rpc \in NestedRpcs
    BY <1>4
  <2>2. WithTop(frames[c], f) = << o, f >>
    BY <2>1, TopOfTwo
  <2>3. Stacks' /\ OthersStay(c) /\ frames'[c] = << o, f >>
    <3>1. StackOK(<< o, f >>)
      BY <2>1 DEF StackOK
    <3> QED
      BY <1>2, <2>2, <3>1, OneStackChanges
  <2>4. /\ Where(c, 1)' = o.at /\ Where(c, 2)' = f.at
        /\ Where(c, 1) = o.at /\ Where(c, 2) = a
    BY <1>1, <2>1, <2>3, TupleWhere DEF Where
  <2>5. Nests(c)
    BY <1>1, <2>1, <2>4, NestedWhere DEF Nests
  <2>6. Top(c)' = f /\ frames'[c] # << >>
    BY <2>3, TupleWhere DEF Top
  <2> QED
    BY <2>3, <2>4, <2>5, <2>6 DEF Turns
<1> QED
  BY <1>1, <1>3, <1>4, Shape

\* A nested RPC begins: the one around it is the only one.
LEMMA PushNests ==
  ASSUME Stacks, NEW c \in Calls, NEW a \in {"long", "body"}, At(c, a),
         NEW f, Around(f), NEW inner \in NestedRpcs, Push(c, f, inner)
  PROVE  Stacks' /\ NestsAt(c, a, f.at)
<1>1. Where(c, 1) = a /\ Alone(c) /\ frames[c] = << Top(c) >>
  BY AtWhere DEF Nests
<1>2. Append(WithTop(frames[c], f), Frame(inner)) = << f, Frame(inner) >>
  BY <1>1, TopOfOne
<1>3. Innermost(Frame(inner)) /\ Frame(inner).at = "subscribe" /\ Frame(inner).rpc = inner
  BY FrameNew, NestedAreShort
<1>4. StackOK(<< f, Frame(inner) >>)
  BY <1>3, Zenon DEF StackOK
<1>5. Stacks' /\ OthersStay(c) /\ frames'[c] = << f, Frame(inner) >>
  BY <1>2, <1>4, OneStackChanges DEF Push
<1>6. Where(c, 1)' = f.at /\ Where(c, 2)' = "subscribe"
  BY <1>3, <1>5, TupleWhere DEF Where
<1> QED
  BY <1>1, <1>5, <1>6 DEF NestsAt

\* Where an RPC goes when the one nested in it is over.
LEMMA ResumedFrame ==
  ASSUME NEW outer, Around(outer), NEW inner, NEW result \in Results
  PROVE  LET f == Resumed(outer, inner, result) IN
         /\ Innermost(f)
         /\ \/ outer.at = "stopping" /\ f.at = "unsubscribe"
            \/ outer.at = "long" /\ f.at \in {"long", "abort"}
<1> DEFINE f == Resumed(outer, inner, result)
<1>1. IsFrame(outer) /\ outer.at \in {"long", "stopping"} /\ outer.result \in Results
  BY DEF Around, IsFrame, FrameOK, Results
<1>2. CASE outer.at = "stopping"
  <2> DEFINE kept == IF result = "ok" THEN outer.result ELSE result
  <2>1. f = [outer EXCEPT !.at = "unsubscribe", !.result = kept]
    BY <1>2 DEF Resumed
  <2>2. kept \in Results
    BY <1>1
  <2> HIDE DEF f, kept
  <2>3. IsFrame(f) /\ f.at = "unsubscribe"
    <3>1. \A r \in Results : /\ IsFrame([outer EXCEPT !.at = "unsubscribe", !.result = r])
                            /\ [outer EXCEPT !.at = "unsubscribe", !.result = r].at = "unsubscribe"
      <4>1. "unsubscribe" \in Ats
        BY DEF Ats
      <4> QED
        BY <1>1, <4>1 DEF IsFrame, FrameOK, Results
    <3> QED
      BY <2>1, <2>2, <3>1
  <2>4. Innermost(f)
    BY <2>3 DEF Innermost
  <2> QED
    BY <1>2, <2>3, <2>4 DEF f
<1>3. CASE outer.at = "long" /\ result = "ok"
  <2>1. PICK crc, data : f = [outer EXCEPT !.step = outer.step + 1, !.crc = crc, !.data = data]
    BY <1>3, Zenon DEF Resumed
  <2> HIDE DEF f
  <2>2. /\ f.at = "long" /\ f.rpc = outer.rpc /\ f.step = outer.step + 1
        /\ f.response = outer.response /\ f.result = outer.result
        /\ f \in [rpc : {f.rpc}, at : {f.at}, step : {f.step}, response : {f.response},
                  crc : {f.crc}, data : {f.data}, result : {f.result}]
    BY <1>1, <1>3, <2>1 DEF IsFrame
  <2>3. outer.step \in 0 .. WriteChunks + 2 /\ outer.step < WriteChunks + 2 /\ Long(outer.rpc)
    BY <1>1, <1>3 DEF Around, IsFrame, FrameOK
  <2>4. outer.step + 1 \in 0 .. WriteChunks + 2
    BY <2>3, BoundsAssumption
  <2>5. IsFrame(f)
    BY <1>1, <2>2, <2>4 DEF IsFrame, FrameOK, Ats
  <2>6. Innermost(f)
    BY <2>2, <2>3, <2>5 DEF Innermost
  <2> QED
    BY <1>3, <2>2, <2>6 DEF f
<1>4. CASE outer.at = "long" /\ result # "ok"
  <2>1. f = [outer EXCEPT !.at = "abort", !.result = result]
    BY <1>4 DEF Resumed
  <2> HIDE DEF f
  <2>2. "abort" \in Ats
    BY DEF Ats
  <2>3. IsFrame(f) /\ f.at = "abort"
    BY <1>1, <2>1, <2>2, FrameAtWith
  <2>4. Innermost(f)
    BY <2>3 DEF Innermost
  <2> QED
    BY <1>4, <2>3, <2>4 DEF f
<1> QED
  BY <1>1, <1>2, <1>3, <1>4

\* The innermost RPC is over, and with it the call or not.
LEMMA EndsOver ==
  ASSUME Stacks, NEW c \in Calls, NEW a, At(c, a), NEW result \in Results, Ends(c, result)
  PROVE  /\ Stacks' /\ Over(c, a)
         /\ \/ /\ Alone(c) /\ frames'[c] = << >> /\ Where(c, 1)' = "none"
               /\ outcome' = [outcome EXCEPT ![c] = result]
               /\ notifyQueue' = Leaves(notifyQueue, c)
               /\ UNCHANGED loose
            \/ /\ Nests(c) /\ frames'[c] # << >> /\ Where(c, 1)' # "none"
               /\ \E f : Where(c, 1)' = f.at /\ NotifyQueueAfter(c, f)
               /\ loose' \in {loose, loose \cup {c}}
               /\ UNCHANGED outcome
<1>1. CASE Alone(c) /\ Where(c, 1) = a /\ frames[c] = << Top(c) >>
  <2>1. Front(frames[c]) = << >>
    BY <1>1, TopOfOne
  <2>2. /\ frames' = [frames EXCEPT ![c] = << >>]
        /\ outcome' = [outcome EXCEPT ![c] = result]
        /\ notifyQueue' = Leaves(notifyQueue, c)
        /\ UNCHANGED loose
    BY <2>1, Zenon DEF Ends
  <2>3. Stacks' /\ OthersStay(c) /\ frames'[c] = << >>
    BY <2>2, OneStackChanges DEF StackOK
  <2>4. Where(c, 1)' = "none" /\ Alone(c)'
    BY <2>3 DEF Where, Alone
  <2> QED
    BY <1>1, <2>2, <2>3, <2>4 DEF Over
<1>2. CASE Nests(c) /\ Where(c, 2) = a /\ \E o : frames[c] = << o, Top(c) >> /\ Around(o)
  <2>1. PICK o : frames[c] = << o, Top(c) >> /\ Around(o)
    BY <1>2
  <2> DEFINE f == Resumed(o, Top(c), result)
  <2>2. Front(frames[c]) = << o >> /\ << o >>[Len(<< o >>)] = o /\ WithTop(<< o >>, f) = << f >>
        /\ << o >> # << >>
    BY <2>1, TopOfOne, TopOfTwo, TupleWhere
  <2>3. /\ frames' = [frames EXCEPT ![c] = << f >>]
        /\ NotifyQueueAfter(c, f)
        /\ loose' = IF result = "ok" THEN loose ELSE loose \cup {c}
        /\ UNCHANGED outcome
    BY <2>2, Zenon DEF Ends
  <2>4. /\ Innermost(f)
        /\ \/ o.at = "stopping" /\ f.at = "unsubscribe"
           \/ o.at = "long" /\ f.at \in {"long", "abort"}
    BY <2>1, ResumedFrame
  <2> HIDE DEF f
  <2>5. StackOK(<< f >>)
    BY <2>4 DEF StackOK
  <2>6. Stacks' /\ OthersStay(c) /\ frames'[c] = << f >>
    BY <2>3, <2>5, OneStackChanges
  <2>7. Where(c, 1)' = f.at /\ Alone(c)' /\ Where(c, 1) = o.at /\ frames'[c] # << >>
    BY <2>1, <2>6, TupleWhere DEF Where, Alone
  <2> QED
    BY <1>2, <2>3, <2>4, <2>6, <2>7 DEF Over
<1> QED
  BY <1>1, <1>2, AtWhere

-----------------------------------------------------------------------------
(* The RPC lock.                                                           *)

\* How many of its RPCs c holds the lock for, and whether it is to take it.
Held(c) ==
  (IF Where(c, 1) \in Exchanging THEN 1 ELSE 0) + (IF Where(c, 2) \in Exchanging THEN 1 ELSE 0)

Locking(c) == Where(c, 1) = "lock" \/ Where(c, 2) = "lock"

LockInv ==
  /\ IsQueue(lockQueue)
  /\ owner \in Calls \cup {NoCall} /\ counter \in Nat
  /\ counter = 0 <=> owner = NoCall
  /\ counter # 0 => lockQueue # << >> /\ Head(lockQueue) = owner
  /\ \A c \in Calls :
       /\ Held(c) = IF c = owner THEN counter ELSE 0
       /\ Locking(c) => c \in Range(lockQueue)
       /\ c \in Range(lockQueue) => c = owner \/ Locking(c)

LEMMA HeldIsNat ==
  ASSUME NEW c
  PROVE  Held(c) \in 0 .. 2
BY DEF Held

LEMMA OthersHold ==
  ASSUME NEW c \in Calls, OthersStay(c), NEW d \in Calls, d # c
  PROVE  Held(d)' = Held(d) /\ (Locking(d)' <=> Locking(d))
<1>1. Where(d, 1)' = Where(d, 1) /\ Where(d, 2)' = Where(d, 2)
  BY DEF OthersStay
<1> QED
  BY <1>1 DEF Held, Locking

\* Steps that leave the lock alone.
LEMMA LockKept ==
  ASSUME LockInv, NEW c \in Calls, OthersStay(c), UNCHANGED rlock,
         Held(c)' = Held(c), Locking(c)' <=> Locking(c)
  PROVE  LockInv'
<1>1. UNCHANGED << lockQueue, owner, counter >>
  BY DEF rlock
<1>2. \A d \in Calls : Held(d)' = Held(d) /\ (Locking(d)' <=> Locking(d))
  BY OthersHold
<1> QED
  BY <1>1, <1>2 DEF LockInv, IsQueue

\* The call queues up for the lock, unless it is its owner.
LEMMA LockJoined ==
  ASSUME LockInv, NEW c \in Calls, OthersStay(c), JoinLock(c), UNCHANGED << owner, counter >>,
         Held(c)' = Held(c), ~Locking(c), Locking(c)'
  PROVE  LockInv'
<1>1. \A d \in Calls : d # c => Held(d)' = Held(d) /\ (Locking(d)' <=> Locking(d))
  BY OthersHold
<1>2. NoCall \notin Calls
  BY CallsAssumption
<1>3. CASE Reenters(c)
  <2>1. lockQueue' = lockQueue /\ owner = c /\ counter # 0
    BY <1>3 DEF JoinLock, Reenters
  <2>2. c \in Range(lockQueue)
    BY <2>1, QueueServed DEF LockInv
  <2>3. LockInv'
    BY <1>1, <2>1, <2>2 DEF LockInv, IsQueue
  <2> QED
    BY <2>3
<1>4. CASE ~Reenters(c)
  <2>1. lockQueue' = Append(lockQueue, c) /\ c # owner
    BY <1>2, <1>4 DEF JoinLock, Reenters, LockInv
  <2>2. c \notin Range(lockQueue)
    BY <2>1 DEF LockInv
  <2> DEFINE q == Append(lockQueue, c)
  <2>3. /\ IsQueue(q) /\ Range(q) = Range(lockQueue) \cup {c} /\ q # << >>
        /\ Head(q) = IF lockQueue = << >> THEN c ELSE Head(lockQueue)
    BY <2>2, QueueJoined DEF LockInv
  <2> HIDE DEF q
  <2>4. IsQueue(lockQueue') /\ Range(lockQueue') = Range(lockQueue) \cup {c}
    BY <2>1, <2>3 DEF q, IsQueue
  <2>5. counter' # 0 => lockQueue' # << >> /\ Head(lockQueue') = owner'
    BY <2>1, <2>3 DEF LockInv, q
  <2>6. \A d \in Calls :
          /\ Held(d)' = IF d = owner' THEN counter' ELSE 0
          /\ Locking(d)' => d \in Range(lockQueue')
          /\ d \in Range(lockQueue') => d = owner' \/ Locking(d)'
    BY <1>1, <2>4 DEF LockInv
  <2> QED
    BY <2>4, <2>5, <2>6 DEF LockInv, IsQueue
<1> QED
  BY <1>3, <1>4

\* The call takes the lock, once more or as the next in the queue.
LEMMA LockTaken ==
  ASSUME LockInv, NEW c \in Calls, OthersStay(c), Acquire(c),
         Held(c)' = Held(c) + 1, Locking(c), ~Locking(c)'
  PROVE  LockInv'
<1>1. \A d \in Calls : d # c => Held(d)' = Held(d) /\ (Locking(d)' <=> Locking(d))
  BY OthersHold
<1>2. NoCall \notin Calls
  BY CallsAssumption
<1>3. lockQueue' = lockQueue /\ owner' = c /\ counter' = counter + 1
  BY DEF Acquire
<1>4. c \in Range(lockQueue) /\ counter \in Nat /\ owner \in Calls \cup {NoCall}
  BY DEF LockInv
<1>5. lockQueue # << >> /\ Head(lockQueue) = c /\ (counter = 0 \/ owner = c)
  <2>1. lockQueue # << >>
    BY <1>4 DEF Range
  <2> QED
    BY <2>1 DEF Acquire, Reenters, LockInv
<1>6. \A d \in Calls : d # c => d # owner
  BY <1>2, <1>5 DEF LockInv
<1>7. Held(c) = counter
  BY <1>2, <1>5 DEF LockInv
<1>8. \A d \in Calls : d # c =>
        /\ Held(d)' = 0
        /\ Locking(d)' => d \in Range(lockQueue)
        /\ d \in Range(lockQueue) => Locking(d)'
  BY <1>1, <1>6 DEF LockInv
<1>9. counter' \in Nat /\ counter' # 0 /\ owner' # NoCall
  BY <1>2, <1>3, <1>4
<1> QED
  BY <1>3, <1>4, <1>5, <1>7, <1>8, <1>9 DEF LockInv, IsQueue

\* The call gives the lock back, once or for good.
LEMMA LockReleased ==
  ASSUME LockInv, NEW c \in Calls, OthersStay(c), Release,
         Held(c)' = Held(c) - 1, Held(c) # 0, ~Locking(c), ~Locking(c)'
  PROVE  LockInv' /\ owner = c /\ counter > 0
<1>1. \A d \in Calls : d # c => Held(d)' = Held(d) /\ (Locking(d)' <=> Locking(d))
  BY OthersHold
<1>2. NoCall \notin Calls
  BY CallsAssumption
<1>3. owner = c /\ Held(c) = counter /\ counter \in Nat /\ counter # 0
  BY DEF LockInv
<1>4. counter' = counter - 1
  BY DEF Release
<1>5. IsQueue(lockQueue) /\ lockQueue # << >> /\ Head(lockQueue) = c
  BY <1>3 DEF LockInv
<1>6. \A d \in Calls : d # c =>
        /\ Held(d)' = 0
        /\ Locking(d)' => d \in Range(lockQueue)
        /\ d \in Range(lockQueue) => Locking(d)'
  BY <1>1, <1>3 DEF LockInv
<1>7. CASE counter = 1
  <2>1. lockQueue' = Tail(lockQueue) /\ owner' = NoCall
    BY <1>7 DEF Release
  <2>2. IsQueue(Tail(lockQueue)) /\ Range(Tail(lockQueue)) = Range(lockQueue) \ {c}
    BY <1>5, QueueServed
  <2>3. IsQueue(lockQueue') /\ Range(lockQueue') = Range(lockQueue) \ {c}
    BY <2>1, <2>2 DEF IsQueue
  <2>4. \A d \in Calls :
          /\ Held(d)' = IF d = owner' THEN counter' ELSE 0
          /\ Locking(d)' => d \in Range(lockQueue')
          /\ d \in Range(lockQueue') => d = owner' \/ Locking(d)'
    BY <1>2, <1>3, <1>4, <1>6, <1>7, <2>1, <2>3
  <2> QED
    BY <1>3, <1>4, <1>7, <2>1, <2>3, <2>4 DEF LockInv, IsQueue
<1>8. CASE counter # 1
  <2>1. lockQueue' = lockQueue /\ owner' = c
    BY <1>3, <1>8 DEF Release
  <2>2. counter' \in Nat /\ counter' # 0 /\ owner' # NoCall
    BY <1>2, <1>3, <1>4, <1>8, <2>1
  <2>3. \A d \in Calls :
          /\ Held(d)' = IF d = owner' THEN counter' ELSE 0
          /\ Locking(d)' => d \in Range(lockQueue')
          /\ d \in Range(lockQueue') => d = owner' \/ Locking(d)'
    BY <1>3, <1>4, <1>6, <2>1
  <2> QED
    BY <1>2, <1>3, <1>5, <2>1, <2>2, <2>3 DEF LockInv, IsQueue
<1> QED
  BY <1>3, <1>7, <1>8

\* A call that has queued up for the lock leaves the queue.
LEMMA LockGivenUp ==
  ASSUME LockInv, NEW c \in Calls, OthersStay(c), UNCHANGED << owner, counter >>,
         ~Reenters(c), lockQueue # << >> => Head(lockQueue) # c, lockQueue' = Leaves(lockQueue, c),
         Held(c)' = Held(c), ~Locking(c)'
  PROVE  LockInv'
<1>1. \A d \in Calls : d # c => Held(d)' = Held(d) /\ (Locking(d)' <=> Locking(d))
  BY OthersHold
<1>2. NoCall \notin Calls
  BY CallsAssumption
<1>3. c # owner
  BY <1>2 DEF LockInv, Reenters
<1>4. /\ IsQueue(Leaves(lockQueue, c))
      /\ Range(Leaves(lockQueue, c)) = Range(lockQueue) \ {c}
      /\ lockQueue # << >> =>
           Leaves(lockQueue, c) # << >> /\ Head(Leaves(lockQueue, c)) = Head(lockQueue)
  BY QueueLeft DEF LockInv
<1>5. IsQueue(lockQueue') /\ Range(lockQueue') = Range(lockQueue) \ {c}
  BY <1>4 DEF IsQueue
<1>6. counter' # 0 => lockQueue' # << >> /\ Head(lockQueue') = owner'
  BY <1>4 DEF LockInv
<1>7. \A d \in Calls :
        /\ Held(d)' = IF d = owner' THEN counter' ELSE 0
        /\ Locking(d)' => d \in Range(lockQueue')
        /\ d \in Range(lockQueue') => d = owner' \/ Locking(d)'
  BY <1>1, <1>3, <1>5 DEF LockInv
<1> QED
  BY <1>5, <1>6, <1>7 DEF LockInv, IsQueue

-----------------------------------------------------------------------------
(* The notification lock.                                                  *)

\* Whether c opens or closes its events session, and whether it has to wait.
Notifies(c) ==
  \E i \in {1, 2} : Where(c, i) \in {"subscribe", "notifying", "unsubscribe", "stopnotify"}

Queues(c) == \E i \in {1, 2} : Where(c, i) \in {"subscribe", "unsubscribe"}

NotifyInv ==
  /\ IsQueue(notifyQueue)
  /\ \A c \in Calls :
       /\ Queues(c) => c \in Range(notifyQueue)
       /\ c \in Range(notifyQueue) => Notifies(c)

LEMMA OthersNotify ==
  ASSUME NEW c \in Calls, OthersStay(c), NEW d \in Calls, d # c
  PROVE  Queues(d)' = Queues(d) /\ Notifies(d)' = Notifies(d)
<1>1. Where(d, 1)' = Where(d, 1) /\ Where(d, 2)' = Where(d, 2)
  BY DEF OthersStay
<1> QED
  BY <1>1 DEF Queues, Notifies

\* Steps that leave the queue alone.
LEMMA NotifyKept ==
  ASSUME NotifyInv, NEW c \in Calls, OthersStay(c), UNCHANGED notifyQueue,
         Queues(c)' => Queues(c), Notifies(c) => Notifies(c)'
  PROVE  NotifyInv'
BY OthersNotify DEF NotifyInv, IsQueue

\* The call queues up for the first time.
LEMMA NotifyJoined ==
  ASSUME NotifyInv, NEW c \in Calls, OthersStay(c), notifyQueue' = Append(notifyQueue, c),
         ~Notifies(c), Notifies(c)'
  PROVE  NotifyInv'
<1>1. c \notin Range(notifyQueue)
  BY DEF NotifyInv
<1>2. IsQueue(Append(notifyQueue, c)) /\ Range(Append(notifyQueue, c)) = Range(notifyQueue) \cup {c}
  BY <1>1, QueueJoined DEF NotifyInv
<1>3. IsQueue(notifyQueue') /\ Range(notifyQueue') = Range(notifyQueue) \cup {c}
  BY <1>2 DEF IsQueue
<1> QED
  BY <1>3, OthersNotify DEF NotifyInv

\* The call leaves the queue.
LEMMA NotifyLeft ==
  ASSUME NotifyInv, NEW c \in Calls, OthersStay(c), notifyQueue' = Leaves(notifyQueue, c),
         ~Queues(c)'
  PROVE  NotifyInv'
<1>1. /\ IsQueue(Leaves(notifyQueue, c))
      /\ Range(Leaves(notifyQueue, c)) = Range(notifyQueue) \ {c}
  BY QueueLeft DEF NotifyInv
<1>2. IsQueue(notifyQueue') /\ Range(notifyQueue') = Range(notifyQueue) \ {c}
  BY <1>1 DEF IsQueue
<1> QED
  BY <1>2, OthersNotify DEF NotifyInv

\* The call leaves the queue, and queues up again if it has to.
LEMMA NotifyAfter ==
  ASSUME NotifyInv, NEW c \in Calls, OthersStay(c), NEW f, NotifyQueueAfter(c, f),
         Queues(c)' => Waits(f), Waits(f) => Notifies(c)'
  PROVE  NotifyInv'
<1> DEFINE q == Leaves(notifyQueue, c)
<1>1. IsQueue(q) /\ Range(q) = Range(notifyQueue) \ {c}
  BY QueueLeft DEF NotifyInv
<1>2. q \in Seq(Calls)
  BY <1>1 DEF IsQueue
<1>3. CASE Waits(f)
  <2>1. notifyQueue' = q \o << c >>
    BY <1>3, Zenon DEF NotifyQueueAfter
  <2> HIDE DEF q
  <2>2. q \o << c >> = Append(q, c)
    BY <1>2
  <2>3. IsQueue(Append(q, c)) /\ Range(Append(q, c)) = Range(q) \cup {c}
    BY <1>1, QueueJoined
  <2>4. IsQueue(notifyQueue') /\ Range(notifyQueue') = Range(notifyQueue) \cup {c}
    BY <1>1, <2>1, <2>2, <2>3 DEF IsQueue
  <2> QED
    BY <1>3, <2>4, OthersNotify DEF NotifyInv
<1>4. CASE ~Waits(f)
  <2>1. notifyQueue' = q \o << >>
    BY <1>4, Zenon DEF NotifyQueueAfter
  <2>2. notifyQueue' = Leaves(notifyQueue, c)
    <3> HIDE DEF q
    <3>1. q \o << >> = q
      BY <1>2
    <3> QED
      BY <2>1, <3>1 DEF q
  <2> QED
    BY <1>4, <2>2, NotifyLeft
<1> QED
  BY <1>3, <1>4

-----------------------------------------------------------------------------
(* The sessions of the characteristic.                                     *)

\* The sessions that are open: the events sessions of the RPCs that are counted
\* and not yet given back, and the response sessions of those that exchange.
Kinds == {"events", "response"}

IsOpen(at, kind) ==
  IF kind = "events" THEN at \notin {"none", "subscribe", "stopnotify"} ELSE at \in Exchanging

OpenSessions ==
  {s \in Calls \X ({1, 2} \X Kinds) : IsOpen(Where(s[1], s[2][1]), s[2][2])}

\* Every open session is counted; one whose opening or closing was cut short
\* can be counted for ever.
SessionInv == refcount \in Nat /\ Cardinality(OpenSessions) <= refcount

LEMMA OpenIsFinite ==
  IsFiniteSet(OpenSessions)
<1>1. IsFiniteSet({1, 2})
  <2>1. IsFiniteSet({1} \cup {2})
    BY FS_Singleton, FS_AddElement
  <2> QED
    BY <2>1
<1>2. IsFiniteSet(Kinds)
  <2>1. IsFiniteSet({"events"})
    BY FS_Singleton
  <2>2. IsFiniteSet({"events"} \cup {"response"})
    BY <2>1, FS_AddElement
  <2> QED
    BY <2>2 DEF Kinds
<1>3. IsFiniteSet(Calls \X ({1, 2} \X Kinds))
  BY <1>1, <1>2, CallsAssumption, FS_Product
<1>4. OpenSessions \subseteq Calls \X ({1, 2} \X Kinds)
  BY DEF OpenSessions
<1> QED
  BY <1>3, <1>4, FS_Subset

LEMMA SessionsKept ==
  ASSUME SessionInv, NEW c \in Calls, OthersStay(c), UNCHANGED refcount,
         \A i \in {1, 2}, k \in Kinds : IsOpen(Where(c, i)', k) => IsOpen(Where(c, i), k)
  PROVE  SessionInv'
<1>1. OpenSessions' \subseteq OpenSessions
  BY DEF OpenSessions, OthersStay
<1>2. IsFiniteSet(OpenSessions') /\ Cardinality(OpenSessions') <= Cardinality(OpenSessions)
  BY <1>1, OpenIsFinite, FS_Subset
<1>3. Cardinality(OpenSessions') \in Nat /\ Cardinality(OpenSessions) \in Nat
  BY <1>2, OpenIsFinite, FS_CardinalityType
<1> QED
  BY <1>2, <1>3 DEF SessionInv

LEMMA SessionOpened ==
  ASSUME SessionInv, NEW c \in Calls, OthersStay(c), refcount' = refcount + 1,
         NEW i \in {1, 2}, NEW k \in Kinds,
         \A j \in {1, 2}, l \in Kinds :
           IsOpen(Where(c, j)', l) => IsOpen(Where(c, j), l) \/ (j = i /\ l = k)
  PROVE  SessionInv'
<1> DEFINE s == << c, << i, k >> >>
           sessionSet == OpenSessions \cup {s}
<1>1. OpenSessions' \subseteq sessionSet
  BY DEF OpenSessions, OthersStay
<1> HIDE DEF s
<1>2. /\ IsFiniteSet(sessionSet) /\ Cardinality(sessionSet) \in Nat /\ Cardinality(OpenSessions) \in Nat
      /\ Cardinality(sessionSet) <= Cardinality(OpenSessions) + 1
  <2>1. Cardinality(OpenSessions) \in Nat
    BY OpenIsFinite, FS_CardinalityType
  <2>2. /\ IsFiniteSet(sessionSet)
        /\ Cardinality(sessionSet) = IF s \in OpenSessions THEN Cardinality(OpenSessions)
                            ELSE Cardinality(OpenSessions) + 1
    BY OpenIsFinite, FS_AddElement
  <2> QED
    BY <2>1, <2>2
<1> HIDE DEF sessionSet
<1>3. IsFiniteSet(OpenSessions') /\ Cardinality(OpenSessions') <= Cardinality(sessionSet)
  BY <1>1, <1>2, FS_Subset
<1>4. Cardinality(OpenSessions') \in Nat
  BY <1>3, FS_CardinalityType
<1> QED
  BY <1>2, <1>3, <1>4 DEF SessionInv

LEMMA SessionClosed ==
  ASSUME SessionInv, NEW c \in Calls, OthersStay(c), refcount' = refcount - 1,
         NEW i \in {1, 2}, NEW k \in Kinds, IsOpen(Where(c, i), k),
         \A j \in {1, 2}, l \in Kinds :
           IsOpen(Where(c, j)', l) => IsOpen(Where(c, j), l) /\ (j # i \/ l # k)
  PROVE  SessionInv'
<1> DEFINE s == << c, << i, k >> >>
           sessionSet == OpenSessions \ {s}
<1>1. OpenSessions' \subseteq sessionSet /\ s \in OpenSessions
  BY DEF OpenSessions, OthersStay
<1>2. /\ IsFiniteSet(sessionSet) /\ Cardinality(sessionSet) \in Nat /\ Cardinality(OpenSessions) \in Nat
      /\ Cardinality(sessionSet) = Cardinality(OpenSessions) - 1
  BY <1>1, OpenIsFinite, FS_RemoveElement, FS_CardinalityType
<1> HIDE DEF sessionSet
<1>3. IsFiniteSet(OpenSessions') /\ Cardinality(OpenSessions') <= Cardinality(sessionSet)
  BY <1>1, <1>2, FS_Subset
<1>4. Cardinality(OpenSessions') \in Nat
  BY <1>3, FS_CardinalityType
<1> QED
  BY <1>2, <1>3, <1>4 DEF SessionInv

-----------------------------------------------------------------------------
(* Notifications.                                                          *)

Switching == {"notifying", "stopnotify"}

\* Who turns notifications on or off has the notification lock, and the count is
\* then what it turns them on or off for; they are on while sessions are counted,
\* unless a start_notify has failed or been cancelled.
HearInv ==
  /\ \A c \in Calls, i \in {1, 2} :
       /\ Where(c, i) \in Switching => notifyQueue # << >> /\ Head(notifyQueue) = c
       /\ Where(c, i) = "notifying" => refcount = 1
       /\ Where(c, i) = "stopnotify" => refcount = 0
  /\ \/ unheard \/ subscribed \/ refcount = 0
     \/ \E c \in Calls, i \in {1, 2} : Where(c, i) = "notifying"

\* What c does to the queue.
QueueStep(c) ==
  \/ notifyQueue' = notifyQueue
  \/ notifyQueue' = Append(notifyQueue, c)
  \/ notifyQueue' = Leaves(notifyQueue, c)
  \/ \E f : NotifyQueueAfter(c, f)

LEMMA HeadKept ==
  ASSUME NotifyInv, NEW c \in Calls, QueueStep(c), notifyQueue # << >>, Head(notifyQueue) # c
  PROVE  notifyQueue' # << >> /\ Head(notifyQueue') = Head(notifyQueue)
<1> DEFINE q == Leaves(notifyQueue, c)
<1>1. notifyQueue \in Seq(Calls)
  BY DEF NotifyInv, IsQueue
<1>2. q \in Seq(Calls) /\ q # << >> /\ Head(q) = Head(notifyQueue)
  BY QueueLeft DEF NotifyInv, IsQueue
<1>3. CASE notifyQueue' = Append(notifyQueue, c)
  <2>1. Append(notifyQueue, c) # << >> /\ Head(Append(notifyQueue, c)) = Head(notifyQueue)
    BY <1>1
  <2> QED
    BY <1>3, <2>1
<1>4. CASE \E f : NotifyQueueAfter(c, f)
  <2>1. notifyQueue' = q \o << c >> \/ notifyQueue' = q \o << >>
    BY <1>4, Zenon DEF NotifyQueueAfter
  <2> HIDE DEF q
  <2>2. << c >> \in Seq(Calls) /\ << >> \in Seq(Calls)
    OBVIOUS
  <2>3. \A r \in Seq(Calls) : q \o r # << >> /\ Head(q \o r) = Head(q)
    <3> TAKE r \in Seq(Calls)
    <3>1. Len(q \o r) = Len(q) + Len(r) /\ Len(q) > 0
      BY <1>2
    <3>2. (q \o r)[1] = q[1]
      BY <1>2
    <3>3. q \o r \in Seq(Calls)
      BY <1>2
    <3> QED
      BY <1>2, <3>1, <3>2, <3>3
  <2> QED
    BY <1>2, <2>1, <2>2, <2>3
<1> QED
  BY <1>2, <1>3, <1>4 DEF QueueStep

NobodyElseSwitches(c) == \A d \in Calls, i \in {1, 2} : d # c => Where(d, i) \notin Switching

\* Who is served by the notification lock, and who finds nobody at it, is alone.
LEMMA AloneAtLock ==
  ASSUME HearInv, NEW c \in Calls, notifyQueue = << >> \/ Head(notifyQueue) = c
  PROVE  NobodyElseSwitches(c)
BY DEF HearInv, NobodyElseSwitches

LEMMA AloneIfSwitching ==
  ASSUME HearInv, NEW c \in Calls, NEW i \in {1, 2}, Where(c, i) \in Switching
  PROVE  NobodyElseSwitches(c)
BY DEF HearInv, NobodyElseSwitches

\* Steps of a call that has nothing to do with notifications.
LEMMA HearingKept ==
  ASSUME HearInv, NotifyInv, NEW c \in Calls, OthersStay(c), QueueStep(c),
         UNCHANGED << refcount, subscribed, unheard >>,
         \A i \in {1, 2} : Where(c, i) \notin Switching /\ Where(c, i)' \notin Switching
  PROVE  HearInv'
<1>1. ASSUME NEW d \in Calls, NEW i \in {1, 2}, Where(d, i)' \in Switching
      PROVE  /\ notifyQueue' # << >> /\ Head(notifyQueue') = d
             /\ Where(d, i)' = Where(d, i)
  <2>1. d # c /\ Where(d, i)' = Where(d, i)
    BY <1>1 DEF OthersStay
  <2>2. notifyQueue # << >> /\ Head(notifyQueue) = d
    BY <1>1, <2>1 DEF HearInv
  <2> QED
    BY <2>1, <2>2, HeadKept
<1>2. \A d \in Calls, i \in {1, 2} : Where(d, i) = "notifying" => Where(d, i)' = "notifying"
  BY DEF OthersStay, Switching
<1>3. \A d \in Calls, i \in {1, 2} :
        /\ Where(d, i)' = "notifying" => Where(d, i) = "notifying"
        /\ Where(d, i)' = "stopnotify" => Where(d, i) = "stopnotify"
  BY <1>1 DEF Switching
<1> QED
  BY <1>1, <1>2, <1>3 DEF HearInv

\* Steps after which nobody turns notifications on or off.
LEMMA HearingAlone ==
  ASSUME NEW c \in Calls, OthersStay(c), NobodyElseSwitches(c),
         \A i \in {1, 2} : Where(c, i)' \notin Switching,
         unheard' \/ subscribed' \/ refcount' = 0
  PROVE  HearInv'
<1>1. \A d \in Calls, i \in {1, 2} : Where(d, i)' \notin Switching
  BY DEF OthersStay, NobodyElseSwitches
<1> QED
  BY <1>1 DEF HearInv, Switching

\* Steps after which the call, and only the call, turns them on or off.
LEMMA HearingSwitches ==
  ASSUME NEW c \in Calls, OthersStay(c), NobodyElseSwitches(c),
         UNCHANGED notifyQueue, notifyQueue # << >>, Head(notifyQueue) = c,
         NEW i \in {1, 2}, \A j \in {1, 2} : j # i => Where(c, j)' \notin Switching,
         \/ Where(c, i)' = "notifying" /\ refcount' = 1
         \/ Where(c, i)' = "stopnotify" /\ refcount' = 0
  PROVE  HearInv'
<1>1. \A d \in Calls, j \in {1, 2} : Where(d, j)' \in Switching => d = c /\ j = i
  BY DEF OthersStay, NobodyElseSwitches
<1> QED
  BY <1>1 DEF HearInv, Switching

\* Whoever has a session open is counted.
LEMMA OpenIsCounted ==
  ASSUME SessionInv, NEW c \in Calls, NEW i \in {1, 2}, NEW k \in Kinds, IsOpen(Where(c, i), k)
  PROVE  refcount > 0
<1>1. << c, << i, k >> >> \in OpenSessions
  BY DEF OpenSessions
<1>2. Cardinality(OpenSessions) # 0 /\ Cardinality(OpenSessions) \in Nat
  BY <1>1, OpenIsFinite, FS_EmptySet, FS_CardinalityType
<1> QED
  BY <1>2 DEF SessionInv

\* Notifications are on while somebody has a session and nobody turns them on.
LEMMA OpenIsHeard ==
  ASSUME HearInv, SessionInv, NEW c \in Calls, NobodyElseSwitches(c),
         \A i \in {1, 2} : Where(c, i) # "notifying",
         NEW i \in {1, 2}, NEW k \in Kinds, IsOpen(Where(c, i), k)
  PROVE  unheard \/ subscribed
<1>1. refcount > 0
  BY OpenIsCounted
<1>2. refcount # 0
  BY <1>1 DEF SessionInv
<1> QED
  BY <1>2 DEF HearInv, NobodyElseSwitches, Switching

-----------------------------------------------------------------------------
(* What the steps of a stack do to the lock and the sessions.              *)

One(at) == IF at \in Exchanging THEN 1 ELSE 0

LEMMA TurnsHeld ==
  ASSUME NEW c \in Calls, NEW a, NEW b, Turns(c, a, b)
  PROVE  /\ OthersStay(c)
         /\ Held(c)' = (Held(c) - One(a)) + One(b)
         /\ a \in Exchanging => Held(c) # 0
         /\ Locking(c) <=> a = "lock"
         /\ Locking(c)' <=> b = "lock"
<1>1. CASE Where(c, 1) = a /\ Where(c, 1)' = b /\ Alone(c) /\ Alone(c)'
  <2>1. Where(c, 2) = "none" /\ Where(c, 2)' = "none"
    BY <1>1 DEF Alone
  <2>2. Held(c) = One(a) /\ Held(c)' = One(b)
    BY <1>1, <2>1 DEF Held, One, Exchanging
  <2> QED
    BY <1>1, <2>1, <2>2 DEF Turns, One, Locking
<1>2. CASE Nests(c) /\ Where(c, 2) = a /\ Where(c, 2)' = b /\ Where(c, 1)' = Where(c, 1)
  <2>1. Held(c) = One(Where(c, 1)) + One(a) /\ Held(c)' = One(Where(c, 1)) + One(b)
    BY <1>2 DEF Held, One
  <2> QED
    BY <1>2, <2>1 DEF Turns, One, Locking, Nests
<1> QED
  BY <1>1, <1>2 DEF Turns

LEMMA OverHeld ==
  ASSUME NEW c \in Calls, NEW a, Over(c, a), a \notin Exchanging \cup {"lock"}
  PROVE  /\ OthersStay(c)
         /\ Held(c)' = Held(c) /\ ~Locking(c) /\ ~Locking(c)'
<1>1. CASE Where(c, 1) = a /\ Where(c, 1)' = "none" /\ Alone(c)
  BY <1>1 DEF Over, Alone, Held, Locking, Exchanging
<1>2. CASE Nests(c) /\ Where(c, 2) = a
  BY <1>2 DEF Over, Alone, Nests, Held, Locking, Exchanging
<1> QED
  BY <1>1, <1>2 DEF Over

LEMMA NestsHeld ==
  ASSUME NEW c \in Calls, NEW a, NEW b, NestsAt(c, a, b),
         (a = "long" /\ b = "long") \/ (a = "body" /\ b = "stopping")
  PROVE  /\ OthersStay(c)
         /\ Held(c)' = Held(c) /\ ~Locking(c) /\ ~Locking(c)'
BY DEF NestsAt, Alone, Held, Locking, Exchanging

LEMMA TurnsSwitching ==
  ASSUME NEW c \in Calls, NEW a, NEW b, Turns(c, a, b)
  PROVE  /\ a \notin Switching => \A i \in {1, 2} : Where(c, i) \notin Switching
         /\ b \notin Switching => \A i \in {1, 2} : Where(c, i)' \notin Switching
         /\ \E i \in {1, 2} : /\ Where(c, i) = a /\ Where(c, i)' = b
                              /\ \A j \in {1, 2} : j # i => Where(c, j)' \notin Switching
BY DEF Turns, Alone, Nests, Switching

LEMMA OverSwitching ==
  ASSUME NEW c \in Calls, NEW a, Over(c, a)
  PROVE  /\ a \notin Switching => \A i \in {1, 2} : Where(c, i) \notin Switching
         /\ \A i \in {1, 2} : Where(c, i)' \notin Switching
         /\ \E i \in {1, 2} : Where(c, i) = a
BY DEF Over, Alone, Nests, Switching

LEMMA NestsSwitching ==
  ASSUME NEW c \in Calls, NEW a, NEW b, NestsAt(c, a, b), a \notin Switching, b \notin Switching
  PROVE  \A i \in {1, 2} : Where(c, i) \notin Switching /\ Where(c, i)' \notin Switching
BY DEF NestsAt, Alone, Switching

LEMMA TurnsKeepsSessions ==
  ASSUME SessionInv, NEW c \in Calls, NEW a, NEW b, Turns(c, a, b), UNCHANGED refcount,
         \A k \in Kinds : IsOpen(b, k) => IsOpen(a, k)
  PROVE  SessionInv'
<1>1. \A i \in {1, 2}, k \in Kinds : IsOpen(Where(c, i)', k) => IsOpen(Where(c, i), k)
  BY DEF Turns, Alone
<1> QED
  BY <1>1, SessionsKept DEF Turns

LEMMA TurnsOpensSession ==
  ASSUME SessionInv, NEW c \in Calls, NEW a, NEW b, Turns(c, a, b), refcount' = refcount + 1,
         NEW k \in Kinds, \A l \in Kinds : IsOpen(b, l) => IsOpen(a, l) \/ l = k
  PROVE  SessionInv'
<1>1. PICK i \in {1, 2} : \A j \in {1, 2} :
        Where(c, j)' = Where(c, j) \/ (j = i /\ Where(c, j) = a /\ Where(c, j)' = b)
  BY DEF Turns, Alone
<1>2. \A j \in {1, 2}, l \in Kinds :
        IsOpen(Where(c, j)', l) => IsOpen(Where(c, j), l) \/ (j = i /\ l = k)
  BY <1>1
<1> QED
  BY <1>2, SessionOpened DEF Turns

LEMMA TurnsClosesSession ==
  ASSUME SessionInv, NEW c \in Calls, NEW a, NEW b, Turns(c, a, b), refcount' = refcount - 1,
         NEW k \in Kinds, IsOpen(a, k), \A l \in Kinds : IsOpen(b, l) => IsOpen(a, l) /\ l # k
  PROVE  SessionInv'
<1>1. PICK i \in {1, 2} :
        /\ Where(c, i) = a /\ Where(c, i)' = b
        /\ \A j \in {1, 2} : j # i => Where(c, j)' = Where(c, j)
  BY DEF Turns, Alone
<1>2. \A j \in {1, 2}, l \in Kinds :
        IsOpen(Where(c, j)', l) => IsOpen(Where(c, j), l) /\ (j # i \/ l # k)
  BY <1>1
<1> QED
  BY <1>1, <1>2, SessionClosed DEF Turns

LEMMA OverKeepsSessions ==
  ASSUME SessionInv, NEW c \in Calls, NEW a, Over(c, a), UNCHANGED refcount
  PROVE  SessionInv'
<1>1. \A i \in {1, 2}, k \in Kinds : IsOpen(Where(c, i)', k) => IsOpen(Where(c, i), k)
  BY DEF Over, Alone, IsOpen, Exchanging
<1> QED
  BY <1>1, SessionsKept DEF Over

LEMMA OverClosesSession ==
  ASSUME SessionInv, NEW c \in Calls, Over(c, "unsubscribe"), refcount' = refcount - 1
  PROVE  SessionInv'
<1>1. PICK i \in {1, 2} :
        /\ Where(c, i) = "unsubscribe" /\ Where(c, i)' = "none"
        /\ \A j \in {1, 2}, l \in Kinds :
             j # i => (IsOpen(Where(c, j)', l) => IsOpen(Where(c, j), l))
  BY DEF Over, Alone, IsOpen, Exchanging
<1>2. \A j \in {1, 2}, l \in Kinds :
        IsOpen(Where(c, j)', l) => IsOpen(Where(c, j), l) /\ (j # i \/ l # "events")
  BY <1>1 DEF IsOpen, Exchanging
<1>3. IsOpen(Where(c, i), "events") /\ "events" \in Kinds
  BY <1>1 DEF IsOpen, Kinds
<1> QED
  BY <1>2, <1>3, SessionClosed DEF Over

LEMMA NestsKeepsSessions ==
  ASSUME SessionInv, NEW c \in Calls, NEW a, NEW b, NestsAt(c, a, b), UNCHANGED refcount,
         (a = "long" /\ b = "long") \/ (a = "body" /\ b = "stopping")
  PROVE  SessionInv'
<1>1. \A i \in {1, 2}, k \in Kinds : IsOpen(Where(c, i)', k) => IsOpen(Where(c, i), k)
  BY DEF NestsAt, Alone, IsOpen, Exchanging
<1> QED
  BY <1>1, SessionsKept DEF NestsAt

-----------------------------------------------------------------------------
(* Everything else.                                                        *)

Outcomes == {"idle", "running", "ok", "error", "cancelled"}

Plain ==
  /\ program \in [Calls -> DOMAIN Requests \cup {"none"}]
  /\ outcome \in [Calls -> Outcomes]
  /\ \A c \in Calls : outcome[c] = "running" <=> Where(c, 1) # "none"
  /\ cancels \in [Calls -> Nat]
  /\ event \in [Calls -> {"none", "finished", "failed"}]
  /\ loose \subseteq Calls
  /\ subscribed \in BOOLEAN /\ unheard \in BOOLEAN

\* A call that has been made, and has not run out of request ids.
Begun(c) == c \in Calls /\ outcome[c] # "idle" /\ requestId[c] <= MaxRequestId

Queries == [rpc : DOMAIN Requests, key : Nat, by : Calls, step : Nat]

KeyInv ==
  /\ requestCounter \in Nat
  /\ requestId \in [Calls -> 0 .. requestCounter]
  /\ \A c, d \in Calls : requestId[c] # 0 /\ requestId[c] = requestId[d] => c = d
  /\ \A c \in Calls : /\ outcome[c] = "idle" => requestId[c] = 0
                      /\ outcome[c] = "running" => requestId[c] <= MaxRequestId
  /\ inbox \in Seq(Queries)
  /\ \A i \in DOMAIN inbox : Begun(inbox[i].by)
  /\ executing \subseteq Calls
  /\ \A c \in executing : Begun(c)

IInv == Stacks /\ Plain /\ LockInv /\ NotifyInv /\ SessionInv /\ HearInv /\ KeyInv

\* A call that is made ends at most once, and keeps its request id.
LEMMA KeysKept ==
  ASSUME Plain, KeyInv, UNCHANGED << requestId, requestCounter, inbox, executing >>,
         \A c \in Calls :
           outcome'[c] = outcome[c] \/ (outcome[c] = "running" /\ outcome'[c] \notin {"idle", "running"})
  PROVE  KeyInv'
BY DEF KeyInv, Begun

\* What holds of every step of a call in which it only goes on.
LEMMA PlainKept ==
  ASSUME Plain, NEW c \in Calls, OthersStay(c), UNCHANGED << program, outcome >>,
         Where(c, 1) # "none" /\ Where(c, 1)' # "none",
         cancels' \in [Calls -> Nat], event' = event, loose' \in {loose, loose \cup {c}},
         subscribed' \in BOOLEAN, unheard' \in BOOLEAN
  PROVE  Plain'
BY DEF Plain, OthersStay

LEMMA PlainEnded ==
  ASSUME Plain, NEW c \in Calls, OthersStay(c), UNCHANGED program,
         NEW result \in Results, outcome' = [outcome EXCEPT ![c] = result], Where(c, 1)' = "none",
         cancels' \in [Calls -> Nat], event' = event, loose' = loose,
         subscribed' \in BOOLEAN, unheard' \in BOOLEAN
  PROVE  Plain'
<1>1. result \in Outcomes /\ result # "running"
  BY DEF Results, Outcomes
<1>2. /\ outcome' \in [Calls -> Outcomes]
      /\ outcome'[c] = result /\ \A d \in Calls : d # c => outcome'[d] = outcome[d]
  BY <1>1 DEF Plain
<1> QED
  BY <1>1, <1>2 DEF Plain, OthersStay

-----------------------------------------------------------------------------
(* The three ways a call goes on.                                          *)

\* What a step leaves well typed that no lock, session or request depends on.
Sound ==
  /\ UNCHANGED << program, event >> /\ cancels' \in [Calls -> Nat]
  /\ subscribed' \in BOOLEAN /\ unheard' \in BOOLEAN

Settled == Stacks' /\ Plain' /\ NotifyInv'

LEMMA GoesOnSettles ==
  ASSUME IInv, Sound, NEW c \in Calls, NEW a \in Ats, At(c, a),
         NEW f, Innermost(f), f.rpc = Top(c).rpc, GoesOn(c, f)
  PROVE  Settled /\ Turns(c, a, f.at) /\ QueueStep(c) /\ UNCHANGED outcome
<1>1. SetTop(c, f) /\ NotifyQueueAfter(c, f) /\ UNCHANGED outcome /\ loose' \in {loose, loose \cup {c}}
  BY DEF GoesOn
<1>2. Stacks' /\ Turns(c, a, f.at)
  BY <1>1, GoesOnTurns DEF IInv
<1>3. OthersStay(c)
  BY <1>2 DEF Turns
<1>4. f.at \in Ats /\ "none" \notin Ats
  BY DEF Innermost, IsFrame, FrameOK, Ats
<1>5. NotifyInv'
  <2>1. (Queues(c)' => Waits(f)) /\ (Waits(f) => Notifies(c)')
    BY <1>2 DEF Turns, Alone, Nests, Queues, Notifies, Waits
  <2> QED
    BY <1>1, <1>3, <2>1, NotifyAfter DEF IInv
<1>6. Plain'
  <2>1. Where(c, 1) # "none" /\ Where(c, 1)' # "none"
    BY <1>2, <1>4 DEF Turns, Nests
  <2> QED
    BY <1>1, <1>3, <2>1, PlainKept DEF IInv, Sound
<1> QED
  BY <1>1, <1>2, <1>5, <1>6 DEF Settled, QueueStep

LEMMA EndsSettles ==
  ASSUME IInv, Sound, NEW c \in Calls, NEW a, At(c, a), NEW result \in Results, Ends(c, result)
  PROVE  /\ Settled /\ Over(c, a) /\ QueueStep(c)
         /\ \A d \in Calls : \/ outcome'[d] = outcome[d]
                             \/ outcome[d] = "running" /\ outcome'[d] \notin {"idle", "running"}
<1>1. Stacks' /\ Over(c, a)
  BY EndsOver DEF IInv
<1>2. OthersStay(c) /\ Alone(c)'
  BY <1>1 DEF Over
<1>3. frames[c] # << >> /\ Innermost(Top(c)) /\ Where(c, 1) # "none"
  <2>1. /\ frames[c] # << >> /\ Innermost(Top(c)) /\ Top(c).at = a
        /\ Where(c, 1) = a \/ Nests(c)
    BY AtWhere DEF IInv
  <2> QED
    BY <2>1 DEF Innermost, IsFrame, FrameOK, Ats, Nests
<1>4. outcome[c] = "running"
  BY <1>3 DEF IInv, Plain
<1>5. CASE /\ Where(c, 1)' = "none"
           /\ outcome' = [outcome EXCEPT ![c] = result]
           /\ notifyQueue' = Leaves(notifyQueue, c)
           /\ UNCHANGED loose
  <2>1. ~Queues(c)'
    BY <1>2, <1>5 DEF Queues, Alone
  <2>2. NotifyInv'
    BY <1>2, <1>5, <2>1, NotifyLeft DEF IInv
  <2>3. Plain'
    BY <1>2, <1>5, PlainEnded DEF IInv, Sound
  <2>4. outcome'[c] = result /\ \A d \in Calls : d # c => outcome'[d] = outcome[d]
    BY <1>5 DEF IInv, Plain
  <2> QED
    BY <1>1, <1>4, <1>5, <2>2, <2>3, <2>4 DEF Settled, Results, QueueStep
<1>6. CASE /\ Where(c, 1)' # "none"
           /\ \E f : Where(c, 1)' = f.at /\ NotifyQueueAfter(c, f)
           /\ loose' \in {loose, loose \cup {c}}
           /\ UNCHANGED outcome
  <2>1. PICK f : Where(c, 1)' = f.at /\ NotifyQueueAfter(c, f)
    BY <1>6
  <2>2. (Queues(c)' => Waits(f)) /\ (Waits(f) => Notifies(c)')
    BY <1>2, <2>1 DEF Queues, Notifies, Alone, Waits
  <2>3. NotifyInv'
    BY <1>2, <2>1, <2>2, NotifyAfter DEF IInv
  <2>4. Plain'
    BY <1>2, <1>3, <1>6, PlainKept DEF IInv, Sound
  <2> QED
    BY <1>1, <1>6, <2>1, <2>3, <2>4 DEF Settled, QueueStep
<1> QED
  BY <1>5, <1>6, EndsOver DEF IInv

LEMMA PushSettles ==
  ASSUME IInv, Sound, NEW c \in Calls, NEW a \in {"long", "body"}, At(c, a),
         NEW f, Around(f), f.at = (IF a = "long" THEN "long" ELSE "stopping"),
         NEW inner \in NestedRpcs, Push(c, f, inner),
         notifyQueue' = Append(notifyQueue, c), UNCHANGED << outcome, loose >>
  PROVE  Settled /\ NestsAt(c, a, f.at) /\ QueueStep(c)
<1>1. Stacks' /\ NestsAt(c, a, f.at)
  BY PushNests DEF IInv
<1>2. OthersStay(c)
  BY <1>1 DEF NestsAt
<1>3. ~Notifies(c) /\ Notifies(c)'
  BY <1>1 DEF NestsAt, Notifies, Alone
<1>4. NotifyInv'
  BY <1>2, <1>3, NotifyJoined DEF IInv
<1>5. Plain'
  BY <1>1, <1>2, PlainKept DEF IInv, Sound, NestsAt
<1> QED
  BY <1>1, <1>4, <1>5 DEF Settled, QueueStep

\* Steps that keep the lock for as many RPCs as before, and do not queue up for it.
LEMMA TurnsKeepsLock ==
  ASSUME LockInv, NEW c \in Calls, NEW a, NEW b, Turns(c, a, b), UNCHANGED rlock,
         One(a) = One(b), a # "lock", b # "lock"
  PROVE  LockInv'
<1>1. Held(c)' = Held(c) /\ ~Locking(c) /\ ~Locking(c)' /\ OthersStay(c)
  BY TurnsHeld, HeldIsNat DEF One
<1> QED
  BY <1>1, LockKept

LEMMA OverKeepsLock ==
  ASSUME LockInv, NEW c \in Calls, NEW a, Over(c, a), a \notin Exchanging \cup {"lock"}, UNCHANGED rlock
  PROVE  LockInv'
BY OverHeld, LockKept

LEMMA NestsKeepsLock ==
  ASSUME LockInv, NEW c \in Calls, NEW a \in {"long", "body"}, NEW b, NestsAt(c, a, b),
         b = (IF a = "long" THEN "long" ELSE "stopping"), UNCHANGED rlock
  PROVE  LockInv'
BY NestsHeld, LockKept

-----------------------------------------------------------------------------
(* The steps of _rpc.                                                      *)

\* The places an RPC can go to whatever it is.
Plainly == Ats \ {"stopping", "long", "body"}

LEMMA InnermostAt ==
  ASSUME NEW f, Innermost(f), NEW a \in Plainly
  PROVE  LET g == [f EXCEPT !.at = a] IN Innermost(g) /\ g.at = a /\ g.rpc = f.rpc
<1>1. IsFrame(f) /\ a \in Ats
  BY DEF Innermost, Plainly
<1>2. LET g == [f EXCEPT !.at = a] IN IsFrame(g) /\ g.at = a /\ g.rpc = f.rpc
  BY <1>1, FrameAt
<1> QED
  BY <1>2 DEF Innermost, Plainly

LEMMA InnermostAtWith ==
  ASSUME NEW f, Innermost(f), NEW a \in Plainly, NEW r \in Results
  PROVE  LET g == [f EXCEPT !.at = a, !.result = r] IN Innermost(g) /\ g.at = a /\ g.rpc = f.rpc
<1>1. IsFrame(f) /\ a \in Ats
  BY DEF Innermost, Plainly
<1>2. LET g == [f EXCEPT !.at = a, !.result = r] IN IsFrame(g) /\ g.at = a /\ g.rpc = f.rpc
  BY <1>1, FrameAtWith
<1> QED
  BY <1>2 DEF Innermost, Plainly

LEMMA AnsweredFrame ==
  ASSUME NEW f, Innermost(f), NEW m, m = NoMessage \/ m.rpc = f.rpc
  PROVE  LET g == Answered(f, m) IN
         Innermost(g) /\ g.at \in {"body", "unsubscribe"} /\ g.rpc = f.rpc
<1> DEFINE g == Answered(f, m)
<1>1. IsFrame(f)
  BY DEF Innermost
<1>2. CASE f.rpc \in Motions
  <2>1. g = [f EXCEPT !.at = "body", !.response = m]
    BY <1>2 DEF Answered
  <2> HIDE DEF g
  <2>2. IsFrame(g) /\ g.at = "body" /\ g.rpc = f.rpc
    BY <1>1, <2>1 DEF IsFrame, FrameOK, Ats
  <2>3. Innermost(g)
    BY <1>2, <2>2 DEF Innermost
  <2> QED
    BY <2>2, <2>3 DEF g
<1>3. CASE f.rpc \notin Motions
  <2>1. PICK r \in Results : g = [f EXCEPT !.at = "unsubscribe", !.response = m, !.result = r]
    BY <1>3 DEF Answered, Results
  <2> HIDE DEF g
  <2>2. IsFrame(g) /\ g.at = "unsubscribe" /\ g.rpc = f.rpc
    BY <1>1, <2>1 DEF IsFrame, FrameOK, Ats, Results
  <2>3. Innermost(g)
    BY <2>2 DEF Innermost
  <2> QED
    BY <2>2, <2>3 DEF g
<1> QED
  BY <1>2, <1>3

\* A step that does not cancel and changes nothing that is only recorded.
LEMMA SoundIfKept ==
  ASSUME IInv, UNCHANGED program, UNCHANGED << cancels, event >>,
         subscribed' \in BOOLEAN, unheard' \in BOOLEAN
  PROVE  Sound
BY DEF IInv, Plain, Sound

LEMMA BooleansKept ==
  ASSUME IInv
  PROVE  subscribed \in BOOLEAN /\ unheard \in BOOLEAN
BY DEF IInv, Plain

LEMMA KeysUnchanged ==
  ASSUME IInv, UNCHANGED << outcome, requestId, requestCounter, inbox, executing >>
  PROVE  KeyInv'
BY KeysKept DEF IInv

LEMMA CallStep ==
  ASSUME IInv, NEW c \in Calls, Call(c), UNCHANGED program
  PROVE  IInv'
<1>1. /\ outcome[c] = "idle" /\ program[c] # "none"
      /\ UNCHANGED << cancels, event, loose, lockQueue, owner, counter, refcount, subscribed,
                      unheard, inbox, memory, executing >>
  BY DEF Call, rlock, sessions, robot
<1>2. Where(c, 1) = "none" /\ frames[c] = << >>
  <2>1. Where(c, 1) = "none"
    BY <1>1 DEF IInv, Plain
  <2>2. frames[c] # << >> => Where(c, 1) # "none"
    <3> SUFFICES ASSUME frames[c] # << >>, Where(c, 1) = "none" PROVE FALSE
      BY <2>1
    <3>1. Innermost(Top(c)) /\ Top(c).at \in Ats /\ "none" \notin Ats
      BY Shape DEF IInv, Innermost, IsFrame, FrameOK, Ats
    <3>2. At(c, Top(c).at)
      BY DEF At
    <3> QED
      BY <3>1, <3>2, AtWhere DEF IInv, Nests
  <2> QED
    BY <2>1, <2>2
<1>3. Where(c, 2) = "none" /\ Alone(c)
  BY <1>2, WhereNone
<1>4. /\ program[c] \in DOMAIN Requests
      /\ requestCounter \in Nat /\ requestId \in [Calls -> 0 .. requestCounter] /\ requestId[c] = 0
  BY <1>1 DEF IInv, Plain, KeyInv
<1>5. /\ requestCounter' \in Nat /\ requestId' \in [Calls -> 0 .. requestCounter']
      /\ \A d, e \in Calls : requestId'[d] # 0 /\ requestId'[d] = requestId'[e] => d = e
      /\ \A d \in Calls : d # c => requestId'[d] = requestId[d]
      /\ requestId'[c] > MaxRequestId => program[c] \in Motions /\ requestCounter' > MaxRequestId
  <2>1. CASE program[c] \in Motions
    <3>1. /\ requestCounter' = requestCounter + 1
          /\ requestId' = [requestId EXCEPT ![c] = requestCounter + 1]
      BY <2>1 DEF Call, NextRequestId
    <3>2. \A d \in Calls : requestId[d] \in 0 .. requestCounter
      BY <1>4
    <3>3. /\ requestId'[c] = requestCounter + 1
          /\ \A d \in Calls : d # c => requestId'[d] = requestId[d]
          /\ \A d \in Calls : d # c => requestId'[d] # requestId'[c]
      BY <1>4, <3>1, <3>2
    <3>4. requestId' \in [Calls -> 0 .. requestCounter + 1]
      <4>1. \A d \in Calls : requestId'[d] \in 0 .. requestCounter + 1
        BY <1>4, <3>2, <3>3
      <4>2. requestId' = [d \in Calls |-> requestId'[d]]
        BY <1>4, <3>1
      <4> QED
        BY <4>1, <4>2
    <3> QED
      BY <1>4, <2>1, <3>1, <3>3, <3>4 DEF IInv, KeyInv
  <2>2. CASE program[c] \notin Motions
    <3>1. UNCHANGED << requestId, requestCounter >>
      BY <2>2 DEF Call
    <3> QED
      BY <1>4, <3>1, BoundsAssumption DEF IInv, KeyInv
  <2> QED
    BY <2>1, <2>2
<1>6. CASE program[c] \in Motions /\ requestCounter' > MaxRequestId
  <2>1. outcome' = [outcome EXCEPT ![c] = "error"] /\ UNCHANGED << frames, notifyQueue >>
    BY <1>6 DEF Call
  <2>2. /\ outcome' \in [Calls -> Outcomes] /\ outcome'[c] = "error"
        /\ \A d \in Calls : d # c => outcome'[d] = outcome[d]
    BY <2>1 DEF IInv, Plain, Outcomes
  <2>3. \A d \in Calls, i \in {1, 2} : Where(d, i)' = Where(d, i)
    BY <2>1 DEF Where
  <2>4. Stacks'
    BY <2>1 DEF IInv, Stacks
  <2>5. Plain'
    BY <1>1, <1>2, <2>2, <2>3 DEF IInv, Plain
  <2>6. LockInv' /\ NotifyInv' /\ SessionInv' /\ HearInv'
    <3>1. OthersStay(c) /\ Held(c)' = Held(c) /\ (Locking(c)' <=> Locking(c))
      BY <2>3 DEF OthersStay, Held, Locking
    <3>2. (Queues(c)' => Queues(c)) /\ (Notifies(c) => Notifies(c)')
      BY <2>3 DEF Queues, Notifies
    <3>3. LockInv'
      BY <1>1, <3>1, LockKept DEF IInv, rlock
    <3>4. NotifyInv'
      BY <2>1, <3>1, <3>2, NotifyKept DEF IInv
    <3>5. SessionInv'
      BY <1>1, <2>3, <3>1, SessionsKept DEF IInv
    <3>6. HearInv'
      <4>1. \A i \in {1, 2} : Where(c, i) \notin Switching /\ Where(c, i)' \notin Switching
        BY <1>2, <1>3, <2>3 DEF Switching
      <4> QED
        BY <1>1, <2>1, <3>1, <4>1, HearingKept DEF IInv, QueueStep
    <3> QED
      BY <3>3, <3>4, <3>5, <3>6
  <2>7. \A d \in Calls : Begun(d) => Begun(d)'
    BY <1>1, <1>5, <2>2 DEF Begun
  <2>8. KeyInv'
    BY <1>1, <1>5, <2>2, <2>7 DEF IInv, KeyInv, Begun
  <2> QED
    BY <2>4, <2>5, <2>6, <2>8 DEF IInv
<1>7. CASE ~(program[c] \in Motions /\ requestCounter' > MaxRequestId)
  <2>1. /\ outcome' = [outcome EXCEPT ![c] = "running"]
        /\ frames' = [frames EXCEPT ![c] = << Frame(program[c]) >>]
        /\ notifyQueue' = Append(notifyQueue, c)
    BY <1>7 DEF Call
  <2>2. /\ outcome' \in [Calls -> Outcomes] /\ outcome'[c] = "running"
        /\ \A d \in Calls : d # c => outcome'[d] = outcome[d]
    BY <2>1 DEF IInv, Plain, Outcomes
  <2>3. Innermost(Frame(program[c])) /\ Frame(program[c]).at = "subscribe"
    BY <1>4, FrameNew
  <2>4. StackOK(<< Frame(program[c]) >>)
    BY <2>3, Zenon DEF StackOK
  <2>5. Stacks' /\ OthersStay(c) /\ frames'[c] = << Frame(program[c]) >>
    BY <2>1, <2>4, OneStackChanges DEF IInv
  <2>6. Where(c, 1)' = "subscribe" /\ Where(c, 2)' = "none"
    BY <2>3, <2>5, TupleWhere DEF Where
  <2>7. Plain'
    BY <1>1, <2>2, <2>5, <2>6 DEF IInv, Plain, OthersStay
  <2>8. LockInv'
    <3>1. Held(c)' = Held(c) /\ (Locking(c)' <=> Locking(c))
      BY <1>2, <1>3, <2>6 DEF Held, Locking, Exchanging
    <3> QED
      BY <1>1, <2>5, <3>1, LockKept DEF IInv, rlock
  <2>9. NotifyInv'
    <3>1. ~Notifies(c) /\ Notifies(c)'
      BY <1>2, <1>3, <2>6 DEF Notifies
    <3> QED
      BY <2>1, <2>5, <3>1, NotifyJoined DEF IInv
  <2>10. SessionInv'
    <3>1. \A i \in {1, 2}, k \in Kinds : IsOpen(Where(c, i)', k) => IsOpen(Where(c, i), k)
      BY <2>6 DEF IsOpen, Exchanging
    <3> QED
      BY <1>1, <2>5, <3>1, SessionsKept DEF IInv
  <2>11. \A d \in Calls : Begun(d) => Begun(d)'
    BY <1>1, <1>5, <2>2 DEF Begun
  <2>14. HearInv'
    <3>1. \A i \in {1, 2} : Where(c, i) \notin Switching /\ Where(c, i)' \notin Switching
      BY <1>2, <1>3, <2>6 DEF Switching
    <3> QED
      BY <1>1, <2>1, <2>5, <3>1, HearingKept DEF IInv, QueueStep
  <2>12. requestId'[c] <= MaxRequestId
    <3>1. requestId'[c] \in Int
      BY <1>5
    <3> QED
      BY <1>5, <1>7, <3>1, BoundsAssumption
  <2>13. KeyInv'
    BY <1>1, <1>5, <2>2, <2>11, <2>12 DEF IInv, KeyInv, Begun
  <2> QED
    BY <2>5, <2>7, <2>8, <2>9, <2>10, <2>13, <2>14 DEF IInv
<1> QED
  BY <1>6, <1>7

LEMMA SubscribeStep ==
  ASSUME IInv, NEW c \in Calls, Subscribe(c), UNCHANGED program
  PROVE  IInv'
<1>1. /\ At(c, "subscribe") /\ refcount' = refcount + 1
      /\ UNCHANGED << cancels, requestId, requestCounter, event, owner, counter, subscribed,
                      unheard, inbox, memory, executing >>
  BY DEF Subscribe, ids, robot
<1>2. Sound
  BY <1>1, SoundIfKept, BooleansKept
<1>3. Innermost(Top(c))
  BY <1>1, AtWhere DEF IInv
<1>6. Where(c, 1) = "subscribe" \/ Where(c, 2) = "subscribe"
  BY <1>1, AtWhere DEF IInv
<1>7. notifyQueue # << >> /\ Head(notifyQueue) = c
  <2>1. c \in Range(notifyQueue)
    BY <1>6 DEF IInv, NotifyInv, Queues
  <2> QED
    BY <2>1 DEF Range, Subscribe
<1>8. NobodyElseSwitches(c)
  BY <1>7, AloneAtLock DEF IInv
<1>4. CASE refcount = 0
  <2> DEFINE f == [Top(c) EXCEPT !.at = "notifying"]
  <2>1. SetTop(c, f) /\ UNCHANGED << outcome, loose, notifyQueue, lockQueue >>
    BY <1>4 DEF Subscribe
  <2>2. Innermost(f) /\ f.at = "notifying" /\ f.rpc = Top(c).rpc
    BY <1>3, InnermostAt DEF Plainly, Ats
  <2> HIDE DEF f
  <2>3. Stacks' /\ Turns(c, "subscribe", "notifying")
    BY <1>1, <2>1, <2>2, GoesOnTurns DEF IInv
  <2>4. OthersStay(c) /\ Where(c, 1) # "none" /\ Where(c, 1)' # "none"
    BY <2>3 DEF Turns, Nests
  <2>5. Plain'
    BY <1>1, <1>2, <2>1, <2>4, PlainKept DEF IInv, Sound
  <2>6. LockInv'
    BY <1>1, <2>1, <2>3, TurnsKeepsLock DEF IInv, One, Exchanging, rlock
  <2>7. NotifyInv'
    <3>1. (Queues(c)' => Queues(c)) /\ (Notifies(c) => Notifies(c)')
      BY <2>3 DEF Turns, Alone, Nests, Queues, Notifies
    <3> QED
      BY <2>1, <2>4, <3>1, NotifyKept DEF IInv
  <2>8. SessionInv'
    <3>1. \A l \in Kinds : IsOpen("notifying", l) => IsOpen("subscribe", l) \/ l = "events"
      BY DEF IsOpen, Exchanging, Kinds
    <3> QED
      BY <1>1, <2>3, <3>1, TurnsOpensSession DEF IInv, Kinds
  <2>9. KeyInv'
    BY <1>1, <2>1, KeysUnchanged
  <2>10. HearInv'
    <3>1. refcount' = 1
      BY <1>1, <1>4
    <3>2. PICK i \in {1, 2} : /\ Where(c, i)' = "notifying"
                             /\ \A j \in {1, 2} : j # i => Where(c, j)' \notin Switching
      BY <2>3, TurnsSwitching
    <3> QED
      BY <1>7, <1>8, <2>1, <2>4, <3>1, <3>2, HearingSwitches
  <2> QED
    BY <2>3, <2>5, <2>6, <2>7, <2>8, <2>9, <2>10 DEF IInv
<1>5. CASE refcount # 0
  <2> DEFINE f == [Top(c) EXCEPT !.at = "lock"]
  <2>1. GoesOn(c, f) /\ JoinLock(c)
    BY <1>5 DEF Subscribe
  <2>2. Innermost(f) /\ f.at = "lock" /\ f.rpc = Top(c).rpc
    BY <1>3, InnermostAt DEF Plainly, Ats
  <2> HIDE DEF f
  <2>3. Settled /\ Turns(c, "subscribe", "lock") /\ UNCHANGED outcome
    BY <1>1, <1>2, <2>1, <2>2, GoesOnSettles DEF Ats
  <2>4. LockInv'
    <3>1. Held(c)' = Held(c) /\ ~Locking(c) /\ Locking(c)' /\ OthersStay(c)
      BY <2>3, TurnsHeld, HeldIsNat DEF One, Exchanging
    <3> QED
      BY <1>1, <2>1, <3>1, LockJoined DEF IInv
  <2>5. SessionInv'
    <3>1. \A l \in Kinds : IsOpen("lock", l) => IsOpen("subscribe", l) \/ l = "events"
      BY DEF IsOpen, Exchanging, Kinds
    <3> QED
      BY <1>1, <2>3, <3>1, TurnsOpensSession DEF IInv, Kinds
  <2>6. KeyInv'
    BY <1>1, <2>3, KeysUnchanged
  <2>7. HearInv'
    <3>1. /\ \A i \in {1, 2} : Where(c, i) \notin Switching /\ Where(c, i)' \notin Switching
          /\ OthersStay(c)
      BY <2>3, TurnsSwitching DEF Turns, Switching
    <3>2. unheard \/ subscribed
      BY <1>5, <1>8, <3>1 DEF IInv, HearInv, NobodyElseSwitches, Switching
    <3> QED
      BY <1>1, <1>8, <3>1, <3>2, HearingAlone
  <2> QED
    BY <2>3, <2>4, <2>5, <2>6, <2>7 DEF IInv, Settled
<1> QED
  BY <1>4, <1>5

LEMMA StartNotifyStep ==
  ASSUME IInv, NEW c \in Calls, StartNotify(c), UNCHANGED program
  PROVE  IInv'
<1> DEFINE f == [Top(c) EXCEPT !.at = "lock"]
<1>1. /\ At(c, "notifying") /\ GoesOn(c, f) /\ JoinLock(c) /\ subscribed' = TRUE
      /\ UNCHANGED << cancels, requestId, requestCounter, event, owner, counter, refcount,
                      unheard, inbox, memory, executing >>
  BY DEF StartNotify, ids, robot
<1>2. Sound
  BY <1>1, SoundIfKept, BooleansKept
<1>3. Innermost(f) /\ f.at = "lock" /\ f.rpc = Top(c).rpc
  BY <1>1, AtWhere, InnermostAt DEF IInv, Plainly, Ats
<1> HIDE DEF f
<1>4. Settled /\ Turns(c, "notifying", "lock") /\ UNCHANGED outcome
  BY <1>1, <1>2, <1>3, GoesOnSettles DEF Ats
<1>5. LockInv'
  <2>1. Held(c)' = Held(c) /\ ~Locking(c) /\ Locking(c)' /\ OthersStay(c)
    BY <1>4, TurnsHeld, HeldIsNat DEF One, Exchanging
  <2> QED
    BY <1>1, <2>1, LockJoined DEF IInv
<1>6. SessionInv'
  <2>1. \A l \in Kinds : IsOpen("lock", l) => IsOpen("notifying", l)
    BY DEF IsOpen, Exchanging, Kinds
  <2> QED
    BY <1>1, <1>4, <2>1, TurnsKeepsSessions DEF IInv
<1>7. KeyInv'
  BY <1>1, <1>4, KeysUnchanged
<1>8. HearInv'
  <2>1. /\ \A i \in {1, 2} : Where(c, i)' \notin Switching
        /\ \E i \in {1, 2} : Where(c, i) = "notifying"
        /\ OthersStay(c)
    BY <1>4, TurnsSwitching DEF Turns, Switching
  <2>2. NobodyElseSwitches(c)
    BY <2>1, AloneIfSwitching DEF IInv, Switching
  <2> QED
    BY <1>1, <2>1, <2>2, HearingAlone
<1> QED
  BY <1>4, <1>5, <1>6, <1>7, <1>8 DEF IInv, Settled

\* A step that ends the innermost RPC: its events session is waited for, closed,
\* or was being opened or closed when the step failed or was cancelled.
LEMMA EndStep ==
  ASSUME IInv, Sound, NEW c \in Calls, NEW a, At(c, a),
         NEW result \in Results, Ends(c, result),
         UNCHANGED << rlock, requestId, requestCounter, inbox, executing >>,
         \/ /\ a \in {"subscribe", "unsubscribe"}
            /\ UNCHANGED << refcount, subscribed, unheard >>
         \/ /\ a = "unsubscribe" /\ Head(notifyQueue) = c
            /\ refcount' = refcount - 1 /\ UNCHANGED << subscribed, unheard >>
         \/ a = "notifying" /\ unheard' /\ UNCHANGED refcount
         \/ a = "stopnotify" /\ UNCHANGED refcount
  PROVE  IInv'
<1>1. Settled /\ Over(c, a) /\ QueueStep(c) /\ OthersStay(c)
  BY EndsSettles DEF Over
<1>2. LockInv'
  BY <1>1, OverKeepsLock DEF IInv, Exchanging
<1>3. SessionInv'
  BY <1>1, OverKeepsSessions, OverClosesSession DEF IInv
<1>4. KeyInv'
  BY EndsSettles, KeysKept DEF IInv
<1>5. /\ a \notin Switching => \A i \in {1, 2} : Where(c, i) \notin Switching
      /\ \A i \in {1, 2} : Where(c, i)' \notin Switching
  BY <1>1, OverSwitching
<1>6. PICK i \in {1, 2} : Where(c, i) = a
  BY <1>1, OverSwitching
<1>7. HearInv'
  <2>1. CASE a \in {"subscribe", "unsubscribe"} /\ UNCHANGED << refcount, subscribed, unheard >>
    BY <1>1, <1>5, <2>1, HearingKept DEF IInv, Switching
  <2>2. CASE /\ a = "unsubscribe" /\ Head(notifyQueue) = c
             /\ refcount' = refcount - 1 /\ UNCHANGED << subscribed, unheard >>
    <3>1. NobodyElseSwitches(c)
      BY <2>2, AloneAtLock DEF IInv
    <3>2. \A j \in {1, 2} : Where(c, j) # "notifying"
      BY <1>5, <2>2 DEF Switching
    <3>3. IsOpen(Where(c, i), "events") /\ "events" \in Kinds
      BY <1>6, <2>2 DEF IsOpen, Kinds
    <3>4. unheard \/ subscribed
      BY <3>1, <3>2, <3>3, OpenIsHeard DEF IInv
    <3> QED
      BY <1>1, <1>5, <2>2, <3>1, <3>4, HearingAlone
  <2>3. CASE a = "notifying" /\ unheard'
    <3>1. NobodyElseSwitches(c)
      BY <1>6, <2>3, AloneIfSwitching DEF IInv, Switching
    <3> QED
      BY <1>1, <1>5, <2>3, <3>1, HearingAlone
  <2>4. CASE a = "stopnotify" /\ UNCHANGED refcount
    <3>1. NobodyElseSwitches(c) /\ refcount = 0
      BY <1>6, <2>4, AloneIfSwitching DEF IInv, HearInv, Switching
    <3> QED
      BY <1>1, <1>5, <2>4, <3>1, HearingAlone
  <2> QED
    BY <2>1, <2>2, <2>3, <2>4
<1> QED
  BY <1>1, <1>2, <1>3, <1>4, <1>7 DEF IInv, Settled

LEMMA NotifyFailsStep ==
  ASSUME IInv, NEW c \in Calls, NotifyFails(c), UNCHANGED program
  PROVE  IInv'
<1>1. /\ At(c, "notifying") \/ At(c, "stopnotify")
      /\ Ends(c, "error")
      /\ subscribed' \in {subscribed, At(c, "notifying")}
      /\ unheard' = (unheard \/ At(c, "notifying"))
      /\ UNCHANGED << rlock, cancels, requestId, requestCounter, event, refcount,
                      inbox, executing >>
  BY DEF NotifyFails, NotifyEnds, ids, robot
<1>2. Sound
  <2>1. At(c, "notifying") \in BOOLEAN
    BY DEF At
  <2>2. subscribed' \in BOOLEAN
    BY <1>1, <2>1 DEF IInv, Plain
  <2>3. unheard' \in BOOLEAN
    BY <1>1
  <2> QED
    BY <1>1, <2>2, <2>3, SoundIfKept
<1> QED
  BY <1>1, <1>2, EndStep DEF Results

LEMMA EnterLockStep ==
  ASSUME IInv, NEW c \in Calls, EnterLock(c), UNCHANGED program
  PROVE  IInv'
<1> DEFINE at == IF Long(Top(c).rpc) THEN "long" ELSE "write"
           f == [Top(c) EXCEPT !.at = at]
<1>1. /\ At(c, "lock") /\ notifyQueue = << >> /\ Acquire(c) /\ GoesOn(c, f) /\ refcount' = refcount + 1
      /\ UNCHANGED << cancels, requestId, requestCounter, event, subscribed,
                      unheard, inbox, memory, executing >>
  BY DEF EnterLock, ids, robot
<1>2. Sound
  BY <1>1, SoundIfKept, BooleansKept
<1>3. Innermost(f) /\ f.at = at /\ f.rpc = Top(c).rpc
  <2>1. IsFrame(Top(c)) /\ at \in Ats
    BY <1>1, AtWhere DEF IInv, Innermost, Ats
  <2>2. IsFrame(f) /\ f.at = at /\ f.rpc = Top(c).rpc
    <3> HIDE DEF at
    <3> QED
      BY <2>1, FrameAt
  <2> QED
    BY <2>2 DEF Innermost
<1>4. at \in {"long", "write"}
  OBVIOUS
<1> HIDE DEF f, at
<1>5. Settled /\ Turns(c, "lock", at) /\ UNCHANGED outcome
  BY <1>1, <1>2, <1>3, GoesOnSettles DEF Ats
<1>6. LockInv'
  <2>1. Held(c)' = Held(c) + 1 /\ Locking(c) /\ ~Locking(c)' /\ OthersStay(c)
    BY <1>4, <1>5, TurnsHeld, HeldIsNat DEF One, Exchanging
  <2> QED
    BY <1>1, <2>1, LockTaken DEF IInv
<1>7. SessionInv'
  <2>1. \A l \in Kinds : IsOpen(at, l) => IsOpen("lock", l) \/ l = "response"
    BY DEF IsOpen, Exchanging, Kinds
  <2> QED
    BY <1>1, <1>5, <2>1, TurnsOpensSession DEF IInv, Kinds
<1>8. KeyInv'
  BY <1>1, <1>5, KeysUnchanged
<1>9. HearInv'
  <2>1. /\ \A i \in {1, 2} : Where(c, i) \notin Switching /\ Where(c, i)' \notin Switching
        /\ OthersStay(c)
    BY <1>4, <1>5, TurnsSwitching DEF Turns, Switching
  <2>2. PICK i \in {1, 2} : Where(c, i) = "lock"
    BY <1>5, TurnsSwitching
  <2>3. NobodyElseSwitches(c)
    BY <1>1, AloneAtLock DEF IInv
  <2>4. IsOpen(Where(c, i), "events") /\ "events" \in Kinds
    BY <2>2 DEF IsOpen, Kinds
  <2>5. unheard \/ subscribed
    BY <2>1, <2>3, <2>4, OpenIsHeard DEF IInv, Switching
  <2> QED
    BY <1>1, <2>1, <2>3, <2>5, HearingAlone
<1> QED
  BY <1>5, <1>6, <1>7, <1>8, <1>9 DEF IInv, Settled

\* What is written is a request of a call that has begun.
LEMMA RequestIsBegun ==
  ASSUME IInv, NEW c \in Calls, frames[c] # << >>
  PROVE  Request(c) \in Queries /\ Request(c).by = c /\ Begun(c)
<1>1. IsFrame(Top(c)) /\ IsFrame(frames[c][1])
  BY Shape, TupleWhere DEF IInv, Innermost, Around
<1>2. Top(c).rpc \in DOMAIN Requests /\ frames[c][1].step \in 0 .. WriteChunks + 2
  BY <1>1 DEF IsFrame, FrameOK
<1>3. requestId[c] \in Nat
  BY DEF IInv, KeyInv
<1>4. outcome[c] = "running"
  <2>1. At(c, Top(c).at) /\ Top(c).at # "none"
    BY <1>1 DEF At, IsFrame, FrameOK, Ats
  <2>2. Where(c, 1) # "none"
    BY <2>1, AtWhere DEF IInv, Nests
  <2> QED
    BY <2>2 DEF IInv, Plain
<1>5. Begun(c)
  BY <1>4 DEF IInv, KeyInv, Begun
<1>6. PICK key \in Nat, step \in Nat :
        Request(c) = [rpc |-> Top(c).rpc, key |-> key, by |-> c, step |-> step]
  <2>1. (IF Requests[Top(c).rpc].keyed THEN requestId[c] ELSE 0) \in Nat
    BY <1>3
  <2>2. (IF frames[c][1].at = "long" THEN frames[c][1].step + 1 ELSE 0) \in Nat
    BY <1>2, BoundsAssumption
  <2> QED
    BY <2>1, <2>2, Zenon DEF Request
<1> QED
  BY <1>2, <1>5, <1>6 DEF Queries

LEMMA KeysWithRequest ==
  ASSUME IInv, NEW c \in Calls, frames[c] # << >>, inbox' = Append(inbox, Request(c)),
         UNCHANGED << outcome, requestId, requestCounter, executing >>
  PROVE  KeyInv'
<1>1. Request(c) \in Queries /\ Request(c).by = c /\ Begun(c)
  BY RequestIsBegun
<1>2. inbox \in Seq(Queries)
  BY DEF IInv, KeyInv
<1>3. /\ inbox' \in Seq(Queries)
      /\ \A i \in DOMAIN inbox' : inbox'[i] = Request(c) \/ (i \in DOMAIN inbox /\ inbox'[i] = inbox[i])
  BY <1>1, <1>2
<1>4. \A i \in DOMAIN inbox' : Begun(inbox'[i].by)
  BY <1>1, <1>3 DEF IInv, KeyInv
<1> QED
  BY <1>3, <1>4 DEF IInv, KeyInv, Begun

\* A step that keeps the lock as it is, and opens or closes no session.
LEMMA TurnStep ==
  ASSUME IInv, Sound, NEW c \in Calls, NEW a \in Ats, At(c, a),
         NEW f, Innermost(f), f.rpc = Top(c).rpc, GoesOn(c, f),
         UNCHANGED << rlock, refcount, subscribed, unheard >>, One(a) = One(f.at),
         a \notin Switching \cup {"lock"}, f.at \notin Switching \cup {"lock"},
         \A k \in Kinds : IsOpen(f.at, k) => IsOpen(a, k)
  PROVE  Settled /\ LockInv' /\ SessionInv' /\ HearInv' /\ UNCHANGED outcome
<1>1. Settled /\ Turns(c, a, f.at) /\ QueueStep(c) /\ OthersStay(c) /\ UNCHANGED outcome
  BY GoesOnSettles DEF Turns
<1>2. LockInv'
  BY <1>1, TurnsKeepsLock DEF IInv
<1>3. SessionInv'
  BY <1>1, TurnsKeepsSessions DEF IInv
<1>4. HearInv'
  <2>1. \A i \in {1, 2} : Where(c, i) \notin Switching /\ Where(c, i)' \notin Switching
    BY <1>1, TurnsSwitching
  <2> QED
    BY <1>1, <2>1, HearingKept DEF IInv
<1> QED
  BY <1>1, <1>2, <1>3, <1>4

\* A step that gives the lock back, and, unless it is cancelled, the response
\* session.
LEMMA ReleaseStep ==
  ASSUME IInv, Sound, NEW c \in Calls, NEW a \in Exchanging, At(c, a),
         NEW f, Innermost(f), f.rpc = Top(c).rpc, f.at \in {"body", "unsubscribe"},
         GoesOn(c, f), Release,
         \/ UNCHANGED refcount
         \/ notifyQueue = << >> /\ refcount' = refcount - 1,
         UNCHANGED << subscribed, unheard, requestId, requestCounter, inbox, executing >>
  PROVE  IInv'
<1>1. Settled /\ Turns(c, a, f.at) /\ QueueStep(c) /\ OthersStay(c) /\ UNCHANGED outcome
  BY GoesOnSettles DEF Exchanging, Ats, Turns
<1>2. LockInv'
  <2>1. Held(c)' = Held(c) - 1 /\ Held(c) # 0 /\ ~Locking(c) /\ ~Locking(c)' /\ OthersStay(c)
    BY <1>1, TurnsHeld, HeldIsNat DEF One, Exchanging
  <2> QED
    BY <2>1, LockReleased DEF IInv
<1>3. IsOpen(a, "response") /\ "response" \in Kinds
  BY DEF IsOpen, Kinds
<1>4. SessionInv'
  <2>1. \A l \in Kinds : IsOpen(f.at, l) => IsOpen(a, l) /\ l # "response"
    BY DEF IsOpen, Kinds, Exchanging
  <2>2. CASE refcount' = refcount
    BY <1>1, <2>1, <2>2, TurnsKeepsSessions DEF IInv
  <2>3. CASE refcount' = refcount - 1
    BY <1>1, <1>3, <2>1, <2>3, TurnsClosesSession DEF IInv
  <2> QED
    BY <2>2, <2>3
<1>5. KeyInv'
  BY <1>1, KeysUnchanged
<1>6. HearInv'
  <2>1. \A i \in {1, 2} : Where(c, i) \notin Switching /\ Where(c, i)' \notin Switching
    BY <1>1, TurnsSwitching DEF Exchanging, Switching
  <2>2. CASE UNCHANGED refcount
    BY <1>1, <2>1, <2>2, HearingKept DEF IInv
  <2>3. CASE notifyQueue = << >> /\ refcount' = refcount - 1
    <3>1. PICK i \in {1, 2} : Where(c, i) = a
      BY <1>1, TurnsSwitching
    <3>2. NobodyElseSwitches(c)
      BY <2>3, AloneAtLock DEF IInv
    <3>3. unheard \/ subscribed
      BY <1>3, <2>1, <3>1, <3>2, OpenIsHeard DEF IInv, Switching
    <3> QED
      BY <1>1, <2>1, <3>2, <3>3, HearingAlone
  <2> QED
    BY <2>2, <2>3
<1> QED
  BY <1>1, <1>2, <1>4, <1>5, <1>6 DEF IInv, Settled

LEMMA WriteStep ==
  ASSUME IInv, NEW c \in Calls, Write(c), UNCHANGED program
  PROVE  IInv'
<1> DEFINE f == [Top(c) EXCEPT !.at = "read"]
<1>1. /\ At(c, "write") /\ GoesOn(c, f) /\ inbox' = Append(inbox, Request(c))
      /\ UNCHANGED << cancels, requestId, requestCounter, event, rlock, refcount, subscribed,
                      unheard, executing >>
  BY DEF Write, ids, sessions
<1>2. Sound
  BY <1>1, SoundIfKept, BooleansKept
<1>3. Innermost(f) /\ f.at = "read" /\ f.rpc = Top(c).rpc /\ frames[c] # << >>
  BY <1>1, AtWhere, InnermostAt DEF IInv, Plainly, Ats
<1> HIDE DEF f
<1>4. Settled /\ LockInv' /\ SessionInv' /\ HearInv' /\ UNCHANGED outcome
  BY <1>1, <1>2, <1>3, TurnStep DEF Ats, One, Exchanging, IsOpen, Switching
<1>5. KeyInv'
  BY <1>1, <1>3, <1>4, KeysWithRequest
<1> QED
  BY <1>4, <1>5 DEF IInv, Settled

\* An RPC fails or is cancelled while it exchanges: it is to give back what it has.
LEMMA AbortingStep ==
  ASSUME IInv, Sound, NEW c \in Calls, NEW a \in {"write", "read", "long"}, At(c, a),
         NEW r \in Results, GoesOn(c, [Top(c) EXCEPT !.at = "abort", !.result = r]),
         UNCHANGED << rlock, refcount, subscribed, unheard, requestId, requestCounter, executing >>,
         inbox' = inbox \/ inbox' = Append(inbox, Request(c))
  PROVE  IInv'
<1> DEFINE f == [Top(c) EXCEPT !.at = "abort", !.result = r]
<1>1. Innermost(f) /\ f.at = "abort" /\ f.rpc = Top(c).rpc /\ frames[c] # << >>
  <2>1. Innermost(Top(c)) /\ frames[c] # << >> /\ "abort" \in Plainly
    BY AtWhere DEF IInv, Plainly, Ats
  <2>2. \A g : Innermost(g) =>
          LET h == [g EXCEPT !.at = "abort", !.result = r]
          IN  Innermost(h) /\ h.at = "abort" /\ h.rpc = g.rpc
    BY <2>1, InnermostAtWith
  <2> QED
    BY <2>1, <2>2, Zenon
<1>2. GoesOn(c, f)
  OBVIOUS
<1> HIDE DEF f
<1>3. Settled /\ LockInv' /\ SessionInv' /\ HearInv' /\ UNCHANGED outcome
  BY <1>1, <1>2, TurnStep DEF Ats, One, Exchanging, IsOpen, Switching
<1>4. KeyInv'
  BY <1>1, <1>3, KeysWithRequest, KeysUnchanged
<1> QED
  BY <1>3, <1>4 DEF IInv, Settled

LEMMA WriteFailsStep ==
  ASSUME IInv, NEW c \in Calls, WriteFails(c), UNCHANGED program
  PROVE  IInv'
<1>1. /\ At(c, "write") /\ GoesOn(c, [Top(c) EXCEPT !.at = "abort", !.result = "error"])
      /\ UNCHANGED << cancels, requestId, requestCounter, event, rlock, refcount, subscribed,
                      unheard, inbox, executing >>
  BY DEF WriteFails, ids, sessions, robot
<1>2. Sound
  BY <1>1, SoundIfKept, BooleansKept
<1> QED
  BY <1>1, <1>2, AbortingStep DEF Results

LEMMA ReadStep ==
  ASSUME IInv, NEW c \in Calls, Read(c), UNCHANGED program
  PROVE  IInv'
<1> DEFINE f == Answered(Top(c), Top(c).response)
<1>1. /\ At(c, "read") /\ notifyQueue = << >> /\ GoesOn(c, f) /\ Release
      /\ refcount' = refcount - 1
      /\ UNCHANGED << cancels, requestId, requestCounter, event, subscribed, unheard,
                      inbox, executing >>
  BY DEF Read, ids, robot
<1>2. Sound
  BY <1>1, SoundIfKept, BooleansKept
<1>3. Innermost(f) /\ f.at \in {"body", "unsubscribe"} /\ f.rpc = Top(c).rpc
  <2>1. Innermost(Top(c))
    BY <1>1, AtWhere DEF IInv
  <2>2. Top(c).response = NoMessage \/ Top(c).response.rpc = Top(c).rpc
    BY <2>1 DEF Innermost, IsFrame, FrameOK
  <2> QED
    BY <2>1, <2>2, AnsweredFrame
<1> HIDE DEF f
<1> QED
  BY <1>1, <1>2, <1>3, ReleaseStep DEF Exchanging

LEMMA AbortStep ==
  ASSUME IInv, NEW c \in Calls, Abort(c), UNCHANGED program
  PROVE  IInv'
<1> DEFINE f == [Top(c) EXCEPT !.at = "unsubscribe"]
<1>1. /\ At(c, "abort") /\ notifyQueue = << >> /\ GoesOn(c, f) /\ Release
      /\ refcount' = refcount - 1
      /\ UNCHANGED << cancels, requestId, requestCounter, event, subscribed, unheard,
                      inbox, executing >>
  BY DEF Abort, ids, robot
<1>2. Sound
  BY <1>1, SoundIfKept, BooleansKept
<1>3. Innermost(f) /\ f.at = "unsubscribe" /\ f.rpc = Top(c).rpc
  BY <1>1, AtWhere, InnermostAt DEF IInv, Plainly, Ats
<1> HIDE DEF f
<1> QED
  BY <1>1, <1>2, <1>3, ReleaseStep DEF Exchanging

LEMMA ResultOfTop ==
  ASSUME IInv, NEW c \in Calls, NEW a, At(c, a)
  PROVE  Top(c).result \in Results
BY AtWhere DEF IInv, Innermost, IsFrame, FrameOK, Results

LEMMA UnsubscribeStep ==
  ASSUME IInv, NEW c \in Calls, Unsubscribe(c), UNCHANGED program
  PROVE  IInv'
<1>1. /\ At(c, "unsubscribe") /\ Head(notifyQueue) = c /\ refcount' = refcount - 1
      /\ UNCHANGED << cancels, requestId, requestCounter, event, rlock, subscribed, unheard,
                      inbox, executing >>
  BY DEF Unsubscribe, ids, robot
<1>2. Sound
  BY <1>1, SoundIfKept, BooleansKept
<1>5. Where(c, 1) = "unsubscribe" \/ Where(c, 2) = "unsubscribe"
  BY <1>1, AtWhere DEF IInv
<1>6. notifyQueue # << >>
  <2>1. c \in Range(notifyQueue)
    BY <1>5 DEF IInv, NotifyInv, Queues
  <2> QED
    BY <2>1 DEF Range
<1>7. NobodyElseSwitches(c)
  BY <1>1, AloneAtLock DEF IInv
<1>8. refcount > 0
  <2>1. PICK i \in {1, 2} : Where(c, i) = "unsubscribe"
    BY <1>5
  <2>2. IsOpen(Where(c, i), "events") /\ "events" \in Kinds
    BY <2>1 DEF IsOpen, Kinds
  <2> QED
    BY <2>2, OpenIsCounted DEF IInv
<1>3. CASE refcount - 1 < 1
  <2> DEFINE f == [Top(c) EXCEPT !.at = "stopnotify"]
  <2>1. SetTop(c, f) /\ UNCHANGED << outcome, loose, notifyQueue >>
    BY <1>3 DEF Unsubscribe
  <2>2. Innermost(f) /\ f.at = "stopnotify" /\ f.rpc = Top(c).rpc
    BY <1>1, AtWhere, InnermostAt DEF IInv, Plainly, Ats
  <2> HIDE DEF f
  <2>3. Stacks' /\ Turns(c, "unsubscribe", "stopnotify")
    BY <1>1, <2>1, <2>2, GoesOnTurns DEF IInv
  <2>4. OthersStay(c) /\ Where(c, 1) # "none" /\ Where(c, 1)' # "none"
    BY <2>3 DEF Turns, Nests
  <2>5. Plain'
    BY <1>2, <2>1, <2>4, PlainKept DEF IInv, Sound
  <2>6. LockInv'
    BY <1>1, <2>3, TurnsKeepsLock DEF IInv, One, Exchanging
  <2>7. NotifyInv'
    <3>1. (Queues(c)' => Queues(c)) /\ (Notifies(c) => Notifies(c)')
      BY <2>3 DEF Turns, Alone, Nests, Queues, Notifies
    <3> QED
      BY <2>1, <2>4, <3>1, NotifyKept DEF IInv
  <2>8. SessionInv'
    <3>1. /\ IsOpen("unsubscribe", "events") /\ "events" \in Kinds
          /\ \A l \in Kinds : IsOpen("stopnotify", l) => IsOpen("unsubscribe", l) /\ l # "events"
      BY DEF IsOpen, Exchanging, Kinds
    <3> QED
      BY <1>1, <2>3, <3>1, TurnsClosesSession DEF IInv
  <2>9. KeyInv'
    BY <1>1, <2>1, KeysUnchanged
  <2>10. HearInv'
    <3>1. refcount' = 0
      BY <1>1, <1>3, <1>8 DEF IInv, SessionInv
    <3>2. PICK i \in {1, 2} : /\ Where(c, i)' = "stopnotify"
                             /\ \A j \in {1, 2} : j # i => Where(c, j)' \notin Switching
      BY <2>3, TurnsSwitching
    <3> QED
      BY <1>1, <1>6, <1>7, <2>1, <2>4, <3>1, <3>2, HearingSwitches
  <2> QED
    BY <2>3, <2>5, <2>6, <2>7, <2>8, <2>9, <2>10 DEF IInv
<1>4. CASE ~(refcount - 1 < 1)
  <2>1. Ends(c, Top(c).result)
    BY <1>4 DEF Unsubscribe
  <2> QED
    BY <1>1, <1>2, <2>1, ResultOfTop, EndStep
<1> QED
  BY <1>3, <1>4

LEMMA StopNotifyStep ==
  ASSUME IInv, NEW c \in Calls, StopNotify(c), UNCHANGED program
  PROVE  IInv'
<1>1. /\ At(c, "stopnotify") /\ Ends(c, Top(c).result) /\ subscribed' = FALSE
      /\ UNCHANGED << rlock, cancels, requestId, requestCounter, event, refcount, unheard,
                      inbox, executing >>
  BY DEF StopNotify, ids, robot
<1>2. Sound
  BY <1>1, SoundIfKept, BooleansKept
<1> QED
  BY <1>1, <1>2, ResultOfTop, EndStep

-----------------------------------------------------------------------------
(* The steps of _long_rpc and of the body of a motion.                     *)

LEMMA PushStep ==
  ASSUME IInv, Sound, NEW c \in Calls, NEW a \in {"long", "body"}, At(c, a),
         NEW f, Around(f), f.at = (IF a = "long" THEN "long" ELSE "stopping"),
         NEW inner \in NestedRpcs, Push(c, f, inner), notifyQueue' = Append(notifyQueue, c),
         UNCHANGED << outcome, loose, rlock, refcount, subscribed, unheard, requestId, requestCounter,
                      inbox, executing >>
  PROVE  IInv'
<1>1. Settled /\ NestsAt(c, a, f.at) /\ QueueStep(c) /\ OthersStay(c)
  BY PushSettles DEF NestsAt
<1>2. LockInv'
  BY <1>1, NestsKeepsLock DEF IInv
<1>3. SessionInv'
  BY <1>1, NestsKeepsSessions DEF IInv
<1>4. KeyInv'
  BY KeysUnchanged
<1>5. HearInv'
  <2>1. \A i \in {1, 2} : Where(c, i) \notin Switching /\ Where(c, i)' \notin Switching
    BY <1>1, NestsSwitching DEF Switching
  <2> QED
    BY <1>1, <2>1, HearingKept DEF IInv
<1> QED
  BY <1>1, <1>2, <1>3, <1>4, <1>5 DEF IInv, Settled

LEMMA LongNextStep ==
  ASSUME IInv, NEW c \in Calls, LongNext(c), UNCHANGED program
  PROVE  IInv'
<1>1. /\ At(c, "long") /\ Top(c).step < WriteChunks + 2
      /\ Push(c, Top(c), Nested(Top(c).step)) /\ notifyQueue' = Append(notifyQueue, c)
      /\ UNCHANGED << outcome, loose, cancels, event, rlock, refcount, subscribed, unheard,
                      requestId, requestCounter, inbox, executing >>
  BY DEF LongNext, task, ids, sessions, robot
<1>2. Sound
  BY <1>1, SoundIfKept, BooleansKept
<1>3. Around(Top(c)) /\ Top(c).at = "long"
  BY <1>1, AtWhere DEF IInv, Innermost, Around
<1>4. Nested(Top(c).step) \in NestedRpcs
  BY DEF Nested, NestedRpcs
<1> QED
  BY <1>1, <1>2, <1>3, <1>4, PushStep

LEMMA LongEndsStep ==
  ASSUME IInv, NEW c \in Calls, LongEnds(c), UNCHANGED program
  PROVE  IInv'
<1>1. /\ At(c, "long") /\ notifyQueue = << >>
      /\ UNCHANGED << cancels, event, subscribed, unheard, requestId, requestCounter,
                      inbox, executing >>
  BY DEF LongEnds, ids, robot
<1>2. Sound
  BY <1>1, SoundIfKept, BooleansKept
<1> DEFINE m == [NoMessage EXCEPT !.rpc = Top(c).rpc, !.by = Top(c).data[1], !.ok = Top(c).data[2]]
<1>3. CASE Top(c).data = Top(c).crc
  <2> DEFINE f == Answered(Top(c), m)
  <2>1. GoesOn(c, f) /\ Release /\ refcount' = refcount - 1
    BY <1>3 DEF LongEnds
  <2>2. m.rpc = Top(c).rpc
    BY DEF NoMessage
  <2>3. Innermost(Top(c))
    BY <1>1, AtWhere DEF IInv
  <2> HIDE DEF m
  <2>4. Innermost(f) /\ f.at \in {"body", "unsubscribe"} /\ f.rpc = Top(c).rpc
    BY <2>2, <2>3, AnsweredFrame
  <2> HIDE DEF f
  <2> QED
    BY <1>1, <1>2, <2>1, <2>4, ReleaseStep DEF Exchanging
<1>4. CASE Top(c).data # Top(c).crc
  <2>1. /\ GoesOn(c, [Top(c) EXCEPT !.at = "abort", !.result = "error"])
        /\ UNCHANGED << rlock, refcount >>
    BY <1>4 DEF LongEnds
  <2> QED
    BY <1>1, <1>2, <2>1, AbortingStep DEF Results
<1> QED
  BY <1>3, <1>4

LEMMA BodyReturnsStep ==
  ASSUME IInv, NEW c \in Calls, BodyReturns(c), UNCHANGED program
  PROVE  IInv'
<1> DEFINE f == [Top(c) EXCEPT !.at = "unsubscribe"]
<1>1. /\ At(c, "body") /\ GoesOn(c, f)
      /\ UNCHANGED << cancels, requestId, requestCounter, event, rlock, refcount, subscribed,
                      unheard, inbox, executing >>
  BY DEF BodyReturns, ids, sessions, robot
<1>2. Sound
  BY <1>1, SoundIfKept, BooleansKept
<1>3. Innermost(f) /\ f.at = "unsubscribe" /\ f.rpc = Top(c).rpc
  BY <1>1, AtWhere, InnermostAt DEF IInv, Plainly, Ats
<1> HIDE DEF f
<1>4. Settled /\ LockInv' /\ SessionInv' /\ HearInv' /\ UNCHANGED outcome
  BY <1>1, <1>2, <1>3, TurnStep DEF Ats, One, Exchanging, IsOpen, Switching
<1>5. KeyInv'
  BY <1>1, <1>4, KeysUnchanged
<1> QED
  BY <1>4, <1>5 DEF IInv, Settled

\* _cancellation sends StopExecution, however the body is left.
LEMMA StopStep ==
  ASSUME IInv, Sound, NEW c \in Calls, At(c, "body"), NEW result \in Results, Stop(c, result),
         UNCHANGED << owner, counter, refcount, subscribed, unheard, requestId, requestCounter,
                      inbox, executing >>
  PROVE  IInv'
<1> DEFINE f == [Top(c) EXCEPT !.at = "stopping", !.result = result]
<1>1. /\ Push(c, f, "StopExecution") /\ notifyQueue' = Append(notifyQueue, c)
      /\ UNCHANGED << outcome, loose, lockQueue >>
  BY DEF Stop
<1>2. Around(f) /\ f.at = "stopping"
  <2>1. IsFrame(Top(c)) /\ "stopping" \in Ats
    BY AtWhere DEF IInv, Innermost, Ats
  <2>2. IsFrame(f) /\ f.at = "stopping"
    <3>1. \A g : IsFrame(g) =>
            LET h == [g EXCEPT !.at = "stopping", !.result = result]
            IN  IsFrame(h) /\ h.at = "stopping"
      BY <2>1 DEF IsFrame, FrameOK, Results
    <3> QED
      BY <2>1, <3>1, Zenon
  <2> QED
    BY <2>2 DEF Around
<1> HIDE DEF f
<1> QED
  BY <1>1, <1>2, PushStep DEF NestedRpcs, rlock

LEMMA BodyRaisesStep ==
  ASSUME IInv, NEW c \in Calls, BodyRaises(c), UNCHANGED program
  PROVE  IInv'
<1>1. /\ At(c, "body") /\ Stop(c, "error")
      /\ UNCHANGED << cancels, requestId, requestCounter, event, owner, counter, refcount,
                      subscribed, unheard, inbox, executing >>
  BY DEF BodyRaises, ids, sessions, robot
<1>2. Sound
  BY <1>1, SoundIfKept, BooleansKept
<1> QED
  BY <1>1, <1>2, StopStep DEF Results

-----------------------------------------------------------------------------
(* Task.cancel().                                                          *)

LEMMA CancelStep ==
  ASSUME IInv, NEW c \in Calls, Cancel(c), UNCHANGED program
  PROVE  IInv'
<1>1. cancels' = [cancels EXCEPT ![c] = cancels[c] + 1] /\ UNCHANGED << requestId, requestCounter, event >>
  BY DEF Cancel
<1>2. cancels' \in [Calls -> Nat]
  BY <1>1 DEF IInv, Plain
<1>3. subscribed \in BOOLEAN /\ unheard \in BOOLEAN
  BY BooleansKept
<1>4. CASE CancelWaiting(c)
  <2>1. /\ At(c, "subscribe") \/ At(c, "unsubscribe")
        /\ Ends(c, "cancelled")
        /\ UNCHANGED << rlock, refcount, subscribed, unheard, inbox, executing >>
    BY <1>4 DEF CancelWaiting, sessions, robot
  <2>2. Sound
    BY <1>1, <1>2, <1>3, <2>1 DEF Sound
  <2> QED
    BY <1>1, <2>1, <2>2, EndStep DEF Results
<1>5. CASE CancelNotify(c)
  <2>1. /\ At(c, "notifying") \/ At(c, "stopnotify")
        /\ Ends(c, "cancelled")
        /\ subscribed' \in {subscribed, At(c, "notifying")}
        /\ unheard' = (unheard \/ At(c, "notifying"))
        /\ UNCHANGED << rlock, refcount, inbox, executing >>
    BY <1>5 DEF CancelNotify, NotifyEnds, robot
  <2>2. At(c, "notifying") \in BOOLEAN
    BY DEF At
  <2>3. subscribed' \in BOOLEAN
    BY <1>3, <2>1, <2>2
  <2>4. unheard' \in BOOLEAN
    BY <2>1
  <2>5. Sound
    BY <1>1, <1>2, <2>3, <2>4 DEF Sound
  <2> QED
    BY <1>1, <2>1, <2>5, EndStep DEF Results
<1>6. CASE CancelLock(c)
  <2> DEFINE f == [Top(c) EXCEPT !.at = "unsubscribe", !.result = "cancelled"]
  <2>1. /\ At(c, "lock") /\ ~Reenters(c) /\ Head(lockQueue) # c
        /\ lockQueue' = Leaves(lockQueue, c) /\ GoesOn(c, f)
        /\ UNCHANGED << owner, counter, refcount, subscribed, unheard, inbox, executing >>
    BY <1>6 DEF CancelLock, sessions, robot
  <2>2. Sound
    BY <1>1, <1>2, <1>3, <2>1 DEF Sound
  <2>3. Innermost(f) /\ f.at = "unsubscribe" /\ f.rpc = Top(c).rpc
    BY <2>1, AtWhere, InnermostAtWith DEF IInv, Plainly, Ats, Results
  <2> HIDE DEF f
  <2>4. Settled /\ Turns(c, "lock", "unsubscribe") /\ QueueStep(c) /\ UNCHANGED outcome
    BY <2>1, <2>2, <2>3, GoesOnSettles DEF Ats
  <2>5. LockInv'
    <3>1. Held(c)' = Held(c) /\ ~Locking(c)' /\ OthersStay(c)
      BY <2>4, TurnsHeld, HeldIsNat DEF One, Exchanging
    <3> QED
      BY <2>1, <3>1, LockGivenUp DEF IInv
  <2>6. SessionInv'
    <3>1. \A l \in Kinds : IsOpen("unsubscribe", l) => IsOpen("lock", l)
      BY DEF IsOpen, Exchanging, Kinds
    <3> QED
      BY <2>1, <2>4, <3>1, TurnsKeepsSessions DEF IInv
  <2>7. KeyInv'
    BY <1>1, <2>1, <2>4, KeysUnchanged
  <2>8. HearInv'
    <3>1. /\ \A i \in {1, 2} : Where(c, i) \notin Switching /\ Where(c, i)' \notin Switching
          /\ OthersStay(c)
      BY <2>4, TurnsSwitching DEF Turns, Switching
    <3> QED
      BY <2>1, <2>4, <3>1, HearingKept DEF IInv
  <2> QED
    BY <2>4, <2>5, <2>6, <2>7, <2>8 DEF IInv, Settled
<1>7. CASE CancelExchange(c)
  <2>1. /\ At(c, "write") \/ At(c, "read")
        /\ GoesOn(c, [Top(c) EXCEPT !.at = "abort", !.result = "cancelled"])
        /\ inbox' = inbox \/ inbox' = Append(inbox, Request(c))
        /\ UNCHANGED << rlock, refcount, subscribed, unheard, executing >>
    BY <1>7 DEF CancelExchange, sessions
  <2>2. Sound
    BY <1>1, <1>2, <1>3, <2>1 DEF Sound
  <2> QED
    BY <1>1, <2>1, <2>2, AbortingStep DEF Results
<1>8. CASE CancelAbort(c)
  <2> DEFINE f == [Top(c) EXCEPT !.at = "unsubscribe", !.result = "cancelled"]
  <2>1. /\ At(c, "abort") /\ Release /\ GoesOn(c, f)
        /\ UNCHANGED << refcount, subscribed, unheard, inbox, executing >>
    BY <1>8 DEF CancelAbort, sessions, robot
  <2>2. Sound
    BY <1>1, <1>2, <1>3, <2>1 DEF Sound
  <2>3. Innermost(f) /\ f.at = "unsubscribe" /\ f.rpc = Top(c).rpc
    BY <2>1, AtWhere, InnermostAtWith DEF IInv, Plainly, Ats, Results
  <2> HIDE DEF f
  <2> QED
    BY <1>1, <2>1, <2>2, <2>3, ReleaseStep DEF Exchanging
<1>9. CASE CancelBody(c)
  <2>1. /\ At(c, "body") /\ Stop(c, "cancelled")
        /\ UNCHANGED << owner, counter, refcount, subscribed, unheard, inbox, executing >>
    BY <1>9 DEF CancelBody, sessions, robot
  <2>2. Sound
    BY <1>1, <1>2, <1>3, <2>1 DEF Sound
  <2> QED
    BY <1>1, <2>1, <2>2, StopStep DEF Results
<1> QED
  BY <1>4, <1>5, <1>6, <1>7, <1>8, <1>9 DEF Cancel

-----------------------------------------------------------------------------
(* The robot.                                                              *)

\* A response does not move the RPC that receives it.
LEMMA ReceivedStays ==
  ASSUME Stacks, NEW m, Received(m)
  PROVE  Stacks' /\ \A c \in Calls, i \in {1, 2} : Where(c, i)' = Where(c, i)
<1>1. DOMAIN frames' = Calls
  BY Zenon DEF Received
<1>2. ASSUME NEW c \in Calls
      PROVE  StackOK(frames'[c]) /\ \A i \in {1, 2} : Where(c, i)' = Where(c, i)
  <2> DEFINE f == Top(c)
             g == [f EXCEPT !.response = m]
  <2>1. CASE frames'[c] = frames[c]
    BY <2>1 DEF Stacks, Where
  <2>2. CASE /\ frames'[c] = WithTop(frames[c], g)
             /\ frames[c] # << >> /\ m.rpc = f.rpc
    <3>1. Innermost(f)
      BY <2>2, Shape
    <3> HIDE DEF f
    <3>2. Innermost(g) /\ g.at = f.at /\ g.rpc = f.rpc
      <4>1. IsFrame(g) /\ g.at = f.at /\ g.rpc = f.rpc
        BY <2>2, <3>1 DEF Innermost, IsFrame, FrameOK
      <4> QED
        BY <3>1, <4>1 DEF Innermost
    <3> HIDE DEF g
    <3>3. CASE frames[c] = << f >>
      <4>1. frames'[c] = << g >>
        BY <2>2, <3>3, TopOfOne
      <4>2. StackOK(frames'[c])
        BY <3>2, <4>1 DEF StackOK
      <4>3. \A i \in {1, 2} : Where(c, i)' = Where(c, i)
        BY <3>2, <3>3, <4>1, TupleWhere DEF Where
      <4> QED
        BY <4>2, <4>3
    <3>4. CASE \E o : frames[c] = << o, f >> /\ Around(o) /\ f.rpc \in NestedRpcs
      <4>1. PICK o : frames[c] = << o, f >> /\ Around(o) /\ f.rpc \in NestedRpcs
        BY <3>4
      <4>2. frames'[c] = << o, g >>
        BY <2>2, <4>1, TopOfTwo
      <4>3. StackOK(frames'[c])
        BY <3>2, <4>1, <4>2, Zenon DEF StackOK
      <4>4. \A i \in {1, 2} : Where(c, i)' = Where(c, i)
        BY <3>2, <4>1, <4>2, TupleWhere DEF Where
      <4> QED
        BY <4>3, <4>4
    <3> QED
      BY <2>2, <3>3, <3>4, Shape DEF f
  <2>3. \/ frames'[c] = frames[c]
        \/ /\ frames'[c] = WithTop(frames[c], g)
           /\ frames[c] # << >> /\ m.rpc = f.rpc
    BY Zenon DEF Received, IsResponseTo, At
  <2> QED
    BY <2>1, <2>2, <2>3
<1> QED
  BY <1>1, <1>2 DEF Stacks

\* What handling a request changes.
LEMMA HandleReceives ==
  ASSUME NEW q, NEW ok, Handle(q, ok)
  PROVE  (\E m : Received(m)) /\ executing' \subseteq executing \cup {q.by}
<1>1. CASE q.rpc = "StopExecution"
  BY <1>1 DEF Handle
<1>2. CASE q.rpc = "MemWrite" /\ q.step > 0
  BY <1>2 DEF Handle
<1>3. CASE q.rpc = "LongRPCExtensionExecute" /\ q.step > 0
  BY <1>3 DEF Handle
<1>4. CASE q.rpc = "MemRead" /\ q.step > 0
  BY <1>4 DEF Handle
<1>5. CASE /\ q.rpc # "StopExecution" /\ ~(q.rpc = "MemWrite" /\ q.step > 0)
           /\ ~(q.rpc = "LongRPCExtensionExecute" /\ q.step > 0)
           /\ ~(q.rpc = "MemRead" /\ q.step > 0)
  BY <1>5 DEF Handle
<1> QED
  BY <1>1, <1>2, <1>3, <1>4, <1>5

\* Nothing that depends on where the RPCs are changes if they stay.
LEMMA NobodyMoves ==
  ASSUME IInv, \A c \in Calls, i \in {1, 2} : Where(c, i)' = Where(c, i),
         UNCHANGED << program, outcome, cancels, loose, rlock, notifyQueue, refcount,
                      subscribed, unheard >>,
         event' \in [Calls -> {"none", "finished", "failed"}]
  PROVE  Plain' /\ LockInv' /\ NotifyInv' /\ SessionInv' /\ HearInv'
<1>1. \A c \in Calls : OthersStay(c) /\ Held(c)' = Held(c) /\ (Locking(c)' <=> Locking(c))
  BY DEF OthersStay, Held, Locking
<1>2. \A c \in Calls : (Queues(c)' <=> Queues(c)) /\ (Notifies(c)' <=> Notifies(c))
  BY DEF Queues, Notifies
<1>3. Plain'
  BY DEF IInv, Plain
<1>4. LockInv'
  BY <1>1 DEF IInv, LockInv, IsQueue, rlock
<1>5. NotifyInv'
  BY <1>2 DEF IInv, NotifyInv, IsQueue
<1>6. SessionInv'
  <2>1. OpenSessions' = OpenSessions
    BY DEF OpenSessions
  <2> QED
    BY <2>1 DEF IInv, SessionInv
<1>7. HearInv'
  BY DEF IInv, HearInv
<1> QED
  BY <1>3, <1>4, <1>5, <1>6, <1>7

LEMMA RobotHandlesStep ==
  ASSUME IInv, RobotHandles, UNCHANGED program
  PROVE  IInv'
<1>1. /\ inbox # << >> /\ inbox' = Tail(inbox)
      /\ UNCHANGED << outcome, cancels, loose, event, requestId, requestCounter, rlock,
                      notifyQueue, refcount, subscribed, unheard >>
  BY DEF RobotHandles, task, ids, ble, sessions
<1> DEFINE q == Head(inbox)
<1>2. PICK ok \in BOOLEAN : Handle(q, ok)
  BY DEF RobotHandles
<1>3. inbox \in Seq(Queries)
  BY DEF IInv, KeyInv
<1>4. /\ inbox' \in Seq(Queries) /\ q = inbox[1] /\ 1 \in DOMAIN inbox
      /\ \A i \in DOMAIN inbox' : i + 1 \in DOMAIN inbox /\ inbox'[i] = inbox[i + 1]
  BY <1>1, <1>3
<1>5. Begun(q.by) /\ q.by \in Calls
  BY <1>4 DEF IInv, KeyInv, Begun
<1> HIDE DEF q
<1>6. PICK m : Received(m)
  BY <1>2, HandleReceives
<1>7. executing' \subseteq executing \cup {q.by}
  BY <1>2, HandleReceives
<1>8. Stacks' /\ \A c \in Calls, i \in {1, 2} : Where(c, i)' = Where(c, i)
  BY <1>6, ReceivedStays DEF IInv
<1>9. event' \in [Calls -> {"none", "finished", "failed"}]
  BY <1>1 DEF IInv, Plain
<1>10. Plain' /\ LockInv' /\ NotifyInv' /\ SessionInv' /\ HearInv'
  BY <1>1, <1>8, <1>9, NobodyMoves
<1>11. KeyInv'
  <2>1. \A c : Begun(c) <=> Begun(c)'
    BY <1>1 DEF Begun
  <2>2. \A i \in DOMAIN inbox' : Begun(inbox'[i].by)
    BY <1>4 DEF IInv, KeyInv
  <2>3. executing' \subseteq Calls /\ \A c \in executing' : Begun(c)
    BY <1>5, <1>7 DEF IInv, KeyInv
  <2> QED
    BY <1>1, <1>4, <2>1, <2>2, <2>3 DEF IInv, KeyInv
<1> QED
  BY <1>8, <1>10, <1>11 DEF IInv

LEMMA RobotEndsStep ==
  ASSUME IInv, NEW c \in Calls, RobotEnds(c), UNCHANGED program
  PROVE  IInv'
<1>1. /\ executing' = executing \ {c}
      /\ UNCHANGED << frames, outcome, cancels, loose, requestId, requestCounter, rlock,
                      notifyQueue, refcount, subscribed, unheard, inbox >>
  BY DEF RobotEnds, ble, sessions
<1>2. event' \in [Calls -> {"none", "finished", "failed"}]
  <2>1. event \in [Calls -> {"none", "finished", "failed"}]
    BY DEF IInv, Plain
  <2>2. event' = event \/ \E e \in {"finished", "failed"} : event' = [event EXCEPT ![c] = e]
    BY Zenon DEF RobotEnds
  <2> QED
    BY <2>1, <2>2
<1>3. Stacks' /\ \A d \in Calls, i \in {1, 2} : Where(d, i)' = Where(d, i)
  BY <1>1 DEF IInv, Stacks, Where
<1>4. Plain' /\ LockInv' /\ NotifyInv' /\ SessionInv' /\ HearInv'
  BY <1>1, <1>2, <1>3, NobodyMoves
<1>5. KeyInv'
  BY <1>1 DEF IInv, KeyInv, Begun
<1> QED
  BY <1>3, <1>4, <1>5 DEF IInv

-----------------------------------------------------------------------------
(* The invariant.                                                          *)

LEMMA InitIInv ==
  ASSUME Init
  PROVE  IInv
<1>1. \A c \in Calls : frames[c] = << >> /\ Where(c, 1) = "none" /\ Where(c, 2) = "none"
  BY WhereNone DEF Init
<1>2. Stacks
  BY <1>1 DEF Init, Stacks, StackOK
<1>3. Plain
  BY <1>1, ProgramsAssumption DEF Init, Plain, Outcomes
<1>4. LockInv
  <2>1. \A c \in Calls : Held(c) = 0 /\ ~Locking(c)
    BY <1>1 DEF Held, Locking, Exchanging
  <2>2. IsQueue(lockQueue) /\ Range(lockQueue) = {}
    BY DEF Init, IsQueue, IsInjective, Range
  <2> QED
    BY <2>1, <2>2 DEF Init, LockInv
<1>5. NotifyInv
  <2>1. \A c \in Calls : ~Queues(c)
    BY <1>1 DEF Queues
  <2>2. IsQueue(notifyQueue) /\ Range(notifyQueue) = {}
    BY DEF Init, IsQueue, IsInjective, Range
  <2> QED
    BY <2>1, <2>2 DEF NotifyInv
<1>6. SessionInv
  <2>1. OpenSessions = {}
    BY <1>1 DEF OpenSessions, IsOpen, Exchanging
  <2> QED
    BY <2>1, FS_EmptySet DEF Init, SessionInv
<1>7. KeyInv
  BY BoundsAssumption DEF Init, KeyInv
<1>8. HearInv
  BY <1>1 DEF Init, HearInv, Switching
<1> QED
  BY <1>2, <1>3, <1>4, <1>5, <1>6, <1>7, <1>8 DEF IInv

LEMMA RunsStep ==
  ASSUME IInv, NEW c \in Calls, Runs(c), UNCHANGED program
  PROVE  IInv'
BY SubscribeStep, StartNotifyStep, EnterLockStep, WriteStep, ReadStep, AbortStep, UnsubscribeStep,
   StopNotifyStep, LongNextStep, LongEndsStep, BodyReturnsStep, BodyRaisesStep, Zenon DEF Runs

\* A step that changes nothing, by the variables.
LEMMA StutterStep ==
  ASSUME IInv, UNCHANGED vars
  PROVE  IInv'
<1>1. UNCHANGED << program, frames, outcome, cancels, requestId, requestCounter, event, loose,
                   lockQueue, owner, counter, notifyQueue, refcount, subscribed, unheard,
                   inbox, memory, executing >>
  BY DEF vars, task, ids, rlock, ble, sessions, robot
<1>2. Stacks' /\ \A d \in Calls, i \in {1, 2} : Where(d, i)' = Where(d, i)
  BY <1>1 DEF IInv, Stacks, Where
<1>3. Plain' /\ LockInv' /\ NotifyInv' /\ SessionInv' /\ HearInv'
  <2>1. UNCHANGED rlock /\ event' \in [Calls -> {"none", "finished", "failed"}]
    BY <1>1 DEF IInv, Plain, rlock
  <2> QED
    BY <1>1, <1>2, <2>1, NobodyMoves
<1>4. KeyInv'
  BY <1>1, KeysUnchanged
<1> QED
  BY <1>2, <1>3, <1>4 DEF IInv

LEMMA NextIInv ==
  ASSUME IInv, [Next]_vars
  PROVE  IInv'
<1>1. CASE Next
  <2>1. UNCHANGED program
    BY <1>1 DEF Next
  <2>2. CASE RobotHandles
    BY <2>1, <2>2, RobotHandlesStep
  <2>3. CASE \E c \in Calls : Runs(c)
    BY <2>1, <2>3, RunsStep
  <2>4. CASE \E c \in Calls : RobotEnds(c)
    BY <2>1, <2>4, RobotEndsStep
  <2>5. CASE \E c \in Calls : Call(c)
    BY <2>1, <2>5, CallStep
  <2>6. CASE \E c \in Calls : Fails(c)
    BY <2>1, <2>6, NotifyFailsStep, WriteFailsStep DEF Fails
  <2>7. CASE \E c \in Calls : Cancel(c)
    BY <2>1, <2>7, CancelStep
  <2> QED
    BY <1>1, <2>2, <2>3, <2>4, <2>5, <2>6, <2>7, Zenon DEF Next, Works
<1>2. CASE UNCHANGED vars
  BY <1>2, StutterStep
<1> QED
  BY <1>1, <1>2

LEMMA SpecIInv == Spec => []IInv
BY InitIInv, NextIInv, PTL DEF Spec

-----------------------------------------------------------------------------
(* What follows.                                                           *)

\* The lock is held for at most two RPCs.
LEMMA LockTwice ==
  ASSUME IInv
  PROVE  counter \in 0 .. 2
<1>1. CASE owner = NoCall
  BY <1>1 DEF IInv, LockInv
<1>2. CASE owner \in Calls
  <2>1. Held(owner) = counter
    BY <1>2 DEF IInv, LockInv
  <2> QED
    BY <2>1, HeldIsNat
<1> QED
  BY <1>1, <1>2 DEF IInv, LockInv

LEMMA StackFacts ==
  ASSUME IInv, NEW c \in Calls
  PROVE  /\ Len(frames[c]) <= 2
         /\ \A i \in DOMAIN frames[c] : FrameOK(frames[c][i])
         /\ frames[c] # << >> <=> Where(c, 1) # "none"
         /\ frames[c] # << >> /\ Waits(Top(c)) => Queues(c)
<1>1. CASE frames[c] = << >>
  BY <1>1, WhereNone
<1>2. CASE frames[c] # << >>
  <2>1. At(c, Top(c).at)
    BY <1>2 DEF At
  <2>2. Innermost(Top(c)) /\ Top(c).at # "none"
    BY <1>2, Shape DEF IInv, Innermost, IsFrame, FrameOK, Ats
  <2>3. Where(c, 1) # "none"
    BY <2>1, <2>2, AtWhere DEF IInv, Nests
  <2>4. Waits(Top(c)) => Queues(c)
    BY <2>1, AtWhere DEF IInv, Waits, Queues
  <2>5. CASE frames[c] = << Top(c) >>
    <3>1. FrameOK(Top(c))
      BY <2>2 DEF Innermost, IsFrame
    <3>2. \A i \in DOMAIN frames[c] : frames[c][i] = Top(c)
      BY <2>5, TupleWhere
    <3>3. Len(frames[c]) <= 2
      BY <2>5, TupleWhere
    <3> QED
      BY <1>2, <2>3, <2>4, <3>1, <3>2, <3>3
  <2>6. CASE \E o : frames[c] = << o, Top(c) >> /\ Around(o) /\ Top(c).rpc \in NestedRpcs
    <3>1. PICK o : frames[c] = << o, Top(c) >> /\ Around(o)
      BY <2>6
    <3>2. FrameOK(Top(c)) /\ FrameOK(o)
      BY <2>2, <3>1 DEF Innermost, Around, IsFrame
    <3>3. \A i \in DOMAIN frames[c] : frames[c][i] = Top(c) \/ frames[c][i] = o
      BY <3>1, TupleWhere
    <3>4. Len(frames[c]) <= 2
      BY <3>1, TupleWhere
    <3> QED
      BY <1>2, <2>3, <2>4, <3>2, <3>3, <3>4
  <2> QED
    BY <1>2, <2>5, <2>6, Shape DEF IInv
<1> QED
  BY <1>1, <1>2

LEMMA TypeFromIInv ==
  ASSUME IInv
  PROVE  RpcTypeOK
<1>1. \A c \in Calls : /\ Len(frames[c]) <= 2
                       /\ \A i \in DOMAIN frames[c] : FrameOK(frames[c][i])
                       /\ (outcome[c] = "running") = (frames[c] # << >>)
  BY StackFacts DEF IInv, Plain
<1>2. \A c \in Calls : frames[c] # << >> /\ Waits(Top(c)) => c \in Range(notifyQueue)
  BY StackFacts DEF IInv, NotifyInv
<1>3. IsInjective(lockQueue) /\ IsInjective(notifyQueue)
  BY DEF IInv, LockInv, NotifyInv, IsQueue
<1> QED
  BY <1>1, <1>2, <1>3, LockTwice DEF IInv, Plain, LockInv, SessionInv, KeyInv, Outcomes, RpcTypeOK

\* The frames that hold the lock, counted.
LEMMA HeldIsCount ==
  ASSUME IInv, NEW c \in Calls
  PROVE  Cardinality({i \in DOMAIN frames[c] : frames[c][i].at \in Exchanging}) = Held(c)
<1> DEFINE exchanging == {i \in DOMAIN frames[c] : frames[c][i].at \in Exchanging}
<1>1. exchanging = {i \in {1, 2} : Where(c, i) \in Exchanging}
  <2>1. DOMAIN frames[c] \subseteq {1, 2}
    <3>1. CASE frames[c] = << >>
      BY <3>1
    <3>2. CASE frames[c] # << >>
      BY <3>2, Shape, TupleWhere DEF IInv
    <3> QED
      BY <3>1, <3>2
  <2>2. "none" \notin Exchanging
    BY DEF Exchanging
  <2> QED
    BY <2>1, <2>2 DEF Where
<1> HIDE DEF exchanging
<1>2. CASE Where(c, 1) \notin Exchanging /\ Where(c, 2) \notin Exchanging
  <2>1. exchanging = {} /\ Held(c) = 0
    BY <1>1, <1>2 DEF Held
  <2> QED
    BY <2>1, FS_EmptySet DEF exchanging
<1>3. CASE Where(c, 1) \in Exchanging /\ Where(c, 2) \notin Exchanging
  <2>1. exchanging = {1} /\ Held(c) = 1
    BY <1>1, <1>3 DEF Held
  <2>2. Cardinality(exchanging) = 1
    BY <2>1, FS_Singleton, Zenon
  <2> QED
    BY <2>1, <2>2 DEF exchanging
<1>4. CASE Where(c, 1) \notin Exchanging /\ Where(c, 2) \in Exchanging
  <2>1. exchanging = {2} /\ Held(c) = 1
    BY <1>1, <1>4 DEF Held
  <2>2. Cardinality(exchanging) = 1
    BY <2>1, FS_Singleton, Zenon
  <2> QED
    BY <2>1, <2>2 DEF exchanging
<1>5. CASE Where(c, 1) \in Exchanging /\ Where(c, 2) \in Exchanging
  <2>1. exchanging = {1} \cup {2} /\ Held(c) = 2
    BY <1>1, <1>5 DEF Held
  <2>2. Cardinality({1} \cup {2}) = 2
    <3>1. IsFiniteSet({1}) /\ Cardinality({1}) = 1
      BY FS_Singleton, Zenon
    <3>2. 2 \notin {1}
      OBVIOUS
    <3>3. Cardinality({1} \cup {2}) = Cardinality({1}) + 1
      BY <3>1, <3>2, FS_AddElement
    <3> QED
      BY <3>1, <3>3
  <2> QED
    BY <2>1, <2>2 DEF exchanging
<1> QED
  BY <1>2, <1>3, <1>4, <1>5

LEMMA OneFromIInv ==
  ASSUME IInv
  PROVE  OneRpcAtATime
BY HeldIsCount DEF IInv, LockInv, OneRpcAtATime

LEMMA KeysFromIInv ==
  ASSUME IInv
  PROVE  KeysAreUnique
BY DEF IInv, KeyInv, Begun, KeysAreUnique

\* A task is in at most two RPCs, the lock is held for at most two, its queue
\* and that of the notification lock hold each task once, and the count of the
\* sessions never falls below the sessions that are open (_rpc, _long_rpc,
\* RLock, Characteristic).
THEOREM RpcTypeHolds == Spec => []RpcTypeOK
BY SpecIInv, TypeFromIInv, PTL

\* The re-entrant RPC lock keeps exchanges apart: only its owner is between
\* taking it and giving it back, as often as the lock counts, through nested
\* RPCs, failures and cancellation at every suspension (_rpc, RLock).
THEOREM OneRpcAtATimeHolds == Spec => []OneRpcAtATime
BY SpecIInv, OneFromIInv, PTL

\* No two motions under way share a request id, also when the robot still
\* executes one whose call has ended, and every id fits into its bytes
\* (get_next_request_id).
THEOREM KeysAreUniqueHolds == Spec => []KeysAreUnique
BY SpecIInv, KeysFromIInv, PTL
=============================================================================
