-------------------------- MODULE DataAccessProofs --------------------------
(***************************************************************************)
(* Proofs about DataAccess: a block yields every sample once and in order, *)
(* and the exception of its background task comes out of it.               *)
(*                                                                         *)
(* The invariant has three parts.  Flow says that samples never overtake   *)
(* one another on the way from the robot's present sample over the events  *)
(* and the queue to the buffer.  Account says where the samples are that   *)
(* have been put in the queue, and what last_timestamp is: comparing with  *)
(* the last sample only is enough because of the order.  Ended says when   *)
(* the background task can still run.                                      *)
(***************************************************************************)
EXTENDS DataAccess, SequenceTheorems, TLAPS

-----------------------------------------------------------------------------
(* Lists.                                                                  *)

\* The tail of a sequence, position by position.
LEMMA TailIs ==
  ASSUME NEW X, NEW s \in Seq(X), s # << >>
  PROVE /\ Tail(s) \in Seq(X) /\ 1 \in DOMAIN s /\ Head(s) = s[1]
        /\ \A i \in DOMAIN Tail(s) : i \in Nat /\ i + 1 \in DOMAIN s /\ i + 1 # 1 /\ Tail(s)[i] = s[i + 1]
        /\ \A i \in DOMAIN s : i # 1 => i - 1 \in DOMAIN Tail(s) /\ i = (i - 1) + 1 /\ Tail(s)[i - 1] = s[i]
  BY HeadTailProperties, LenProperties, EmptySeq

\* A sequence with one more element, position by position.
LEMMA AppendIs ==
  ASSUME NEW X, NEW s \in Seq(X), NEW e \in X
  PROVE /\ Append(s, e) \in Seq(X)
        /\ \A i \in DOMAIN Append(s, e) : \/ i \in DOMAIN s /\ Append(s, e)[i] = s[i]
                                          \/ i = Len(s) + 1 /\ Append(s, e)[i] = e
        /\ \A i \in DOMAIN s : i \in Nat /\ i < Len(s) + 1 /\ i \in DOMAIN Append(s, e) /\ Append(s, e)[i] = s[i]
        /\ Len(s) + 1 \in DOMAIN Append(s, e) /\ Len(s) + 1 \in Nat /\ Append(s, e)[Len(s) + 1] = e
  BY AppendProperties, LenProperties

-----------------------------------------------------------------------------
(* The way of the samples.                                                 *)

\* The samples of a list are in their order, with or without repetitions;
Ascending(s) == \A i, j \in DOMAIN s : i < j => s[i] <= s[j]
Rising(s) == \A i, j \in DOMAIN s : i < j => s[i] < s[j]

\* none is younger than any of another list, or than one sample.
UpTo(s, t) == \A i \in DOMAIN s, j \in DOMAIN t : s[i] <= t[j]
Below(s, n) == \A i \in DOMAIN s : s[i] <= n

\* A buffer, a queue, the events and the present sample: nobody overtakes.
Flow(b, o, e, n) ==
  /\ Rising(b) /\ Ascending(o) /\ Ascending(e)
  /\ UpTo(b, o) /\ UpTo(b, e) /\ UpTo(o, e)
  /\ Below(b, n) /\ Below(o, n) /\ Below(e, n)

\* The elements of a list of naturals.
LEMMA Elements ==
  ASSUME NEW s \in Seq(Nat)
  PROVE DOMAIN s = 1 .. Len(s) /\ Len(s) \in Nat /\ \A i \in DOMAIN s : i \in Nat /\ s[i] \in Nat
  BY LenProperties

\* The empty list has none.
LEMMA EmptyHasNone == << >> \in Seq(Nat) /\ DOMAIN << >> = {}
  BY EmptySeq, LenProperties

\* An ascending list grows by an element that is not below the others,
LEMMA AscendingJoined ==
  ASSUME NEW s \in Seq(Nat), NEW x \in Nat, Ascending(s), Below(s, x)
  PROVE Append(s, x) \in Seq(Nat) /\ Ascending(Append(s, x))
<1> DEFINE t == Append(s, x)
<1>1. /\ t \in Seq(Nat)
      /\ \A i \in DOMAIN t : \/ i \in DOMAIN s /\ t[i] = s[i]
                             \/ i = Len(s) + 1 /\ t[i] = x
  BY AppendIs
<1>2. DOMAIN s = 1 .. Len(s) /\ Len(s) \in Nat /\ \A i \in DOMAIN s : s[i] \in Nat
  BY Elements
<1> HIDE DEF t
<1>3. Ascending(t)
  BY <1>1, <1>2 DEF Ascending, Below
<1> QED BY <1>1, <1>3 DEF t

\* and a rising list by one that is above its last.
LEMMA RisingJoined ==
  ASSUME NEW s \in Seq(Nat), NEW x \in Nat, Rising(s), Below(s, x), s # << >> => s[Len(s)] # x
  PROVE Append(s, x) \in Seq(Nat) /\ Rising(Append(s, x)) /\ Append(s, x) # << >>
        /\ Append(s, x)[Len(Append(s, x))] = x
<1> DEFINE t == Append(s, x)
<1>1. /\ t \in Seq(Nat)
      /\ \A i \in DOMAIN t : \/ i \in DOMAIN s /\ t[i] = s[i]
                             \/ i = Len(s) + 1 /\ t[i] = x
      /\ Len(s) + 1 \in DOMAIN t /\ t[Len(s) + 1] = x
  BY AppendIs
<1>2. DOMAIN s = 1 .. Len(s) /\ Len(s) \in Nat /\ \A i \in DOMAIN s : s[i] \in Nat
  BY Elements
<1>3. Len(t) = Len(s) + 1 /\ t # << >>
  BY AppendProperties
<1> HIDE DEF t
<1>4. \A i \in DOMAIN s : s[i] < x
  <2> SUFFICES ASSUME NEW i \in DOMAIN s PROVE s[i] < x
    OBVIOUS
  <2>1. s # << >> /\ Len(s) \in DOMAIN s
    BY <1>2, EmptyHasNone
  <2>2. s[Len(s)] < x
    BY <1>2, <2>1 DEF Below
  <2>3. i = Len(s) \/ s[i] < s[Len(s)]
    BY <1>2, <2>1 DEF Rising
  <2> QED BY <1>2, <2>1, <2>2, <2>3
<1>5. Rising(t)
  BY <1>1, <1>2, <1>4 DEF Rising
<1> QED BY <1>1, <1>3, <1>5 DEF t

\* A list without its head keeps its order, and the head is not above the rest.
LEMMA AscendingServed ==
  ASSUME NEW s \in Seq(Nat), s # << >>, Ascending(s)
  PROVE /\ Tail(s) \in Seq(Nat) /\ Ascending(Tail(s)) /\ Head(s) \in Nat
        /\ \A j \in DOMAIN Tail(s) : Head(s) <= Tail(s)[j]
<1> DEFINE t == Tail(s)
<1>1. /\ t \in Seq(Nat) /\ 1 \in DOMAIN s /\ Head(s) = s[1]
      /\ \A i \in DOMAIN t : i \in Nat /\ i + 1 \in DOMAIN s /\ i + 1 # 1 /\ t[i] = s[i + 1]
  BY TailIs
<1>2. DOMAIN s = 1 .. Len(s) /\ Len(s) \in Nat /\ \A i \in DOMAIN s : s[i] \in Nat
  BY Elements
<1> HIDE DEF t
<1>3. Ascending(t)
  BY <1>1, <1>2 DEF Ascending
<1>4. ASSUME NEW j \in DOMAIN t PROVE Head(s) <= t[j]
  <2>1. j \in Nat /\ j + 1 \in DOMAIN s /\ t[j] = s[j + 1] /\ j + 1 # 1
    BY <1>1
  <2>2. 1 < j + 1
    BY <1>2, <2>1
  <2>3. s[1] <= s[j + 1]
    BY <1>1, <2>1, <2>2, Zenon DEF Ascending
  <2> QED BY <1>1, <2>1, <2>3
<1> QED BY <1>1, <1>2, <1>3, <1>4 DEF t

\* The robot samples,
LEMMA FlowSampled ==
  ASSUME NEW b \in Seq(Nat), NEW o \in Seq(Nat), NEW e \in Seq(Nat), NEW n \in Nat, Flow(b, o, e, n)
  PROVE Flow(b, o, e, n + 1)
<1>1. ASSUME NEW s \in Seq(Nat), Below(s, n) PROVE Below(s, n + 1)
  <2>1. \A i \in DOMAIN s : s[i] \in Nat
    BY Elements
  <2> QED BY <1>1, <2>1 DEF Below
<1> QED BY <1>1 DEF Flow

\* sends the present sample,
LEMMA FlowEmitted ==
  ASSUME NEW b \in Seq(Nat), NEW o \in Seq(Nat), NEW e \in Seq(Nat), NEW n \in Nat, Flow(b, o, e, n)
  PROVE Append(e, n) \in Seq(Nat) /\ Flow(b, o, Append(e, n), n)
<1> DEFINE t == Append(e, n)
<1>1. t \in Seq(Nat) /\ Ascending(t)
  BY AscendingJoined, Zenon DEF Flow
<1>2. \A i \in DOMAIN t : \/ i \in DOMAIN e /\ t[i] = e[i]
                          \/ i = Len(e) + 1 /\ t[i] = n
  BY AppendIs
<1> HIDE DEF t
<1>3. n <= n
  OBVIOUS
<1>4. Below(t, n)
  BY <1>2, <1>3, Zenon DEF Flow, Below
<1>5. UpTo(b, t) /\ UpTo(o, t)
  BY <1>2, Zenon DEF Flow, Below, UpTo
<1> QED BY <1>1, <1>4, <1>5, Zenon DEF Flow, t

\* its oldest event is put in a queue, or in none,
LEMMA FlowBroadcast ==
  ASSUME NEW b \in Seq(Nat), NEW o \in Seq(Nat), NEW e \in Seq(Nat), NEW n \in Nat, Flow(b, o, e, n), e # << >>
  PROVE /\ Tail(e) \in Seq(Nat) /\ Head(e) \in Nat /\ Append(o, Head(e)) \in Seq(Nat)
        /\ Flow(b, o, Tail(e), n) /\ Flow(b, Append(o, Head(e)), Tail(e), n)
<1> DEFINE t == Tail(e)
           x == Head(e)
           p == Append(o, x)
<1>1. t \in Seq(Nat) /\ Ascending(t) /\ x \in Nat /\ \A j \in DOMAIN t : x <= t[j]
  BY AscendingServed, Zenon DEF Flow
<1>2. /\ 1 \in DOMAIN e /\ x = e[1]
      /\ \A i \in DOMAIN t : i + 1 \in DOMAIN e /\ t[i] = e[i + 1]
  BY TailIs
<1> HIDE DEF t, x
<1>3. UpTo(b, t) /\ UpTo(o, t) /\ Below(t, n)
  BY <1>2, Zenon DEF Flow, UpTo, Below
<1>4. Below(o, x) /\ Below(b, x) /\ x <= n
  BY <1>2, Zenon DEF Flow, UpTo, Below
<1>5. p \in Seq(Nat) /\ Ascending(p)
  BY <1>1, <1>4, AscendingJoined, Zenon DEF Flow
<1>6. \A i \in DOMAIN p : \/ i \in DOMAIN o /\ p[i] = o[i]
                          \/ i = Len(o) + 1 /\ p[i] = x
  BY <1>1, AppendIs
<1> HIDE DEF p
<1>7. UpTo(b, p) /\ UpTo(p, t) /\ Below(p, n)
  BY <1>1, <1>3, <1>4, <1>6, Zenon DEF Flow, UpTo, Below
<1>8. Flow(b, o, t, n) /\ Flow(b, p, t, n)
  BY <1>1, <1>3, <1>5, <1>7, Zenon DEF Flow
<1> QED BY <1>1, <1>5, <1>8 DEF t, x, p

\* the oldest of a queue is dropped, or joins the buffer unless it is its last,
LEMMA FlowPumped ==
  ASSUME NEW b \in Seq(Nat), NEW o \in Seq(Nat), NEW e \in Seq(Nat), NEW n \in Nat, Flow(b, o, e, n), o # << >>
  PROVE /\ Tail(o) \in Seq(Nat) /\ Head(o) \in Nat /\ Flow(b, Tail(o), e, n)
        /\ (b # << >> => b[Len(b)] # Head(o)) =>
             /\ Append(b, Head(o)) \in Seq(Nat) /\ Flow(Append(b, Head(o)), Tail(o), e, n)
             /\ Append(b, Head(o)) # << >> /\ Append(b, Head(o))[Len(Append(b, Head(o)))] = Head(o)
<1> DEFINE t == Tail(o)
           x == Head(o)
           p == Append(b, x)
<1>1. t \in Seq(Nat) /\ Ascending(t) /\ x \in Nat /\ \A j \in DOMAIN t : x <= t[j]
  BY AscendingServed, Zenon DEF Flow
<1>2. /\ 1 \in DOMAIN o /\ x = o[1]
      /\ \A i \in DOMAIN t : i + 1 \in DOMAIN o /\ t[i] = o[i + 1]
  BY TailIs
<1> HIDE DEF t, x
<1>3. UpTo(b, t) /\ UpTo(t, e) /\ Below(t, n)
  BY <1>2, Zenon DEF Flow, UpTo, Below
<1>4. Flow(b, t, e, n)
  BY <1>1, <1>3, Zenon DEF Flow
<1>5. Below(b, x) /\ x <= n /\ \A j \in DOMAIN e : x <= e[j]
  BY <1>2, Zenon DEF Flow, UpTo, Below
<1>6. ASSUME b # << >> => b[Len(b)] # x
      PROVE p \in Seq(Nat) /\ Flow(p, t, e, n) /\ p # << >> /\ p[Len(p)] = x
  <2>1. p \in Seq(Nat) /\ Rising(p) /\ p # << >> /\ p[Len(p)] = x
    BY <1>1, <1>5, <1>6, RisingJoined, Zenon DEF Flow
  <2>2. \A i \in DOMAIN p : \/ i \in DOMAIN b /\ p[i] = b[i]
                            \/ i = Len(b) + 1 /\ p[i] = x
    BY <1>1, AppendIs
  <2> HIDE DEF p
  <2>3. UpTo(p, t) /\ UpTo(p, e) /\ Below(p, n)
    BY <1>1, <1>3, <1>5, <2>2, Zenon DEF Flow, UpTo, Below
  <2> QED BY <1>4, <2>1, <2>3, Zenon DEF Flow
<1> QED BY <1>1, <1>4, <1>6 DEF t, x, p

\* and the events are forgotten with the watcher.
LEMMA FlowCleared ==
  ASSUME NEW b, NEW o, NEW e, NEW n, Flow(b, o, e, n)
  PROVE Flow(b, o, << >>, n)
  BY EmptyHasNone, Zenon DEF Flow, Ascending, UpTo, Below

-----------------------------------------------------------------------------
(* The invariant.                                                          *)

\* Where a block and its task can be, and how a block can end.
Stages == {"idle", "reading", "starting", "inside", "disabling", "joining", "left"}
Tasks == {"none", "created", "running", "failed", "reported", "over"}
Outcomes == {"open", "normal", "cancelled", "raised"}

\* The types of the variables the properties depend on.
Typed ==
  /\ now \in Nat /\ events \in Seq(Nat)
  /\ output \in [Watches -> Seq(Nat)] /\ buffer \in [Watches -> Seq(Nat)]
  /\ last \in [Watches -> Nat \cup {NoSample}] /\ initial \in [Watches -> Nat \cup {NoSample}]
  /\ fed \in [Watches -> SUBSET Nat]
  /\ stage \in [Watches -> Stages] /\ task \in [Watches -> Tasks] /\ outcome \in [Watches -> Outcomes]

\* What the task of a block has pushed, and what it compares the next sample with:
\* `t' is the task, `b' the buffer, `o' the queue, `l' last_timestamp, `i' the
\* initial sample and `f' what has been put in the queue.
Account(t, b, o, l, i, f) ==
  /\ t = "none" => b = << >> /\ i = NoSample
  /\ t \in {"none", "created", "running"} =>
       /\ l = IF b = << >> THEN i ELSE b[Len(b)]
       /\ f \subseteq ToSet(b) \cup ToSet(o) \cup {i}

\* The end of a block and the end of its task: `s' is the stage, `t' the task and
\* `h' how the block has ended.
Ended(s, t, h) ==
  /\ s \in {"idle", "reading"} => t = "none"
  /\ s \in {"joining", "left"} => t \notin {"created", "running"}
  /\ s # "left" => h # "raised"
  /\ s = "left" => (h = "raised" <=> t \in {"failed", "reported"})

FlowInv == \A w \in Watches : Flow(buffer[w], output[w], events, now)
AccountInv == \A w \in Watches : Account(task[w], buffer[w], output[w], last[w], initial[w], fed[w])
EndedInv == \A w \in Watches : Ended(stage[w], task[w], outcome[w])

\* The inductive invariant.
IInv == Typed /\ FlowInv /\ AccountInv /\ EndedInv

\* What it says of a block.
LEMMA Says ==
  ASSUME IInv, NEW w \in Watches
  PROVE /\ now \in Nat /\ events \in Seq(Nat) /\ output[w] \in Seq(Nat) /\ buffer[w] \in Seq(Nat)
        /\ last[w] \in Nat \cup {NoSample} /\ initial[w] \in Nat \cup {NoSample} /\ fed[w] \in SUBSET Nat
        /\ stage[w] \in Stages /\ task[w] \in Tasks /\ outcome[w] \in Outcomes
        /\ Flow(buffer[w], output[w], events, now)
        /\ Account(task[w], buffer[w], output[w], last[w], initial[w], fed[w])
        /\ Ended(stage[w], task[w], outcome[w])
  BY DEF IInv, Typed, FlowInv, AccountInv, EndedInv

-----------------------------------------------------------------------------
(* The robot and the WatcherManager.                                       *)

\* The variables the invariant depends on: the way of the samples, what is told of
\* it, and the end of a block.
wayVars == << now, events, output, buffer >>
accountVars == << last, initial, fed >>
endVars == << stage, task, outcome >>

\* A step that leaves all of them alone keeps the invariant.
LEMMA QuietStep ==
  ASSUME IInv, UNCHANGED << wayVars, accountVars, endVars >>
  PROVE IInv'
  BY DEF IInv, Typed, FlowInv, AccountInv, EndedInv, wayVars, accountVars, endVars

\* The robot samples.
LEMMA SampleKeeps ==
  ASSUME IInv, Sample
  PROVE IInv'
<1>1. now' = now + 1 /\ UNCHANGED << events, output, buffer, accountVars, endVars >>
  BY Zenon DEF Sample, blockVars, taskVars, historyVars, accountVars, endVars
<1>2. Typed'
  BY <1>1 DEF IInv, Typed, accountVars, endVars
<1>3. FlowInv'
  <2> SUFFICES ASSUME NEW w \in Watches PROVE Flow(buffer[w], output[w], events, now + 1)
    BY <1>1, Zenon DEF FlowInv
  <2> QED BY Says, FlowSampled
<1>4. AccountInv' /\ EndedInv'
  BY <1>1 DEF IInv, AccountInv, EndedInv, accountVars, endVars
<1> QED BY <1>2, <1>3, <1>4 DEF IInv

\* It sends an event.
LEMMA EmitKeeps ==
  ASSUME IInv, Emit
  PROVE IInv'
<1>1. events' = Append(events, now) /\ UNCHANGED << now, output, buffer, accountVars, endVars >>
  BY Zenon DEF Emit, blockVars, taskVars, historyVars, accountVars, endVars
<1>2. FlowInv'
  <2> SUFFICES ASSUME NEW w \in Watches PROVE Flow(buffer[w], output[w], Append(events, now), now)
    BY <1>1, Zenon DEF FlowInv
  <2> QED BY Says, FlowEmitted
<1>3. Typed'
  <2>1. now \in Nat /\ events \in Seq(Nat)
    BY DEF IInv, Typed
  <2>2. Append(events, now) \in Seq(Nat)
    BY <2>1, AppendIs
  <2> QED BY <1>1, <2>2 DEF IInv, Typed, accountVars, endVars
<1>4. AccountInv' /\ EndedInv'
  BY <1>1 DEF IInv, AccountInv, EndedInv, accountVars, endVars
<1> QED BY <1>2, <1>3, <1>4 DEF IInv

\* The elements of a list and of its ends.
LEMMA ToSetOfAppend ==
  ASSUME NEW s \in Seq(Nat), NEW x \in Nat
  PROVE ToSet(Append(s, x)) = ToSet(s) \cup {x}
<1> DEFINE t == Append(s, x)
<1>1. /\ \A i \in DOMAIN t : \/ i \in DOMAIN s /\ t[i] = s[i]
                             \/ i = Len(s) + 1 /\ t[i] = x
      /\ \A i \in DOMAIN s : i \in DOMAIN t /\ t[i] = s[i]
      /\ Len(s) + 1 \in DOMAIN t /\ t[Len(s) + 1] = x
  BY AppendIs
<1> HIDE DEF t
<1> QED BY <1>1 DEF ToSet, t

LEMMA ToSetOfTail ==
  ASSUME NEW s \in Seq(Nat), s # << >>
  PROVE ToSet(s) \subseteq ToSet(Tail(s)) \cup {Head(s)}
<1> DEFINE t == Tail(s)
<1>1. /\ Head(s) = s[1]
      /\ \A i \in DOMAIN s : i # 1 => i - 1 \in DOMAIN t /\ t[i - 1] = s[i]
  BY TailIs
<1> HIDE DEF t
<1> QED BY <1>1 DEF ToSet, t

\* A sample that is put in the queue is accounted for.
LEMMA AccountFed ==
  ASSUME NEW t, NEW b, NEW o \in Seq(Nat), NEW l, NEW i, NEW f, NEW x \in Nat, Account(t, b, o, l, i, f)
  PROVE Account(t, b, Append(o, x), l, i, f \cup {x})
<1>1. ToSet(Append(o, x)) = ToSet(o) \cup {x}
  BY ToSetOfAppend
<1> QED BY <1>1 DEF Account

\* The oldest event goes to the blocks that are subscribed.
LEMMA BroadcastKeeps ==
  ASSUME IInv, Broadcast
  PROVE IInv'
<1> DEFINE x == Head(events)
<1>1. /\ events # << >> /\ events' = Tail(events)
      /\ output' = [w \in Watches |-> IF w \in Subscribed THEN Append(output[w], x) ELSE output[w]]
      /\ fed' = [w \in Watches |-> IF w \in Subscribed THEN fed[w] \cup {x} ELSE fed[w]]
      /\ UNCHANGED << now, buffer, last, initial, endVars >>
  BY Zenon DEF Broadcast, robotVars, blockVars, taskVars, endVars
<1>2. Tail(events) \in Seq(Nat) /\ x \in Nat
  <2>1. events \in Seq(Nat)
    BY DEF IInv, Typed
  <2>2. Tail(events) \in Seq(Nat) /\ 1 \in DOMAIN events /\ x = events[1]
    BY <1>1, <2>1, TailIs
  <2> QED BY <2>1, <2>2, Elements
<1>3. ASSUME NEW w \in Watches
      PROVE /\ output'[w] \in Seq(Nat) /\ fed'[w] \in SUBSET Nat
            /\ Flow(buffer[w], output'[w], Tail(events), now)
            /\ Account(task[w], buffer[w], output'[w], last[w], initial[w], fed'[w])
  <2>1. /\ now \in Nat /\ events \in Seq(Nat) /\ output[w] \in Seq(Nat) /\ buffer[w] \in Seq(Nat)
        /\ fed[w] \in SUBSET Nat
        /\ Flow(buffer[w], output[w], events, now)
        /\ Account(task[w], buffer[w], output[w], last[w], initial[w], fed[w])
    BY Says
  <2>2. /\ Append(output[w], x) \in Seq(Nat)
        /\ Flow(buffer[w], output[w], Tail(events), now)
        /\ Flow(buffer[w], Append(output[w], x), Tail(events), now)
    BY <1>1, <2>1, FlowBroadcast
  <2>3. Account(task[w], buffer[w], Append(output[w], x), last[w], initial[w], fed[w] \cup {x})
    BY <1>2, <2>1, AccountFed
  <2>4. CASE w \in Subscribed
    <3>1. output'[w] = Append(output[w], x) /\ fed'[w] = fed[w] \cup {x}
      BY <1>1, <2>4
    <3> QED BY <1>2, <2>1, <2>2, <2>3, <3>1
  <2>5. CASE w \notin Subscribed
    <3>1. output'[w] = output[w] /\ fed'[w] = fed[w]
      BY <1>1, <2>5
    <3> QED BY <2>1, <2>2, <3>1
  <2> QED BY <2>4, <2>5
<1> HIDE DEF x
<1>4. Typed'
  <2>1. output' \in [Watches -> Seq(Nat)] /\ fed' \in [Watches -> SUBSET Nat]
    <3>1. DOMAIN output' = Watches /\ DOMAIN fed' = Watches
          /\ output' = [w \in Watches |-> output'[w]] /\ fed' = [w \in Watches |-> fed'[w]]
      BY <1>1
    <3> QED BY <1>3, <3>1
  <2> QED BY <1>1, <1>2, <2>1 DEF IInv, Typed, endVars
<1>5. FlowInv' /\ AccountInv' /\ EndedInv'
  BY <1>1, <1>3 DEF IInv, FlowInv, AccountInv, EndedInv, endVars
<1> QED BY <1>4, <1>5 DEF IInv

-----------------------------------------------------------------------------
(* The background task and the block.                                      *)

\* A step of one block that moves no sample keeps the invariant, if the block is
\* in order afterwards.
LEMMA BlockStep ==
  ASSUME IInv, NEW w \in Watches, UNCHANGED << wayVars, fed >>,
         last' \in [Watches -> Nat \cup {NoSample}], initial' \in [Watches -> Nat \cup {NoSample}],
         stage' \in [Watches -> Stages], task' \in [Watches -> Tasks], outcome' \in [Watches -> Outcomes],
         \A v \in Watches : v # w =>
           /\ last'[v] = last[v] /\ initial'[v] = initial[v]
           /\ stage'[v] = stage[v] /\ task'[v] = task[v] /\ outcome'[v] = outcome[v],
         Account(task'[w], buffer[w], output[w], last'[w], initial'[w], fed[w]),
         Ended(stage'[w], task'[w], outcome'[w])
  PROVE IInv'
<1>1. Typed'
  BY Zenon DEF IInv, Typed, wayVars
<1>2. FlowInv'
  BY DEF IInv, FlowInv, wayVars
<1>3. ASSUME NEW v \in Watches
      PROVE /\ Account(task'[v], buffer[v], output[v], last'[v], initial'[v], fed[v])
            /\ Ended(stage'[v], task'[v], outcome'[v])
  <2>1. /\ Account(task[v], buffer[v], output[v], last[v], initial[v], fed[v])
        /\ Ended(stage[v], task[v], outcome[v])
    BY Says
  <2>2. CASE v = w
    BY <2>2
  <2>3. CASE v # w
    BY <2>1, <2>3
  <2> QED BY <2>2, <2>3
<1>4. AccountInv' /\ EndedInv'
  BY <1>3 DEF AccountInv, EndedInv, wayVars
<1> QED BY <1>1, <1>2, <1>4 DEF IInv

\* The types of what a block's step changes.
LEMMA BlockTypes ==
  ASSUME IInv
  PROVE /\ last \in [Watches -> Nat \cup {NoSample}] /\ initial \in [Watches -> Nat \cup {NoSample}]
        /\ stage \in [Watches -> Stages] /\ task \in [Watches -> Tasks] /\ outcome \in [Watches -> Outcomes]
  BY Zenon DEF IInv, Typed

\* The task begins to run.
LEMMA StartKeeps ==
  ASSUME IInv, NEW w \in Watches, Start(w)
  PROVE IInv'
<1>1. /\ task[w] = "created" /\ task' = [task EXCEPT ![w] = "running"]
      /\ UNCHANGED << wayVars, fed, last, initial, stage, outcome >>
  BY Zenon DEF Start, robotVars, blockVars, historyVars, wayVars
<1>2. Account(task[w], buffer[w], output[w], last[w], initial[w], fed[w]) /\ Ended(stage[w], task[w], outcome[w])
  BY Says
<1>3. Account("running", buffer[w], output[w], last[w], initial[w], fed[w]) /\ Ended(stage[w], "running", outcome[w])
  BY <1>1, <1>2 DEF Account, Ended
<1>4. task' \in [Watches -> Tasks] /\ task'[w] = "running" /\ \A v \in Watches : v # w => task'[v] = task[v]
  BY <1>1, BlockTypes DEF Tasks
<1> QED BY <1>1, <1>3, <1>4, BlockStep, BlockTypes

\* Its exception is reported.
LEMMA OnTaskDoneKeeps ==
  ASSUME IInv, NEW w \in Watches, OnTaskDone(w)
  PROVE IInv'
<1>1. /\ task[w] = "failed" /\ task' = [task EXCEPT ![w] = "reported"]
      /\ UNCHANGED << wayVars, fed, last, initial, stage, outcome >>
  BY Zenon DEF OnTaskDone, robotVars, historyVars, wayVars
<1>2. Account(task[w], buffer[w], output[w], last[w], initial[w], fed[w]) /\ Ended(stage[w], task[w], outcome[w])
  BY Says
<1>3. Account("reported", buffer[w], output[w], last[w], initial[w], fed[w]) /\ Ended(stage[w], "reported", outcome[w])
  BY <1>1, <1>2 DEF Account, Ended
<1>4. task' \in [Watches -> Tasks] /\ task'[w] = "reported" /\ \A v \in Watches : v # w => task'[v] = task[v]
  BY <1>1, BlockTypes DEF Tasks
<1> QED BY <1>1, <1>3, <1>4, BlockStep, BlockTypes

\* What is left of an account when a sample has been pushed or was a repetition.
LEMMA AccountPushed ==
  ASSUME NEW b \in Seq(Nat), NEW o \in Seq(Nat), o # << >>, NEW l, NEW i, NEW f,
         Account("running", b, o, l, i, f),
         Append(b, Head(o)) # << >>, Append(b, Head(o))[Len(Append(b, Head(o)))] = Head(o), Head(o) \in Nat
  PROVE Account("running", Append(b, Head(o)), Tail(o), Head(o), i, f)
<1> DEFINE p == Append(b, Head(o))
<1>1. ToSet(p) = ToSet(b) \cup {Head(o)}
  BY ToSetOfAppend
<1>2. ToSet(o) \subseteq ToSet(Tail(o)) \cup {Head(o)}
  BY ToSetOfTail
<1> HIDE DEF p
<1>3. f \subseteq ToSet(p) \cup ToSet(Tail(o)) \cup {i}
  BY <1>1, <1>2 DEF Account
<1>4. p # << >> /\ p[Len(p)] = Head(o)
  BY DEF p
<1>5. Account("running", p, Tail(o), Head(o), i, f)
  BY <1>3, <1>4 DEF Account
<1> QED BY <1>5 DEF p

LEMMA AccountRepeated ==
  ASSUME NEW b \in Seq(Nat), NEW o \in Seq(Nat), o # << >>, NEW i, NEW f,
         Account("running", b, o, Head(o), i, f)
  PROVE Account("running", b, Tail(o), Head(o), i, f)
<1>1. ToSet(o) \subseteq ToSet(Tail(o)) \cup {Head(o)}
  BY ToSetOfTail
<1>2. Head(o) = IF b = << >> THEN i ELSE b[Len(b)]
  BY DEF Account
<1>3. Head(o) \in ToSet(b) \cup {i}
  <2>1. CASE b = << >>
    BY <1>2, <2>1
  <2>2. CASE b # << >>
    <3>1. Len(b) \in DOMAIN b
      BY <2>2, LenProperties, EmptySeq
    <3> QED BY <1>2, <2>2, <3>1 DEF ToSet
  <2> QED BY <2>1, <2>2
<1> QED BY <1>1, <1>2, <1>3 DEF Account

\* A sample goes through the task.
LEMMA PumpKeeps ==
  ASSUME IInv, NEW w \in Watches, Pump(w)
  PROVE IInv'
<1> DEFINE x == Head(output[w])
<1>1. /\ task[w] = "running" /\ output[w] # << >>
      /\ output' = [output EXCEPT ![w] = Tail(@)] /\ last' = [last EXCEPT ![w] = x]
      /\ UNCHANGED << now, events, initial, fed, stage, outcome >>
  BY Zenon DEF Pump, robotVars, blockVars, historyVars
<1>2. \/ x = last[w] /\ task' = task /\ buffer' = buffer
      \/ x # last[w] /\ task' = task /\ buffer' = [buffer EXCEPT ![w] = Append(@, x)]
      \/ task' = [task EXCEPT ![w] = "failed"] /\ buffer' = buffer
  BY Zenon DEF Pump, IsNew, Push
<1>3. /\ now \in Nat /\ events \in Seq(Nat) /\ output[w] \in Seq(Nat) /\ buffer[w] \in Seq(Nat)
      /\ stage[w] \in Stages /\ task[w] \in Tasks /\ outcome[w] \in Outcomes
      /\ Flow(buffer[w], output[w], events, now)
      /\ Account(task[w], buffer[w], output[w], last[w], initial[w], fed[w])
      /\ Ended(stage[w], task[w], outcome[w])
  BY Says
<1>4. /\ Tail(output[w]) \in Seq(Nat) /\ x \in Nat /\ Flow(buffer[w], Tail(output[w]), events, now)
      /\ (buffer[w] # << >> => buffer[w][Len(buffer[w])] # x) =>
           /\ Append(buffer[w], x) \in Seq(Nat) /\ Flow(Append(buffer[w], x), Tail(output[w]), events, now)
           /\ Append(buffer[w], x) # << >> /\ Append(buffer[w], x)[Len(Append(buffer[w], x))] = x
  BY <1>1, <1>3, FlowPumped
<1>5. /\ output \in [Watches -> Seq(Nat)] /\ buffer \in [Watches -> Seq(Nat)]
      /\ last \in [Watches -> Nat \cup {NoSample}] /\ initial \in [Watches -> Nat \cup {NoSample}]
      /\ fed \in [Watches -> SUBSET Nat]
      /\ stage \in [Watches -> Stages] /\ task \in [Watches -> Tasks] /\ outcome \in [Watches -> Outcomes]
  BY Zenon DEF IInv, Typed
<1>6. /\ output' \in [Watches -> Seq(Nat)] /\ output'[w] = Tail(output[w])
      /\ last' \in [Watches -> Nat \cup {NoSample}] /\ last'[w] = x
      /\ \A v \in Watches : v # w => output'[v] = output[v] /\ last'[v] = last[v]
  BY <1>1, <1>4, <1>5
<1> DEFINE Done == /\ buffer' \in [Watches -> Seq(Nat)] /\ task' \in [Watches -> Tasks]
                   /\ \A v \in Watches : v # w => buffer'[v] = buffer[v] /\ task'[v] = task[v]
                   /\ Flow(buffer'[w], Tail(output[w]), events, now)
                   /\ Account(task'[w], buffer'[w], Tail(output[w]), x, initial[w], fed[w])
                   /\ Ended(stage[w], task'[w], outcome[w])
<1>7. ASSUME x = last[w], task' = task, buffer' = buffer PROVE Done
  <2>1. Account("running", buffer[w], Tail(output[w]), x, initial[w], fed[w])
    BY <1>1, <1>3, <1>7, AccountRepeated
  <2> QED BY <1>1, <1>3, <1>4, <1>5, <1>7, <2>1
<1>8. ASSUME x # last[w], task' = task, buffer' = [buffer EXCEPT ![w] = Append(@, x)] PROVE Done
  <2>1. buffer[w] # << >> => buffer[w][Len(buffer[w])] # x
    BY <1>1, <1>3, <1>8, Zenon DEF Account
  <2>2. /\ Append(buffer[w], x) \in Seq(Nat) /\ Flow(Append(buffer[w], x), Tail(output[w]), events, now)
        /\ Append(buffer[w], x) # << >> /\ Append(buffer[w], x)[Len(Append(buffer[w], x))] = x
    BY <1>4, <2>1
  <2>3. Account("running", Append(buffer[w], x), Tail(output[w]), x, initial[w], fed[w])
    BY <1>1, <1>3, <1>4, <2>2, AccountPushed
  <2>4. /\ buffer' \in [Watches -> Seq(Nat)] /\ buffer'[w] = Append(buffer[w], x)
        /\ \A v \in Watches : v # w => buffer'[v] = buffer[v]
    BY <1>5, <1>8, <2>2
  <2> QED BY <1>1, <1>3, <1>5, <1>8, <2>2, <2>3, <2>4
<1>9. ASSUME task' = [task EXCEPT ![w] = "failed"], buffer' = buffer PROVE Done
  <2>1. task' \in [Watches -> Tasks] /\ task'[w] = "failed" /\ \A v \in Watches : v # w => task'[v] = task[v]
    BY <1>5, <1>9 DEF Tasks
  <2>2. Account("failed", buffer[w], Tail(output[w]), x, initial[w], fed[w])
    BY DEF Account
  <2>3. Ended(stage[w], "failed", outcome[w])
    BY <1>1, <1>3 DEF Ended
  <2> QED BY <1>4, <1>5, <1>9, <2>1, <2>2, <2>3
<1> HIDE DEF x, Done
<1>10. Done
  BY <1>2, <1>7, <1>8, <1>9
<1>11. Typed'
  BY <1>1, <1>6, <1>10, Zenon DEF IInv, Typed, Done
<1>12. ASSUME NEW v \in Watches
       PROVE /\ Flow(buffer'[v], output'[v], events, now)
             /\ Account(task'[v], buffer'[v], output'[v], last'[v], initial[v], fed[v])
             /\ Ended(stage[v], task'[v], outcome[v])
  <2>1. CASE v = w
    BY <1>6, <1>10, <2>1 DEF Done
  <2>2. CASE v # w
    <3>1. /\ output'[v] = output[v] /\ last'[v] = last[v] /\ buffer'[v] = buffer[v] /\ task'[v] = task[v]
      BY <1>6, <1>10, <2>2 DEF Done
    <3>2. /\ Flow(buffer[v], output[v], events, now)
          /\ Account(task[v], buffer[v], output[v], last[v], initial[v], fed[v])
          /\ Ended(stage[v], task[v], outcome[v])
      BY Says
    <3> QED BY <3>1, <3>2
  <2> QED BY <2>1, <2>2
<1>13. FlowInv' /\ AccountInv' /\ EndedInv'
  BY <1>1, <1>12 DEF FlowInv, AccountInv, EndedInv
<1> QED BY <1>11, <1>13 DEF IInv

\* A block is entered.
LEMMA EnterKeeps ==
  ASSUME IInv, NEW w \in Watches, Enter(w)
  PROVE IInv'
<1>1. /\ stage[w] = "idle"
      /\ \/ stage' = [stage EXCEPT ![w] = "reading"] /\ task' = task
         \/ stage' = [stage EXCEPT ![w] = "starting"] /\ task' = [task EXCEPT ![w] = "created"]
      /\ UNCHANGED << wayVars, fed, last, initial, outcome >>
  BY Zenon DEF Enter, Goto, robotVars, historyVars, wayVars
<1>2. Account(task[w], buffer[w], output[w], last[w], initial[w], fed[w]) /\ Ended(stage[w], task[w], outcome[w])
  BY Says
<1>3. task[w] = "none"
  BY <1>1, <1>2 DEF Ended
<1>4. CASE stage' = [stage EXCEPT ![w] = "reading"] /\ task' = task
  <2>1. stage' \in [Watches -> Stages] /\ stage'[w] = "reading" /\ \A v \in Watches : v # w => stage'[v] = stage[v]
    BY <1>4, BlockTypes DEF Stages
  <2>2. Ended("reading", task[w], outcome[w])
    BY <1>1, <1>2 DEF Ended
  <2> QED BY <1>1, <1>2, <1>4, <2>1, <2>2, BlockStep, BlockTypes
<1>5. CASE stage' = [stage EXCEPT ![w] = "starting"] /\ task' = [task EXCEPT ![w] = "created"]
  <2>1. /\ stage' \in [Watches -> Stages] /\ stage'[w] = "starting"
        /\ task' \in [Watches -> Tasks] /\ task'[w] = "created"
        /\ \A v \in Watches : v # w => stage'[v] = stage[v] /\ task'[v] = task[v]
    BY <1>5, BlockTypes DEF Stages, Tasks
  <2>2. Ended("starting", "created", outcome[w])
    BY <1>1, <1>2 DEF Ended
  <2>3. Account("created", buffer[w], output[w], last[w], initial[w], fed[w])
    BY <1>2, <1>3 DEF Account
  <2> QED BY <1>1, <2>1, <2>2, <2>3, BlockStep, BlockTypes
<1> QED BY <1>1, <1>4, <1>5

\* The value to skip has been read: nothing has been pushed yet.
LEMMA ReadInitialKeeps ==
  ASSUME IInv, NEW w \in Watches, ReadInitial(w)
  PROVE IInv'
<1>1. /\ stage[w] = "reading"
      /\ last' = [last EXCEPT ![w] = now] /\ initial' = [initial EXCEPT ![w] = now]
      /\ stage' = [stage EXCEPT ![w] = "starting"] /\ task' = [task EXCEPT ![w] = "created"]
      /\ UNCHANGED << wayVars, fed, outcome >>
  BY Zenon DEF ReadInitial, Goto, robotVars, wayVars
<1>2. /\ Account(task[w], buffer[w], output[w], last[w], initial[w], fed[w])
      /\ Ended(stage[w], task[w], outcome[w]) /\ now \in Nat /\ fed[w] \in SUBSET Nat
  BY Says
<1>3. /\ stage' \in [Watches -> Stages] /\ stage'[w] = "starting"
      /\ task' \in [Watches -> Tasks] /\ task'[w] = "created"
      /\ \A v \in Watches : v # w => stage'[v] = stage[v] /\ task'[v] = task[v]
  BY <1>1, BlockTypes DEF Stages, Tasks
<1>4. /\ last' \in [Watches -> Nat \cup {NoSample}] /\ last'[w] = now
      /\ initial' \in [Watches -> Nat \cup {NoSample}] /\ initial'[w] = now
      /\ \A v \in Watches : v # w => last'[v] = last[v] /\ initial'[v] = initial[v]
  BY <1>1, <1>2, BlockTypes
<1>5. Ended("starting", "created", outcome[w])
  BY <1>1, <1>2 DEF Ended
<1>6. Account("created", buffer[w], output[w], now, now, fed[w])
  <2>1. task[w] = "none"
    BY <1>1, <1>2 DEF Ended
  <2>2. /\ buffer[w] = << >> /\ initial[w] = NoSample
        /\ fed[w] \subseteq ToSet(buffer[w]) \cup ToSet(output[w]) \cup {initial[w]}
    BY <1>2, <2>1 DEF Account
  <2>3. fed[w] \subseteq ToSet(buffer[w]) \cup ToSet(output[w]) \cup {now}
    BY <1>2, <2>2, SampleAssumption
  <2> QED BY <2>2, <2>3 DEF Account
<1> QED BY <1>1, <1>3, <1>4, <1>5, <1>6, BlockStep, BlockTypes

\* The task has started.
LEMMA StartedKeeps ==
  ASSUME IInv, NEW w \in Watches, Started(w)
  PROVE IInv'
<1>1. /\ stage[w] = "starting" /\ stage' = [stage EXCEPT ![w] = "inside"]
      /\ UNCHANGED << wayVars, fed, last, initial, task, outcome >>
  BY Zenon DEF Started, Goto, robotVars, taskVars, historyVars, wayVars
<1>2. Account(task[w], buffer[w], output[w], last[w], initial[w], fed[w]) /\ Ended(stage[w], task[w], outcome[w])
  BY Says
<1>3. Ended("inside", task[w], outcome[w])
  BY <1>1, <1>2 DEF Ended
<1>4. stage' \in [Watches -> Stages] /\ stage'[w] = "inside" /\ \A v \in Watches : v # w => stage'[v] = stage[v]
  BY <1>1, BlockTypes DEF Stages
<1> QED BY <1>1, <1>2, <1>3, <1>4, BlockStep, BlockTypes

\* A block that joins its task leaves none that runs.
LEMMA JoinKeeps ==
  ASSUME IInv, NEW w \in Watches, NEW how \in Outcomes, how # "raised",
         stage' = [stage EXCEPT ![w] = "joining"], CancelTask(w), outcome' = [outcome EXCEPT ![w] = how],
         UNCHANGED << wayVars, fed, last, initial >>
  PROVE IInv'
<1>1. Account(task[w], buffer[w], output[w], last[w], initial[w], fed[w]) /\ task[w] \in Tasks
  BY Says
<1>2. /\ task' \in [Watches -> Tasks] /\ \A v \in Watches : v # w => task'[v] = task[v]
      /\ task'[w] = IF task[w] \in {"created", "running"} THEN "over" ELSE task[w]
  BY BlockTypes DEF CancelTask, Tasks
<1>3. /\ stage' \in [Watches -> Stages] /\ stage'[w] = "joining"
      /\ outcome' \in [Watches -> Outcomes] /\ outcome'[w] = how
      /\ \A v \in Watches : v # w => stage'[v] = stage[v] /\ outcome'[v] = outcome[v]
  BY BlockTypes DEF Stages
<1>4. Ended("joining", task'[w], how)
  BY <1>2 DEF Ended
<1>5. Account(task'[w], buffer[w], output[w], last[w], initial[w], fed[w])
  BY <1>1, <1>2 DEF Account
<1> QED BY <1>2, <1>3, <1>4, <1>5, BlockStep, BlockTypes

\* The body of a block is over.
LEMMA ExitKeeps ==
  ASSUME IInv, NEW w \in Watches, NEW how \in Outcomes, how # "raised",
         stage[w] \in {"reading", "starting", "inside"}, Exit(w, how), UNCHANGED historyVars
  PROVE IInv'
<1>1. /\ outcome' = [outcome EXCEPT ![w] = how]
      /\ \/ stage' = [stage EXCEPT ![w] = "disabling"] /\ task' = task
         \/ stage' = [stage EXCEPT ![w] = "joining"] /\ CancelTask(w)
      /\ UNCHANGED << wayVars, fed, last, initial >>
  BY Zenon DEF Exit, Goto, robotVars, historyVars, wayVars
<1>2. CASE stage' = [stage EXCEPT ![w] = "disabling"] /\ task' = task
  <2>1. Account(task[w], buffer[w], output[w], last[w], initial[w], fed[w])
    BY Says
  <2>2. /\ stage' \in [Watches -> Stages] /\ stage'[w] = "disabling"
        /\ outcome' \in [Watches -> Outcomes] /\ outcome'[w] = how
        /\ \A v \in Watches : v # w => stage'[v] = stage[v] /\ outcome'[v] = outcome[v]
    BY <1>1, <1>2, BlockTypes DEF Stages
  <2>3. Ended("disabling", task[w], how)
    BY DEF Ended
  <2> QED BY <1>1, <1>2, <2>1, <2>2, <2>3, BlockStep, BlockTypes
<1>3. CASE stage' = [stage EXCEPT ![w] = "joining"] /\ CancelTask(w)
  BY <1>1, <1>3, JoinKeeps
<1> QED BY <1>1, <1>2, <1>3

\* disable() ends, and may forget the events.
LEMMA DisabledKeeps ==
  ASSUME IInv, NEW w \in Watches, Disabled(w)
  PROVE IInv'
<1>1. /\ stage[w] = "disabling" /\ stage' = [stage EXCEPT ![w] = "joining"] /\ CancelTask(w)
      /\ \/ outcome' = [outcome EXCEPT ![w] = "cancelled"] /\ events' = events
         \/ outcome' = outcome /\ events' = << >>
      /\ UNCHANGED << now, output, last, buffer, initial, fed >>
  BY Zenon DEF Disabled, Goto, robotVars, historyVars
<1>2. /\ Account(task[w], buffer[w], output[w], last[w], initial[w], fed[w])
      /\ Ended(stage[w], task[w], outcome[w]) /\ task[w] \in Tasks
  BY Says
<1>3. /\ task' \in [Watches -> Tasks] /\ \A v \in Watches : v # w => task'[v] = task[v]
      /\ task'[w] = IF task[w] \in {"created", "running"} THEN "over" ELSE task[w]
  BY <1>1, BlockTypes DEF CancelTask, Tasks
<1>4. /\ stage' \in [Watches -> Stages] /\ stage'[w] = "joining"
      /\ \A v \in Watches : v # w => stage'[v] = stage[v]
  BY <1>1, BlockTypes DEF Stages
<1>5. /\ outcome' \in [Watches -> Outcomes] /\ outcome'[w] # "raised"
      /\ \A v \in Watches : v # w => outcome'[v] = outcome[v]
  <2>1. outcome[w] # "raised"
    BY <1>1, <1>2 DEF Ended
  <2> QED BY <1>1, <2>1, BlockTypes DEF Outcomes
<1>6. Ended("joining", task'[w], outcome'[w])
  BY <1>3, <1>5 DEF Ended
<1>7. Account(task'[w], buffer[w], output[w], last[w], initial[w], fed[w])
  BY <1>2, <1>3 DEF Account
<1>8. events' \in Seq(Nat) /\ \A v \in Watches : Flow(buffer[v], output[v], events', now)
  <2>1. ASSUME NEW v \in Watches
        PROVE Flow(buffer[v], output[v], events, now) /\ Flow(buffer[v], output[v], << >>, now)
    BY Says, FlowCleared
  <2>2. events \in Seq(Nat)
    BY DEF IInv, Typed
  <2> QED BY <1>1, <2>1, <2>2, EmptyHasNone
<1>9. Typed'
  BY <1>1, <1>3, <1>4, <1>5, <1>8, Zenon DEF IInv, Typed
<1>10. ASSUME NEW v \in Watches
       PROVE /\ Account(task'[v], buffer[v], output[v], last[v], initial[v], fed[v])
             /\ Ended(stage'[v], task'[v], outcome'[v])
  <2>1. /\ Account(task[v], buffer[v], output[v], last[v], initial[v], fed[v])
        /\ Ended(stage[v], task[v], outcome[v])
    BY Says
  <2> QED BY <1>3, <1>4, <1>5, <1>6, <1>7, <2>1
<1>11. FlowInv' /\ AccountInv' /\ EndedInv'
  BY <1>1, <1>8, <1>10 DEF FlowInv, AccountInv, EndedInv
<1> QED BY <1>9, <1>11 DEF IInv

\* The task has been joined.
LEMMA JoinedKeeps ==
  ASSUME IInv, NEW w \in Watches, Joined(w)
  PROVE IInv'
<1>1. /\ stage[w] = "joining" /\ stage' = [stage EXCEPT ![w] = "left"]
      /\ outcome' = [outcome EXCEPT ![w] = IF task[w] \in {"failed", "reported"} THEN "raised" ELSE @]
      /\ UNCHANGED << wayVars, fed, last, initial, task >>
  BY Zenon DEF Joined, Goto, robotVars, taskVars, historyVars, wayVars
<1>2. Account(task[w], buffer[w], output[w], last[w], initial[w], fed[w]) /\ Ended(stage[w], task[w], outcome[w])
  BY Says
<1>3. /\ stage' \in [Watches -> Stages] /\ stage'[w] = "left"
      /\ outcome' \in [Watches -> Outcomes]
      /\ outcome'[w] = IF task[w] \in {"failed", "reported"} THEN "raised" ELSE outcome[w]
      /\ \A v \in Watches : v # w => stage'[v] = stage[v] /\ outcome'[v] = outcome[v]
  BY <1>1, BlockTypes DEF Stages, Outcomes
<1>4. Ended("left", task[w], outcome'[w])
  BY <1>1, <1>2, <1>3 DEF Ended
<1> QED BY <1>1, <1>2, <1>3, <1>4, BlockStep, BlockTypes

-----------------------------------------------------------------------------
(* Every step, and the theorems.                                           *)

\* No step breaks the invariant.
LEMMA NextKeeps ==
  ASSUME IInv, [Next]_vars
  PROVE IInv'
<1>1. CASE UNCHANGED vars
  <2>1. UNCHANGED << wayVars, accountVars, endVars >>
    BY <1>1, Zenon DEF vars, robotVars, blockVars, taskVars, historyVars, wayVars, accountVars, endVars
  <2> QED BY <2>1, QuietStep
<1>2. ASSUME NEW w \in Watches, Iterate(w) \/ Cancel(w) PROVE IInv'
  <2>1. UNCHANGED << wayVars, accountVars, endVars >>
    BY <1>2, Zenon DEF Iterate, Cancel, robotVars, blockVars, taskVars, historyVars, wayVars, accountVars, endVars
  <2> QED BY <2>1, QuietStep
<1>3. ASSUME NEW w \in Watches, Break(w) \/ Interrupt(w) PROVE IInv'
  <2>1. \/ stage[w] = "inside" /\ Exit(w, "normal") /\ UNCHANGED historyVars
        \/ stage[w] \in {"reading", "starting", "inside"} /\ Exit(w, "cancelled") /\ UNCHANGED historyVars
    BY <1>3, Zenon DEF Break, Interrupt
  <2>2. "normal" \in Outcomes \ {"raised"} /\ "cancelled" \in Outcomes \ {"raised"}
    BY DEF Outcomes
  <2> QED BY <2>1, <2>2, ExitKeeps
<1>4. CASE Next
  BY <1>2, <1>3, <1>4, SampleKeeps, EmitKeeps, BroadcastKeeps, StartKeeps, PumpKeeps, OnTaskDoneKeeps, EnterKeeps,
     ReadInitialKeeps, StartedKeeps, DisabledKeeps, JoinedKeeps, Zenon DEF Next, Works, Runs
<1> QED BY <1>1, <1>4

\* It holds at the beginning.
LEMMA InitHolds ==
  ASSUME Init
  PROVE IInv
<1>1. /\ now = 0 /\ events = << >>
      /\ stage = [w \in Watches |-> "idle"] /\ output = [w \in Watches |-> << >>]
      /\ last = [w \in Watches |-> NoSample] /\ task = [w \in Watches |-> "none"]
      /\ buffer = [w \in Watches |-> << >>] /\ outcome = [w \in Watches |-> "open"]
      /\ initial = [w \in Watches |-> NoSample] /\ fed = [w \in Watches |-> {}]
  BY Zenon DEF Init
<1>2. Typed
  BY <1>1, EmptyHasNone DEF Typed, Stages, Tasks, Outcomes
<1>3. Flow(<< >>, << >>, << >>, 0)
  BY EmptyHasNone, Zenon DEF Flow, Rising, Ascending, UpTo, Below
<1>4. Account("none", << >>, << >>, NoSample, NoSample, {}) /\ Ended("idle", "none", "open")
  BY DEF Account, Ended
<1>5. FlowInv /\ AccountInv /\ EndedInv
  BY <1>1, <1>3, <1>4 DEF FlowInv, AccountInv, EndedInv
<1> QED BY <1>2, <1>5 DEF IInv

\* The invariant.
LEMMA Invariance == Spec => []IInv
<1>1. Init => IInv
  BY InitHolds
<1>2. IInv /\ [Next]_vars => IInv'
  BY NextKeeps
<1> QED BY <1>1, <1>2, PTL DEF Spec

\* SamplesOnce, for any number of blocks, samples, events and cancellations: a
\* block buffers the samples in their order, each once, and misses none but the
\* initial one that it skips.
THEOREM SamplesOnceHolds == Spec => []SamplesOnce
<1>1. IInv => SamplesOnce
  <2> SUFFICES ASSUME IInv, NEW w \in Watches
      PROVE /\ \A i, j \in DOMAIN buffer[w] : i < j => buffer[w][i] < buffer[w][j]
            /\ task[w] \in {"created", "running"} =>
                 fed[w] \subseteq Range(buffer[w]) \cup Range(output[w]) \cup {initial[w]}
    BY Zenon DEF SamplesOnce
  <2>1. /\ Flow(buffer[w], output[w], events, now)
        /\ Account(task[w], buffer[w], output[w], last[w], initial[w], fed[w])
    BY Says
  <2>2. Range(buffer[w]) = ToSet(buffer[w]) /\ Range(output[w]) = ToSet(output[w])
    BY Zenon DEF Range, ToSet
  <2>3. \A i, j \in DOMAIN buffer[w] : i < j => buffer[w][i] < buffer[w][j]
    BY <2>1, Zenon DEF Flow, Rising
  <2> QED BY <2>1, <2>2, <2>3 DEF Account
<1> QED BY <1>1, Invariance, PTL

\* FailureIsRaised, likewise: a block that is left has raised exactly if its
\* background task has failed.
THEOREM FailureIsRaisedHolds == Spec => []FailureIsRaised
<1>1. IInv => FailureIsRaised
  BY Zenon DEF IInv, EndedInv, Ended, FailureIsRaised
<1> QED BY <1>1, Invariance, PTL
=============================================================================
