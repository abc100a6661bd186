------------------------- MODULE EvoVelocityProofs -------------------------
(***************************************************************************)
(* Proofs about EvoVelocity: set_velocity gives the condition's lock back  *)
(* only when its own call has it.                                          *)
(*                                                                         *)
(* LockIsBack speaks of the moment before the release, which is the last   *)
(* of a dozen suspensions; the invariant follows the lock through all of   *)
(* them.  Orderly(c) says of each call who of its two tasks may stand in   *)
(* the queue of the lock at which point: the call itself, until its wait   *)
(* has started and given the lock away for it, or its wait, from being     *)
(* woken or cancelled until the end, and never both.  The queue has no     *)
(* entry twice, so whoever leaves it leaves nothing behind.                *)
(***************************************************************************)
EXTENDS EvoVelocity, SequenceTheorems, WellFoundedInduction, TLAPS

-----------------------------------------------------------------------------
(* Lists.                                                                  *)

\* The order of the natural numbers, as a relation,
InOrder == {p \in Nat \X Nat : p[1] < p[2]}

\* is well founded: the library's theorem about the order of the naturals.
LEMMA NatIsInOrder == IsWellFoundedOn(InOrder, Nat)
  BY NatLessThanWellFounded, Zenon DEF InOrder, OpToRel

\* Every set of naturals has a least element.
LEMMA LeastOf == ASSUME NEW T \in SUBSET Nat, T # {} PROVE \E n \in T : \A m \in T : n <= m
<1>1. PICK n \in T : \A m \in T : << m, n >> \notin InOrder
  BY WFMin, NatIsInOrder, Zenon
<1>2. \A m \in T : << m, n >> \in Nat \X Nat /\ << m, n >>[1] = m /\ << m, n >>[2] = n
  OBVIOUS
<1>3. \A m \in T : ~ m < n
  BY <1>1, <1>2, Zenon DEF InOrder
<1> QED BY <1>3

\* The tail of a sequence, position by position.
LEMMA TailIs ==
  ASSUME NEW X, NEW s \in Seq(X), s # << >>
  PROVE /\ Tail(s) \in Seq(X) /\ 1 \in DOMAIN s /\ Head(s) = s[1]
        /\ \A i \in DOMAIN Tail(s) : i \in Nat /\ i + 1 \in DOMAIN s /\ i + 1 # 1 /\ Tail(s)[i] = s[i + 1]
        /\ \A i \in DOMAIN s : i # 1 => i - 1 \in DOMAIN Tail(s) /\ i = (i - 1) + 1 /\ Tail(s)[i - 1] = s[i]
  BY HeadTailProperties, LenProperties, EmptySeq

\* A sequence with one more element, position by position.
LEMMA AppendIs ==
  ASSUME NEW X, NEW s \in Seq(X), NEW e \in X
  PROVE /\ Append(s, e) \in Seq(X)
        /\ \A i \in DOMAIN Append(s, e) : \/ i \in DOMAIN s /\ Append(s, e)[i] = s[i]
                                          \/ i = Len(s) + 1 /\ Append(s, e)[i] = e
        /\ \A i \in DOMAIN s : i \in Nat /\ i < Len(s) + 1 /\ i \in DOMAIN Append(s, e) /\ Append(s, e)[i] = s[i]
        /\ Len(s) + 1 \in DOMAIN Append(s, e) /\ Len(s) + 1 \in Nat /\ Append(s, e)[Len(s) + 1] = e
  BY AppendProperties, LenProperties

\* A sequence without its k-th element, position by position.
LEMMA RemoveAtIs ==
  ASSUME NEW X, NEW s \in Seq(X), NEW k \in DOMAIN s
  PROVE /\ RemoveAt(s, k) \in Seq(X)
        /\ \A i \in DOMAIN RemoveAt(s, k) : \/ i < k /\ i \in DOMAIN s /\ RemoveAt(s, k)[i] = s[i]
                                            \/ i >= k /\ i \in Nat /\ i + 1 \in DOMAIN s /\ RemoveAt(s, k)[i] = s[i + 1]
        /\ \A i \in DOMAIN s : /\ i < k => i \in DOMAIN RemoveAt(s, k) /\ RemoveAt(s, k)[i] = s[i]
                               /\ i > k => i - 1 \in DOMAIN RemoveAt(s, k) /\ RemoveAt(s, k)[i - 1] = s[i]
<1> DEFINE before == SubSeq(s, 1, k - 1)
           after == SubSeq(s, k + 1, Len(s))
<1>1. Len(s) \in Nat /\ k \in 1 .. Len(s) /\ DOMAIN s = 1 .. Len(s) /\ \A i \in 1 .. Len(s) : s[i] \in X
  BY LenProperties
<1>2. before \in Seq(X) /\ Len(before) = k - 1 /\ \A i \in 1 .. k - 1 : before[i] = s[i]
  <2>1. \A i \in 1 .. k - 1 : s[i] \in X
    BY <1>1
  <2>2. 1 \in Int /\ k - 1 \in Int
    BY <1>1
  <2>3. /\ before \in Seq(X) /\ Len(before) = IF 1 <= k - 1 THEN (k - 1) - 1 + 1 ELSE 0
        /\ \A i \in 1 .. (k - 1) - 1 + 1 : before[i] = s[1 + i - 1]
    BY <2>1, <2>2, SubSeqProperties
  <2> HIDE DEF before
  <2> QED BY <1>1, <2>3
<1>3. after \in Seq(X) /\ Len(after) = Len(s) - k /\ \A i \in 1 .. Len(s) - k : after[i] = s[k + i]
  <2>1. \A i \in k + 1 .. Len(s) : s[i] \in X
    BY <1>1
  <2>2. k + 1 \in Int /\ Len(s) \in Int
    BY <1>1
  <2>3. /\ after \in Seq(X) /\ Len(after) = IF k + 1 <= Len(s) THEN Len(s) - (k + 1) + 1 ELSE 0
        /\ \A i \in 1 .. Len(s) - (k + 1) + 1 : after[i] = s[(k + 1) + i - 1]
    BY <2>1, <2>2, SubSeqProperties
  <2> HIDE DEF after
  <2>4. Len(after) = Len(s) - k
    BY <1>1, <2>3
  <2>5. ASSUME NEW i \in 1 .. Len(s) - k PROVE after[i] = s[k + i]
    <3>1. i \in 1 .. Len(s) - (k + 1) + 1 /\ (k + 1) + i - 1 = k + i
      BY <1>1
    <3> QED BY <2>3, <3>1
  <2> QED BY <2>3, <2>4, <2>5
<1>4. RemoveAt(s, k) = before \o after
  BY Zenon DEF RemoveAt
<1> HIDE DEF before, after
<1>5. /\ before \o after \in Seq(X) /\ Len(before \o after) = Len(before) + Len(after)
      /\ \A i \in 1 .. Len(before) + Len(after) :
           (before \o after)[i] = IF i <= Len(before) THEN before[i] ELSE after[i - Len(before)]
  BY <1>2, <1>3, ConcatProperties
<1>6. DOMAIN RemoveAt(s, k) = 1 .. Len(s) - 1 /\ RemoveAt(s, k) \in Seq(X)
  <2>1. Len(before) + Len(after) = Len(s) - 1
    BY <1>1, <1>2, <1>3
  <2> QED BY <1>4, <1>5, <2>1, LenProperties
<1>7. ASSUME NEW i \in 1 .. Len(s) - 1 PROVE RemoveAt(s, k)[i] = IF i < k THEN s[i] ELSE s[i + 1]
  <2>1. i \in 1 .. Len(before) + Len(after) /\ (i <= Len(before) <=> i < k)
    BY <1>1, <1>2, <1>3
  <2>2. CASE i < k
    BY <1>1, <1>2, <1>4, <1>5, <2>1, <2>2
  <2>3. CASE ~ i < k
    <3>1. i - Len(before) \in 1 .. Len(s) - k /\ k + (i - Len(before)) = i + 1
      BY <1>1, <1>2, <2>3
    <3>2. RemoveAt(s, k)[i] = after[i - Len(before)]
      BY <1>4, <1>5, <2>1, <2>3
    <3> QED BY <1>3, <2>3, <3>1, <3>2
  <2> QED BY <2>2, <2>3
<1> HIDE DEF RemoveAt
<1> QED BY <1>1, <1>6, <1>7

\* The least of some positions is one of them.
LEMMA FirstIs ==
  ASSUME NEW I \in SUBSET Nat, I # {}
  PROVE Min(I) \in I
  BY LeastOf, Zenon DEF Min

\* list.remove takes the element out at some position where it is,
LEMMA RemoveFirstIs ==
  ASSUME NEW X, NEW s \in Seq(X), NEW e \in ToSet(s)
  PROVE \E k \in DOMAIN s : s[k] = e /\ RemoveFirst(s, e) = RemoveAt(s, k)
<1> DEFINE I == {i \in 1 .. Len(s) : s[i] = e}
<1>1. DOMAIN s = 1 .. Len(s) /\ Len(s) \in Nat
  BY LenProperties
<1>2. I # {}
  BY <1>1 DEF ToSet
<1>3. I \in SUBSET Nat
  BY <1>1
<1>4. Min(I) \in I
  BY <1>2, <1>3, FirstIs
<1>5. \E i \in 1 .. Len(s) : s[i] = e
  BY <1>2
<1>6. SelectInSeq(s, LAMBDA v : v = e) = Min(I)
  BY <1>2, Zenon DEF SelectInSeq
<1>7. RemoveFirst(s, e) = RemoveAt(s, Min(I))
  BY <1>5, <1>6, Zenon DEF RemoveFirst
<1> QED BY <1>1, <1>4, <1>7

\* and leaves a list without it as it is.
LEMMA RemoveAbsent ==
  ASSUME NEW X, NEW s \in Seq(X), NEW e, e \notin ToSet(s)
  PROVE RemoveFirst(s, e) = s
<1>1. DOMAIN s = 1 .. Len(s)
  BY LenProperties
<1>2. ~ \E i \in 1 .. Len(s) : s[i] = e
  BY <1>1 DEF ToSet
<1> QED BY <1>2, Zenon DEF RemoveFirst

-----------------------------------------------------------------------------
(* A queue without repetitions.                                            *)

\* The entries of the queue of the lock.
Pairs == {"call", "wait"} \X Calls

\* No entry is in the queue twice.
Distinct(s) == \A i, j \in DOMAIN s : s[i] = s[j] => i = j

\* One that is not in the queue joins it at the end: a head stays the head.
LEMMA QueueJoined ==
  ASSUME NEW X, NEW q \in Seq(X), Distinct(q), NEW e \in X, e \notin ToSet(q)
  PROVE /\ Append(q, e) \in Seq(X) /\ Distinct(Append(q, e))
        /\ \A x : x \in ToSet(Append(q, e)) <=> x \in ToSet(q) \/ x = e
        /\ q # << >> => Append(q, e) # << >> /\ Head(Append(q, e)) = Head(q)
<1> DEFINE t == Append(q, e)
<1>1. /\ t \in Seq(X)
      /\ \A i \in DOMAIN t : \/ i \in DOMAIN q /\ t[i] = q[i]
                             \/ i = Len(q) + 1 /\ t[i] = e
      /\ \A i \in DOMAIN q : i \in DOMAIN t /\ t[i] = q[i]
      /\ Len(q) + 1 \in DOMAIN t /\ t[Len(q) + 1] = e
  BY AppendIs
<1>2. q # << >> => t # << >> /\ Head(t) = Head(q)
  BY HeadTailProperties, AppendProperties, LenProperties, EmptySeq
<1> HIDE DEF t
<1>3. \A i \in DOMAIN q : q[i] # e
  BY Zenon DEF ToSet
<1>4. Distinct(t)
  BY <1>1, <1>3, Zenon DEF Distinct
<1>5. \A x : x \in ToSet(t) <=> x \in ToSet(q) \/ x = e
  BY <1>1, Zenon DEF ToSet
<1> QED BY <1>1, <1>2, <1>4, <1>5 DEF t

\* The head leaves, and is nowhere else.
LEMMA QueueServed ==
  ASSUME NEW X, NEW q \in Seq(X), Distinct(q), q # << >>
  PROVE /\ Tail(q) \in Seq(X) /\ Distinct(Tail(q))
        /\ \A x : x \in ToSet(Tail(q)) <=> x \in ToSet(q) /\ x # Head(q)
<1> DEFINE t == Tail(q)
<1>1. /\ t \in Seq(X) /\ 1 \in DOMAIN q /\ Head(q) = q[1]
      /\ \A i \in DOMAIN t : i \in Nat /\ i + 1 \in DOMAIN q /\ i + 1 # 1 /\ t[i] = q[i + 1]
      /\ \A i \in DOMAIN q : i # 1 => i - 1 \in DOMAIN t /\ i = (i - 1) + 1 /\ t[i - 1] = q[i]
  BY TailIs
<1> HIDE DEF t
<1>2. Distinct(t)
  <2>1. ASSUME NEW i \in DOMAIN t, NEW j \in DOMAIN t, t[i] = t[j] PROVE i = j
    <3>1. /\ i + 1 \in DOMAIN q /\ j + 1 \in DOMAIN q /\ q[i + 1] = q[j + 1]
          /\ i \in Nat /\ j \in Nat
      BY <1>1, <2>1
    <3>2. i + 1 = j + 1
      BY <3>1, Zenon DEF Distinct
    <3> QED BY <3>1, <3>2
  <2> QED BY <2>1, Zenon DEF Distinct
<1>3. ASSUME NEW x \in ToSet(t) PROVE x \in ToSet(q) /\ x # Head(q)
  <2>1. PICK i \in DOMAIN t : x = t[i]
    BY Zenon DEF ToSet
  <2>2. PICK j \in DOMAIN q : j # 1 /\ x = q[j]
    BY <1>1, <2>1, Zenon
  <2> QED BY <1>1, <2>2, Zenon DEF ToSet, Distinct
<1>4. ASSUME NEW x \in ToSet(q), x # Head(q) PROVE x \in ToSet(t)
  <2>1. PICK i \in DOMAIN q : x = q[i]
    BY Zenon DEF ToSet
  <2> QED BY <1>1, <1>4, <2>1, Zenon DEF ToSet
<1> QED BY <1>1, <1>2, <1>3, <1>4, Zenon DEF t

\* One leaves from wherever it is; the head stays unless it is the one.
LEMMA QueueLeft ==
  ASSUME NEW X, NEW q \in Seq(X), Distinct(q), NEW e
  PROVE /\ RemoveFirst(q, e) \in Seq(X) /\ Distinct(RemoveFirst(q, e))
        /\ \A x : x \in ToSet(RemoveFirst(q, e)) <=> x \in ToSet(q) /\ x # e
        /\ q # << >> /\ Head(q) # e => RemoveFirst(q, e) # << >> /\ Head(RemoveFirst(q, e)) = Head(q)
<1>1. CASE e \notin ToSet(q)
  <2>1. RemoveFirst(q, e) = q
    BY <1>1, RemoveAbsent
  <2> QED BY <1>1, <2>1, Zenon
<1>2. CASE e \in ToSet(q)
  <2>1. PICK k \in DOMAIN q : q[k] = e /\ RemoveFirst(q, e) = RemoveAt(q, k)
    BY <1>2, RemoveFirstIs
  <2> DEFINE t == RemoveAt(q, k)
  <2>2. /\ t \in Seq(X)
        /\ \A i \in DOMAIN t : \/ i < k /\ i \in DOMAIN q /\ t[i] = q[i]
                               \/ i >= k /\ i \in Nat /\ i + 1 \in DOMAIN q /\ t[i] = q[i + 1]
        /\ \A i \in DOMAIN q : /\ i < k => i \in DOMAIN t /\ t[i] = q[i]
                               /\ i > k => i - 1 \in DOMAIN t /\ t[i - 1] = q[i]
    BY RemoveAtIs
  <2>3. DOMAIN q = 1 .. Len(q) /\ Len(q) \in Nat
    BY LenProperties
  <2> HIDE DEF t
  <2>4. Distinct(t)
    BY <2>2, <2>3 DEF Distinct
  <2>5. \A i \in DOMAIN q : i # k => q[i] # e
    BY <2>1, Zenon DEF Distinct
  <2>6. ASSUME NEW x \in ToSet(t) PROVE x \in ToSet(q) /\ x # e
    <3>1. PICK i \in DOMAIN t : x = t[i]
      BY Zenon DEF ToSet
    <3>2. \/ i < k /\ i \in DOMAIN q /\ x = q[i]
          \/ i >= k /\ i \in Nat /\ i + 1 \in DOMAIN q /\ x = q[i + 1]
      BY <2>2, <3>1, Zenon
    <3>3. i < k => i # k
      BY <2>3, <3>2
    <3>4. i >= k /\ i \in Nat => i + 1 # k
      BY <2>3
    <3>5. \E j \in DOMAIN q : x = q[j] /\ j # k
      BY <3>2, <3>3, <3>4, Zenon
    <3> QED BY <2>5, <3>5, Zenon DEF ToSet
  <2>7. ASSUME NEW x \in ToSet(q), x # e PROVE x \in ToSet(t)
    <3>1. PICK i \in DOMAIN q : x = q[i]
      BY Zenon DEF ToSet
    <3>2. i # k
      BY <2>1, <2>7, <3>1
    <3>3. i < k \/ i > k
      BY <2>3, <3>2
    <3>4. \E j \in DOMAIN t : t[j] = q[i]
      BY <2>2, <3>3, Zenon
    <3> QED BY <3>1, <3>4, Zenon DEF ToSet
  <2>8. ASSUME Head(q) # e PROVE t # << >> /\ Head(t) = Head(q)
    <3>1. q # << >> /\ Head(q) = q[1] /\ 1 \in DOMAIN q
      <4>1. q # << >>
        BY <2>3, EmptySeq
      <4> QED BY <4>1, TailIs
    <3>2. k # 1
      BY <2>1, <2>8, <3>1
    <3>3. 1 < k /\ 1 \in DOMAIN t /\ t[1] = q[1]
      BY <2>2, <2>3, <3>1, <3>2
    <3>4. t # << >>
      BY <3>3
    <3>5. Head(t) = t[1]
      BY <2>2, <3>4, TailIs
    <3> QED BY <3>1, <3>3, <3>4, <3>5
  <2> QED BY <2>1, <2>2, <2>4, <2>6, <2>7, <2>8, Zenon DEF t
<1> QED BY <1>1, <1>2

-----------------------------------------------------------------------------
(* The invariant.                                                          *)

\* Where a call can be, and where its wait can be.
Parents == {"idle", "locking", "waiting", "joining", "left"}
Waits == {"none", "created", "waiting", "woken", "interrupted", "acquiring", "reraising"} \cup Over

\* The call or its wait owns the lock or waits for it.
InQueue(kind, c) == << kind, c >> \in ToSet(lockQueue)

\* The types of the variables the lock depends on, and its queue.
Typed ==
  /\ parent \in [Calls -> Parents] /\ wait \in [Calls -> Waits]
  /\ waiters \in Seq(Calls)
  /\ lockQueue \in Seq(Pairs) /\ Distinct(lockQueue)

\* The call is between taking and releasing the lock.
Inside(c) == parent[c] \in {"waiting", "joining"}

\* The tasks of a call, and which of them is in the queue of the lock.
Orderly(c) ==
  /\ wait[c] \notin Over \cup {"none"} => Inside(c)
  /\ Inside(c) => wait[c] # "none"
  /\ parent[c] \in {"idle", "locking"} => wait[c] = "none"
  /\ InQueue("call", c) => parent[c] = "locking" \/ (Inside(c) /\ wait[c] \in {"created", "cancelled"})
  /\ InQueue("wait", c) => Inside(c) /\ wait[c] \in {"acquiring", "reraising"} \cup Over
  /\ ~ (InQueue("call", c) /\ InQueue("wait", c))
  /\ Inside(c) /\ wait[c] = "created" => Holds("call", c)
  /\ Inside(c) /\ wait[c] \in Over => Holds("call", c) \/ Holds("wait", c)

\* The inductive invariant.
IInv == Typed /\ \A c \in Calls : Orderly(c)

\* A step of one call leaves another one in order: it may take the notification,
\* and its entries in the queue can only move to the front.
LEMMA OthersStay ==
  ASSUME IInv, NEW d \in Calls, parent'[d] = parent[d],
         wait'[d] = wait[d] \/ (wait[d] = "waiting" /\ wait'[d] = "woken"),
         \A kind \in {"call", "wait"} : InQueue(kind, d)' => InQueue(kind, d),
         \A kind \in {"call", "wait"} : Holds(kind, d) => Holds(kind, d)'
  PROVE Orderly(d)'
<1>1. Orderly(d)
  BY Zenon DEF IInv
<1>2. /\ InQueue("call", d)' => InQueue("call", d)
      /\ InQueue("wait", d)' => InQueue("wait", d)
      /\ Holds("call", d) => Holds("call", d)'
      /\ Holds("wait", d) => Holds("wait", d)'
  OBVIOUS
<1>3. Inside(d)' <=> Inside(d)
  BY DEF Inside
<1>4. CASE wait'[d] = wait[d]
  BY <1>1, <1>2, <1>3, <1>4, Zenon DEF Orderly
<1>5. CASE wait[d] = "waiting" /\ wait'[d] = "woken"
  BY <1>1, <1>2, <1>3, <1>5 DEF Orderly, Over
<1> QED BY <1>4, <1>5

\* The queue of the lock when a call or a wait asks for it,
LEMMA LockJoined ==
  ASSUME IInv, NEW kind \in {"call", "wait"}, NEW c \in Calls, ~ InQueue(kind, c),
         lockQueue' = Append(lockQueue, << kind, c >>)
  PROVE /\ lockQueue' \in Seq(Pairs) /\ Distinct(lockQueue')
        /\ \A k, d : InQueue(k, d)' <=> InQueue(k, d) \/ (k = kind /\ d = c)
        /\ \A k, d : Holds(k, d) => Holds(k, d)'
<1> DEFINE e == << kind, c >>
           t == Append(lockQueue, e)
<1>1. lockQueue \in Seq(Pairs) /\ Distinct(lockQueue)
  BY Zenon DEF IInv, Typed
<1>2. e \in Pairs /\ e \notin ToSet(lockQueue)
  BY DEF Pairs, InQueue
<1> HIDE DEF e
<1>3. /\ t \in Seq(Pairs) /\ Distinct(t)
      /\ \A x : x \in ToSet(t) <=> x \in ToSet(lockQueue) \/ x = e
      /\ lockQueue # << >> => t # << >> /\ Head(t) = Head(lockQueue)
  BY <1>1, <1>2, QueueJoined
<1>4. lockQueue' = t
  BY DEF e
<1> HIDE DEF t
<1>5. \A k, d : InQueue(k, d)' <=> InQueue(k, d) \/ << k, d >> = e
  BY <1>3, <1>4, Zenon DEF InQueue
<1>6. \A k, d : << k, d >> = e <=> k = kind /\ d = c
  BY DEF e
<1>7. \A k, d : Holds(k, d) => Holds(k, d)'
  BY <1>3, <1>4 DEF Holds
<1> QED BY <1>3, <1>4, <1>5, <1>6, <1>7

\* when the owner releases it,
LEMMA LockServed ==
  ASSUME IInv, NEW kind \in {"call", "wait"}, NEW c \in Calls, Holds(kind, c),
         lockQueue' = Tail(lockQueue)
  PROVE /\ lockQueue' \in Seq(Pairs) /\ Distinct(lockQueue')
        /\ \A k, d : InQueue(k, d)' <=> InQueue(k, d) /\ ~ (k = kind /\ d = c)
        /\ \A k, d : Holds(k, d) => k = kind /\ d = c
        /\ InQueue(kind, c)
<1>1. lockQueue \in Seq(Pairs) /\ Distinct(lockQueue)
  BY Zenon DEF IInv, Typed
<1>2. lockQueue # << >> /\ Head(lockQueue) = << kind, c >>
  BY Zenon DEF Holds
<1>3. /\ lockQueue' \in Seq(Pairs) /\ Distinct(lockQueue')
      /\ \A x : x \in ToSet(lockQueue') <=> x \in ToSet(lockQueue) /\ x # << kind, c >>
  <2>1. /\ Tail(lockQueue) \in Seq(Pairs) /\ Distinct(Tail(lockQueue))
        /\ \A x : x \in ToSet(Tail(lockQueue)) <=> x \in ToSet(lockQueue) /\ x # Head(lockQueue)
    BY <1>1, <1>2, QueueServed
  <2> QED BY <1>2, <2>1
<1>4. \A k, d : << k, d >> = << kind, c >> <=> k = kind /\ d = c
  OBVIOUS
<1>5. \A k, d : InQueue(k, d)' <=> InQueue(k, d) /\ ~ (k = kind /\ d = c)
  BY <1>3, <1>4, Zenon DEF InQueue
<1>6. \A k, d : Holds(k, d) => k = kind /\ d = c
  BY <1>2, <1>4 DEF Holds
<1>7. InQueue(kind, c)
  <2>1. 1 \in DOMAIN lockQueue /\ lockQueue[1] = << kind, c >>
    BY <1>1, <1>2, TailIs
  <2> QED BY <2>1, Zenon DEF InQueue, ToSet
<1> QED BY <1>3, <1>5, <1>6, <1>7

\* and when one that only waits for it gives up.
LEMMA LockLeft ==
  ASSUME IInv, NEW kind \in {"call", "wait"}, NEW c \in Calls, NEW q,
         q = RemoveFirst(lockQueue, << kind, c >>)
  PROVE /\ q \in Seq(Pairs) /\ Distinct(q)
        /\ \A k, d : << k, d >> \in ToSet(q) <=> InQueue(k, d) /\ ~ (k = kind /\ d = c)
        /\ \A k, d : Holds(k, d) /\ ~ (k = kind /\ d = c) => q # << >> /\ Head(q) = << k, d >>
<1>1. lockQueue \in Seq(Pairs) /\ Distinct(lockQueue)
  BY Zenon DEF IInv, Typed
<1>3. /\ q \in Seq(Pairs) /\ Distinct(q)
      /\ \A x : x \in ToSet(q) <=> x \in ToSet(lockQueue) /\ x # << kind, c >>
      /\ lockQueue # << >> /\ Head(lockQueue) # << kind, c >> =>
           q # << >> /\ Head(q) = Head(lockQueue)
  BY <1>1, QueueLeft
<1>4. \A k, d : << k, d >> = << kind, c >> <=> k = kind /\ d = c
  OBVIOUS
<1>5. \A k, d : << k, d >> \in ToSet(q) <=> InQueue(k, d) /\ ~ (k = kind /\ d = c)
  BY <1>3, <1>4, Zenon DEF InQueue
<1>6. \A k, d : Holds(k, d) /\ ~ (k = kind /\ d = c) => q # << >> /\ Head(q) = << k, d >>
  BY <1>3, <1>4 DEF Holds
<1> QED BY <1>3, <1>5, <1>6

\* A notification changes one wait at most, from waiting to woken.
LEMMA Notified ==
  ASSUME NEW w \in [Calls -> Waits], waiters \in Seq(Calls)
  PROVE /\ Notify(w) \in [Calls -> Waits]
        /\ \A c \in Calls : Notify(w)[c] = w[c] \/ (w[c] = "waiting" /\ Notify(w)[c] = "woken")
<1> DEFINE I == {k \in 1 .. Len(waiters) : w[waiters[k]] = "waiting"}
           i == SelectInSeq(waiters, LAMBDA c : w[c] = "waiting")
<1>1. Notify(w) = IF i = 0 THEN w ELSE [w EXCEPT ![waiters[i]] = "woken"]
  BY Zenon DEF Notify
<1>2. i = IF I # {} THEN Min(I) ELSE 0
  BY Zenon DEF SelectInSeq
<1>3. i # 0 => w[waiters[i]] = "waiting"
  <2> SUFFICES ASSUME I # {} PROVE w[waiters[Min(I)]] = "waiting"
    BY <1>2, Zenon
  <2>1. I \in SUBSET Nat
    <3>1. 1 .. Len(waiters) \subseteq Nat
      BY LenProperties
    <3> QED BY <3>1, Zenon
  <2>2. Min(I) \in I
    <3> HIDE DEF I
    <3> QED BY <2>1, FirstIs
  <2> QED BY <2>2, Zenon
<1> HIDE DEF i
<1> QED BY <1>1, <1>3 DEF Waits

-----------------------------------------------------------------------------
(* Every step keeps it.                                                    *)

\* What the invariant depends on.
lockVars == << parent, wait, lockQueue, waiters >>

\* A step that leaves these alone keeps the invariant.
LEMMA QuietStep ==
  ASSUME IInv, UNCHANGED lockVars
  PROVE IInv'
  BY DEF IInv, Typed, Orderly, Inside, InQueue, Holds, lockVars

\* What the invariant says of a call.
LEMMA Says ==
  ASSUME IInv, NEW c \in Calls
  PROVE /\ parent \in [Calls -> Parents] /\ wait \in [Calls -> Waits]
        /\ waiters \in Seq(Calls)
        /\ lockQueue \in Seq(Pairs) /\ Distinct(lockQueue)
        /\ Orderly(c)
  BY Zenon DEF IInv, Typed

\* The owner of the lock is in its queue.
LEMMA HolderIsInQueue ==
  ASSUME IInv, NEW kind, NEW c, Holds(kind, c)
  PROVE InQueue(kind, c)
<1>1. lockQueue \in Seq(Pairs) /\ lockQueue # << >> /\ Head(lockQueue) = << kind, c >>
  BY Zenon DEF IInv, Typed, Holds
<1>2. 1 \in DOMAIN lockQueue /\ lockQueue[1] = << kind, c >>
  BY <1>1, TailIs
<1> QED BY <1>2, Zenon DEF InQueue, ToSet

\* wait() starts: it gives away the lock that its call has taken.
LEMMA StartWaitKeeps ==
  ASSUME IInv, NEW c \in Calls, StartWait(c)
  PROVE IInv'
<1>1. /\ wait[c] = "created" /\ Holds("call", c)
      /\ wait' = [wait EXCEPT ![c] = "waiting"] /\ waiters' = Append(waiters, c)
      /\ lockQueue' = Tail(lockQueue) /\ parent' = parent
  BY Zenon DEF StartWait
<1>2. /\ parent \in [Calls -> Parents] /\ wait \in [Calls -> Waits] /\ waiters \in Seq(Calls)
      /\ Orderly(c)
  BY Says
<1>3. /\ lockQueue' \in Seq(Pairs) /\ Distinct(lockQueue')
      /\ \A k, d : InQueue(k, d)' <=> InQueue(k, d) /\ ~ (k = "call" /\ d = c)
      /\ \A k, d : Holds(k, d) => k = "call" /\ d = c
      /\ InQueue("call", c)
  BY <1>1, LockServed
<1>4. Typed'
  BY <1>1, <1>2, <1>3 DEF Typed, Waits
<1>5. Orderly(c)'
  BY <1>1, <1>2, <1>3 DEF Orderly, Inside, Over
<1>6. ASSUME NEW d \in Calls, d # c PROVE Orderly(d)'
  <2>1. parent'[d] = parent[d] /\ wait'[d] = wait[d]
    BY <1>1, <1>2, <1>6
  <2> QED BY <1>3, <1>6, <2>1, OthersStay
<1> QED BY <1>4, <1>5, <1>6 DEF IInv

\* It was notified or cancelled: neither of the two tasks is in the queue then.
LEMMA ResumeKeeps ==
  ASSUME IInv, NEW c \in Calls, Resume(c)
  PROVE IInv'
<1>1. /\ wait[c] \in {"woken", "interrupted"} /\ waiters' = RemoveFirst(waiters, c)
      /\ lockQueue' = Append(lockQueue, << "wait", c >>) /\ parent' = parent
      /\ wait' = [wait EXCEPT ![c] = IF @ = "woken" THEN "acquiring" ELSE "reraising"]
  BY Zenon DEF Resume
<1>2. /\ parent \in [Calls -> Parents] /\ wait \in [Calls -> Waits] /\ waiters \in Seq(Calls)
      /\ Orderly(c)
  BY Says
<1>3. ~ InQueue("wait", c) /\ ~ InQueue("call", c) /\ Inside(c)
  BY <1>1, <1>2 DEF Orderly, Inside, Over
<1>4. /\ lockQueue' \in Seq(Pairs) /\ Distinct(lockQueue')
      /\ \A k, d : InQueue(k, d)' <=> InQueue(k, d) \/ (k = "wait" /\ d = c)
      /\ \A k, d : Holds(k, d) => Holds(k, d)'
  BY <1>1, <1>3, LockJoined
<1>5. waiters' \in Seq(Calls)
  <2>1. CASE c \in ToSet(waiters)
    <3>1. PICK k \in DOMAIN waiters : RemoveFirst(waiters, c) = RemoveAt(waiters, k)
      BY <1>2, <2>1, RemoveFirstIs
    <3>2. RemoveAt(waiters, k) \in Seq(Calls)
      BY <1>2, RemoveAtIs
    <3> QED BY <1>1, <3>1, <3>2
  <2>2. CASE c \notin ToSet(waiters)
    BY <1>1, <1>2, <2>2, RemoveAbsent
  <2> QED BY <2>1, <2>2
<1>6. wait' \in [Calls -> Waits] /\ wait'[c] \in {"acquiring", "reraising"}
  BY <1>1, <1>2 DEF Waits
<1>7. Typed'
  BY <1>1, <1>2, <1>4, <1>5, <1>6, Zenon DEF Typed
<1>8. Orderly(c)'
  BY <1>1, <1>3, <1>4, <1>6 DEF Orderly, Inside, Over
<1>9. ASSUME NEW d \in Calls, d # c PROVE Orderly(d)'
  <2>1. parent'[d] = parent[d] /\ wait'[d] = wait[d]
    BY <1>1, <1>2, <1>9
  <2> QED BY <1>4, <1>9, <2>1, OthersStay
<1> QED BY <1>7, <1>8, <1>9 DEF IInv

\* It has the lock again and ends, with or without passing on a notification.
LEMMA ReacquireKeeps ==
  ASSUME IInv, NEW c \in Calls, Reacquire(c)
  PROVE IInv'
<1>1. /\ wait[c] \in {"acquiring", "reraising"} /\ Holds("wait", c)
      /\ wait' = IF wait[c] = "acquiring" THEN [wait EXCEPT ![c] = "finished"]
                                          ELSE Notify([wait EXCEPT ![c] = "cancelled"])
      /\ UNCHANGED << parent, lockQueue, waiters >>
  BY Zenon DEF Reacquire
<1>2. /\ parent \in [Calls -> Parents] /\ wait \in [Calls -> Waits] /\ waiters \in Seq(Calls)
      /\ lockQueue \in Seq(Pairs) /\ Distinct(lockQueue) /\ Orderly(c)
  BY Says
<1>3. InQueue("wait", c) /\ ~ InQueue("call", c) /\ Inside(c)
  BY <1>1, <1>2, HolderIsInQueue DEF Orderly
<1>4. /\ wait' \in [Calls -> Waits] /\ wait'[c] \in Over
      /\ \A d \in Calls : d # c => wait'[d] = wait[d] \/ (wait[d] = "waiting" /\ wait'[d] = "woken")
  <2>1. CASE wait[c] = "acquiring"
    BY <1>1, <1>2, <2>1 DEF Waits, Over
  <2>2. CASE wait[c] # "acquiring"
    <3> DEFINE w == [wait EXCEPT ![c] = "cancelled"]
    <3>1. w \in [Calls -> Waits] /\ w[c] = "cancelled" /\ \A d \in Calls : d # c => w[d] = wait[d]
      BY <1>2 DEF Waits, Over
    <3>2. wait' = Notify(w)
      BY <1>1, <2>2
    <3> HIDE DEF w
    <3>3. /\ Notify(w) \in [Calls -> Waits]
          /\ \A d \in Calls : Notify(w)[d] = w[d] \/ (w[d] = "waiting" /\ Notify(w)[d] = "woken")
      BY <1>2, <3>1, Notified
    <3> QED BY <3>1, <3>2, <3>3 DEF Over
  <2> QED BY <2>1, <2>2
<1>5. Typed'
  BY <1>1, <1>2, <1>4, Zenon DEF Typed
<1>6. \A k, d : (InQueue(k, d)' <=> InQueue(k, d)) /\ (Holds(k, d)' <=> Holds(k, d))
  BY <1>1 DEF InQueue, Holds
<1>7. Orderly(c)'
  BY <1>1, <1>3, <1>4, <1>6 DEF Orderly, Inside, Over
<1>8. ASSUME NEW d \in Calls, d # c PROVE Orderly(d)'
  BY <1>1, <1>4, <1>6, <1>8, OthersStay
<1> QED BY <1>5, <1>7, <1>8 DEF IInv

\* set_velocity is called.
LEMMA CallKeeps ==
  ASSUME IInv, NEW c \in Calls, Call(c)
  PROVE IInv'
<1>1. /\ parent[c] = "idle" /\ parent' = [parent EXCEPT ![c] = "locking"]
      /\ lockQueue' = Append(lockQueue, << "call", c >>) /\ wait' = wait /\ waiters' = waiters
  BY Zenon DEF Call
<1>2. /\ parent \in [Calls -> Parents] /\ wait \in [Calls -> Waits] /\ waiters \in Seq(Calls)
      /\ Orderly(c)
  BY Says
<1>3. ~ InQueue("wait", c) /\ ~ InQueue("call", c) /\ wait[c] = "none"
  BY <1>1, <1>2 DEF Orderly, Inside
<1>4. /\ lockQueue' \in Seq(Pairs) /\ Distinct(lockQueue')
      /\ \A k, d : InQueue(k, d)' <=> InQueue(k, d) \/ (k = "call" /\ d = c)
      /\ \A k, d : Holds(k, d) => Holds(k, d)'
  BY <1>1, <1>3, LockJoined
<1>5. Typed'
  BY <1>1, <1>2, <1>4 DEF Typed, Parents
<1>6. Orderly(c)'
  BY <1>1, <1>2, <1>3, <1>4 DEF Orderly, Inside, Over
<1>7. ASSUME NEW d \in Calls, d # c PROVE Orderly(d)'
  <2>1. parent'[d] = parent[d] /\ wait'[d] = wait[d]
    BY <1>1, <1>2, <1>7
  <2> QED BY <1>4, <1>7, <2>1, OthersStay
<1> QED BY <1>5, <1>6, <1>7 DEF IInv

\* It has the lock, notifies and creates its children.
LEMMA EnterKeeps ==
  ASSUME IInv, NEW c \in Calls, Enter(c)
  PROVE IInv'
<1> DEFINE w == [wait EXCEPT ![c] = "created"]
<1>1. /\ parent[c] = "locking" /\ Holds("call", c) /\ parent' = [parent EXCEPT ![c] = "waiting"]
      /\ wait' = Notify(w) /\ UNCHANGED << lockQueue, waiters >>
  BY Zenon DEF Enter
<1>2. /\ parent \in [Calls -> Parents] /\ wait \in [Calls -> Waits] /\ waiters \in Seq(Calls)
      /\ lockQueue \in Seq(Pairs) /\ Distinct(lockQueue) /\ Orderly(c)
  BY Says
<1>3. ~ InQueue("wait", c)
  BY <1>1, <1>2 DEF Orderly, Inside
<1>4. /\ wait' \in [Calls -> Waits] /\ wait'[c] = "created"
      /\ \A d \in Calls : d # c => wait'[d] = wait[d] \/ (wait[d] = "waiting" /\ wait'[d] = "woken")
  <2>1. w \in [Calls -> Waits] /\ w[c] = "created" /\ \A d \in Calls : d # c => w[d] = wait[d]
    BY <1>2 DEF Waits
  <2> HIDE DEF w
  <2>2. /\ Notify(w) \in [Calls -> Waits]
        /\ \A d \in Calls : Notify(w)[d] = w[d] \/ (w[d] = "waiting" /\ Notify(w)[d] = "woken")
    BY <1>2, <2>1, Notified
  <2> QED BY <1>1, <2>1, <2>2
<1> HIDE DEF w
<1>5. parent' \in [Calls -> Parents] /\ parent'[c] = "waiting" /\ \A d \in Calls : d # c => parent'[d] = parent[d]
  BY <1>1, <1>2 DEF Parents
<1>6. Typed'
  BY <1>1, <1>2, <1>4, <1>5, Zenon DEF Typed
<1>7. \A k, d : (InQueue(k, d)' <=> InQueue(k, d)) /\ (Holds(k, d)' <=> Holds(k, d))
  BY <1>1 DEF InQueue, Holds
<1>8. Orderly(c)'
  BY <1>1, <1>3, <1>4, <1>5, <1>7 DEF Orderly, Inside, Over
<1>9. ASSUME NEW d \in Calls, d # c PROVE Orderly(d)'
  BY <1>4, <1>5, <1>7, <1>9, OthersStay
<1> QED BY <1>6, <1>8, <1>9 DEF IInv

\* It cancels its children: a wait that has not started never will, and leaves
\* the lock with the call; one in the queue goes to its end unless it is the owner.
LEMMA CancelChildrenKeeps ==
  ASSUME IInv, NEW c \in Calls, parent[c] \in {"waiting", "joining"}, CancelChildren(c)
  PROVE IInv'
<1>1. CancelWait(c) /\ parent' = [parent EXCEPT ![c] = "joining"] /\ waiters' = waiters
  BY Zenon DEF CancelChildren
<1>2. /\ parent \in [Calls -> Parents] /\ wait \in [Calls -> Waits] /\ waiters \in Seq(Calls)
      /\ lockQueue \in Seq(Pairs) /\ Distinct(lockQueue) /\ Orderly(c)
  BY Says
<1>3. parent' \in [Calls -> Parents] /\ parent'[c] = "joining" /\ \A d \in Calls : d # c => parent'[d] = parent[d]
  BY <1>1, <1>2 DEF Parents
<1>4. Inside(c) /\ Inside(c)'
  BY <1>3 DEF Inside
<1> DEFINE Done == /\ wait' \in [Calls -> Waits] /\ \A d \in Calls : d # c => wait'[d] = wait[d]
                   /\ lockQueue' \in Seq(Pairs) /\ Distinct(lockQueue')
                   /\ \A k \in {"call", "wait"}, d \in Calls : d # c =>
                        (InQueue(k, d)' => InQueue(k, d)) /\ (Holds(k, d) => Holds(k, d)')
                   /\ Orderly(c)'
<1>5. ASSUME lockQueue' = lockQueue
      PROVE \A k, d : (InQueue(k, d)' <=> InQueue(k, d)) /\ (Holds(k, d)' <=> Holds(k, d))
  BY <1>5 DEF InQueue, Holds
<1>6. ASSUME wait[c] = "created", wait' = [wait EXCEPT ![c] = "cancelled"], lockQueue' = lockQueue
      PROVE Done
  <2>1. wait' \in [Calls -> Waits] /\ wait'[c] = "cancelled" /\ \A d \in Calls : d # c => wait'[d] = wait[d]
    BY <1>2, <1>6 DEF Waits, Over
  <2>2. Orderly(c)'
    BY <1>2, <1>4, <1>5, <1>6, <2>1 DEF Orderly, Over, Inside
  <2> QED BY <1>2, <1>5, <1>6, <2>1, <2>2
<1>7. ASSUME wait[c] \in {"waiting", "woken"}, wait' = [wait EXCEPT ![c] = "interrupted"], lockQueue' = lockQueue
      PROVE Done
  <2>1. wait' \in [Calls -> Waits] /\ wait'[c] = "interrupted" /\ \A d \in Calls : d # c => wait'[d] = wait[d]
    BY <1>2, <1>7 DEF Waits
  <2>2. Orderly(c)'
    BY <1>2, <1>4, <1>5, <1>7, <2>1 DEF Orderly, Over, Inside
  <2> QED BY <1>2, <1>5, <1>7, <2>1, <2>2
<1>8. ASSUME wait[c] \in {"acquiring", "reraising"}, wait' = [wait EXCEPT ![c] = "reraising"]
      PROVE /\ wait' \in [Calls -> Waits] /\ wait'[c] = "reraising" /\ \A d \in Calls : d # c => wait'[d] = wait[d]
            /\ ~ InQueue("call", c)
  BY <1>2, <1>8 DEF Waits, Orderly, Inside
<1>9. ASSUME wait[c] \in {"acquiring", "reraising"}, wait' = [wait EXCEPT ![c] = "reraising"], lockQueue' = lockQueue
      PROVE Done
  <2>1. ~ InQueue("call", c)' /\ wait'[c] = "reraising" /\ parent'[c] = "joining" /\ Inside(c)'
    BY <1>3, <1>4, <1>5, <1>8, <1>9
  <2>2. Orderly(c)'
    BY <2>1 DEF Orderly, Over
  <2> QED BY <1>2, <1>5, <1>8, <1>9, <2>2
<1>10. ASSUME wait[c] \in {"acquiring", "reraising"}, wait' = [wait EXCEPT ![c] = "reraising"],
              lockQueue' = Append(RemoveFirst(lockQueue, << "wait", c >>), << "wait", c >>)
       PROVE Done
  <2> DEFINE q == RemoveFirst(lockQueue, << "wait", c >>)
             e == << "wait", c >>
             t == Append(q, e)
  <2>1. /\ q \in Seq(Pairs) /\ Distinct(q)
        /\ \A k, d : << k, d >> \in ToSet(q) <=> InQueue(k, d) /\ ~ (k = "wait" /\ d = c)
        /\ \A k, d : Holds(k, d) /\ ~ (k = "wait" /\ d = c) => q # << >> /\ Head(q) = << k, d >>
    BY <1>10, LockLeft
  <2>2. e \in Pairs /\ e \notin ToSet(q)
    BY <2>1 DEF Pairs
  <2>3. lockQueue' = t
    BY <1>10
  <2> HIDE DEF q
  <2>4. \A k, d : << k, d >> = e <=> k = "wait" /\ d = c
    OBVIOUS
  <2> HIDE DEF e
  <2>5. /\ t \in Seq(Pairs) /\ Distinct(t)
        /\ \A x : x \in ToSet(t) <=> x \in ToSet(q) \/ x = e
        /\ q # << >> => t # << >> /\ Head(t) = Head(q)
    BY <2>1, <2>2, QueueJoined
  <2> HIDE DEF t
  <2>6. \A k, d : InQueue(k, d)' <=> InQueue(k, d) \/ (k = "wait" /\ d = c)
    <3>1. \A k, d : InQueue(k, d)' <=> << k, d >> \in ToSet(q) \/ << k, d >> = e
      BY <2>3, <2>5, Zenon DEF InQueue
    <3>2. InQueue("wait", c) \/ ~ InQueue("wait", c)
      OBVIOUS
    <3> QED BY <2>1, <2>4, <3>1, Zenon
  <2>7. \A k, d : Holds(k, d) /\ ~ (k = "wait" /\ d = c) => Holds(k, d)'
    BY <2>1, <2>3, <2>5 DEF Holds
  <2>8. Orderly(c)'
    <3>1. ~ InQueue("call", c)' /\ wait'[c] = "reraising" /\ parent'[c] = "joining" /\ Inside(c)'
      BY <1>3, <1>4, <1>8, <1>10, <2>6
    <3> QED BY <3>1 DEF Orderly, Over
  <2>9. lockQueue' \in Seq(Pairs) /\ Distinct(lockQueue')
    BY <2>3, <2>5
  <2> QED BY <1>8, <1>10, <2>6, <2>7, <2>8, <2>9
<1>11. ASSUME wait[c] \in Over \cup {"interrupted"}, wait' = wait, lockQueue' = lockQueue
       PROVE Done
  <2>1. Orderly(c)'
    BY <1>2, <1>4, <1>5, <1>11 DEF Orderly, Over, Inside
  <2> QED BY <1>2, <1>5, <1>11, <2>1
<1> HIDE DEF Done
<1>12. Done
  <2>1. wait[c] \in Waits \ {"none"}
    BY <1>2, <1>4 DEF Orderly
  <2>2. \/ wait[c] = "created" /\ wait' = [wait EXCEPT ![c] = "cancelled"] /\ lockQueue' = lockQueue
        \/ wait[c] \in {"waiting", "woken"} /\ wait' = [wait EXCEPT ![c] = "interrupted"] /\ lockQueue' = lockQueue
        \/ /\ wait[c] \in {"acquiring", "reraising"} /\ wait' = [wait EXCEPT ![c] = "reraising"]
           /\ \/ lockQueue' = Append(RemoveFirst(lockQueue, << "wait", c >>), << "wait", c >>)
              \/ lockQueue' = lockQueue
        \/ wait[c] \in Over \cup {"interrupted"} /\ wait' = wait /\ lockQueue' = lockQueue
    <3>1. CASE wait[c] = "created"
      BY <1>1, <3>1, Zenon DEF CancelWait
    <3>2. CASE wait[c] \in {"waiting", "woken"}
      <4>1. wait[c] # "created"
        BY <3>2
      <4> QED BY <1>1, <3>2, <4>1, Zenon DEF CancelWait
    <3>3. CASE wait[c] \in {"acquiring", "reraising"}
      <4>1. wait[c] # "created" /\ wait[c] \notin {"waiting", "woken"}
        BY <3>3
      <4> QED BY <1>1, <3>3, <4>1, Zenon DEF CancelWait
    <3>4. CASE wait[c] \in Over
      <4>1. wait[c] # "created" /\ wait[c] \notin {"waiting", "woken"} /\ wait[c] \notin {"acquiring", "reraising"}
        BY <3>4 DEF Over
      <4> QED BY <1>1, <3>4, <4>1, Zenon DEF CancelWait
    <3>5. CASE wait[c] = "interrupted"
      <4>1. wait[c] # "created" /\ wait[c] \notin {"waiting", "woken"} /\ wait[c] \notin {"acquiring", "reraising"}
        BY <3>5
      <4> QED BY <1>1, <3>5, <4>1, Zenon DEF CancelWait
    <3> QED BY <2>1, <3>1, <3>2, <3>3, <3>4, <3>5 DEF Waits
  <2>3. CASE /\ wait[c] \in {"acquiring", "reraising"} /\ wait' = [wait EXCEPT ![c] = "reraising"]
             /\ \/ lockQueue' = Append(RemoveFirst(lockQueue, << "wait", c >>), << "wait", c >>)
                \/ lockQueue' = lockQueue
    BY <1>9, <1>10, <2>3
  <2> QED BY <1>6, <1>7, <1>11, <2>2, <2>3
<1>13. Typed'
  BY <1>1, <1>2, <1>3, <1>12, Zenon DEF Typed, Done
<1>14. ASSUME NEW d \in Calls, d # c PROVE Orderly(d)'
  <2>1. /\ parent'[d] = parent[d] /\ wait'[d] = wait[d]
        /\ \A k \in {"call", "wait"} : (InQueue(k, d)' => InQueue(k, d)) /\ (Holds(k, d) => Holds(k, d)')
    BY <1>3, <1>12, <1>14, Zenon DEF Done
  <2> QED BY <2>1, OthersStay
<1> QED BY <1>12, <1>13, <1>14, Zenon DEF IInv, Done

\* It releases the lock.
LEMMA LeaveKeeps ==
  ASSUME IInv, NEW c \in Calls, Leave(c)
  PROVE IInv'
<1>1. /\ parent[c] = "joining" /\ wait[c] \in Over
      /\ Holds("call", c) \/ Holds("wait", c)
      /\ lockQueue' = Tail(lockQueue) /\ parent' = [parent EXCEPT ![c] = "left"]
      /\ UNCHANGED << wait, waiters >>
  BY Zenon DEF Leave
<1>2. /\ parent \in [Calls -> Parents] /\ wait \in [Calls -> Waits] /\ waiters \in Seq(Calls)
      /\ Orderly(c)
  BY Says
<1>3. PICK kind \in {"call", "wait"} : Holds(kind, c)
  BY <1>1
<1>4. /\ lockQueue' \in Seq(Pairs) /\ Distinct(lockQueue')
      /\ \A k, d : InQueue(k, d)' <=> InQueue(k, d) /\ ~ (k = kind /\ d = c)
      /\ \A k, d : Holds(k, d) => k = kind /\ d = c
      /\ InQueue(kind, c)
  BY <1>1, <1>3, LockServed
<1>5. Typed'
  BY <1>1, <1>2, <1>4 DEF Typed, Parents
<1>6. ~ InQueue("call", c)' /\ ~ InQueue("wait", c)'
  BY <1>2, <1>4 DEF Orderly
<1>7. Orderly(c)'
  BY <1>1, <1>2, <1>6 DEF Orderly, Inside
<1>8. ASSUME NEW d \in Calls, d # c PROVE Orderly(d)'
  <2>1. parent'[d] = parent[d] /\ wait'[d] = wait[d]
    BY <1>1, <1>2, <1>8
  <2> QED BY <1>4, <1>8, <2>1, OthersStay
<1> QED BY <1>5, <1>7, <1>8 DEF IInv

\* The program cancels it.
LEMMA CancelKeeps ==
  ASSUME IInv, NEW c \in Calls, Cancel(c)
  PROVE IInv'
<1>1. CASE parent[c] \in {"waiting", "joining"} /\ CancelChildren(c)
  BY <1>1, CancelChildrenKeeps
<1>2. CASE /\ parent[c] = "locking"
           /\ parent' = [parent EXCEPT ![c] = "left"]
           /\ lockQueue' = RemoveFirst(lockQueue, << "call", c >>)
           /\ UNCHANGED << wait, waiters >>
  <2>1. /\ parent \in [Calls -> Parents] /\ wait \in [Calls -> Waits] /\ waiters \in Seq(Calls)
        /\ Orderly(c)
    BY Says
  <2>2. /\ lockQueue' \in Seq(Pairs) /\ Distinct(lockQueue')
        /\ \A k, d : << k, d >> \in ToSet(lockQueue') <=> InQueue(k, d) /\ ~ (k = "call" /\ d = c)
        /\ \A k, d : Holds(k, d) /\ ~ (k = "call" /\ d = c) =>
             lockQueue' # << >> /\ Head(lockQueue') = << k, d >>
    BY <1>2, LockLeft
  <2>3. /\ \A k, d : InQueue(k, d)' <=> InQueue(k, d) /\ ~ (k = "call" /\ d = c)
        /\ \A k, d : Holds(k, d) /\ ~ (k = "call" /\ d = c) => Holds(k, d)'
    BY <2>2, Zenon DEF InQueue, Holds
  <2>4. Typed'
    BY <1>2, <2>1, <2>2 DEF Typed, Parents
  <2>5. ~ InQueue("call", c)' /\ ~ InQueue("wait", c)' /\ wait[c] = "none"
    BY <1>2, <2>1, <2>3 DEF Orderly, Inside
  <2>6. Orderly(c)'
    BY <1>2, <2>1, <2>5 DEF Orderly, Inside
  <2>7. ASSUME NEW d \in Calls, d # c PROVE Orderly(d)'
    <3>1. parent'[d] = parent[d] /\ wait'[d] = wait[d]
      BY <1>2, <2>1, <2>7
    <3> QED BY <2>3, <2>7, <3>1, OthersStay
  <2> QED BY <2>4, <2>6, <2>7 DEF IInv
<1> QED BY <1>1, <1>2, Zenon DEF Cancel

\* No step breaks the invariant.
LEMMA NextKeeps ==
  ASSUME IInv, [Next]_vars
  PROVE IInv'
<1>1. CASE UNCHANGED vars
  <2>1. UNCHANGED lockVars
    BY <1>1, Zenon DEF vars, lockVars
  <2> QED BY <2>1, QuietStep
<1>2. CASE RobotHandles \/ RobotEnds
  <2>1. UNCHANGED lockVars
    BY <1>2, Zenon DEF RobotHandles, RobotEnds, lockVars
  <2> QED BY <2>1, QuietStep
<1>3. ASSUME NEW c \in Calls, StartVelocity(c) PROVE IInv'
  <2>1. UNCHANGED lockVars
    BY <1>3, Zenon DEF StartVelocity, lockVars
  <2> QED BY <2>1, QuietStep
<1>4. ASSUME NEW c \in Calls, ChildDone(c) PROVE IInv'
  <2>1. parent[c] \in {"waiting", "joining"} /\ CancelChildren(c)
    BY <1>4 DEF ChildDone
  <2> QED BY <2>1, CancelChildrenKeeps
<1>5. CASE Next
  BY <1>2, <1>3, <1>4, <1>5, StartWaitKeeps, ResumeKeeps, ReacquireKeeps, EnterKeeps, LeaveKeeps, CallKeeps,
     CancelKeeps, Zenon DEF Next, Works, Runs
<1> QED BY <1>1, <1>5

\* It holds at the beginning.
LEMMA InitHolds ==
  ASSUME Init
  PROVE IInv
<1>1. << >> \in Seq(Calls) /\ << >> \in Seq(Pairs) /\ Distinct(<< >>)
  BY EmptySeq DEF Distinct
<1>2. /\ parent = [c \in Calls |-> "idle"] /\ wait = [c \in Calls |-> "none"]
      /\ lockQueue = << >> /\ waiters = << >>
  BY Zenon DEF Init
<1>3. ToSet(<< >>) = {}
  BY DEF ToSet
<1>4. Typed
  BY <1>1, <1>2 DEF Typed, Parents, Waits
<1>5. \A c \in Calls : Orderly(c)
  BY <1>2, <1>3 DEF Orderly, Inside, InQueue, Over
<1> QED BY <1>4, <1>5, Zenon DEF IInv

\* LockIsBack, for any number of calls: when both children of set_velocity are over,
\* however they ended and whatever cancelled them, the lock that its `async with'
\* releases is the one taken for this call.
THEOREM LockIsBackHolds == Spec => []LockIsBack
<1>1. Init => IInv
  BY InitHolds
<1>2. IInv /\ [Next]_vars => IInv'
  BY NextKeeps
<1>3. IInv => LockIsBack
  BY Zenon DEF IInv, Orderly, Inside, LockIsBack
<1> QED BY <1>1, <1>2, <1>3, PTL DEF Spec
=============================================================================
