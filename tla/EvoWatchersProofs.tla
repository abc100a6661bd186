------------------------- MODULE EvoWatchersProofs -------------------------
(***************************************************************************)
(* Proofs about EvoWatchers: no id of the robot's regions is given away    *)
(* while the robot uses it, a watch() block is watched, and the task of a  *)
(* watcher is not disabled by the clean-up of its predecessor.             *)
(*                                                                         *)
(* The inductive invariant has three parts.  Core is about the client: the *)
(* block that holds _allocator_lock is the only one with an RPC in the     *)
(* queue, and the RPC is the one of its plan.  Watched ties what the robot *)
(* has set up to the books and to the handles.  Ordered ties the robot's   *)
(* enabled watchers to the queue: _rpc_lock is fair, so a disable that was *)
(* asked for before an enable is executed before it.                       *)
(*                                                                         *)
(* That what a watcher has used fits its packets is a property of a sum,   *)
(* and the sum is a fold: it is proved to be additive first.               *)
(***************************************************************************)
EXTENDS EvoWatchers, FiniteSetTheorems, SequenceTheorems, WellFoundedInduction, TLAPS

-----------------------------------------------------------------------------
(* The naturals are well ordered.                                          *)

\* The order of the natural numbers, as a relation.
InOrder == {p \in Nat \X Nat : p[1] < p[2]}

\* It is well founded: the library's theorem about the order of the naturals.
LEMMA NatIsInOrder == IsWellFoundedOn(InOrder, Nat)
  BY NatLessThanWellFounded, Zenon DEF InOrder, OpToRel

\* Every set of naturals has a least element.  The inductions of this module look
\* for the smallest counterexample, and find a smaller one.
LEMMA LeastOf == ASSUME NEW T \in SUBSET Nat, T # {} PROVE \E n \in T : \A m \in T : n <= m
<1>1. PICK n \in T : \A m \in T : << m, n >> \notin InOrder
  BY WFMin, NatIsInOrder, Zenon
<1>2. \A m \in T : << m, n >> \in Nat \X Nat /\ << m, n >>[1] = m /\ << m, n >>[2] = n
  OBVIOUS
<1>3. \A m \in T : ~ m < n
  BY <1>1, <1>2, Zenon DEF InOrder
<1> QED BY <1>3

-----------------------------------------------------------------------------
(* Sums.  MapThenSumSet is recursive; what is needed of it is proved by    *)
(* looking for the smallest counterexample.                                *)

\* What MapThenSumSet takes off a set, and the sum it makes of the rest.
Chosen(s) == CHOOSE x \in s : TRUE
SumStep(g, s) == IF s = {} THEN 0 ELSE Size(Chosen(s).what) + g[s \ {Chosen(s)}]
Bytes(S) == MapThenSumSet(LAMBDA a : Size(a.what), S)
SumOver(S) == CHOOSE g : g = [s \in SUBSET S |-> SumStep(g, s)]

\* The fold of the library is the function it defines.
LEMMA BytesAre == \A S : Bytes(S) = SumOver(S)[S]
  BY Zenon DEF Bytes, MapThenSumSet, MapThenFoldSet, SumStep, SumOver, Chosen

\* What a watcher has used is the sum over its allocations.
LEMMA UsedBytesAre == \A allocs, w : UsedBytes(allocs, w) = Bytes(On(allocs, w))
  BY Zenon DEF Bytes, UsedBytes

\* A set that is not empty has a chosen element.
LEMMA ChosenIn == \A s : s # {} => Chosen(s) \in s
  BY Zenon DEF Chosen

\* The recursion over the subsets of a finite set has a solution: otherwise take the
\* least size up to which it has none, which is not 0, and the solution up to the size
\* before extends to it.
LEMMA SumExists ==
  ASSUME NEW S0, IsFiniteSet(S0)
  PROVE \E g : g = [s \in SUBSET S0 |-> SumStep(g, s)]
<1> DEFINE Small(n) == {s \in SUBSET S0 : Cardinality(s) <= n}
           Good(n) == \E g : g = [s \in Small(n) |-> SumStep(g, s)]
           T == {n \in Nat : ~ Good(n)}
<1>1. \A s \in SUBSET S0 : IsFiniteSet(s) /\ Cardinality(s) \in Nat /\ Cardinality(s) <= Cardinality(S0)
  BY FS_Subset, FS_CardinalityType
<1>2. Good(0)
  <2>1. \A s \in Small(0) : s = {}
    BY <1>1, FS_EmptySet
  <2>2. [s \in Small(0) |-> 0] = [s \in Small(0) |-> SumStep([t \in Small(0) |-> 0], s)]
    BY <2>1, Zenon DEF SumStep
  <2> QED BY <2>2, Zenon
<1>3. ASSUME NEW n \in Nat, Good(n) PROVE Good(n + 1)
  <2>1. PICK g : g = [s \in Small(n) |-> SumStep(g, s)]
    BY <1>3, Zenon
  <2> DEFINE h == [s \in Small(n + 1) |-> SumStep(g, s)]
  <2>2. \A s \in Small(n) : s \in Small(n + 1)
    BY <1>1
  <2>3. \A s \in Small(n) : h[s] = g[s]
    BY <2>1, <2>2, Zenon
  <2>4. \A s \in Small(n + 1) : s # {} => s \ {Chosen(s)} \in Small(n)
    BY <1>1, FS_RemoveElement, ChosenIn
  <2> HIDE DEF h
  <2>5. \A s \in Small(n + 1) : SumStep(g, s) = SumStep(h, s)
    BY <2>3, <2>4, Zenon DEF SumStep
  <2>6. h = [s \in Small(n + 1) |-> SumStep(h, s)]
    BY <2>5, Zenon DEF h
  <2> QED BY <2>6, Zenon
<1>4. T = {}
  <2> SUFFICES ASSUME T # {} PROVE FALSE
    OBVIOUS
  <2> HIDE DEF Good
  <2>1. PICK n \in T : \A m \in T : n <= m
    BY LeastOf
  <2>2. n # 0 /\ n \in Nat /\ ~ Good(n)
    BY <1>2
  <2>3. n - 1 \in Nat /\ n - 1 \notin T
    BY <2>1, <2>2
  <2>4. Good(n - 1)
    BY <2>3
  <2>5. Good((n - 1) + 1)
    BY <2>3, <2>4, <1>3
  <2>6. (n - 1) + 1 = n
    BY <2>2
  <2> QED BY <2>2, <2>5, <2>6
<1>5. Good(Cardinality(S0))
  <2> HIDE DEF Good
  <2> QED BY <1>4, FS_CardinalityType
<1>6. Small(Cardinality(S0)) = SUBSET S0
  BY <1>1
<1> QED BY <1>5, <1>6, Zenon

\* Hence the chosen function satisfies its equation.
LEMMA SumUnfolds ==
  ASSUME NEW S0, IsFiniteSet(S0)
  PROVE \A s \in SUBSET S0 : SumOver(S0)[s] = SumStep(SumOver(S0), s)
<1>1. \E g : g = [s \in SUBSET S0 |-> SumStep(g, s)]
  BY SumExists, Zenon
<1>2. SumOver(S0) = [s \in SUBSET S0 |-> SumStep(SumOver(S0), s)]
  BY <1>1, Zenon DEF SumOver
<1> HIDE DEF SumOver
<1> QED BY <1>2, Zenon

\* The sum over a set does not depend on the larger set the recursion started from.
LEMMA SumsAgree ==
  ASSUME NEW S0, IsFiniteSet(S0), NEW S1 \in SUBSET S0
  PROVE \A s \in SUBSET S1 : SumOver(S1)[s] = SumOver(S0)[s]
<1> DEFINE Differ(n) == \E s \in SUBSET S1 : Cardinality(s) = n /\ SumOver(S1)[s] # SumOver(S0)[s]
           T == {n \in Nat : Differ(n)}
<1>1. IsFiniteSet(S1) /\ \A s \in SUBSET S1 : IsFiniteSet(s) /\ Cardinality(s) \in Nat
  BY FS_Subset, FS_CardinalityType
<1>2. T = {}
  <2> SUFFICES ASSUME T # {} PROVE FALSE
    OBVIOUS
  <2>1. PICK n \in T : \A m \in T : n <= m
    <3> HIDE DEF Differ
    <3> QED BY LeastOf
  <2>2. PICK s \in SUBSET S1 : Cardinality(s) = n /\ SumOver(S1)[s] # SumOver(S0)[s]
    BY Zenon
  <2>3. SumOver(S1)[s] = SumStep(SumOver(S1), s) /\ SumOver(S0)[s] = SumStep(SumOver(S0), s)
    BY <1>1, SumUnfolds
  <2>4. s # {}
    BY <2>2, <2>3, Zenon DEF SumStep
  <2> DEFINE rest == s \ {Chosen(s)}
  <2>5. Cardinality(rest) \in Nat /\ Cardinality(rest) < n /\ rest \in SUBSET S1
    BY <1>1, <2>2, <2>4, FS_RemoveElement, ChosenIn
  <2>6. SumOver(S1)[rest] # SumOver(S0)[rest]
    BY <2>2, <2>3, <2>4, Zenon DEF SumStep
  <2>7. Cardinality(rest) \in T
    BY <2>5, <2>6
  <2> HIDE DEF T, rest
  <2>8. n \in Nat
    BY DEF T
  <2> QED BY <2>1, <2>5, <2>7, <2>8
<1> QED
  <2> SUFFICES ASSUME NEW s \in SUBSET S1 PROVE SumOver(S1)[s] = SumOver(S0)[s]
    OBVIOUS
  <2>1. Cardinality(s) \in Nat
    BY <1>1
  <2>2. ~ Differ(Cardinality(s))
    <3> HIDE DEF Differ
    <3> QED BY <1>2, <2>1
  <2> QED BY <2>2, Zenon

\* The empty set has no bytes.
LEMMA BytesOfNone == Bytes({}) = 0
<1>1. SumOver({})[{}] = SumStep(SumOver({}), {})
  BY SumUnfolds, FS_EmptySet
<1> QED BY <1>1, BytesAre, Zenon DEF SumStep

\* A set has the bytes of its chosen element and of the rest.
LEMMA BytesOfChosen ==
  ASSUME NEW S0, IsFiniteSet(S0), S0 # {}
  PROVE Bytes(S0) = Size(Chosen(S0).what) + Bytes(S0 \ {Chosen(S0)})
<1> DEFINE rest == S0 \ {Chosen(S0)}
<1>1. rest \in SUBSET S0 /\ S0 \in SUBSET S0 /\ rest \in SUBSET rest
  OBVIOUS
<1>2. SumOver(rest)[rest] = SumOver(S0)[rest]
  BY <1>1, SumsAgree
<1>3. SumOver(S0)[S0] = SumStep(SumOver(S0), S0)
  BY <1>1, SumUnfolds
<1>4. SumOver(S0)[S0] = Size(Chosen(S0).what) + SumOver(S0)[rest]
  BY <1>3, Zenon DEF SumStep
<1>5. Bytes(S0) = SumOver(S0)[S0] /\ Bytes(rest) = SumOver(rest)[rest]
  BY BytesAre
<1> QED BY <1>2, <1>4, <1>5, Zenon

\* Sizes are naturals.
LEMMA SizeIsNat == \A x \in Contents : Size(x) \in Nat
  BY SizeAssumption, ContentAssumption DEF Size, Contents

\* A finite set of allocations has a natural number of bytes.
LEMMA BytesAreNat ==
  ASSUME NEW S0, IsFiniteSet(S0), S0 \subseteq Allocations
  PROVE Bytes(S0) \in Nat
<1> DEFINE Bad(n) == \E s \in SUBSET S0 : Cardinality(s) = n /\ Bytes(s) \notin Nat
           T == {n \in Nat : Bad(n)}
<1>1. \A s \in SUBSET S0 : IsFiniteSet(s) /\ Cardinality(s) \in Nat
  BY FS_Subset, FS_CardinalityType
<1>2. T = {}
  <2> SUFFICES ASSUME T # {} PROVE FALSE
    OBVIOUS
  <2>1. PICK n \in T : \A m \in T : n <= m
    <3> HIDE DEF Bad
    <3> QED BY LeastOf
  <2>2. PICK s \in SUBSET S0 : Cardinality(s) = n /\ Bytes(s) \notin Nat
    BY Zenon
  <2>4. s # {}
    BY <2>2, BytesOfNone
  <2> DEFINE rest == s \ {Chosen(s)}
  <2>5. Cardinality(rest) \in Nat /\ Cardinality(rest) < n /\ rest \in SUBSET S0
    BY <1>1, <2>2, <2>4, FS_RemoveElement, ChosenIn
  <2>6. Bytes(s) = Size(Chosen(s).what) + Bytes(rest)
    BY <1>1, <2>4, BytesOfChosen
  <2>7. Size(Chosen(s).what) \in Nat
    BY <2>4, ChosenIn, SizeIsNat DEF Allocations
  <2>8. Bytes(rest) \notin Nat
    BY <2>2, <2>6, <2>7
  <2>9. Cardinality(rest) \in T
    BY <2>5, <2>8
  <2> HIDE DEF T, rest
  <2>10. n \in Nat
    BY DEF T
  <2> QED BY <2>1, <2>5, <2>9, <2>10
<1>3. Cardinality(S0) \in Nat /\ S0 \in SUBSET S0
  BY <1>1
<1>4. ~ Bad(Cardinality(S0))
  <2> HIDE DEF Bad
  <2> QED BY <1>2, <1>3
<1> QED BY <1>3, <1>4, Zenon

\* The order does not matter: any element can be taken off first.  In the smallest
\* counterexample, the chosen element and the other one are taken off in both orders.
LEMMA BytesWithout ==
  ASSUME NEW S0, IsFiniteSet(S0), S0 \subseteq Allocations
  PROVE \A a \in S0 : Bytes(S0) = Size(a.what) + Bytes(S0 \ {a})
<1> DEFINE Splits(s, a) == Bytes(s) = Size(a.what) + Bytes(s \ {a})
           Bad(n) == \E s \in SUBSET S0 : Cardinality(s) = n /\ \E a \in s : ~ Splits(s, a)
           T == {n \in Nat : Bad(n)}
<1>1. \A s \in SUBSET S0 : IsFiniteSet(s) /\ Cardinality(s) \in Nat
  BY FS_Subset, FS_CardinalityType
<1>a. \A s \in SUBSET S0 : Bytes(s) \in Nat
  BY <1>1, BytesAreNat
<1>b. \A a \in S0 : Size(a.what) \in Nat
  BY SizeIsNat DEF Allocations
<1>2. T = {}
  <2> SUFFICES ASSUME T # {} PROVE FALSE
    OBVIOUS
  <2>1. PICK n \in T : \A m \in T : n <= m
    <3> HIDE DEF Bad
    <3> QED BY LeastOf
  <2>2. PICK s \in SUBSET S0 : Cardinality(s) = n /\ \E a \in s : ~ Splits(s, a)
    BY Zenon
  <2>3. PICK a \in s : ~ Splits(s, a)
    BY <2>2
  <2> DEFINE x == Chosen(s)
             rest == s \ {x}
  <2>4. s # {} /\ x \in s
    BY <2>3, ChosenIn
  <2>5. Splits(s, x)
    BY <1>1, <2>4, BytesOfChosen
  <2>6. a # x
    BY <2>3, <2>5
  <2>7. /\ Cardinality(rest) \in Nat /\ Cardinality(rest) < n /\ rest \in SUBSET S0
        /\ Cardinality(s \ {a}) \in Nat /\ Cardinality(s \ {a}) < n /\ s \ {a} \in SUBSET S0
    BY <1>1, <2>2, <2>4, FS_RemoveElement
  <2>8. n \in Nat
    OBVIOUS
  <2>9. ~ Bad(Cardinality(rest)) /\ ~ Bad(Cardinality(s \ {a}))
    <3> HIDE DEF Bad
    <3> QED BY <2>1, <2>7, <2>8
  <2>10. Splits(rest, a) /\ Splits(s \ {a}, x)
    <3>1. a \in rest /\ x \in s \ {a}
      BY <2>4, <2>6
    <3> HIDE DEF Splits, rest, x
    <3> QED BY <2>7, <2>9, <3>1, Zenon
  <2>11. (s \ {a}) \ {x} = rest \ {a}
    OBVIOUS
  <2>12. /\ Bytes(s) \in Nat /\ Bytes(rest) \in Nat /\ Bytes(s \ {a}) \in Nat /\ Bytes(rest \ {a}) \in Nat
         /\ Size(a.what) \in Nat /\ Size(x.what) \in Nat
    BY <1>a, <1>b, <2>4, <2>7
  <2>13. Bytes(rest) = Size(a.what) + Bytes(rest \ {a}) /\ Bytes(s \ {a}) = Size(x.what) + Bytes(rest \ {a})
    BY <2>10, <2>11
  <2>14. Bytes(s) = Size(x.what) + Bytes(rest)
    BY <2>5
  <2>15. Bytes(s) # Size(a.what) + Bytes(s \ {a})
    BY <2>3
  <2> HIDE DEF rest, x
  <2> QED BY <2>12, <2>13, <2>14, <2>15
<1> QED
  <2> SUFFICES ASSUME NEW a \in S0 PROVE Splits(S0, a)
    OBVIOUS
  <2>1. Cardinality(S0) \in Nat /\ S0 \in SUBSET S0
    BY <1>1
  <2>2. ~ Bad(Cardinality(S0))
    <3> HIDE DEF Bad
    <3> QED BY <1>2, <2>1
  <2> HIDE DEF Splits
  <2> QED BY <2>1, <2>2, Zenon

-----------------------------------------------------------------------------
(* The allocator.                                                          *)

\* The books of the allocator: finitely many allocations that do not collide and fit.
Books(allocs) == allocs \subseteq Allocations /\ IsFiniteSet(allocs) /\ Disjoint(allocs)

\* A watcher with fewer allocations than regions has a free id, and gets it.
LEMMA FreeIdIsFree ==
  ASSUME NEW allocs, allocs \subseteq Allocations, IsFiniteSet(allocs),
         NEW w, Cardinality(On(allocs, w)) < RegionCount
  PROVE FreeId(allocs, w) \in RegionIds \ UsedIds(allocs, w)
<1> DEFINE ids == UsedIds(allocs, w)
           free == RegionIds \ ids
<1>1. IsFiniteSet(On(allocs, w)) /\ Cardinality(On(allocs, w)) \in Nat
  BY FS_Subset, FS_CardinalityType DEF On
<1>2. IsFiniteSet(ids) /\ Cardinality(ids) <= Cardinality(On(allocs, w))
  <2> DEFINE idOf == [a \in On(allocs, w) |-> a.id]
  <2>1. idOf \in Surjection(On(allocs, w), ids)
    BY Zenon DEF Surjection, UsedIds
  <2> HIDE DEF idOf, ids
  <2> QED BY <1>1, <2>1, FS_Surjection
<1>3. Cardinality(RegionIds) = RegionCount
  BY FS_Interval, CountAssumption DEF RegionIds
<1>4. free # {}
  <2> SUFFICES ASSUME RegionIds \subseteq ids PROVE FALSE
    OBVIOUS
  <2>1. Cardinality(RegionIds) <= Cardinality(ids)
    BY <1>2, FS_Subset
  <2>2. Cardinality(ids) \in Nat
    BY <1>2, FS_CardinalityType
  <2> HIDE DEF ids
  <2> QED BY <1>1, <1>2, <1>3, <2>1, <2>2, CountAssumption
<1>5. free \in SUBSET Nat
  BY CountAssumption DEF RegionIds
<1>6. \E n \in free : \A m \in free : n <= m
  <2> HIDE DEF free
  <2> QED BY <1>4, <1>5, LeastOf
<1>7. Min(free) \in free
  <2> HIDE DEF free
  <2> QED BY <1>6, Zenon DEF Min
<1> QED BY <1>7, Zenon DEF FreeId

\* What allocate() gives: a free region of a watcher that has room for it.
LEMMA AllocateGives ==
  ASSUME NEW allocs, allocs \subseteq Allocations, IsFiniteSet(allocs),
         NEW x \in Contents, NEW a \in Allocate(allocs, x)
  PROVE /\ a \in Allocations /\ a.what = x
        /\ a.id \notin UsedIds(allocs, a.w)
        /\ Capacity - UsedBytes(allocs, a.w) >= Size(x)
<1>1. PICK w \in FindGap(allocs, Size(x)) : a = [w |-> w, id |-> FreeId(allocs, w), what |-> x]
  BY Zenon DEF Allocate
<1>2. w \in Available(allocs, Size(x))
  BY Zenon DEF FindGap
<1>3. w \in Watchers /\ Cardinality(On(allocs, w)) < RegionCount /\ Capacity - UsedBytes(allocs, w) >= Size(x)
  BY <1>2, Zenon DEF Available
<1>4. FreeId(allocs, w) \in RegionIds \ UsedIds(allocs, w)
  BY <1>3, FreeIdIsFree
<1> QED BY <1>1, <1>3, <1>4 DEF Allocations

\* Taking it into the books keeps them in order.
LEMMA AllocateKeeps ==
  ASSUME NEW allocs, Books(allocs), NEW x \in Contents, NEW a \in Allocate(allocs, x)
  PROVE a \in Allocations /\ a.what = x /\ a \notin allocs /\ Books(allocs \cup {a})
<1>0. allocs \subseteq Allocations /\ IsFiniteSet(allocs) /\ Disjoint(allocs)
  BY Zenon DEF Books
<1>1. /\ a \in Allocations /\ a.what = x
      /\ a.id \notin UsedIds(allocs, a.w)
      /\ Capacity - UsedBytes(allocs, a.w) >= Size(x)
  BY <1>0, AllocateGives
<1>2. \A b \in allocs : b.w = a.w => b.id # a.id
  BY <1>1, Zenon DEF UsedIds, On
<1>3. a \notin allocs
  BY <1>2
<1>4. \A b, c \in allocs \cup {a} : b.w = c.w /\ b.id = c.id => b = c
  BY <1>0, <1>2 DEF Disjoint
<1>5. IsFiniteSet(allocs \cup {a})
  BY <1>0, FS_AddElement
<1>6. ASSUME NEW w \in Watchers PROVE UsedBytes(allocs \cup {a}, w) <= Capacity
  <2>1. UsedBytes(allocs, w) <= Capacity
    BY <1>0, Zenon DEF Disjoint
  <2>2. CASE a.w # w
    <3>1. On(allocs \cup {a}, w) = On(allocs, w)
      BY <2>2 DEF On
    <3> QED BY <2>1, <3>1, UsedBytesAre
  <2>3. CASE a.w = w
    <3>1. On(allocs \cup {a}, w) = On(allocs, w) \cup {a} /\ a \notin On(allocs, w)
      BY <1>3, <2>3 DEF On
    <3>2. IsFiniteSet(On(allocs, w)) /\ On(allocs, w) \subseteq Allocations
      BY <1>0, FS_Subset DEF On
    <3>3. IsFiniteSet(On(allocs, w) \cup {a}) /\ On(allocs, w) \cup {a} \subseteq Allocations
      BY <1>1, <3>2, FS_AddElement
    <3>4. (On(allocs, w) \cup {a}) \ {a} = On(allocs, w) /\ a \in On(allocs, w) \cup {a}
      BY <3>1
    <3>5. Bytes(On(allocs \cup {a}, w)) = Size(x) + Bytes(On(allocs, w))
      BY <1>1, <3>1, <3>3, <3>4, BytesWithout
    <3>6. Bytes(On(allocs, w)) \in Nat /\ Size(x) \in Nat
      BY <3>2, BytesAreNat, SizeIsNat
    <3> QED BY <1>1, <2>3, <3>5, <3>6, UsedBytesAre, CountAssumption
  <2> QED BY <2>2, <2>3
<1> QED BY <1>0, <1>1, <1>3, <1>4, <1>5, <1>6 DEF Books, Disjoint

\* So does taking an allocation out of them.
LEMMA ForgetKeeps ==
  ASSUME NEW allocs, Books(allocs), NEW a
  PROVE Books(allocs \ {a})
<1>0. allocs \subseteq Allocations /\ IsFiniteSet(allocs) /\ Disjoint(allocs)
  BY Zenon DEF Books
<1>1. IsFiniteSet(allocs \ {a})
  BY <1>0, FS_Subset
<1>2. ASSUME NEW w \in Watchers PROVE UsedBytes(allocs \ {a}, w) <= Capacity
  <2>1. UsedBytes(allocs, w) <= Capacity
    BY <1>0, Zenon DEF Disjoint
  <2>2. CASE a \notin On(allocs, w)
    <3>1. On(allocs \ {a}, w) = On(allocs, w)
      BY <2>2 DEF On
    <3> QED BY <2>1, <3>1, UsedBytesAre
  <2>3. CASE a \in On(allocs, w)
    <3>1. On(allocs \ {a}, w) = On(allocs, w) \ {a}
      BY DEF On
    <3>2. IsFiniteSet(On(allocs, w)) /\ On(allocs, w) \subseteq Allocations
      BY <1>0, FS_Subset DEF On
    <3>3. IsFiniteSet(On(allocs, w) \ {a}) /\ On(allocs, w) \ {a} \subseteq Allocations
      BY <3>2, FS_Subset
    <3>4. Bytes(On(allocs, w)) = Size(a.what) + Bytes(On(allocs \ {a}, w))
      BY <2>3, <3>1, <3>2, BytesWithout
    <3>5. Size(a.what) \in Nat
      BY <2>3, <3>2, SizeIsNat DEF Allocations
    <3>6. Bytes(On(allocs \ {a}, w)) \in Nat /\ Bytes(On(allocs, w)) \in Nat
      BY <3>1, <3>2, <3>3, BytesAreNat
    <3> QED BY <2>1, <3>4, <3>5, <3>6, UsedBytesAre, CountAssumption
  <2> QED BY <2>2, <2>3
<1> QED BY <1>0, <1>1, <1>2 DEF Books, Disjoint

-----------------------------------------------------------------------------
(* Sequences.                                                              *)

\* The tail of a sequence, position by position.
LEMMA TailIs ==
  ASSUME NEW X, NEW s \in Seq(X), s # << >>
  PROVE /\ Tail(s) \in Seq(X) /\ 1 \in DOMAIN s /\ Head(s) = s[1]
        /\ \A i \in DOMAIN Tail(s) : i \in Nat /\ i + 1 \in DOMAIN s /\ i + 1 # 1 /\ Tail(s)[i] = s[i + 1]
        /\ \A i \in DOMAIN s : i # 1 => i - 1 \in DOMAIN Tail(s) /\ i = (i - 1) + 1 /\ Tail(s)[i - 1] = s[i]
  BY HeadTailProperties, LenProperties, EmptySeq

\* A sequence with one more element, position by position.
LEMMA AppendIs ==
  ASSUME NEW X, NEW s \in Seq(X), NEW e \in X
  PROVE /\ Append(s, e) \in Seq(X)
        /\ \A i \in DOMAIN Append(s, e) : \/ i \in DOMAIN s /\ Append(s, e)[i] = s[i]
                                          \/ i = Len(s) + 1 /\ Append(s, e)[i] = e
        /\ \A i \in DOMAIN s : i \in Nat /\ i < Len(s) + 1 /\ i \in DOMAIN Append(s, e) /\ Append(s, e)[i] = s[i]
        /\ Len(s) + 1 \in DOMAIN Append(s, e) /\ Len(s) + 1 \in Nat /\ Append(s, e)[Len(s) + 1] = e
  BY AppendProperties, LenProperties

\* A sequence without its k-th element, position by position.
LEMMA RemoveAtIs ==
  ASSUME NEW X, NEW s \in Seq(X), NEW k \in DOMAIN s
  PROVE /\ RemoveAt(s, k) \in Seq(X)
        /\ \A i \in DOMAIN RemoveAt(s, k) : \/ i < k /\ i \in DOMAIN s /\ RemoveAt(s, k)[i] = s[i]
                                            \/ i >= k /\ i \in Nat /\ i + 1 \in DOMAIN s /\ RemoveAt(s, k)[i] = s[i + 1]
        /\ \A i \in DOMAIN s : /\ i < k => i \in DOMAIN RemoveAt(s, k) /\ RemoveAt(s, k)[i] = s[i]
                               /\ i > k => i - 1 \in DOMAIN RemoveAt(s, k) /\ RemoveAt(s, k)[i - 1] = s[i]
<1> DEFINE before == SubSeq(s, 1, k - 1)
           after == SubSeq(s, k + 1, Len(s))
<1>1. Len(s) \in Nat /\ k \in 1 .. Len(s) /\ DOMAIN s = 1 .. Len(s) /\ \A i \in 1 .. Len(s) : s[i] \in X
  BY LenProperties
<1>2. before \in Seq(X) /\ Len(before) = k - 1 /\ \A i \in 1 .. k - 1 : before[i] = s[i]
  <2>1. \A i \in 1 .. k - 1 : s[i] \in X
    BY <1>1
  <2>2. 1 \in Int /\ k - 1 \in Int
    BY <1>1
  <2>3. /\ before \in Seq(X) /\ Len(before) = IF 1 <= k - 1 THEN (k - 1) - 1 + 1 ELSE 0
        /\ \A i \in 1 .. (k - 1) - 1 + 1 : before[i] = s[1 + i - 1]
    BY <2>1, <2>2, SubSeqProperties
  <2> HIDE DEF before
  <2> QED BY <1>1, <2>3
<1>3. after \in Seq(X) /\ Len(after) = Len(s) - k /\ \A i \in 1 .. Len(s) - k : after[i] = s[k + i]
  <2>1. \A i \in k + 1 .. Len(s) : s[i] \in X
    BY <1>1
  <2>2. k + 1 \in Int /\ Len(s) \in Int
    BY <1>1
  <2>3. /\ after \in Seq(X) /\ Len(after) = IF k + 1 <= Len(s) THEN Len(s) - (k + 1) + 1 ELSE 0
        /\ \A i \in 1 .. Len(s) - (k + 1) + 1 : after[i] = s[(k + 1) + i - 1]
    BY <2>1, <2>2, SubSeqProperties
  <2> HIDE DEF after
  <2>4. Len(after) = Len(s) - k
    BY <1>1, <2>3
  <2>5. ASSUME NEW i \in 1 .. Len(s) - k PROVE after[i] = s[k + i]
    <3>1. i \in 1 .. Len(s) - (k + 1) + 1 /\ (k + 1) + i - 1 = k + i
      BY <1>1
    <3> QED BY <2>3, <3>1
  <2> QED BY <2>3, <2>4, <2>5
<1>4. RemoveAt(s, k) = before \o after
  BY Zenon DEF RemoveAt
<1> HIDE DEF before, after
<1>5. /\ before \o after \in Seq(X) /\ Len(before \o after) = Len(before) + Len(after)
      /\ \A i \in 1 .. Len(before) + Len(after) :
           (before \o after)[i] = IF i <= Len(before) THEN before[i] ELSE after[i - Len(before)]
  BY <1>2, <1>3, ConcatProperties
<1>6. DOMAIN RemoveAt(s, k) = 1 .. Len(s) - 1 /\ RemoveAt(s, k) \in Seq(X)
  <2>1. Len(before) + Len(after) = Len(s) - 1
    BY <1>1, <1>2, <1>3
  <2> QED BY <1>4, <1>5, <2>1, LenProperties
<1>7. ASSUME NEW i \in 1 .. Len(s) - 1 PROVE RemoveAt(s, k)[i] = IF i < k THEN s[i] ELSE s[i + 1]
  <2>1. i \in 1 .. Len(before) + Len(after) /\ (i <= Len(before) <=> i < k)
    BY <1>1, <1>2, <1>3
  <2>2. CASE i < k
    BY <1>1, <1>2, <1>4, <1>5, <2>1, <2>2
  <2>3. CASE ~ i < k
    <3>1. i - Len(before) \in 1 .. Len(s) - k /\ k + (i - Len(before)) = i + 1
      BY <1>1, <1>2, <2>3
    <3>2. RemoveAt(s, k)[i] = after[i - Len(before)]
      BY <1>4, <1>5, <2>1, <2>3
    <3> QED BY <1>3, <2>3, <3>1, <3>2
  <2> QED BY <2>2, <2>3
<1> HIDE DEF RemoveAt
<1> QED BY <1>1, <1>6, <1>7

\* The least of some positions is one of them.
LEMMA FirstIs ==
  ASSUME NEW I \in SUBSET Nat, I # {}
  PROVE Min(I) \in I
  BY LeastOf, Zenon DEF Min

\* list.remove takes the element out at some position where it is,
LEMMA RemoveFirstIs ==
  ASSUME NEW X, NEW s \in Seq(X), NEW e \in ToSet(s)
  PROVE \E k \in DOMAIN s : s[k] = e /\ RemoveFirst(s, e) = RemoveAt(s, k)
<1> DEFINE I == {i \in 1 .. Len(s) : s[i] = e}
<1>1. DOMAIN s = 1 .. Len(s) /\ Len(s) \in Nat
  BY LenProperties
<1>2. I # {}
  BY <1>1 DEF ToSet
<1>3. I \in SUBSET Nat
  BY <1>1
<1>4. Min(I) \in I
  BY <1>2, <1>3, FirstIs
<1>5. \E i \in 1 .. Len(s) : s[i] = e
  BY <1>2
<1>6. SelectInSeq(s, LAMBDA v : v = e) = Min(I)
  BY <1>2, Zenon DEF SelectInSeq
<1>7. RemoveFirst(s, e) = RemoveAt(s, Min(I))
  BY <1>5, <1>6, Zenon DEF RemoveFirst
<1> QED BY <1>1, <1>4, <1>7

\* and leaves a list without it as it is.
LEMMA RemoveAbsent ==
  ASSUME NEW X, NEW s \in Seq(X), NEW e, e \notin ToSet(s)
  PROVE RemoveFirst(s, e) = s
<1>1. DOMAIN s = 1 .. Len(s)
  BY LenProperties
<1>2. ~ \E i \in 1 .. Len(s) : s[i] = e
  BY <1>1 DEF ToSet
<1> QED BY <1>2, Zenon DEF RemoveFirst

\* A list without duplicates.
Distinct(s) == \A i, j \in DOMAIN s : s[i] = s[j] => i = j

\* Appending a new element to a list without duplicates adds it to the set.
LEMMA ListGrows ==
  ASSUME NEW X, NEW s \in Seq(X), NEW e \in X, Distinct(s), e \notin ToSet(s)
  PROVE Append(s, e) \in Seq(X) /\ Distinct(Append(s, e)) /\ ToSet(Append(s, e)) = ToSet(s) \cup {e}
<1> DEFINE t == Append(s, e)
<1>1. /\ t \in Seq(X)
      /\ \A i \in DOMAIN t : \/ i \in DOMAIN s /\ t[i] = s[i]
                             \/ i = Len(s) + 1 /\ t[i] = e
      /\ \A i \in DOMAIN s : i \in DOMAIN t /\ t[i] = s[i]
      /\ Len(s) + 1 \in DOMAIN t /\ t[Len(s) + 1] = e
  BY AppendIs
<1> HIDE DEF t
<1>2. \A i \in DOMAIN s : s[i] # e
  BY Zenon DEF ToSet
<1>3. Distinct(t)
  BY <1>1, <1>2, Zenon DEF Distinct
<1>4. \A x : x \in ToSet(t) <=> x \in ToSet(s) \/ x = e
  BY <1>1, Zenon DEF ToSet
<1> QED BY <1>1, <1>3, <1>4 DEF t

\* Removing an element from a list without duplicates takes it out of the set.
LEMMA ListShrinks ==
  ASSUME NEW X, NEW s \in Seq(X), NEW e, Distinct(s)
  PROVE RemoveFirst(s, e) \in Seq(X) /\ Distinct(RemoveFirst(s, e)) /\ ToSet(RemoveFirst(s, e)) = ToSet(s) \ {e}
<1>1. CASE e \notin ToSet(s)
  BY <1>1, RemoveAbsent
<1>2. CASE e \in ToSet(s)
  <2>1. PICK k \in DOMAIN s : s[k] = e /\ RemoveFirst(s, e) = RemoveAt(s, k)
    BY <1>2, RemoveFirstIs
  <2> DEFINE t == RemoveAt(s, k)
  <2>2. /\ t \in Seq(X)
        /\ \A i \in DOMAIN t : \/ i < k /\ i \in DOMAIN s /\ t[i] = s[i]
                               \/ i >= k /\ i \in Nat /\ i + 1 \in DOMAIN s /\ t[i] = s[i + 1]
        /\ \A i \in DOMAIN s : /\ i < k => i \in DOMAIN t /\ t[i] = s[i]
                               /\ i > k => i - 1 \in DOMAIN t /\ t[i - 1] = s[i]
    BY RemoveAtIs
  <2>3. DOMAIN s \in SUBSET Nat
    BY LenProperties
  <2> HIDE DEF t
  <2>4. Distinct(t)
    BY <2>2, <2>3 DEF Distinct
  <2>5. \A i \in DOMAIN s : i # k => s[i] # e
    BY <2>1, Zenon DEF Distinct
  <2>6. ASSUME NEW x \in ToSet(t) PROVE x \in ToSet(s) \ {e}
    <3>1. PICK i \in DOMAIN t : x = t[i]
      BY Zenon DEF ToSet
    <3>2. \/ i < k /\ i \in DOMAIN s /\ x = s[i]
          \/ i >= k /\ i \in Nat /\ i + 1 \in DOMAIN s /\ x = s[i + 1]
      BY <2>2, <3>1, Zenon
    <3>3. i < k => i # k
      BY <2>3, <3>2
    <3>4. i >= k /\ i \in Nat => i + 1 # k
      BY <2>3
    <3>5. \E j \in DOMAIN s : x = s[j] /\ j # k
      BY <3>2, <3>3, <3>4, Zenon
    <3> QED BY <2>5, <3>5 DEF ToSet
  <2>7. ASSUME NEW x \in ToSet(s) \ {e} PROVE x \in ToSet(t)
    <3>1. PICK i \in DOMAIN s : x = s[i]
      BY Zenon DEF ToSet
    <3>2. i # k
      BY <2>1, <3>1
    <3>3. i < k \/ i > k
      BY <2>3, <3>2
    <3>4. \E j \in DOMAIN t : t[j] = s[i]
      BY <2>2, <3>3, Zenon
    <3> QED BY <3>1, <3>4 DEF ToSet
  <2>8. ToSet(t) = ToSet(s) \ {e}
    BY <2>6, <2>7
  <2> QED BY <2>1, <2>2, <2>4, <2>8 DEF t
<1> QED BY <1>1, <1>2

\* The first subscription without a broadcast is one.
LEMMA FirstCounterIs ==
  ASSUME NEW s \in Seq(Allocations), Counters(ToSet(s)) # {}
  PROVE s[SelectInSeq(s, LAMBDA a : a.what \in Watchers)] \in Counters(ToSet(s))
<1> DEFINE I == {i \in 1 .. Len(s) : s[i].what \in Watchers}
<1>1. DOMAIN s = 1 .. Len(s) /\ Len(s) \in Nat
  BY LenProperties
<1>2. I # {} /\ I \in SUBSET Nat
  BY <1>1 DEF Counters, ToSet
<1>3. Min(I) \in I
  BY <1>2, FirstIs
<1>4. SelectInSeq(s, LAMBDA a : a.what \in Watchers) = Min(I)
  BY <1>2, Zenon DEF SelectInSeq
<1> QED BY <1>1, <1>3, <1>4 DEF Counters, ToSet

-----------------------------------------------------------------------------
(* The queue of RPCs.                                                      *)

\* The RPCs that wait, those of the tasks of the watchers, and those of the blocks: what
\* the block of a region has asked for is determined by what it does.
Rpcs == [by : Contents, op : Ops, a : Allocations \cup {Nothing}]

ForTask(q) == q.by \in Watchers /\ q.op \in {"enable", "disable", "read"}

AskedFor(q, p, pl, al, su) ==
  /\ q.by \in Regions
  /\ \/ /\ p[q.by] = "counter" /\ q.op = "set"
        /\ q.a \in al \ ToSet(su[q.a.w]) /\ q.a.what \in Watchers /\ q.a # pl[q.by]
     \/ p[q.by] = "region" /\ q.op = "set" /\ q.a = pl[q.by]
     \/ p[q.by] \in {"clearing", "clearingCounter"} /\ q.op = "clear" /\ q.a = pl[q.by]

\* A queue that no block waits in.
Quiet(queue) == \A i \in DOMAIN queue : ForTask(queue[i])

\* A queue in which at most one block waits.
AskedIn(queue, p, pl, al, su) ==
  /\ \A i \in DOMAIN queue : ForTask(queue[i]) \/ AskedFor(queue[i], p, pl, al, su)
  /\ \A i, j \in DOMAIN queue : queue[i].by \in Regions /\ queue[j].by \in Regions => i = j

\* Blocks and tasks are told apart by who asks.
LEMMA RegionsAreNotWatchers == \A x : ~ (x \in Regions /\ x \in Watchers)
  BY ContentAssumption

\* Where no block waits, none has asked for the wrong thing.
LEMMA QuietIsAsked ==
  ASSUME NEW queue, Quiet(queue), NEW p, NEW pl, NEW al, NEW su
  PROVE AskedIn(queue, p, pl, al, su)
  BY RegionsAreNotWatchers, Zenon DEF Quiet, AskedIn, ForTask

\* A task may ask at any time,
LEMMA AskedAndTask ==
  ASSUME NEW queue \in Seq(Rpcs), NEW q \in Rpcs, ForTask(q), NEW p, NEW pl, NEW al, NEW su,
         AskedIn(queue, p, pl, al, su)
  PROVE AskedIn(Append(queue, q), p, pl, al, su)
<1>1. /\ \A i \in DOMAIN Append(queue, q) : \/ i \in DOMAIN queue /\ Append(queue, q)[i] = queue[i]
                                            \/ Append(queue, q)[i] = q
  BY AppendIs
<1>2. q.by \notin Regions
  BY RegionsAreNotWatchers, Zenon DEF ForTask
<1> QED BY <1>1, <1>2, Zenon DEF AskedIn

\* a block when no other waits.
LEMMA QuietAndAsked ==
  ASSUME NEW queue \in Seq(Rpcs), NEW q \in Rpcs, NEW p, NEW pl, NEW al, NEW su,
         Quiet(queue), AskedFor(q, p, pl, al, su)
  PROVE AskedIn(Append(queue, q), p, pl, al, su)
<1>1. /\ \A i \in DOMAIN Append(queue, q) : \/ i \in DOMAIN queue /\ Append(queue, q)[i] = queue[i]
                                            \/ i = Len(queue) + 1 /\ Append(queue, q)[i] = q
  BY AppendIs
<1>2. \A i \in DOMAIN queue : queue[i].by \notin Regions
  BY RegionsAreNotWatchers, Zenon DEF ForTask, Quiet
<1> QED BY <1>1, <1>2, Zenon DEF AskedIn, Quiet

\* What is left when the first is served; if that is a block's, no block waits.
LEMMA AskedTail ==
  ASSUME NEW queue \in Seq(Rpcs), queue # << >>, NEW p, NEW pl, NEW al, NEW su,
         AskedIn(queue, p, pl, al, su)
  PROVE /\ AskedIn(Tail(queue), p, pl, al, su)
        /\ Head(queue).by \in Regions => Quiet(Tail(queue)) /\ AskedFor(Head(queue), p, pl, al, su)
<1>1. /\ 1 \in DOMAIN queue /\ Head(queue) = queue[1]
      /\ \A i \in DOMAIN Tail(queue) : i \in Nat /\ i + 1 \in DOMAIN queue /\ i + 1 # 1 /\ Tail(queue)[i] = queue[i + 1]
  BY TailIs
<1>2. \A i, j \in DOMAIN Tail(queue) : i + 1 = j + 1 => i = j
  BY <1>1
<1>3. AskedIn(Tail(queue), p, pl, al, su)
  BY <1>1, <1>2, Zenon DEF AskedIn
<1>4. ASSUME Head(queue).by \in Regions PROVE Quiet(Tail(queue)) /\ AskedFor(Head(queue), p, pl, al, su)
  <2>1. \A i \in DOMAIN queue : i # 1 => queue[i].by \notin Regions
    BY <1>1, <1>4, Zenon DEF AskedIn
  <2>2. Quiet(Tail(queue))
    BY <1>1, <2>1, Zenon DEF AskedIn, Quiet, AskedFor
  <2>3. ~ ForTask(queue[1])
    BY <1>1, <1>4, RegionsAreNotWatchers, Zenon DEF ForTask
  <2> QED BY <1>1, <2>2, <2>3, Zenon DEF AskedIn
<1> QED BY <1>3, <1>4, Zenon

-----------------------------------------------------------------------------
(* The invariant of the client.                                            *)

\* The subscriptions of a watcher are allocations of it that are in the books, each once.
Listed ==
  \A w \in Watchers :
    /\ Distinct(subs[w])
    /\ \A a \in ToSet(subs[w]) : a \in alloc /\ a.w = w

\* Who is inside is counted; a counted region is enabled and nobody changes it; a region
\* is enabled from SetRegion until the end of its disable(), and its handle is its own.
Counted ==
  \A r \in Regions :
    /\ inside[r] <= refs[r]
    /\ refs[r] > 0 => pc[r] = "idle" /\ handle[r] # Nothing
    /\ pc[r] \in {"enabling", "counter", "region"} => handle[r] = Nothing
    /\ pc[r] \in {"disabling", "clearing", "clearingCounter"} => handle[r] # Nothing
    /\ handle[r] # Nothing => handle[r].what = r

\* _allocator_lock has one holder.
OneHolder == \A r, s \in Holding : r = s

\* What the holder works on: a region that is in the books and not set up yet, with a
\* task before it is set up; its own handle; or a counter without other subscriptions.
Planned ==
  \A r \in Holding :
    /\ plan[r] \in Allocations
    /\ pc[r] \in {"counter", "region"} => plan[r] \in alloc \ ToSet(subs[plan[r].w]) /\ plan[r].what = r
    /\ pc[r] = "region" => plan[r].w \in tasks
    /\ pc[r] = "clearing" => plan[r] = handle[r]
    /\ pc[r] = "clearingCounter" =>
         plan[r] \in Counters(ToSet(subs[plan[r].w])) /\ Users(ToSet(subs[plan[r].w])) = {}

\* Whoever waits with a block's RPC is the holder, with the RPC of its plan.
Asked == AskedIn(rpcs, pc, plan, alloc, subs)

\* The part of the inductive invariant that is about the client.
Core == TypeOK /\ Books(alloc) /\ Listed /\ Counted /\ OneHolder /\ Planned /\ Asked

\* Its conjuncts.
LEMMA CoreSays ==
  ASSUME Core
  PROVE TypeOK /\ Books(alloc) /\ Listed /\ Counted /\ OneHolder /\ Planned /\ Asked
  BY Zenon DEF Core

\* rpcs, in the words of the lemmas about queues.
LEMMA QueueType ==
  ASSUME TypeOK
  PROVE /\ rpcs \in Seq(Rpcs)
        /\ rpcs # << >> => Head(rpcs) \in Rpcs /\ Tail(rpcs) \in Seq(Rpcs)
<1>1. rpcs \in Seq(Rpcs)
  BY Zenon DEF TypeOK, Rpcs
<1> QED BY <1>1, HeadTailProperties

\* An RPC is made of who asks, for what.
LEMMA RpcType ==
  ASSUME NEW x \in Contents, NEW op \in Ops, NEW a \in Allocations \cup {Nothing}
  PROVE Rpc(x, op, a) \in Rpcs /\ Rpc(x, op, a).by = x /\ Rpc(x, op, a).op = op /\ Rpc(x, op, a).a = a
  BY DEF Rpc, Rpcs

\* While nobody holds the lock, no block waits.
LEMMA NobodyAsks ==
  ASSUME Core, Holding = {}
  PROVE Quiet(rpcs)
<1>1. AskedIn(rpcs, pc, plan, alloc, subs)
  BY CoreSays, Zenon DEF Asked
<1>2. \A r \in Regions : pc[r] \notin {"counter", "region", "clearing", "clearingCounter"}
  BY Zenon DEF Holding
<1> QED BY <1>1, <1>2 DEF AskedIn, AskedFor, Quiet

\* It is the turn of an RPC that the block of region r has asked for.
Turn(r, a) ==
  /\ r \in Holding /\ \A s \in Holding : s = r
  /\ a \in Allocations
  /\ rpcs # << >> /\ Tail(rpcs) \in Seq(Rpcs) /\ Quiet(Tail(rpcs))
  /\ Head(rpcs).op \in {"set", "clear"}
  /\ \/ pc[r] = "counter" /\ a \in alloc \ ToSet(subs[a.w]) /\ a.what \in Watchers /\ a # plan[r]
     \/ pc[r] \in {"region", "clearing", "clearingCounter"} /\ a = plan[r]

\* A block's RPC at the head is the holder's,
LEMMA TurnIs ==
  ASSUME Core, rpcs # << >>, Head(rpcs).by \in Regions
  PROVE /\ Turn(Head(rpcs).by, Head(rpcs).a)
        /\ Head(rpcs).op = "set" <=> pc[Head(rpcs).by] \in {"counter", "region"}
        /\ Head(rpcs).op \in {"set", "clear"}
<1> DEFINE q == Head(rpcs)
<1>1. AskedIn(rpcs, pc, plan, alloc, subs) /\ rpcs \in Seq(Rpcs) /\ Tail(rpcs) \in Seq(Rpcs)
  BY CoreSays, QueueType, Zenon DEF Asked
<1>2. Quiet(Tail(rpcs)) /\ AskedFor(q, pc, plan, alloc, subs)
  BY <1>1, AskedTail
<1> HIDE DEF q
<1>3. q.by \in Holding
  BY <1>2 DEF AskedFor, Holding
<1>4. \A s \in Holding : s = q.by
  BY <1>3, CoreSays, Zenon DEF OneHolder
<1>5. plan[q.by] \in Allocations
  BY <1>3, CoreSays, Zenon DEF Planned
<1>6. alloc \subseteq Allocations
  BY CoreSays, Zenon DEF Books
<1>7. q.a \in Allocations
  BY <1>2, <1>5, <1>6 DEF AskedFor
<1> QED BY <1>1, <1>2, <1>3, <1>4, <1>7 DEF Turn, AskedFor, q

\* any other is a task's.
LEMMA TaskTurnIs ==
  ASSUME Core, rpcs # << >>, Head(rpcs).by \notin Regions
  PROVE Head(rpcs).by \in Watchers /\ Head(rpcs).op \in {"enable", "disable", "read"}
<1>1. AskedIn(rpcs, pc, plan, alloc, subs) /\ rpcs \in Seq(Rpcs)
  BY CoreSays, QueueType, Zenon DEF Asked
<1>2. 1 \in DOMAIN rpcs /\ Head(rpcs) = rpcs[1]
  BY <1>1, TailIs
<1> QED BY <1>1, <1>2, Zenon DEF AskedIn, AskedFor, ForTask

\* Hence the cases of Execute.
LEMMA ExecuteCases ==
  ASSUME Core, Execute
  PROVE \/ \E r \in Regions, a \in Allocations :
             /\ Turn(r, a)
             /\ SetCounter(r, a) \/ SetRegion(r, a) \/ ClearRegion(r, a) \/ ClearCounter(r, a)
        \/ /\ rpcs # << >>
           /\ \E w \in Watchers :
                /\ Head(rpcs).by = w
                /\ \/ Head(rpcs).op = "enable" /\ EnableWatcher(w)
                   \/ Head(rpcs).op = "disable" /\ DisableWatcher(w)
                   \/ Head(rpcs).op = "read" /\ ReadCounter(w)
<1> DEFINE q == Head(rpcs)
<1>1. /\ rpcs # << >>
      /\ \/ q.op = "set" /\ (SetCounter(q.by, q.a) \/ SetRegion(q.by, q.a))
         \/ q.op = "clear" /\ (ClearRegion(q.by, q.a) \/ ClearCounter(q.by, q.a))
         \/ q.op = "enable" /\ EnableWatcher(q.by)
         \/ q.op = "disable" /\ DisableWatcher(q.by)
         \/ q.op = "read" /\ ReadCounter(q.by)
  BY Zenon DEF Execute
<1>2. CASE q.by \in Regions
  <2>1. Turn(q.by, q.a) /\ q.op \in {"set", "clear"}
    BY <1>1, <1>2, TurnIs
  <2>2. q.a \in Allocations
    BY <2>1, Zenon DEF Turn
  <2> HIDE DEF q
  <2>3. q.op # "enable" /\ q.op # "disable" /\ q.op # "read"
    BY <2>1
  <2> QED BY <1>1, <1>2, <2>1, <2>2, <2>3, Zenon
<1>3. CASE q.by \notin Regions
  <2>1. q.by \in Watchers /\ q.op # "set" /\ q.op # "clear"
    BY <1>1, <1>3, TaskTurnIs
  <2> QED BY <1>1, <2>1, Zenon
<1> QED BY <1>2, <1>3

-----------------------------------------------------------------------------
(* What the steps of the blocks keep.                                      *)

\* The fields of an allocation.
LEMMA AllocationType ==
  ASSUME NEW a \in Allocations
  PROVE a.w \in Watchers /\ a.id \in RegionIds /\ a.what \in Contents /\ a # Nothing
  BY NothingAssumption DEF Allocations

\* What subscribing does to the lists of all watchers.
LEMMA ListsGrow ==
  ASSUME TypeOK, Listed, NEW a \in Allocations, a \notin ToSet(subs[a.w]),
         subs' = [subs EXCEPT ![a.w] = Append(@, a)]
  PROVE /\ subs' \in [Watchers -> Seq(Allocations)]
        /\ \A w \in Watchers : /\ Distinct(subs'[w])
                               /\ \A b : b \in ToSet(subs'[w]) <=> (b \in ToSet(subs[w]) \/ (w = a.w /\ b = a))
<1>1. subs \in [Watchers -> Seq(Allocations)] /\ a.w \in Watchers
  BY AllocationType, Zenon DEF TypeOK
<1> DEFINE t == Append(subs[a.w], a)
<1>2. subs' = [subs EXCEPT ![a.w] = t]
  BY Zenon
<1>3. Distinct(subs[a.w]) /\ subs[a.w] \in Seq(Allocations)
  BY <1>1 DEF Listed
<1>4. t \in Seq(Allocations) /\ Distinct(t) /\ ToSet(t) = ToSet(subs[a.w]) \cup {a}
  BY <1>3, ListGrows
<1> HIDE DEF t
<1>5. subs'[a.w] = t /\ \A w \in Watchers : w # a.w => subs'[w] = subs[w]
  BY <1>1, <1>2
<1>6. subs' \in [Watchers -> Seq(Allocations)]
  BY <1>1, <1>2, <1>4
<1>7. ASSUME NEW w \in Watchers
      PROVE /\ Distinct(subs'[w])
            /\ \A b : b \in ToSet(subs'[w]) <=> (b \in ToSet(subs[w]) \/ (w = a.w /\ b = a))
  <2>1. CASE w = a.w
    BY <1>4, <1>5, <2>1
  <2>2. CASE w # a.w
    BY <1>5, <2>2 DEF Listed
  <2> QED BY <2>1, <2>2
<1> QED BY <1>6, <1>7

\* What unsubscribing does to them.
LEMMA ListsShrink ==
  ASSUME TypeOK, Listed, NEW a \in Allocations,
         subs' = [subs EXCEPT ![a.w] = RemoveFirst(@, a)]
  PROVE /\ subs' \in [Watchers -> Seq(Allocations)]
        /\ \A w \in Watchers : /\ Distinct(subs'[w])
                               /\ \A b : b \in ToSet(subs'[w]) <=> (b \in ToSet(subs[w]) /\ b # a)
<1>1. subs \in [Watchers -> Seq(Allocations)] /\ a.w \in Watchers
  BY AllocationType, Zenon DEF TypeOK
<1> DEFINE t == RemoveFirst(subs[a.w], a)
<1>2. subs' = [subs EXCEPT ![a.w] = t]
  BY Zenon
<1>3. Distinct(subs[a.w]) /\ subs[a.w] \in Seq(Allocations)
  BY <1>1 DEF Listed
<1>4. t \in Seq(Allocations) /\ Distinct(t) /\ ToSet(t) = ToSet(subs[a.w]) \ {a}
  BY <1>3, ListShrinks
<1> HIDE DEF t
<1>5. subs'[a.w] = t /\ \A w \in Watchers : w # a.w => subs'[w] = subs[w]
  BY <1>1, <1>2
<1>6. subs' \in [Watchers -> Seq(Allocations)]
  BY <1>1, <1>2, <1>4
<1>7. ASSUME NEW w \in Watchers
      PROVE /\ Distinct(subs'[w])
            /\ \A b : b \in ToSet(subs'[w]) <=> (b \in ToSet(subs[w]) /\ b # a)
  <2>1. CASE w = a.w
    BY <1>4, <1>5, <2>1
  <2>2. CASE w # a.w
    <3>1. a \notin ToSet(subs[w])
      BY <2>2 DEF Listed
    <3> QED BY <1>5, <2>2, <3>1 DEF Listed
  <2> QED BY <2>1, <2>2
<1> QED BY <1>6, <1>7

\* What the robot has after it has set a region up or cleared it.
LEMMA SetsType ==
  ASSUME TypeOK, NEW a \in Allocations, NEW x \in Contents \cup {Nothing}, RobotSets(a, x)
  PROVE /\ layout' \in [Watchers -> [RegionIds -> Contents \cup {Nothing}]]
        /\ version' \in [Watchers -> Nat]
        /\ enabled' = enabled
        /\ \A w \in Watchers, i \in RegionIds :
             layout'[w][i] = IF w = a.w /\ i = a.id THEN x ELSE layout[w][i]
<1>1. /\ layout \in [Watchers -> [RegionIds -> Contents \cup {Nothing}]]
      /\ version \in [Watchers -> Nat]
  BY Zenon DEF TypeOK
<1>2. a.w \in Watchers /\ a.id \in RegionIds
  BY AllocationType
<1>3. /\ layout' = [layout EXCEPT ![a.w][a.id] = x]
      /\ version' = [version EXCEPT ![a.w] = @ + 1]
      /\ enabled' = enabled
  BY Zenon DEF RobotSets, Count
<1>4. layout' \in [Watchers -> [RegionIds -> Contents \cup {Nothing}]] /\ version' \in [Watchers -> Nat]
  BY <1>1, <1>2, <1>3
<1>5. \A w \in Watchers, i \in RegionIds :
             layout'[w][i] = IF w = a.w /\ i = a.id THEN x ELSE layout[w][i]
  BY <1>1, <1>2, <1>3
<1> QED BY <1>3, <1>4, <1>5

\* What a step leaves alone when it asks for nothing and lets nobody go on.
LEMMA AskedSame ==
  ASSUME Core, UNCHANGED << rpcs, alloc, subs >>,
         \A r \in Holding : pc'[r] = pc[r] /\ plan'[r] = plan[r]
  PROVE Asked'
<1>1. AskedIn(rpcs, pc, plan, alloc, subs)
  BY CoreSays, Zenon DEF Asked
<1>2. \A q : AskedFor(q, pc, plan, alloc, subs) => q.by \in Holding
  BY DEF AskedFor, Holding
<1>3. \A q : AskedFor(q, pc, plan, alloc, subs) => AskedFor(q, pc', plan', alloc, subs)
  BY <1>2 DEF AskedFor
<1>4. AskedIn(rpcs, pc', plan', alloc, subs)
  BY <1>1, <1>3, Zenon DEF AskedIn
<1> QED BY <1>4, Zenon DEF Asked

\* Core is inductive: entering and leaving a block.
LEMMA EnterCore ==
  ASSUME Core, NEW r \in Regions, Enter(r)
  PROVE Core'
<1>1. /\ pc[r] = "idle" /\ opens < MaxOpens /\ opens' = opens + 1
      /\ \/ handle[r] = Nothing /\ pc' = [pc EXCEPT ![r] = "enabling"] /\ refs' = refs /\ inside' = inside
         \/ /\ handle[r] # Nothing /\ pc' = pc
            /\ refs' = [refs EXCEPT ![r] = @ + 1] /\ inside' = [inside EXCEPT ![r] = @ + 1]
      /\ UNCHANGED << alloc, subs, tasks, plan, handle, rpcs, robotVars, taskVars, faults, broken >>
  BY Zenon DEF Enter, Goto, Count
<1>2. TypeOK /\ Books(alloc) /\ Listed /\ Counted /\ OneHolder /\ Planned
  BY CoreSays
<1>3. pc \in [Regions -> Pcs] /\ refs \in [Regions -> Nat] /\ inside \in [Regions -> Nat] /\ opens \in 0 .. MaxOpens
  BY <1>2, Zenon DEF TypeOK
<1>4. pc' \in [Regions -> Pcs] /\ refs' \in [Regions -> Nat] /\ inside' \in [Regions -> Nat] /\ opens' \in 0 .. MaxOpens
  BY <1>1, <1>3, BoundAssumption DEF Pcs
<1>5. TypeOK'
  BY <1>1, <1>2, <1>4 DEF TypeOK, robotVars, taskVars
<1>6. Books(alloc)' /\ Listed'
  BY <1>1, <1>2, Zenon DEF Listed, Books
<1>7. Counted'
  BY <1>1, <1>2, <1>3 DEF Counted, Pcs
<1>8. Holding' = Holding /\ \A s \in Holding : pc'[s] = pc[s] /\ plan'[s] = plan[s]
  BY <1>1, <1>3 DEF Holding
<1>9. OneHolder' /\ Planned'
  BY <1>1, <1>2, <1>8 DEF OneHolder, Planned
<1>10. Asked'
  BY <1>1, <1>8, AskedSame
<1> QED BY <1>5, <1>6, <1>7, <1>9, <1>10, Zenon DEF Core

LEMMA LeaveCore ==
  ASSUME Core, NEW r \in Regions, Leave(r)
  PROVE Core'
<1>1. /\ pc[r] = "idle" /\ inside[r] > 0
      /\ refs' = [refs EXCEPT ![r] = @ + -1] /\ inside' = [inside EXCEPT ![r] = @ + -1]
      /\ \/ refs[r] = 1 /\ pc' = [pc EXCEPT ![r] = "disabling"]
         \/ refs[r] # 1 /\ pc' = pc
      /\ UNCHANGED << alloc, subs, tasks, plan, handle, rpcs, robotVars, taskVars, opens, faults, broken >>
  BY Zenon DEF Leave, Goto, Count
<1>2. TypeOK /\ Books(alloc) /\ Listed /\ Counted /\ OneHolder /\ Planned
  BY CoreSays
<1>3. pc \in [Regions -> Pcs] /\ refs \in [Regions -> Nat] /\ inside \in [Regions -> Nat]
  BY <1>2, Zenon DEF TypeOK
<1>4. inside[r] <= refs[r] /\ handle[r] # Nothing
  BY <1>1, <1>2, <1>3 DEF Counted
<1>5. pc' \in [Regions -> Pcs] /\ refs' \in [Regions -> Nat] /\ inside' \in [Regions -> Nat]
  BY <1>1, <1>3, <1>4 DEF Pcs
<1>6. TypeOK'
  BY <1>1, <1>2, <1>5 DEF TypeOK, robotVars, taskVars
<1>7. Books(alloc)' /\ Listed'
  BY <1>1, <1>2, Zenon DEF Listed, Books
<1>8. Counted'
  BY <1>1, <1>2, <1>3, <1>4 DEF Counted, Pcs
<1>9. Holding' = Holding /\ \A s \in Holding : pc'[s] = pc[s] /\ plan'[s] = plan[s]
  BY <1>1, <1>3 DEF Holding
<1>10. OneHolder' /\ Planned'
  BY <1>1, <1>2, <1>9 DEF OneHolder, Planned
<1>11. Asked'
  BY <1>1, <1>9, AskedSame
<1> QED BY <1>6, <1>7, <1>8, <1>10, <1>11, Zenon DEF Core

LEMMA CancelWaitingCore ==
  ASSUME Core, NEW r \in Regions, CancelWaiting(r)
  PROVE Core'
<1>1. /\ faults < MaxFaults /\ faults' = faults + 1 /\ opens' = opens
      /\ broken' = (broken \/ pc[r] = "disabling")
      /\ \/ pc[r] \in {"enabling", "disabling"} /\ pc' = [pc EXCEPT ![r] = "idle"] /\ inside' = inside
         \/ /\ pc[r] = "idle" /\ inside[r] > 0
            /\ inside' = [inside EXCEPT ![r] = @ + -1] /\ pc' = pc
      /\ UNCHANGED << alloc, subs, tasks, plan, handle, refs, rpcs, robotVars, taskVars >>
  BY Zenon DEF CancelWaiting, Fault, Goto, Count
<1>2. TypeOK /\ Books(alloc) /\ Listed /\ Counted /\ OneHolder /\ Planned
  BY CoreSays
<1>3. /\ pc \in [Regions -> Pcs] /\ refs \in [Regions -> Nat] /\ inside \in [Regions -> Nat]
      /\ faults \in 0 .. MaxFaults /\ broken \in BOOLEAN
  BY <1>2, Zenon DEF TypeOK
<1>4. /\ pc' \in [Regions -> Pcs] /\ inside' \in [Regions -> Nat]
      /\ faults' \in 0 .. MaxFaults
  BY <1>1, <1>3, BoundAssumption DEF Pcs
<1>5. broken' \in BOOLEAN
  BY <1>1, <1>3
<1>6. TypeOK'
  BY <1>1, <1>2, <1>4, <1>5 DEF TypeOK, robotVars, taskVars
<1>7. Books(alloc)' /\ Listed'
  BY <1>1, <1>2, Zenon DEF Listed, Books
<1>8. Counted'
  BY <1>1, <1>2, <1>3 DEF Counted, Pcs
<1>9. Holding' = Holding /\ \A s \in Holding : pc'[s] = pc[s] /\ plan'[s] = plan[s]
  BY <1>1, <1>3 DEF Holding
<1>10. OneHolder' /\ Planned'
  BY <1>1, <1>2, <1>9 DEF OneHolder, Planned
<1>11. Asked'
  BY <1>1, <1>9, AskedSame
<1> QED BY <1>6, <1>7, <1>8, <1>10, <1>11, Zenon DEF Core

LEMMA DisableCore ==
  ASSUME Core, NEW r \in Regions, Disable(r)
  PROVE Core'
<1>1. /\ pc[r] = "disabling" /\ Holding = {}
      /\ rpcs' = Append(rpcs, Rpc(r, "clear", handle[r]))
      /\ plan' = [plan EXCEPT ![r] = handle[r]] /\ pc' = [pc EXCEPT ![r] = "clearing"]
      /\ UNCHANGED << alloc, subs, tasks, handle, refs, inside, robotVars, taskVars, opens, faults, broken >>
  BY Zenon DEF Disable, Goto
<1>2. TypeOK /\ Books(alloc) /\ Listed /\ Counted /\ OneHolder /\ Planned
  BY CoreSays
<1>3. /\ pc \in [Regions -> Pcs] /\ plan \in [Regions -> Allocations \cup {Nothing}]
      /\ handle \in [Regions -> Allocations \cup {Nothing}] /\ rpcs \in Seq(Rpcs)
      /\ refs \in [Regions -> Nat]
  BY <1>2, QueueType, Zenon DEF TypeOK
<1>4. handle[r] \in Allocations /\ ~ refs[r] > 0
  BY <1>1, <1>2, <1>3 DEF Counted
<1> DEFINE q == Rpc(r, "clear", handle[r])
<1>5. q \in Rpcs /\ q.by = r /\ q.op = "clear" /\ q.a = handle[r]
  BY <1>4, RpcType DEF Contents, Ops
<1> HIDE DEF q
<1>6. pc' \in [Regions -> Pcs] /\ plan' \in [Regions -> Allocations \cup {Nothing}]
  BY <1>1, <1>3 DEF Pcs
<1>7. rpcs' \in Seq([by : Contents, op : Ops, a : Allocations \cup {Nothing}])
  <2>1. rpcs' \in Seq(Rpcs)
    BY <1>1, <1>3, <1>5, AppendIs DEF q
  <2> QED BY <2>1, Zenon DEF Rpcs
<1>8. TypeOK'
  BY <1>1, <1>2, <1>6, <1>7 DEF TypeOK, robotVars, taskVars
<1>9. Books(alloc)' /\ Listed'
  BY <1>1, <1>2, Zenon DEF Listed, Books
<1>10. Counted'
  BY <1>1, <1>2, <1>3, <1>4 DEF Counted, Pcs
<1>11. \A s \in Holding' : s = r
  BY <1>1, <1>3 DEF Holding
<1>12. pc'[r] = "clearing" /\ plan'[r] = handle[r] /\ handle' = handle
  BY <1>1, <1>3
<1>13. OneHolder' /\ Planned'
  BY <1>4, <1>11, <1>12 DEF OneHolder, Planned
<1>14. AskedFor(q, pc', plan', alloc', subs')
  BY <1>5, <1>12 DEF AskedFor
<1>15. Quiet(rpcs)
  BY <1>1, NobodyAsks
<1>16. AskedIn(rpcs', pc', plan', alloc', subs')
  BY <1>1, <1>3, <1>5, <1>14, <1>15, QuietAndAsked DEF q
<1> QED BY <1>8, <1>9, <1>10, <1>13, <1>16, Zenon DEF Core, Asked

LEMMA EnableCore ==
  ASSUME Core, NEW r \in Regions, Enable(r)
  PROVE Core'
<1>1. /\ pc[r] = "enabling" /\ Holding = {}
      /\ UNCHANGED << subs, tasks, handle, refs, inside, robotVars, taskVars, opens, faults, broken >>
      /\ \/ /\ pc' = [pc EXCEPT ![r] = "idle"] /\ UNCHANGED << alloc, plan, rpcs >>
         \/ \E a \in Allocate(alloc, r) :
              /\ plan' = [plan EXCEPT ![r] = a]
              /\ \/ /\ a.w \in tasks /\ alloc' = alloc \cup {a}
                    /\ rpcs' = Append(rpcs, Rpc(r, "set", a)) /\ pc' = [pc EXCEPT ![r] = "region"]
                 \/ \E c \in Allocate(alloc \cup {a}, a.w) :
                      /\ alloc' = alloc \cup {a, c}
                      /\ rpcs' = Append(rpcs, Rpc(r, "set", c)) /\ pc' = [pc EXCEPT ![r] = "counter"]
                 \/ /\ alloc' = alloc \cup {a}
                    /\ pc' = [pc EXCEPT ![r] = "idle"] /\ rpcs' = rpcs
  BY Zenon DEF Enable, Goto
<1>2. TypeOK /\ Books(alloc) /\ Listed /\ Counted /\ OneHolder /\ Planned
  BY CoreSays
<1>3. /\ pc \in [Regions -> Pcs] /\ plan \in [Regions -> Allocations \cup {Nothing}]
      /\ rpcs \in Seq(Rpcs) /\ refs \in [Regions -> Nat]
      /\ subs \in [Watchers -> Seq(Allocations)]
  BY <1>2, QueueType, Zenon DEF TypeOK
<1>4. Quiet(rpcs) /\ handle[r] = Nothing /\ ~ refs[r] > 0
  BY <1>1, <1>2, <1>3, NobodyAsks DEF Counted
<1>5. r \in Contents
  BY DEF Contents
<1> DEFINE Done == /\ pc' \in [Regions -> Pcs] /\ plan' \in [Regions -> Allocations \cup {Nothing}]
                   /\ rpcs' \in Seq(Rpcs)
                   /\ \A s \in Regions : s # r => pc'[s] = pc[s]
                   /\ pc'[r] \in {"idle", "counter", "region"}
                   /\ Books(alloc') /\ alloc \subseteq alloc'
                   /\ Planned' /\ AskedIn(rpcs', pc', plan', alloc', subs')
<1>6. ASSUME NEW l \in {"idle", "counter", "region"}, pc' = [pc EXCEPT ![r] = l]
      PROVE /\ pc' \in [Regions -> Pcs] /\ pc'[r] = l
            /\ \A s \in Regions : s # r => pc'[s] = pc[s]
            /\ \A s \in Holding' : s = r /\ l # "idle"
  BY <1>1, <1>3, <1>6 DEF Pcs, Holding
<1>7. ASSUME pc' = [pc EXCEPT ![r] = "idle"], UNCHANGED << alloc, plan, rpcs >>
      PROVE Done
  <2>1. /\ pc' \in [Regions -> Pcs] /\ pc'[r] = "idle"
        /\ \A s \in Regions : s # r => pc'[s] = pc[s]
        /\ \A s \in Holding' : FALSE
    BY <1>6, <1>7
  <2>2. Planned'
    BY <2>1, Zenon DEF Planned
  <2> QED BY <1>2, <1>3, <1>4, <1>7, <2>1, <2>2, QuietIsAsked
<1>8. ASSUME NEW a \in Allocate(alloc, r), plan' = [plan EXCEPT ![r] = a]
      PROVE /\ a \in Allocations /\ a.what = r /\ a \notin alloc /\ Books(alloc \cup {a})
            /\ plan' \in [Regions -> Allocations \cup {Nothing}] /\ plan'[r] = a
            /\ a.w \in Watchers /\ a.w \in Contents /\ a \notin ToSet(subs[a.w])
  <2>1. a \in Allocations /\ a.what = r /\ a \notin alloc /\ Books(alloc \cup {a})
    BY <1>2, <1>5, AllocateKeeps
  <2>2. a.w \in Watchers
    BY <2>1, AllocationType
  <2> QED BY <1>2, <1>3, <1>8, <2>1, <2>2 DEF Listed, Contents
<1>9. ASSUME \E a \in Allocate(alloc, r) :
             /\ plan' = [plan EXCEPT ![r] = a]
             /\ a.w \in tasks /\ alloc' = alloc \cup {a}
             /\ rpcs' = Append(rpcs, Rpc(r, "set", a)) /\ pc' = [pc EXCEPT ![r] = "region"]
      PROVE Done
  <2>1. PICK a \in Allocate(alloc, r) :
             /\ plan' = [plan EXCEPT ![r] = a]
             /\ a.w \in tasks /\ alloc' = alloc \cup {a}
             /\ rpcs' = Append(rpcs, Rpc(r, "set", a)) /\ pc' = [pc EXCEPT ![r] = "region"]
    BY <1>9
  <2>2. /\ a \in Allocations /\ a.what = r /\ a \notin alloc /\ Books(alloc \cup {a})
        /\ plan' \in [Regions -> Allocations \cup {Nothing}] /\ plan'[r] = a
        /\ a.w \in Watchers /\ a.w \in Contents /\ a \notin ToSet(subs[a.w])
    BY <1>8, <2>1
  <2>3. /\ pc' \in [Regions -> Pcs] /\ pc'[r] = "region"
        /\ \A s \in Regions : s # r => pc'[s] = pc[s]
        /\ \A s \in Holding' : s = r
    BY <1>6, <2>1
  <2> DEFINE q == Rpc(r, "set", a)
  <2>4. q \in Rpcs /\ q.by = r /\ q.op = "set" /\ q.a = a
    BY <1>5, <2>2, RpcType DEF Ops
  <2> HIDE DEF q
  <2>5. AskedFor(q, pc', plan', alloc', subs')
    BY <2>2, <2>3, <2>4 DEF AskedFor
  <2>6. rpcs' \in Seq(Rpcs) /\ AskedIn(rpcs', pc', plan', alloc', subs')
    BY <1>3, <1>4, <2>1, <2>4, <2>5, AppendIs, QuietAndAsked DEF q
  <2>7. Planned'
    BY <1>1, <2>1, <2>2, <2>3 DEF Planned
  <2> QED BY <2>1, <2>2, <2>3, <2>6, <2>7
<1>10. ASSUME \E a \in Allocate(alloc, r) : \E c \in Allocate(alloc \cup {a}, a.w) :
             /\ plan' = [plan EXCEPT ![r] = a]
             /\ alloc' = alloc \cup {a, c}
             /\ rpcs' = Append(rpcs, Rpc(r, "set", c)) /\ pc' = [pc EXCEPT ![r] = "counter"]
      PROVE Done
  <2>1. PICK a \in Allocate(alloc, r) : \E c \in Allocate(alloc \cup {a}, a.w) :
             /\ plan' = [plan EXCEPT ![r] = a]
             /\ alloc' = alloc \cup {a, c}
             /\ rpcs' = Append(rpcs, Rpc(r, "set", c)) /\ pc' = [pc EXCEPT ![r] = "counter"]
    BY <1>10, Zenon
  <2>2. PICK c \in Allocate(alloc \cup {a}, a.w) :
             /\ plan' = [plan EXCEPT ![r] = a]
             /\ alloc' = alloc \cup {a, c}
             /\ rpcs' = Append(rpcs, Rpc(r, "set", c)) /\ pc' = [pc EXCEPT ![r] = "counter"]
    BY <2>1, Zenon
  <2>3. /\ a \in Allocations /\ a.what = r /\ a \notin alloc /\ Books(alloc \cup {a})
        /\ plan' \in [Regions -> Allocations \cup {Nothing}] /\ plan'[r] = a
        /\ a.w \in Watchers /\ a.w \in Contents /\ a \notin ToSet(subs[a.w])
    BY <1>8, <2>2
  <2>4. c \in Allocations /\ c.what = a.w /\ c \notin alloc \cup {a} /\ Books((alloc \cup {a}) \cup {c})
    BY <2>3, AllocateKeeps
  <2>5. (alloc \cup {a}) \cup {c} = alloc \cup {a, c}
    OBVIOUS
  <2>6. Books(alloc')
    BY <2>2, <2>4, <2>5
  <2>7. /\ pc' \in [Regions -> Pcs] /\ pc'[r] = "counter"
        /\ \A s \in Regions : s # r => pc'[s] = pc[s]
        /\ \A s \in Holding' : s = r
    BY <1>6, <2>2
  <2> DEFINE q == Rpc(r, "set", c)
  <2>8. q \in Rpcs /\ q.by = r /\ q.op = "set" /\ q.a = c
    BY <1>5, <2>4, RpcType DEF Ops
  <2> HIDE DEF q
  <2>9. c.w \in Watchers /\ c \notin ToSet(subs[c.w])
    BY <1>2, <2>4, AllocationType DEF Listed
  <2>10. c \in alloc' \ ToSet(subs'[c.w]) /\ c.what \in Watchers /\ c # plan'[r]
    BY <1>1, <2>2, <2>3, <2>4, <2>9
  <2>11. AskedFor(q, pc', plan', alloc', subs')
    BY <2>7, <2>8, <2>10 DEF AskedFor
  <2>12. rpcs' \in Seq(Rpcs) /\ AskedIn(rpcs', pc', plan', alloc', subs')
    BY <1>3, <1>4, <2>2, <2>8, <2>11, AppendIs, QuietAndAsked DEF q
  <2>13. Planned'
    BY <1>1, <2>2, <2>3, <2>7 DEF Planned
  <2> QED BY <2>2, <2>3, <2>6, <2>7, <2>12, <2>13
<1>11. ASSUME \E a \in Allocate(alloc, r) :
             /\ plan' = [plan EXCEPT ![r] = a]
             /\ alloc' = alloc \cup {a}
             /\ pc' = [pc EXCEPT ![r] = "idle"] /\ rpcs' = rpcs
      PROVE Done
  <2>1. PICK a \in Allocate(alloc, r) :
             /\ plan' = [plan EXCEPT ![r] = a]
             /\ alloc' = alloc \cup {a}
             /\ pc' = [pc EXCEPT ![r] = "idle"] /\ rpcs' = rpcs
    BY <1>11
  <2>2. Books(alloc \cup {a}) /\ plan' \in [Regions -> Allocations \cup {Nothing}]
    BY <1>8, <2>1
  <2>3. /\ pc' \in [Regions -> Pcs] /\ pc'[r] = "idle"
        /\ \A s \in Regions : s # r => pc'[s] = pc[s]
        /\ \A s \in Holding' : FALSE
    BY <1>6, <2>1
  <2>4. Planned'
    BY <2>3, Zenon DEF Planned
  <2>5. AskedIn(rpcs', pc', plan', alloc', subs')
    BY <1>4, <2>1, QuietIsAsked
  <2> QED BY <1>3, <2>1, <2>2, <2>3, <2>4, <2>5
<1>12. Done
  <2> HIDE DEF Done
  <2> QED BY <1>1, <1>7, <1>9, <1>10, <1>11, Zenon
<1>13. alloc' \subseteq Allocations /\ rpcs' \in Seq([by : Contents, op : Ops, a : Allocations \cup {Nothing}])
  BY <1>12, Zenon DEF Books, Rpcs
<1>14. TypeOK'
  BY <1>1, <1>2, <1>12, <1>13 DEF TypeOK, robotVars, taskVars
<1>15. Listed'
  BY <1>1, <1>2, <1>12 DEF Listed
<1>16. Counted'
  BY <1>1, <1>2, <1>4, <1>12 DEF Counted
<1>17. OneHolder'
  BY <1>1, <1>12 DEF OneHolder, Holding
<1> QED BY <1>12, <1>14, <1>15, <1>16, <1>17, Zenon DEF Core, Asked

-----------------------------------------------------------------------------
(* What the tasks of the watchers keep.                                    *)

\* A step of a watcher's task leaves the blocks and the books alone.
LEMMA TaskStepCore ==
  ASSUME Core, TypeOK', UNCHANGED clientVars,
         AskedIn(rpcs', pc, plan, alloc, subs)
  PROVE Core'
<1>1. /\ alloc' = alloc /\ subs' = subs /\ tasks' = tasks /\ pc' = pc /\ plan' = plan
      /\ handle' = handle /\ refs' = refs /\ inside' = inside
  BY Zenon DEF clientVars
<1>2. Books(alloc) /\ Listed /\ Counted /\ OneHolder /\ Planned
  BY CoreSays
<1>3. Books(alloc)' /\ Listed'
  BY <1>1, <1>2, Zenon DEF Listed, Books
<1>4. Counted'
  BY <1>1, <1>2, Zenon DEF Counted
<1>5. Holding' = Holding
  BY <1>1, Zenon DEF Holding
<1>6. OneHolder' /\ Planned'
  BY <1>1, <1>2, <1>5, Zenon DEF OneHolder, Planned
<1>7. Asked'
  BY <1>1, Zenon DEF Asked
<1> QED BY <1>3, <1>4, <1>6, <1>7, Zenon DEF Core

\* A task asks for an RPC after the others of a queue.
LEMMA TaskAsks ==
  ASSUME NEW queue \in Seq(Rpcs), NEW w \in Watchers, NEW op \in {"enable", "disable", "read"},
         NEW p, NEW pl, NEW al, NEW su, AskedIn(queue, p, pl, al, su)
  PROVE /\ Append(queue, Rpc(w, op, Nothing)) \in Seq(Rpcs)
        /\ AskedIn(Append(queue, Rpc(w, op, Nothing)), p, pl, al, su)
<1> DEFINE q == Rpc(w, op, Nothing)
<1>1. q \in Rpcs /\ q.by = w /\ q.op = op
  BY RpcType DEF Contents, Ops
<1> HIDE DEF q
<1>2. ForTask(q)
  BY <1>1 DEF ForTask
<1> QED BY <1>1, <1>2, AskedAndTask, AppendIs DEF q

\* The queue, and what is left of it.
LEMMA QueueOfCore ==
  ASSUME Core
  PROVE /\ rpcs \in Seq(Rpcs) /\ AskedIn(rpcs, pc, plan, alloc, subs)
        /\ rpcs # << >> => Tail(rpcs) \in Seq(Rpcs) /\ AskedIn(Tail(rpcs), pc, plan, alloc, subs)
<1>1. rpcs \in Seq(Rpcs) /\ AskedIn(rpcs, pc, plan, alloc, subs) /\ (rpcs # << >> => Tail(rpcs) \in Seq(Rpcs))
  BY CoreSays, QueueType, Zenon DEF Asked
<1> QED BY <1>1, AskedTail

\* What a look at the subscriptions changes.
LEMMA LookType ==
  ASSUME TypeOK, NEW w \in Watchers, NEW queue, Look(w, queue)
  PROVE /\ snapshot' \in [Watchers -> SUBSET Allocations]
        /\ rpcs' = Append(queue, Rpc(w, "read", Nothing))
        /\ watch' \in [Watchers -> {"none", "enabling", "reading", "listening"}]
        /\ watch' = [watch EXCEPT ![w] = "reading"]
<1>1. /\ snapshot' = [snapshot EXCEPT ![w] = ToSet(subs[w])]
      /\ rpcs' = Append(queue, Rpc(w, "read", Nothing))
      /\ watch' = [watch EXCEPT ![w] = "reading"]
  BY Zenon DEF Look
<1>2. /\ snapshot \in [Watchers -> SUBSET Allocations]
      /\ watch \in [Watchers -> {"none", "enabling", "reading", "listening"}]
      /\ subs[w] \in Seq(Allocations)
  BY DEF TypeOK
<1>3. ToSet(subs[w]) \in SUBSET Allocations
  BY <1>2, ElementOfSeq, LenProperties DEF ToSet
<1> QED BY <1>1, <1>2, <1>3

\* Core is inductive: the RPCs and the events of the tasks.
LEMMA EnableWatcherCore ==
  ASSUME Core, rpcs # << >>, NEW w \in Watchers, EnableWatcher(w), UNCHANGED << opens, faults >>
  PROVE Core'
<1>1. /\ enabled' = enabled \cup {w} /\ Look(w, Tail(rpcs))
      /\ UNCHANGED << clientVars, layout, version, known, events, broken >>
  BY Zenon DEF EnableWatcher
<1>2. TypeOK
  BY CoreSays
<1>3. /\ snapshot' \in [Watchers -> SUBSET Allocations]
      /\ rpcs' = Append(Tail(rpcs), Rpc(w, "read", Nothing))
      /\ watch' \in [Watchers -> {"none", "enabling", "reading", "listening"}]
  BY <1>1, <1>2, LookType
<1>4. rpcs' \in Seq(Rpcs) /\ AskedIn(rpcs', pc, plan, alloc, subs)
  BY <1>3, QueueOfCore, TaskAsks
<1>5. rpcs' \in Seq([by : Contents, op : Ops, a : Allocations \cup {Nothing}])
  BY <1>4, Zenon DEF Rpcs
<1>6. TypeOK'
  BY <1>1, <1>2, <1>3, <1>5 DEF TypeOK, clientVars
<1> QED BY <1>1, <1>4, <1>6, TaskStepCore

LEMMA DisableWatcherCore ==
  ASSUME Core, rpcs # << >>, NEW w \in Watchers, DisableWatcher(w), UNCHANGED << opens, faults >>
  PROVE Core'
<1>1. /\ enabled' = enabled \ {w} /\ rpcs' = Tail(rpcs)
      /\ UNCHANGED << clientVars, layout, version, taskVars, broken >>
  BY Zenon DEF DisableWatcher
<1>2. TypeOK
  BY CoreSays
<1>4. rpcs' \in Seq(Rpcs) /\ AskedIn(rpcs', pc, plan, alloc, subs)
  BY <1>1, QueueOfCore
<1>5. rpcs' \in Seq([by : Contents, op : Ops, a : Allocations \cup {Nothing}])
  BY <1>4, Zenon DEF Rpcs
<1>6. TypeOK'
  BY <1>1, <1>2, <1>5 DEF TypeOK, clientVars, taskVars
<1> QED BY <1>1, <1>4, <1>6, TaskStepCore

LEMMA ReadCounterCore ==
  ASSUME Core, rpcs # << >>, NEW w \in Watchers, ReadCounter(w), UNCHANGED << opens, faults >>
  PROVE Core'
<1>1. /\ known' = [known EXCEPT ![w] = version[w]] /\ watch' = [watch EXCEPT ![w] = "listening"]
      /\ rpcs' = Tail(rpcs)
      /\ UNCHANGED << clientVars, robotVars, snapshot, events, broken >>
  BY Zenon DEF ReadCounter
<1>2. TypeOK
  BY CoreSays
<1>3. /\ known \in [Watchers -> Nat] /\ version \in [Watchers -> Nat]
      /\ watch \in [Watchers -> {"none", "enabling", "reading", "listening"}]
  BY <1>2, Zenon DEF TypeOK
<1>4. rpcs' \in Seq(Rpcs) /\ AskedIn(rpcs', pc, plan, alloc, subs)
  BY <1>1, QueueOfCore
<1>5. rpcs' \in Seq([by : Contents, op : Ops, a : Allocations \cup {Nothing}])
  BY <1>4, Zenon DEF Rpcs
<1>6. known' \in [Watchers -> Nat] /\ watch' \in [Watchers -> {"none", "enabling", "reading", "listening"}]
  BY <1>1, <1>3
<1>7. TypeOK'
  BY <1>1, <1>2, <1>5, <1>6 DEF TypeOK, clientVars, robotVars
<1> QED BY <1>1, <1>4, <1>7, TaskStepCore

LEMMA EmitCore ==
  ASSUME Core, NEW w \in Watchers, Emit(w)
  PROVE Core'
<1>1. /\ events' = [events EXCEPT ![w] = Append(@, [version |-> version[w], layout |-> layout[w]])]
      /\ UNCHANGED << clientVars, rpcs, robotVars, watch, snapshot, known, opens, faults, broken >>
  BY Zenon DEF Emit
<1>2. TypeOK
  BY CoreSays
<1>3. /\ events \in [Watchers -> Seq(Event)] /\ version \in [Watchers -> Nat]
      /\ layout \in [Watchers -> [RegionIds -> Contents \cup {Nothing}]]
  BY <1>2, Zenon DEF TypeOK
<1> DEFINE e == [version |-> version[w], layout |-> layout[w]]
<1>4. e \in Event
  BY <1>3 DEF Event
<1> HIDE DEF e
<1>5. Append(events[w], e) \in Seq(Event)
  BY <1>3, <1>4, AppendIs
<1>6. events' \in [Watchers -> Seq(Event)]
  BY <1>1, <1>3, <1>5 DEF e
<1>7. TypeOK'
  BY <1>1, <1>2, <1>6 DEF TypeOK, clientVars, robotVars
<1>8. AskedIn(rpcs', pc, plan, alloc, subs)
  BY <1>1, QueueOfCore
<1> QED BY <1>1, <1>7, <1>8, TaskStepCore

LEMMA ParseCore ==
  ASSUME Core, NEW w \in Watchers, Parse(w)
  PROVE Core'
<1>1. /\ events[w] # << >>
      /\ \/ events' = [events EXCEPT ![w] = Tail(@)] /\ UNCHANGED << watch, snapshot, rpcs >>
         \/ Look(w, rpcs) /\ UNCHANGED events
      /\ UNCHANGED << clientVars, robotVars, known, opens, faults, broken >>
  BY Zenon DEF Parse
<1>2. TypeOK
  BY CoreSays
<1>3. CASE events' = [events EXCEPT ![w] = Tail(@)] /\ UNCHANGED << watch, snapshot, rpcs >>
  <2>1. events \in [Watchers -> Seq(Event)]
    BY <1>2, Zenon DEF TypeOK
  <2>2. Tail(events[w]) \in Seq(Event)
    BY <1>1, <2>1, HeadTailProperties
  <2>3. events' \in [Watchers -> Seq(Event)]
    BY <1>3, <2>1, <2>2
  <2>4. TypeOK'
    BY <1>1, <1>2, <1>3, <2>3 DEF TypeOK, clientVars, robotVars
  <2>5. AskedIn(rpcs', pc, plan, alloc, subs)
    BY <1>3, QueueOfCore
  <2> QED BY <1>1, <2>4, <2>5, TaskStepCore
<1>4. CASE Look(w, rpcs) /\ UNCHANGED events
  <2>1. /\ snapshot' \in [Watchers -> SUBSET Allocations]
        /\ rpcs' = Append(rpcs, Rpc(w, "read", Nothing))
        /\ watch' \in [Watchers -> {"none", "enabling", "reading", "listening"}]
    BY <1>2, <1>4, LookType
  <2>2. rpcs' \in Seq(Rpcs) /\ AskedIn(rpcs', pc, plan, alloc, subs)
    BY <2>1, QueueOfCore, TaskAsks
  <2>3. rpcs' \in Seq([by : Contents, op : Ops, a : Allocations \cup {Nothing}])
    BY <2>2, Zenon DEF Rpcs
  <2>4. TypeOK'
    BY <1>1, <1>2, <1>4, <2>1, <2>3 DEF TypeOK, clientVars, robotVars
  <2> QED BY <1>1, <2>2, <2>4, TaskStepCore
<1> QED BY <1>1, <1>3, <1>4

-----------------------------------------------------------------------------
(* What the RPCs of the blocks keep.                                       *)

\* What is known at the turn of a block.
LEMMA TurnSays ==
  ASSUME Core, NEW r, NEW a, Turn(r, a)
  PROVE /\ r \in Regions /\ r \in Contents /\ r \in Holding /\ \A s \in Regions : s \in Holding => s = r
        /\ a \in Allocations /\ a.w \in Watchers /\ a.id \in RegionIds /\ a.what \in Contents
        /\ rpcs # << >> /\ Tail(rpcs) \in Seq(Rpcs) /\ Quiet(Tail(rpcs))
        /\ pc \in [Regions -> Pcs] /\ plan \in [Regions -> Allocations \cup {Nothing}]
        /\ handle \in [Regions -> Allocations \cup {Nothing}]
        /\ refs \in [Regions -> Nat] /\ inside \in [Regions -> Nat]
        /\ plan[r] \in Allocations /\ plan[r].w \in Watchers
        /\ refs[r] = 0 /\ inside[r] = 0
<1>1. /\ pc \in [Regions -> Pcs] /\ plan \in [Regions -> Allocations \cup {Nothing}]
      /\ handle \in [Regions -> Allocations \cup {Nothing}]
      /\ refs \in [Regions -> Nat] /\ inside \in [Regions -> Nat]
  BY CoreSays, Zenon DEF TypeOK
<1>2. r \in Holding /\ \A s \in Holding : s = r
  BY Zenon DEF Turn
<1>3. r \in Regions /\ r \in Contents
  BY <1>2 DEF Holding, Contents
<1>4. a \in Allocations /\ rpcs # << >> /\ Tail(rpcs) \in Seq(Rpcs) /\ Quiet(Tail(rpcs))
  BY Zenon DEF Turn
<1>5. plan[r] \in Allocations
  BY <1>2, CoreSays, Zenon DEF Planned
<1>6. a.w \in Watchers /\ a.id \in RegionIds /\ a.what \in Contents /\ plan[r].w \in Watchers
  BY <1>4, <1>5, AllocationType
<1>7. pc[r] # "idle"
  BY <1>2 DEF Holding
<1>8. refs[r] = 0 /\ inside[r] = 0
  BY <1>1, <1>3, <1>7, CoreSays DEF Counted
<1> QED BY <1>1, <1>2, <1>3, <1>4, <1>5, <1>6, <1>8

\* When the holder goes idle, nobody holds the lock.
LEMMA GoesIdle ==
  ASSUME Core, NEW r, NEW a, Turn(r, a), pc' = [pc EXCEPT ![r] = "idle"]
  PROVE /\ pc' \in [Regions -> Pcs] /\ pc'[r] = "idle" /\ \A s \in Regions : s # r => pc'[s] = pc[s]
        /\ Holding' = {} /\ OneHolder' /\ Planned'
<1>1. /\ pc' \in [Regions -> Pcs] /\ pc'[r] = "idle" /\ \A s \in Regions : s # r => pc'[s] = pc[s]
  BY TurnSays DEF Pcs
<1>2. Holding' = {}
  BY <1>1, TurnSays DEF Holding
<1> QED BY <1>1, <1>2, Zenon DEF OneHolder, Planned

\* Core is inductive: the RPCs of the blocks.
LEMMA SetCounterCore ==
  ASSUME Core, NEW r, NEW a, Turn(r, a), SetCounter(r, a), UNCHANGED << opens, faults >>
  PROVE Core'
<1> DEFINE w == plan[r].w
           q == Rpc(r, "set", plan[r])
           e == Rpc(w, "enable", Nothing)
<1>1. /\ pc[r] = "counter" /\ RobotSets(a, a.what)
      /\ subs' = [subs EXCEPT ![a.w] = Append(@, a)]
      /\ tasks' = tasks \cup {w}
      /\ watch' = [watch EXCEPT ![w] = "enabling"] /\ events' = [events EXCEPT ![w] = << >>]
      /\ rpcs' = Tail(rpcs) \o << q, e >>
      /\ pc' = [pc EXCEPT ![r] = "region"]
      /\ UNCHANGED << alloc, plan, handle, refs, inside, snapshot, known, broken >>
  BY Zenon DEF SetCounter, Goto
<1>2. TypeOK /\ Books(alloc) /\ Listed /\ Counted /\ Planned
  BY CoreSays
<1>3. /\ r \in Regions /\ r \in Contents /\ r \in Holding /\ \A s \in Regions : s \in Holding => s = r
      /\ a \in Allocations /\ a.w \in Watchers /\ a.id \in RegionIds /\ a.what \in Contents
      /\ Tail(rpcs) \in Seq(Rpcs) /\ Quiet(Tail(rpcs))
      /\ pc \in [Regions -> Pcs] /\ refs[r] = 0
      /\ plan[r] \in Allocations /\ w \in Watchers
  BY TurnSays
<1>4. a \in alloc \ ToSet(subs[a.w]) /\ a # plan[r]
  BY <1>1 DEF Turn
<1>5. plan[r] \in alloc \ ToSet(subs[w]) /\ plan[r].what = r
  BY <1>1, <1>2, <1>3, Zenon DEF Planned
<1>6. /\ subs' \in [Watchers -> Seq(Allocations)]
      /\ \A v \in Watchers : /\ Distinct(subs'[v])
                             /\ \A b : b \in ToSet(subs'[v]) <=> (b \in ToSet(subs[v]) \/ (v = a.w /\ b = a))
  BY <1>1, <1>2, <1>3, <1>4, ListsGrow
<1>7. /\ layout' \in [Watchers -> [RegionIds -> Contents \cup {Nothing}]]
      /\ version' \in [Watchers -> Nat] /\ enabled' = enabled
  BY <1>1, <1>2, <1>3, SetsType
<1>8. /\ q \in Rpcs /\ q.by = r /\ q.op = "set" /\ q.a = plan[r]
      /\ e \in Rpcs /\ e.by = w /\ e.op = "enable"
  <2>1. w \in Contents /\ "set" \in Ops /\ "enable" \in Ops
    BY <1>3 DEF Contents, Ops
  <2> QED BY <1>3, <2>1, RpcType
<1> HIDE DEF q, e, w
<1>9. rpcs' = Append(Append(Tail(rpcs), q), e)
  <2>1. \A s \in Seq(Rpcs) : s \o << q, e >> = Append(Append(s, q), e)
    BY <1>8
  <2> QED BY <1>1, <1>3, <2>1
<1>10. pc' \in [Regions -> Pcs] /\ pc'[r] = "region" /\ \A s \in Regions : s # r => pc'[s] = pc[s]
  BY <1>1, <1>3 DEF Pcs
<1>11. AskedFor(q, pc', plan', alloc', subs')
  BY <1>1, <1>3, <1>8, <1>10 DEF AskedFor
<1>12. Append(Tail(rpcs), q) \in Seq(Rpcs) /\ AskedIn(Append(Tail(rpcs), q), pc', plan', alloc', subs')
  BY <1>3, <1>8, <1>11, QuietAndAsked, AppendIs
<1>13. ForTask(e)
  BY <1>3, <1>8 DEF ForTask
<1>14. rpcs' \in Seq(Rpcs) /\ AskedIn(rpcs', pc', plan', alloc', subs')
  BY <1>8, <1>9, <1>12, <1>13, AskedAndTask, AppendIs
<1>15. rpcs' \in Seq([by : Contents, op : Ops, a : Allocations \cup {Nothing}])
  BY <1>14, Zenon DEF Rpcs
<1>16. /\ tasks' \subseteq Watchers
       /\ watch' \in [Watchers -> {"none", "enabling", "reading", "listening"}]
       /\ events' \in [Watchers -> Seq(Event)]
  <2>1. /\ tasks \subseteq Watchers
        /\ watch \in [Watchers -> {"none", "enabling", "reading", "listening"}]
        /\ events \in [Watchers -> Seq(Event)] /\ << >> \in Seq(Event)
    BY <1>2, EmptySeq DEF TypeOK
  <2> QED BY <1>1, <1>3, <2>1
<1>17. TypeOK'
  BY <1>1, <1>2, <1>6, <1>7, <1>10, <1>15, <1>16 DEF TypeOK
<1>18. Books(alloc)'
  BY <1>1, <1>2, Zenon DEF Books
<1>19. Listed'
  BY <1>1, <1>2, <1>4, <1>6 DEF Listed
<1>20. Counted'
  BY <1>1, <1>2, <1>3, <1>10 DEF Counted
<1>21. \A s \in Holding' : s = r
  BY <1>3, <1>10 DEF Holding
<1>22. OneHolder'
  BY <1>21 DEF OneHolder
<1>23. Planned'
  <2>1. plan'[r] = plan[r] /\ plan[r] \notin ToSet(subs'[w]) /\ w \in tasks'
    BY <1>1, <1>3, <1>4, <1>5, <1>6
  <2> QED BY <1>1, <1>3, <1>5, <1>10, <1>21, <2>1 DEF Planned, w
<1> QED BY <1>14, <1>17, <1>18, <1>19, <1>20, <1>22, <1>23, Zenon DEF Core, Asked

LEMMA SetRegionCore ==
  ASSUME Core, NEW r, NEW a, Turn(r, a), SetRegion(r, a), UNCHANGED << opens, faults >>
  PROVE Core'
<1>1. /\ pc[r] = "region" /\ RobotSets(a, a.what)
      /\ subs' = [subs EXCEPT ![a.w] = Append(@, a)]
      /\ handle' = [handle EXCEPT ![r] = a]
      /\ refs' = [refs EXCEPT ![r] = @ + 1] /\ inside' = [inside EXCEPT ![r] = @ + 1]
      /\ rpcs' = Tail(rpcs) /\ pc' = [pc EXCEPT ![r] = "idle"]
      /\ UNCHANGED << alloc, tasks, plan, taskVars, broken >>
  BY Zenon DEF SetRegion, Goto, Count
<1>2. TypeOK /\ Books(alloc) /\ Listed /\ Counted /\ Planned
  BY CoreSays
<1>3. /\ r \in Regions /\ r \in Holding
      /\ a \in Allocations /\ a.w \in Watchers /\ a.id \in RegionIds /\ a.what \in Contents
      /\ Tail(rpcs) \in Seq(Rpcs) /\ Quiet(Tail(rpcs))
      /\ handle \in [Regions -> Allocations \cup {Nothing}]
      /\ refs \in [Regions -> Nat] /\ inside \in [Regions -> Nat]
      /\ refs[r] = 0 /\ inside[r] = 0
  BY TurnSays
<1>4. a = plan[r]
  BY <1>1 DEF Turn
<1>5. a \in alloc \ ToSet(subs[a.w]) /\ a.what = r
  BY <1>1, <1>2, <1>3, <1>4 DEF Planned
<1>6. /\ subs' \in [Watchers -> Seq(Allocations)]
      /\ \A v \in Watchers : /\ Distinct(subs'[v])
                             /\ \A b : b \in ToSet(subs'[v]) <=> (b \in ToSet(subs[v]) \/ (v = a.w /\ b = a))
  BY <1>1, <1>2, <1>3, <1>5, ListsGrow
<1>7. /\ layout' \in [Watchers -> [RegionIds -> Contents \cup {Nothing}]]
      /\ version' \in [Watchers -> Nat] /\ enabled' = enabled
  BY <1>1, <1>2, <1>3, SetsType
<1>8. /\ pc' \in [Regions -> Pcs] /\ pc'[r] = "idle" /\ \A s \in Regions : s # r => pc'[s] = pc[s]
      /\ OneHolder' /\ Planned'
  BY <1>1, GoesIdle
<1>9. AskedIn(rpcs', pc', plan', alloc', subs')
  BY <1>1, <1>3, QuietIsAsked
<1>10. rpcs' \in Seq([by : Contents, op : Ops, a : Allocations \cup {Nothing}])
  BY <1>1, <1>3, Zenon DEF Rpcs
<1>11. /\ handle' \in [Regions -> Allocations \cup {Nothing}]
       /\ refs' \in [Regions -> Nat] /\ inside' \in [Regions -> Nat]
  BY <1>1, <1>3
<1>12. TypeOK'
  BY <1>1, <1>2, <1>6, <1>7, <1>8, <1>10, <1>11 DEF TypeOK, taskVars
<1>13. Books(alloc)'
  BY <1>1, <1>2, Zenon DEF Books
<1>14. Listed'
  BY <1>1, <1>2, <1>5, <1>6 DEF Listed
<1>15. a # Nothing
  BY <1>3, AllocationType
<1>16. Counted'
  BY <1>1, <1>2, <1>3, <1>5, <1>8, <1>15 DEF Counted
<1> QED BY <1>8, <1>9, <1>12, <1>13, <1>14, <1>16, Zenon DEF Core, Asked

\* What Forget does to the books and the lists.
LEMMA ForgetDoes ==
  ASSUME Core, NEW a \in Allocations, Forget(a)
  PROVE /\ Books(alloc') /\ Listed' /\ alloc' = alloc \ {a}
        /\ subs' \in [Watchers -> Seq(Allocations)]
        /\ \A w \in Watchers : ToSet(subs'[w]) = ToSet(subs[w]) \ {a}
<1>1. alloc' = alloc \ {a} /\ subs' = [subs EXCEPT ![a.w] = RemoveFirst(@, a)]
  BY Zenon DEF Forget
<1>2. TypeOK /\ Books(alloc) /\ Listed
  BY CoreSays
<1>3. Books(alloc')
  BY <1>1, <1>2, ForgetKeeps
<1>4. /\ subs' \in [Watchers -> Seq(Allocations)]
      /\ \A w \in Watchers : /\ Distinct(subs'[w])
                             /\ \A b : b \in ToSet(subs'[w]) <=> (b \in ToSet(subs[w]) /\ b # a)
  BY <1>1, <1>2, ListsShrink
<1>5. Listed'
  BY <1>1, <1>2, <1>4 DEF Listed
<1>6. \A w \in Watchers : ToSet(subs'[w]) = ToSet(subs[w]) \ {a}
  BY <1>4
<1> QED BY <1>1, <1>3, <1>4, <1>5, <1>6

\* The four ways in which clearing a region can end.
LEMMA ClearRegionCases ==
  ASSUME NEW r, NEW a, ClearRegion(r, a)
  PROVE /\ pc[r] = "clearing" /\ RobotSets(a, Nothing)
        /\ UNCHANGED << tasks, refs, inside, taskVars >>
        /\ \/ /\ pc' = [pc EXCEPT ![r] = "idle"] /\ rpcs' = Tail(rpcs)
              /\ a \notin alloc /\ broken' = TRUE
              /\ UNCHANGED << alloc, subs, plan, handle >>
           \/ /\ a \in alloc /\ Forget(a) /\ pc' = [pc EXCEPT ![r] = "idle"] /\ rpcs' = Tail(rpcs)
              /\ Users(ToSet(subs'[a.w])) # {}
              /\ handle' = [handle EXCEPT ![r] = Nothing] /\ UNCHANGED << plan, broken >>
           \/ /\ a \in alloc /\ Forget(a) /\ pc' = [pc EXCEPT ![r] = "idle"] /\ rpcs' = Tail(rpcs)
              /\ broken' = TRUE /\ UNCHANGED << plan, handle >>
           \/ /\ a \in alloc /\ Forget(a)
              /\ Users(ToSet(subs'[a.w])) = {} /\ Counters(ToSet(subs'[a.w])) # {}
              /\ plan' = [plan EXCEPT ![r] = FirstCounter(a.w)]
              /\ rpcs' = Append(Tail(rpcs), Rpc(r, "clear", FirstCounter(a.w)))
              /\ pc' = [pc EXCEPT ![r] = "clearingCounter"] /\ UNCHANGED << handle, broken >>
  BY Zenon DEF ClearRegion, Goto

LEMMA ClearRegionCore ==
  ASSUME Core, NEW r, NEW a, Turn(r, a), ClearRegion(r, a), UNCHANGED << opens, faults >>
  PROVE Core'
<1>1. /\ pc[r] = "clearing" /\ RobotSets(a, Nothing)
      /\ UNCHANGED << tasks, refs, inside, taskVars >>
  BY ClearRegionCases
<1>2. TypeOK /\ Books(alloc) /\ Listed /\ Counted /\ Planned
  BY CoreSays
<1>3. /\ r \in Regions /\ r \in Contents /\ r \in Holding /\ \A s \in Regions : s \in Holding => s = r
      /\ a \in Allocations /\ a.w \in Watchers /\ a.id \in RegionIds
      /\ Tail(rpcs) \in Seq(Rpcs) /\ Quiet(Tail(rpcs))
      /\ pc \in [Regions -> Pcs] /\ plan \in [Regions -> Allocations \cup {Nothing}]
      /\ handle \in [Regions -> Allocations \cup {Nothing}]
      /\ refs \in [Regions -> Nat] /\ inside \in [Regions -> Nat]
      /\ refs[r] = 0 /\ inside[r] = 0
  BY TurnSays
<1>4. /\ layout' \in [Watchers -> [RegionIds -> Contents \cup {Nothing}]]
      /\ version' \in [Watchers -> Nat] /\ enabled' = enabled
  BY <1>1, <1>2, <1>3, SetsType
<1> DEFINE Done == /\ pc' \in [Regions -> Pcs] /\ plan' \in [Regions -> Allocations \cup {Nothing}]
                   /\ subs' \in [Watchers -> Seq(Allocations)]
                   /\ handle' \in [Regions -> Allocations \cup {Nothing}]
                   /\ rpcs' \in Seq(Rpcs) /\ broken' \in BOOLEAN
                   /\ Books(alloc') /\ Listed' /\ Counted' /\ OneHolder' /\ Planned'
                   /\ AskedIn(rpcs', pc', plan', alloc', subs')
<1>5. broken \in BOOLEAN /\ subs \in [Watchers -> Seq(Allocations)] /\ handle[r] # Nothing
  BY <1>1, <1>2, <1>3 DEF TypeOK, Counted
<1>6. ASSUME pc' = [pc EXCEPT ![r] = "idle"], rpcs' = Tail(rpcs), UNCHANGED plan,
             \/ UNCHANGED << alloc, subs >>
             \/ Forget(a),
             \/ handle' = handle \/ handle' = [handle EXCEPT ![r] = Nothing],
             broken' = TRUE \/ broken' = broken
      PROVE Done
  <2>1. /\ pc' \in [Regions -> Pcs] /\ pc'[r] = "idle" /\ \A s \in Regions : s # r => pc'[s] = pc[s]
        /\ OneHolder' /\ Planned'
    BY <1>6, GoesIdle
  <2>2. AskedIn(rpcs', pc', plan', alloc', subs')
    BY <1>3, <1>6, QuietIsAsked
  <2>3. Books(alloc') /\ Listed' /\ subs' \in [Watchers -> Seq(Allocations)]
    <3>1. CASE UNCHANGED << alloc, subs >>
      BY <1>2, <1>5, <3>1 DEF Listed
    <3>2. CASE Forget(a)
      BY <1>3, <3>2, ForgetDoes
    <3> QED BY <1>6, <3>1, <3>2
  <2>4. handle' \in [Regions -> Allocations \cup {Nothing}] /\ broken' \in BOOLEAN
    BY <1>3, <1>5, <1>6
  <2>5. Counted'
    <3>1. \A s \in Regions : s # r => handle'[s] = handle[s]
      BY <1>3, <1>6
    <3>2. handle'[r] = Nothing \/ handle'[r] = handle[r]
      BY <1>3, <1>6
    <3> QED BY <1>1, <1>2, <1>3, <2>1, <3>1, <3>2 DEF Counted
  <2> QED BY <1>3, <1>6, <2>1, <2>2, <2>3, <2>4, <2>5
<1>7. ASSUME Forget(a), Users(ToSet(subs'[a.w])) = {}, Counters(ToSet(subs'[a.w])) # {},
             plan' = [plan EXCEPT ![r] = FirstCounter(a.w)],
             rpcs' = Append(Tail(rpcs), Rpc(r, "clear", FirstCounter(a.w))),
             pc' = [pc EXCEPT ![r] = "clearingCounter"], UNCHANGED << handle, broken >>
      PROVE Done
  <2>1. /\ Books(alloc') /\ Listed' /\ subs' \in [Watchers -> Seq(Allocations)]
    BY <1>3, <1>7, ForgetDoes
  <2> DEFINE c == FirstCounter(a.w)
  <2>2. subs'[a.w] \in Seq(Allocations)
    BY <1>3, <2>1
  <2>3. c \in Counters(ToSet(subs'[a.w]))
    BY <1>7, <2>2, FirstCounterIs DEF FirstCounter
  <2>4. c \in ToSet(subs'[a.w])
    BY <2>3, Zenon DEF Counters
  <2>5. c.w = a.w /\ c \in alloc'
    BY <1>3, <2>1, <2>4 DEF Listed
  <2>6. c \in Allocations
    BY <2>1, <2>5, Zenon DEF Books
  <2> DEFINE q == Rpc(r, "clear", c)
  <2>7. q \in Rpcs /\ q.by = r /\ q.op = "clear" /\ q.a = c
    <3>1. "clear" \in Ops
      BY DEF Ops
    <3> HIDE DEF c
    <3> QED BY <1>3, <2>6, <3>1, RpcType
  <2>8. plan' = [plan EXCEPT ![r] = c] /\ rpcs' = Append(Tail(rpcs), q)
    BY <1>7
  <2> HIDE DEF q, c
  <2>9. /\ pc' \in [Regions -> Pcs] /\ pc'[r] = "clearingCounter" /\ \A s \in Regions : s # r => pc'[s] = pc[s]
        /\ plan' \in [Regions -> Allocations \cup {Nothing}] /\ plan'[r] = c
    BY <1>3, <1>7, <2>6, <2>8 DEF Pcs
  <2>10. AskedFor(q, pc', plan', alloc', subs')
    BY <1>3, <2>7, <2>9 DEF AskedFor
  <2>11. rpcs' \in Seq(Rpcs) /\ AskedIn(rpcs', pc', plan', alloc', subs')
    BY <1>3, <2>7, <2>8, <2>10, QuietAndAsked, AppendIs
  <2>12. \A s \in Holding' : s = r
    BY <1>3, <2>9 DEF Holding
  <2>13. OneHolder' /\ Planned'
    BY <1>7, <2>3, <2>5, <2>6, <2>9, <2>12 DEF OneHolder, Planned
  <2>14. Counted'
    BY <1>1, <1>2, <1>3, <1>5, <1>7, <2>9 DEF Counted
  <2> QED BY <1>3, <1>5, <1>7, <2>1, <2>9, <2>11, <2>13, <2>14
<1>8. Done
  <2> HIDE DEF Done
  <2> QED BY ClearRegionCases, <1>6, <1>7, Zenon
<1>9. alloc' \subseteq Allocations /\ rpcs' \in Seq([by : Contents, op : Ops, a : Allocations \cup {Nothing}])
  BY <1>8, Zenon DEF Books, Rpcs
<1>10. TypeOK'
  BY <1>1, <1>2, <1>4, <1>8, <1>9 DEF TypeOK, taskVars
<1> QED BY <1>8, <1>10, Zenon DEF Core, Asked

\* Giving up a task's RPC takes one out of the queue, or none.
LEMMA OthersAre ==
  ASSUME Tail(rpcs) \in Seq(Rpcs), NEW w
  PROVE \/ Others(w) = Tail(rpcs)
        \/ \E k \in DOMAIN Tail(rpcs) :
             Tail(rpcs)[k].by = w /\ Tail(rpcs)[k].op # "disable" /\ Others(w) = RemoveAt(Tail(rpcs), k)
<1> DEFINE t == Tail(rpcs)
           I == {i \in 1 .. Len(t) : t[i].by = w /\ t[i].op # "disable"}
<1>1. DOMAIN t = 1 .. Len(t) /\ Len(t) \in Nat
  BY LenProperties
<1>2. CASE I = {}
  <2>1. ~ \E i \in 1 .. Len(t) : t[i].by = w /\ t[i].op # "disable"
    BY <1>2
  <2> QED BY <2>1, Zenon DEF Others, RemoveFirstMatch
<1>3. CASE I # {}
  <2>0. I \in SUBSET Nat
    <3>1. 1 .. Len(t) \subseteq Nat /\ I \subseteq 1 .. Len(t)
      BY <1>1
    <3> QED BY <3>1, Zenon
  <2>1. Min(I) \in I
    <3> HIDE DEF I
    <3> QED BY <1>3, <2>0, FirstIs
  <2>2. \E i \in 1 .. Len(t) : t[i].by = w /\ t[i].op # "disable"
    BY <1>3
  <2>3. SelectInSeq(t, LAMBDA q : q.by = w /\ q.op # "disable") = Min(I)
    BY <1>3, Zenon DEF SelectInSeq
  <2>4. Others(w) = RemoveAt(t, Min(I))
    BY <2>2, <2>3, Zenon DEF Others, RemoveFirstMatch
  <2> QED BY <1>1, <2>1, <2>4
<1> QED BY <1>2, <1>3

LEMMA ClearCounterCore ==
  ASSUME Core, NEW r, NEW a, Turn(r, a), ClearCounter(r, a), UNCHANGED << opens, faults >>
  PROVE Core'
<1>1. /\ pc[r] = "clearingCounter" /\ RobotSets(a, Nothing) /\ Forget(a)
      /\ tasks' = tasks \ {a.w}
      /\ watch' = [watch EXCEPT ![a.w] = "none"]
      /\ rpcs' = Append(Others(a.w), Rpc(a.w, "disable", Nothing))
      /\ handle' = [handle EXCEPT ![r] = Nothing] /\ pc' = [pc EXCEPT ![r] = "idle"]
      /\ UNCHANGED << plan, refs, inside, snapshot, known, events, broken >>
  BY Zenon DEF ClearCounter, StopTask, Goto
<1>2. TypeOK /\ Books(alloc) /\ Listed /\ Counted /\ Planned
  BY CoreSays
<1>3. /\ r \in Regions /\ a \in Allocations /\ a.w \in Watchers
      /\ Tail(rpcs) \in Seq(Rpcs) /\ Quiet(Tail(rpcs))
      /\ handle \in [Regions -> Allocations \cup {Nothing}]
      /\ refs \in [Regions -> Nat] /\ refs[r] = 0
  BY TurnSays
<1>4. /\ layout' \in [Watchers -> [RegionIds -> Contents \cup {Nothing}]]
      /\ version' \in [Watchers -> Nat] /\ enabled' = enabled
  BY <1>1, <1>2, <1>3, SetsType
<1>5. /\ pc' \in [Regions -> Pcs] /\ pc'[r] = "idle" /\ \A s \in Regions : s # r => pc'[s] = pc[s]
      /\ OneHolder' /\ Planned'
  BY <1>1, GoesIdle
<1>6. Books(alloc') /\ Listed' /\ subs' \in [Watchers -> Seq(Allocations)]
  BY <1>1, <1>3, ForgetDoes
<1>7. Others(a.w) \in Seq(Rpcs) /\ Quiet(Others(a.w))
  <2>1. CASE Others(a.w) = Tail(rpcs)
    BY <1>3, <2>1, Zenon
  <2>2. CASE \E k \in DOMAIN Tail(rpcs) : Others(a.w) = RemoveAt(Tail(rpcs), k)
    <3>1. PICK k \in DOMAIN Tail(rpcs) : Others(a.w) = RemoveAt(Tail(rpcs), k)
      BY <2>2
    <3> DEFINE t == Tail(rpcs)
    <3>2. /\ RemoveAt(t, k) \in Seq(Rpcs)
          /\ \A i \in DOMAIN RemoveAt(t, k) : \E j \in DOMAIN t : RemoveAt(t, k)[i] = t[j]
      <4> HIDE DEF t
      <4>1. t \in Seq(Rpcs)
        BY <1>3 DEF t
      <4>2. /\ RemoveAt(t, k) \in Seq(Rpcs)
            /\ \A i \in DOMAIN RemoveAt(t, k) : \/ i \in DOMAIN t /\ RemoveAt(t, k)[i] = t[i]
                                                \/ i + 1 \in DOMAIN t /\ RemoveAt(t, k)[i] = t[i + 1]
        BY <4>1, RemoveAtIs DEF t
      <4> QED BY <4>2, Zenon
    <3>3. Quiet(RemoveAt(t, k))
      BY <1>3, <3>2, Zenon DEF Quiet
    <3> QED BY <3>1, <3>2, <3>3
  <2> QED BY <1>3, <2>1, <2>2, OthersAre, Zenon
<1>8. rpcs' \in Seq(Rpcs) /\ AskedIn(rpcs', pc', plan', alloc', subs')
  <2>1. AskedIn(Others(a.w), pc', plan', alloc', subs')
    BY <1>7, QuietIsAsked
  <2> QED BY <1>1, <1>3, <1>7, <2>1, TaskAsks
<1>9. rpcs' \in Seq([by : Contents, op : Ops, a : Allocations \cup {Nothing}]) /\ alloc' \subseteq Allocations
  BY <1>6, <1>8, Zenon DEF Rpcs, Books
<1>10. /\ tasks' \subseteq Watchers
       /\ watch' \in [Watchers -> {"none", "enabling", "reading", "listening"}]
       /\ handle' \in [Regions -> Allocations \cup {Nothing}]
  BY <1>1, <1>2, <1>3 DEF TypeOK
<1>11. TypeOK'
  BY <1>1, <1>2, <1>4, <1>5, <1>6, <1>9, <1>10 DEF TypeOK
<1>12. Counted'
  BY <1>1, <1>2, <1>3, <1>5 DEF Counted
<1> QED BY <1>5, <1>6, <1>8, <1>11, <1>12, Zenon DEF Core, Asked

\* A failure is a block's; the robot has executed the RPC, or not.
LEMMA FailRpcCases ==
  ASSUME Core, FailRpc
  PROVE /\ faults < MaxFaults /\ faults' = faults + 1 /\ opens' = opens
        /\ rpcs' = Tail(rpcs)
        /\ UNCHANGED << alloc, subs, tasks, plan, handle, refs, inside, taskVars >>
        /\ \E r \in Regions, a \in Allocations :
             /\ Turn(r, a) /\ pc' = [pc EXCEPT ![r] = "idle"]
             /\ \/ pc[r] \in {"counter", "region"} /\ broken' = broken /\ RobotSets(a, a.what)
                \/ pc[r] \in {"counter", "region"} /\ broken' = broken /\ UNCHANGED robotVars
                \/ broken' = TRUE /\ RobotSets(a, Nothing)
                \/ broken' = TRUE /\ UNCHANGED robotVars
<1> DEFINE q == Head(rpcs)
<1>1. /\ faults < MaxFaults /\ faults' = faults + 1 /\ opens' = opens
      /\ rpcs # << >> /\ q.by \in Regions /\ pc' = [pc EXCEPT ![q.by] = "idle"]
      /\ broken' = (broken \/ q.op = "clear")
      /\ \/ RobotSets(q.a, IF q.op = "set" THEN q.a.what ELSE Nothing)
         \/ UNCHANGED robotVars
      /\ rpcs' = Tail(rpcs)
      /\ UNCHANGED << alloc, subs, tasks, plan, handle, refs, inside, taskVars >>
  BY Zenon DEF FailRpc, Fault, Goto
<1>2. /\ Turn(q.by, q.a)
      /\ q.op = "set" <=> pc[q.by] \in {"counter", "region"}
      /\ q.op \in {"set", "clear"}
  BY <1>1, TurnIs
<1>3. q.a \in Allocations
  BY <1>2, Zenon DEF Turn
<1>4. broken \in BOOLEAN
  BY CoreSays, Zenon DEF TypeOK
<1> HIDE DEF q
<1>5. CASE q.op = "set"
  <2>1. /\ broken' = broken /\ pc[q.by] \in {"counter", "region"}
        /\ RobotSets(q.a, q.a.what) \/ UNCHANGED robotVars
    <3>1. broken' = broken
      BY <1>1, <1>4, <1>5
    <3> QED BY <1>1, <1>2, <1>5, <3>1
  <2> QED BY <1>1, <1>2, <1>3, <2>1, Zenon
<1>6. CASE q.op = "clear"
  <2>1. /\ broken' = TRUE
        /\ RobotSets(q.a, Nothing) \/ UNCHANGED robotVars
    BY <1>1, <1>6
  <2> QED BY <1>1, <1>2, <1>3, <2>1, Zenon
<1> QED BY <1>2, <1>5, <1>6

LEMMA FailRpcCore ==
  ASSUME Core, FailRpc
  PROVE Core'
<1>1. /\ faults < MaxFaults /\ faults' = faults + 1 /\ opens' = opens
      /\ rpcs' = Tail(rpcs)
      /\ UNCHANGED << alloc, subs, tasks, plan, handle, refs, inside, taskVars >>
  BY FailRpcCases
<1>2. PICK r \in Regions, a \in Allocations :
             /\ Turn(r, a) /\ pc' = [pc EXCEPT ![r] = "idle"]
             /\ \/ pc[r] \in {"counter", "region"} /\ broken' = broken /\ RobotSets(a, a.what)
                \/ pc[r] \in {"counter", "region"} /\ broken' = broken /\ UNCHANGED robotVars
                \/ broken' = TRUE /\ RobotSets(a, Nothing)
                \/ broken' = TRUE /\ UNCHANGED robotVars
  BY FailRpcCases
<1>3. TypeOK /\ Books(alloc) /\ Listed /\ Counted /\ Planned
  BY CoreSays
<1>4. /\ Tail(rpcs) \in Seq(Rpcs) /\ Quiet(Tail(rpcs)) /\ refs[r] = 0 /\ a.what \in Contents
  BY <1>2, TurnSays
<1>5. /\ pc' \in [Regions -> Pcs] /\ pc'[r] = "idle" /\ \A s \in Regions : s # r => pc'[s] = pc[s]
      /\ OneHolder' /\ Planned'
  BY <1>2, GoesIdle
<1>6. /\ layout' \in [Watchers -> [RegionIds -> Contents \cup {Nothing}]]
      /\ version' \in [Watchers -> Nat] /\ enabled' = enabled
  <2>1. CASE UNCHANGED robotVars
    BY <1>3, <2>1 DEF TypeOK, robotVars
  <2>2. CASE RobotSets(a, a.what)
    BY <1>3, <1>4, <2>2, SetsType
  <2>3. CASE RobotSets(a, Nothing)
    BY <1>3, <2>3, SetsType
  <2> QED BY <1>2, <2>1, <2>2, <2>3
<1>7. broken' \in BOOLEAN /\ faults' \in 0 .. MaxFaults
  <2>1. broken \in BOOLEAN /\ faults \in 0 .. MaxFaults
    BY <1>3, Zenon DEF TypeOK
  <2>2. broken' = TRUE \/ broken' = broken
    BY <1>2, Zenon
  <2>3. faults' \in 0 .. MaxFaults
    BY <1>1, <2>1, BoundAssumption
  <2> QED BY <2>1, <2>2, <2>3
<1>8. AskedIn(rpcs', pc', plan', alloc', subs')
  BY <1>1, <1>4, QuietIsAsked
<1>9. rpcs' \in Seq([by : Contents, op : Ops, a : Allocations \cup {Nothing}])
  BY <1>1, <1>4, Zenon DEF Rpcs
<1>10. TypeOK'
  BY <1>1, <1>3, <1>5, <1>6, <1>7, <1>9 DEF TypeOK, taskVars
<1>11. Books(alloc)' /\ Listed'
  BY <1>1, <1>3, Zenon DEF Books, Listed
<1>12. Counted'
  BY <1>1, <1>3, <1>4, <1>5 DEF Counted
<1> QED BY <1>5, <1>8, <1>10, <1>11, <1>12, Zenon DEF Core, Asked

\* A block that is cancelled before its RPC is sent is the holder, and no other waits.
LEMMA CancelQueuedCases ==
  ASSUME Core, NEW r \in Regions, CancelQueued(r)
  PROVE /\ faults < MaxFaults /\ faults' = faults + 1 /\ opens' = opens
        /\ UNCHANGED << alloc, subs, tasks, plan, handle, refs, inside, robotVars, taskVars >>
        /\ pc' = [pc EXCEPT ![r] = "idle"] /\ r \in Holding
        /\ \/ pc[r] \in {"counter", "region"} /\ broken' = broken
           \/ broken' = TRUE
        /\ rpcs' \in Seq(Rpcs) /\ Quiet(rpcs')
        /\ \E k \in DOMAIN rpcs : rpcs[k].by = r /\ rpcs' = RemoveAt(rpcs, k)
<1>1. /\ faults < MaxFaults /\ faults' = faults + 1 /\ opens' = opens
      /\ UNCHANGED << alloc, subs, tasks, plan, handle, refs, inside, robotVars, taskVars >>
      /\ pc' = [pc EXCEPT ![r] = "idle"]
  BY Zenon DEF CancelQueued, Fault, Goto
<1>2. PICK k \in DOMAIN rpcs :
        /\ rpcs[k].by = r /\ broken' = (broken \/ rpcs[k].op = "clear") /\ rpcs' = RemoveAt(rpcs, k)
  BY Zenon DEF CancelQueued
<1>3. AskedIn(rpcs, pc, plan, alloc, subs) /\ rpcs \in Seq(Rpcs)
  BY CoreSays, QueueType, Zenon DEF Asked
<1>4. AskedFor(rpcs[k], pc, plan, alloc, subs)
  BY <1>2, <1>3, RegionsAreNotWatchers, Zenon DEF AskedIn, ForTask
<1>5. r \in Holding
  BY <1>2, <1>4 DEF AskedFor, Holding
<1>6. \/ pc[r] \in {"counter", "region"} /\ broken' = broken
      \/ broken' = TRUE
  <2>1. broken \in BOOLEAN
    BY CoreSays, Zenon DEF TypeOK
  <2>2. CASE rpcs[k].op = "clear"
    BY <1>2, <2>2
  <2>3. CASE rpcs[k].op # "clear"
    <3>1. pc[r] \in {"counter", "region"}
      BY <1>2, <1>4, <2>3 DEF AskedFor
    <3>2. broken' = broken
      BY <1>2, <2>1, <2>3
    <3> QED BY <3>1, <3>2
  <2> QED BY <2>2, <2>3
<1>7. /\ RemoveAt(rpcs, k) \in Seq(Rpcs)
      /\ \A i \in DOMAIN RemoveAt(rpcs, k) : \E j \in DOMAIN rpcs : j # k /\ RemoveAt(rpcs, k)[i] = rpcs[j]
  <2>1. /\ RemoveAt(rpcs, k) \in Seq(Rpcs)
        /\ \A i \in DOMAIN RemoveAt(rpcs, k) :
             \/ i < k /\ i \in DOMAIN rpcs /\ RemoveAt(rpcs, k)[i] = rpcs[i]
             \/ i >= k /\ i \in Nat /\ i + 1 \in DOMAIN rpcs /\ RemoveAt(rpcs, k)[i] = rpcs[i + 1]
    BY <1>3, RemoveAtIs
  <2>2. DOMAIN rpcs \in SUBSET Nat
    BY <1>3, LenProperties
  <2>3. \A i \in DOMAIN rpcs : i < k => i # k
    BY <2>2
  <2>4. \A i \in Nat : i >= k => i + 1 # k
    BY <2>2
  <2> QED BY <2>1, <2>3, <2>4, Zenon
<1>8. \A j \in DOMAIN rpcs : j # k => ForTask(rpcs[j])
  BY <1>2, <1>3, Zenon DEF AskedIn, AskedFor
<1>9. Quiet(RemoveAt(rpcs, k))
  BY <1>7, <1>8, Zenon DEF Quiet
<1> QED BY <1>1, <1>2, <1>5, <1>6, <1>7, <1>9, Zenon

LEMMA CancelQueuedCore ==
  ASSUME Core, NEW r \in Regions, CancelQueued(r)
  PROVE Core'
<1>1. /\ faults < MaxFaults /\ faults' = faults + 1 /\ opens' = opens
      /\ UNCHANGED << alloc, subs, tasks, plan, handle, refs, inside, robotVars, taskVars >>
      /\ pc' = [pc EXCEPT ![r] = "idle"] /\ r \in Holding
      /\ broken' = broken \/ broken' = TRUE
      /\ rpcs' \in Seq(Rpcs) /\ Quiet(rpcs')
  BY CancelQueuedCases
<1>2. TypeOK /\ Books(alloc) /\ Listed /\ Counted /\ OneHolder /\ Planned
  BY CoreSays
<1>3. /\ pc' \in [Regions -> Pcs] /\ pc'[r] = "idle" /\ \A s \in Regions : s # r => pc'[s] = pc[s]
  BY <1>1, <1>2 DEF TypeOK, Pcs
<1>4. Holding' = {}
  BY <1>1, <1>2, <1>3 DEF Holding, OneHolder
<1>5. refs[r] = 0
  <2>1. refs[r] \in Nat
    BY <1>2 DEF TypeOK
  <2>2. ~ (refs[r] > 0)
    BY <1>1, <1>2 DEF Counted, Holding
  <2> QED BY <2>1, <2>2
<1>6. broken' \in BOOLEAN /\ faults' \in 0 .. MaxFaults
  <2>1. broken \in BOOLEAN /\ faults \in 0 .. MaxFaults
    BY <1>2, Zenon DEF TypeOK
  <2>2. faults' \in 0 .. MaxFaults
    BY <1>1, <2>1, BoundAssumption
  <2> QED BY <1>1, <2>1, <2>2
<1>7. AskedIn(rpcs', pc', plan', alloc', subs')
  BY <1>1, QuietIsAsked
<1>8. rpcs' \in Seq([by : Contents, op : Ops, a : Allocations \cup {Nothing}])
  BY <1>1, Zenon DEF Rpcs
<1>9. TypeOK'
  BY <1>1, <1>2, <1>3, <1>6, <1>8 DEF TypeOK, taskVars, robotVars
<1>10. Books(alloc)' /\ Listed'
  BY <1>1, <1>2, Zenon DEF Books, Listed
<1>11. Counted'
  BY <1>1, <1>2, <1>3, <1>5 DEF Counted
<1> QED BY <1>4, <1>7, <1>9, <1>10, <1>11, Zenon DEF Core, Asked, OneHolder, Planned

-----------------------------------------------------------------------------
(* The client's invariant is inductive.                                    *)

LEMMA ExecuteCore ==
  ASSUME Core, Execute
  PROVE Core'
<1>1. UNCHANGED << opens, faults >>
  BY Zenon DEF Execute
<1> QED
  BY <1>1, ExecuteCases, SetCounterCore, SetRegionCore, ClearRegionCore, ClearCounterCore,
     EnableWatcherCore, DisableWatcherCore, ReadCounterCore, Zenon

LEMMA InitCore ==
  ASSUME Init
  PROVE Core
<1>1. Books({})
  <2>1. \A w : On({}, w) = {}
    BY DEF On
  <2>2. \A w \in Watchers : UsedBytes({}, w) <= Capacity
    BY <2>1, UsedBytesAre, BytesOfNone, CountAssumption
  <2> QED BY <2>2, FS_EmptySet DEF Books, Disjoint
<1>2. TypeOK
  <2>1. << >> \in Seq(Allocations) /\ << >> \in Seq(Event)
        /\ << >> \in Seq([by : Contents, op : Ops, a : Allocations \cup {Nothing}])
    BY EmptySeq
  <2>2. /\ alloc \subseteq Allocations /\ subs \in [Watchers -> Seq(Allocations)] /\ tasks \subseteq Watchers
        /\ pc \in [Regions -> Pcs] /\ plan \in [Regions -> Allocations \cup {Nothing}]
        /\ handle \in [Regions -> Allocations \cup {Nothing}]
        /\ refs \in [Regions -> Nat] /\ inside \in [Regions -> Nat]
    BY <2>1 DEF Init, Pcs
  <2>3. /\ layout \in [Watchers -> [RegionIds -> Contents \cup {Nothing}]]
        /\ version \in [Watchers -> Nat] /\ enabled \subseteq Watchers
        /\ watch \in [Watchers -> {"none", "enabling", "reading", "listening"}]
        /\ snapshot \in [Watchers -> SUBSET Allocations] /\ known \in [Watchers -> Nat]
        /\ events \in [Watchers -> Seq(Event)]
    BY <2>1 DEF Init
  <2>4. opens \in 0 .. MaxOpens /\ faults \in 0 .. MaxFaults /\ broken \in BOOLEAN
    <3>1. opens = 0 /\ faults = 0 /\ broken = FALSE
      BY Zenon DEF Init
    <3>2. 0 \in 0 .. MaxOpens /\ 0 \in 0 .. MaxFaults
      BY BoundAssumption
    <3> QED BY <3>1, <3>2, Zenon
  <2>5. rpcs \in Seq([by : Contents, op : Ops, a : Allocations \cup {Nothing}])
    BY <2>1, Zenon DEF Init
  <2> QED BY <2>2, <2>3, <2>4, <2>5, Zenon DEF TypeOK
<1>3. Listed
  <2>1. \A w \in Watchers : ToSet(subs[w]) = {} /\ DOMAIN subs[w] = {}
    BY DEF Init, ToSet
  <2> QED BY <2>1 DEF Listed, Distinct
<1>4. Holding = {}
  BY DEF Init, Holding
<1>5. Counted
  BY DEF Init, Counted
<1>6. Asked
  <2>1. DOMAIN rpcs = {}
    BY DEF Init
  <2>2. Quiet(rpcs)
    BY <2>1 DEF Quiet
  <2> QED BY <2>2, QuietIsAsked DEF Asked
<1> QED BY <1>1, <1>2, <1>3, <1>4, <1>5, <1>6 DEF Core, OneHolder, Planned, Init

LEMMA NextCore ==
  ASSUME Core, [Next]_vars
  PROVE Core'
<1>1. CASE UNCHANGED vars
  <2>1. /\ UNCHANGED clientVars /\ rpcs' = rpcs
    BY <1>1, Zenon DEF vars
  <2>2. TypeOK'
    BY <1>1, CoreSays DEF vars, TypeOK, clientVars, robotVars, taskVars
  <2> QED BY <2>1, <2>2, QueueOfCore, TaskStepCore
<1>2. CASE Next
  BY <1>2, EnterCore, EnableCore, LeaveCore, DisableCore, CancelWaitingCore, CancelQueuedCore,
     ExecuteCore, FailRpcCore, EmitCore, ParseCore, Zenon DEF Next
<1> QED BY <1>1, <1>2

-----------------------------------------------------------------------------
(* The regions at the robot.                                               *)

\* As long as no disable() has failed, an enabled region is subscribed to, set up at the
\* robot, and has a task - until its disable() has cleared it and goes on with the counter.
Kept ==
  ~ broken =>
    \A r \in Regions :
      handle[r] # Nothing /\ pc[r] # "clearingCounter" =>
        /\ handle[r] \in ToSet(subs[handle[r].w])
        /\ layout[handle[r].w][handle[r].id] = r
        /\ handle[r].w \in tasks

\* Two allocations in the books are in different places.
LEMMA OtherPlaces ==
  ASSUME Core, NEW a \in alloc, NEW b \in alloc, a # b
  PROVE ~ (a.w = b.w /\ a.id = b.id)
  BY CoreSays, Zenon DEF Books, Disjoint

\* A handle that is kept, and where.
LEMMA KeptSays ==
  ASSUME Core, Kept, ~ broken, NEW s \in Regions, handle[s] # Nothing, pc[s] # "clearingCounter"
  PROVE /\ handle[s] \in Allocations /\ handle[s] \in alloc /\ handle[s].what = s
        /\ handle[s].w \in Watchers /\ handle[s].id \in RegionIds /\ handle[s].w \in tasks
        /\ handle[s] \in ToSet(subs[handle[s].w])
        /\ layout[handle[s].w][handle[s].id] = s
<1>1. /\ handle[s] \in ToSet(subs[handle[s].w])
      /\ layout[handle[s].w][handle[s].id] = s
      /\ handle[s].w \in tasks
  BY Zenon DEF Kept
<1>2. handle[s] \in Allocations /\ handle[s].what = s
  BY CoreSays DEF TypeOK, Counted
<1>3. handle[s].w \in Watchers /\ handle[s].id \in RegionIds
  BY <1>2, AllocationType
<1>4. handle[s] \in alloc
  BY <1>1, <1>3, CoreSays, Zenon DEF Listed
<1> QED BY <1>1, <1>2, <1>3, <1>4

\* Nothing that Kept is about has changed.
LEMMA KeptSame ==
  ASSUME Kept, UNCHANGED << handle, subs, layout, tasks >>, broken => broken',
         \A r \in Regions : pc[r] = "clearingCounter" => pc'[r] = "clearingCounter"
  PROVE Kept'
  BY DEF Kept

\* Nothing that NoReuseWhileSet is about has changed.
LEMMA ReuseSame ==
  ASSUME NoReuseWhileSet, layout' = layout, alloc \subseteq alloc'
  PROVE NoReuseWhileSet'
  BY DEF NoReuseWhileSet

\* Setting up what is in the books keeps them ahead of the robot.
LEMMA ReuseSet ==
  ASSUME Core, NoReuseWhileSet, NEW a \in Allocations, a \in alloc, alloc' = alloc, RobotSets(a, a.what)
  PROVE NoReuseWhileSet'
<1>1. \A w \in Watchers, i \in RegionIds :
        layout'[w][i] = IF w = a.w /\ i = a.id THEN a.what ELSE layout[w][i]
  BY SetsType, AllocationType, CoreSays
<1>2. [w |-> a.w, id |-> a.id, what |-> a.what] = a
  BY DEF Allocations
<1> QED BY <1>1, <1>2 DEF NoReuseWhileSet

\* So does clearing a region and then freeing it.
LEMMA ReuseClear ==
  ASSUME Core, NoReuseWhileSet, NEW a \in Allocations, alloc \ {a} \subseteq alloc', RobotSets(a, Nothing)
  PROVE NoReuseWhileSet'
<1>1. \A w \in Watchers, i \in RegionIds :
        layout'[w][i] = IF w = a.w /\ i = a.id THEN Nothing ELSE layout[w][i]
  BY SetsType, CoreSays
<1>2. ASSUME NEW w \in Watchers, NEW i \in RegionIds, layout'[w][i] # Nothing
      PROVE [w |-> w, id |-> i, what |-> layout'[w][i]] \in alloc'
  <2>1. ~ (w = a.w /\ i = a.id) /\ layout'[w][i] = layout[w][i]
    BY <1>1, <1>2
  <2>2. [w |-> w, id |-> i, what |-> layout[w][i]] \in alloc
    BY <1>2, <2>1 DEF NoReuseWhileSet
  <2>3. [w |-> w, id |-> i, what |-> layout[w][i]] # a
    BY <2>1
  <2> QED BY <2>1, <2>2, <2>3
<1> QED BY <1>2, Zenon DEF NoReuseWhileSet

\* Setting up a region that is in the books and in no list disturbs no handle.
LEMMA KeptWhenSet ==
  ASSUME Core, Kept, NEW a \in Allocations, a \in alloc, a \notin ToSet(subs[a.w]), RobotSets(a, a.what),
         broken' = broken, tasks \subseteq tasks',
         \A w \in Watchers : ToSet(subs[w]) \subseteq ToSet(subs'[w]),
         NEW r \in Regions, handle[r] = Nothing, \A s \in Regions : s # r => handle'[s] = handle[s] /\ pc'[s] = pc[s],
         \/ handle'[r] = Nothing
         \/ /\ handle'[r] = a /\ a \in ToSet(subs'[a.w]) /\ a.what = r /\ a.w \in tasks'
  PROVE Kept'
<1>1. \A w \in Watchers, i \in RegionIds :
        layout'[w][i] = IF w = a.w /\ i = a.id THEN a.what ELSE layout[w][i]
  BY SetsType, AllocationType, CoreSays
<1>2. a.w \in Watchers /\ a.id \in RegionIds
  BY AllocationType
<1>3. ASSUME ~ broken', NEW s \in Regions, handle'[s] # Nothing, pc'[s] # "clearingCounter"
      PROVE /\ handle'[s] \in ToSet(subs'[handle'[s].w])
            /\ layout'[handle'[s].w][handle'[s].id] = s
            /\ handle'[s].w \in tasks'
  <2>1. CASE s = r
    BY <1>1, <1>2, <1>3, <2>1
  <2>2. CASE s # r
    <3>1. handle'[s] = handle[s] /\ pc'[s] = pc[s]
      BY <2>2
    <3>2. /\ handle[s] \in Allocations /\ handle[s] \in alloc /\ handle[s].what = s
          /\ handle[s].w \in Watchers /\ handle[s].id \in RegionIds /\ handle[s].w \in tasks
          /\ handle[s] \in ToSet(subs[handle[s].w])
          /\ layout[handle[s].w][handle[s].id] = s
      BY <1>3, <3>1, KeptSays
    <3>3. handle[s] # a
      BY <3>2
    <3>4. ~ (handle[s].w = a.w /\ handle[s].id = a.id)
      BY <3>2, <3>3, OtherPlaces
    <3> QED BY <1>1, <3>1, <3>2, <3>4
  <2> QED BY <2>1, <2>2
<1> QED BY <1>3, Zenon DEF Kept

\* Forgetting an allocation that is no other region's handle disturbs none.
LEMMA KeptWhenCleared ==
  ASSUME Core, Kept, NEW a \in Allocations, Forget(a), RobotSets(a, Nothing), broken' = broken,
         NEW r \in Regions, handle'[r] = Nothing \/ pc'[r] = "clearingCounter",
         \A s \in Regions : s # r => handle'[s] = handle[s] /\ pc'[s] = pc[s],
         a \in alloc, a.what \in Regions => a.what = r,
         \A s \in Regions : s # r /\ ~ broken /\ handle[s] # Nothing /\ pc[s] # "clearingCounter" => handle[s].w \in tasks'
  PROVE Kept'
<1>1. \A w \in Watchers, i \in RegionIds :
        layout'[w][i] = IF w = a.w /\ i = a.id THEN Nothing ELSE layout[w][i]
  BY SetsType, CoreSays
<1>2. \A w \in Watchers : ToSet(subs'[w]) = ToSet(subs[w]) \ {a}
  BY ForgetDoes
<1>3. ASSUME ~ broken', NEW s \in Regions, handle'[s] # Nothing, pc'[s] # "clearingCounter"
      PROVE /\ handle'[s] \in ToSet(subs'[handle'[s].w])
            /\ layout'[handle'[s].w][handle'[s].id] = s
            /\ handle'[s].w \in tasks'
  <2>1. s # r
    BY <1>3
  <2>2. handle'[s] = handle[s] /\ pc'[s] = pc[s]
    BY <2>1
  <2>3. /\ handle[s] \in Allocations /\ handle[s] \in alloc /\ handle[s].what = s
        /\ handle[s].w \in Watchers /\ handle[s].id \in RegionIds
        /\ handle[s] \in ToSet(subs[handle[s].w])
        /\ layout[handle[s].w][handle[s].id] = s
    BY <1>3, <2>2, KeptSays
  <2>4. handle[s] # a
    BY <2>1, <2>3
  <2>5. ~ (handle[s].w = a.w /\ handle[s].id = a.id)
    BY <2>3, <2>4, OtherPlaces
  <2> QED BY <1>1, <1>2, <1>3, <2>1, <2>2, <2>3, <2>4, <2>5
<1> QED BY <1>3, Zenon DEF Kept

\* The part of the inductive invariant that is about the robot's regions.
Watched == NoReuseWhileSet /\ Kept

\* A step that neither sets up, clears nor forgets anything.
LEMMA QuietStepWatched ==
  ASSUME Watched, UNCHANGED << handle, subs, layout, tasks >>, alloc \subseteq alloc', broken => broken',
         \A r \in Regions : pc[r] = "clearingCounter" => pc'[r] = "clearingCounter"
  PROVE Watched'
<1>1. NoReuseWhileSet /\ Kept
  BY Zenon DEF Watched
<1>2. NoReuseWhileSet'
  BY <1>1, ReuseSame
<1>3. Kept'
  BY <1>1, KeptSame
<1> QED BY <1>2, <1>3, Zenon DEF Watched

\* The steps that do, one by one.
LEMMA SetCounterWatched ==
  ASSUME Core, Watched, NEW r, NEW a, Turn(r, a), SetCounter(r, a)
  PROVE Watched'
<1>1. /\ pc[r] = "counter" /\ RobotSets(a, a.what)
      /\ subs' = [subs EXCEPT ![a.w] = Append(@, a)]
      /\ tasks' = tasks \cup {plan[r].w} /\ pc' = [pc EXCEPT ![r] = "region"]
      /\ alloc' = alloc /\ handle' = handle /\ broken' = broken
  BY Zenon DEF SetCounter, Goto
<1>2. /\ r \in Regions /\ a \in Allocations /\ pc \in [Regions -> Pcs]
  BY TurnSays
<1>3. a \in alloc /\ a \notin ToSet(subs[a.w])
  BY <1>1 DEF Turn
<1>4. TypeOK /\ Listed /\ NoReuseWhileSet /\ Kept /\ handle[r] = Nothing
  BY <1>1, <1>2, CoreSays DEF Watched, Counted
<1>5. \A w \in Watchers : ToSet(subs[w]) \subseteq ToSet(subs'[w])
  BY <1>1, <1>2, <1>3, <1>4, ListsGrow
<1>6. /\ tasks \subseteq tasks' /\ handle'[r] = Nothing
      /\ \A s \in Regions : s # r => handle'[s] = handle[s] /\ pc'[s] = pc[s]
  BY <1>1, <1>2, <1>4
<1>7. Kept'
  BY <1>1, <1>2, <1>3, <1>4, <1>5, <1>6, KeptWhenSet
<1>8. NoReuseWhileSet'
  BY <1>1, <1>2, <1>3, <1>4, ReuseSet
<1> QED BY <1>7, <1>8, Zenon DEF Watched

LEMMA SetRegionWatched ==
  ASSUME Core, Watched, NEW r, NEW a, Turn(r, a), SetRegion(r, a)
  PROVE Watched'
<1>1. /\ pc[r] = "region" /\ RobotSets(a, a.what)
      /\ subs' = [subs EXCEPT ![a.w] = Append(@, a)]
      /\ handle' = [handle EXCEPT ![r] = a] /\ pc' = [pc EXCEPT ![r] = "idle"]
      /\ alloc' = alloc /\ tasks' = tasks /\ broken' = broken
  BY Zenon DEF SetRegion, Goto
<1>2. /\ r \in Regions /\ r \in Holding /\ a \in Allocations /\ a.w \in Watchers /\ pc \in [Regions -> Pcs]
      /\ handle \in [Regions -> Allocations \cup {Nothing}]
  BY TurnSays
<1>3. a = plan[r]
  BY <1>1 DEF Turn
<1>4. /\ a \in alloc /\ a \notin ToSet(subs[a.w]) /\ a.what = r /\ a.w \in tasks
  BY <1>1, <1>2, <1>3, CoreSays DEF Planned
<1>5. TypeOK /\ Listed /\ NoReuseWhileSet /\ Kept /\ handle[r] = Nothing
  BY <1>1, <1>2, CoreSays DEF Watched, Counted
<1>6. /\ \A w \in Watchers : ToSet(subs[w]) \subseteq ToSet(subs'[w])
      /\ a \in ToSet(subs'[a.w])
  BY <1>1, <1>2, <1>4, <1>5, ListsGrow
<1>7. /\ tasks \subseteq tasks' /\ handle'[r] = a
      /\ \A s \in Regions : s # r => handle'[s] = handle[s] /\ pc'[s] = pc[s]
  BY <1>1, <1>2
<1>8. Kept'
  BY <1>1, <1>2, <1>4, <1>5, <1>6, <1>7, KeptWhenSet
<1>9. NoReuseWhileSet'
  BY <1>1, <1>2, <1>4, <1>5, ReuseSet
<1> QED BY <1>8, <1>9, Zenon DEF Watched

LEMMA ClearRegionWatched ==
  ASSUME Core, Watched, NEW r, NEW a, Turn(r, a), ClearRegion(r, a)
  PROVE Watched'
<1>1. /\ pc[r] = "clearing" /\ RobotSets(a, Nothing) /\ tasks' = tasks
  BY ClearRegionCases
<1>2. /\ r \in Regions /\ r \in Holding /\ a \in Allocations /\ pc \in [Regions -> Pcs]
      /\ handle \in [Regions -> Allocations \cup {Nothing}]
  BY TurnSays
<1>3. a = handle[r] /\ a.what = r
  <2>1. a = plan[r]
    BY <1>1 DEF Turn
  <2> QED BY <1>1, <1>2, <2>1, CoreSays DEF Planned, Counted
<1>4. NoReuseWhileSet /\ Kept
  BY Zenon DEF Watched
<1>5. NoReuseWhileSet'
  <2>1. alloc \ {a} \subseteq alloc'
    <3>1. alloc' = alloc \/ Forget(a)
      BY ClearRegionCases, Zenon
    <3> QED BY <1>2, <3>1, ForgetDoes
  <2> QED BY <1>1, <1>2, <1>4, <2>1, ReuseClear
<1>6. Kept'
  <2>1. CASE broken' = TRUE
    BY <2>1 DEF Kept
  <2>2. CASE /\ a \in alloc /\ Forget(a) /\ broken' = broken
             /\ \/ pc' = [pc EXCEPT ![r] = "idle"] /\ handle' = [handle EXCEPT ![r] = Nothing]
                \/ pc' = [pc EXCEPT ![r] = "clearingCounter"] /\ handle' = handle
    <3>1. /\ handle'[r] = Nothing \/ pc'[r] = "clearingCounter"
          /\ \A s \in Regions : s # r => handle'[s] = handle[s] /\ pc'[s] = pc[s]
      BY <1>2, <2>2
    <3>2. \A s \in Regions : s # r /\ ~ broken /\ handle[s] # Nothing /\ pc[s] # "clearingCounter" => handle[s].w \in tasks'
      BY <1>1, <1>4, KeptSays
    <3> QED BY <1>1, <1>2, <1>3, <1>4, <2>2, <3>1, <3>2, KeptWhenCleared
  <2> QED BY <2>1, <2>2, ClearRegionCases, Zenon
<1> QED BY <1>5, <1>6, Zenon DEF Watched

LEMMA ClearCounterWatched ==
  ASSUME Core, Watched, NEW r, NEW a, Turn(r, a), ClearCounter(r, a)
  PROVE Watched'
<1>1. /\ pc[r] = "clearingCounter" /\ RobotSets(a, Nothing) /\ Forget(a)
      /\ tasks' = tasks \ {a.w} /\ broken' = broken
      /\ handle' = [handle EXCEPT ![r] = Nothing] /\ pc' = [pc EXCEPT ![r] = "idle"]
  BY Zenon DEF ClearCounter, StopTask, Goto
<1>2. /\ r \in Regions /\ r \in Holding /\ a \in Allocations /\ a.w \in Watchers /\ pc \in [Regions -> Pcs]
      /\ handle \in [Regions -> Allocations \cup {Nothing}]
  BY TurnSays
<1>3. a = plan[r]
  BY <1>1 DEF Turn
<1>4. a \in Counters(ToSet(subs[a.w])) /\ Users(ToSet(subs[a.w])) = {}
  BY <1>1, <1>2, <1>3, CoreSays, Zenon DEF Planned
<1>5. a \in alloc /\ a.what \notin Regions
  <2>1. a \in ToSet(subs[a.w]) /\ a.what \in Watchers
    BY <1>4 DEF Counters
  <2> QED BY <1>2, <2>1, CoreSays, RegionsAreNotWatchers DEF Listed
<1>6. NoReuseWhileSet /\ Kept
  BY Zenon DEF Watched
<1>7. NoReuseWhileSet'
  <2>1. alloc \ {a} \subseteq alloc'
    BY <1>1, <1>2, ForgetDoes
  <2> QED BY <1>1, <1>2, <1>6, <2>1, ReuseClear
<1>8. ASSUME NEW s \in Regions, ~ broken, handle[s] # Nothing, pc[s] # "clearingCounter"
      PROVE handle[s].w \in tasks'
  <2>1. /\ handle[s].what = s /\ handle[s].w \in tasks
        /\ handle[s] \in ToSet(subs[handle[s].w])
    BY <1>6, <1>8, KeptSays
  <2>2. handle[s] \in Users(ToSet(subs[handle[s].w]))
    BY <2>1 DEF Users
  <2>3. handle[s].w # a.w
    BY <1>4, <2>2
  <2> QED BY <1>1, <2>1, <2>3
<1>9. /\ handle'[r] = Nothing
      /\ \A s \in Regions : s # r => handle'[s] = handle[s] /\ pc'[s] = pc[s]
  BY <1>1, <1>2
<1>10. Kept'
  BY <1>1, <1>2, <1>5, <1>6, <1>8, <1>9, KeptWhenCleared
<1> QED BY <1>7, <1>10, Zenon DEF Watched

LEMMA FailRpcWatched ==
  ASSUME Core, Watched, FailRpc
  PROVE Watched'
<1>1. UNCHANGED << alloc, subs, tasks, handle >>
  BY FailRpcCases
<1>2. PICK r \in Regions, a \in Allocations :
             /\ Turn(r, a) /\ pc' = [pc EXCEPT ![r] = "idle"]
             /\ \/ pc[r] \in {"counter", "region"} /\ broken' = broken /\ RobotSets(a, a.what)
                \/ pc[r] \in {"counter", "region"} /\ broken' = broken /\ UNCHANGED robotVars
                \/ broken' = TRUE /\ RobotSets(a, Nothing)
                \/ broken' = TRUE /\ UNCHANGED robotVars
  BY FailRpcCases
<1>3. /\ pc \in [Regions -> Pcs] /\ r \in Holding
  BY <1>2, TurnSays
<1>4. NoReuseWhileSet /\ Kept
  BY Zenon DEF Watched
<1>5. \A s \in Regions : s # r => pc'[s] = pc[s]
  BY <1>2, <1>3
<1>6. CASE pc[r] \in {"counter", "region"} /\ broken' = broken /\ RobotSets(a, a.what)
  <2>1. a \in alloc \ ToSet(subs[a.w])
    BY <1>2, <1>3, <1>6, CoreSays DEF Turn, Planned
  <2>2. handle[r] = Nothing
    BY <1>6, CoreSays DEF Counted
  <2>3. Kept'
    BY <1>1, <1>4, <1>5, <1>6, <2>1, <2>2, KeptWhenSet
  <2>4. NoReuseWhileSet'
    BY <1>1, <1>4, <1>6, <2>1, ReuseSet
  <2> QED BY <2>3, <2>4, Zenon DEF Watched
<1>7. CASE pc[r] \in {"counter", "region"} /\ broken' = broken /\ UNCHANGED robotVars
  <2>1. NoReuseWhileSet'
    BY <1>1, <1>4, <1>7, ReuseSame DEF robotVars
  <2>2. \A s \in Regions : pc[s] = "clearingCounter" => pc'[s] = "clearingCounter"
    BY <1>5, <1>7
  <2>3. Kept'
    BY <1>1, <1>4, <1>7, <2>2, KeptSame DEF robotVars
  <2> QED BY <2>1, <2>3, Zenon DEF Watched
<1>8. CASE broken' = TRUE /\ RobotSets(a, Nothing)
  <2>1. NoReuseWhileSet'
    BY <1>1, <1>4, <1>8, ReuseClear
  <2>2. Kept'
    BY <1>8 DEF Kept
  <2> QED BY <2>1, <2>2, Zenon DEF Watched
<1>9. CASE broken' = TRUE /\ UNCHANGED robotVars
  <2>1. NoReuseWhileSet'
    BY <1>1, <1>4, <1>9, ReuseSame DEF robotVars
  <2>2. Kept'
    BY <1>9 DEF Kept
  <2> QED BY <2>1, <2>2, Zenon DEF Watched
<1> QED BY <1>2, <1>6, <1>7, <1>8, <1>9, Zenon

LEMMA CancelQueuedWatched ==
  ASSUME Core, Watched, NEW r \in Regions, CancelQueued(r)
  PROVE Watched'
<1>1. UNCHANGED << alloc, subs, tasks, handle, layout >>
  BY CancelQueuedCases DEF robotVars
<1>2. /\ pc' = [pc EXCEPT ![r] = "idle"]
      /\ \/ pc[r] \in {"counter", "region"} /\ broken' = broken
         \/ broken' = TRUE
  BY CancelQueuedCases
<1>3. pc \in [Regions -> Pcs]
  BY CoreSays, Zenon DEF TypeOK
<1>4. NoReuseWhileSet /\ Kept
  BY Zenon DEF Watched
<1>5. NoReuseWhileSet'
  BY <1>1, <1>4, ReuseSame
<1>6. CASE pc[r] \in {"counter", "region"} /\ broken' = broken
  <2>1. \A s \in Regions : pc[s] = "clearingCounter" => pc'[s] = "clearingCounter"
    BY <1>2, <1>3, <1>6
  <2>2. Kept'
    BY <1>1, <1>4, <1>6, <2>1, KeptSame
  <2> QED BY <1>5, <2>2, Zenon DEF Watched
<1>7. CASE broken' = TRUE
  <2>1. Kept'
    BY <1>7 DEF Kept
  <2> QED BY <1>5, <2>1, Zenon DEF Watched
<1> QED BY <1>2, <1>6, <1>7, Zenon

\* Watched is inductive.
LEMMA ExecuteWatched ==
  ASSUME Core, Watched, Execute
  PROVE Watched'
<1>1. ASSUME NEW w, EnableWatcher(w) \/ DisableWatcher(w) \/ ReadCounter(w)
      PROVE Watched'
  <2>1. UNCHANGED << clientVars, layout, broken >>
    BY <1>1, Zenon DEF EnableWatcher, DisableWatcher, ReadCounter, robotVars
  <2> QED BY <2>1, QuietStepWatched DEF clientVars
<1> QED
  BY <1>1, ExecuteCases, SetCounterWatched, SetRegionWatched, ClearRegionWatched, ClearCounterWatched, Zenon

LEMMA NextWatched ==
  ASSUME Core, Watched, [Next]_vars
  PROVE Watched'
<1>0. pc \in [Regions -> Pcs]
  BY CoreSays, Zenon DEF TypeOK
<1>1. CASE UNCHANGED vars
  <2>1. UNCHANGED << alloc, pc, handle, subs, layout, tasks, broken >>
    BY <1>1, Zenon DEF vars, clientVars, robotVars
  <2> QED BY <2>1, QuietStepWatched
<1>2. ASSUME NEW r \in Regions, Enter(r) \/ Enable(r) \/ Leave(r) \/ Disable(r) \/ CancelWaiting(r)
      PROVE Watched'
  <2>1. UNCHANGED << handle, subs, layout, tasks >>
    BY <1>2, Zenon DEF Enter, Enable, Leave, Disable, CancelWaiting, robotVars
  <2>2. alloc \subseteq alloc'
    <3>1. alloc' = alloc \/ \E a \in Allocate(alloc, r) : alloc' = alloc \cup {a} \/ \E c : alloc' = alloc \cup {a, c}
      BY <1>2, Zenon DEF Enter, Enable, Leave, Disable, CancelWaiting
    <3> QED BY <3>1
  <2>3. broken => broken'
    BY <1>2 DEF Enter, Enable, Leave, Disable, CancelWaiting
  <2>4. pc' = pc \/ (pc[r] # "clearingCounter" /\ \E l : pc' = [pc EXCEPT ![r] = l])
    <3>1. \/ pc' = pc
          \/ pc[r] \in {"idle", "enabling", "disabling"} /\ \E l : pc' = [pc EXCEPT ![r] = l]
      BY <1>2, Zenon DEF Enter, Enable, Leave, Disable, CancelWaiting, Goto
    <3> QED BY <3>1
  <2>5. \A s \in Regions : pc[s] = "clearingCounter" => pc'[s] = "clearingCounter"
    BY <1>0, <2>4
  <2> QED BY <2>1, <2>2, <2>3, <2>5, QuietStepWatched
<1>3. ASSUME NEW w \in Watchers, Emit(w) \/ Parse(w)
      PROVE Watched'
  <2>1. UNCHANGED << clientVars, layout, broken >>
    BY <1>3, Zenon DEF Emit, Parse, robotVars
  <2> QED BY <2>1, QuietStepWatched DEF clientVars
<1>4. CASE Next
  BY <1>2, <1>3, <1>4, ExecuteWatched, FailRpcWatched, CancelQueuedWatched, Zenon DEF Next
<1> QED BY <1>1, <1>4

LEMMA InitWatched ==
  ASSUME Init
  PROVE Watched
  BY DEF Init, Watched, Kept, NoReuseWhileSet

\* Who is inside a block is watched: the region is enabled, and nobody is disabling it.
LEMMA WatchedInside ==
  ASSUME Core, Watched
  PROVE InsideIsWatched
<1> SUFFICES ASSUME NEW r \in Regions, ~ broken, inside[r] > 0
             PROVE handle[r] # Nothing /\ layout[handle[r].w][handle[r].id] = r /\ handle[r].w \in tasks
  BY DEF InsideIsWatched
<1>1. refs[r] \in Nat /\ inside[r] \in Nat
  BY CoreSays DEF TypeOK
<1>2. pc[r] = "idle" /\ handle[r] # Nothing
  BY <1>1, CoreSays DEF Counted
<1> QED BY <1>2 DEF Watched, Kept

-----------------------------------------------------------------------------
(* The tasks of the watchers.                                              *)

\* In a queue, a task in the books is enabled for good: its watcher sends events, or will
\* when the queue is served, and whatever disables it before is followed by an enabling.
Lasts(queue, ts, en) ==
  /\ \A i \in DOMAIN queue : queue[i].op = "disable" /\ queue[i].by \in ts =>
       \E j \in DOMAIN queue : i < j /\ queue[j].by = queue[i].by /\ queue[j].op = "enable"
  /\ \A w \in ts : w \in en \/ \E j \in DOMAIN queue : queue[j].by = w /\ queue[j].op = "enable"

\* It lasts when the end of the queue disables no task in the books,
LEMMA LastsAppend ==
  ASSUME NEW queue \in Seq(Rpcs), NEW q \in Rpcs, NEW ts, NEW en, Lasts(queue, ts, en),
         q.op = "disable" => q.by \notin ts
  PROVE Lasts(Append(queue, q), ts, en)
<1> DEFINE t == Append(queue, q)
<1>1. /\ \A i \in DOMAIN t : \/ i \in DOMAIN queue /\ t[i] = queue[i]
                             \/ i = Len(queue) + 1 /\ t[i] = q
      /\ \A i \in DOMAIN queue : i \in DOMAIN t /\ t[i] = queue[i]
  BY AppendIs
<1> HIDE DEF t
<1>2. ASSUME NEW i \in DOMAIN t, t[i].op = "disable", t[i].by \in ts
      PROVE \E j \in DOMAIN t : i < j /\ t[j].by = t[i].by /\ t[j].op = "enable"
  <2>1. i \in DOMAIN queue /\ t[i] = queue[i]
    BY <1>1, <1>2
  <2>2. queue[i].op = "disable" /\ queue[i].by \in ts
    BY <1>2, <2>1
  <2>3. \E j \in DOMAIN queue : i < j /\ queue[j].by = queue[i].by /\ queue[j].op = "enable"
    BY <2>1, <2>2, Zenon DEF Lasts
  <2> QED BY <1>1, <2>1, <2>3
<1>3. ASSUME NEW w \in ts
      PROVE w \in en \/ \E j \in DOMAIN t : t[j].by = w /\ t[j].op = "enable"
  <2>1. w \in en \/ \E j \in DOMAIN queue : queue[j].by = w /\ queue[j].op = "enable"
    BY Zenon DEF Lasts
  <2> QED BY <1>1, <2>1
<1>4. Lasts(t, ts, en)
  BY <1>2, <1>3, Zenon DEF Lasts
<1> QED BY <1>4 DEF t

\* when a new task asks to be enabled last,
LEMMA LastsNew ==
  ASSUME NEW queue \in Seq(Rpcs), NEW q \in Rpcs, NEW ts, NEW en, Lasts(queue, ts, en), q.op = "enable"
  PROVE Lasts(Append(queue, q), ts \cup {q.by}, en)
<1> DEFINE t == Append(queue, q)
           n == Len(queue) + 1
<1>1. /\ \A i \in DOMAIN t : \/ i \in DOMAIN queue /\ t[i] = queue[i]
                             \/ i = n /\ t[i] = q
      /\ \A i \in DOMAIN queue : i < n /\ i \in DOMAIN t /\ t[i] = queue[i]
      /\ n \in DOMAIN t /\ t[n] = q
  BY AppendIs
<1> HIDE DEF t, n
<1>2. Lasts(t, ts \cup {q.by}, en)
  <2>1. ASSUME NEW i \in DOMAIN t, t[i].op = "disable", t[i].by \in ts \cup {q.by}
        PROVE \E j \in DOMAIN t : i < j /\ t[j].by = t[i].by /\ t[j].op = "enable"
    <3>1. i \in DOMAIN queue /\ t[i] = queue[i] /\ i < n
      BY <1>1, <2>1
    <3>2. CASE t[i].by = q.by
      BY <1>1, <3>1, <3>2
    <3>3. CASE t[i].by \in ts
      <4>1. queue[i].op = "disable" /\ queue[i].by \in ts
        BY <2>1, <3>1, <3>3
      <4>2. \E j \in DOMAIN queue : i < j /\ queue[j].by = queue[i].by /\ queue[j].op = "enable"
        BY <3>1, <4>1, Zenon DEF Lasts
      <4> QED BY <1>1, <3>1, <4>2
    <3> QED BY <2>1, <3>2, <3>3
  <2>2. ASSUME NEW w \in ts \cup {q.by}
        PROVE w \in en \/ \E j \in DOMAIN t : t[j].by = w /\ t[j].op = "enable"
    <3>1. CASE w = q.by
      BY <1>1, <3>1
    <3>2. CASE w \in ts
      BY <1>1, <3>2, Zenon DEF Lasts
    <3> QED BY <3>1, <3>2
  <2> QED BY <2>1, <2>2, Zenon DEF Lasts
<1> QED BY <1>2 DEF t

\* when the first is served, be it an enabling or a disabling one,
LEMMA LastsTail ==
  ASSUME NEW queue \in Seq(Rpcs), queue # << >>, NEW ts, NEW en, NEW now, Lasts(queue, ts, en),
         Head(queue).op = "enable" => Head(queue).by \in now,
         \A w \in ts : w \in en => w \in now \/ (Head(queue).op = "disable" /\ Head(queue).by = w)
  PROVE Lasts(Tail(queue), ts, now)
<1> DEFINE t == Tail(queue)
           h == Head(queue)
<1>1. /\ 1 \in DOMAIN queue /\ h = queue[1]
      /\ \A i \in DOMAIN t : i \in Nat /\ i + 1 \in DOMAIN queue /\ t[i] = queue[i + 1]
      /\ \A i \in DOMAIN queue : i # 1 => i - 1 \in DOMAIN t /\ i = (i - 1) + 1 /\ t[i - 1] = queue[i]
  BY TailIs
<1>2. DOMAIN queue \in SUBSET (Nat \ {0})
  BY LenProperties
<1> HIDE DEF t, h
<1>3. ASSUME NEW i \in DOMAIN queue, NEW w, i # 1, queue[i].by = w, queue[i].op = "enable"
      PROVE i - 1 \in DOMAIN t /\ t[i - 1].by = w /\ t[i - 1].op = "enable"
  BY <1>1, <1>3
<1>4. ASSUME NEW i \in DOMAIN t, t[i].op = "disable", t[i].by \in ts
      PROVE \E j \in DOMAIN t : i < j /\ t[j].by = t[i].by /\ t[j].op = "enable"
  <2>1. i \in Nat /\ i + 1 \in DOMAIN queue /\ t[i] = queue[i + 1]
    BY <1>1
  <2> DEFINE m == i + 1
  <2>2. PICK j \in DOMAIN queue : m < j /\ queue[j].by = t[i].by /\ queue[j].op = "enable"
    <3>1. m \in DOMAIN queue /\ queue[m].op = "disable" /\ queue[m].by \in ts /\ queue[m].by = t[i].by
      BY <1>4, <2>1
    <3> HIDE DEF m
    <3>2. \E j \in DOMAIN queue : m < j /\ queue[j].by = queue[m].by /\ queue[j].op = "enable"
      BY <3>1, Zenon DEF Lasts
    <3> QED BY <3>1, <3>2
  <2>3. j # 1 /\ i < j - 1
    BY <1>2, <2>1, <2>2
  <2> QED BY <1>3, <2>2, <2>3
<1>5. ASSUME NEW w \in ts
      PROVE w \in now \/ \E j \in DOMAIN t : t[j].by = w /\ t[j].op = "enable"
  <2>1. CASE h.op = "disable" /\ h.by = w
    <3>1. PICK j \in DOMAIN queue : 1 < j /\ queue[j].by = w /\ queue[j].op = "enable"
      BY <1>1, <2>1, Zenon DEF Lasts
    <3>2. j # 1
      BY <1>2, <3>1
    <3> QED BY <1>3, <3>1, <3>2
  <2>2. CASE w \in en
    BY <2>1, <2>2 DEF h
  <2>3. CASE \E j \in DOMAIN queue : queue[j].by = w /\ queue[j].op = "enable"
    <3>1. PICK j \in DOMAIN queue : queue[j].by = w /\ queue[j].op = "enable"
      BY <2>3
    <3>2. CASE j = 1
      BY <1>1, <3>1, <3>2 DEF h
    <3>3. CASE j # 1
      BY <1>3, <3>1, <3>3
    <3> QED BY <3>2, <3>3
  <2> QED BY <2>2, <2>3, Zenon DEF Lasts
<1>6. Lasts(t, ts, now)
  BY <1>4, <1>5, Zenon DEF Lasts
<1> QED BY <1>6 DEF t

\* when another than a task in the books gives its RPC up,
LEMMA LastsRemove ==
  ASSUME NEW queue \in Seq(Rpcs), NEW k \in DOMAIN queue, NEW ts, NEW en, Lasts(queue, ts, en),
         queue[k].by \notin ts
  PROVE Lasts(RemoveAt(queue, k), ts, en)
<1> DEFINE t == RemoveAt(queue, k)
<1>1. /\ \A i \in DOMAIN t : \/ i < k /\ i \in DOMAIN queue /\ t[i] = queue[i]
                             \/ i >= k /\ i \in Nat /\ i + 1 \in DOMAIN queue /\ t[i] = queue[i + 1]
      /\ \A i \in DOMAIN queue : /\ i < k => i \in DOMAIN t /\ t[i] = queue[i]
                                 /\ i > k => i - 1 \in DOMAIN t /\ t[i - 1] = queue[i]
  BY RemoveAtIs
<1>2. DOMAIN queue \in SUBSET Nat
  BY LenProperties
<1> HIDE DEF t
<1>3. ASSUME NEW j \in DOMAIN queue, queue[j].by \in ts, queue[j].op = "enable"
      PROVE \/ j < k /\ j \in DOMAIN t /\ t[j] = queue[j]
            \/ j > k /\ j - 1 \in DOMAIN t /\ t[j - 1] = queue[j]
  <2>1. j # k
    BY <1>3
  <2>2. j < k \/ j > k
    BY <1>2, <2>1
  <2> QED BY <1>1, <2>2
<1>4. ASSUME NEW i \in DOMAIN t, t[i].op = "disable", t[i].by \in ts
      PROVE \E j \in DOMAIN t : i < j /\ t[j].by = t[i].by /\ t[j].op = "enable"
  <2>1. PICK m \in DOMAIN queue : t[i] = queue[m] /\ ((m = i /\ i < k) \/ (m = i + 1 /\ i >= k /\ i \in Nat))
    BY <1>1
  <2>2. PICK j \in DOMAIN queue : m < j /\ queue[j].by = t[i].by /\ queue[j].op = "enable"
    <3>1. queue[m].op = "disable" /\ queue[m].by \in ts /\ queue[m].by = t[i].by
      BY <1>4, <2>1
    <3>2. \E j \in DOMAIN queue : m < j /\ queue[j].by = queue[m].by /\ queue[j].op = "enable"
      BY <3>1, Zenon DEF Lasts
    <3> QED BY <3>1, <3>2
  <2>3. \/ j < k /\ j \in DOMAIN t /\ t[j] = queue[j]
        \/ j > k /\ j - 1 \in DOMAIN t /\ t[j - 1] = queue[j]
    BY <1>3, <1>4, <2>2
  <2>4. (j < k => i < j) /\ (j > k => i < j - 1)
    BY <1>2, <2>1, <2>2
  <2> QED BY <2>2, <2>3, <2>4
<1>5. ASSUME NEW w \in ts
      PROVE w \in en \/ \E j \in DOMAIN t : t[j].by = w /\ t[j].op = "enable"
  <2>1. CASE \E j \in DOMAIN queue : queue[j].by = w /\ queue[j].op = "enable"
    <3>1. PICK j \in DOMAIN queue : queue[j].by = w /\ queue[j].op = "enable"
      BY <2>1
    <3>2. \/ j \in DOMAIN t /\ t[j] = queue[j]
          \/ j - 1 \in DOMAIN t /\ t[j - 1] = queue[j]
      BY <1>3, <3>1
    <3> QED BY <3>1, <3>2
  <2> QED BY <2>1, Zenon DEF Lasts
<1>6. Lasts(t, ts, en)
  BY <1>4, <1>5, Zenon DEF Lasts
<1> QED BY <1>6 DEF t

\* and when there are fewer tasks.
LEMMA LastsFewer ==
  ASSUME NEW queue, NEW ts, NEW fewer, fewer \subseteq ts, NEW en, Lasts(queue, ts, en)
  PROVE Lasts(queue, fewer, en)
  BY DEF Lasts

-----------------------------------------------------------------------------
(* The order of the clean-up.                                              *)

\* The part of the inductive invariant that is about the tasks: the clean-up of a
\* cancelled task stands in the queue before the first RPC of its successor.
Ordered == Lasts(rpcs, tasks, enabled)

\* The turn of a block does not touch the tasks.
LEMMA TurnOrdered ==
  ASSUME Core, Ordered, NEW r, NEW a, Turn(r, a)
  PROVE Tail(rpcs) \in Seq(Rpcs) /\ Lasts(Tail(rpcs), tasks, enabled)
<1>1. /\ rpcs \in Seq(Rpcs) /\ rpcs # << >> /\ Tail(rpcs) \in Seq(Rpcs)
      /\ Head(rpcs).op \in {"set", "clear"}
  BY CoreSays, QueueType, Zenon DEF Turn
<1>2. Head(rpcs).op # "enable"
  BY <1>1
<1> QED BY <1>1, <1>2, LastsTail, Zenon DEF Ordered

\* Ordered is inductive.
LEMMA SetCounterOrdered ==
  ASSUME Core, Ordered, NEW r, NEW a, Turn(r, a), SetCounter(r, a)
  PROVE Ordered'
<1> DEFINE w == plan[r].w
           q == Rpc(r, "set", plan[r])
           e == Rpc(w, "enable", Nothing)
           t == Tail(rpcs)
<1>1. tasks' = tasks \cup {w} /\ rpcs' = t \o << q, e >> /\ enabled' = enabled
  BY Zenon DEF SetCounter, RobotSets
<1>2. t \in Seq(Rpcs) /\ Lasts(t, tasks, enabled)
  BY TurnOrdered
<1>3. r \in Contents /\ plan[r] \in Allocations /\ w \in Contents
  BY TurnSays DEF Contents
<1>4. /\ q \in Rpcs /\ e \in Rpcs /\ q.op = "set" /\ e.op = "enable" /\ e.by = w
  BY <1>3, RpcType DEF Ops
<1> HIDE DEF q, e, t, w
<1>5. t \o << q, e >> = Append(Append(t, q), e)
  BY <1>2, <1>4
<1>6. Append(t, q) \in Seq(Rpcs) /\ Lasts(Append(t, q), tasks, enabled)
  <2>1. q.op # "disable"
    BY <1>4
  <2>2. Append(t, q) \in Seq(Rpcs)
    BY <1>2, <1>4
  <2> QED BY <1>2, <1>4, <2>1, <2>2, LastsAppend
<1>7. Lasts(Append(Append(t, q), e), tasks \cup {w}, enabled)
  BY <1>4, <1>6, LastsNew
<1> QED BY <1>1, <1>5, <1>7 DEF Ordered

LEMMA SetRegionOrdered ==
  ASSUME Core, Ordered, NEW r, NEW a, Turn(r, a), SetRegion(r, a)
  PROVE Ordered'
<1>1. rpcs' = Tail(rpcs) /\ tasks' = tasks /\ enabled' = enabled
  BY Zenon DEF SetRegion, RobotSets
<1> QED BY <1>1, TurnOrdered DEF Ordered

LEMMA ClearRegionOrdered ==
  ASSUME Core, Ordered, NEW r, NEW a, Turn(r, a), ClearRegion(r, a)
  PROVE Ordered'
<1>1. tasks' = tasks /\ enabled' = enabled
  BY Zenon DEF ClearRegion, RobotSets
<1>2. Tail(rpcs) \in Seq(Rpcs) /\ Lasts(Tail(rpcs), tasks, enabled)
  BY TurnOrdered
<1>3. CASE rpcs' = Tail(rpcs)
  BY <1>1, <1>2, <1>3 DEF Ordered
<1>4. CASE /\ a \in alloc /\ Forget(a) /\ Counters(ToSet(subs'[a.w])) # {}
           /\ rpcs' = Append(Tail(rpcs), Rpc(r, "clear", FirstCounter(a.w)))
  <2>1. r \in Contents /\ a \in Allocations /\ a.w \in Watchers
    BY TurnSays
  <2>2. subs' \in [Watchers -> Seq(Allocations)] /\ Listed' /\ alloc' \subseteq Allocations
    BY <1>4, <2>1, ForgetDoes, Zenon DEF Books
  <2>3. subs'[a.w] \in Seq(Allocations)
    BY <2>1, <2>2
  <2>4. FirstCounter(a.w) \in Counters(ToSet(subs'[a.w]))
    BY <1>4, <2>3, FirstCounterIs DEF FirstCounter
  <2>5. FirstCounter(a.w) \in Allocations
    BY <2>1, <2>2, <2>4 DEF Counters, Listed
  <2>6. /\ Rpc(r, "clear", FirstCounter(a.w)) \in Rpcs
        /\ Rpc(r, "clear", FirstCounter(a.w)).op = "clear"
    BY <2>1, <2>5, RpcType DEF Ops
  <2>7. Rpc(r, "clear", FirstCounter(a.w)).op # "disable"
    BY <2>6
  <2>8. Lasts(Append(Tail(rpcs), Rpc(r, "clear", FirstCounter(a.w))), tasks, enabled)
    BY <1>2, <2>6, <2>7, LastsAppend
  <2> QED BY <1>1, <1>4, <2>8 DEF Ordered
<1> QED BY <1>3, <1>4, ClearRegionCases, Zenon

\* The cancelled task is out of the books, so its last RPC disables nobody else.
LEMMA ClearCounterOrdered ==
  ASSUME Core, Ordered, NEW r, NEW a, Turn(r, a), ClearCounter(r, a)
  PROVE Ordered'
<1> DEFINE t == Tail(rpcs)
           d == Rpc(a.w, "disable", Nothing)
<1>1. /\ tasks' = tasks \ {a.w} /\ rpcs' = Append(Others(a.w), d) /\ enabled' = enabled
  BY Zenon DEF ClearCounter, StopTask, RobotSets
<1>2. t \in Seq(Rpcs) /\ Lasts(t, tasks \ {a.w}, enabled)
  BY TurnOrdered, LastsFewer
<1>3. Others(a.w) \in Seq(Rpcs) /\ Lasts(Others(a.w), tasks \ {a.w}, enabled)
  <2>1. CASE Others(a.w) = t
    BY <1>2, <2>1
  <2>2. CASE \E k \in DOMAIN t : t[k].by = a.w /\ Others(a.w) = RemoveAt(t, k)
    <3>1. PICK k \in DOMAIN t : t[k].by = a.w /\ Others(a.w) = RemoveAt(t, k)
      BY <2>2, Zenon
    <3> HIDE DEF t
    <3>2. t[k].by \notin tasks \ {a.w}
      BY <3>1
    <3>3. RemoveAt(t, k) \in Seq(Rpcs)
      BY <1>2, RemoveAtIs
    <3> QED BY <1>2, <3>1, <3>2, <3>3, LastsRemove, Zenon
  <2> QED BY <1>2, <2>1, <2>2, OthersAre, Zenon
<1>4. d \in Rpcs /\ d.by = a.w
  <2>1. a.w \in Contents /\ "disable" \in Ops
    BY TurnSays DEF Contents, Ops
  <2> QED BY <2>1, RpcType
<1>5. d.by \notin tasks \ {a.w}
  BY <1>4
<1> HIDE DEF d
<1>6. Lasts(Append(Others(a.w), d), tasks \ {a.w}, enabled)
  BY <1>3, <1>4, <1>5, LastsAppend
<1> QED BY <1>1, <1>6 DEF Ordered

\* The turns of the tasks.
LEMMA TaskTurnOrdered ==
  ASSUME Core, Ordered, rpcs # << >>, NEW w \in Watchers, Head(rpcs).by = w,
         \/ Head(rpcs).op = "enable" /\ EnableWatcher(w)
         \/ Head(rpcs).op = "disable" /\ DisableWatcher(w)
         \/ Head(rpcs).op = "read" /\ ReadCounter(w)
  PROVE Ordered'
<1>1. rpcs \in Seq(Rpcs) /\ Tail(rpcs) \in Seq(Rpcs)
  BY CoreSays, QueueType
<1>2. CASE Head(rpcs).op = "enable" /\ EnableWatcher(w)
  <2>1. /\ enabled' = enabled \cup {w} /\ tasks' = tasks
        /\ rpcs' = Append(Tail(rpcs), Rpc(w, "read", Nothing))
    BY <1>2, Zenon DEF EnableWatcher, Look, clientVars
  <2>2. Lasts(Tail(rpcs), tasks, enabled \cup {w})
    <3>1. Head(rpcs).by \in enabled \cup {w} /\ \A v \in tasks : v \in enabled => v \in enabled \cup {w}
      OBVIOUS
    <3> QED BY <1>1, <3>1, LastsTail, Zenon DEF Ordered
  <2>3. Rpc(w, "read", Nothing) \in Rpcs /\ Rpc(w, "read", Nothing).op = "read"
    <3>1. w \in Contents /\ "read" \in Ops
      BY DEF Contents, Ops
    <3> QED BY <3>1, RpcType
  <2>4. Rpc(w, "read", Nothing).op # "disable"
    BY <2>3
  <2>5. Lasts(Append(Tail(rpcs), Rpc(w, "read", Nothing)), tasks, enabled \cup {w})
    BY <1>1, <2>2, <2>3, <2>4, LastsAppend
  <2> QED BY <2>1, <2>5 DEF Ordered
<1>3. CASE Head(rpcs).op = "disable" /\ DisableWatcher(w)
  <2>1. enabled' = enabled \ {w} /\ tasks' = tasks /\ rpcs' = Tail(rpcs)
    BY <1>3, Zenon DEF DisableWatcher, clientVars
  <2>2. /\ Head(rpcs).op = "enable" => Head(rpcs).by \in enabled \ {w}
        /\ \A v \in tasks : v \in enabled => v \in enabled \ {w} \/ (Head(rpcs).op = "disable" /\ Head(rpcs).by = v)
    BY <1>3
  <2>3. Lasts(Tail(rpcs), tasks, enabled \ {w})
    BY <1>1, <2>2, LastsTail, Zenon DEF Ordered
  <2> QED BY <2>1, <2>3 DEF Ordered
<1>4. CASE Head(rpcs).op = "read" /\ ReadCounter(w)
  <2>1. enabled' = enabled /\ tasks' = tasks /\ rpcs' = Tail(rpcs)
    BY <1>4, Zenon DEF ReadCounter, clientVars, robotVars
  <2>2. Head(rpcs).op # "enable"
    BY <1>4
  <2>3. Lasts(Tail(rpcs), tasks, enabled)
    BY <1>1, <2>2, LastsTail, Zenon DEF Ordered
  <2> QED BY <2>1, <2>3 DEF Ordered
<1> QED BY <1>2, <1>3, <1>4

\* Blocks ask for nothing that disables a task.
LEMMA BlockOrdered ==
  ASSUME Core, Ordered, NEW r \in Regions,
         Enter(r) \/ Enable(r) \/ Leave(r) \/ Disable(r) \/ CancelWaiting(r)
  PROVE Ordered'
<1>1. tasks' = tasks /\ enabled' = enabled
  BY Zenon DEF Enter, Enable, Leave, Disable, CancelWaiting, robotVars
<1>2. \/ rpcs' = rpcs
      \/ \E a : rpcs' = Append(rpcs, Rpc(r, "set", a))
      \/ \E a : rpcs' = Append(rpcs, Rpc(r, "clear", a))
  BY Zenon DEF Enter, Enable, Leave, Disable, CancelWaiting
<1>3. rpcs \in Seq(Rpcs) /\ rpcs' \in Seq(Rpcs)
  <2>1. TypeOK'
    BY EnterCore, EnableCore, LeaveCore, DisableCore, CancelWaitingCore, Zenon DEF Core
  <2>2. rpcs' \in Seq(Rpcs)
    BY <2>1, Zenon DEF TypeOK, Rpcs
  <2> QED BY <2>2, CoreSays, QueueType, Zenon
<1>5. ASSUME NEW op \in {"set", "clear"}, NEW a, rpcs' = Append(rpcs, Rpc(r, op, a))
      PROVE Lasts(rpcs', tasks, enabled)
  <2> DEFINE q == Rpc(r, op, a)
  <2>1. q.op # "disable"
    BY DEF Rpc
  <2> HIDE DEF q
  <2>2. Append(rpcs, q) \in Seq(Rpcs)
    BY <1>3, <1>5 DEF q
  <2>3. q \in Rpcs
    BY <1>3, <2>2
  <2>4. Lasts(Append(rpcs, q), tasks, enabled)
    BY <1>3, <2>1, <2>3, LastsAppend DEF Ordered
  <2> QED BY <1>5, <2>4 DEF q
<1>6. Lasts(rpcs', tasks, enabled)
  BY <1>2, <1>5 DEF Ordered
<1> QED BY <1>1, <1>6 DEF Ordered

LEMMA NextOrdered ==
  ASSUME Core, Ordered, [Next]_vars
  PROVE Ordered'
<1>1. CASE UNCHANGED vars
  <2>1. UNCHANGED << rpcs, tasks, enabled >>
    BY <1>1, Zenon DEF vars, clientVars, robotVars
  <2> QED BY <2>1 DEF Ordered
<1>2. CASE Execute
  BY <1>2, ExecuteCases, SetCounterOrdered, SetRegionOrdered, ClearRegionOrdered, ClearCounterOrdered,
     TaskTurnOrdered, Zenon
<1>3. CASE FailRpc
  <2>1. rpcs' = Tail(rpcs) /\ tasks' = tasks
    BY <1>3, FailRpcCases
  <2>2. enabled' = enabled
    BY <1>3, Zenon DEF FailRpc, RobotSets, robotVars
  <2>3. \E r, a : Turn(r, a)
    BY <1>3, FailRpcCases, Zenon
  <2>4. Lasts(Tail(rpcs), tasks, enabled)
    BY <2>3, TurnOrdered, Zenon
  <2> QED BY <2>1, <2>2, <2>4 DEF Ordered
<1>6. ASSUME NEW r \in Regions, CancelQueued(r) PROVE Ordered'
  <2>1. UNCHANGED << tasks, enabled >>
    BY <1>6, CancelQueuedCases DEF robotVars
  <2>2. PICK k \in DOMAIN rpcs : rpcs[k].by = r /\ rpcs' = RemoveAt(rpcs, k)
    BY <1>6, CancelQueuedCases
  <2>3. tasks \subseteq Watchers /\ rpcs \in Seq(Rpcs)
    BY CoreSays, QueueType, Zenon DEF TypeOK
  <2>4. rpcs[k].by \notin tasks
    BY <2>2, <2>3, RegionsAreNotWatchers
  <2>5. Lasts(RemoveAt(rpcs, k), tasks, enabled)
    BY <2>3, <2>4, LastsRemove DEF Ordered
  <2> QED BY <2>1, <2>2, <2>5 DEF Ordered
<1>4. ASSUME NEW w \in Watchers, Emit(w) \/ Parse(w) PROVE Ordered'
  <2>1. enabled' = enabled /\ tasks' = tasks
    BY <1>4, Zenon DEF Emit, Parse, clientVars, robotVars
  <2>2. rpcs' = rpcs \/ rpcs' = Append(rpcs, Rpc(w, "read", Nothing))
    BY <1>4, Zenon DEF Emit, Parse, Look
  <2>3. rpcs \in Seq(Rpcs)
    BY CoreSays, QueueType
  <2>4. Rpc(w, "read", Nothing) \in Rpcs /\ Rpc(w, "read", Nothing).op = "read"
    <3>1. w \in Contents /\ "read" \in Ops
      BY DEF Contents, Ops
    <3> QED BY <3>1, RpcType
  <2>5. Rpc(w, "read", Nothing).op # "disable"
    BY <2>4
  <2>6. Lasts(rpcs', tasks, enabled)
    BY <2>2, <2>3, <2>4, <2>5, LastsAppend DEF Ordered
  <2> QED BY <2>1, <2>6 DEF Ordered
<1>5. CASE Next
  BY <1>2, <1>3, <1>4, <1>5, <1>6, BlockOrdered, Zenon DEF Next
<1> QED BY <1>1, <1>5

LEMMA InitOrdered ==
  ASSUME Init
  PROVE Ordered
<1>1. tasks = {} /\ DOMAIN rpcs = {}
  BY DEF Init
<1> QED BY <1>1 DEF Ordered, Lasts

-----------------------------------------------------------------------------
(* The theorems.                                                           *)

\* The inductive invariant.
IInv == Core /\ Watched /\ Ordered

\* It holds in every state.
LEMMA Inductive == Spec => []IInv
<1>1. Init => IInv
  BY InitCore, InitWatched, InitOrdered, Zenon DEF IInv
<1>2. IInv /\ [Next]_vars => IInv'
  <2>1. ASSUME IInv, [Next]_vars PROVE IInv'
    BY <2>1, NextCore, NextWatched, NextOrdered, Zenon DEF IInv
  <2> QED BY <2>1
<1> QED BY <1>1, <1>2, PTL DEF Spec

\* All variables keep their types; the allocator never runs out of ids where it finds a
\* gap, and the first counter of a list that has one is one.
THEOREM WatchersTypeHolds == Spec => []TypeOK
<1>1. IInv => TypeOK
  BY Zenon DEF IInv, Core
<1> QED BY <1>1, Inductive, PTL

\* No two allocations share a region of a watcher, and all that one watcher watches fits
\* into one notification (WatcherAllocator.allocate and free, whatever RPCs fail).
THEOREM AllocatedHolds == Spec => []Allocated
<1>1. IInv => Allocated
  BY Zenon DEF IInv, Core, Books, Allocated
<1> QED BY <1>1, Inductive, PTL

\* No id is given away while the robot still uses it: a region that is set up at the
\* robot is in the books, with its contents (_configure_region, _deconfigure_region).
THEOREM NoReuseHolds == Spec => []NoReuseWhileSet
<1>1. IInv => NoReuseWhileSet
  BY Zenon DEF IInv, Watched
<1> QED BY <1>1, Inductive, PTL

\* Inside a watch() block the robot watches the region and a task of its watcher runs,
\* as long as no disable() has failed (RefCountedWatcher.__aenter__, __aexit__).
THEOREM InsideIsWatchedHolds == Spec => []InsideIsWatched
<1>1. IInv => InsideIsWatched
  BY WatchedInside, Zenon DEF IInv
<1> QED BY <1>1, Inductive, PTL

\* The watcher of a task in the books sends events, or the request for them is in the
\* queue: the clean-up of a cancelled task never disables its successor's watcher.
THEOREM TaskIsEnabledHolds == Spec => []TaskIsEnabled
<1>1. IInv => TaskIsEnabled
  BY Zenon DEF IInv, Ordered, Lasts, TaskIsEnabled
<1> QED BY <1>1, Inductive, PTL
=============================================================================
