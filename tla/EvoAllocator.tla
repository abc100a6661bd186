---------------------------- MODULE EvoAllocator ----------------------------
(***************************************************************************)
(* WatcherAllocator (ozobot/evo/api/watchers.py): which watcher of the Evo *)
(* and which of its regions gets the next piece of watched memory.  The    *)
(* state is the set of allocations; the list _allocations[w] of a watcher  *)
(* are those with that w.                                                  *)
(*                                                                         *)
(* What is watched is a memory region of the API, or the one-byte update   *)
(* counter of a watcher, which is named by the watcher it belongs to.      *)
(***************************************************************************)
EXTENDS Integers, FiniteSetsExt

CONSTANTS
  Regions,       \* the memory regions programs can watch
  SizeOf,        \* their sizes in bytes
  WatcherCount,  \* watchers of the robot, regions of each of them, and the
  RegionCount,   \* data bytes of one WatcherDirty packet
  Capacity

Watchers == 0 .. WatcherCount - 1
RegionIds == 0 .. RegionCount - 1
Contents == Regions \cup Watchers
Allocations == [w : Watchers, id : RegionIds, what : Contents]

ASSUME CountAssumption == WatcherCount \in Nat /\ RegionCount \in Nat /\ Capacity \in Nat
ASSUME SizeAssumption == SizeOf \in [Regions -> Nat \ {0}]
ASSUME ContentAssumption == Regions \cap Watchers = {}

Size(x) == IF x \in Regions THEN SizeOf[x] ELSE 1

On(allocs, w) == {a \in allocs : a.w = w}
UsedIds(allocs, w) == {a.id : a \in On(allocs, w)}
UsedBytes(allocs, w) == MapThenSumSet(LAMBDA a : Size(a.what), On(allocs, w))

\* The watchers with a region and n bytes left.
Available(allocs, n) ==
  {w \in Watchers : /\ Cardinality(On(allocs, w)) < RegionCount
                    /\ Capacity - UsedBytes(allocs, w) >= n}

\* The fullest of them, and the first of these: one watcher, or none.
FindGap(allocs, n) ==
  LET fit == Available(allocs, n)
  IN {w \in fit : \A v \in fit : \/ UsedBytes(allocs, v) < UsedBytes(allocs, w)
                                 \/ UsedBytes(allocs, v) = UsedBytes(allocs, w) /\ w <= v}

\* The number of allocations in place of the first unused id: a mutant of FreeId.
NextId(allocs, w) == Cardinality(On(allocs, w))

FreeId(allocs, w) == Min(RegionIds \ UsedIds(allocs, w))

\* allocate(): the allocation it makes; none is NoFreeWatcherError.
Allocate(allocs, x) ==
  {[w |-> w, id |-> FreeId(allocs, w), what |-> x] : w \in FindGap(allocs, Size(x))}

-----------------------------------------------------------------------------
\* No two allocations share a region, and what one watcher watches fits into
\* one notification together with its other regions.
Disjoint(allocs) ==
  /\ \A a, b \in allocs : a.w = b.w /\ a.id = b.id => a = b
  /\ \A w \in Watchers : UsedBytes(allocs, w) <= Capacity
=============================================================================
