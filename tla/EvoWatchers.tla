----------------------------- MODULE EvoWatchers -----------------------------
(***************************************************************************)
(* RefCountedWatcher and WatcherManager (ozobot/evo/api/watchers.py) over  *)
(* the RPCs of AsyncControl.  Programs enter and leave watch() blocks; the *)
(* first block of a region enables it at the robot, the last disables it.  *)
(* A watcher with enabled regions has a task that takes its WatcherDirty   *)
(* events apart, by the subscriptions it saw when it last looked.          *)
(*                                                                         *)
(* Every RPC holds AsyncControl._rpc_lock, which is fair: rpcs is the      *)
(* queue of the calls that hold it (the head) or wait for it.  An RPC of a *)
(* region is made by the block that holds _allocator_lock.  What the robot *)
(* does with a request and what the caller does with the response up to    *)
(* its next suspension is one step: Execute.                               *)
(***************************************************************************)
EXTENDS EvoAllocator, SequencesExt

CONSTANTS
  Nothing,    \* no content, no handle
  MaxOpens,   \* bound: blocks entered in all
  MaxFaults,  \* bound: RPCs that fail and blocks cancelled while they wait
  MaxEvents   \* bound: unread events of one watcher

ASSUME BoundAssumption == MaxOpens \in Nat /\ MaxFaults \in Nat /\ MaxEvents \in Nat
ASSUME NothingAssumption == Nothing \notin Contents \cup Allocations

VARIABLES
  alloc,     \* WatcherAllocator._allocations
  subs,      \* WatcherManager._subscriptions, in list order
  tasks,     \* keys of WatcherManager._watcher_tasks
  pc,        \* what the block holding a region's _open_close_lock does
  plan,      \* the allocation that block works on
  handle,    \* RefCountedWatcher._watcher
  refs,      \* RefCountedWatcher._ref_count
  inside,    \* blocks that have been entered and not left
  rpcs,      \* the queue for _rpc_lock
  layout,    \* robot: contents of each watcher's regions
  version,   \* robot: the update counter of each watcher
  enabled,   \* robot: watchers that send events
  watch,     \* what each watcher's task does
  snapshot,  \* its `subscriptions`
  known,     \* its `allocation_update_counter`
  events,    \* the events its session has received and it has not consumed
  opens,     \* bounded: blocks entered so far
  faults,    \* bounded: faults so far
  broken     \* history: a disable() has ended with an exception

clientVars == << alloc, subs, tasks, pc, plan, handle, refs, inside >>
robotVars == << layout, version, enabled >>
taskVars == << watch, snapshot, known, events >>
vars == << clientVars, rpcs, robotVars, taskVars, opens, faults, broken >>

\* A block's steps under _open_close_lock: waiting for _allocator_lock, setting
\* a counter or a region up, and the same to take them down.
Pcs == {"idle", "enabling", "counter", "region", "disabling", "clearing", "clearingCounter"}
Ops == {"set", "clear", "enable", "disable", "read"}
Rpc(by, op, a) == [by |-> by, op |-> op, a |-> a]
Event == [version : Nat, layout : [RegionIds -> Contents \cup {Nothing}]]

TypeOK ==
  /\ alloc \subseteq Allocations
  /\ subs \in [Watchers -> Seq(Allocations)]
  /\ tasks \subseteq Watchers
  /\ pc \in [Regions -> Pcs]
  /\ plan \in [Regions -> Allocations \cup {Nothing}]
  /\ handle \in [Regions -> Allocations \cup {Nothing}]
  /\ refs \in [Regions -> Nat] /\ inside \in [Regions -> Nat]
  /\ rpcs \in Seq([by : Contents, op : Ops, a : Allocations \cup {Nothing}])
  /\ layout \in [Watchers -> [RegionIds -> Contents \cup {Nothing}]]
  /\ version \in [Watchers -> Nat]
  /\ enabled \subseteq Watchers
  /\ watch \in [Watchers -> {"none", "enabling", "reading", "listening"}]
  /\ snapshot \in [Watchers -> SUBSET Allocations]
  /\ known \in [Watchers -> Nat]
  /\ events \in [Watchers -> Seq(Event)]
  /\ opens \in 0 .. MaxOpens /\ faults \in 0 .. MaxFaults /\ broken \in BOOLEAN

Init ==
  /\ alloc = {} /\ subs = [w \in Watchers |-> << >>] /\ tasks = {}
  /\ pc = [r \in Regions |-> "idle"]
  /\ plan = [r \in Regions |-> Nothing] /\ handle = [r \in Regions |-> Nothing]
  /\ refs = [r \in Regions |-> 0] /\ inside = [r \in Regions |-> 0]
  /\ rpcs = << >>
  /\ layout = [w \in Watchers |-> [i \in RegionIds |-> Nothing]]
  /\ version = [w \in Watchers |-> 0] /\ enabled = {}
  /\ watch = [w \in Watchers |-> "none"] /\ snapshot = [w \in Watchers |-> {}]
  /\ known = [w \in Watchers |-> 0] /\ events = [w \in Watchers |-> << >>]
  /\ opens = 0 /\ faults = 0 /\ broken = FALSE

-----------------------------------------------------------------------------
(* Entering and leaving a watch() block, up to the first RPC.              *)

Goto(r, l) == pc' = [pc EXCEPT ![r] = l]
Count(f, r, n) == [f EXCEPT ![r] = @ + n]

\* Who holds _allocator_lock.
Holding == {r \in Regions : pc[r] \in {"counter", "region", "clearing", "clearingCounter"}}

\* The second block does not count: a mutant of Enter.
EnterUncounted(r) ==
  /\ pc[r] = "idle" /\ opens < MaxOpens
  /\ opens' = opens + 1
  /\ IF handle[r] = Nothing THEN Goto(r, "enabling") /\ UNCHANGED inside
                            ELSE inside' = Count(inside, r, 1) /\ UNCHANGED pc
  /\ UNCHANGED << alloc, subs, tasks, plan, handle, refs, rpcs, robotVars, taskVars, faults, broken >>

Enter(r) ==
  /\ pc[r] = "idle" /\ opens < MaxOpens
  /\ opens' = opens + 1
  /\ IF handle[r] = Nothing
     THEN Goto(r, "enabling") /\ UNCHANGED << refs, inside >>
     ELSE refs' = Count(refs, r, 1) /\ inside' = Count(inside, r, 1) /\ UNCHANGED pc
  /\ UNCHANGED << alloc, subs, tasks, plan, handle, rpcs, robotVars, taskVars, faults, broken >>

\* enable() with the lock: allocate the region and, for a watcher without a
\* task, its update counter; what is allocated when the second fails stays.
Enable(r) ==
  /\ pc[r] = "enabling" /\ Holding = {}
  /\ \/ /\ Allocate(alloc, r) = {}
        /\ Goto(r, "idle") /\ UNCHANGED << alloc, plan, rpcs >>
     \/ \E a \in Allocate(alloc, r) :
          /\ plan' = [plan EXCEPT ![r] = a]
          /\ \/ /\ a.w \in tasks
                /\ alloc' = alloc \cup {a}
                /\ rpcs' = Append(rpcs, Rpc(r, "set", a)) /\ Goto(r, "region")
             \/ /\ a.w \notin tasks
                /\ \E c \in Allocate(alloc \cup {a}, a.w) :
                     /\ alloc' = alloc \cup {a, c}
                     /\ rpcs' = Append(rpcs, Rpc(r, "set", c)) /\ Goto(r, "counter")
             \/ /\ a.w \notin tasks /\ Allocate(alloc \cup {a}, a.w) = {}
                /\ alloc' = alloc \cup {a}
                /\ Goto(r, "idle") /\ UNCHANGED rpcs
  /\ UNCHANGED << subs, tasks, handle, refs, inside, robotVars, taskVars, opens, faults, broken >>

\* The first block to leave disables the region: a mutant of Leave.
LeaveAtOnce(r) ==
  /\ pc[r] = "idle" /\ inside[r] > 0
  /\ refs' = Count(refs, r, -1) /\ inside' = Count(inside, r, -1)
  /\ Goto(r, "disabling")
  /\ UNCHANGED << alloc, subs, tasks, plan, handle, rpcs, robotVars, taskVars, opens, faults, broken >>

Leave(r) ==
  /\ pc[r] = "idle" /\ inside[r] > 0
  /\ refs' = Count(refs, r, -1) /\ inside' = Count(inside, r, -1)
  /\ IF refs[r] = 1 THEN Goto(r, "disabling") ELSE UNCHANGED pc
  /\ UNCHANGED << alloc, subs, tasks, plan, handle, rpcs, robotVars, taskVars, opens, faults, broken >>

\* disable() with the lock.
Disable(r) ==
  /\ pc[r] = "disabling" /\ Holding = {}
  /\ rpcs' = Append(rpcs, Rpc(r, "clear", handle[r]))
  /\ plan' = [plan EXCEPT ![r] = handle[r]]
  /\ Goto(r, "clearing")
  /\ UNCHANGED << alloc, subs, tasks, handle, refs, inside, robotVars, taskVars, opens, faults, broken >>

-----------------------------------------------------------------------------
(* The RPCs.                                                               *)

\* The robot: a region set up or cleared counts as an update of its watcher.
RobotSets(a, x) ==
  /\ layout' = [layout EXCEPT ![a.w][a.id] = x]
  /\ version' = Count(version, a.w, 1)
  /\ UNCHANGED enabled

\* The subscriptions without a broadcast, and those with one.
Counters(S) == {a \in S : a.what \in Watchers}
Users(S) == {a \in S : a.what \in Regions}

\* `next(s for s in self._subscriptions[w] if s.broadcast is None)`
FirstCounter(w) == subs'[w][SelectInSeq(subs'[w], LAMBDA a : a.what \in Watchers)]

Forget(a) ==
  /\ alloc' = alloc \ {a}
  /\ subs' = [subs EXCEPT ![a.w] = RemoveFirst(@, a)]

\* _configure_region has set up the update counter: the watcher gets its task,
\* and the block goes on with the region itself.
SetCounter(r, a) ==
  LET w == plan[r].w
  IN /\ pc[r] = "counter"
     /\ RobotSets(a, a.what)
     /\ subs' = [subs EXCEPT ![a.w] = Append(@, a)]
     /\ tasks' = tasks \cup {w}
     /\ watch' = [watch EXCEPT ![w] = "enabling"] /\ events' = [events EXCEPT ![w] = << >>]
     /\ rpcs' = Tail(rpcs) \o << Rpc(r, "set", plan[r]), Rpc(w, "enable", Nothing) >>
     /\ Goto(r, "region")
     /\ UNCHANGED << alloc, plan, handle, refs, inside, snapshot, known, broken >>

\* _configure_region has set up the region: the block is entered.
SetRegion(r, a) ==
  /\ pc[r] = "region"
  /\ RobotSets(a, a.what)
  /\ subs' = [subs EXCEPT ![a.w] = Append(@, a)]
  /\ handle' = [handle EXCEPT ![r] = a]
  /\ refs' = Count(refs, r, 1) /\ inside' = Count(inside, r, 1)
  /\ rpcs' = Tail(rpcs) /\ Goto(r, "idle")
  /\ UNCHANGED << alloc, tasks, plan, taskVars, broken >>

\* _deconfigure_region has cleared the region: free it, and go on with the
\* counter when no other region of the watcher is left.  An allocation that is
\* not in the books any more, or no counter to be found, is an exception.
ClearRegion(r, a) ==
  /\ pc[r] = "clearing"
  /\ RobotSets(a, Nothing)
  /\ \/ /\ a \notin alloc
        /\ broken' = TRUE /\ Goto(r, "idle") /\ rpcs' = Tail(rpcs)
        /\ UNCHANGED << alloc, subs, plan, handle >>
     \/ /\ a \in alloc /\ Forget(a)
        /\ LET left == ToSet(subs'[a.w])
           IN \/ /\ Users(left) # {}
                 /\ handle' = [handle EXCEPT ![r] = Nothing]
                 /\ Goto(r, "idle") /\ rpcs' = Tail(rpcs) /\ UNCHANGED << plan, broken >>
              \/ /\ Users(left) = {} /\ Counters(left) = {}
                 /\ broken' = TRUE /\ Goto(r, "idle") /\ rpcs' = Tail(rpcs)
                 /\ UNCHANGED << plan, handle >>
              \/ /\ Users(left) = {} /\ Counters(left) # {}
                 /\ plan' = [plan EXCEPT ![r] = FirstCounter(a.w)]
                 /\ rpcs' = Append(Tail(rpcs), Rpc(r, "clear", FirstCounter(a.w)))
                 /\ Goto(r, "clearingCounter") /\ UNCHANGED << handle, broken >>
  /\ UNCHANGED << tasks, refs, inside, taskVars >>

\* The RPC that the task of w is in is given up; its clean-up asks for one more.
Others(w) == RemoveFirstMatch(Tail(rpcs), LAMBDA q : q.by = w /\ q.op # "disable")

\* The cancelled task stays in the books: a mutant of StopTask.
StopKeepingTask(w) ==
  /\ watch' = [watch EXCEPT ![w] = "none"]
  /\ rpcs' = Append(Others(w), Rpc(w, "disable", Nothing))
  /\ UNCHANGED tasks

\* `self._watcher_tasks.pop(watcher_id).cancel()`, and the task's clean-up.
StopTask(w) ==
  /\ tasks' = tasks \ {w}
  /\ watch' = [watch EXCEPT ![w] = "none"]
  /\ rpcs' = Append(Others(w), Rpc(w, "disable", Nothing))

\* The counter is cleared too: the task of the watcher is cancelled.
ClearCounter(r, a) ==
  /\ pc[r] = "clearingCounter"
  /\ RobotSets(a, Nothing)
  /\ Forget(a)
  /\ StopTask(a.w)
  /\ handle' = [handle EXCEPT ![r] = Nothing]
  /\ Goto(r, "idle")
  /\ UNCHANGED << plan, refs, inside, snapshot, known, events, broken >>

\* The task looks at the subscriptions and asks for the counter.
Look(w, queue) ==
  /\ snapshot' = [snapshot EXCEPT ![w] = ToSet(subs[w])]
  /\ rpcs' = Append(queue, Rpc(w, "read", Nothing))
  /\ watch' = [watch EXCEPT ![w] = "reading"]

EnableWatcher(w) ==
  /\ enabled' = enabled \cup {w}
  /\ Look(w, Tail(rpcs))
  /\ UNCHANGED << clientVars, layout, version, known, events, broken >>

DisableWatcher(w) ==
  /\ enabled' = enabled \ {w}
  /\ rpcs' = Tail(rpcs)
  /\ UNCHANGED << clientVars, layout, version, taskVars, broken >>

ReadCounter(w) ==
  /\ known' = [known EXCEPT ![w] = version[w]]
  /\ watch' = [watch EXCEPT ![w] = "listening"]
  /\ rpcs' = Tail(rpcs)
  /\ UNCHANGED << clientVars, robotVars, snapshot, events, broken >>

Execute ==
  /\ rpcs # << >>
  /\ LET q == Head(rpcs)
     IN \/ q.op = "set" /\ (SetCounter(q.by, q.a) \/ SetRegion(q.by, q.a))
        \/ q.op = "clear" /\ (ClearRegion(q.by, q.a) \/ ClearCounter(q.by, q.a))
        \/ q.op = "enable" /\ EnableWatcher(q.by)
        \/ q.op = "disable" /\ DisableWatcher(q.by)
        \/ q.op = "read" /\ ReadCounter(q.by)
  /\ UNCHANGED << opens, faults >>

-----------------------------------------------------------------------------
(* Failures.  A block whose RPC fails, or that is cancelled, gives its     *)
(* locks back; nothing else is undone.                                     *)

Fault == faults < MaxFaults /\ faults' = faults + 1 /\ UNCHANGED opens

\* The caller keeps its locks: a mutant of FailRpc.
FailRpcKeepingLocks ==
  /\ Fault
  /\ rpcs # << >> /\ Head(rpcs).by \in Regions
  /\ rpcs' = Tail(rpcs)
  /\ UNCHANGED << clientVars, robotVars, taskVars, broken >>

\* The allocation is given back whatever the robot has done: a mutant of FailRpc.
FailRpcFreeing ==
  /\ Fault
  /\ rpcs # << >> /\ Head(rpcs).by \in Regions
  /\ LET q == Head(rpcs)
     IN /\ Goto(q.by, "idle")
        /\ RobotSets(q.a, IF q.op = "set" THEN q.a.what ELSE Nothing)
        /\ alloc' = alloc \ {q.a} /\ broken' = (broken \/ q.op = "clear")
  /\ rpcs' = Tail(rpcs)
  /\ UNCHANGED << subs, tasks, plan, handle, refs, inside, taskVars >>

\* The RPC of a block fails at the robot, or is cancelled before or after the
\* robot has executed it.
FailRpc ==
  /\ Fault
  /\ rpcs # << >> /\ Head(rpcs).by \in Regions
  /\ LET q == Head(rpcs)
     IN /\ Goto(q.by, "idle")
        /\ broken' = (broken \/ q.op = "clear")
        /\ \/ RobotSets(q.a, IF q.op = "set" THEN q.a.what ELSE Nothing)
           \/ UNCHANGED robotVars
  /\ rpcs' = Tail(rpcs)
  /\ UNCHANGED << alloc, subs, tasks, plan, handle, refs, inside, taskVars >>

\* A block is cancelled while its RPC waits for _rpc_lock, maybe behind those of
\* the tasks: it is not sent.
CancelQueued(r) ==
  /\ Fault
  /\ \E k \in DOMAIN rpcs :
       /\ rpcs[k].by = r
       /\ broken' = (broken \/ rpcs[k].op = "clear")
       /\ rpcs' = RemoveAt(rpcs, k)
  /\ Goto(r, "idle")
  /\ UNCHANGED << alloc, subs, tasks, plan, handle, refs, inside, robotVars, taskVars >>

\* Cancelled while it waits for _allocator_lock; or, on the way out, while it
\* waits for _open_close_lock behind a block on the way in: it stays counted.
CancelWaiting(r) ==
  /\ Fault
  /\ broken' = (broken \/ pc[r] = "disabling")
  /\ \/ pc[r] \in {"enabling", "disabling"} /\ Goto(r, "idle") /\ UNCHANGED inside
     \/ /\ pc[r] = "idle" /\ inside[r] > 0 /\ opens < MaxOpens
        /\ inside' = Count(inside, r, -1) /\ UNCHANGED pc
  /\ UNCHANGED << alloc, subs, tasks, plan, handle, refs, rpcs, robotVars, taskVars >>

-----------------------------------------------------------------------------
(* Events.                                                                 *)

\* The robot sends the contents of all regions of w in one packet.
Emit(w) ==
  /\ w \in enabled /\ watch[w] # "none" /\ Len(events[w]) < MaxEvents
  /\ events' = [events EXCEPT ![w] = Append(@, [version |-> version[w], layout |-> layout[w]])]
  /\ UNCHANGED << clientVars, rpcs, robotVars, watch, snapshot, known, opens, faults, broken >>

\* Offset of region i in a packet, by the layout and by the snapshot.
SizeIn(l, i) == IF l[i] = Nothing THEN 0 ELSE Size(l[i])
OffsetIn(l, i) == SumFunctionOnSet([k \in RegionIds |-> SizeIn(l, k)], 0 .. i - 1)
Offset(S, i) == MapThenSumSet(LAMBDA a : Size(a.what), {a \in S : a.id < i})

\* _parse_update_counter: the byte where the snapshot has its counter.
ParsesAs(w, e, n) ==
  LET c == CHOOSE a \in Counters(snapshot[w]) :
             \A b \in Counters(snapshot[w]) : a.id <= b.id
  IN e.layout[c.id] = w /\ OffsetIn(e.layout, c.id) = Offset(snapshot[w], c.id) => n = e.version

\* One turn of the inner loop: an event of the known version is consumed and
\* broadcast, another is left for the next turn of the outer loop.
Parse(w) ==
  /\ watch[w] = "listening" /\ events[w] # << >>
  /\ Counters(snapshot[w]) # {}  \* else the task fails, which closes the manager
  /\ \E n \in {known[w], Head(events[w]).version} :
       /\ ParsesAs(w, Head(events[w]), n)
       /\ IF n = known[w]
          THEN events' = [events EXCEPT ![w] = Tail(@)] /\ UNCHANGED << watch, snapshot, rpcs >>
          ELSE Look(w, rpcs) /\ UNCHANGED events
  /\ UNCHANGED << clientVars, robotVars, known, opens, faults, broken >>

-----------------------------------------------------------------------------
Next ==
  \/ \E r \in Regions : Enter(r) \/ Enable(r) \/ Leave(r) \/ Disable(r)
  \/ \E r \in Regions : CancelWaiting(r) \/ CancelQueued(r)
  \/ Execute \/ FailRpc
  \/ \E w \in Watchers : Emit(w) \/ Parse(w)

Spec == Init /\ [][Next]_vars

\* The robot answers the RPCs, and the event loop runs what is ready.  A lock that
\* is free is given to one of those who wait for it; they are finitely many.
FairSpec ==
  /\ Spec /\ WF_vars(Execute)
  /\ WF_vars(\E r \in Regions : Enable(r) \/ Disable(r))
  /\ \A w \in Watchers : WF_vars(Parse(w))

-----------------------------------------------------------------------------
(* Properties.                                                             *)

Allocated == Disjoint(alloc)

\* A region of the robot that is set up is in the books of the allocator, with
\* what it watches: no id is given away while the robot still uses it, whatever
\* RPCs have failed.
NoReuseWhileSet ==
  \A w \in Watchers, i \in RegionIds :
    layout[w][i] # Nothing => [w |-> w, id |-> i, what |-> layout[w][i]] \in alloc

\* Inside a watch() block the robot watches the region, and a task for its
\* watcher runs, however enabling and disabling of others interleave and fail -
\* as long as no disable() has failed, which leaves a dead handle behind.
InsideIsWatched ==
  \A r \in Regions :
    ~broken /\ inside[r] > 0 =>
      handle[r] # Nothing /\ layout[handle[r].w][handle[r].id] = r /\ handle[r].w \in tasks

\* The clean-up of a cancelled task never disables the watcher of its successor.
TaskIsEnabled ==
  \A w \in tasks :
    w \in enabled \/ \E i \in DOMAIN rpcs : rpcs[i].by = w /\ rpcs[i].op = "enable"

\* A block that waits for its locks or its RPCs gets on, whatever fails: blocks
\* are entered MaxOpens times, and then all of them get through.
LocksAreReleased == []<>(\A r \in Regions : pc[r] = "idle")

\* watchers.py: "if the counter does not match, the region has been updated": if
\* it does match, the event is taken apart as it was put together.
MatchedEventsFit ==
  \A w \in tasks :
    watch[w] = "listening" /\ events[w] # << >> /\ Head(events[w]).version = known[w] =>
      \A i \in RegionIds :
        LET x == Head(events[w]).layout[i]
        IN x # Nothing => [w |-> w, id |-> i, what |-> x] \in snapshot[w]

\* watchers.py: "leave the data be for the next cycle": an event that does not
\* match is handled later, not left there for good.
MismatchIsResolved ==
  \A w \in Watchers :
    (watch[w] = "listening" /\ events[w] # << >> /\ Head(events[w]).version # known[w])
      ~> (events[w] = << >> \/ Head(events[w]).version = known[w])
=============================================================================
