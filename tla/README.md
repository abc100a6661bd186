# Verification of the Ozobot Python libraries

This directory holds TLA+ models of the concurrent core of the Ozobot Python
libraries, TLC configurations that model-check them, and TLAPS proofs about
them.  The libraries drive three robots (ARI, Evo, Ora) from asyncio programs,
over BLE, WebRTC or a browser; what is hard in them is never a computation but
the interleaving of tasks at their `await`s: cancellations, half-done writes,
late answers, locks held across failing requests, shared futures.

Throughout, *one atomic action is what asyncio runs between two suspensions*.
Definitions keep the names of the source; `PROJECT.json` maps each of them to
the lines it models.  Definitions commented as "a mutant of X" are plausible
bugs of X; they belong to no specification and show that the properties notice.

Paths below leave out the common prefix: `common/rpc/executor.py` stands for
`src/ozobot-common/src/ozobot/common/rpc/executor.py`.

## 1. Inventory

| Component | State | Operations | Hard behaviour | What makes it correct |
|---|---|---|---|---|
| JSON-RPC executor (`common/rpc/executor.py`, `asyncutils.py`, `broadcast.py`) | next request id; per `execute()`: four queues, `cancellation_future`, a cancellable task group; a read task | `execute`, `Query.cancel`, `_read` | client cancellation, server cancellation, error and answer race; the task can be cancelled at every `await`; queues are subscribed after the request is written | one ending per request, true to the robot's verdict; answers not lost; the robot is told of a client's cancellation; nothing hangs |
| ARI transports (`ari/driver/transport.py`) | `_context` (method of each unanswered request), `_write_lock`, bytes on the characteristic | `write`, `read` | a frame is several chunks, a writer may be cancelled or fail between two; late errors for forgotten ids | frames of two tasks do not mix; the context entry lives exactly as long as the request |
| ARI driver (`ari/driver/native.py`) | health-check task, navigation queues | commands, watches, health check | health-check timeout races its answer; two queues answer each other | failure of the link ends the block |
| ARI API, protocol, conversions | none | delegation, pydantic messages | none | (value conversions) |
| BackgroundTask (`common/asyncutils.py`) | base task, background task, its exception | start, leave, done-callback | the background fails while the block is left; the callback cancels the task of the block | the failure comes out of the block |
| Synchronous runner (`common/sync.py`) | one `asyncio.Runner` | `as_sync`, context managers | Ctrl-C, twice | a method returns when interrupted |
| Common helpers (`rlock.py`, `convert.py`, `match.py`, `crc.py`, ...) | RLock: lock, owner, counter | acquire, release | re-entrance by task; one counter for all | one owner, released as often as taken |
| BLE connection (`ble/connection.py`) | session count per characteristic, a lock, a broadcast | open, close session, read, write | the count changes before an `await` that may fail or be cancelled | notifications are on while somebody waits for one |
| Evo watcher manager (`evo/api/watchers.py`) | allocations, subscriptions, watcher tasks, reference counts, two locks | enter/leave `watch()`, `enable`, `disable`, watcher task | RPCs fail inside two locks; the tasks read events by a snapshot; clean-up of a task races its successor | inside a block the region is watched; ids and bytes are not shared; locks are released; events are taken apart as they were put together |
| Evo RPC layer (`evo/protocol.py`) | RPC lock, request id, two sessions per RPC; tables of 106 wire types, 49 packets and 73 properties | `_rpc`, `_long_rpc`, 19 methods | stale responses after a cancellation; the id is three bytes; long RPCs nest others and share the robot's memory | a response is paired with its request; every call returns |
| Evo driver and API (`evo/driver/native.py`, `evo/api/core.py`) | events session of a command, the `set_velocity` condition | commands, cancellation by StopExecution, override | the stop is an RPC inside the RPC it stops; `notify()` races the awaited robot event and a cancelled wait | a command that is left has stopped the robot; an overridden one returns |
| Line follower data access (`linefollower/api/data_access.py`) | containers, condition, runner | push, iterate, deduplicate | look, then wait; repeated samples; a conversion that raises in the background | each sample once, in order, and at the iterator |
| Line follower API, web driver | none, one watch loop | delegation | an empty answer | |
| Ora task queue (`ora/queue.py`) | pending tasks, recorded exceptions, a shared future | `run_blocking`, `run_nonblocking`, `_on_task_done`, `validate_state` | one future for all waiting calls; swallowed cancellations; failures reported by a later call | capacity; a failure aborts everything and is raised once; nobody waits for nothing |
| Ora synchronous API (`ora/sync.py`) and web driver (`ora/driver/web.py`) | runner, queue, `_cancelled_undefined_state` | motions, settings, `frame()`, `tool()` | Ctrl-C in the middle of a motion; a second Ctrl-C leaves a task behind | nothing is sent on top of a motion that is out of hand; nothing is started from an undefined state |
| Ora units, arithmetics, data types, simple API | none | geometry | floating point | |
| Actors (`actors/actors.py`) | stack of selections | select, mask, restore | names looked up late | the stack is restored |
| WebRTC signalling and channels (`webrtc/...`) | data channels, reading lock, negotiation state | connect, pause, resume | `call_soon` of a coroutine function; negotiation order | reading resumes |
| Command line, user IO, browser glue | none | sequential requests | none | |

How they interact: a program calls an API object, which delegates to a driver.
The ARI driver runs every command and watch in an `execute()` block of the
executor, which writes through the serialising layer to BLE or WebRTC and is
answered by broadcasts of the read task.  The Evo API asks the watcher manager
for memory regions, and both make RPCs under one lock.  The Ora API puts
every motion into the task queue, whose tasks are the web driver's RPCs; its
synchronous face owns the event loop, which runs only while a method does.

## 2. Modules

```
AriTransport <- AriExecutor <- AriRpc      <- MCAriRpc        RpcPromise (abstract)
                                  |---- implements ------------^
                      AriRpc      <- AriRpcProofs
TaskQueue    <- OraSync                    <- MCOraSync
      |            |---<- OraProofs
      |------------------------------------<- MCTaskQueue
EvoAllocator <- EvoWatchers                <- MCEvoWatchers
                    |---<- EvoWatchersProofs
EvoTypes     <- EvoPackets <- EvoRpc       <- MCEvoRpc
                    |          |---<- EvoRpcProofs <- EvoAnswersProofs <- EvoLongProofs
                    |------<- DataAccess   <- MCDataAccess
                                 |---<- DataAccessProofs
EvoVelocity                                <- MCEvoVelocity
     |-------<- EvoVelocityProofs
```

### ARI: `AriTransport`, `AriExecutor`, `AriRpc`, `RpcPromise`, `AriRpcProofs`

`AriTransport` is the transport stack as operators.  `context` is the key set
of `SerializingTransportLayer._context`, `lockedBy` the owner of
`_BleTransport._write_lock`, `stage[c]` how far the frame of call `c` has got.
Over WebRTC a write never suspends; over BLE it takes the lock and suspends
after each chunk (`FirstChunk`, `LastChunk`, `FinishWrite`), and a writer
cancelled between two chunks (`AbortWrite`) leaves a truncated frame: `torn`.
A write that raises does the same (`BreakWrite`) or, when it is the first one,
sends nothing at all (`FailedWrite`).
A frame is "some chunks but the last", then "the last": how many chunks come
before the last makes no difference to any property.

`AriExecutor` is `execute()`.  `pc[c]` says where the call is: `writing` its
request, `open` (in the block), `closing` (the block is left, the task group is
not), `aborted` (a canceller has run), `cancelling` (writing the cancellation
message), `done`.  The actions are the suspensions of the source: `Begin` is
everything up to the first suspension of the write; `TakeResponse`,
`BodyRaises`, `LeaveWatch`, `CancelQuery` and `CancelTask` are the ways a block
ends; `AbortGroup` and `Close` are the task group's `__aexit__`;
`AwaitCancellation` and `AwaitError` are its waiter tasks; `Read` is one turn of
the read task with its broadcast.  `recancel[c]` is the subtle part: a task
cancelled from outside while its group ends is cancelled again at its next
suspension, which is in the middle of the cancellation message
(`InterruptedWrite`).  An error of the transport, in the write of the request
(`BeginFails`, `WriteRaises`) or of the cancellation, leaves `execute()` as it is:
the outcome `raised`.

`AriRpc` composes both with the robot (external: it notifies while a request
runs and ends it once) and states the properties.  `RpcPromise` is the abstract
promise of `execute()`: a request ends at most once, a result means that the
robot has answered this request, a `JsonRpcError` that it has refused it; the error of a
transport says nothing of it.
`AriRpc!Promise` is the refinement, mapping `pc` and `outcome` to the caller's
view and the robot's operation to its verdict.

### Ora: `TaskQueue`, `OraSync`, `OraProofs`

`TaskQueue` models both classes of `ora/queue.py` whole.  A job is the asyncio
task of one submitted coroutine and has the name of the call that submits it.
`Submit` and `Resume` are `_wait_for_queue` up to a suspension or a created
task; `Settle` is the done-callback `_on_task_done` with its abort and wake-up;
`Unblock` is the end of `await t` in `run_blocking` with its
`except CancelledError`; `Cancel` collects what `Task.cancel()` does to a call
in each of its states.  The shared future is `waiter`, which a cancelled waiter
leaves behind in a cancelled state: `set_result` on it raises, `log_errors`
swallows that, and every later wait raises at once.  `reported` and `asked` are
history variables.

`OraSync` puts the queue under the synchronous API: the loop runs only while a
method does (`foreground`); the first Ctrl-C cancels the method's task, the
second leaves the loop with the task still pending, and that task goes on under
whatever method runs next.  A job is an RPC under `_cancellation_guard`; an RPC
that is cancelled makes the arm `undefined` and raises
`CancellationNotSupported`.  Nothing tells the arm of it, so that it may be
moving for an `interrupted` RPC as for one `inflight` (`MayBeMoving`);
`NothingOnTop` says that no RPC is sent while the arm may be moving for anything
that is not `Awaited`.  A job may also end before it sends its RPC: its arguments
cannot be converted, or it is refused.  `RunsTheQueue` says that the runner only restricts
when the queue's steps are taken: it is the refinement of `TaskQueue`, under the
same variables.

### Evo: `EvoAllocator`, `EvoWatchers`, `EvoWatchersProofs`

`EvoAllocator` is `WatcherAllocator` as operators on the set of allocations:
the first unused region id of the fullest watcher that has room
(`FindGap`, `FreeId`).  The empty set is `NoFreeWatcherError`.

`EvoWatchers` is `RefCountedWatcher` and `WatcherManager` with the watcher
tasks and the RPCs they make.  `rpcs` is the queue for the (fair) RPC lock: its
head holds it.  `Execute` is what the robot does with a request and what the
caller does with the response up to its next suspension.  `pc[r]` says what the
block that holds `_open_close_lock` of region `r` is doing; `_allocator_lock` is
held by the region whose `pc` is one of `counter`, `region`, `clearing`,
`clearingCounter`.  A failing or cancelled RPC (`FailRpc`) may or may not have
been executed by the robot; one that is cancelled in the queue for the RPC lock
(`CancelQueued`) has not been sent.  `watch`, `snapshot`, `known` and `events` are the
watcher's task: the subscriptions it copied, the counter it read, and the
events it has yet to take apart; `ParsesAs` is `_parse_update_counter`, which
reads the right byte only if the event has the layout of the snapshot, and any
byte otherwise.  That the robot's counter advances with every region set up or
cleared is taken from the comment in `watchers.py` that relies on it.

### Evo: `EvoTypes`, `EvoPackets`, `EvoRpc`, `EvoRpcProofs`, `EvoAnswersProofs`, `EvoLongProofs`

`EvoTypes` and `EvoPackets` are the tables of `evo/protocol.py`: each wire type
with its width, the slices of its fields or the members of its enumeration;
each RPC with the layouts of its request and response, whether
`is_response_to` compares request ids, and its events with the fields
`is_event_of` compares; the packet ids; the arguments of each method; and the
memory map.  They are small next to the generated classes, which have the place
of each field three times: in `serialize`, in `deserialize` and, as widths, in
`data_width` and `expected_length`.  Those are alike in the code and one column
here, so that a disagreement between them is nothing the model could show.
`TypeFits`, `PacketFits`, `RpcAgrees`, `Short` and `Watchable` make a sound
transcription; TLC evaluates them as `TablesAssumption`, to catch slips in the
copying, and no property rests on them.

`EvoRpc` is `_rpc` and `_long_rpc` over the sessions of a BLE characteristic,
as the driver's operations use them.  `frames[c]` is the stack of RPCs that the
task `c` is in; `at` is the suspension the innermost one is at: opening its
events session (`subscribe`, `notifying`), waiting for the RPC `lock`, `write`,
`read`, a `long` RPC between its chunks, `abort` (leaving the lock with an
exception), the `body` of a motion, `stopping` around a StopExecution, and
closing the events session (`unsubscribe`, `stopnotify`).  `lockQueue`, `owner`
and `counter` are `RLock`; `notifyQueue`, `refcount` and `subscribed` the
characteristic.  `Cancel` is `Task.cancel()` at each of these suspensions, and
`NotifyFails` (of `start_notify` and `stop_notify`) and `WriteFails` are the
failures of the BLE stack; a request inside a long RPC that the robot refuses
fails an assertion and ends the long RPC as `WriteFails` does.  The
response session's turn at `_notify_lock` is a condition of its step and no
state of its own: it never holds the lock across an `await`, since the events
session of the same call is counted.  The robot handles requests in order; it
may refuse one whose response carries a status, and ends a motion when it
likes.  `loose` and `unheard` are history variables for the two things the
code does not promise: to stop a motion if it is cancelled before its response
is read or while it is being stopped, and to hear anything after a
`start_notify` that has failed.  The StopExecution of request 0 that opening the
driver sends comes before all calls and is left out.

### Evo: `EvoVelocity`, `EvoVelocityProofs`

`Evo.set_velocity`: the parent task and its two children, the driver's velocity
and a wait on an `asyncio.Condition`.  `lockQueue` is the condition's lock: a
wait gives back the lock that its parent has taken and takes it again under its
own name, and the parent releases whichever it finds.  `Notify`, `Resume` and
`Reacquire` are `asyncio.Condition`, with the detail that a wait that ends with
an exception notifies another waiter.  A wait that is cancelled queues for the lock
again, behind all others even if the lock had been given to it, unless it had run
on with it (`CancelWait`); a call cancelled between getting the lock and running
leaves it to the next (`Cancel`).

### Evo and line follower: `DataAccess`, `DataAccessProofs`

What is between a watcher and a program: `NativeDataWatcher.watch`,
`deduplicate_samples`, the conversion, `WatcherOutputContainerRunner` with its
`BackgroundTask`, and the iterator of the container.  A sample is its timestamp,
and `bad` the samples whose value the conversion raises on: which properties
can have one follows from the enumerations of `EvoTypes` and the cases of
`conversions.py` (`Handled`).  `stage`, `task` and `struck` are the block, its
background task and a cancellation of the block's task that has not been raised
yet.  Setting a region up and down is one step here that does not fail, and neither
does reading the initial value; `EvoWatchers` has the rest.

## 3. Runs

| Run | Module, cfg | Question | States |
|---|---|---|---|
| `ari_rpc` | `MCAriRpc`, `AriRpc.cfg` | A command and a watch on one connection, either transport, every cancellation: one writer at a time, notifications in order, context and answers consistent, cancelled requests stopped; no block hangs; `Promise` implemented; whatever writes raise. | 595,186 |
| `ora_queue` | `MCTaskQueue`, `TaskQueue.cfg` | Capacity, abort, reporting, wake-up and what a normal return means. | 136,647 |
| `ora_sync` | `MCOraSync`, `OraSync.cfg` | Ctrl-C, once and twice: nothing is sent on top of a motion that is out of hand, the undefined state stops the others, the prompt comes back, a waiting method sees room; the queue's steps are those of `TaskQueue`. | 81,845 |
| `evo_watchers` | `MCEvoWatchers`, `EvoWatchers.cfg` | Ids, bytes, reference counts and tasks, with a failure or cancellation anywhere; no block stays on a lock. | 625,817 |
| `evo_rpc` | `MCEvoRpc`, `EvoRpc.cfg` | Every RPC by itself and mixtures of up to three: one exchange at a time; responses are one's own; nobody waits for what has gone by; what is left is stopped; ids are unique; every call returns. | 260,290 |
| `evo_velocity` | `MCEvoVelocity`, `EvoVelocity.cfg` | The condition's lock comes back to its own call, and an overridden call returns. | 867,782 |
| `data_access` | `MCDataAccess`, `DataAccess.cfg` | Samples once, in order and at the iterator; the background's failure comes out of its block. | 582,572 |
| `late_answer`, `stale_snapshot`, `mismatch_stuck`, `velocity_cut_short`, `initial_sample` | | Findings 1 to 5. | |

All but the last line's hold; those five end in a counterexample.

### Bounds

* ARI: two calls, one command and one watch, and `MaxNotifications` = 2.  Two calls
  are enough for everything the code does between calls: one lock, one read
  task, one context.  Two notifications tell order and loss apart.
* Ora queue: four calls, two of each kind, on a queue of two (`Maxsize`): two
  jobs alive, two calls waiting, so that a wake-up of several, a lost race for
  a place and a shared cancelled future all happen.  Calls of one kind are
  symmetric.  The theorems below remove these bounds.
* OraSync: three methods on a queue of two; the code's queue holds three.  With
  a method at a time only second Ctrl-C's leave tasks behind, so three methods
  are what fills a queue of two and has one wait.
* Evo watchers: two watchers of three regions and three bytes, three regions of
  2, 2 and 1 bytes.  A watcher then has room for a large region and its counter, or
  for a small region, its counter and one byte more: everything that a packet
  of 16 bytes decides about gaps, fullest watchers and counters on a
  foreign watcher happens.  `MaxOpens` = 3 blocks, `MaxFaults` = 1 failure and
  `MaxEvents` = 1 unread event bound the state space.  One failure may fall
  on any RPC and at any wait, and is followed by enough further blocks to meet
  what it leaves behind: a leaked allocation, a counter without a task, a dead
  handle.  Combinations of two failures are not explored.
* Evo RPCs: `Programs` are each RPC alone, two of a kind for an unkeyed and a
  long one, three of a kind for an unkeyed one, a motion beside a long one, and
  three motions, two of them of a kind.  Three calls of one kind let a late
  answer be handed on from call to call. `MaxCancels` = 2, so that a stop can
  be cancelled too. `WriteChunks` = 2 is the fewest that can be torn apart; a
  long response is one chunk, as that of the only long RPC there is; and
  `LongResponseIsOwn` speaks of `MaxCancels` up to `WriteChunks`, see section
  4. `MaxRequestId` = 2 stands for 2^24 - 1: of three motions the third
  exhausts it.
* `EvoVelocity`: three calls, each cancelled at most once: one that runs, one
  that overrides it, and one that meets what they leave.
* `DataAccess`: two blocks of one property, `MaxSamples` = 1 change after the
  initial sample, `MaxEvents` = 2 events and `MaxCancels` = 1.  Two events of
  two samples each repeat one of them; one change is what tells the initial
  sample from a new one.

`CHECK_DEADLOCK FALSE` is in every configuration: calls, methods and blocks are
finite in number, and a program that has made them all and got its answers
stops.  That nothing stops earlier is what the liveness properties say.

### Fairness

* `AriRpc!FairSpec`: weak fairness of the steps `Task(c)`, what the event loop
  runs of a call without anyone asking: it goes on with a ready write, waiter,
  canceller or group.  A call has finitely many of them, so that one condition
  for all calls is enough.  The link acknowledges or fails every write (bleak's
  `write_gatt_char` returns or raises).  Nothing is assumed of the robot or of
  the program.
* `OraSync!SyncSpec`: weak fairness of each ready step while a method runs, and
  of the method's return.  Nothing is assumed of the arm, of the program, or of
  the user.
* `EvoWatchers!FairSpec`: weak fairness of the robot's answers (`Execute`), of
  each watcher's task taking its events apart, and of the regions that wait for
  a lock: some region gets a free `_allocator_lock`.  `asyncio.Lock` serves in
  order, which is more than is assumed.
* `EvoRpc!Spec`, `EvoVelocity!Spec`, `DataAccess!Spec`: weak fairness of
  `Works`, anything that the event loop, the BLE stack or the robot does by
  itself.  One condition for all is enough where every behaviour has
  finitely many such steps: it says that they do not stop before they are
  done, and leaves their order open.  `EvoRpc` counts the end of a motion among
  them (a motion that never ends is nobody's hang); `EvoVelocity` does not,
  as a velocity may last for ever.  Nothing is assumed of programs.

## 4. Findings

Each is a disagreement of the code with what the repository says of it, at the
end of a counterexample.

1. **A late error ends the connection** (`late_answer`).  An Error or
   Cancellation whose id the client's own cancellation has removed reaches
   `_context.pop(msg_id)`: the KeyError ends the read task, and the connection.
   For responses and notifications the same situation is logged and ignored.
2. **Snapshot before the read** (`stale_snapshot`).  The watcher's task copies the
   subscriptions, then awaits the counter.  A region set up in between is
   counted but not in the copy: events match and are taken apart wrongly.
3. **A mismatch is for ever** (`mismatch_stuck`).  An event older than the
   counter is peeked at in every cycle and never consumed; those behind it wait.
4. **A velocity is cut short** (`velocity_cut_short`).  The wait of a cancelled
   `set_velocity` queues for the condition's lock behind the next call.  When it
   gets it, it raises CancelledError, and `asyncio.Condition.wait` passes a
   notification on: to the wait of that next call, whose velocity is stopped
   although nobody overrides or cancels it.
5. **The initial sample is yielded** (`initial_sample`).  An event with an older
   sample is queued before the initial value has been read.  It differs from the
   initial value, is yielded and becomes the last timestamp, and the initial
   value, repeated in the next event, is yielded after it.

Other behaviours that the models contain, which no document rules out clearly
enough to be stated as a finding, or which are visible without a model:

* `execute()` subscribes its queues after the write has returned.  Over BLE the
  write suspends after the last chunk; what is read there is broadcast to
  nobody.  `AnswerNotLost` is therefore stated for WebRTC.
* A program task cancelled while its task group ends is cancelled again inside
  the write of the cancellation message; over BLE nothing, or half a frame, goes
  out.  `CancelStopsRobot` shows that this is the only way, a torn frame aside.
* The update counter of a watcher is allocated wherever `_find_free_gap` likes.
  When that is another watcher, `disable()` raises `StopIteration` and leaves
  the counter allocated.  No property speaks of it: `Allocated` and
  `TaskIsEnabled` hold all the same.
* `RefCountedWatcher` keeps its handle when `disable()` raises: `InsideIsWatched`
  holds until then.
* A `start_notify` that fails or is cancelled leaves its count, so that the
  following sessions hear nothing (`unheard`); a session that is cancelled while
  it waits to close stays counted, and notifications stay on.  `AnswersAreHeard`
  and `Returns` leave such executions out.
* A motion cancelled before its response has been read is not stopped, because
  `_cancellation` is entered only afterwards; nor is one whose stop is cancelled
  (`loose`).
* A response without a request id that is late is taken for the answer of the
  next request of its type.  It takes some earlier cancellation, and not one of
  the very next call's: whoever takes a late answer leaves its own behind, for
  the one after it (`ResponseIsOwn`).
* The RPCs that a long RPC is made of have no request id, and work on one memory
  of the robot.  If more calls are cancelled than a long request has chunks, the
  late answers can put a long RPC a whole request ahead of the robot.  With one
  chunk, three calls of ExecuteFile and two cancellations the data read do not
  match the checksum; with four calls and three cancellations a call reads all of
  another one's response, checksum included, and nobody notices.
  `LongResponseIsOwn` says that with no more cancellations than chunks this does
  not happen.
* The done-callback of a background task that has failed is already scheduled
  when `__aexit__` removes it: the task of the block is cancelled all the same,
  at its next suspension, outside the block (`FailureIsRaised` says only that the
  exception comes out).  And a cancellation that arrives
  while `__aexit__` awaits the task is suppressed.
* `surface_color_from_protocol` raises on yellow, magenta and cyan and
  `color_code_from_protocol` on the digits 3, 5, 6 and 7; the exception ends the
  watch with `FailureIsRaised`.
* The constructors of the types with nested structs (`RGBColorWithTimestamp`,
  `ProcessedRGBColor`, `HCLColorWithTimestamp`, `Line`, `LineWithRAW_8bit`,
  `LineSensorsCalibration`, `ColorSensorCalibration`, `WheelsSpeed`) call the
  nested type with one argument and raise; `Decodable` says that no watched
  property is one of them.

## 5. Proofs

Each theorem holds for every value of the constants that satisfies the named
assumptions; the runs show the same properties on small instances.

| Module | About | Theorems | Assumptions |
|---|---|---|---|
| `OraProofs` | `TaskQueue` | `TypeCorrect`, `Capacity`, `AbortComplete`, `ReportedOnce`, `Wakeup`, `BlockingDone`, `Invariance` | `BlockingAssumption`, `MaxsizeAssumption` |
| `OraProofs` | `OraSync` | `RunnerRunsTheQueue`, `SyncTypeHolds`, `NothingOnTopHolds`, `UndefinedStops` | those and `SyncAssumption` |
| `AriRpcProofs` | `AriRpc` | `TypeHolds`, `OneWriterHolds`, `PromiseHolds`, `CancelStopsRobotHolds`, `ContextTracksHolds`, `AnswerNotLostHolds`, `NotificationsHold` | `NoCallAssumption`, `WatchesAssumption`, `BoundAssumption` |
| `EvoRpcProofs` | `EvoRpc` | `RpcTypeHolds`, `OneRpcAtATimeHolds`, `KeysAreUniqueHolds` | `CallsAssumption`, `ProgramsAssumption`, `BoundsAssumption` |
| `EvoAnswersProofs` | `EvoRpc` | `AnswersAreHeardHolds`, `ResponseIsOwnHolds`, `EndedMeansStoppedHolds` | the same |
| `EvoLongProofs` | `EvoRpc` | `LongResponseIsOwnHolds` | the same |
| `EvoWatchersProofs` | `EvoWatchers` | `WatchersTypeHolds`, `AllocatedHolds`, `NoReuseHolds`, `InsideIsWatchedHolds`, `TaskIsEnabledHolds` | `CountAssumption`, `SizeAssumption`, `ContentAssumption`, `BoundAssumption`, `NothingAssumption` |
| `EvoVelocityProofs` | `EvoVelocity` | `LockIsBackHolds` | none |
| `DataAccessProofs` | `DataAccess` | `SamplesOnceHolds`, `FailureIsRaisedHolds` | `SampleAssumption` |

The assumptions say that a model value is not one of the things it stands
beside (`NoCall`, `Nothing`, `NoSample`), that bounds are natural numbers, that
the kinds of calls are among the calls, that no program asks for a StopExecution
by itself (`ProgramsAssumption`: only `_cancellation` sends one), that calls are
finitely many where they are counted, that a region takes at least one byte, and
that a long request has at least one chunk.

### `OraProofs`

Its first half proves, for every set of calls, every subset of blocking ones
and every positive queue size, all the properties of the run `ora_queue`.

The inductive invariant `IInv` is their conjunction and three facts that they
lack:

* `CallsPrecedeJobs`: a call that has not created its task has no job, so
  creating it neither loses a live job nor forgets a failed one; and only a
  call that has been left has a result.
* `RecordedIsDropped`: a recorded failure has left `pending`, so its callback
  does not record it a second time.
* `CancellationHasCause`: a cancelled job was cancelled on demand, or because a
  failure is recorded or has been raised.  Without it `BlockingMeansDone` has
  nothing to say when a swallowed cancellation returns normally.

`AbortIsComplete` needs `CapacityRespected` (an abort goes over `pending`, so
every live job must be in it), which needs `IsFiniteSet(pending)` from `TypeOK`
for its cardinalities.  There is a lemma for each action, and lemmas for what
several actions share: `SubmitCases` (validate, then raise, wait or create),
`RaiseGroupKeeps`, `LeaveKeeps`.

The second half is about `OraSync`.  `RunnerRunsTheQueue` is the refinement: a step of the runner, the arm or the user
is one of the queue (`Submit`, `Cancel`, `EndJob`, `Loop`) or leaves the queue
alone.  So the queue keeps under the runner what the first half shows of it,
and `Motions` needs only what the runner adds: an RPC under way has a live job,
an interrupted one has failed its job, and a call that is left has no live job.
`NothingOnTop` follows: `StartRpc` is refused once an RPC was interrupted, and
one under way has a job in `pending` and a call that has not come back.
`UndefinedStopsMotions` then rests on the queue: the abort of a failed job goes
over `pending`, which by `CapacityRespected` has every live job.

### `AriRpcProofs`

It proves, for every set of calls, every subset of watches and any number of
notifications, every safety property of the run `ari_rpc` and the refinement
of `RpcPromise`.  The argument has layers, each an inductive invariant over the
ones before.

* `Writing` (`OneWriter`, `WritersWrite`, `UnsentIsAbsent`): a frame is on its way
  only while its call is in a write, so that a call that begins one is not in the
  middle of another; and the robot does not know a request whose last chunk is
  not out, so that a request is sent once and no verdict is overwritten.  The
  lemmas `StartWriteMoves`, `GoOnWritingMoves` and `AbortWriteMoves` say what a
  step of a write does to its own frame, `MoveIsStep` and `QuietIsStep` that it
  is enough to look at the call that moves.
* `Truth` (`InboxIsTrue`, `ArrivedIsTrue`, `CauseIsTrue`): an answer on its way, an
  answer in a call's queues and the cause of a call's end are the robot's
  verdict on that very request.  `PromiseHolds` needs it where `Close` ends a
  call: its outcome is read from `cause`, two queues away from the robot.  A
  step of a call maps to `Submit`, `End` or a stutter, one of the robot to `Decide`
  or a stutter, every other one to a stutter.
* `Stops` (`LastChunkStops`, `OutcomeMeansDone`, `CancelStopsRobot`): a cancellation
  message whose last chunk is out has stopped the request, which is what the
  writer relies on when it is told of its end a suspension later.
* `Tracking` (with `OneAnswer`, `NeverSuspended`): of each request there is at most
  one answer on its way, so that reading it takes the last reason for its
  context entry; and over WebRTC a call is never suspended in a write, so that
  its queues are subscribed before an answer can be read.
* `Order`: the notifications on their way are those after the last one read up to
  the last one sent, each once and in order, and what a listening call has heard
  ends where the reading has got to.  `InFlightAfterMeans` turns the list
  that the property builds into a statement about positions of the inbox,
  which can be followed through a `Tail` and an `Append`.

### `EvoRpcProofs`

A task is in two RPCs at most, and where each of them is (`Where`) decides what
the task has of every shared thing.  `IInv` says so, one conjunct for each:

* `Stacks` and `Plain`: the shape of the two frames, the outer one at the point
  where its code makes the inner RPC, and a call that runs has frames.
* `LockInv`: the owner of the re-entrant lock and its counter are the frames
  between taking and giving it back, and the queue has those that wait.
  `OneRpcAtATime` is the part of it that a caller notices.
* `NotifyInv`, `SessionInv`, `HearInv`: who is in the queue of `_notify_lock`; that
  every open session is counted (one cut short can be counted for ever, so
  this is no equality); and that only the holder of that lock turns
  notifications on or off, with the count that is meant, so that they are on
  while sessions are counted, unless a start has failed.
* `KeyInv`: no id is given out twice or past the counter, and what the robot has
  in its inbox or executes is of calls that have got one that fits.

Each step is looked at twice, for what it does to its own stack and for what it
does to the shared thing; a call that does not move keeps its places.  The type
invariant follows from `IInv` and is no part of it.

### `EvoAnswersProofs`

Three invariants over `IInv`:

* `AwaitInv`: a call that waits for its response has its request among those the
  robot has still to handle.  A waiting call has two sessions counted, so
  nobody can be turning notifications off; that is why the answer is heard.  A
  `start_notify` that has failed is left out, as in the property.
* `OwnInv`: a keyed request in the inbox bears the id of its call, and no two calls
  share one, so a keyed response is one's own; and as long as nobody has been
  cancelled requests and answers take turns (`InTurn`), so an unkeyed one is.
* `MotionInv`: while the robot executes a motion, or will (`Moving`), its call is
  where it will see to it (`SeesTo`) or interrupted (`loose`); before the call
  has sent the request there is nothing to see to (`Before`), and a request that
  starts a motion is in the inbox ahead of the one that stops it
  (`InboxMotion`).  It uses `OwnInv`: the answer to a StopExecution that ends the
  wait is that of one's own, handled after the request.

### `EvoLongProofs`

`LongResponseIsOwn` is about two things that have nothing to do with each other
at first sight: how many calls have been cancelled, and whose bytes are in the
memory of the robot.  `LongInv` counts on both sides.

* `Balance`: a request in the robot's inbox that nobody waits for has been left
  there by a cancellation.  So with `Total` cancellations there are at most
  `Total` requests, and one more while a call waits.
* `InboxOrderly`: a long RPC under way has sent `Sent` nested requests.  Its own
  that are still in the inbox (`Placed`) are of different chunks, in order, with
  nobody else's behind them; and behind a request of somebody else there are all
  `Sent` of them, since each has taken an answer that was not meant for it.

With no more cancellations than chunks the two contradict each other as soon as
the answer to the execution comes (`AnswerIsLast`): the inbox would have to hold
a foreign request and all the chunks.  So that answer is the call's own, and it
is the last request in the inbox.  From then on (`Executed`) the memory is the
call's own (`Kept`) and what the call has been told and has read is what it
holds (`Remembers`); nobody else can write, as the lock is kept until the
response has been read.  `Orderly` is what this needs to know of the stack of a
call: a response is not there before the session for it is open, and a nested
RPC ends well only with a response.

`Total` is a fold over the calls.  What it is after one more cancellation
(`TotalAdds`) is proved as for the watchers below, from a smallest set of calls
for which it is wrong.

### `EvoWatchersProofs`

`IInv` is `Core /\ Watched /\ Ordered`.

* `Core` is about the client: `Books` (the allocations do not overlap and fit),
  `Listed` (subscriptions are in the books), `Counted` (who is inside is counted,
  and a region keeps its handle from `SetRegion` to the end of its `disable()`),
  `OneHolder` (one block holds `_allocator_lock`), `Planned` and `Asked` (only
  that block has a request for a region in the queue, the one of its plan).
* `Watched` is `NoReuseWhileSet` and `Kept`: what the robot has set up is in the
  books with its contents, and as long as no `disable()` has failed, the handle
  of an enabled region is subscribed to, set up and has a task.  A failing RPC
  may or may not have been executed; the books are written before the first
  request and cleared after the last, which is what the proof uses.
* `Ordered` follows the queue: a disable of a watcher that has a task again is
  followed by an enable, and a watcher with a task is enabled or about to be
  (`Lasts`).  It needs that the RPC lock is fair.

That what a watcher has used fits its packets is about a sum over a set, a fold.
The library's induction theorems cannot be used (section "Only model-checked"),
but well-foundedness of the naturals can: the lemmas about sums assume a smallest
counterexample and find a smaller one.  So what a sum is on a set with one
more element is proved, and so is `Allocated`.

### `EvoVelocityProofs`

`LockIsBack` speaks of the last moment before the release; the invariant follows
the lock through all suspensions before it.  `Orderly(c)` says which of the two
tasks of a call, itself or its wait, may stand in the queue of the lock at each
point, and that they never both do.  The queue has no entry twice, so that
`Tail` and `list.remove` leave nothing of a task behind that leaves it.

### `DataAccessProofs`

* `Flow`: from the buffer over the queue and the events to the robot's present
  sample, samples never overtake one another.
* `Account`: while the task has not ended, `last_timestamp` is the last sample
  pushed, or the initial one; and everything put in the queue is still there, has
  been pushed, or is the initial one.
* `Ended`: at which stages of its block the task can still run.

`SamplesOnce` needs both of the first: comparing a sample with the last one only
rules out all repetitions because the samples are in order.  Finding 5 is not in
its way: the initial sample becomes `last_timestamp` although older ones may be
in the queue, which is why `Flow` does not order `last_timestamp` itself.

### Where the models serve the proofs

`asyncio`'s lists are modelled by the positions they work on (`RemoveFirst` for
`list.remove`, `SelectInSeq` for the first waiter) and not by filters, whose
recursive definition no prover here can unfold; the states are the same.
Attempts at proofs have changed what is stated, too: `ResponseIsOwn` used to ask
for a cancellation of the call whose answer is taken, and is false for a third
call; `NotificationsInOrder` now says that nothing is missing in between;
`EvoRpc!Call` fails for lack of request ids only if its RPC takes one; and
`WriteChunks` is at least one (a serialized request begins with its message id,
so that the loop over its chunks in `_long_rpc` runs).

### Only model-checked

* Liveness (`CallsSettle`, `InterruptReturns`, `RoomIsNoticed`, `LocksAreReleased`,
  `Returns`, `OverriddenReturns`, `Delivered`), which with `ENABLED` is out of the
  prover's reach.
* What recursive definitions compute, apart from the sums above: the library's
  induction theorems take an operator as a parameter, which none of the
  installed provers can instantiate.

## 6. Not modelled

* The byte-level reassembly of BLE frames on the read side, opening and closing
  connections, the ARI health check (one `execute()` block with a timeout) and
  the navigation queues.
* Closing the watcher manager (it ends every block), and what follows when a
  watcher's task fails because its snapshot has no counter: in the model the
  task stops, in the code the manager's task group ends.
* The wrap-around of the robot's update counter at 256.
* Within `OraSync`, a Ctrl-C in the middle of a step: it is taken between two.
  The `frame()` and `tool()` context managers are two calls each.
* In `EvoRpc`, what scalars are on the wire, events other than the final one of
  a motion, and a BLE stack that loses a notification; `crc32` has no
  collisions.  Cancelling a task that is already cancelled and has not run yet.
* In `DataAccess`, a second container over the first (`DataWatcherProxy`), the
  intersection queue (`EventWatcher`), and the steps of enable and disable.
* Units, geometry and arithmetics of Ora and the line follower (floating
  point), data types, synchronous wrappers, which delegate one by one.
* The WebRTC channels and signalling: what is hard there is in aiortc and the
  signalling server, of which the source shows only the calls.
* The actors (sequential), message formatting, logging, the command line, user
  IO and browser glue: stateless, or a single request and answer.

## 7. Plan

*Done*: the ARI executor over its transports; the Ora queue and synchronous API;
the Evo watcher manager, RPC layer with its protocol tables, velocity override
and data access; proofs of every safety property of the passing runs.

What is left, in this order:

1. `EvoWatchers` over `EvoRpc`, by a refinement of its queue `rpcs`; each alone
   is at the size that a run can hold.
2. `DataWatcherProxy` in `DataAccess`; `BleFraming` (length-prefixed reassembly);
   `frame()` and `tool()` over the Ora queue; the actors' stack.
