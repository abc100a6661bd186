----------------------------- MODULE DataAccess -----------------------------
(***************************************************************************)
(* How samples of a watched property reach a program: NativeDataWatcher    *)
(* (ozobot/evo/driver/native.py) over deduplicate_samples and              *)
(* WatcherOutputContainerRunner (ozobot/linefollower/api/data_access.py),  *)
(* which converts and buffers them in a BackgroundTask                     *)
(* (ozobot/common/asyncutils.py), and the program that iterates over the   *)
(* buffer.                                                                 *)
(*                                                                         *)
(* A sample is its timestamp.  The robot repeats it in every event of its  *)
(* watcher.  Setting the region up and down is one step here; EvoWatchers  *)
(* has the rest.                                                           *)
(***************************************************************************)
EXTENDS EvoPackets, SequencesExt

CONSTANTS
  Watches,     \* watch() blocks, each in a task of its own
  Properties,  \* the properties they may watch
  NoSample,
  MaxSamples,  \* bound: samples of the property
  MaxEvents,   \* bound: events of its watcher
  MaxCancels   \* bound: blocks that their program cancels

ASSUME SampleAssumption == Properties \subseteq WatchedProperties /\ NoSample \notin Nat

VARIABLES
  property,  \* the property that is watched
  now,       \* robot: its current sample
  bad,       \* the samples that the conversion raises on
  sent,      \* robot: how many events it has sent
  events,    \* the events that have not been taken apart yet
  stage,     \* a block: idle, reading the initial value, starting its task,
             \* inside, disabling, joining its task, left
  output,    \* its queue of the subscription's broadcast
  last,      \* last_timestamp of its deduplicate_samples
  task,      \* its background task: none, created, running, failed, reported, over
  buffer,    \* its container
  yielded,   \* how many samples its iterator has yielded
  waiting,   \* its iterator waits for the container's condition
  struck,    \* Task.cancel() of the block's task that has not been raised yet
  outcome,   \* how the block has ended: open, normal, cancelled, raised
  initial,   \* history: the value it has read to skip
  fed,       \* history: the samples that have been put in its queue
  cancelled, \* history: the blocks that their program has cancelled
  kept       \* history: a cancelled disable() has left the region set up

robotVars == << property, now, bad, sent >>
blockVars == << stage, struck, outcome, kept >>
taskVars == << task, last, buffer >>
historyVars == << initial, fed, cancelled >>
vars == << robotVars, events, output, blockVars, taskVars, yielded, waiting, historyVars >>

-----------------------------------------------------------------------------
(* The conversions (ozobot/evo/conversions.py).                            *)

\* The values each of them handles, by the names or the digits of the protocol.
\* A colour code is a number of octal digits.
Handled ==
  [colorCode |-> {0, 1, 2, 4},
   surfaceColor |-> {"Black", "Blue", "Green", "Red", "White", "Unknown"},
   lineColor |-> {"Black", "Blue", "Green", "Red", "Unknown"},
   chargerState |-> {"Connected", "Disconnected", "LowPower"}]

\* The values that a property can have.
Values(p) ==
  CASE p = "colorCode" -> 0 .. 7
    [] p = "surfaceColor" -> DOMAIN Types.SurfaceColorEnum.members
    [] p = "lineColor" -> DOMAIN Types.LineColorEnum.members
    [] p = "chargerState" -> DOMAIN Types.ChargerStateEnum.members

\* A conversion raises on the others; button, infrared messages and proximity
\* are passed on as they are.
CanRaise(p) == p \in DOMAIN Handled /\ ~(Values(p) \subseteq Handled[p])

\* skip_initial_value
Skips(p) == p = "colorCode"

-----------------------------------------------------------------------------
Init ==
  /\ property \in Properties
  /\ now = 0 /\ sent = 0
  /\ bad \in IF CanRaise(property) THEN {{}, {0}} ELSE {{}}
  /\ events = << >>
  /\ stage = [w \in Watches |-> "idle"] /\ output = [w \in Watches |-> << >>]
  /\ last = [w \in Watches |-> NoSample] /\ task = [w \in Watches |-> "none"]
  /\ buffer = [w \in Watches |-> << >>] /\ yielded = [w \in Watches |-> 0]
  /\ waiting = [w \in Watches |-> FALSE] /\ struck = [w \in Watches |-> FALSE]
  /\ outcome = [w \in Watches |-> "open"]
  /\ initial = [w \in Watches |-> NoSample] /\ fed = [w \in Watches |-> {}]
  /\ cancelled = {} /\ kept = FALSE

-----------------------------------------------------------------------------
(* The robot and the WatcherManager.                                       *)

Subscribed == {w \in Watches : stage[w] \in {"reading", "starting", "inside"}}
RegionSet == kept \/ \E w \in Watches : stage[w] \in {"reading", "starting", "inside", "disabling"}

\* The property changes; the conversion may not handle its value.
Sample ==
  /\ now < MaxSamples
  /\ now' = now + 1
  /\ bad' \in IF CanRaise(property) THEN {bad, bad \cup {now + 1}} ELSE {bad}
  /\ UNCHANGED << property, sent, events, output, blockVars, taskVars, yielded, waiting, historyVars >>

\* The watcher sends its regions, because this one has changed or another has.
Emit ==
  /\ RegionSet /\ sent < MaxEvents
  /\ sent' = sent + 1
  /\ events' = Append(events, now)
  /\ UNCHANGED << property, now, bad, output, blockVars, taskVars, yielded, waiting, historyVars >>

\* _send_parsed_data: the next event goes to all blocks that are subscribed.
Broadcast ==
  /\ events # << >>
  /\ events' = Tail(events)
  /\ output' = [w \in Watches |->
       IF w \in Subscribed THEN Append(output[w], Head(events)) ELSE output[w]]
  /\ fed' = [w \in Watches |->
       IF w \in Subscribed THEN fed[w] \cup {Head(events)} ELSE fed[w]]
  /\ UNCHANGED << robotVars, blockVars, taskVars, yielded, waiting, initial, cancelled >>

-----------------------------------------------------------------------------
(* The background task.                                                    *)

\* _run sets _task_running.
Start(w) ==
  /\ task[w] = "created"
  /\ task' = [task EXCEPT ![w] = "running"]
  /\ UNCHANGED << robotVars, events, output, blockVars, last, buffer, yielded, waiting, historyVars >>

\* Repeated samples pass: a mutant of IsNew.
IsNewAlways(w) == TRUE

\* deduplicate_samples: the next sample has another timestamp than the last.
IsNew(w) == Head(output[w]) # last[w]

\* The iterator is not notified: a mutant of Push.
PushSilently(w) ==
  /\ buffer' = [buffer EXCEPT ![w] = Append(@, Head(output[w]))]
  /\ UNCHANGED waiting

\* WatcherOutputContainer._push
Push(w) ==
  /\ buffer' = [buffer EXCEPT ![w] = Append(@, Head(output[w]))]
  /\ waiting' = [waiting EXCEPT ![w] = FALSE]

\* One sample through _iter, deduplicate_samples, the conversion and _push.  An
\* exception of the conversion ends the task.
Pump(w) ==
  /\ task[w] = "running" /\ output[w] # << >>
  /\ output' = [output EXCEPT ![w] = Tail(@)]
  /\ last' = [last EXCEPT ![w] = Head(output[w])]
  /\ \/ ~IsNew(w) /\ UNCHANGED << task, buffer, waiting >>
     \/ IsNew(w) /\ Head(output[w]) \notin bad /\ Push(w) /\ UNCHANGED task
     \/ /\ IsNew(w) /\ Head(output[w]) \in bad
        /\ task' = [task EXCEPT ![w] = "failed"]
        /\ UNCHANGED << buffer, waiting >>
  /\ UNCHANGED << robotVars, events, blockVars, yielded, historyVars >>

\* BackgroundTask._on_task_done keeps the exception and cancels the block's task.
\* It is scheduled when the task is done, so remove_done_callback is too late for
\* it: a block that has ended meanwhile is cancelled all the same.
OnTaskDone(w) ==
  /\ task[w] = "failed"
  /\ task' = [task EXCEPT ![w] = "reported"]
  /\ struck' = [struck EXCEPT ![w] = TRUE]
  /\ UNCHANGED << robotVars, events, output, stage, outcome, kept, last, buffer, yielded, waiting, historyVars >>

-----------------------------------------------------------------------------
(* The block.                                                              *)

Goto(w, s) == stage' = [stage EXCEPT ![w] = s]

\* watch(): the region is set up and its broadcast subscribed to.
Enter(w) ==
  /\ stage[w] = "idle" /\ \A v \in Watches : stage[v] # "disabling"
  /\ IF Skips(property)
     THEN Goto(w, "reading") /\ UNCHANGED task
     ELSE Goto(w, "starting") /\ task' = [task EXCEPT ![w] = "created"]
  /\ UNCHANGED << robotVars, events, output, struck, outcome, kept, last, buffer, yielded, waiting,
                  historyVars >>

\* _read_raw has returned the value to skip.
ReadInitial(w) ==
  /\ stage[w] = "reading" /\ ~struck[w]
  /\ last' = [last EXCEPT ![w] = now] /\ initial' = [initial EXCEPT ![w] = now]
  /\ Goto(w, "starting") /\ task' = [task EXCEPT ![w] = "created"]
  /\ UNCHANGED << robotVars, events, output, struck, outcome, kept, buffer, yielded, waiting, fed,
                  cancelled >>

\* start() returns, once the task runs.
Started(w) ==
  /\ stage[w] = "starting" /\ task[w] # "created" /\ ~struck[w]
  /\ Goto(w, "inside")
  /\ UNCHANGED << robotVars, events, output, struck, outcome, kept, taskVars, yielded, waiting,
                  historyVars >>

\* The program iterates: a sample from the buffer, or it waits for the next.
Iterate(w) ==
  /\ stage[w] = "inside" /\ ~struck[w] /\ ~waiting[w]
  /\ IF yielded[w] < Len(buffer[w])
     THEN yielded' = [yielded EXCEPT ![w] = @ + 1] /\ UNCHANGED waiting
     ELSE waiting' = [waiting EXCEPT ![w] = TRUE] /\ UNCHANGED yielded
  /\ UNCHANGED << robotVars, events, output, blockVars, taskVars, historyVars >>

\* BackgroundTask.__aexit__ up to its await: a task that is not done is cancelled,
\* and it ends without another sample.
CancelTask(w) ==
  task' = [task EXCEPT ![w] = IF @ \in {"created", "running"} THEN "over" ELSE @]

\* The body is over: unsubscribe, and disable the region if no other block has
\* it.
Exit(w, how) ==
  /\ outcome' = [outcome EXCEPT ![w] = how]
  /\ struck' = [struck EXCEPT ![w] = FALSE] /\ waiting' = [waiting EXCEPT ![w] = FALSE]
  /\ IF Subscribed = {w}
     THEN Goto(w, "disabling") /\ UNCHANGED task
     ELSE Goto(w, "joining") /\ CancelTask(w)
  /\ UNCHANGED << robotVars, events, output, kept, last, buffer, yielded >>

\* The program has seen enough.
Break(w) ==
  /\ stage[w] = "inside" /\ ~struck[w] /\ ~waiting[w]
  /\ Exit(w, "normal") /\ UNCHANGED historyVars

\* The cancellation is raised where the block's task is suspended.
Interrupt(w) ==
  /\ stage[w] \in {"reading", "starting", "inside"} /\ struck[w]
  /\ Exit(w, "cancelled") /\ UNCHANGED historyVars

\* disable() ends; a cancellation meanwhile may leave the region as it is.
Disabled(w) ==
  /\ stage[w] = "disabling"
  /\ Goto(w, "joining") /\ CancelTask(w)
  /\ IF struck[w]
     THEN /\ outcome' = [outcome EXCEPT ![w] = "cancelled"]
          /\ struck' = [struck EXCEPT ![w] = FALSE]
          /\ kept' \in {kept, TRUE}
          /\ UNCHANGED events
     ELSE kept' = FALSE /\ events' = << >> /\ UNCHANGED << outcome, struck >>
  /\ UNCHANGED << robotVars, output, last, buffer, yielded, waiting, historyVars >>

\* Only an exception that has been reported is raised: a mutant of Joined.
JoinedQuietly(w) ==
  /\ stage[w] = "joining"
  /\ Goto(w, "left")
  /\ outcome' = [outcome EXCEPT ![w] = IF task[w] = "reported" THEN "raised" ELSE @]
  /\ UNCHANGED << robotVars, events, output, struck, kept, taskVars, yielded, waiting, historyVars >>

\* __aexit__ ends: awaiting the task raises its exception; a cancellation of the
\* block's task, which Cancel leaves out here, would be suppressed.
Joined(w) ==
  /\ stage[w] = "joining"
  /\ Goto(w, "left")
  /\ outcome' = [outcome EXCEPT ![w] = IF task[w] \in {"failed", "reported"} THEN "raised" ELSE @]
  /\ UNCHANGED << robotVars, events, output, struck, kept, taskVars, yielded, waiting, historyVars >>

\* The program cancels the block's task.
Cancel(w) ==
  /\ w \notin cancelled /\ Cardinality(cancelled) < MaxCancels
  /\ stage[w] \in {"reading", "starting", "inside", "disabling"}
  /\ cancelled' = cancelled \cup {w}
  /\ struck' = [struck EXCEPT ![w] = TRUE]
  /\ UNCHANGED << robotVars, events, output, stage, outcome, kept, taskVars, yielded, waiting, initial, fed >>

-----------------------------------------------------------------------------
Runs(w) ==
  \/ Start(w) \/ Pump(w) \/ OnTaskDone(w)
  \/ ReadInitial(w) \/ Started(w) \/ Iterate(w)
  \/ Interrupt(w) \/ Disabled(w) \/ Joined(w)

Works == Broadcast \/ \E w \in Watches : Runs(w)

Next ==
  \/ Sample \/ Emit
  \/ \E w \in Watches : Enter(w) \/ Break(w) \/ Cancel(w)
  \/ Works

\* The event loop runs the tasks that are ready.  (No behaviour takes infinitely
\* many of these steps, so they all come to an end.)
Spec == Init /\ [][Next]_vars /\ WF_vars(Works)
-----------------------------------------------------------------------------
(* Properties.                                                             *)

\* However often the robot repeats its samples, a block buffers them in their
\* order and each of them once; and it misses none that has come in since it was
\* entered, but for the initial one that it skips.
SamplesOnce ==
  \A w \in Watches :
    /\ \A i, j \in DOMAIN buffer[w] : i < j => buffer[w][i] < buffer[w][j]
    /\ task[w] \in {"created", "running"} =>
         fed[w] \subseteq Range(buffer[w]) \cup Range(output[w]) \cup {initial[w]}

\* The exception of the background task comes out of its block, whatever else
\* the program does at that moment and wherever the block is on its way out; and
\* nothing else makes it raise.
FailureIsRaised ==
  \A w \in Watches :
    stage[w] = "left" => (outcome[w] = "raised" <=> task[w] \in {"failed", "reported"})

\* A program that stays in its block gets every sample: its iterator never waits
\* beside a full buffer, and it does not wait for a task that has ended.
Delivered ==
  []<>(\A w \in Watches : stage[w] = "inside" =>
        /\ task[w] = "running" /\ ~struck[w]
        /\ output[w] = << >> /\ yielded[w] = Len(buffer[w]))

\* data_access.py: initial_value is "an initial value that is not yielded by the
\* iterator".
InitialIsSkipped ==
  \A w \in Watches : initial[w] # NoSample => initial[w] \notin Range(buffer[w])
=============================================================================
