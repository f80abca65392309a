# simulus in TLA+

simulus is a process-oriented discrete-event simulator in Python. Its core is
small, but nearly every call of it may suspend the caller and resume it in a
world that has changed: processes are greenlets that are woken by traps, events,
semaphores, time limits and each other, may be killed at any time, and leave
registrations and timers behind that somebody has to take back. Groups of
simulators run in parallel under a conservative window protocol.

These modules model that core, TLC checks them on small instances, and TLAPS
proves for all instances the safety properties of the event list, the scheduler,
the simulator, the semaphores, the resource, buckets and stores, the mailboxes and
the window protocol of a group, and that the simulator, the semaphores, the resource and the mailboxes
schedule their processes as the scheduler does. Line numbers refer to
`src/simulus/`.

## Inventory

| component | source | state | operations | hard because |
|---|---|---|---|---|
| event list | event.py | `_PQDict_`: heap of entries, position of every event; `last` | insert, update, cancel, delete_min, renew | removals and time changes in the middle of the heap, equal times, events rescheduled while on the list |
| process scheduler | process.py, simulator.py 1126-1171 | process states, ready queue, current process | activate, invoke, suspend, sleep, terminate, kill, event loop | wakeups from every side; a process may die between wakeup and turn |
| simulator | simulator.py | clock, event list, scheduler | sched, cancel, resched, process, kill, sleep, wait, run, step | a conditional wait is registered in several places, and the answer, the limit and a kill race |
| trap | trap.py, trappable.py | state, blocked processes | wait, trigger, try/commit/cancel wait | attached to events and processes, which trigger it themselves; renewed with a repeating event |
| semaphore | semaphore.py | value, queue | wait, signal, conditional wait, priorities | value and queue change in different calls; four disciplines; the queue reorders itself |
| resource | resource.py | a semaphore; arrivals, services | acquire, release, conditional acquire | counts must survive time limits and multiple waits |
| bucket | bucket.py | level, two semaphores, amounts by process | get, put, getter, putter | processes are promised an amount when unblocked and take it when they resume |
| store | store.py | a bucket of countable amounts, the objects, what it holds | get, put, getter, putter | as the bucket; objects leave in another order than promises are made; the first put decides what a store holds |
| mailbox | mailbox.py | messages and trap of every partition | send, recv, receiver, retrieve, callbacks | one delivery releases all receivers; the trap is replaced |
| synchronized group | sync.py | partitions, queues, message buffers, windows, stops registered for the exit | constructor, run, send, report, child processes, commands of other ranks, exit | several OS processes exchange untagged values; a fork copies unsent messages; windows must not be too long; ranks have to meet in the same collective calls |
| SPMD runtime | simulus.py | MPI ranks, names | bcast, allreduce, alltoall, gather | a broadcast may be received much later, the other calls meet |
| statistics | utils.py, samples in the facilities | marks, data series, time series | push, averages | levels and times come from samples of their own at different places |
| reports | simulator.py, sync.py | counters | show_runtime_report | figures come from processes and ranks at different times |

How they interact: user code (the main program, an event handler, or a process)
calls the simulator. Facilities (trap, semaphore, resource, bucket, store,
mailbox) are *trappables* with four internal calls, `_try_wait`, `_commit_wait`,
`_cancel_wait` and `_true_trappable`, which `simulator.wait` uses for one or
several of them, all or any, with or without a time limit. They wake processes
by `activate`, which appends to the ready queue. The event loop takes the
earliest event, lets its handler or its process run, and then empties the ready
queue. A synchronized group calls `_run` of its simulators for one window at a
time, and exchanges messages between windows.

What makes each correct: events come out in timestamp order and none is in the
past; a process is in the ready queue at most once, never runs after it died,
and always gets its turn; a process that waits is registered exactly with what
it waits for, has exactly the timer it needs, and is resumed when its condition
holds or at its limit and is told the truth about what happened; signals,
servers, amounts and messages are neither lost nor duplicated; no message
arrives in the past of its receiver; every parallel run ends.

## Modules

    EventList  <-implements-  PQDict
        ^ INSTANCE
    Simulator -INSTANCE-> Sched <-INSTANCE- Semaphore <-INSTANCE- Resource <-EXTENDS- ResourceStats
                            ^ INSTANCE                                                    | EXTENDS
                Mailbox, Bucket <-EXTENDS- Store            Sync                     Statistics

* **EventList** is what the event list promises: a function from pending events
  to their times, of which the earliest is taken. `DeleteMinAndRenew` is what
  `_process_one_event` does with a repeating event, `AdvanceTo` what `_run` does
  to `last`. An abstract specification.
* **PQDict** is the indexed binary heap under it: `_PQDict_` with its own sink
  (down to a leaf and up again, as in heapq), swim, deletion from the middle by
  the last entry, and `resched`, which changes the time of an event before the
  heap is told. The entries are kept as in the code; sink and swim, which are
  loops, are given by the path they follow. It implements EventList (the heap and
  the times are mapped to the function of pending events).
* **Sched** is the process scheduler without time: process states, the ready
  queue, and who has the control (`cur`: the main program, the loop that looks
  for an event, a handler, the loop that empties the queue, or a process). An
  action that wakes processes takes the batch it wakes, in order, as a
  parameter, because what wakes whom belongs to the facilities. The abstract
  specification the other modules step by: their actions conjoin those of Sched.
* **Simulator** composes both with the clock, traps, process creation, sleep,
  kill, termination, events with attached traps, events that repeat (the interval
  is an argument of `Sched`), the conditional wait, `run` and `step`. User code is arbitrary: at every point
  where it has the control it may make any call. A call that cannot block is
  one step. A call that blocks is two: up to where it gives the control away,
  and from where it gets it back (`SleepReturn`, `TrapWaitReturn`, `WaitReturn`,
  and `WaitAgain` where the condition is still not met). `acting` is
  `acting_trappables`; it is a set, as duplicates have no effect. The calls of this
  module that are refused by an exception change nothing and have no step.
* **Semaphore** has several semaphores with a queuing discipline each, direct and
  conditional waits for one or several, priorities that change and kills. Time
  is left out: a process has an event or not (`timer`), and the loop may take
  any of them, so all orders of the events are covered. The queue keeps the
  order the code leaves it in: for SIRO and PRIORITY the chosen place is
  overwritten by the last entry.
* **Resource** is a semaphore with the records behind `num_in_service` and
  `num_in_queue`. Its actions conjoin those of Semaphore. A process may acquire again
  while it has a server: the code keeps one record per process, so the records lose
  sight of the second server. `held` (the servers each process has) and `again` (who
  did that) are history variables. A `release` by a process without both records
  raises KeyError and has no step.
* **Statistics, ResourceStats**: Statistics has the collectors of utils.py as
  operators on records, with means and variances as exact rationals in lowest
  terms. ResourceStats extends Resource: each step of the resource is conjoined
  with the samples that `_make_arrival`, `_make_service`, `_make_renege` and
  `_make_departure` take in it, in their order, and the clock may move whenever the
  event loop takes an event. A conditional wait that succeeds at once samples an
  arrival and a service in one step. Here a process holds one server at a time
  (`Once`): with two, the time of its first arrival is overwritten, and no figure is
  about it any more.
* **Bucket** has several buckets. Getting and putting mirror each other in the code,
  so one action has the side as parameter; a *place* is a bucket and a side, with
  the queue of its private semaphore. That semaphore is signalled only for
  processes known to be in its queue, so the module keeps the queues only. A direct
  call is a list of one item, a conditional wait a list of items of several buckets,
  all or any. `Unblockable` is the loop that unblocks the other side, `Resumed` what a
  resumed process finds itself unblocked for, `Withdrawn` what it gives up.
  `barged` is a history variable: the buckets where somebody got or put something, or
  one of several processes unblocked together unblocked others, while a process
  unblocked there had not resumed. `left` are the places a process was killed in, and
  `abandoned` those that someone gave up since the last get or put on the other side.
* **Store** extends Bucket, whose buckets are the stores, and adds the objects: a producer brings them when it
  arrives (`offer`), they enter at its departure and are dropped when it reneges; a
  consumer takes the oldest ones. Objects are numbered in the order they are
  brought, with a history of those taken and dropped. `mode` is what the first put
  decides. An object taken from an empty store is an IndexError, which ends the run
  (`failed`). A put that does not agree with what the store holds is refused
  (`Refuse`), but only after its record is written, and in a conditional wait after
  the items before it are recorded and queued (store.py 484 before 485-498). A process
  may catch the error and go on; its records stay until its next call at the same
  place replaces them. `stale` is the history of them. Where it is left in a queue as well,
  which only a conditional wait can do, the model takes the error to end the run
  (`raised`).
* **Mailbox** has partitions with their messages and the processes blocked on the
  current trap of each; messages on their way are delivered, or cancelled, in any
  order. A delivery releases all receivers and renews the trap, so a process that
  was released has the partition in `acting` and is on no trap any more. The
  callbacks are what user code does in the handler of the delivery.
* **Sync** has the processes of a group as actors. A process is a pair of a rank and
  a number; each is at a place `pc` of `_smp_run`, with one FIFO queue (`queue`).
  Broadcasts of rank 0 are messages that every other rank takes in order (`cmds`). In
  the other collective calls all ranks take one joint step: `Agree` (the limit),
  `Announce` (the window), `Distribute` (alltoall), `Reported` (gather). Without MPI
  there is one rank, which meets itself. The constructor is the phase in which the
  clocks of the simulators are brought together; `Run`, `Command` and `ChildCommand`
  are the three ways in which a run starts; `ShowReport`, `Tell`, `Sum`, `Reported` are
  the report; `RunFinish` and `Join` the exit, once for every run. Simulators are a
  clock and an event list, and do what `_run(horizon, True)` does. The settings of the
  group (ranks, `enable_smp`, ways) are chosen in the initial state, and `Split`
  divides the simulators as the code does. `future` and `buf` are `_remote_future` and
  `_remote_msgbuf`.
* **PQDictProofs, SchedProofs, SimulatorProofs, SemaphoreProofs,
  MailboxProofs, ResourceProofs, BucketProofs, SyncProofs** hold the theorems, each about
  the module it extends; PQDictProofs also those about EventList, and BucketProofs those
  about Store. SchedProofs begins with the
  lemmas that the others share about sequences and counts: appending, removing from the
  middle, and replacing the chosen place by the last entry.
* **MC\*** give the constants their values for TLC. Definitions that a comment
  calls a seeded mistake are plausible bugs of the definition that follows them;
  each of them breaks a property, which shows that the property has teeth.

PROJECT.json maps every definition to its lines.

## Runs

Every property below is stated in words above its definition.

| run | what it shows | bounds |
|---|---|---|
| pqdict | The heap order and the positions survive every operation, and the heap implements EventList. | 6 events, times to 2 (1070 states) |
| sched | No process is queued twice, runs without a place, comes back from death or starves. | 3 processes; fairness (1456 states) |
| sim_core | Nine properties of the simulator: causality, the clock never goes back, internal triggers never hit a triggered trap, timers and registrations match the calls, no lost wakeup, calls return what they promise; Simulator implements EventList and Sched. | 2 processes, 1 trap, 1 event with interval 1 or none, waits for `<<trap, event>>` and for either process, times to 1 and infinity (710 000 states) |
| sem_two | The value counts the queue, signals are conserved, queues hold exactly those who wait, no wakeup is lost. | 2 processes, a LIFO and a SIRO semaphore, 2 signals each, kills (460 000 states) |
| resource | No server is made or lost, and the numbers in service and in queue are exact, but for those who acquire twice, whose records are short. | 3 processes, 2 servers, PRIORITY with two priorities, acquiring twice, kills also of processes in service, 2 releases (1 400 000 states) |
| resource_stats | Little's law between levels and times at every moment; one-pass figures are exact. | 3 processes, 1 server, FIFO, 4 arrivals, 2 releases, times to 3 (420 000 states) |
| store | Promises are kept, queues and records match calls but for the records of refused ones, no process is left blocked, objects are conserved, no consumer finds a store empty; and so for buckets. | 3 processes, a store of capacity 2 that starts empty and one of capacity 1 with an object, FIFO and LIFO, waits for all and any of both, limits and kills, 5 objects, one process with records of a refused call (750 000 states) |
| mailbox | No receiver is left blocked, every process is exactly on the traps it waits on, messages are taken once and in order. | 2 processes, 2 partitions, 2 messages, kills (550 000 states) |
| sync | No message arrives in the past, clocks advance together, queues and broadcasts stay in step, messages are delivered exactly once, reports are exact, every run returns, all processes end. | 3 simulators in one process, two processes, two ranks, or two ranks with three processes; 1 event, 2 messages, 2 runs, times to 2 (720 000 states); fairness |
| sem_kill, bucket_level, sync_nolook | Violated: see below. | small |

Why the bounds are enough. Six events make a heap of three levels, so a deletion
in the middle may have to move the replacing entry up or down. Two processes are
needed for one to be woken, killed or terminated by the other while it waits;
times 0, 1 and infinity distinguish now, later and never, and put an answer and
a time limit at the same time. A wait for a trap and an event and those for a
process cover the three sources of an attached trap; user lists of two
trappables give all and any different meanings. With interval 1 an event recurs
within the bound, so that its trap is renewed and waited for again. In the resource
there is one process more than can be served at once, and one process may hold both
servers while the others queue; with the statistics, two can queue, renege and arrive
again at different times. In the stores three processes are a caller and two that are unblocked by one call; a get
of 2 needs two puts; one wait spans both stores; puts with and without objects meet a store of the other
kind and are refused, directly and as the second item of a conditional wait whose
first item fits or has to wait; one process with records of a refused call is enough for
the others to serve a queue while they are there, and for that process to call again.
In the mailbox two receivers of one partition are enough for one to take the message
and wait on the new trap before the other resumes, and two partitions for a wait
that is released by one of them and has to leave the other. In
Sync one process has two simulators and one has one, one simulator has no
mailbox, the minimum delays differ, the clocks differ before the group is created,
the longest run has several windows, a second run follows with messages left
over, and one of two ranks has a child and the other has none.

### Bounds that are only there for TLC

`MaxTime` bounds the times user code uses (EventList, PQDict, Simulator, ResourceStats, Sync);
Simulator treats every later time as infinite (`AtMost`). `Evts` and `Procs` of
Simulator, and `Evs` and `Msgs` of Sync, are each used once, which bounds how
much happens, as are `Msgs` of Mailbox. `MaxSignals` bounds the signals of a semaphore,
`MaxArrivals` the arrivals at a resource, `MaxObjs` the objects of all stores, `MaxStale`
the processes that have records of a refused call in a store at one time, `MaxRuns`
the runs of a group. No run uses a state
constraint. Symmetry is only used in runs without temporal properties that
need fairness.

### Fairness

`Sched!FairSpec`: the event loop goes on while it can (it is a plain loop), and a
process that has the control gives it up. The second is an assumption about user
code, without which nothing can be promised in a cooperative scheduler. The main
program need not call `run` again, and handlers need not wake anyone.
`Sync!FairSpec`: as long as some process of some rank can take a step, or all ranks
can take a joint one, some step is taken. That is less than an operating system
gives; a blocked `Queue.get` or collective call is a step that is not enabled. The
programs of the ranks other than 0 come to their call of `run`, which the examples
of the repository do (examples/advanced/phold.py 116-135). The main program need not
start another run, ask for a report or end.

## Theorems

All theorems hold for every value of the constants that meets the assumption
of the component's module, which TLC evaluates in the runs: `SimAssumption`,
`SemAssumption`, `ResAssumption`, `BucketAssumption`, `MailboxAssumption` and
`SyncAssumption` (which asks of every group that no simulator is on two ranks or twice on one, and that no rank
is without, as the constructor does), and for Sched
`ProcsAssumption` (finitely many processes, none called like a place of the loop),
which the others contain. For EventList it is the hypothesis `TimeAssumption` of
its theorems, which follows from `HeapAssumption` of PQDict. Two theorems have a
hypothesis of their own, see `Distinct` and `Kills` below.

* **PQDictProofs**: `HeapAlwaysOrdered`, `PositionsAlwaysExact` and
  `ImplementsEventList`, for heaps of any size. Sink and swim are recursive functions over
  the places of the heap, and the prover has no induction principle for them; the proofs
  make their own. Every set of natural numbers has a least member (`AllNat`), so there
  is no least place where a claim fails; and a recursion whose calls go to lower ranks
  has a solution (`Recursion`), so that the paths of both are what their definitions say.
  A path up, or down to a leaf, is a chain of places
  (`ClimbSteps`, `FallStep`), along which the entries move by one (`UpMoved`,
  `DownMoved`). The order is broken at one place only while an entry is on its way:
  swim repairs it when nothing below is out of order (`SwimSorts`), and sink brings
  every larger entry below it up and ends where swim can start (`SinkSorts`, `SettleSorts`).
  Each operation of the dictionary is then one of these (`AddedProps`,
  `VacatedProps`, `RemovedProps`, `PoppedProps`). That the root is the earliest event
  (`FirstIsEarliest`) is the same argument again, along the path to the root, and makes
  delete_min the `DeleteMin` of EventList. `TypeCorrect`, `NoPastEvents` and `InOrder` are
  about EventList itself: the inductive invariant adds to the type that `last` is no later
  than any pending event; the type of `last` is needed because `AdvanceTo` assigns it a
  limit that is no event. `InOrder` follows from `[last <= last']_vars` on the invariant.
* **SchedProofs**: `TypeCorrect`, `NeverQueuedTwice`, `NoWakeupLost`,
  `DeadStayDead`. None of the properties is inductive: that a suspended process
  may be appended to the queue without a duplicate needs that every process in
  the queue is running or terminated, and that needs that the current process is
  not in the queue and that a killed process is left where it is. The invariant
  is their conjunction; lemmas say what a batch of wakeups does to queue and
  states (`WakeProps`, `WakeIInv`), and one step per action uses them.
* **SimulatorProofs, first part**: `CausalityHolds`, `ClockMonotone`. `RunEnd` moves the clock to
  the limit of the run, so the invariant `IInv` must say that the limit is not in the
  past while a run is in progress; `Run` establishes it, and only events before
  the limit are delivered; so nothing executes in a run at its end or after it, which
  `Causality` also says. The repeat intervals are natural numbers, so that a
  renewed event is not earlier. `ImplementsSched` says that every step is one of the
  scheduler: its invariant `SchedInv` is that of SchedProofs with the types of the
  calls, and the lemmas `...Springs` say that the processes a trap releases, which
  the model collects by a fold over the traps sprung in one step, are a batch the
  scheduler may wake.
* **SimulatorProofs, second part**: the invariant `WaitInv` adds, for every process, that its state, its
  events and its place in traps agree with the call it is in (`StartAgrees`,
  `SleepAgrees`, `TimerAgrees`, `BlockedWaits`, `ActingWaits`), and that a trap is set
  exactly while someone is blocked on it. `TimersAreExact` and `ImplementsEventList`
  follow: a timer that is put on the list is not there already because the process
  that sets it had none. `ExactInv` adds the other direction: a process is blocked on
  all it waits for and was not told of, what it was told is so, and no suspended
  process has its condition met. It needs the hypothesis `Distinct`: no list given
  to `wait` names a trappable twice. Without it the statements are false, since the
  code credits such a trappable to its first place only (see below). With it,
  `TriggersAreSafe`, `RegisteredExactly`, `NoWakeupLost` and `CallsAnswerRight`.
* **SemaphoreProofs**: `ValuesCountQueues`, `NoSignalLost`, `QueuedExactly`,
  `NoWakeupLost`. A signal may go to a dead process and a process may be granted one
  semaphore while it waits for others, so the invariant has the registration of
  every call, dead or alive, in `WaitsAgree` and `QueuesAgree`; conservation of signals needs
  that a queue has no process twice, or a grant would count once for two places.
  `StatesAgree` says which state goes with which call and is what `NoWakeupLost`
  needs: a direct wait is resumed by nothing but its signal.
  `SignalsReachTheLiving` is the promise of semaphore.py 49-50 that `sem_kill` violates,
  proved under `~Kills`: killing is the only way to break it. `StepsOfTheScheduler`
  and `DeadStayDead` carry the scheduler's properties over.
* **MailboxProofs**: `InOrder`, `NobodyLeftBlocked`, `RegisteredExactly`,
  `StepsOfTheScheduler`. The invariant says that a trap holds those who wait for the
  partition and were not released, each once (`TrapsAgree`), that nobody is blocked
  where a message is (`EmptyWhileBlocked`, which is false between the append and the
  trigger in the code, but these are one step), and that a suspended process has not
  been released by enough partitions (`StatesAgree`).
* **ResourceProofs**: a resource is a semaphore with records (`ImplementsSemaphore`), so
  the invariant is that of SemaphoreProofs, instantiated, and `RecordsAgree`. For each
  process, `RecordsOf` says which records go with its call, where a process that
  acquired twice may lack some; `UnitsAgree` counts the servers held one by one and says that
  every signal taken is one of them or was released. `CountsAreExact` follows.
* **BucketProofs**: `PromisesAlwaysKept`, `QueuesAlwaysMatchCalls`, `NeverLeftBlocked`.
  The invariant has three parts. `Base` is the types and `Records`: for every process and
  place, its record, its place in the queue and its credits are those of its call
  (dead processes keep theirs, so the theorem is about the live). `Backed`: at every bucket no
  one barged into, what is promised to all processes that were unblocked and are still to
  resume, together, fits the level; `PromisesKept` alone is not inductive, as it says
  nothing of who may resume next. `HeadTooBig`: in some order the queue allows, the next
  process does not fit in what is left when the promises are kept; this is not claimed
  where a process died in the queue, or gave up and nobody has come to the other side
  since, and a turn of the other side restores it. Both speak of sums of
  amounts over sets of processes that change by a few members at a time; such a sum
  is the number of the units that make it up (`Sum`, `SumJoin`), so no induction over the
  set is needed, and a turn
  of the unblocking loop is a prefix of the queue whose sum fits (`QueueTurn`). When a
  process resumes and unblocks others, its own amount leaves the promises and theirs
  enter, on the other side (`ClaimTurn`); a step that unblocks takes the prefix of the
  order that `HeadTooBig` is then about (`TurnHead`), and what remains of
  an order is an order of the queue that remains.
  `StoresAreBuckets` says that every step of a store is a step of a bucket or a refused put.
  For the refused puts, `Own` is kept apart from `Records`: a record is of a call, or of a
  process that `Own` allows, nobody in a bucket and the processes of `stale` in a store. A
  refused put that leaves no one in a queue keeps all of it (`RefusalIInv`), and nothing
  goes on after one that does (`NothingAfter`), so until then
  the invariant holds. `StorePromises` says what follows, and that levels and heads of
  queues are right even then. `ObjectsAlwaysThere` is
  about the objects; its invariant `ObjInv` says that a store of objects has as
  many as its level (`LevelsOK`), that a store nobody has put anything in holds nothing
  and no one was unblocked to get from it (`UndecidedOK`), and that what a put in progress
  brought is on record until it is put or withdrawn, in a store whose kind it has decided
  (`OffersOK`). A get that looks at the level then finds its objects (`FreshFinds`), and one
  that was promised them finds them unless the level falls below zero, that
  is, unless `PromisesKept` was given up at that bucket (`ResumesFinds`).
  `ObjectsAlwaysConserved` says where they are. Its invariant `PlaceInv` is that every
  object brought so far is in exactly one place and no other object is anywhere
  (`Placed`), and that a process has an offer exactly for each put that is still due, with
  as many objects as it is to put (`OfferRecords`), as otherwise a put would lose or invent
  some. The objects of one arrival are numbered along its list; that the intervals of the
  puts are disjoint and fill the range (`Intervals`) is the one induction it needs, and is
  made as in PQDictProofs, with a least number that fails. Each step then moves objects
  from one place to the next: to an offer, into a store, to a consumer, or out.
* **SyncProofs** has three invariants; the second and the third rely on the first.
  `Control` (theorem `GroupControlled`) says where the processes of a group can be
  together. `Stage`: the processes 0 of the ranks are all between windows, all about
  to open one, or all in one, and then agree on its end. `ChildOK`: given the place of
  process 0 of its rank, another process is at one of a few places with one of a few
  queues; `FitsRest` allows for a child that still has the end of the last run before
  it, or that leaves. `TallyOK`: the answers that are in the queue of process 0, or
  counted, are as many as the processes that have answered. `CastOK`: which broadcasts
  a rank has not taken yet. `QueuesAlwaysInStep` follows. `Timely` (theorem
  `GroupTimely`) says that there is a time T which all simulators are at or on the way
  to, that is at the end of the window in progress, after none of their pending events
  by more than the lookahead, and not after any message in a buffer or a queue; and
  that the windows proposed so far are safe for the processes that proposed them
  (`WindowsOK`), which is why their minimum is the next T. The step for an execution
  is the argument of conservative synchronization: an event in the window sends a
  message that is later by the lookahead at least, hence not before T.
  `AlwaysCausal` and `ClocksAlwaysTogether` follow. The lemmas about `Split` and
  minima say that every simulator is in exactly one process, that process 0 has one, and
  what a minimum is of a finite or bounded set, by well-founded subsets.
  `Delivery`, for `DeliveredExactlyOnce`, says where the messages are: one that is not
  used yet or is delivered is nowhere, and every other is on exactly one event list, in
  exactly one buffer that still has to be sent, or in one entry of one queue (`Placed`);
  what is handed out to a process is for its own simulators (`Homed`), so that nothing
  is dropped on arrival; and a process that does not exist yet has no messages
  (`Unborn`). The buffer of a child between `fork` and its first step, and of a child
  that has sent what it had, does not count (`Kept`). That is the point of the lines that
  empty it, and the mutant that leaves them out breaks the property. The lemmas follow
  a message through one hand-over at a time: used, sent, collected by process 0,
  redistributed to all, and put into the lists.

### Only model-checked

* Liveness (`ReadyRuns`, `RunReturns`, `AllEnd`) and what else needs fairness: the
  prover does not reason about fairness and ENABLED here.
* ResourceStats: sums of samples over a history.
* Sync: `ReportExact`, a sum over the reports of all processes, made while others
  have not answered yet.

## What the code does and its documentation does not say

Three runs are expected to fail, and show it:

* `sem_kill`: `kill` leaves the process in the queue of a semaphore, `signal`
  chooses it, and `activate` ignores the signal, while a live process stays
  blocked (semaphore.py 122; lines 49-50 promise that one process is unblocked). In
  a resource this costs a server for good (resource.py 126).
* `bucket_level`: an unblocked process takes its amount when it resumes, without
  looking at the level again; another may have used it, and the level leaves
  0..capacity (bucket.py 144 against lines 28-30). `PromisesKept` holds as long as
  nobody does that.
* `sync_nolook`: without mailboxes and a given lookahead the first window is
  infinite, and a run without a limit stops before it processes any event
  (sync.py 437 against lines 234-236).

Others were met while modelling; the models behave like the code in them, or
exclude them where said:

* A process that kills itself by `kill(p)` runs on, terminated; the next call that
  asks for the current process fails an assertion (simulator.py 375). In Sched
  such a process keeps the control and can only terminate; DeathIsFinal holds.
* `wait` credits a trappable to its first place in the list (simulator.py 987), so a
  list with the same one twice and method `all` never completes; with `any` the
  withdrawal may fail an assertion. NoLostWakeup would be violated; the lists of the
  runs have no duplicates.
* An event that is cancelled while processes wait for it never releases them
  (simulator.py 203), although one that is waited for afterwards counts as
  triggered (event.py 246-248). `Happened` says for events that p is no longer
  blocked, and so does not object.
* A process woken by the main program stays in the ready queue until some event is
  processed (simulator.py 1087), also when there is none.
* A process that acquires two servers has one record, and its second release
  raises KeyError (resource.py 188) and gives nothing back, so a server
  is in use for good, whatever the process acquires and releases later. `CountsExact` says what is still
  exact then.
* When the head of a bucket's queue gives up, the processes behind it are not
  looked at (bucket.py 262-268), even if what they wait for is there. They are at the
  next get or put on the other side, and `NoneLeftBlocked` says that none is
  left blocked from then on. A killed process stays in the queue until it
  is unblocked in its turn, and what it waited for is then counted as taken;
  `NoneLeftBlocked` is not about such a queue.
* A put that a store refuses has written its record already, and a conditional wait has
  queued the items before it (store.py 484 before 485-498): `putters_in_queue` counts
  the caller until its next put there, and in a queue it may be chosen and
  unblocked for a call that is over, with whatever it is doing then. `ArrivalsMatchCalls`
  says that nothing else stays behind; the queues are given up in the model, which
  stops there.
* A wait for the getter and the putter of one bucket or store commits one side while
  the process is registered with the other, so it may unblock itself while it runs
  (bucket.py 285): with `all` it hangs, with `any` the withdrawal fails an assertion.
  `BucketAssumption` excludes such a wait.
* Of several processes that one call unblocks, the first to resume changes the level
  and unblocks others on it, and so does the second, without counting what those the
  first has unblocked were promised: two producers that resume may promise the same
  supply twice, and the level becomes negative although nobody else came. The attempt to
  prove `PromisesKept` met this; no run of three processes shows it. So `Overbook` adds
  the bucket to `barged` when it happens.
* In the stores this ends in an IndexError for a consumer whose objects are gone
  (store.py 544-551); `NoUnderflow` says that it happens in no other case.
* With MPI, `run` of a rank other than 0 does not return before the exit of rank 0; a
  second call there takes the stop, or what else is left, for a run command and hangs in
  an allreduce (sync.py 257-284, 327-338). `Command` excludes the second call. The
  loop is not conditioned on `enable_spmd`: a sequential group in a program started
  with `--mpi` enters it as well.
* `alltoall` returns None on a single rank if there is nothing to exchange, which its
  caller tests, and the error path of `allgather` names variables that do not exist
  (simulus.py 130-136, 175). `get_simulator` raises KeyError for an unknown name, where
  its text says None (112-115).
* `avg_over_time` and `rate` divide by the absolute time (utils.py 89, 185, 223): at time 0
  they raise ZeroDivisionError, and with another `init_time` the averages are wrong. A
  process that is killed stays in the counts for good. `_last_arrival` starts at
  `init_time` also for a resource that is created later, so the first inter-arrival
  time is longer.
* A list with two receivers of one partition credits only the first of them; the
  withdrawal of the second raises ValueError if another process waits on the new trap
  by then (mailbox.py 300-304). The waits of the model have one per partition.
* After a run of a group without a limit, the clocks stand at the end of the last
  window and not at the last event (sync.py 444 against lines 245-247); and with SMP
  the main program's copies of the simulators of other partitions keep the
  time of the fork (sync.py 316).

## Not modelled

* Names, parameters that are refused (other than the puts of a store, which `Refuse`
  models), logging, and the counters of a simulator other than the executed events:
  they do not change what the modelled state does.
* What a store does after a refused put left its caller in a queue.
* In Statistics: minima and maxima, samples kept on request, the text from which the
  collectors are made, printing, rounding; and the samples of buckets, stores and
  mailboxes.
* Exceptions of user code inside a handler or a process.
* A wait for the getter and the putter of one bucket or store in one call.
* In Sync: the constructor's error path, mailbox partitions, other facilities of the
  simulators, a second call of `run` in the program of a rank other than 0.
* Seeds, command-line arguments and the registry of simulus.py.
* The max-queue variant and the dictionary methods of `_PQDict_` that nothing in
  the simulator calls.
* Examples, notebooks and tests, which are programs that use the library and make up
  more than half of the lines of the repository.

## Plan

Done: all components of the inventory, as far as the section before says, with the
theorems above. What is left is proofs about sums: `ReportExact` of Sync and the
figures of ResourceStats.
