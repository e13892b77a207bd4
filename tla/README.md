# A model of the concurrent core of the CMS framework

The repository is a stand-alone build of the CMS event processing framework
(`FWCore`) with the data formats it needs. `cmsRun` reads runs, luminosity
blocks and events from a source and hands each event to a *stream*; a stream
runs *paths* of modules; everything that waits, waits as a TBB task. The
threads share data through a handful of small lock-free classes in
`FWCore/Concurrency`, and the rest of the framework is built out of them. This
directory models those classes and the layers above them that order the work (the
paths of an event, the machine of files, runs, luminosity blocks and events, the
intervals of validity) in TLA+, checks the models with TLC and proves the safety
properties of most of them with TLAPS.

Paths below are relative to `src/`.

## 1. The system

| part | state it keeps | operations | what is hard |
| --- | --- | --- | --- |
| `SerialTaskQueue` (Concurrency) | tasks, pause count, two atomic flags | push, pause, resume; spawned TBB tasks run and fetch the next | four atomics, no mutex: lost tasks, two tasks at once, a pause that comes too late |
| `SerialTaskQueueChain` with `SharedResourcesRegistry` | a sorted list of queues, count of outstanding tasks | push, passing down, running with all queues held | holding one queue while waiting for the next, resuming after an exception |
| `LimitedTaskQueue` | N serial queues, a flag per action, Resumer handles | push, pushAndPause, copy, assign and drop of a Resumer | one action in N queues must be done once; pauses follow the copies of a handle |
| `WaitingTaskList` | a lock-free list with cached nodes, the exception, a flag | add (two overloads), presetTaskAsFailed, doneWaiting, reset | adding while the list is taken, links not yet stored, who deletes a node |
| `StreamSchedule`, `Path`, `Worker` (Framework) | per event: state of each path and of each worker, counts of what is outstanding | start the paths, run batches of workers, skip workers, report status and failure | workers shared by paths, completion in any order, exceptions, modules waiting for a module that will not run |
| `Async`, `WaitingThreadPool`, `ReusableObjectHolder` | idle threads or objects, what each thread runs | take, run, give back, stop | the thread gives itself back while still running |
| `EventProcessor` (main thread: `TransitionProcessors.icc`) with run and luminosity block status | the item at hand of the source, the open runs and blocks with their counts of streams, one queue per stream, deferred exceptions, files | begin, continue and end of files, runs, blocks and events; clean-up by destructors | streams in different blocks, one source read by whoever comes, pauses of the stream queues, closing everything after a failure |
| `EventSetup` IOV queues | for each record, the interval it is in, the IOVs in use and their slots | synchronise with a time; start and end of an IOV; end of all | as many IOVs as allowed, the next one waits for the users of an older one, finders that fail half way |
| `ProductResolver`s | a product and who waits for it | prefetch, put, delete early | products that are not made, unscheduled producers |
| `SharedMemory` channels | a state shared with another process | hand-shakes with time-outs | the other process dies or is late |
| message logger | messages waiting for the thread that is logging | log, drain | who drains |
| sources, services, parameters, plug-ins, data formats, utilities | | | sequential code, input and output |

How they interact. `WaitingTaskList`, `WaitingTaskHolder` and the count of
`WaitingTask` carry "run this when all of those are done" with the first
exception; a `Path` has a list for whoever waits for the path, a `Worker` one
for whoever waits for its module, and `StreamSchedule` holds two tasks that run
when the paths and all the paths are done. `SerialTaskQueue` carries "one at a
time": each shared resource has a queue, each module that uses several pushes
itself down a chain of them. `LimitedTaskQueue` carries "at most N": the
`EventProcessor` pushes each run and luminosity block to one and keeps the
`Resumer` as long as the run or block is open.

What makes each part correct:

- *Serial queue.* One task at a time, in push order, each once; a task in an
  unpaused queue has somebody on the way to it; paused means no new task.
- *Chain.* Only one user of each resource; order within a chain; every queue
  paused is resumed once, also after an exception; no deadlock between chains.
- *Limited queue.* Each action done once, at most N together; the pauses of a
  queue are those of its live Resumers; nobody waits for a queue that is free.
- *Waiting list.* Each task released once, after the resource is done, with the
  exception; nobody forgotten; no node used after it was deleted.
- *Paths.* A path is done when all its workers are; its status does not depend
  on the order they finish in; the event ends, with the root cause of a
  failure; a module runs once per event.
- *Thread pool.* A thread serves one call at a time and is reused; the task is
  told last, so that whatever it starts finds the thread back in the pool.
- *Event processor.* Begin and end transitions nest, globally and on each
  stream; each item of the source is handled once, in order, in its own run and
  block; between two waits of the main thread all streams agree on where they
  are; at the end everything is closed, whatever threw, and a failure is
  reported; the job ends.
- *IOV queues.* No two IOVs in one slot; a run or block keeps the IOVs of its
  time alive until it ends; no sync waits for ever; nothing is left at the end.

## 2. Modules

| module | models | kind |
| --- | --- | --- |
| `SerialQueueSpec` | the promise of `SerialTaskQueue.h:10-31` | abstract |
| `SerialTaskQueue` | `SerialTaskQueue.cc`, one action per atomic access | detailed, implements `SerialQueueSpec` |
| `SerialTaskQueueDestruction` | the destructor of `SerialTaskQueue` | extends `SerialTaskQueue` |
| `SerialTaskQueueProofs` | | theorems about it and `SerialTaskQueue` |
| `ResourceLatch` | the promise of `WaitingTaskList.h:9-19,86-133` | abstract |
| `WaitingTaskList` | `WaitingTaskList.cc`, one action per atomic access | detailed, implements `ResourceLatch` |
| `WaitingTaskListProofs` | | theorems about it |
| `TaskQueues` | several serial queues in two steps per look-up | operators used by the next two |
| `SerialTaskQueueChain` | `SerialTaskQueueChain.h`, `SharedResourcesRegistry::createAcquirer` | composes `TaskQueues` |
| `SerialTaskQueueChainProofs` | | theorems about it |
| `LimitedTaskQueue` | `LimitedTaskQueue.h` with its `Resumer` | composes `TaskQueues` |
| `LimitedTaskQueueProofs` | | theorems about it |
| `EventPaths` | `StreamSchedule::processOneEventAsync`, `Path`, `WorkerInPath`, `Worker` | uses the list as the latch that `ResourceLatch` specifies |
| `EventPathsProofs` | | theorems about it |
| `WaitingThreadPool` | `Async`, `WaitingThreadPool`, `ReusableObjectHolder` | one module, for the thread gives itself back |
| `WaitingThreadPoolProofs` | | theorems about it |
| `OccurrenceSpec` | the nesting of transitions that modules rely on | abstract |
| `EventProcessor` | the tasks of `EventProcessor.cc:1188-2334` and the two status classes | composed by the next |
| `TransitionProcessors` | the main thread: `TransitionProcessors.icc`, `processRuns()`, the clean-up | extends `EventProcessor`, implements `OccurrenceSpec` |
| `TransitionProcessorsProofs` | | its inductive invariant, and theorems about it and `EventProcessor` |
| `EventProcessorProofs` | | extends the last: the nesting of transitions, the order of the source, and the theorems about the next |
| `EventSetupRecordIOVQueue` | `EventSetupRecordIOVQueue.cc` and the part of the event setup that drives it | its queue may start late, as `LimitedTaskQueue` says |
| `MC*` | values for the constants | model checking |

### SerialTaskQueue

`tasks`, `pauseCount`, `taskChosen` and `pickingNextTask` are the four members.
An actor is a client thread, or the TBB task that `spawn()` starts and that is
named by the first queued task it executes. `pc` says where an actor is: `body`
is inside `execute()`, and `check`, `lock`, `choose`, `pop`, `unchoose`,
`unlock`, `return` are the steps of `pickNextTask()`. `caller` is the member
function that called it and decides what becomes of the task it returns:
`ReturnSpawn` is `spawn()`, `ReturnContinue` the loop inside it. A task being
executed may push, pause and resume like a client. Calls to `resume()` balance
calls to `pause()`, as its documentation demands, by whichever actor. The
failure of an action is swallowed by `execute()`, so that it ends like success.

`SerialTaskQueueDestruction` adds the end of its life. `ReadEmpty` and
`ReadChosen` are the two reads of the destructor, `PushLast` its push of a task in
a `task_group` of its own and `Waited` the end of `g.wait()`, which waits for the
TBB task too. It begins when no client is in a call, and from then on nobody
else calls the queue, as C++ demands; TBB tasks of the queue are still in any
place of `spawn()`.

### WaitingTaskList

`head`, `nodeCacheSize`, `lastAssignedCacheIndex`, `waiting` and `exceptionPtr`
are the members; a node is an index of the cache or the heap node of the task
it was made for, `next` and `nodeTask` are its contents, `freed` those deleted.
Each task is added by a thread of its own; the owner presets a failure or not,
calls `doneWaiting()`, and may `reset()` when no call is under way. The two
overloads of `add()` differ in one access: `AddRelink`, only made for a
`WaitingTaskHolder`. The reference that a holder brings is counted at the start of the
call, and the drop of the reference is what runs the task. A node not yet
linked points to itself, and a walker waits for the link (`AnnounceFollow`,
`PresetFollow` are not enabled before).

### TaskQueues, SerialTaskQueueChain, LimitedTaskQueue

Above a single queue the interleavings inside `pickNextTask()` that its lock
makes atomic no longer matter, and the one that does is kept: the check of the
pause count is made before the lock. So a look-up is two steps, `PickCheck` and
`PickCommit`, `pick` says in which one an actor is, and `chosen` is the task
handed out and not finished. A TBB task that goes on with the next task and one
newly spawned are the same here.

In a chain, the task of action x in its i-th queue is `<<x, i>>`: it is the
actor that pauses its queue (`PausePrevious`), pushes `<<x, i+1>>`
(`PassDown`), and finishes, while the next one may already be running. The last
one runs the action and then, as the sentry does whether or not the action
threw, resumes the queues from the last but one to the first and uncounts.
That chains are sorted the same way (`SharedResourcesRegistry.cc:59-77`) is the
assumption `ChainAssumption`.

In the limited queue the task of x in queue k is `<<x, k>>`, `<<x, 0>>` the
pushing thread; the queues are filled one at a time while earlier ones already
run. A Resumer is a variable that holds a queue or nothing; the one made for an
action has its name, further ones may be copied from it at any time, while the
action runs or long after. Copy assignment is a copy and a move assignment.

### EventPaths

One stream, its events one after the other. `<<p, i>>` is the i-th place on
path p and at once the call of `workerFinished()` made for it: `called` (its
worker is about to be asked), `waiting` (its task is in the list of the
worker), and then the steps of `workerFinished()`, each an action:
`Continue` or `Complete`, `Reject`, `Tolerate` or `Rethrow`, `SetFailed`,
`SkipNext` for each worker left out, `Count`, and `Finish` and `Announce` for
the last one. A batch is what `runNextWorkerAsync()` starts together: the
workers up to the first that does not run concurrently, asked from the last to
the first. A module is asked for by several paths and runs once
(`workStarted`), after the products it consumes: those of other modules, the
status of trigger paths, and the TriggerResults. If the last path that could
run a module skips it, those waiting for it are released and fail with
`notFound`.

An exception is the module that threw it and its kind, which stands for the
action the configuration attaches to its category: `own` and `notFound` are
rethrown, `continue` is `TryToContinue`. What is left out: accumulators,
unscheduled modules, modules with external work, event selection before
prefetching, the queues of modules that are not reentrant, and
`IgnoreCompletely`, which makes a worker pass.

### WaitingThreadPool

A call of `runAsync()` is checked by the service (`Call`), takes a thread out
of the `ReusableObjectHolder` (`Get`) or makes one (`GetNone`, `Make`), and
gives it the function (`Submit`). `loop` says where `threadLoop()` of each
thread is. `Locked` are the places where that loop holds `mutex_`: it does so
from the moment it wakes until it waits again, also while the function runs;
`run()` and `stopThread()` hold it for a single step. `cond_` is modelled with
its notifications, which are lost when nobody waits, and with a bounded number
of spurious wake-ups. After the function (`Run`) the thread puts itself back
(`GiveBack`, `Uncount`, the two steps of `addBack()`) and only then drops the
function with its holder (`Release`), which is when the task is told. That the
owner does not destroy the pool while calls are in progress
(`WaitingThreadPool.h:79-80`) is the guard of `Destroy`. A call refused leaves
its holder without an exception; the caller is the one who sees it. Left out:
`std::thread` failing to start.

### OccurrenceSpec, EventProcessor, TransitionProcessors

`EventProcessor` is what happens between two calls of the main thread, one
action for each task or continuation of an asynchronous transition. A run and a
luminosity block are records in `runs` and `lumis`, with the fields of
`RunProcessingStatus` and `LuminosityBlockProcessingStatus` that decide
anything, and a `phase` that says which continuation comes next: `sync` (waits
for its IOVs), `queue` (in `runQueue_` or `lumiQueue_`), `read`, `merge` (in the
queue of the source), `begin` (in its global begin transition), then open;
`endSync` and `ending`, or `end`; `closed`, or `dropped` when it was given up
before anything was committed to. `holds` is whether the run keeps the task that
the main thread waits for (`holderOfTaskInProcessRuns_`), `enders` counts what
holds its global end task. `src` is the position in the input with
`lastSourceTransition_` and `needToCallNext_`. The input is a sequence of items;
an item marked `last` is one for which the source promises that no other entry
of the same run or block follows, so that no merging is done. A stream has its queue,
its pauses, where it is and what it is `doing`. `iovPauses` is the pause count of
`queueWhichWaitsForIOVsToFinish_`.

`Busy` says that a task the main thread waits for is still held by somebody:
the status, a continuation, a stream, a task in a queue. It is written out from
who copies the holder, since a model of the counts would say the same at length.
`MergeOutcomes` is the loop that reads the further entries of a run or block,
in the two forms it has in the code: from the source queue, and by the
main thread after a file.

`StartRun` and `StartLumi` are the tasks given to `runQueue_` and `lumiQueue_`,
and have no guard on how many have started: a paused `SerialTaskQueue` may hand a
task out late (`OnlyOneUser`, below), so that a `LimitedTaskQueue` does not keep its
limit in every interleaving (`PauseExcludesUnlessStale`). What follows is
the code's answer: `readRun()` and `readLuminosityBlock()` take a principal from a
pool, and when there is none (`RunPrincipalFree`, `LumiPrincipalFree`) they use the null pointer
one line before they assert that it is not null (`EventProcessor.cc:1989-1992`,
`2018-2021`). `Crash` is that end of the process; after it nothing happens. When
another run has ended, or an exception is under way, by the time the source is read, a late start is
harmless, and goes on in the model as in the code. `LateStart` names
such a step, for the fairness. The model lets any start be late, which is more than the
queue does: that takes a thread that has passed the check of the pause count.

`TransitionProcessors` adds the main thread. `todo` is the list of calls still to
be made: `processFiles()` puts the calls that the next item asks for there, and an
exception replaces them with the destructors of `RunResources` and
`FileResources`. `files` has the flags of `FileResources`. `doNotMerge` is the
configuration in which new input files come with new output files.

Anything that runs a module, an IOV finder or the source may throw: `Try` and
`TryAndTell` choose, up to `MaxThrows` times in a job. A signal, or an output
module that has enough, may stop the job at any time (`mayStop`).

`OccurrenceSpec` knows nothing of queues, files or exceptions: a run begins,
streams begin it, luminosity blocks in it begin, and so on, each with the
conditions that a module may rely on. The refinement maps what the phases and
the streams say. A global end transition is not counted as ended before the
modules have finished it.

### EventSetupRecordIOVQueue

An interval, and the IOV started for it, is named by the sync at which a record
entered it. `Sync` is `eventSetupForInstanceAsync()` for a run or block: each record
stays where it is, enters a new interval or becomes invalid; a record that
stays is used at once, for a new interval the IOV that the record keeps alive is
let go (`CurrentAfter`) and a task is put into `iovQueue_` (`waiting`). `StartIOV` is that
task: it finds a slot and keeps the IOV for the record and for the run or block. It
too may come late (`LateIOV`), and when it finds no slot it throws to the task of the sync,
as at `EventSetupRecordIOVQueue.cc:90-94`.
`FreeSlot` and `ResumeQueue` are the task that ends an IOV, in the order of the
code. Syncs come one after the other because the event processor asks for the
next only when the task given to the one before has run. `FailedSync` is a
finder that throws: the records before it have moved on, but no IOV is started
for them. `EndIOVs` is `taskCleanup()` after the last run, with the list
`endIOVTasks_` of each record.

## 3. Runs

| run | instance | distinct states | shows |
| --- | --- | --- | --- |
| `queue` | 2 clients, 3 tasks of 2 groups, 2 pauses | 698 205 | gone only after all tasks, one at a time, the inductive invariant (with no lost task), pause is stable, implements the serial queue, every task runs and the destructor ends |
| `waiting_list` | 3 tasks (1 by holder), cache of 1 node, 1 reset, 1 exception | 830 399 | no deleted node is walked and nobody forgotten, preset failures kept, implements the latch, every task runs |
| `waiting_list_relink` | the same, no reset | | `RelinkAlive` is violated |
| `chain` | 3 actions, chains (1,2), (1,2), (1) | 346 726 | exclusion unless a queue handed out late; order; counts, pauses and no stuck queue; every action runs |
| `chain_resource` | as `chain` | | `OnlyOneUser` is violated |
| `limited` | limit 2, 2 actions, 1 pausing, 1 more Resumer, which may hold a queue from the start, 1 copy | 613 604 | done once, one per queue, pauses balanced and no idle queue, every action done, also with both queues paused |
| `paths` | 5 modules, 3 trigger paths, 1 end path, several events | 50 383 | a path and its users wait for its workers, nothing runs after the end, status independent of order, root cause reported, every event ends |
| `paths_done_once` | the same | | `DoneWaitingOnce` is violated |
| `thread_pool` | 3 calls for 2 tasks, 1 spurious wake-up | 533 567 | one owner per thread and no function overwritten, nothing outstanding at the end, failures reported, calls and destructor end |
| `processor` | 2 streams, 4 inputs, 2 runs and 2 blocks at once, or late a third, 2 exceptions | 568 984 | transitions nest, the source is read in order, streams agree, everything is closed, a failure is reported, the job ends unless it crashes or is stranded |
| `processor_hang` | the same with 1 run at once and 1 exception | | `JobEnds` is violated |
| `iov` | 2 records with 1 and 2 slots, 4 syncs, 1 failing finder, any late starts | 695 932 | IOVs separate, the right one kept, the last task last, no sync waits for ever |

`ListIntact`, `ChainConsistent`, `QueuesConsistent`, `ResultsAwaited`,
`ThreadsOwned` and `IOVsSeparate` are conjunctions of named or commented parts
that belong together; in three of them the type invariant is one of the parts.

Why the bounds are enough. *queue*: three tasks are one executing, one being
picked and one in the queue; two of a group and one of another take both
branches of the loop in `spawn()`; a count of 2 has a `resume()` that does not
restart the queue; two clients and the running task look for the next task at
once; the task of the destructor is a fourth. *waiting_list*: a list of two nodes to which a third is being added, with
a cache of one so that nodes come from the heap too, and the second round, after
`reset()`, with the enlarged cache. *chain*: an action in the last queue, one
waiting there and a third that meets the paused first queue. *limited*: a second handle,
left by an earlier action or copied from the first, so that each queue is paused by one and
the second action can begin only when one of them goes, or so that it moves from one queue to the other.
*paths*: `ma` is at the end of two paths and consumed by a third; `mf` is a
filter used plain and vetoed; `mo` waits for the TriggerResults and the status
of a path; any module can throw. *thread_pool*: two calls at once and a third
that reuses a thread of theirs, two of them for one task; any function can
throw, and the service may forbid calls at any time. *processor*: the four
inputs have a block that goes on in the next file followed by another run, runs
and blocks with several entries, the last marked or not, a run that goes on
over two files before it has a block, and a third run or block in a row, for which
there may be no principal; two exceptions are a first and one while
it is cleaned up; two streams are one that finds the end and one that is late;
runs and blocks overlap because two of each may be open. *iov*: one slot makes
the next sync wait for the users of the last, or throw if it comes late, two let old and new overlap; four
syncs are one in use, one waiting, one that comes back to the interval and one
after a failure.

`CHECK_DEADLOCK` is on for the components that serve calls: each of these
specifications has an action `AtRest` (`Over` in the queue) that is enabled only where the component
has nothing left to do, so that any other standstill is reported. It is off in
`limited`, `processor`, `processor_hang` and `iov`: the actions or the job end, and then nothing is left to
do. That they stop nowhere else is what `EveryActionDone`, `JobEndsUnlessStranded` and `IOVsEnd` say.

Fairness. Every `FairSpec` assumes no more than that the system does not stop
while something that was begun can go on: one weak fairness condition on the
disjunction of all steps of calls under way and of TBB tasks. No thread is
promised its turn. In `TransitionProcessors` and `EventSetupRecordIOVQueue` it is
the whole next-state relation but for late starts (`LateStart`, `LateIOV`), which nobody
can count on: what waits in a paused queue waits for a Resumer. No other step of theirs is optional but exceptions and
failures, and these are bounded. TBB runs a task that was given to a `task_group` as long as a
thread is free, and the code's loops make progress whenever somebody releases
what they wait for. Beyond that the assumptions are those the documentation of
each class makes of its user: who paused resumes (`SerialTaskQueue.h:95-96`),
the owner of a resource calls `doneWaiting()`, no Resumer is kept for ever,
modules and the functions given to `runAsync()` return
(`WaitingThreadPool.h:72`). A push that was not made yet is never forced.

## 4. What the violated properties show

- `OnlyOneUser` (run `chain_resource`). `pickNextTask()` reads the pause count
  before it takes its lock (`SerialTaskQueue.cc:90`). A thread that pushes a
  third action can pass that check, wait, and take a task out of the queue
  after the running action has paused the queue and passed on. Then a module
  that uses the first resource runs together with one that holds both.
  `SharedResourcesRegistry.cc:54-57` promises that only one does. The same race
  means that the sentence of `SerialTaskQueue.h:93-94`, that no further task is
  started once the running one has finished, does not hold of a `pause()` made
  concurrently with a `push()`. `ExclusiveUnlessStale` shows that this is the
  only way in which exclusion is lost.
- `RelinkAlive` (run `waiting_list_relink`). The second `setNextNode(nullptr)`
  of `add(WaitingTaskHolder)` (`WaitingTaskList.cc:112`) may write to a node
  that another thread has announced and deleted since the first one. The
  other overload does not have this line.
- `DoneWaitingOnce` (run `paths_done_once`). After a `TryToContinue` failure a
  path "skips" a worker whose module did run (`Path.cc:264`). On the last path
  of that worker this calls `doneWaiting()` a second time and assigns the
  exception pointer that other threads may be reading, against the guard
  declared at `WaitingTaskList.h:157`. `ResultsAwaited` and `RootCauseReported`
  show that nothing else follows from it.
- `JobEnds` (run `processor_hang`). When a new file is opened within a luminosity
  block, `processRuns()` gives a copy of the holder of its task to the run
  (`EventProcessor.cc:1176`) and calls `continueLumiAsync()`, which merges the
  entries of the block and then resumes the streams. If merging throws, the
  exception goes to the task but the streams are not resumed, and only a stream
  would make the run let go of its copy: the wait at line 1184 never returns,
  so the destructors that close runs and blocks "even when an exception is
  thrown in processRuns" (`TransitionProcessors.icc:54-55`) are never reached.
  `Stranded` describes this standstill: all queues are empty, the streams do nothing in a
  luminosity block that nobody goes on with, everything else is over and an exception
  waits to be thrown. `JobEndsUnlessStranded` shows that on the instance this is the only
  place where a job comes to a standstill, but for a crash (section 2).

Four more observations that no run checks. The race of `OnlyOneUser` reaches
further up: a `LimitedTaskQueue` that starts one run, luminosity block or IOV too many may
crash the job at `EventProcessor.cc:1990` or `2019`, or make a sync fail with an error that
"should never happen" (`EventSetupRecordIOVQueue.cc:90-94`); `JobEnds`, `JobEndsUnlessStranded` and
`IOVsSeparate` allow for it. `GoneAfterTasks` speaks of tasks: a TBB
task that has finished the last of them may still be inside `pickNextTask()`
when the destructor returns, since nothing counts it (in the model, an actor at
`check` while `dtor` is `gone`), and destroying a paused queue with a task running
never returns, since the pushed task is not run. When
`gotoNewInputFile()` or the readFile after it throws, `~FileResources` calls
`respondToCloseInputFile()` and `closeInputFile()` a second time, although
`TransitionProcessors.icc:21` says that the sequence is not executed twice:
`closingSequenceAlreadyFailed_` is only set in the other case (the model does the
same, in `Destroy`). And when a finder throws half way through
`setAllValidityIntervals()`, the records before it have moved to an interval for
which no IOV is started; a later sync finds the interval unchanged and adds
`endIOVTaskHolder_` as it is, of an older IOV or without a task
(`EventSetupRecordIOVQueue.cc:62`). The event processor starts no new run or
block after a failure, but ends of runs synchronise too. This is why
`RightIOVUnlessFailed` excludes what comes after a failed sync, and after a late start that
found no slot, which leaves a record without the IOV of its interval too.

## 5. Proofs

Eight modules hold theorems about every value of the constants of a component.
`EventProcessorProofs` is about two, the event processor and the IOV queues, whose
specification has names of its own for that reason (`IOVSpec`, `IOVInit`, `IOVNext`). What is assumed of the constants are the `ASSUME`s of the component's
module, which TLC evaluates in the runs: names are kept apart (a client is no
task, `None` is no node), bounds are numbers, and the sets that the code counts
are finite. No set has a fixed size. What a source may hold is assumed too: see below.

| module | theorem | states |
| --- | --- | --- |
| `SerialTaskQueueProofs` | `InductiveInvariant` | `Spec => []IInv` |
| | `TypeCorrect` | `Spec => []TypeOK` |
| | `OneAtATime` | `Spec => []MutualExclusion` |
| | `NoTaskIsLost` | `Spec => []NoLostTask` |
| | `PauseHolds` | `Spec => PauseIsStable` |
| | `QueueImplementsSerialQueue` | `Spec => ImplementsSerialQueue` |
| | `QueueImplementsTaskQueue` | `Spec => ImplementsTaskQueue` |
| | `DestructionIsSafe` | `DestructionSpec => Spec` |
| | `DestructionInvariant` | `DestructionSpec => []DestructionInv` |
| | `DestroyedAfterTasks` | `DestructionSpec => []GoneAfterTasks` |
| `SerialTaskQueueChainProofs` | `ChainInvariant` | `Spec => []ChainConsistent` |
| | `ExclusionInvariant` | `Spec => []ExclusiveUnlessStale` |
| | `OrderInvariant` | `Spec => []ChainOrder` |
| `LimitedTaskQueueProofs` | `QueuesInvariant` | `Spec => []QueuesConsistent` |
| | `PauseInvariant` | `Spec => []PauseExcludesUnlessStale` |
| | `DoneOnceInvariant` | `Spec => []DoneOnceOnePerQueue` |
| `WaitingTaskListProofs` | `TypeInvariant` | `Spec => []TypeOK` |
| | `ListInvariant` | `Spec => []ListIntact` |
| | `PresetInvariant` | `Spec => []PresetTold` |
| | `LatchRefinement` | `Spec => ImplementsLatch` |
| `WaitingThreadPoolProofs` | `OwnersInvariant` | `Spec => []ThreadsOwned` |
| | `NoneOutstandingInvariant` | `Spec => []NoneOutstanding` |
| | `FailureInvariant` | `Spec => []FailureHandedOver` |
| `EventPathsProofs` | `TypeInvariant` | `Spec => []TypeOK` |
| | `ResultsInvariant` | `Spec => []ResultsAwaited` |
| | `QuietInvariant` | `Spec => []QuietWhenOver` |
| | `StatusInvariant` | `Spec => []StatusIndependentOfOrder` |
| | `RootCauseInvariant` | `Spec => []RootCauseReported` |
| `TransitionProcessorsProofs` | `JobInvariant` | `Spec => []JobInv` |
| | `TasksOnlyWhileWaiting` | `Spec => [][TaskStep => Waiting]_allVars` |
| | `StreamsAlwaysAgree` | `Spec => []StreamsAgree` |
| | `AllClosedAtTheEnd` | `Spec => []AllClosed` |
| | `FailureAlwaysReported` | `Spec => []FailureReported` |
| `EventProcessorProofs` | `TransitionsNest` | `Spec => ImplementsOccurrences` |
| | `SourceInvariant` | `Spec => [](Numbers /\ SourceInv)` |
| | `SourceAlwaysInOrder` | `Spec => []SourceReadInOrder` |
| | `MainTypeAlwaysOK` | `Spec => []MainTypeOK` |
| | `IOVInvariant` | `IOVSpec => []IOVsSeparate` |
| | `RightIOVInvariant` | `IOVSpec => []RightIOVUnlessFailed` |
| | `EndTaskInvariant` | `IOVSpec => []EndTaskIsLast` |

Each proof has the same shape: an inductive invariant that the runs check first
(the IOV queue adds two conjuncts in the proof module, those of the paths and of the
event processor are wholly there; TLC found them to hold on the instances of the
runs), lemmas about the
operators and about what a step does to the data structure, one lemma for each
conjunct with a step for each action, and short theorems at the end.

*Serial queue.* `MutualExclusion` is not inductive: that two TBB tasks are not in
`execute()` together rests on the flags. `IInv` says that `pickingNextTask` is
a lock held by the one actor between the compare-exchange of line 97 and the
sentry (`PickLocked`), that `taskChosen` is a lock too, passed from the picker
to the TBB task and released by `finishedTask()` (`ChosenOwned`), and what an
actor can have in its hands at each place (`Roles`). `NoLostTask` needs them
both: the picker whose `try_pop()` failed still holds `pickingNextTask` when it
clears `taskChosen`, so whoever pushed meanwhile is waiting for the lock and
will look again. The refinement maps `active` to the tasks that some picker or
TBB task holds; `PickPop` is `Begin` of the abstract queue, because `IInv`
makes the set empty before it, `Finish` is `End`, `Push` is `Accept`, and every
other step leaves the three variables alone (`HandedOutStep`,
`StepSimulation`).

*What its users see.* The chain and the limited queue are modelled above
`TaskQueues`, not above `SerialTaskQueue`. That the one does what the other says is
`QueueImplementsTaskQueue`: an actor that the queue has between the
compare-exchange loop and `try_pop()` is at `commit`, the task somebody holds is
`chosen`, and every access of `SerialTaskQueue` is an operation of `TaskQueues` or
is not seen. `PickCommit` happens at `try_pop()`, whether it finds a task or not,
or at the exchange of `m_taskChosen` when that was set already; then `IInv` says that somebody
holds a task, for one who took the flag and found nothing still has the lock
(`PicksAreUsers`). That a TBB task is in no other place when it is spawned needs an
invariant of its own, `Fresh`: a task is in the queue or in a picker's hands once, and
its TBB task is idle until then. It is about one queue; several share nothing but
their actors. No run checks it; TLC found it to hold on the instance of run
`queue`.

*Its destruction* (`OwnerAssumption`: the owner is a client, the last task has a
`task_group` of its own). `DestructionIsSafe` lets every theorem about `Spec` be
used for a queue that is destroyed. `DestructionInv` adds to `IInv` that every
pushed task is in the queue, held by an actor or done (`AllAccounted`), that the
last task is behind all others and nobody holds another once it is picked
(`LastIsLast`), and that a queue found empty stays so (`StaysEmpty`): the
destructor reads `m_tasks` before `m_taskChosen`, and a task is chosen before it is
popped.

*Chain* (`ChainAssumption`: finitely many actions, chains without repetition and
sorted the same way). An action is in one stage of its chain (`InStages`): the
tasks before it are through, those after it do not exist yet. A queue holds the
tasks waiting in it once each and knows the one it handed out (`QueuesHold`,
`ChosenHandedOut`, `NoneLost`); so the pauses of a queue are counted by the
actions that left it (`PausesBalanced`), and the set counted changes by one
element in the same steps as the count. Exclusion: of two running actions take the queue they share. Unless it is the
last of one of them, both have passed it on and hold it paused, and
`StaleIfBoth` says that one of the two was handed out nevertheless. Order is
`InPushOrder`: of two actions of the same chain the earlier is ahead in every
queue (`Follows`), which induction over the steps carries down the chain; no
induction over the chain is needed.

*Limited queue* (`LimitAssumption`). Before an action has begun none of its tasks
is beyond `start`, and afterwards it is done in one queue (`DoneOnce`); a Resumer
made for an action points nowhere before it began, so that `pushAndPause()`
never overwrites a live one, and the pauses are those of the Resumers that
point to a queue.

*Waiting list* (`NodeAssumption`: cache places are numbers and heap nodes are
not). The list is spread over `head`, the links already stored, the `oldHead`s
of threads that have exchanged the head but not linked yet (`Succ`), and the
places of the threads that walk (`Cursor`). `Chain` is all of it, and the core of
the invariant is that every node in it is pointed to from exactly one place
(`PointedToOnce`) and that there is no cycle (`NoCycle`). A step does
one of four things to this shape: nothing, pushing a node, handing the whole list to
one walker, or consuming the node a walker is at (`ListSteps`), and each
preserves both facts. That nobody is forgotten follows when no call is left:
no walker and no head point anywhere, a set of nodes that all have a
predecessor in it has a cycle, so there are no nodes, and a task that has not
run has one. `SomebodyAnnounces` is what the second look at
the flag is for (`AddRecheck`). `PresetTold` needs the same argument once more:
the nodes not yet told form a part of the list that begins where
`presetTaskAsFailed()` is; if it came to the end before all are told, they would form a
cycle. That the index of the cache does not outgrow the cache (`IndexStep`) is
a count of the tasks that have asked for a node. The refinement is step by step: consuming a node is
`Fail` or nothing, dropping the reference is `Release`, clearing the flag is
`Done`.

*IOV queues* (`IOVQueueAssumption`: numbers, at least one slot for each record).
Nothing is assumed of when the queue starts an IOV. Every slot taken is that of an IOV in it
(`SlotsKept`), and a slot is given back before its IOV counts as ended; so whenever fewer IOVs
than slots are started and not ended, one is free (`SlotLeft`, from the surjection of
IOVs to slots). That is the case for a task in its turn; a late one either finds a slot all the same
(`StartIOVInSlot`) or changes nothing but that its sync has failed (`StartIOVThrows`).

*Thread pool* (`PoolAssumption`: finitely many calls). `ThreadsOwned` is
inductive. A thread made has one owner out of four, a call being set up, the
free list, its own `thisPtr_` or the destructor (`OneOwner`), and
thread and call know each other from `run()` until the function is released
(`FunctionHeld`). `outstanding` counts the calls between taking a thread and
its `addBack()`; the destructor meets none. Threads are made for calls that found
none, so that numbering them never runs out (`ThreadsCounted`).

*Paths* (`PathAssumption`: a worker is on a path once, and a filter that runs
concurrently is ignored; `NamesAssumption`). None of the five properties is
inductive: they speak of the end of a path or an event, and what happens there
is the sum of what its workers did in any order. `EventInv` says of each
moment what has been summed up so far.
`Order`: behind a place that ends a batch nothing has begun until it goes
on, and what is skipped is the rest of the path, so that no two
`workerFinished()` of a path both start or skip the same place. `PathsCounted`:
`modulesToRun_` is the number of places not counted yet, hence the one that
brings it to zero is alone and `finished()` is called once. `PathsLeftCounted`:
`numberOfPathsLeftToRun_` is the number of places that have not skipped the
worker (`Left`); `LeftOne` gives that whoever sees 1 is the last of them. `WorkersOnce`: a
worker has its result before anybody is released, and keeps it, since nobody
waits for one that all paths skipped. With the results fixed, `StatusSoFar` is preserved by
`SetFailed`, which keeps the first place that threw, or else rejected, among
those looked at. `ErrorsTold`: the first exception is told to the schedule when it
is thrown, and `Announce` tells nothing new. `CausesSkipped`: a module that
ran without a product it needs was released because every path with the maker
had skipped it (`SkippedFor`), and a trigger path left by an exception had told
that exception before, so `notFound` is not the first.

*Event processor* (`EventProcessorAssumption`: finitely many streams, at least one; limits are not zero).
What the main thread may rely on between two waits is what the tasks have left
behind, so the invariant has two halves. `TaskInv` is about the tasks. At most
one run is live, and the luminosity block that streams may still join is the
last one made (`RunsInTurn`, `LumisInTurn`). The queue of a stream holds a run,
its luminosity blocks, the end of the run and then the next run, from where the
stream is (`QueuesInOrder`), and all queues come to an end at the same place
(`QueuesEnd`); that every stream does the same is thus never said of
two streams, but of each of them and the last run. The counts are
those of whom they count: streams that have not begun or not ended the run, and
what is in the way of its end (`RunsCounted`); streams in a luminosity block
(`LumisCounted`); statuses that keep `queueWhichWaitsForIOVsToFinish_` paused
(`PausesCounted`). Each step is shown to be one of twenty-two changes, or none
(`TaskStepChange`: a run moves on, a stream takes the next task of its queue, a
stream leaves its luminosity block and so on), and each kind of change
preserves each part. `MainInTurn` is about the main thread: the
calls left to make are the rest of one of eight lists, and at each place in them
it says what is over: the streams have been told to leave the luminosity block
(`EndingLumi`), no luminosity block is open (`NoLumi`), the run is ending
(`EndingRun`), all has ended (`Ended`). A task may run only while the main
thread waits, for otherwise nothing is `Busy`: a quiet job is one in which every
phase and stream is at rest, which with `TaskInv` makes the streams agree.
That no more runs or blocks are open at a time than `OccurrenceSpec` allows rests on the principals
alone (`WithinLimits`), not on when the queues start them: whoever has none crashes.
That the two halves fit is shown place by place (`MainTurn`): an
exception may replace the list at any wait, and `FilesAt` says what the flags of
`FileResources` then are. `FailuresKnown` is where an exception is until it is
reported: in `failed` only while the main thread waits, then in `primary` or
`deferred`. The refinement takes the same changes once more: a step that changes
what has begun or ended, or where a stream is, is one step of `OccurrenceSpec`,
whose conditions are those counts (a run whose `enders` is 0 has nobody in it, a
run whose task is in a queue has begun, a luminosity block a stream may join is
open), and every other step leaves its variables alone.

*The order of the source* (`InputsAssumption`: every input is `WellFormed`, which is
what `InputSource::nextItemType()` makes of whatever a source returns,
`InputSource.cc:149-195`. The first item is a file, or a stop; after a file
comes a run and after a run no event; nothing follows a stop. The run and the
luminosity block that the source is in change only with an item that begins
one, `InputSource.cc:456-465`. `nextTransitionType()` passes over `IsSynchronize`,
`EventProcessor.cc:885-888`; that a source puts none before the first file, between a
file and its run, or a run and its first luminosity block, is assumed with it, for after one
`nextItemType()` does not know what came before it. TLC evaluates the assumption for
the inputs of the runs.)
`SourceReadInOrder` speaks of a log, but what the code goes by is where it
is: nobody looks at the number of the item it is given. Everybody shares
`lastSourceTransition_` and `needToCallNext_`, and who reads next is never
written down: it follows from the phases of all runs, luminosity blocks and
streams together. `SourceInv` says so. `RunNeeds` and `LumiNeeds`
are what a run or luminosity block needs of the source in each of its phases:
its own item, not read yet; that its item was the last one handled, and
perhaps that the next is at hand; or, for an open luminosity block, events.
`Found` says that each finds what it needs, and that if nobody
needs anything while the main thread waits for the tasks, then the item at hand
is one for the main thread, a file, a run or a stop. `MainFinds` is the same for
the calls of the main thread: `readFile` finds a file, `processRuns` a run, and
when it asks for the next item the last one is handled. An item
has one reader because no two runs, no two luminosity blocks and no run and
luminosity block are in need at once (`RunsInTurn`, `LumisInTurn` of `JobInv`);
of the streams, which all wait for the same item, one reads at a time, for the
source has one queue, and each looks again at what is there when its turn
comes. Once an exception is with the task that the main thread waits for, events may
be read by some streams and not by others: this is why the promise to an open
luminosity block ends there (`Streaming`). Every step that touches the
source is shown to take it from what one needs to what the next one needs, and
every other step to change nobody's need. `Numbers` carries the bounds that this
and `MainTypeOK` use. The bound of `iovPauses` counts the pauses of each status
(`PausesCounted`), two for a run and one for a luminosity block at most.

With this, every invariant and every action property of the passing runs is proved,
and every refinement. Only model-checked: the liveness properties, which are out of reach
of the prover; and the four properties that are violated, whose counterexamples TLC
finds.

## 6. Not modelled

Of the event processor: its configuration, the begin and end of the job and of
the streams, loopers, the state of the random numbers, exceptions thrown by
pushing to a queue (`exceptionRunStatus_`), items of the source of the kinds
`IsSynchronize`, which are passed over, and `IsRepeat`, a last file that cannot be read, the
times at which runs and blocks end. `streamQueuesInserter_`, which only
keeps tasks in order on their way to the streams, is left out. Of the event
setup: the look-up and making of products. The product resolvers but for the
one that `EventPaths` needs, shared memory and the message logger: see the
plan. The
move constructor of `SerialTaskQueue`, which is only used before a queue has
tasks. Configuration, plug-ins, provenance, services and
input and output are sequential code without protocols. Memory orders weaker
than sequential consistency: the one relaxed store, in `createNode()`, is to a
node that no other thread can see yet.

## 7. Plan

1. The hand-shakes of `SharedMemory` with time-outs; the hand-over of the
   message logger; the other product resolvers.
2. Larger inputs for the event processor; the failing pushes.
3. Proofs: that every late start the IOV queues and the event processor allow for is one that the
   limited queue can make, by composing them with its pauses, where they now allow any.
