# wdm_test in TLA+

`wdm_test` is a collection of small Windows kernel drivers. Each explores one
kernel mechanism (timers, DPCs, hand-made IRPs, process notifications, the
driver framework), prints what it sees and, most of them, returns a failure
from `DriverEntry` so that the I/O manager unmaps the image at once. They share
no code and do not call each other. What each of them interacts with is the
kernel: it runs their DPCs, timer callbacks, completion routines and threads
concurrently with `DriverEntry`, on several processors.

What can go wrong is therefore much the same everywhere: an asynchronous
routine still runs, or will run, when its memory or its code goes away; a
result is overwritten or not looked at; a wait does not wait. This directory
models the drivers in which that matters, one module per driver (one for the
two framework drivers, which come from one template), checks them with TLC and
proves every safety property of theirs that holds with TLAPS.

Paths are relative to `src/src/`.

## 1. Inventory

| Component | State | Operations | Talks to |
|---|---|---|---|
| `MultiTimerTest` | per timer `IsRunning`, `StopFlag`, `Log`; `RegCtx` with `RegedDPC`, `IsRunning`, `StopFlag` | `InitDPC`, `RegFunction` (DPC), `TimerFunction` (DPC), `DoLog`, `DeInitDPC`, `DriverEntry` | timer table and DPC queue of processor 0 |
| `HiResTimerTest` | two `EX_TIMER`s, two log buffers with cursors | two tests, two callbacks, two prints | `ExAllocateTimer`, `ExSetTimer`, `ExDeleteTimer` |
| `HarddiskDeviceTest` | `IoEvent`, IRP, MDL, buffer | `DoTest`, `MyIoCompletion`, `PrintBufferContent` | the disk's driver, the I/O manager |
| `DpcQueueTest` | one `KDPC`, `FlagStop` | `TestFunction` (DPC), `TestThread`, `DriverEntry` | the DPC queues of all processors |
| `WdfReadRegistryTest` | tracing, driver object, registry keys, devices, queue | `DriverEntry`, `EvtDeviceAdd`, `EvtIoDeviceControl`, `EvtIoStop`, cleanup | the framework, PnP, the registry |
| `EventLogTest` | the same | the same, and `TestEventLog1`..`3` | the same, and the event log |
| `WDMDigitalSignCheckTest` | the registration; per callback a buffer, a handle, two policies | `DriverEntry`, `DriverUnload`, `ProcessNotifyCB`, `GetProcessName`, `PrintCertInfo` | process creation, Code Integrity |
| `PtovTest` | a context, a buffer, two events | `DriverEntry`, a thread that maps the buffer's page | memory manager |
| `KernelThreadTest` | four events, two threads | `DriverEntry`, two thread functions | scheduler |
| `TimerCostTest` | a timer, its DPC, an array of DPCs | `DriverEntry`, `DriverUnload`, two DPC routines | timer table, DPC queues |
| `PnpEventNotificationTest` | one registration | `DriverEntry`, `DriverUnload`, `NotifyCallback` | PnP |
| `BigNumaNodeTest` | none beyond a call | a loop over nodes, a walk over records | topology queries |
| `PerformanceCounterTest`, `WDM_Unload_Test` | none | straight-line code | - |
| `ETWTest`, `MyDriver1`, `EventLogTest/WPP_FakeFiles` | - | no source of their own, or generated | - |

Hard behaviours, and what makes each component correct:

* **MultiTimerTest.** Interleaving of a polling thread with self-re-arming
  DPCs. Correct if the counters it polls are exact, the polling ends, and
  nothing that touches its data is left when it does.
* **HiResTimerTest.** A callback that appends without a bound and sets its own
  timer, against a sleep and a delete. Correct if the time allowed bounds the
  log and nothing happens after the delete.
* **HarddiskDeviceTest.** A completion routine that can run before, during and
  after the call that sends the IRP, and a wait for it that does not wait.
  Correct if each piece of memory is left alone once freed, which it is unless
  the call is pending and the wait times out.
* **DpcQueueTest.** One DPC object inserted from several processors, spinning
  routines that keep threads from running. Correct if the object is in at most
  one queue, also when it is initialised again, and all of it ends when told to.
  The second initialisation is not safe: see section 3.
* **WdfReadRegistryTest, EventLogTest.** Failure at any of several nested
  calls, and requests in flight while the device stops. Correct if tracing,
  keys and requests are each closed exactly once.
* **WDMDigitalSignCheckTest.** Concurrent callbacks with failures at every
  step, against unload. Correct if each gives back what it took, none runs
  outside the image, and what is reported is what happened.
* **PtovTest.** A wait that times out, then frees what the thread uses; a page
  that is mapped by its number. Correct if what is mapped is locked, and all of
  it outlives its use when the wait is long enough.
* **KernelThreadTest.** Two threads that may not exist, and an event that the
  driver leaves to others. Correct if it returns after both are through, and
  does so once notified.
* **TimerCostTest.** A partial failure while loading. Correct if unload takes
  back what load did and nothing else.
* **PnpEventNotificationTest.** Callbacks that begin before the registration
  has returned and go on while it is taken back; a device that may be gone.
  Correct if none runs outside the image and each gives back its file object.
* **BigNumaNodeTest.** A walk by variable lengths, with an unsigned remainder.
  Correct if it sees every record once and ends.

`PROJECT.json` lists the hazards line by line with the properties that watch
over them.

## 2. Modules

| Module | Role |
|---|---|
| `MultiTimer` | `MultiTimerTest/DriverEntry.c` |
| `TimerFleet` | the abstract contract that `MultiTimer` implements |
| `MultiTimer_proofs` | theorems about `MultiTimer` |
| `HiResTimer` | `HiResTimerTest/DriverEntry.cpp` |
| `HiResTimer_proofs` | theorems about `HiResTimer` |
| `DpcQueue` | `DpcQueueTest/DriverEntry.cpp` |
| `DpcQueue_proofs` | theorems about `DpcQueue` |
| `KmdfDriver` | `WdfReadRegistryTest` and `EventLogTest` |
| `KmdfDriver_proofs` | theorems about `KmdfDriver` |
| `HarddiskRead` | `HarddiskDeviceTest/DriverEntry.c` |
| `PtovThread` | `PtovTest/DriverEntry.c` |
| `KernelThreads` | `KernelThreadTest/DriverEntry.c` |
| `NumaWalk` | `BigNumaNodeTest/DriverEntry.cpp` |
| `OneShotDrivers` | the last four, one of them loaded; their fairness and liveness |
| `OneShotDrivers_proofs` | theorems about the four of them |
| `RunningSums` | induction over sets of numbers, and the running sum of a sequence of sizes; used by `OneShotDrivers_proofs` |
| `ProcessNotify` | `WDMDigitalSignCheckTest` |
| `PnpNotify` | `PnpEventNotificationTest/DriverEntry.c` |
| `TimerCost` | `TimerCostTest/DriverEntry.c` |
| `CallbackRegistration` | the abstract contract that `ProcessNotify` and `PnpNotify` implement |
| `ResidentDrivers` | `ProcessNotify`, `PnpNotify`, `TimerCost`, one of them loaded; their fairness and liveness |
| `ResidentDrivers_proofs` | theorems about the three of them |
| `TimerFleet_proofs` | theorems about the contract `TimerFleet` itself |
| `MC...` | the instances for TLC |

Each module holds the driver and as much of the kernel as the driver relies on.
An action is one atomic step of the driver: straight-line code up to the next
access to something another actor reads or writes. Local computation is folded
into the step that uses it. The kernel's primitives are operators with the
primitive's name. In every module some definitions are marked *Slip*: each is a
mistake one could make in that place of the code, unused by the specification;
putting it in the place of the correct definition (the one after it, where they
come in groups) makes a property fail, which shows that the property looks at
that code. Most are a line: the place itself is a small operator with a name
(`WaitOver`, `AfterQuery`, `Room`), so that a mistake there is one too.

### MultiTimer

State: the driver thread (`mainPc`, and `DeInitDPC`'s `i` and `running`), the
`volatile` fields the DPCs share with it, and the kernel (`armed` timers,
`queued` DPCs, what processor 0 executes and where). All DPCs are targeted at
processor 0, so at most one executes at a time, while the thread may run on any
other processor.

`TimerFunction` is split at each shared access: the test of `StopFlag`, the
log, the re-arm or the cancel, the decrement, and the return, which still
executes the driver's code. `RegFunction` is split into the increment (with the
test at its entry), `KeSetTimer` and the advance. The thread's scan reads one
`IsRunning` per step, and the loop's condition is a step of its own, because
the order of these reads matters. `InitDPC` is one step, since nothing else of
the driver exists yet. `KeDelayExecutionThread` inside the loop is given a
positive, hence absolute, time and does not wait.

A log line is a length, from `LineSizes`; a log is its size.

`DelayCoversRegistration` says whether the 20 s sleep of `DriverEntry` is taken
to outlast the registration of the timers, which needs 5 times 100 us of
processor 0 and a few DPC dispatches. Nothing in the code waits for it.

The contract `TimerFleet` has three variables: a phase, each timer's life
(idle, live, stopped) and each log's size. The refinement mapping reads a
timer's life off `IsRunning` and `RegedDPC`, the very fields the driver polls.

### HiResTimer

Time is part of the model, because the only bound on the unchecked `sprintf`
is the length of the sleep. One tick is 500 us. `Tick` advances while the thread
sleeps, up to `OVERSLEEP` ticks beyond the time asked for. A timer can expire at
its due time or any time later (the tolerance of the second one allows that). A
callback appends, sets the timer again and returns, in three steps; the kernel
does not run one timer's callback twice at the same time. `ExDeleteTimer` with
Cancel and Wait both TRUE disables and cancels the timer in one step and returns
in another, once no callback is under way. Either allocation may fail.

`CallbackLog` and its siblings are indexed by the test and stand for both
`ExTimerCallback1` and `ExTimerCallback2`.

### HarddiskRead

The thread, the disk's driver (which stores rows one at a time, completes the
request for success or failure at any moment, or never), and the completion
routine in its four steps, after which the I/O manager leaves the IRP alone.
`IoCallDriver` is two steps, so that the request can be completed before it
returns. `KeWaitForSingleObject` gets a positive, hence absolute and long past,
timeout: it returns at once, signalled or not (`Expired`). What it returns is
kept in `status`, where line 92 puts it too, although the code never looks at it
there; the properties do, to tell the harmless outcome from the other one.
`live` is what has been taken and not given back: the IRP, the MDL, the buffer,
and the reference on the file object that `IoGetDeviceObjectPointer` returns at
line 63, which nothing ever releases. Allocations succeed, as the code takes for
granted. `DriverEntry` then fails and the image goes: `OnlyFileLeftOver` says what
is still there.

### PtovThread

`DriverEntry` (allocate, create the thread, wait, free the context, free the
buffer) and `ThreadFunction`, one action per call it makes. `memory` is what
`DriverEntry` has allocated and not freed, `have` what the thread holds: the
lock on the page, its own MDL, an address range, a mapping. The wait is a
relative one of 10 s; `inTime` says whether the thread gets through by then, and
if not, the wait gives up. `GetFirstPfnFromVirtAddr` frees the first MDL without
unlocking the page. That is an omission, but it is also what keeps the page's
number valid until the mapping is made, as the comment in it demands:
unlocking there would be worse than not unlocking at all (`MappingBacked`).

### KernelThreads

Either `PsCreateSystemThread` may fail, unnoticed. The calls that would set
`EventNotify1` are commented out, so a person at the debugger stands for them
(`SetEventNotify1`); nothing makes that person act. The first thread polls the
event with a timeout of 0 and takes time stamps while there is room. Its
array is a count.

### NumaWalk

What the kernel returns is a sequence of group counts, chosen in the initial
state; the record's layout is external. Offsets and sizes are in units of 16
bytes (the size of a `GROUP_AFFINITY`): 2 up to the masks, 1 for each, one mask
even if the count is 0. `size` is unsigned and wraps at `ULONG`. A read at an
offset where no record begins finds zeros, as the buffer was cleared. The query
may fail.

### OneShotDrivers

These drivers do everything in `DriverEntry`, return a failure and are unmapped.
They do not interact, so the composition has one of them `loaded`, and a step
is a step of that one. Here are the fairness conditions and the liveness
properties.

### DpcQueue

The object has a target, a mark by which it takes itself for queued, and the
processors whose queues really hold it; the mark and the queues can disagree
after a second `KeInitializeDpc`, which is the point of modelling both. A
spinning DPC keeps its processor, hence the thread bound to it. `FlagStop` can
be set again only by someone at the debugger, where line 127 stops.

The pulse between the tests (lines 107-109) lasts 500 us, as long as the routine's
own stall between two looks at the flag, and guarantees nothing: a spinning DPC
may notice it or not, and a DPC queued behind one may be dispatched meanwhile or
not. Lowering the flag (`LowerFlag`) and initialising the object again
(`InitTest2`, line 114) are steps of their own, since a dispatch can come between.
`InitTest2` may find the object in a queue. The history variable `stale` remembers
that it did: from there on the queues of a real kernel are corrupt and the model
only says which processors' lists the object has been linked into.

### KmdfDriver

The variable `name` says which of the two drivers is running. `DriverEntry` has
one action per call that can fail, with a history variable that remembers
whether any has. Devices go through creation (three calls, any of which can
fail), start, stop, restart and removal. Requests are handed out by a parallel
queue, so that `EvtIoStop` can be called for a request that
`EvtIoDeviceControl` is working on. The framework's rules (cleanup when the
driver object is deleted, a stopping device waits for its requests) are taken
from the comments of the template, `Queue.c:160-196`, and from how the code
relies on them.

### ProcessNotify

Any number of processes is created concurrently; for each, the callback's
acquisitions and releases are separate steps and counted per kind (`held`), so
that both a leak and a second release show. `CiValidateFileObject` may fill
either policy whether it succeeds or not; `CiFreePolicyInfo` accepts an empty
one. Unregistering waits for the callbacks under way and admits no more.
Where the routine is decides what it holds; the proof rests on that.

### PnpNotify

`IoRegisterPlugPlayNotification` is asked to include the interfaces that exist,
so the callback runs for them (`Existing`) before the call returns and before
`hNotifyEvent` is written; others may arrive at the same time. Each callback
opens the device, which can fail, dereferences its file if it has one, and
returns. The PnP manager holds a reference on the driver object for the
registration, so that the image goes after the last callback
(`ImageGoes`): that is what the kernel gives to a driver that passes its
`DriverObject`, as line 20 does.

### TimerCost

Load and unload with their loops over the processors. The timer is initialised
and never set (line 73 is commented out), and nothing queues the other DPCs:
their routines never run and are not in the model. A load that fails inside the
loop leaves the pool behind; unload is not called for such a driver.

### CallbackRegistration

A phase (loading, open, leaving, gone) and the set of events whose callback is
being executed. Events begin only while it is open; it is gone only when none
runs; what began ends, and what is leaving is gone some day. `ProcessNotify` maps
`Register`'s success to open, `PnpNotify` already the moment at which existing
interfaces are reported.

### ResidentDrivers

The composition of the drivers that stay loaded, as `OneShotDrivers` is for the
others.

## 3. Runs

| Run | Shows |
|---|---|
| `multitimer_any` | 3 timers, no assumption on the delay: types, `Accounting`, `DriverEntryReturns` |
| `multitimer_settled` | the delay outlasts the registration: `StoppedAfterWait`, `LogsFrozenAfterWait`, `ImplementsFleet` |
| `multitimer_race` | violated: `StoppedAfterWait` without that assumption |
| `multitimer_unload` | violated: `NoCodeAfterUnload`, even with it |
| `hirestimer` | `LogFits`, `QuietAfterTest`, `PrintedLogsFinal`, `DriverEntryReturns` |
| `oneshot` | disk read: `ReleasedBeforeEvent`, `ReadReturns`, and, unless the wait times out, `OnlyFileLeftOver`, `BufferStable`; `PtovTest`: `MemoryOutlivesThread`, `MappingBacked`, `PtovReturns`; kernel threads: `ThreadsEndFirst`, `NotifiedReturns`; NUMA records: `PrintsEveryMask`, `WalkEnds` |
| `dpcqueue` | `LinkedOnce`, `EverythingStops`, unless line 114 finds the object in a queue |
| `dpcqueue_both` | violated: `BothRunning` |
| `kmdf` | `TracingBalanced`, `KeysClosed`, `CompletedOnce`, `StopEnds` for both drivers |
| `kmdf_status` | violated: `EntryReportsOutcome` for `WdfReadRegistryTest` |
| `resident` | process callback: `NothingLeaked`, `NoCallbackOutsideImage`, `UnloadReturns`, `ProcessImplementsRegistration`; PnP callback: `ReferencesBalanced`, `PnpImplementsRegistration`; timer cost: `UnloadUndoesLoad` |
| `processnotify_name` | violated: `PrintedNameIsThere` |

`CHECK_DEADLOCK FALSE` is set throughout: every driver ends, in `DriverEntry`'s
failure or its unload, and then nothing is left to do.

### What the violated ones show

* **multitimer_race.** The loop reads the timers' counters first and
  `RegCtx.IsRunning` last. `RegFunction` can register a timer that the scan has
  already passed and finish before the condition is evaluated; the loop ends
  with that timer armed. `RegFunction` never looks at `RegCtx.StopFlag`.
* **multitimer_unload.** `TimerFunction` gives its count back before it returns.
  The thread can be through and the image unmapped while processor 0 is still
  in the routine. The code never flushes the DPC queue. The comment over the
  loop, "wait all timer stopped to prevent BSoD", is not quite honoured.
* **dpcqueue_both.** Two insertions of one object, the second before the first
  is dispatched: it is refused, and only one processor runs the DPC, even if Test 1
  has left nothing behind.
* **kmdf_status.** The status of the query for `TEST2` is overwritten by that
  of opening `Device`. (`EventLogTest`'s `DriverEntry`, under the same header
  comment, returns `TestEventLog3()`, a failure, whatever happened before: it
  never stays loaded.)
* **processnotify_name.** `ZwClose`'s status overwrites that of the failed query.

### What can go wrong without a comment to say otherwise

Three more behaviours of the code are in the models, reachable, and wrong. No
comment, assertion or test promises the contrary, so there is no violated run for
them; the properties state instead what the only way to them is, and hold.

* **The disk read's wait** (`HarddiskDeviceTest/DriverEntry.c:91-92`). The call is
  pending; the wait returns `STATUS_TIMEOUT` at once, since 150,000,000 is an
  absolute time early in 1601; the buffer is printed while the device stores
  into it, then freed; `DriverEntry` fails and the image goes; the device stores
  another row into freed memory and the completion routine is called where it no
  longer is. `BufferStable` and `OnlyFileLeftOver` say that this takes
  that timeout: a read completed within the call, or before the wait, is safe.
* **The object initialised while it is queued** (`DpcQueueTest/DriverEntry.cpp:114`).
  After the first three insertions of Test 1 the DPC spins on processors 1, 2 and
  3; the fourth leaves the object queued behind the DPC on processor 1, and the
  last two are refused. Processor 2 notices the pulse and processor 1 misses it;
  line 114 makes the object forget that it is linked; thread 2 inserts it and is
  accepted: the same list entry is now in the queues of processors 1 and 2, the
  first of which is still blocked. `LinkedOnce` says that it takes line 114:
  no target change, refused insertion or pair of threads does it.
* **The thread's wait of `PtovTest`** gives up after 10 s and frees what the
  thread uses. `MemoryOutlivesThread` says that this takes a thread that is not
  through by then.

Two leaks are on every such path rather than in an interleaving: the disk's file
object (line 63, kept in `live`), and `TimerCostTest`'s array of DPCs when its load
fails at line 59, for which unload is not called. A thread that `KernelThreadTest`
could not create makes its `DriverEntry` wait for ever.

Differences between comments and code that need no run:
`HiResTimerTest/DriverEntry.cpp:92` says 500 us, the call uses 2 ms;
`DpcQueueTest/DriverEntry.cpp:30` says processor 0, the thread binds to its
argument's; `WDMDigitalSignCheckTest` says of two 64-byte sizes that they must be
greater than 64.

### Bounds, and why they are enough

The bounds below are those of the liveness properties and of the violations.
The safety properties are also theorems (section 4), for every size.

* **MultiTimer**: 3 timers (5 in the source), logs of 6 bytes with lines of 2
  and 3. A timer can be before, at and behind the scan; a log can fill exactly,
  by a long line or by a short one. The violations need only 2. The theorems
  cover every other number and size.
* **HiResTimer**: sleeps of 4 and 40 ticks, intervals of 1 and 4, so both tests
  expire a different number of times and can meet the delete in any position.
  `LOG_SIZE` is the smallest that satisfies `Budget`. With the source's numbers
  (sleeps of 2,000 and 20,000 ticks, 1 MB, lines of at most 46 bytes), `Budget`
  holds as long as the thread resumes less than about 10 s late after the first
  sleep and 35 s after the second.
* **HarddiskRead**: 6 rows (64 in the source), which gives every order of
  prints, transfers and completion.
* **PtovThread**: nothing is bounded.
* **KernelThreads**: 3 time stamps (a million in the source), so the polling
  goes on with the array full.
* **NumaWalk**: all sequences of 1 to 4 records of 0, 1 or 2 groups, with an
  unsigned size of 32 units, twice the longest answer: a walk that goes wrong
  wraps.
* **PnpNotify**: 3 events, one reported during the registration, two that can
  meet it and the unload.
* **TimerCost**: 3 processors: a failure at the first, the middle, the last.
* **DpcQueue**: the source's own processors, targets and threads; nothing is
  smaller.
* **KmdfDriver**: 2 devices, 2 requests: one can stop while the other serves,
  and two requests can be in flight on one device.
* **ProcessNotify**: 3 callbacks at once. They share only the registration.

Symmetry is used in the two violation runs of `KmdfDriver` and `ProcessNotify`
only, which check an invariant.

### Fairness

* `MultiTimer`: the thread, processor 0 and an armed timer go on. Which DPC the
  processor takes next is not assumed to be fair: each timer's log fills up, so
  none can take it for ever.
* `HiResTimer`: time, the thread, and a callback once begun. No timer has to
  expire.
* `HarddiskRead`: the thread only. The device may never answer.
* `PtovThread`: `DriverEntry` only. Its thread stops at a breakpoint and need
  not go on.
* `KernelThreads`: the three threads. Nobody has to notify.
* `NumaWalk`: the driver.
* `DpcQueue`: threads that can run, processors, and the person at the debugger,
  without whom the driver waits for ever by design.
* `KmdfDriver`: the driver's handlers, `DriverEntry` and the framework's end of
  a stop, of the cleanup and of the unload. PnP and applications need not act.
* `ProcessNotify`: callbacks under way and the waiting unload. No process has to
  be created, and nobody has to stop the driver.
* `PnpNotify`: callbacks under way, and the image's end after the last one.
* `TimerCost`: none; nothing is said of what it must do.

## 4. Proofs

All of them hold for every value of the constants that the module's
`ConstantsOK` admits. Every safety property that a run of section 3 expects to
pass is one of the theorems. Each component has one inductive invariant, a
conjunction of named parts; each part says what a property needs and does not say
itself, mostly what is held, open or under way at each place of the code.

**MultiTimer** (`MultiTimer_proofs`). `Accounting` is not inductive: that a
decrement reaches exactly 0 needs to know that the timer is in one place only
(`OnePlace`: not armed and queued, nor queued while it executes), that timers
not yet registered are untouched (`FreshTimers`), and that `RegedDPC`, the
registration's counter and its DPC agree (`Registration`). `IInv` joins these
with the types and loop bounds. From it follow

* `TypeCorrect` and `CountersExact`: `TypeOK` and `Accounting`, unconditionally;
* `Quiescent`: `StoppedAfterWait`, assuming `DelayCoversRegistration`. The
  additional invariant `Settled` says that once the registration is over a
  counter that was seen as 0 stays 0 (lemma `NoMoreRegistration`), hence that a
  round of zeros means that all are zero now, and `Accounting` turns that into
  the absence of live timers;
* `LogsFrozen`: the action property, from the same two invariants;
* `Implements`: `Spec` implies `TimerFleet`'s, step by step, under the same
  assumption;
* what remains of the properties that two runs show violated. Without the
  assumption (`multitimer_race`), `SurvivorsAreTold` and `SurvivorsEnd`: behind
  the loop the registration is over and every stop flag raised (`Told`), so that
  no timer comes to life and none begins a line; and, at any time, `StaysStopped`:
  a counter that has come back to 0 stays 0, so that a scan is misled only by a
  timer that was not registered when it was read. With it
  (`multitimer_unload`), `OnlyTheReturnIsLeft`: nothing is armed or queued, and
  the routine that may still execute is on its last instruction.

**HiResTimer** (`HiResTimer_proofs`). `TypeCorrect` is `TypeOK`. `TestsEndQuiet`
needs to know that a deleted timer cannot be set again and that future tests have
no timer (`Setting`, `NoTimer`). `AppendsFit` rests on `PaceOf`: the log's length
times the interval never exceeds the longest line times the time elapsed, with a
term for the setting that is pending and one for the callback that is under way;
with `InTime` and the assumption `Budget` this bounds the log. `LogsFinal` is the
action property.

**OneShotDrivers** (`OneShotDrivers_proofs`). A step of the composition is a step
of one driver and none of the others' (lemma `StepOfOne`), so each has an
invariant of its own.

* *HarddiskRead*, for any number of rows. `Request` says what is left of IRP and
  MDL at each place of the request, and that the event is set exactly at the last
  two; `Sending` what has been taken, and how far the request is, at each place of
  `DoTest`; `OverUnlessTimeout` that behind the wait the request is over or never
  was, unless `status` says timeout. From them `EventMeansReleased`,
  `OnlyFileLeft`, and the action property `OnlyTimeoutTears` (which is
  `BufferStable`). Nothing is assumed about time.
* *PtovThread*. `Holding` says what the worker holds at each place, from which
  `MappingIsBacked` can be read off; `Handed` that the worker exists only with its
  memory and, if in time, is done before any of it is freed: `MemoryOutlives`.
* *KernelThreads*, for any room for time stamps. `Joining` ties the events to the
  places of the threads that set them, and `main`'s wait to the events:
  `ThreadsJoined`.
* *NumaWalk*, for any number of records and groups whose total a `ULONG` can
  count. `Walking` says that the walk is at the start of some record or past the
  last (`At`), that `size` is what the records from there on take, and that what
  has been printed is the masks of those before and the first of its own. `PrintMask` and `Advance` keep it,
  and neither remainder modulo `ULONG` ever changes anything
  (`TypeCorrect`: `size` does not wrap). When `size` is 0 the walk is past the
  last record: `WalkIsExact`.

  That the recursive definition of `Start` defines a function at all, that its
  values grow strictly and that they end within `MAX_NODES * (2 + MAX_GROUPS)`
  are inductions over the records. The library's induction theorems take the
  predicate as a parameter, which no prover here can instantiate. `RunningSums`
  does without: it states induction for a *set* of numbers (`SetInduction`), from
  the existence of a least element (`LeastNumber`), which follows from the
  well-foundedness of strict inclusion on finite sets. A set can be given, so each
  use is a plain instance.

**KmdfDriver** (`KmdfDriver_proofs`), for any devices and requests.
`CompletedOnce` is not inductive, since nothing in it says that a handler runs
once: `Answered` says that a request has been completed exactly if its handler
has returned, and that a request no device has seen has none. This is where
`ConstantsOK` has to say that `NoDevice` is no device. `KeysHeld` says
which keys are open at each call, `Tracing` that from the creation of the driver
object on tracing is on as long as the object exists, `Loading` that the framework
takes down only what has been loaded. Theorems `TypeCorrect`, `TracingStopped`,
`KeysAreClosed`, `CompletedAtMostOnce`. What remains of `EntryReportsOutcome`,
which `kmdf_status` shows violated: a reported failure is real
(`ReportsRealFailures`), and the only one lost is that which opening the `Device`
key overwrites (`OneStatusLost`). `NeverStaysLoaded`: `EventLogTest` never runs.

**DpcQueue** (`DpcQueue_proofs`), for any processors and any sequence of targets,
whatever misses the pulse. Before Test 1 nothing has been inserted (`NotYet`), and
`stale` can be set by line 114 only, so that `LinkedOnce`, which speaks of the
states in which it is not, is kept by every step: an insertion adds a queue only
when the object's mark is clear, hence when no queue holds it. Theorems
`TypeCorrect` and `OnlyInitLinksTwice`. `OneIsRunning` is what remains of
`BothRunning` (`dpcqueue_both`): if line 114 found the object in no queue, an
insertion is refused only because the other has been accepted (`SecondTest`), so
the DPC runs on one of the two processors.

**ResidentDrivers** (`ResidentDrivers_proofs`), for any processes, ports and
number of processors. The invariant has one part for each driver, as above.

* *ProcessNotify*. Neither `NothingLeaked` nor that `held` stays in 0..1 is
  inductive: `Holds` says for each point of the callback exactly what is held
  there, whichever call failed before, and `Unregistering` that nothing runs
  outside registered and leaving, which `NoCallbackOutsideImage` needs for the
  phase before the registration as well. Theorems `GivesBack`, `InsideImage`.
* *PnpNotify*. `References` ties the count to the callback's place and the status
  of its open; `Registering` also says that a registered driver has its handle,
  without which its unload would take nothing back. Theorem
  `ReferencesGivenBack`.
* *TimerCost*. `Loading` and `Unloading` say what exists at each stage: the loop
  has initialised exactly the DPCs below `cpu`. Theorem `UnloadExact`.

`TypeCorrect` joins them. `ProcessImplementsSafety` and `PnpImplementsSafety`
show that every step of the two is one that `CallbackRegistration` allows, or
none.

**The contract** (`TimerFleet_proofs`). A contract that allowed too much would
make a refinement worthless. `FleetInOrder` and `FleetIsFinal`: in any
implementation of `TimerFleet` timers start in order, a stopped one stays stopped,
and from done on, when all are, nothing changes.

**Assumptions.** Apart from `ConstantsOK` of each module, which only says what the
constants are: `Budget` in `AppendsFit`, `DelayCoversRegistration` in the theorems of
`MultiTimer` that name it, and `inTime`, a variable of `PtovThread` fixed in the
initial state, in the statement of `MemoryOutlives`. They are the places where the
code relies on time. Three statements have a condition on the state instead:
`OnlyFileLeft` and `OnlyTimeoutTears` speak of a read whose wait did not time out,
`OnlyInitLinksTwice` and `OneIsRunning` of an object that line 114 found in no
queue. Both conditions can fail in the code, as section 3 says.

**Only model-checked.** Every liveness property (`DriverEntryReturns` of both
timer drivers, `ReadReturns`, `PtovReturns`, `NotifiedReturns`, `WalkEnds`,
`EverythingStops`, `StopEnds`, `UnloadReturns`) and the liveness half of the two
refinements of `CallbackRegistration`: the prover does neither fairness nor
`ENABLED`.

## 5. Plan

Every module of section 2 is there, every property that holds is checked, and
every safety property among them proved. What is left is to bring the proofs
closer to liveness: the safety halves of those arguments, as theorems.

1. `NumaWalk` and `PtovThread`'s `DriverEntry`: every step makes a measure smaller
   (records left, then masks left), so that only fairness is missing.
2. `DpcQueue`: with `FlagStop` set for good, the DPC is inserted at most once more
   by each thread, and the routine left for good after that.

## 6. Not modelled, and why

* `PerformanceCounterTest` and `WDM_Unload_Test`: no state.
* `EventLogTest/WPP_FakeFiles`: generated trace macros. `.inf`, project and
  solution files: no behaviour. `ETWTest` and `MyDriver1` contain nothing else.
* `IsProcessFileSignatureValid` and the code under `#if 0` in
  `FileSignatureCheck.cpp`: never called, never compiled. The walk over the
  certificate chain of `PrintCertInfo` (lines 142-162): it changes no state that
  outlives it, but lines 150 and 151 copy the issuer's and the subject's name, by
  its own `NameLen`, into 64 bytes on the stack, and nothing bounds that length. The
  model has neither names nor stack; the copies are listed as a hazard that no
  property covers.
* Contents everywhere: timestamps, registry values, disk data, the text of
  messages. No property depends on them; where a length matters it is kept.
* Power states and timer resolution: no control flow depends on them.
* `TestEventLog1` and `TestEventLog2` of `EventLogTest`: they write to the event
  log, keep no state, and nothing calls them.
* The loop over node numbers in `BigNumaNodeTest`: it only prints. (It takes the
  highest number for the number of nodes and leaves out the last one.)
* `TimerCostTest`'s DPC routines: they never run, see `TimerCost`.
* That a thread which has set its last event is still to execute its return
  when the image goes (`PtovTest`, `KernelThreadTest`, `DpcQueueTest`): the models
  show the state (`PtovThread`'s worker in `"Return"`), the code relies on time,
  and there is nothing a property could hold it to. For `MultiTimerTest`, whose
  comment does promise it, it is the run `multitimer_unload`.
* In `PtovTest`: that the buffer comes from paged pool, for which
  `MmBuildMdlForNonPagedPool` is not meant.
