# A TLA+ model of low_latency_layer

low_latency_layer is a Vulkan layer that implements two latency extensions,
`VK_NV_low_latency2` (Reflex) and `VK_AMD_anti_lag`, on drivers that lack them.
It wraps every queue submission in two GPU timestamps, remembers which
submissions belong to which frame, waits for a frame's GPU work in threads of
its own, and delays the application so that it samples its input as late as
possible.

This directory holds TLA+ models of that program, the TLC configurations that
check them on small instances, and proofs, checked by TLAPS, of what holds for
instances of every size.  All paths below are relative to the repository; most of
the code is in `src/`.  `PROJECT.json` maps every definition to the lines it
models.

    tlc -workers 2 -config MCTimestampPool.cfg MCTimestampPool
    tlapm TimestampPoolProofs.tla

## 1. The system

### Threads and locks

| thread | created by | waits for |
|---|---|---|
| application threads | the application | hooks run on them; they block on layer locks, on the anti-lag gate and in joins |
| reaper, one per pool | `TimestampPool` | work in `expiring_handles`, GPU timestamps |
| swapchain monitor, one per swapchain | `SwapchainMonitor` | work in `pending_signals`, GPU timestamps, the pacer |
| `SwapchainMonitorProofs` | proofs about it and that it implements `LatencySleep` | |
| anti-lag monitor, one per device | `AntiLagMonitor` | `pending_spans`, GPU timestamps, the pacer |
| calibration thread, one per device | `DeviceClock` | a period of a second |

All are `std::jthread`s: destruction requests a stop and joins.  The mutexes are
the layer's (map of contexts), one per pool, per queue strategy, per device
strategy and per monitor.  The GPU is one more actor: it completes submissions
when it likes.

### Components

**Timestamp pool** (`timestamp_pool.{cc,hh}`, `queue_context.{cc,hh}`).
*State:* chunks of queries with their free indices; handles (chunk, index,
`was_submitted`); the queue `expiring_handles`.  *Operations:* `acquire` resets
the queries and records the command buffers of an index; the last owner's
deleter queues the handle; the reaper waits for its timestamps, if it was
submitted, and frees the index; the destructor drains and stops the reaper.
*Hard:* a handle that passes through three threads, any of which may let it go last, rejected submissions, batches, an
index reused while the GPU writes it, shutdown.  *Correct if* no index has two
owners or is free while the GPU may write it, every handle is recycled once, the
reaper always ends, and Vulkan's rules on queries are kept.

**Submission spans** (`submission_span.{cc,hh}`).  First and last handle of a
run of submissions; waiting means waiting for the last.

**Low latency 2 queue strategy** (`strategies/low_latency2/queue_strategy.*`).
*State:* map from present id to span, ring `stale_present_ids`, out-of-band flag.
*Operations:* track a submission, evict, mark out of band.  *Hard:* ids that are
never presented, ids used again, a ring and a map that presents change
differently.  *Correct if* memory is bounded and no tracked work is lost or
counted twice.

**Low latency 2 device strategy and swapchain monitors**
(`strategies/low_latency2/{device_strategy,swapchain_monitor,semaphore_signal}.*`).
*State:* map from swapchain to monitor; per monitor the mode, the spans of the
last present, a queue of sleep requests.  *Operations:* create and destroy
swapchains, set the sleep mode, present, sleep; the monitor takes a request,
waits for its spans, paces and signals the semaphore.  *Hard:* mode changes and
destruction with requests pending, reused handles, a join under a mutex, a check
and a signal that are two driver calls.  *Correct if* every request is answered,
after the work of its frame, and semaphores only move upwards.

**Latency markers and timings** (in the low latency 2 device strategy).  *State:*
a ring of 64 records of marker times, by present id.  *Operations:* record a
marker, copy the times of given ids.  *Hard:* markers that come late, from several
threads, or for a record that was dropped.  *Correct if* a reported time is one at
which the application set that marker for that frame.  Reporting only; no pacing
depends on it.

**Anti-lag strategies and monitor** (`strategies/anti_lag/*`).  *State:* mode,
current frame, a span per queue, one slot for a frame, `work_in_progress`.
*Operations:* update (off, INPUT, PRESENT), track, collect, hand over and block,
await, poll the driver for present times, pace.  *Hard:* one condition variable
for two kinds of waiters, hand-over in two critical sections, a swapchain read
without a lock.  *Correct if* at most one frame is in flight, no wake-up is lost,
every update returns and the device can be destroyed.

**Pacers** (`presentation_pacer`, `predictive_queue_pacer`,
`display_deadline_pacer`, `fps_limiter`, `sleep_util`).  *State:* last release,
moving averages, window, refresh cycle, anchor, PI controller.  *Operation:*
`pace` sleeps until the release time and returns it; `set_swapchain` and
`set_present_mode` change the display's data.  *Hard:* caps, hitches, rounding,
clamps in the right order, fields written while another thread sleeps.  *Correct
if* caps hold, sleeps are bounded and frames meet the vblank.

**Present timing probe** (`present_timing_probe.*`).  Asks the driver for the
refresh cycle and past presents; no state.

**Layer contexts** (`layer_context.*`, `*_context.*`, parts of `layer.cc`).
*State:* map from the address of a dispatchable object to its context; lists of
children.  *Operations:* create, enumerate, get queue, look up, destroy.
*Hard:* addresses the driver reuses, calls split by the lock, partial
enumeration.  *Correct if* a lookup finds the context of the object that lives
at the address now.

**Device and queue contexts** (`device_context.*`, `queue_context.*`).  They own
clock, strategies, pools and queues, and with them all threads of the layer.
*Hard:* threads that use each other's objects while these are destroyed one after
the other, under the layer's mutex.  *Correct if* nothing is used after it is gone
and every hook returns.

**Device clock** (`device_clock.*`).  Calibrates GPU ticks against the host
clock again and again, in a thread of its own.  *Hard:* a calibration between the
conversions of the two ends of a span.

**Capabilities and dispatch hooks** (`layer.cc`, `physical_device_context.cc`,
`helper.*`) and **strategy interfaces** (`strategies/*.{cc,hh}`) keep no state
that changes.

### How they interact

    application --vkQueueSubmit--> hook --acquire--> pool
                                     '--driver--> GPU
                                     '--notify_submit--> queue strategy (keeps handles)
    application --vkQueuePresentKHR--> device strategy --collects spans--> monitor
    application --vkLatencySleepNV--> device strategy --request--> monitor
    application --vkAntiLagUpdateAMD--> anti-lag strategy --frame--> monitor
    monitor --awaits--> GPU ; --pace--> pacer ; --signal / notify--> application
    monitor, strategy --last reference dropped--> pool's reaper
    application --vkDestroyDevice--> layer's mutex --joins--> monitor, reaper, calibration

## 2. Modules

| module | models | main state | 
|---|---|---|
| `VkQueries` | contract: what Vulkan allows on timestamp queries | `gpu`, `destroyed` |
| `TimestampPool` | the pool, both submission hooks, the reaper, the queue's end | `free`, `slot`, `holders`, `expiring`, `reaper` |
| `TimestampPoolProofs` | proofs about it | |
| `SubmissionTracking` | spans by present id on all queues, presents that collect them | `spans`, `stale`, `todo`, `work` |
| `SubmissionTrackingProofs` | proofs about it | |
| `LatencySleep` | contract: what `vkLatencySleepNV` promises | `counter`, `requested` |
| `SwapchainMonitor` | device strategy, monitors, semaphore signals | `monitors`, `pending`, `pendingWork`, `mpc`, `pc` |
| `FrameContract` | contract: what anti-lag does with the submissions of a frame | `tracked`, `due`, `awaited` |
| `AntiLag` | anti-lag strategies and monitor | `span`, `pending`, `workInProgress`, `waiters`, `mpc` |
| `AntiLagProofs` | proofs about it and that it implements `FrameContract` | |
| `Pacing` | Tier 1 and Tier 2 pacers, swapchain data | `releasePrev`, `deadline`, `refresh`, `anchor` |
| `PacingProofs` | proofs about it | |
| `LatencyMarkers` | the ring of markers and the reports | `ring`, `stamp`, `called` |
| `LatencyMarkersProofs` | proofs about the ring | |
| `DeviceLifetime` | a device's objects, threads and locks, from creation to destruction | `alive`, `worker`, `place`, `layerMutex` |
| `DeviceLifetimeProofs` | proofs about it | |
| `LayerContexts` | the map of contexts and object lifetimes | `contexts`, `object`, `known` |
| `LayerContextsProofs` | proofs about it | |
| `MC*` | small instances for TLC | |

Three of them are contracts, abstract specifications that the detailed modules
implement: `TimestampPool` instantiates `VkQueries` (as `Vk`), `SwapchainMonitor`
`LatencySleep` (as `LS`) and `AntiLag` `FrameContract` (as `FC`), each with a
refinement mapping in the `INSTANCE`; the contract is a `PROPERTY` of the run.
`DeviceLifetime` composes: the frame pipelines of both extensions, reduced to handles that
move from one object to the next, with the pool's reaper, the clock's thread, and the creation
and destruction of all of them.

Conventions.  An action is one critical section, or one driver call where the code
holds no lock or where another thread can act between two calls.  A thread that
keeps a lock across several steps is in a program-counter state that the guards of the others
test (`StrategyFree`, `MonitorFree`).  Objects like handles, spans of a
present or semaphores are model values.  Variables marked *history* record what
happened for the properties' sake and guard nothing in the code.  Operators whose names
begin with `Mut` are deliberately broken variants of the definition that follows
them, a dropped guard or an off-by-one; putting one in the place of its
original makes the property fail it is listed with in `PROJECT.json`, which shows
that the property does depend on that line.  No specification uses them.

How state and actions correspond to the code:

* **TimestampPool.** `holders[h]` are the owners of the `shared_ptr`; `SetHolders` is
  the custom deleter when it empties.  `Acquire` is
  `TimestampPool::acquire` with the constructor of `Handle`; `DriverAccepts` /
  `DriverRejects`, `Notify` and `Discard` are the hook around the driver's call,
  one submit info at a time; `Drop` stands for every strategy, monitor
  or span that releases a handle (spans are moved from one to the other, never copied, which
  the pool does not see); `ReaperTake`, `ReaperRecycle`,
  `ReaperExit` are the loop of `do_reaper`; `BeginDestroy`, `RequestStop`,
  `FreeChunks` follow the order of the members' destructors.
* **SubmissionTracking.** `Submit` is `notify_submit` with its eviction; `BeginPresent`,
  `Collect` (one queue, one lock) and `Attach` are
  `submit_swapchain_present_id`.
* **SwapchainMonitor.** `CreateSwapchain`/`NotifyCreate`,
  `NotifyDestroy`/`Joined`/`DriverDestroy` are the swapchain hooks with the
  strategy's part; `SleepQueued`, `SleepDirect` and `DirectSignal` the ways through
  `notify_latency_sleep_nv`; `Take`, `Awaited`, `Check`, `Signal`, `Exit` the
  monitor's loop.
* **AntiLag.** `UpdateMode`, `UpdatePresent`, `UpdateInput`, `Collect`, `Gate`, `Publish`,
  `NotifyOne` are `notify_update` and `enqueue_work`; `Submit`/`Store` are the two
  locks of `notify_submit`; `MonitorTest` to `MonitorNotifyAll` are `do_monitor`.
* **Pacing.** `Begin` computes what `PredictiveQueuePacer::pace` computes and
  goes to sleep; `ReturnJit`, `AlignVrr`, `AlignGrid`, `ReturnAligned` are the rest
  of `DisplayDeadlinePacer::pace`; `SetSwapchain` and `Write` are
  `set_swapchain`, each plain field a step of its own.
* **LatencyMarkers.** `SetLatencyMarker` reads the clock, `Store` is what follows under
  `marker_mutex_`, `WithRecord` is `get_or_create_marker_record`, `Report` one turn of
  the loop in `copy_latency_timings`.
* **DeviceLifetime.** `Declared` is where each member of the two contexts is declared, and
  `Doomed` the member whose destructor is next, the last one declared of those left;
  `BeginDestroy`, `StopWorker`, `DestroyMember`, `Unlock`, `DestroyInDriver` are
  `DestroyDevice`; `BuildDevice`, `BuildQueue`, `AddQueue` are the
  constructors with the locks `CreateDevice` and `GetDeviceQueue` hold; `Submit` to
  `Enqueue` move handles as the hooks do, and `MonitorTake` to `WorkerEnds` are the loops
  of the three threads.
* **LayerContexts.** Each call is the driver's step and the layer's, in the order the
  code has them; `Found` is the two assertions of `get_context`.

## 3. What TLC checks

| run | instance | states | checks |
|---|---|---|---|
| `pool` | 2 chunks of 2, 3 handles, 1 tracker, batches of 2 | 363,799 | `TypeOK`, `SlotOwnership`, `FreeSlotIsIdle`, `OnePlace`, `CleanShutdown`, `VulkanContract`, `ReapedEventually`, `DestroyTerminates` |
| `monitor` | 2 threads, queues of 2, three loads: 2 swapchains and 2 values; 2 swapchains, 1 frame, 1 value; 1 handle, 2 frames, 2 values | 220,120 | `TypeOK`, `NoSignalDropped`, `FreshSignal`, `MonitorsLiveSwapchain`, `SignalFollowsFrame`, `SleepContract`, `DestroyTerminates` |
| `monitor_switch` | an application that does not await before it switches | | finding, `FreshSignal` |
| `tracking` | 2 queues, 3 ids, rings of 2, 2 presenting threads | 316,052 | `TypeOK`, `TrackingIsBounded`, `TrackedIsInRing`, `Accounted`, `PresentMissesNothing`, `EvictsOldest` |
| `antilag` | 1 frame thread, 3 queues, one of them for compute, 2 submissions, 1 swapchain | 57,757 | `TypeOK`, `BackPressure`, `NoLostWakeup`, `InputReturns`, `StopTerminates`, `FrameSpec` |
| `antilag_poll` | same, 2 swapchains | | finding, `PollsLiveSwapchain` |
| `contexts` | 6 addresses, 2 lives each, 2 threads | 20,350 | `TypeOK`, `LookupFindsObject`, `NoStaleContext`, `KeyIsFree`, `OwnersKnowTheirChildren` |
| `contexts_partial` | an application that asks for part of the devices | | finding, `LookupFindsObject` |
| `lifetime` | either extension, 2 threads, 2 handles, any number of devices | 144,150 | `TypeOK`, `PartsInUseAreAlive`, `CallsReturn` |
| `pacing` | both tiers, cycle 3, caps 0, 2 and 4, window 2, calls in 6 ticks | 1,496,321 | `TypeOK`, `LongRunCap`, `BoundedSleep`, `Tier1Cap`, `ReleasedAtVblank` |
| `pacing_cap` | same | | finding, `FrameRateCap` |
| `markers` | 2 threads, 3 ids, a ring of 2 | | finding, `ReportsMarkers` |

### What they show

* **pool.**  An index of the pool is never lost, never handed out twice
  and never free while the GPU may still write its timestamps, although the
  submitting thread or the owner of a span may be the last to let go, a batch
  may be rejected after its handles were recorded, and handles of a batch may be
  dropped before the later ones are flagged as submitted.  `VulkanContract` is
  the refinement: the pool behaves as `VkQueries` allows.  Under fairness every
  queued handle is recycled and the destruction ends.
* **monitor.**  No sleep request is dropped by mode changes, unknown
  swapchains or destruction; a semaphore is raised only upwards and only after
  the frame that was presented last before the request; the thread of a monitor
  is gone before its swapchain handle is; and the whole implements `LatencySleep`,
  liveness included (`SleepContract`).  The join under the strategy's mutex does not
  deadlock because the monitor takes only its own mutex.
* **tracking.**  Ring and map stay bounded although presents remove ids from the
  map alone; every submission is in exactly one place, and a present misses no
  submission that was notified before it began.
* **antilag.**  The gate and the hand-over are two critical sections, and still no two
  frames are in flight; with `notify_one` on a shared condition variable
  no wake-up is lost *as long as one thread drives the frames* (see 6).  `FrameSpec` is the
  refinement: what an update at the INPUT stage hands over is at least all that was tracked when
  it began, nothing is handed over twice or lost, also when the mode is turned off and on in
  between, the monitor lets go of a frame only when all of it is complete, and it does so
  in the end.
* **contexts.**  A context is erased before the driver can reuse its address, also
  that of the children, so that a lookup never finds the context of a dead
  object and the insertions' assertions hold.
* **lifetime.**  Devices are created, used and destroyed again and again, while another thread
  is in a hook of the device or, during the destruction, of another one.  Each thread and
  each handle finds the objects it uses until it has ended: the strategy's last handles
  reach the pool, and the reaper's last timestamps the clock (`PartsInUseAreAlive`; a clock
  declared last would break it).  `vkDestroyDevice` joins three threads with the layer's
  mutex held, and `vkGetDeviceQueue` waits for the device's mutex with it held; both
  return, and with them the hooks that wait for that mutex (`CallsReturn`).  It holds because
  none of the threads looks anything up in the layer: a monitor that did would
  deadlock.
* **pacing.**  The caps hold frame by frame in Tier 1 and in the long run in Tier 2,
  for any estimates, hitches and feedback, and for GPU intervals that a calibration has
  shortened or turned around; a sleep is bounded by the cap's floor
  and one refresh cycle.  Once the grid's anchor has passed, whether the swapchain or
  the display's feedback set it, a frame is released at the next vblank, and within half a
  cycle of it when the PI loop corrects an error (`ReleasedAtVblank`).  While the anchor is
  still ahead this fails: see the first observation in section 6.

### Bounds, and why they are enough

* *pool:* three handles over chunks of two force a second chunk and reuse; batches
  of two let a handle be dropped while the next one is not flagged yet.
  `Handles` bounds the handles alive at once, not the number of acquisitions: they
  are reused for ever.
  One tracker stands for all of them: the proofs in section 4 cover any number.
* *monitor:* `Loads` bounds what the application keeps within; the run has three loads,
  and a behaviour may go from one to another.  With two swapchain handles and two
  threads a request meets the new swapchain while the old one is destroyed, and one
  semaphore is signalled through either, with two values or with a frame to wait for.  With one
  handle, which is created again after it was destroyed, two frames let a present overwrite the
  spans of an earlier one, and two requests that carry different frames wait in one queue
  while a third is served.  Two values allow late and repeated signals; requests may repeat for
  ever.  Two swapchains with two frames are left to the theorems on safety, which hold for any loads.
* *tracking:* three ids in rings of two overflow; `MaxSubmits = 3`, `MaxPresents = 2`:
  two presents overlap on two queues while a third submission arrives.  `Submit` is
  one action because `notify_submit` runs under the queue's lock.
* *antilag:* two submissions suffice for one frame in flight and one waiting; two graphics
  queues let an update collect one while work arrives on the other, and the compute queue
  is not tracked; the cycle of updates is unbounded.  Swapchains only matter to the poll.
* *contexts:* six addresses give an instance with a physical device and two devices
  with queues, or two instances; `MaxLives = 2` lets every address be reused once,
  by any kind of object.
* *lifetime:* two threads are what `vkDestroyDevice` can meet (the one that destroys, and
  one in another device's hook) and what can meet on a device's locks; two handles are one
  with the monitor and one on its way.  A submission without a free handle is
  left out.  Nothing counts lives: the device may be created again for ever.
* *markers:* the counterexample needs one thread, one id and a ring of one.
* *pacing:* a cycle of 3 with caps of 2 and 4 puts a cap inside and beyond a cycle;
  calls begin from `Start = 7`, off the grid, to `MaxTime = 12`: more than a cycle, and enough
  frames to fill the window twice.
  `MaxDelay` only names the longest cap, so that the type of the delays is an interval.

Symmetry is not used in runs with liveness properties.  Deadlock is checked, except in these places:
`LayerContexts` stops when all lives of its addresses are used up (`MaxLives`), 
`Pacing` when no frame may begin any more (`MaxTime`), and `LatencyMarkers` when its clock
has run out (`MaxTime`).  In the runs of
`TimestampPool` and `AntiLag` the regular end is the explicit `Terminated`.

### Fairness

Weak fairness, and only of steps the code takes by itself: a thread that is inside a
call of the layer and is not blocked goes on; the threads of the layer are scheduled; the
GPU completes what was submitted; driver calls and `pace()` return (the run
`pacing` shows the sleep is bounded).  Nothing obliges the application to call
anything: no submission, present, sleep or destruction is fair.  Lock acquisition
under weak fairness assumes that a mutex that is free again and again is granted;
in the modelled code every holder of a lock either leaves it or joins a thread
that does not need it.  `DeviceLifetime` is where locks are held across several steps and
contended for: there the calls are strongly fair (`CallStep`), that is, a mutex that is
free again and again is granted in the end, as the mutexes of the platforms the
layer runs on do in practice; the worker threads and the GPU are weakly fair.  In `TimestampPool`, `Drop` is fair only when the owner is
being released, since a strategy may keep a handle as long as it runs.

### What the application is assumed to do

`DeviceLifetime` has the rules of Vulkan on external synchronisation in one operator,
`Legal`.  Three constants name what some properties need of the application, beyond what
Vulkan demands of it:

* `AwaitsBeforeSwitch` (`SwapchainMonitor`): it waits for a semaphore before it
  makes the layer signal it from somewhere else.  FALSE gives the finding
  `monitor_switch`.
* `EnumeratesAll` (`LayerContexts`): it offers room for all physical devices.
  FALSE gives the finding `contexts_partial`.
* `SubmitsBeforePresent` (`SubmissionTracking`): all submissions with a present id
  come before its present.  With FALSE, `EvictsOldest` fails: an id submitted again
  after its present is in the ring twice, and its old entry evicts the new span
  (`queue_strategy.cc:43` against "the last unique `MAX_TRACKED_PRESENTS`" in
  `queue_strategy.hh:20-21`).  The other properties of the run do not need it.

In `AntiLag` the run has one thread that drives the frames; the proofs call this `OneDriver` (4).

## 4. What is proved

A run shows a property for one small instance, a theorem for every value of the constants.
Every module of proofs has the same shape: an inductive invariant `IInv` that extends the
safety properties by what makes them inductive, one lemma per action that keeps it, the
theorem `Invariance` (`Spec => []IInv`), and from it the properties.  TLC agrees that each
`IInv` holds on its run's instance (that of the markers on one with one thread, two ids and a ring of one).

| module | theorem | states | assumes of the application |
|---|---|---|---|
| `TimestampPoolProofs` | `TypeCorrect`, `SlotsAreOwned`, `FreeSlotsAreIdle`, `HandlesAreInOnePlace`, `ShutdownIsClean` | `TypeOK`, `SlotOwnership`, `FreeSlotIsIdle`, `OnePlace`, `CleanShutdown` | |
| | `ImplementsContract` | `VulkanContract` | |
| `SubmissionTrackingProofs` | `TypeCorrect`, `TrackedAreInRing`, `TrackingStaysBounded`, `PresentsMissNothing`, `AllAccounted` | `TypeOK`, `TrackedIsInRing`, `TrackingIsBounded`, `PresentMissesNothing`, `Accounted` | |
| | `OldestIsEvicted` | `EvictsOldest` | `SubmitsBeforePresent` |
| `SwapchainMonitorProofs` | `TypeCorrect`, `ThreadsOutliveNothing`, `SignalsFollowFrames` | `TypeOK`, `MonitorsLiveSwapchain`, `SignalFollowsFrame` | |
| | `RequestsAreKept`, `SignalsAreFresh` | `NoSignalDropped`, `FreshSignal` | `AwaitsBeforeSwitch` |
| | `ImplementsLatencySleep` | `LS!LSpec`, the safety part of `SleepContract` | `AwaitsBeforeSwitch` |
| `AntiLagProofs` | `TypeCorrect` | `TypeOK` | |
| | `DepthIsOne`, `WakeupsArrive` | `BackPressure`, `NoLostWakeup` | `OneDriver` |
| | `ImplementsFrameContract` | `FC!FSafety`, the safety part of `FrameSpec` | `OneDriver` |
| `PacingProofs` | `TypeCorrect`, `CapHoldsInTheLongRun`, `SleepIsBounded`, `Tier1HoldsTheCap`, `GridReleasesAtVblank` | `TypeOK`, `LongRunCap`, `BoundedSleep`, `Tier1Cap`, `ReleasedAtVblank` | |
| `LayerContextsProofs` | `TypeCorrect`, `ContextsAreFresh`, `NewKeysAreFree`, `OwnersKnow` | `TypeOK`, `NoStaleContext`, `KeyIsFree`, `OwnersKnowTheirChildren` | |
| | `LookupsSucceed` | `LookupFindsObject` | `EnumeratesAll` |
| `DeviceLifetimeProofs` | `TypeCorrect`, `PartsOutliveTheirUse` | `TypeOK`, `PartsInUseAreAlive` | |
| `LatencyMarkersProofs` | `MarkersTypeCorrect`, `RingStaysBounded`, `TimesAreCalls` | `TypeOK`, `RingOK`, `RecordsAreCalls` | |

### What is assumed

Each module names the assumption on its constants (`PoolConstants`, `TrackingConstants` and
so on): null values are none of the values they stand beside, sizes and bounds are naturals,
and no more; TLC evaluates them in the runs.  `PacingConstants` also says that the pacer
starts at least one refresh cycle after the clock's zero, as a monotonic clock that counts
nanoseconds has, and before the bound `MaxTime`.

The last column is about the application.  Without the three constants of section 3 the
properties are false, and the runs show how: `monitor_switch` and `contexts_partial`
are findings, and for `EvictsOldest` see there.  `OneDriver` is a hypothesis of the theorems of
`AntiLagProofs`: one thread at most calls `vkAntiLagUpdateAMD`.  That is how games call it, once
per frame, and what the comment at `monitor.hh:60-63` has in mind; with two such threads
`notify_one` may wake the wrong one (see 6).  All properties of the run that are not
listed with an assumption hold for every application the model allows.

### The arguments

**Pool.**  That a free slot is idle depends on the reaper waiting for every handle that was
submitted; that it does depends on the flag `was_submitted`, which is set after the driver's
call, one submit info after the other.  So `BatchInv` says that the vector `handles` holds
exactly the handles the submitting thread owns, and that those not accepted yet are
recorded and not pending; `FlagInv` that a pending query has a live handle, flagged unless it
is still in the batch: no handle leaves the batch unflagged while the GPU may write its
queries.  `ChunkInv` says that handles live in existing chunks, `LifeInv` that when the reaper
has ended nothing is queued and nobody holds a handle.  For the contract each step is shown to be
a step of `VkQueries` or to leave the queries alone.

**Tracking.**  `SpanInv`: a span in the map is not empty, lies within what was submitted, and ends
with the last submission of its id; `WorkInv`: what a present collected was submitted before.  With them
each action moves submissions as a whole from one place to the next, which is `PlaceInv`, `Accounted`
without cardinalities: `Accounted` itself follows by counting (`AllAccounted`).
`TrackingIsBounded` needs only that every id of the map is in the ring and that the ring is short
(`BoundInv`).  `EvictsOldest` is the one that needs the discipline: then the ring has
each id once and in the order of the first submissions (`RingInv`), since an id without a span
was presented and will not come again (`PidInv`).

**Monitor.**  `LockInv` and `TargetInv` say which calls exclude each other, `MonitorInv` that a
monitor and its thread come and go together and that only the thread that joins it asks
it to stop.  The order of signals rests on `FrameInv`: the request at position *i* of a
monitor's queue waits for a frame that is complete, or is awaited now, or hangs on one of the
first *i* requests.  A present hands its frame to the next request only, so that a
request must be behind the one that waits for it; this is what `Ordered` says.
`PlaceInv` adds, for a disciplined application, that every request held
somewhere is for a semaphore that has reached the value or whose last request went to the same
place; two places can then not both be about to signal it, and what is raised is above the
counter.  The refinement follows: each step is a `Request`, a `Raise` or neither.

**Anti-lag.**  `CallInv` ties the set of waiters to the program counters, `FrameInv` says where
the frame in progress is: in the slot, with the monitor, or complete.  A thread past the
gate finds `work_in_progress` false, and nobody sets it before that thread publishes, as there
is only one.  `NoLostWakeup` is inductive with these: the one thread that could take the
monitor's notification is the one that sends it.  The refinement maps the contract's `tracked`
to what the queues and the collecting thread have, `due` to what the collecting thread
has still to take, and `awaited` to the work of the frame in progress; `PlaceInv` (a submission is
in one place) makes a submission that replaces a span, or is stored while an update
collects, the `Track` step it should be.

**Pacing.**  No estimate is bounded in the model; the proofs show that none needs to be.
`TargetBounds`: whatever the estimates, the core's release is neither in the past nor before the
cap's floor, and later than the end of the GPU work only because of the floor.
`CapInv` relates what the caps have owed since the first frame to the *core's* release,
which the floor keeps `min_delay` apart, and `PhaseInv` bounds what pace returns by the core's
release, a lateness and a cycle.  That is why the cap holds in the long run although it can
fail from one frame to the next (finding 4).  `VblankIsNext` shows that rounding up
from an anchor in the past gives the next vblank, the least time from now on that is a whole
number of cycles from the anchor; the correction, the lateness of the core's sleep and the
clamp then move the release by what `ReleasedAtVblank` allows.  The theorem needs `anchor < now'`,
as the property does.

**Contexts.**  `TreeInv`: the objects form a forest of instances, physical devices, devices and queues, every parent
alive; `CallInv`: what each call in progress has done already, step by step; `AloneInv`: creation and
destruction have their objects to themselves, which the driver's rules on handles
give.  A context is then erased before its object dies, with those of its children.

**Lifetime.**  `LifeInv` says which objects exist while a thread is where (`Remains` lists what
may be left of a device half destroyed), `WorkerInv` which worker threads run and when they
are asked to stop, `MonitorInv` that one call at a time makes or unmakes the
monitor, and `HandleInv` that for every handle, wherever it is, somebody is left to take care of
it: a handle that expires finds the reaper running.  Each destructor's join is what carries the
proof from one member to the next.

**Markers.**  The run `markers` checks what `copy_latency_timings` makes of the records, and finds
it wrong (5); the theorems say that the records themselves are right.  The invariant adds
`StampsAreCalls`, that what a thread carries into the critical section was called.  It
rests on `TrimmedAppend`, what appending and dropping the oldest record leaves, and
`WithRecordIsRing`, that `get_or_create_marker_record` keeps the records or adds an empty one.

### What is only model-checked

* Liveness, since the proof system handles neither fairness nor `ENABLED`: `ReapedEventually`, both
  `DestroyTerminates`, `InputReturns`, `StopTerminates`, `CallsReturn`, and of the
  contracts `Answered` in `LS!LFairSpec` and the fairness of `Retire` in `FC!FSpec`.
* The violations: a counterexample is a behaviour, found by TLC.

Every other property of the passing runs is stated by a theorem.  Of functions defined by recursion
over data nothing could be proved for all inputs; the models have none.

## 5. Findings

1. **A semaphore can be signalled with a value it has reached** (`monitor_switch`).
   `SemaphoreSignal::signal` reads the counter and signals in two driver calls
   (`semaphore_signal.cc:16`).  If a request is queued in a monitor and the application turns low
   latency off and sleeps again, both threads can pass the check; then
   the second signal is not above the counter, which
   `semaphore_signal.hh:11-17` says must not happen.
2. **The anti-lag monitor may use a destroyed swapchain** (`antilag_poll`).
   `notify_destroy_swapchain` clears the handle but does not wait for the monitor's
   thread, which may have read it and be on its way into
   `vkGetPastPresentationTimingEXT` (`anti_lag/monitor.cc:112`).  The field is also a plain one,
   read without a lock.
3. **Physical devices of a partial enumeration have no context** (`contexts_partial`).
   `VK_INCOMPLETE` is a success code with valid handles; the hook returns before it
   registers them (`layer.cc:136`), and the next call with one fails the assertion
   at `layer_context.hh:93`.
4. **Tier 2 may release two frames closer together than the cap** (`pacing_cap`).
   The core keeps its own release (`display_deadline_pacer.cc:129`), not the later
   vblank the frame was released at, which `presentation_pacer.hh:42-44` says
   becomes the next `release_prev`.  In the long run the cap holds (`LongRunCap`).

5. **Markers are reported in the wrong fields** (`markers`).
   `copy_latency_timings` reads the record as if `INPUT_SAMPLE` came first
   (`device_strategy.cc:226-232`), but `VkLatencyMarkerNV` begins with
   `SIMULATION_START` and `INPUT_SAMPLE` is 6, and the record is "indexed by
   VkLatencyMarkerNV" (`device_strategy.hh:22-24`).  `inputSampleTimeUs` gets the
   time of `SIMULATION_START`, each later field that of the marker after its own, and
   `presentEndTimeUs` that of `INPUT_SAMPLE`.

## 6. What is not modelled, and observations

* **An anchor that is not in the past** breaks what `display_deadline_pacer.hh:23` ("the next
  vblank on a steady grid") and `display_deadline_pacer.cc:195` ("smallest vblank_k >=
  jit_release") say.  `set_swapchain` seeds the anchor with the time rounded *up*, and
  a driver may report a present time ahead; the lower bound `k >= 1` (`.cc:213-216`) then skips
  the anchor itself and every vblank before it, and the clamp (`.cc:241`) cuts the wait at one
  cycle.  With a cycle of 3, an anchor at 9 and a release at 7 the code aims at 12 and
  releases at 10, after the vblank at 9 and off the grid; with an anchor at 7 it releases at
  10, a cycle late.  `ReleasedAtVblank` without its condition `anchor < now'` gives such a
  behaviour in five steps: the first frame after the swapchain was bound.  `BoundedSleep` is
  what holds of these frames.
* **The order of cap and clamp:** the class comment at `predictive_queue_pacer.hh:22-26` takes
  the cap's floor first and clamps to the predicted render time after it; the code
  clamps first (`predictive_queue_pacer.cc:165-178`), as the comment at `.cc:172-175` says.  The
  order of the class comment would break `Tier1Cap`: it is the mutant `MutClampLast`.
* **Convergence of the estimates:** in `Pacing` the averages and the PI term are
  arbitrary values, and a GPU time may be `Skew` ahead of the clock.  Read from the code:
  with a full window a render time more than 75% off the prediction is rejected
  (`predictive_queue_pacer.cc:70`), so that after a lasting change of that size the estimate
  stays where it was; `BoundedSleep` says what that can cost.
* **The layer switched off** (`was_layer_enabled` false): contexts without clock, pool and
  strategies, hooks that only forward.  `DeviceLifetime` has the layer on.
* **Failure of a calibration:** `calibrate` throws in its thread, which ends the process
  (`device_clock.cc:37`).
* **Timings of the GPU in latency reports:** the repository's README names them, and the code leaves
  them as the caller passed them (`device_strategy.cc:233-235`).  Reports know no
  swapchain: two swapchains that use the same present id share a record.
* **Capabilities, dispatch tables, spoofed properties:** queries that change nothing.
* **Failure of Vulkan calls** other than a rejected submission, an unsupported
  timing query and a partial enumeration: the code throws or asserts, and the process ends.
* **Data races on plain fields** are modelled where they meet: each field of
  `set_swapchain` becomes visible on its own; the double read of `swapchain` in the
  anti-lag monitor is one read (the second could be null, and the query then fails).
* Anti-lag with **two threads in the INPUT stage:** `notify_one`
  (`anti_lag/monitor.cc:37`) may wake the other application thread, which tests its
  condition and sleeps again while the monitor never hears of the work.  `InputReturns`
  then fails.  `monitor.hh:60-63` describes the one waiter it has in mind; the run assumes
  one frame thread, as games have.
* A present whose spans no sleep request took is forgotten when the next present
  attaches its own (`swapchain_monitor.cc:188`); `SignalFollowsFrame` promises the
  last present only.
* With anti-lag turned off the update returns before it touches the frame
  (`device_strategy.cc:32`): spans collected so far count for the next frame.  `FrameContract`
  allows it, since no document says otherwise, and shows that they are awaited once.
* A marker for an id whose record was dropped makes a new record, which drops the oldest
  one, of a newer frame.
* Without a cap Tier 1's release is never more than the calibration error ahead of the
  time of the call, since it aims at the end of GPU work that has ended.
* Nobody reads `last_target_present_`, `render_window`'s entries or
  `current_target_present`; anti-lag never calls `set_present_mode`; the refresh
  cycle of a low latency 2 swapchain is only asked for when it is created; the comment at
  `display_deadline_pacer.cc:195` adds a render budget that the code does not add;
  `vkEnumeratePhysicalDeviceGroups` is not hooked, so its handles have no
  context unless they were enumerated otherwise too.

## 7. Plan

Order of the work, most important first.  Steps 1 to 9 are done.

1. `VkQueries`, `TimestampPool`: everything else holds its handles.  Run `pool`;
   invariance and contract proved.
2. `LatencySleep`, `SwapchainMonitor`: run `monitor`.
3. `SubmissionTracking`: run `tracking`.
4. `AntiLag`: run `antilag`.
5. `LayerContexts`: run `contexts`.
6. `Pacing`: run `pacing`.
7. `FrameContract`, implemented by `AntiLag`: run `antilag`.
8. `LatencyMarkers`: run `markers`.
9. `DeviceLifetime`, the composition of the contexts, both frame pipelines and all threads: run
   `lifetime`.
10. `FrameEstimate`: the averages and the hitch rejection of Tier 1; after a lasting change
    of the load the estimate does not follow.

Every safety property of the passing runs is proved.  What is left to prove: that a marker's
report is right for the records when the fields are read as the enumeration has them, so that
finding 5 is the only fault of `copy_latency_timings`; and `RingInv` of `SubmissionTracking`
without the discipline, that is, how many of the newest ids an eviction spares at least.
