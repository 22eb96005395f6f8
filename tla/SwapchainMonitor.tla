--------------------------- MODULE SwapchainMonitor ---------------------------
(***************************************************************************)
(* VK_NV_low_latency2 on the device: LowLatency2DeviceStrategy, which maps *)
(* swapchains to monitors under one mutex, and SwapchainMonitor, whose     *)
(* thread signals the semaphores of vkLatencySleepNV when the GPU work of  *)
(* the presented frame is done.  SemaphoreSignal::signal reads the counter *)
(* and signals in two separate driver calls, hence in two steps.           *)
(*                                                                         *)
(* The mutex of the strategy is modelled by its exclusive holder: a thread *)
(* that keeps it across steps is in one of the states of Exclusive.        *)
(***************************************************************************)
EXTENDS Naturals, Sequences, FiniteSets, Functions

CONSTANTS Threads,          \* application threads
          Swapchains,       \* VkSwapchainKHR handles, reused by the driver
          Sems,             \* timeline semaphores
          Values,           \* bound: values slept on
          Work,             \* bound: frames presented, each the spans of one present
          Loads,            \* bound: what the application keeps within, see WithinLoad
          AwaitsBeforeSwitch,   \* the application's discipline, see Disciplined
          Direct, NoWork

ASSUME MonitorConstants ==
    /\ Values \subseteq Nat \ {0}
    /\ Loads \subseteq [swapchains : SUBSET Swapchains, frames : SUBSET Work,
                  values : SUBSET Values, queue : Nat]
    /\ AwaitsBeforeSwitch \in BOOLEAN
    /\ Direct \notin Swapchains
    /\ NoWork \notin Work

VARIABLES
    alive,          \* swapchains the driver knows
    monitors,       \* keys of swapchain_monitors
    enabled,        \* enabled[s]: was_low_latency_requested
    pendingWork,    \* pendingWork[s]: pending_submission_spans
    pending,        \* pending[s]: pending_signals
    stop,           \* stop[s]: the jthread was asked to stop
    mpc, mhand,     \* monitor thread of s: where it is, and the signal it took
    pc, hand, target,   \* application thread: where it is, its signal and swapchain
    counter,        \* counter[m]: payload of semaphore m
    submitted, done,    \* frames presented, and those the GPU completed
    requested,      \* history: <<semaphore, value>> of every vkLatencySleepNV
    route,          \* history: who was given the last request for semaphore m
    lastWork        \* history: last frame the monitor of s was given

mapVars  == <<alive, monitors, stop>>
monVars  == <<enabled, pendingWork, pending>>
thrVars  == <<mpc, mhand>>
appVars  == <<pc, hand, target>>
gpuVars  == <<submitted, done>>
histVars == <<requested, route, lastWork>>
vars == <<mapVars, monVars, thrVars, appVars, counter, gpuVars, histVars>>

\* One PendingSignal.  `after` is a history field: the last frame the monitor had
\* been given when the request was made.
Signals == [sem : Sems, value : Values, work : SUBSET Work, after : Work \cup {NoWork}]

NoSignal == <<>>

Init ==
    /\ alive = {} /\ monitors = {}
    /\ enabled = [s \in Swapchains |-> FALSE]
    /\ pendingWork = [s \in Swapchains |-> {}]
    /\ pending = [s \in Swapchains |-> <<>>]
    /\ stop = [s \in Swapchains |-> FALSE]
    /\ mpc = [s \in Swapchains |-> "absent"]
    /\ mhand = [s \in Swapchains |-> NoSignal]
    /\ pc = [t \in Threads |-> "idle"]
    /\ hand = [t \in Threads |-> NoSignal]
    /\ target = [t \in Threads |-> Direct]
    /\ counter = [m \in Sems |-> 0]
    /\ submitted = {} /\ done = {}
    /\ requested = {}
    /\ route = [m \in Sems |-> Direct]
    /\ lastWork = [s \in Swapchains |-> NoWork]

-----------------------------------------------------------------------------
(* Locks, and what the application may do.                                 *)

\* States in which a thread keeps the strategy's mutex: signalling a semaphore
\* itself, or joining the thread of a monitor it erases.
Exclusive == {"signalling", "joining"}

StrategyFree == \A t \in Threads : pc[t] \notin Exclusive

\* Mutant of MonitorFree: the monitor's thread takes the strategy's mutex as well.
MutStrategyToo(s) == StrategyFree /\ \A t \in Threads : pc[t] = "signalling" => target[t] # s

\* The thread that signals on behalf of a disabled monitor holds its mutex too.
MonitorFree(s) == \A t \in Threads : pc[t] = "signalling" => target[t] # s

\* Vulkan: a swapchain is not presented to, or destroyed, while another thread
\* creates or destroys it.
Undisturbed(s) ==
    /\ s \in alive
    /\ \A t \in Threads : target[t] = s => pc[t] \notin {"creating", "joining", "destroying"}

\* Thread t returns to the application.
Return(t) == /\ pc' = [pc EXCEPT ![t] = "idle"]
             /\ target' = [target EXCEPT ![t] = Direct]

\* Mutant of Reached: off by one.
MutAlmost(m, v) == counter[m] + 1 >= v

\* "Current value >= the value we want to signal: don't."
Reached(m, v) == counter[m] >= v

\* The place a request for swapchain s goes to: its monitor, or straight to the driver.
RouteOf(s) == IF s \in monitors /\ enabled[s] THEN s ELSE Direct

\* An application that waits for its semaphore before it makes the layer signal it
\* from somewhere else: after a mode change or on another swapchain.
Disciplined(m, s) ==
    AwaitsBeforeSwitch =>
        \/ route[m] = RouteOf(s)
        \/ \A v \in Values : <<m, v>> \in requested => Reached(m, v)

\* Bound: some load allows these swapchains at a time, these frames and requests in all,
\* and as many requests in each queue.
WithinLoad(live, frames, requests, queues) ==
    \E l \in Loads :
        /\ live \subseteq l.swapchains
        /\ frames \subseteq l.frames
        /\ requests \subseteq Sems \X l.values
        /\ \A s \in Swapchains : Len(queues[s]) <= l.queue

-----------------------------------------------------------------------------
(* Swapchain creation and destruction.                                     *)

\* vkCreateSwapchainKHR: the driver's call, before the strategy is told.
CreateSwapchain(t, s) ==
    /\ pc[t] = "idle"
    /\ s \notin alive
    /\ alive' = alive \cup {s}
    /\ WithinLoad(alive', submitted, requested, pending)
    /\ pc' = [pc EXCEPT ![t] = "creating"]
    /\ target' = [target EXCEPT ![t] = s]
    /\ UNCHANGED <<monitors, stop, monVars, thrVars, hand, counter, gpuVars, histVars>>

\* notify_create_swapchain: emplace builds a monitor, and starts its thread, unless
\* the map has one under this handle; low latency is on unless the chain turns it off.
NotifyCreate(t, on) ==
    LET s == target[t] IN
    /\ pc[t] = "creating"
    /\ StrategyFree
    /\ monitors' = monitors \cup {s}
    /\ enabled' = [enabled EXCEPT ![s] = on]
    /\ mpc' = [mpc EXCEPT ![s] = IF s \in monitors THEN @ ELSE "waiting"]
    /\ Return(t)
    /\ UNCHANGED <<alive, stop, pendingWork, pending, mhand, hand, counter,
                   gpuVars, histVars>>

\* Mutant of NotifyDestroy: the strategy is not told.
MutForward(t, s) ==
    /\ pc[t] = "idle"
    /\ StrategyFree
    /\ Undisturbed(s)
    /\ pc' = [pc EXCEPT ![t] = "destroying"]
    /\ target' = [target EXCEPT ![t] = s]
    /\ UNCHANGED <<mapVars, monVars, thrVars, hand, counter, gpuVars, histVars>>

\* notify_destroy_swapchain: erase runs ~SwapchainMonitor under the strategy's
\* mutex, and its first act is to ask the thread to stop.
NotifyDestroy(t, s) ==
    /\ pc[t] = "idle"
    /\ StrategyFree
    /\ Undisturbed(s)
    /\ s \in monitors
    /\ stop' = [stop EXCEPT ![s] = TRUE]
    /\ pc' = [pc EXCEPT ![t] = "joining"]
    /\ target' = [target EXCEPT ![t] = s]
    /\ UNCHANGED <<alive, monitors, monVars, thrVars, hand, counter, gpuVars, histVars>>

\* The thread has ended: the rest of the monitor goes, and the mutex is released.
Joined(t) ==
    LET s == target[t] IN
    /\ pc[t] = "joining"
    /\ mpc[s] = "exited"
    /\ monitors' = monitors \ {s}
    /\ stop' = [stop EXCEPT ![s] = FALSE]
    /\ enabled' = [enabled EXCEPT ![s] = FALSE]
    /\ pendingWork' = [pendingWork EXCEPT ![s] = {}]
    /\ pending' = [pending EXCEPT ![s] = <<>>]
    /\ mpc' = [mpc EXCEPT ![s] = "absent"]
    /\ lastWork' = [lastWork EXCEPT ![s] = NoWork]
    /\ pc' = [pc EXCEPT ![t] = "destroying"]
    /\ UNCHANGED <<alive, mhand, hand, target, counter, gpuVars, requested, route>>

\* vkDestroySwapchainKHR goes on to the driver, which may reuse the handle.
DriverDestroy(t) ==
    /\ pc[t] = "destroying"
    /\ alive' = alive \ {target[t]}
    /\ Return(t)
    /\ UNCHANGED <<monitors, stop, monVars, thrVars, hand, counter, gpuVars, histVars>>

-----------------------------------------------------------------------------
(* The application's other calls.                                          *)

\* vkSetLatencySleepModeNV: update_params with the requested mode.
SleepMode(t, s, on) ==
    /\ pc[t] = "idle"
    /\ StrategyFree
    /\ s \in monitors
    /\ enabled' = [enabled EXCEPT ![s] = on]
    /\ UNCHANGED <<mapVars, pendingWork, pending, thrVars, appVars, counter, gpuVars,
                   histVars>>

\* vkQueuePresentKHR of a frame with GPU work w: attach_work replaces whatever
\* was waiting to be attached, and drops the frame when low latency is off.
Present(t, s, w) ==
    /\ pc[t] = "idle"
    /\ StrategyFree
    /\ Undisturbed(s)
    /\ s \in monitors
    /\ w \notin submitted
    /\ submitted' = submitted \cup {w}
    /\ WithinLoad(alive, submitted', requested, pending)
    /\ IF enabled[s]
       THEN /\ pendingWork' = [pendingWork EXCEPT ![s] = {w}]
            /\ lastWork' = [lastWork EXCEPT ![s] = w]
       ELSE UNCHANGED <<pendingWork, lastWork>>
    /\ UNCHANGED <<mapVars, enabled, pending, thrVars, appVars, counter, done,
                   requested, route>>

\* vkLatencySleepNV with a value that repeats or exceeds the earlier ones, on a
\* swapchain the application was given at some time.
MaySleep(t, s, m, v) ==
    /\ pc[t] = "idle"
    /\ StrategyFree
    /\ \A u \in Threads : pc[u] = "creating" => target[u] # s
    /\ \A u \in Values : <<m, u>> \in requested => u <= v
    /\ Disciplined(m, s)

Requested(m, v, r) ==
    /\ requested' = requested \cup {<<m, v>>}
    /\ route' = [route EXCEPT ![m] = r]
    /\ UNCHANGED lastWork

\* Mutant of PendingSignal: semaphore and value swapped.
MutSwapped(m, v, w, last) == [sem |-> v, value |-> m, work |-> w, after |-> last]

PendingSignal(m, v, w, last) == [sem |-> m, value |-> v, work |-> w, after |-> last]

\* The swapchain has a monitor with low latency on: the request is queued, and
\* takes the frame attached last with it.
SleepQueued(t, s, m, v) ==
    /\ MaySleep(t, s, m, v)
    /\ RouteOf(s) = s
    /\ pending' = [pending EXCEPT ![s] = Append(@,
           PendingSignal(m, v, pendingWork[s], lastWork[s]))]
    /\ pendingWork' = [pendingWork EXCEPT ![s] = {}]
    /\ Requested(m, v, s)
    /\ WithinLoad(alive, submitted, requested', pending')
    /\ UNCHANGED <<mapVars, enabled, thrVars, appVars, counter, gpuVars>>

\* Unknown swapchain, or low latency off: the calling thread signals, and keeps the
\* locks meanwhile.  This step is the read of the counter.
SleepDirect(t, s, m, v) ==
    /\ MaySleep(t, s, m, v)
    /\ RouteOf(s) = Direct
    /\ s \in monitors => MonitorFree(s)
    /\ Requested(m, v, Direct)
    /\ WithinLoad(alive, submitted, requested', pending)
    /\ IF Reached(m, v)
       THEN UNCHANGED appVars
       ELSE /\ pc' = [pc EXCEPT ![t] = "signalling"]
            /\ target' = [target EXCEPT ![t] = IF s \in monitors THEN s ELSE Direct]
            /\ hand' = [hand EXCEPT ![t] = PendingSignal(m, v, {}, NoWork)]
    /\ UNCHANGED <<mapVars, monVars, thrVars, counter, gpuVars>>

\* SignalSemaphore.  Vulkan leaves undefined what a value that is not above the
\* counter does; FreshSignal says this does not happen.
DirectSignal(t) ==
    /\ pc[t] = "signalling"
    /\ counter' = [counter EXCEPT ![hand[t].sem] = hand[t].value]
    /\ Return(t)
    /\ hand' = [hand EXCEPT ![t] = NoSignal]
    /\ UNCHANGED <<mapVars, monVars, thrVars, gpuVars, histVars>>

\* The GPU completes the work of a frame.
GpuDone(w) ==
    /\ w \in submitted \ done
    /\ done' = done \cup {w}
    /\ UNCHANGED <<mapVars, monVars, thrVars, appVars, counter, submitted, histVars>>

-----------------------------------------------------------------------------
(* do_monitor, the thread of swapchain s.                                  *)

MonitorUnchanged == UNCHANGED <<mapVars, enabled, pendingWork, appVars, gpuVars, histVars>>

\* Mutant of AfterTake: the test of the stop is the wrong way round.
MutStopInverted(s) == IF stop[s] THEN "awaiting" ELSE "checking"

\* A thread asked to stop does not wait for the work.
AfterTake(s) == IF stop[s] THEN "checking" ELSE "awaiting"

\* The wait returns with a pending signal.  A thread asked to stop signals at once,
\* without waiting for the work and without releasing its mutex.
Take(s) ==
    /\ mpc[s] = "waiting"
    /\ MonitorFree(s)
    /\ pending[s] # <<>>
    /\ mhand' = [mhand EXCEPT ![s] = Head(pending[s])]
    /\ pending' = [pending EXCEPT ![s] = Tail(@)]
    /\ mpc' = [mpc EXCEPT ![s] = AfterTake(s)]
    /\ UNCHANGED counter
    /\ MonitorUnchanged

\* await_completed on every span; then poll_feedback_locked asks the driver about the
\* swapchain, and pace() sleeps.
Awaited(s) ==
    /\ mpc[s] = "awaiting"
    /\ mhand[s].work \subseteq done
    /\ mpc' = [mpc EXCEPT ![s] = "checking"]
    /\ UNCHANGED <<mhand, pending, counter>>
    /\ MonitorUnchanged

\* Mutant of Check: the counter is not looked at.
MutNoCheck(s) ==
    /\ mpc[s] = "checking"
    /\ mpc' = [mpc EXCEPT ![s] = "signalling"]
    /\ UNCHANGED <<mhand, pending, counter>>
    /\ MonitorUnchanged

\* GetSemaphoreCounterValue: a value that was reached is not signalled again.
Check(s) ==
    /\ mpc[s] = "checking"
    /\ IF Reached(mhand[s].sem, mhand[s].value)
       THEN /\ mpc' = [mpc EXCEPT ![s] = "waiting"]
            /\ mhand' = [mhand EXCEPT ![s] = NoSignal]
       ELSE /\ mpc' = [mpc EXCEPT ![s] = "signalling"]
            /\ UNCHANGED mhand
    /\ UNCHANGED <<pending, counter>>
    /\ MonitorUnchanged

Signal(s) ==
    /\ mpc[s] = "signalling"
    /\ counter' = [counter EXCEPT ![mhand[s].sem] = mhand[s].value]
    /\ mpc' = [mpc EXCEPT ![s] = "waiting"]
    /\ mhand' = [mhand EXCEPT ![s] = NoSignal]
    /\ UNCHANGED pending
    /\ MonitorUnchanged

\* Mutant of Exit: requests that are left are dropped.
MutExitAtOnce(s) ==
    /\ mpc[s] = "waiting"
    /\ MonitorFree(s)
    /\ stop[s]
    /\ mpc' = [mpc EXCEPT ![s] = "exited"]
    /\ UNCHANGED <<mhand, pending, counter>>
    /\ MonitorUnchanged

\* Only with nothing left to signal.
Exit(s) ==
    /\ mpc[s] = "waiting"
    /\ MonitorFree(s)
    /\ stop[s]
    /\ pending[s] = <<>>
    /\ mpc' = [mpc EXCEPT ![s] = "exited"]
    /\ UNCHANGED <<mhand, pending, counter>>
    /\ MonitorUnchanged

MonitorStep(s) == Take(s) \/ Awaited(s) \/ Check(s) \/ Signal(s) \/ Exit(s)

-----------------------------------------------------------------------------

AppCall(t) ==
    \/ \E s \in Swapchains : CreateSwapchain(t, s) \/ NotifyDestroy(t, s)
    \/ \E s \in Swapchains, on \in BOOLEAN : SleepMode(t, s, on)
    \/ \E s \in Swapchains, w \in Work : Present(t, s, w)
    \/ \E s \in Swapchains, m \in Sems, v \in Values :
         SleepQueued(t, s, m, v) \/ SleepDirect(t, s, m, v)

\* What a thread inside a call of the layer does next.
Finish(t) ==
    \/ \E on \in BOOLEAN : NotifyCreate(t, on)
    \/ Joined(t)
    \/ DriverDestroy(t)
    \/ DirectSignal(t)

Next ==
    \/ \E t \in Threads : AppCall(t) \/ Finish(t)
    \/ \E s \in Swapchains : MonitorStep(s)
    \/ \E w \in Work : GpuDone(w)

Spec == Init /\ [][Next]_vars

\* Threads are scheduled and locks are granted, driver calls and pace() return, and
\* the GPU completes what it was given.  Nothing makes the application call.
Fairness ==
    /\ \A t \in Threads : WF_vars(Finish(t))
    /\ \A s \in Swapchains : WF_vars(MonitorStep(s))
    /\ \A w \in Work : WF_vars(GpuDone(w))

FairSpec == Spec /\ Fairness

-----------------------------------------------------------------------------
(* Properties.                                                             *)

TypeOK ==
    /\ alive \subseteq Swapchains /\ monitors \subseteq Swapchains
    /\ enabled \in [Swapchains -> BOOLEAN]
    /\ pendingWork \in [Swapchains -> SUBSET Work]
    /\ pending \in [Swapchains -> Seq(Signals)]
    /\ stop \in [Swapchains -> BOOLEAN]
    /\ mpc \in [Swapchains -> {"absent", "waiting", "awaiting", "checking",
                               "signalling", "exited"}]
    /\ mhand \in [Swapchains -> Signals \cup {NoSignal}]
    /\ pc \in [Threads -> {"idle", "creating", "joining", "destroying", "signalling"}]
    /\ hand \in [Threads -> Signals \cup {NoSignal}]
    /\ target \in [Threads -> Swapchains \cup {Direct}]
    /\ counter \in [Sems -> Nat]
    /\ submitted \subseteq Work /\ done \subseteq Work
    /\ requested \subseteq Sems \X Values
    /\ route \in [Sems -> Swapchains \cup {Direct}]
    /\ lastWork \in [Swapchains -> Work \cup {NoWork}]

\* Who answers for a request that the semaphore has not reached yet.
InHand(m, v) ==
    \/ \E t \in Threads : pc[t] = "signalling" /\ hand[t].sem = m /\ hand[t].value = v
    \/ \E s \in Swapchains :
         /\ mpc[s] \in {"awaiting", "checking", "signalling"}
         /\ mhand[s].sem = m /\ mhand[s].value = v
    \/ \E s \in monitors : \E r \in Range(pending[s]) : r.sem = m /\ r.value = v

\* "We must never discard these semaphores without signalling them first": a request
\* the semaphore has not reached is in a queue of an existing monitor or in the hand
\* of a thread, through mode changes, erased monitors and unknown swapchains.
NoSignalDropped ==
    \A r \in requested : Reached(r[1], r[2]) \/ InHand(r[1], r[2])

\* A thread past its check of the counter signals a value that is still above it
\* (SemaphoreSignal double checks that the value was not signalled already).
FreshSignal ==
    /\ \A s \in Swapchains :
         mpc[s] = "signalling" => ~Reached(mhand[s].sem, mhand[s].value)
    /\ \A t \in Threads :
         pc[t] = "signalling" => ~Reached(hand[t].sem, hand[t].value)

\* Unless it is stopping, a monitor raises a semaphore only when the last frame the
\* application had presented before it asked is complete, however many requests
\* and frames are in flight.
SignalFollowsFrame ==
    [][\A s \in Swapchains : Signal(s) /\ ~stop[s] =>
          mhand[s].after \in done \cup {NoWork}]_vars

\* A monitor thread asks the driver about a swapchain only while the driver has it:
\* the thread is joined before the handle is destroyed, and a reused handle never
\* finds the monitor of the swapchain that had it before.
MonitorsLiveSwapchain ==
    /\ \A s \in Swapchains : mpc[s] \notin {"absent", "exited"} => s \in alive
    /\ \A t \in Threads : pc[t] = "creating" => target[t] \notin monitors

\* vkLatencySleepNV as its caller sees it, liveness included.
LS == INSTANCE LatencySleep WITH Sems <- Sems, Values <- Values,
                                 counter <- counter, requested <- requested
SleepContract == LS!LFairSpec

\* Destroying a swapchain ends, although it joins the monitor under the mutex every
\* other call needs.
DestroyTerminates == \A t \in Threads : pc[t] = "joining" ~> pc[t] = "idle"

=============================================================================
