------------------------------- MODULE AntiLag -------------------------------
(***************************************************************************)
(* VK_AMD_anti_lag: AntiLagQueueStrategy collects the submissions of a     *)
(* frame per queue, AntiLagDeviceStrategy hands them over at the INPUT     *)
(* stage, and AntiLagMonitor, a thread per device, waits for them and      *)
(* paces.  The application and the monitor meet at one mutex and one       *)
(* condition variable, on which both wait.                                 *)
(*                                                                         *)
(* Of a span only its last submission is modelled: it is the one whose end *)
(* await_completed waits for.                                              *)
(***************************************************************************)
EXTENDS Naturals, FiniteSets

CONSTANTS Threads,      \* threads that call vkAntiLagUpdateAMD
          Queues,
          Graphics,     \* queues whose family has VK_QUEUE_GRAPHICS_BIT
          Work,         \* bound: submissions
          Swapchains,   \* VkSwapchainKHR handles, reused by the driver
          Monitor,      \* the monitor's thread
          None          \* nullopt, a null unique_ptr, VK_NULL_HANDLE

ASSUME AntiLagConstants ==
    /\ Graphics \subseteq Queues
    /\ Monitor \notin Threads
    /\ None \notin Work /\ None \notin Swapchains

VARIABLES
    enabled,        \* is_enabled
    inFrame,        \* frame_index has a value
    current,        \* current_swapchain_, and the monitor's copy of it
    alive,          \* swapchains the driver knows
    closing,        \* those vkDestroySwapchainKHR has told the strategy about
    span,           \* span[q]: submission_span of queue q
    storing,        \* storing[q]: submission notify_submit decided to track
    submitted, done,    \* submissions made, and those the GPU completed
    pc, todo, work, \* thread in vkAntiLagUpdateAMD: where, queues left, work taken
    waiters,        \* who is blocked on cv
    pending,        \* pending_spans: empty, or the one frame it holds
    workInProgress, \* work_in_progress
    mpc, mwork,     \* monitor thread: where it is, and the work it waits for
    polled,         \* the swapchain it is asking the driver about
    stop,           \* its stop was requested
    lastWork        \* history: the work handed over last

deviceVars  == <<enabled, inFrame>>
swapVars    == <<current, alive, closing>>
queueVars   == <<span, storing>>
gpuVars     == <<submitted, done>>
callVars    == <<pc, todo, work>>
sharedVars  == <<waiters, pending, workInProgress>>
monitorVars == <<mpc, mwork, polled>>
vars == <<deviceVars, swapVars, queueVars, gpuVars, callVars, sharedVars, monitorVars,
          stop, lastWork>>

Init ==
    /\ enabled = FALSE /\ inFrame = FALSE
    /\ current = None /\ alive = {} /\ closing = {}
    /\ span = [q \in Queues |-> None]
    /\ storing = [q \in Queues |-> None]
    /\ submitted = {} /\ done = {}
    /\ pc = [t \in Threads |-> "idle"]
    /\ todo = [t \in Threads |-> {}]
    /\ work = [t \in Threads |-> {}]
    /\ waiters = {} /\ pending = {} /\ workInProgress = FALSE
    /\ mpc = "testing" /\ mwork = {} /\ polled = None
    /\ stop = FALSE
    /\ lastWork = {}

Unstopped == ~stop

-----------------------------------------------------------------------------
(* Submissions.                                                            *)

\* notify_submit tests whether to track before it takes the queue's mutex.
Submit(q, w) ==
    /\ Unstopped
    /\ storing[q] = None
    /\ w \notin submitted
    /\ submitted' = submitted \cup {w}
    /\ IF q \in Graphics /\ enabled /\ inFrame
       THEN storing' = [storing EXCEPT ![q] = w]
       ELSE UNCHANGED storing
    /\ UNCHANGED <<deviceVars, swapVars, span, done, callVars, sharedVars, monitorVars,
                   stop, lastWork>>

\* Then it starts a span or moves the end of the present one.
Store(q) ==
    /\ storing[q] # None
    /\ span' = [span EXCEPT ![q] = storing[q]]
    /\ storing' = [storing EXCEPT ![q] = None]
    /\ UNCHANGED <<deviceVars, swapVars, gpuVars, callVars, sharedVars, monitorVars,
                   stop, lastWork>>

GpuDone(w) ==
    /\ w \in submitted \ done
    /\ done' = done \cup {w}
    /\ UNCHANGED <<deviceVars, swapVars, queueVars, submitted, callVars, sharedVars,
                   monitorVars, stop, lastWork>>

-----------------------------------------------------------------------------
(* vkAntiLagUpdateAMD.                                                     *)

UpdateUnchanged == UNCHANGED <<swapVars, gpuVars, monitorVars, stop>>

\* Mode off, or no presentation info: only the mode is stored.
UpdateMode(t, on) ==
    /\ Unstopped
    /\ pc[t] = "idle"
    /\ enabled' = on
    /\ UNCHANGED <<inFrame, queueVars, callVars, sharedVars, lastWork>>
    /\ UpdateUnchanged

\* The PRESENT stage ends the collection of submissions.
UpdatePresent(t) ==
    /\ Unstopped
    /\ pc[t] = "idle"
    /\ enabled' = TRUE
    /\ inFrame' = FALSE
    /\ UNCHANGED <<queueVars, callVars, sharedVars, lastWork>>
    /\ UpdateUnchanged

\* The INPUT stage starts it again, and goes on to collect.
UpdateInput(t) ==
    /\ Unstopped
    /\ pc[t] = "idle"
    /\ enabled' = TRUE
    /\ inFrame' = TRUE
    /\ pc' = [pc EXCEPT ![t] = "collecting"]
    /\ todo' = [todo EXCEPT ![t] = Queues]
    /\ UNCHANGED <<queueVars, work, sharedVars, lastWork>>
    /\ UpdateUnchanged

\* Mutant of Taken: the test for a null span is missing.
MutNullToo(q) == {span[q]}

\* The work found on queue q.
Taken(q) == {span[q]} \ {None}

\* One queue, under its mutex: its span moves into the work of the frame.
Collect(t, q) ==
    /\ pc[t] = "collecting"
    /\ q \in todo[t]
    /\ todo' = [todo EXCEPT ![t] = @ \ {q}]
    /\ work' = [work EXCEPT ![t] = @ \cup Taken(q)]
    /\ span' = [span EXCEPT ![q] = None]
    /\ pc' = IF todo[t] = {q} THEN [pc EXCEPT ![t] = "testing"] ELSE pc
    /\ UNCHANGED <<deviceVars, storing, sharedVars, lastWork>>
    /\ UpdateUnchanged

\* Mutant of Busy: only work nobody took counts.
MutOnlyPending == pending # {}

Busy == workInProgress

\* enqueue_work, first critical section: wait until no work is in progress.
Gate(t) ==
    /\ pc[t] = "testing"
    /\ IF Busy
       THEN /\ waiters' = waiters \cup {t}
            /\ pc' = [pc EXCEPT ![t] = "blocked"]
       ELSE /\ pc' = [pc EXCEPT ![t] = "publishing"]
            /\ UNCHANGED waiters
    /\ UNCHANGED <<deviceVars, queueVars, todo, work, pending, workInProgress, lastWork>>
    /\ UpdateUnchanged

\* Second critical section: hand the work over.
Publish(t) ==
    /\ pc[t] = "publishing"
    /\ pending' = {work[t]}
    /\ workInProgress' = TRUE
    /\ lastWork' = work[t]
    /\ work' = [work EXCEPT ![t] = {}]
    /\ pc' = [pc EXCEPT ![t] = "notifying"]
    /\ UNCHANGED <<deviceVars, queueVars, todo, waiters>>
    /\ UpdateUnchanged

\* What a thread does when it is woken: it tests its condition again.
Woken(W) ==
    /\ waiters' = waiters \ W
    /\ mpc' = IF Monitor \in W THEN "testing" ELSE mpc

\* Mutant of NotifyOne: nobody is notified.
MutNoNotify(t) ==
    /\ pc[t] = "notifying"
    /\ pc' = [pc EXCEPT ![t] = "idle"]
    /\ UNCHANGED <<deviceVars, swapVars, queueVars, gpuVars, todo, work, sharedVars,
                   monitorVars, stop, lastWork>>

\* notify_one, outside the mutex: it wakes any one of the waiting threads.
NotifyOne(t) ==
    /\ pc[t] = "notifying"
    /\ \/ /\ waiters = {}
          /\ UNCHANGED <<waiters, mpc>>
          /\ pc' = [pc EXCEPT ![t] = "idle"]
       \/ \E w \in waiters :
            /\ Woken({w})
            /\ pc' = [u \in Threads |-> IF u = t THEN "idle"
                                        ELSE IF u = w THEN "testing" ELSE pc[u]]
    /\ UNCHANGED <<deviceVars, swapVars, queueVars, gpuVars, todo, work, pending,
                   workInProgress, mwork, polled, stop, lastWork>>

-----------------------------------------------------------------------------
(* do_monitor.                                                             *)

MonitorUnchanged ==
    UNCHANGED <<deviceVars, swapVars, queueVars, gpuVars, todo, work, stop, lastWork>>

\* Mutant of Interrupted: the wait is not given the stop token.
MutNoToken == FALSE

\* A stop request ends the wait although there is no work.
Interrupted == stop

\* The wait: take the pending work, exit when stopped without any, or block.
MonitorTest ==
    /\ mpc = "testing"
    /\ \/ /\ pending # {}
          /\ mwork' = UNION pending
          /\ pending' = {}
          /\ mpc' = "awaiting"
          /\ UNCHANGED waiters
       \/ /\ pending = {} /\ Interrupted
          /\ mpc' = "exited"
          /\ UNCHANGED <<mwork, pending, waiters>>
       \/ /\ pending = {} /\ ~Interrupted
          /\ mpc' = "blocked"
          /\ waiters' = waiters \cup {Monitor}
          /\ UNCHANGED <<mwork, pending>>
    /\ UNCHANGED <<pc, workInProgress, polled>>
    /\ MonitorUnchanged

\* Mutant of Finished: it waits for one span of the frame only.
MutOneSpan == mwork = {} \/ mwork \cap done # {}

Finished == mwork \subseteq done

\* All spans are awaited; then, unless it did so lately, the monitor reads which
\* swapchain to ask the driver about.  No lock is held.  (The code reads the plain field
\* twice, to test and to pass it; a change between the two is not modelled apart.)
MonitorAwaited ==
    /\ mpc = "awaiting"
    /\ Finished
    /\ mwork' = {}
    /\ \/ mpc' = "pacing" /\ UNCHANGED polled
       \/ current # None /\ mpc' = "polling" /\ polled' = current
    /\ UNCHANGED <<pc, sharedVars>>
    /\ MonitorUnchanged

\* The driver's vkGetPastPresentationTiming has returned.
MonitorPolled ==
    /\ mpc = "polling"
    /\ mpc' = "pacing"
    /\ polled' = None
    /\ UNCHANGED <<pc, sharedVars, mwork>>
    /\ MonitorUnchanged

\* Mutant of MonitorFinish: the frame never ends.
MutStaysBusy ==
    /\ mpc = "pacing"
    /\ mpc' = "notifying"
    /\ UNCHANGED <<pc, sharedVars, mwork, polled>>
    /\ MonitorUnchanged

\* pace() has slept: the frame is over.
MonitorFinish ==
    /\ mpc = "pacing"
    /\ workInProgress' = FALSE
    /\ mpc' = "notifying"
    /\ UNCHANGED <<pc, waiters, pending, mwork, polled>>
    /\ MonitorUnchanged

MonitorNotifyAll ==
    /\ mpc = "notifying"
    /\ waiters' = {}
    /\ pc' = [t \in Threads |-> IF t \in waiters THEN "testing" ELSE pc[t]]
    /\ mpc' = "testing"
    /\ UNCHANGED <<pending, workInProgress, mwork, polled>>
    /\ MonitorUnchanged

MonitorStep == MonitorTest \/ MonitorAwaited \/ MonitorPolled \/ MonitorFinish
               \/ MonitorNotifyAll

-----------------------------------------------------------------------------
(* Swapchains, and the end of the device.                                  *)

SwapUnchanged ==
    UNCHANGED <<deviceVars, queueVars, gpuVars, callVars, sharedVars, monitorVars, lastWork>>

\* The driver creates the swapchain and notify_create_swapchain makes it current.
CreateSwapchain(s) ==
    /\ Unstopped
    /\ s \notin alive
    /\ alive' = alive \cup {s}
    /\ current' = s
    /\ UNCHANGED <<closing, stop>>
    /\ SwapUnchanged

\* notify_destroy_swapchain: nothing waits for the monitor.
NotifyDestroy(s) ==
    /\ Unstopped
    /\ s \in alive \ closing
    /\ closing' = closing \cup {s}
    /\ current' = IF current = s THEN None ELSE current
    /\ UNCHANGED <<alive, stop>>
    /\ SwapUnchanged

DriverDestroy(s) ==
    /\ s \in closing
    /\ alive' = alive \ {s}
    /\ closing' = closing \ {s}
    /\ UNCHANGED <<current, stop>>
    /\ SwapUnchanged

\* vkDestroyDevice, when no other call is running: ~jthread asks the monitor to stop,
\* which wakes it, and joins it.
Stop ==
    /\ Unstopped
    /\ \A t \in Threads : pc[t] = "idle"
    /\ \A q \in Queues : storing[q] = None
    /\ alive = {}
    /\ stop' = TRUE
    /\ Woken({Monitor} \cap waiters)
    /\ UNCHANGED <<deviceVars, swapVars, queueVars, gpuVars, callVars, pending,
                   workInProgress, mwork, polled, lastWork>>

Terminated == mpc = "exited" /\ done = submitted /\ UNCHANGED vars

-----------------------------------------------------------------------------

Call(t) == UpdatePresent(t) \/ UpdateInput(t) \/ \E on \in BOOLEAN : UpdateMode(t, on)

\* The steps of a call that is not blocked.
Proceed(t) == (\E q \in Queues : Collect(t, q)) \/ Gate(t) \/ Publish(t) \/ NotifyOne(t)

Next ==
    \/ \E q \in Queues, w \in Work : Submit(q, w)
    \/ \E q \in Queues : Store(q)
    \/ \E w \in Work : GpuDone(w)
    \/ \E t \in Threads : Call(t) \/ Proceed(t)
    \/ MonitorStep
    \/ \E s \in Swapchains : CreateSwapchain(s) \/ NotifyDestroy(s) \/ DriverDestroy(s)
    \/ Stop
    \/ Terminated

Spec == Init /\ [][Next]_vars

\* Threads that are not blocked run, pace() returns and the GPU completes its work.
Fairness ==
    /\ \A t \in Threads : WF_vars(Proceed(t))
    /\ WF_vars(MonitorStep)
    /\ \A q \in Queues : WF_vars(Store(q))
    /\ \A w \in Work : WF_vars(GpuDone(w))

FairSpec == Spec /\ Fairness

-----------------------------------------------------------------------------
(* Properties.                                                             *)

TypeOK ==
    /\ enabled \in BOOLEAN /\ inFrame \in BOOLEAN
    /\ current \in Swapchains \cup {None}
    /\ alive \subseteq Swapchains /\ closing \subseteq alive
    /\ span \in [Queues -> Work \cup {None}]
    /\ storing \in [Queues -> Work \cup {None}]
    /\ submitted \subseteq Work /\ done \subseteq submitted
    /\ pc \in [Threads -> {"idle", "collecting", "testing", "blocked", "publishing",
                           "notifying"}]
    /\ todo \in [Threads -> SUBSET Queues]
    /\ work \in [Threads -> SUBSET Work]
    /\ waiters \subseteq Threads \cup {Monitor}
    /\ pending \subseteq SUBSET Work /\ Cardinality(pending) <= 1
    /\ workInProgress \in BOOLEAN
    /\ mpc \in {"testing", "blocked", "awaiting", "polling", "pacing", "notifying",
                "exited"}
    /\ mwork \subseteq Work
    /\ polled \in Swapchains \cup {None}
    /\ stop \in BOOLEAN
    /\ lastWork \subseteq Work

\* "Queue depth is limited to 1": a thread that passed the gate finds the pipeline
\* empty, and all the work handed over before it complete on the GPU.
BackPressure ==
    \A t \in Threads : pc[t] = "publishing" =>
        /\ pending = {}
        /\ mpc \notin {"awaiting", "polling", "pacing"}
        /\ lastWork \subseteq done

\* Work that waits for a blocked monitor has a notification on its way to it: the
\* shared condition variable loses no wakeup.
NoLostWakeup ==
    pending # {} /\ mpc = "blocked" =>
        \E t \in Threads : pc[t] = "notifying" /\ waiters = {Monitor}

\* The swapchain the monitor asks the driver about is one the driver has.
PollsLiveSwapchain == mpc = "polling" => polled \in alive

\* Every INPUT call returns: back-pressure delays the application and never stops it.
InputReturns == \A t \in Threads : pc[t] = "collecting" ~> pc[t] = "idle"

\* The join in vkDestroyDevice returns, whatever the monitor was doing.
StopTerminates == stop ~> mpc = "exited"

\* What the application is promised about its frames, see FrameContract: whatever the
\* modes, the stages and the moments at which submissions arrive, a tracked submission is
\* handed over by the next INPUT update, waited for once, and never beside another frame.
FC == INSTANCE FrameContract WITH
        Work <- Work,
        past <- submitted \ {storing[q] : q \in Queues},
        tracked <- ({span[q] : q \in Queues} \cup UNION {work[t] : t \in Threads}) \ {None},
        due <- (UNION {work[t] \cup {span[q] : q \in todo[t]} : t \in Threads}) \ {None},
        awaited <- IF workInProgress THEN lastWork ELSE {},
        done <- done
FrameSpec == FC!FSpec

=============================================================================
