---------------------------- MODULE DeviceLifetime ----------------------------
(***************************************************************************)
(* The life of a device: the objects of DeviceContext and QueueContext,    *)
(* the three threads that live in them, and the locks the hooks hold while *)
(* they create, use and destroy them.  What the monitor, the reaper and    *)
(* the strategies do in detail is in their own modules; here a frame is a  *)
(* set of timestamp handles that moves from one of them to the next.       *)
(*                                                                         *)
(* Which of the two extensions is exposed (reflex) is fixed for the        *)
(* process.  With it a swapchain has a monitor; otherwise the device has   *)
(* one.                                                                    *)
(***************************************************************************)
EXTENDS Naturals, FiniteSets

CONSTANTS Threads,      \* application threads
          Handles,      \* timestamp handles (bound: in use at a time)
          None

\* Where a handle may be when no thread of the application has it in its hands.
Places == {"free", "tracked", "pending", "queued", "awaited", "expiring", "reaped"}

ASSUME DeviceConstants == None \notin Threads /\ Threads \cap Places = {}

Workers == {"monitor", "reaper", "calibrator"}

\* Mutant of Declared: the clock is declared last.
MutClockLast ==
    [clock |-> 6, commandPool |-> 2, pool |-> 3, queueStrategy |-> 4, strategy |-> 5]

\* Where each member is declared, the members of the queue's context before the strategy
\* of the device; destructors run in the reverse order.
Declared == [clock |-> 1, commandPool |-> 2, pool |-> 3, queueStrategy |-> 4, strategy |-> 5]

QueueMembers == {"commandPool", "pool", "queueStrategy"}

\* The std::jthread in each of them, if it has one: its destructor stops and joins it.
WorkerOf == [clock |-> "calibrator", pool |-> "reaper", strategy |-> "monitor"]

Members == DOMAIN Declared

Parts == {"driver"} \cup Members

\* Hooks of this device, and of others, that look their context up; and what they do
\* then.
Hooks == [other |-> "idle", submit |-> "submitting", collect |-> "collecting",
          sleep |-> "sleeping", getQueue |-> "getting", createSwapchain |-> "making",
          destroySwapchain |-> "closing"]

VARIABLES
    reflex,         \* should_expose_reflex
    alive,          \* objects that exist
    worker, stop,   \* what the worker threads do; those asked to stop
    place,          \* where a handle is, a thread if it is in that thread's hands
    gpu,            \* handles whose submission the GPU has not completed
    pc,             \* the application's threads
    layerMutex,     \* the thread that holds LayerContext::mutex exclusively, or None
    strategyMutex   \* likewise LowLatency2DeviceStrategy::mutex, while it is held long

workVars == <<worker, stop, place, gpu>>
lockVars == <<layerMutex, strategyMutex>>
vars == <<reflex, alive, workVars, pc, lockVars>>

At(p) == {h \in Handles : place[h] = p}

\* place after the handles in H go to p.
Moved(H, p) == [h \in Handles |-> IF h \in H THEN p ELSE place[h]]

Goto(t, l) == pc' = [pc EXCEPT ![t] = l]

Init ==
    /\ reflex \in BOOLEAN
    /\ alive = {}
    /\ worker = [w \in Workers |-> "none"] /\ stop = {}
    /\ place = [h \in Handles |-> "free"] /\ gpu = {}
    /\ pc = [t \in Threads |-> "idle"]
    /\ layerMutex = None /\ strategyMutex = None

-----------------------------------------------------------------------------
(* Which calls the application may make.                                   *)

\* Threads in a call for this device.
InCall == {t \in Threads : pc[t] \notin {"idle", "other"}}

\* The device is not being created or destroyed.
Usable == "driver" \in alive
          /\ \A t \in Threads : pc[t] \notin {"build", "destroy", "destroying", "driver"}

\* vkDestroyDevice needs all other calls to be over and all swapchains to be gone; one
\* thread drives the frames of anti-lag; a swapchain is destroyed once.
Legal(c) ==
    CASE c = "other" -> TRUE
      [] c = "create" -> alive = {} /\ InCall = {}
      [] c = "destroy" -> Usable /\ InCall = {} /\ (reflex => worker["monitor"] = "none")
      [] c = "getQueue" -> Usable
      [] c = "submit" -> Usable /\ "pool" \in alive
      [] c = "collect" -> Usable /\ "pool" \in alive
                          /\ (~reflex => \A t \in Threads : pc[t] \notin
                                            {"collect", "collecting", "attaching"})
      [] c = "sleep" -> Usable /\ reflex
      [] c \in {"createSwapchain", "destroySwapchain"} ->
           /\ Usable /\ reflex
           /\ (worker["monitor"] = "none") <=> (c = "createSwapchain")
           /\ \A t \in Threads : pc[t] \notin {"createSwapchain", "making",
                                               "destroySwapchain", "closing", "joining"}

Start(t, c) ==
    /\ pc[t] = "idle"
    /\ Legal(c)
    /\ Goto(t, c)
    /\ UNCHANGED <<reflex, alive, workVars, lockVars>>

\* get_context, with the layer's mutex shared.
Lookup(t) ==
    /\ pc[t] \in DOMAIN Hooks
    /\ layerMutex = None
    /\ Goto(t, Hooks[pc[t]])
    /\ UNCHANGED <<reflex, alive, workVars, lockVars>>

-----------------------------------------------------------------------------
(* The device and its queue come to life.                                  *)

\* CreateDevice: the driver's device first.
CreateInDriver(t) ==
    /\ pc[t] = "create"
    /\ alive' = {"driver"}
    /\ Goto(t, "build")
    /\ UNCHANGED <<reflex, workVars, lockVars>>

\* Then the context, under the layer's mutex: the clock, which calibrates, and the
\* strategy.
BuildDevice(t) ==
    /\ pc[t] = "build"
    /\ layerMutex = None
    /\ alive' = alive \cup {"clock", "strategy"}
    /\ worker' = [worker EXCEPT !["calibrator"] = "working",
                                !["monitor"] = IF reflex THEN @ ELSE "waiting"]
    /\ Goto(t, "idle")
    /\ UNCHANGED <<reflex, stop, place, gpu, lockVars>>

\* GetDeviceQueue: the queue's context is built once, under the layer's mutex, ...
BuildQueue(t) ==
    /\ pc[t] = "getting"
    /\ layerMutex = None
    /\ layerMutex' = t
    /\ alive' = alive \cup QueueMembers
    /\ worker' = IF "pool" \in alive THEN worker
                 ELSE [worker EXCEPT !["reaper"] = "waiting"]
    /\ Goto(t, "adding")
    /\ UNCHANGED <<reflex, stop, place, gpu, strategyMutex>>

\* ... and added to the device's under the device's mutex too.
AddQueue(t) ==
    /\ pc[t] = "adding"
    /\ \A u \in Threads : pc[u] # "collecting"
    /\ layerMutex' = None
    /\ Goto(t, "idle")
    /\ UNCHANGED <<reflex, alive, workVars, strategyMutex>>

-----------------------------------------------------------------------------
(* Work goes through it.                                                   *)

\* vkQueueSubmit acquires a handle; the driver accepts the submission or does not.
\* (Without a free handle the submission is left out.)
Submit(t) ==
    /\ pc[t] = "submitting"
    /\ \/ \E h \in At("free") :
            \/ /\ place' = Moved({h}, t) /\ gpu' = gpu \cup {h}
               /\ Goto(t, "notifying")
            \/ /\ place' = Moved({h}, "expiring") /\ UNCHANGED gpu
               /\ Goto(t, "idle")
       \/ /\ At("free") = {}
          /\ Goto(t, "idle")
          /\ UNCHANGED <<place, gpu>>
    /\ UNCHANGED <<reflex, alive, worker, stop, lockVars>>

\* notify_submit tracks the handle or not, perhaps instead of an earlier one.
Notify(t) ==
    /\ pc[t] = "notifying"
    /\ \/ place' = Moved(At(t), "expiring")
       \/ \E earlier \in SUBSET At("tracked") :
            place' = [h \in Handles |-> IF h \in At(t) THEN "tracked"
                                        ELSE IF h \in earlier THEN "expiring" ELSE place[h]]
    /\ Goto(t, "idle")
    /\ UNCHANGED <<reflex, alive, worker, stop, gpu, lockVars>>

\* A present, or an update at the INPUT stage, takes what is tracked for it, with the
\* device's mutex shared.
Collect(t) ==
    /\ pc[t] = "collecting"
    /\ \E H \in SUBSET At("tracked") :
         /\ reflex \/ H = At("tracked")
         /\ place' = Moved(H, t)
    /\ Goto(t, "attaching")
    /\ UNCHANGED <<reflex, alive, worker, stop, gpu, lockVars>>

\* attach_work: it replaces earlier work, or is dropped if there is no monitor or low
\* latency is off.
Attach(t) ==
    /\ pc[t] = "attaching" /\ reflex
    /\ strategyMutex = None
    /\ \/ place' = Moved(At(t), "expiring")
       \/ /\ worker["monitor"] # "none"
          /\ place' = [h \in Handles |-> CASE place[h] = t -> "pending"
                                           [] place[h] = "pending" -> "expiring"
                                           [] OTHER -> place[h]]
    /\ Goto(t, "idle")
    /\ UNCHANGED <<reflex, alive, worker, stop, gpu, lockVars>>

\* A sleep request queues the work attached last.
Sleep(t) ==
    /\ pc[t] = "sleeping"
    /\ strategyMutex = None
    /\ place' = Moved(At("pending"), "queued")
    /\ Goto(t, "idle")
    /\ UNCHANGED <<reflex, alive, worker, stop, gpu, lockVars>>

\* enqueue_work: once no work is in progress.
Enqueue(t) ==
    /\ pc[t] = "attaching" /\ ~reflex
    /\ worker["monitor"] = "waiting" /\ At("queued") = {}
    /\ place' = Moved(At(t), "queued")
    /\ Goto(t, "idle")
    /\ UNCHANGED <<reflex, alive, worker, stop, gpu, lockVars>>

-----------------------------------------------------------------------------
(* The worker threads.                                                     *)

WorkerUnchanged == UNCHANGED <<reflex, alive, stop, pc, lockVars>>

Becomes(w, l) == worker' = [worker EXCEPT ![w] = l]

\* do_monitor takes queued work.  When it has been stopped, the monitor of a swapchain
\* drops it; that of the device goes on until there is none.
MonitorTake ==
    /\ worker["monitor"] = "waiting" /\ At("queued") # {}
    /\ IF reflex /\ "monitor" \in stop
       THEN place' = Moved(At("queued"), "expiring") /\ UNCHANGED worker
       ELSE place' = Moved(At("queued"), "awaited") /\ Becomes("monitor", "working")
    /\ UNCHANGED gpu /\ WorkerUnchanged

\* Mutant of MonitorAwaited: the monitor looks its device up in the layer.
MutLooksUp ==
    /\ worker["monitor"] = "working" /\ At("awaited") \cap gpu = {}
    /\ layerMutex = None
    /\ Becomes("monitor", "pacing")
    /\ UNCHANGED <<place, gpu>> /\ WorkerUnchanged

\* await_completed has returned for all of it.
MonitorAwaited ==
    /\ worker["monitor"] = "working" /\ At("awaited") \cap gpu = {}
    /\ Becomes("monitor", "pacing")
    /\ UNCHANGED <<place, gpu>> /\ WorkerUnchanged

\* The pacer has slept, and the spans go out of scope.
MonitorPaced ==
    /\ worker["monitor"] = "pacing"
    /\ place' = Moved(At("awaited"), "expiring")
    /\ Becomes("monitor", "waiting")
    /\ UNCHANGED gpu /\ WorkerUnchanged

\* Mutant of ReaperTake: it takes every handle that waits, and forgets its stop.
MutTakeAll ==
    /\ worker["reaper"] = "waiting" /\ At("expiring") # {}
    /\ place' = Moved(At("expiring"), "reaped")
    /\ Becomes("reaper", "working")
    /\ UNCHANGED gpu /\ WorkerUnchanged

\* do_reaper takes one handle after the other ...
ReaperTake ==
    /\ worker["reaper"] = "waiting"
    /\ \E h \in At("expiring") : place' = Moved({h}, "reaped")
    /\ Becomes("reaper", "working")
    /\ UNCHANGED gpu /\ WorkerUnchanged

\* ... and frees it when the GPU is done with it.
ReaperFree ==
    /\ worker["reaper"] = "working" /\ At("reaped") \cap gpu = {}
    /\ place' = Moved(At("reaped"), "free")
    /\ Becomes("reaper", "waiting")
    /\ UNCHANGED gpu /\ WorkerUnchanged

\* do_calibration: the driver is asked for both times, and a second passes.
Calibrated ==
    /\ worker["calibrator"] = "working"
    /\ Becomes("calibrator", "waiting")
    /\ UNCHANGED <<place, gpu>> /\ WorkerUnchanged

CalibratesAgain ==
    /\ worker["calibrator"] = "waiting" /\ "calibrator" \notin stop
    /\ Becomes("calibrator", "working")
    /\ UNCHANGED <<place, gpu>> /\ WorkerUnchanged

\* What a worker has to finish before it obeys.
Backlog == [monitor |-> At("queued"), reaper |-> At("expiring"), calibrator |-> {}]

WorkerEnds(w) ==
    /\ worker[w] = "waiting" /\ w \in stop
    /\ Backlog[w] = {}
    /\ Becomes(w, "ended")
    /\ UNCHANGED <<place, gpu>> /\ WorkerUnchanged

\* The GPU completes a submission.
Complete(h) ==
    /\ h \in gpu
    /\ gpu' = gpu \ {h}
    /\ UNCHANGED <<place, worker>> /\ WorkerUnchanged

-----------------------------------------------------------------------------
(* Swapchains of the low latency extension, and the end of the device.     *)

\* notify_create_swapchain.
MakeMonitor(t) ==
    /\ pc[t] = "making"
    /\ strategyMutex = None
    /\ worker' = [worker EXCEPT !["monitor"] = "waiting"]
    /\ Goto(t, "idle")
    /\ UNCHANGED <<reflex, alive, stop, place, gpu, lockVars>>

\* notify_destroy_swapchain stops the monitor and joins it with the strategy's mutex held.
StopMonitor(t) ==
    /\ pc[t] = "closing"
    /\ strategyMutex = None
    /\ strategyMutex' = t
    /\ stop' = stop \cup {"monitor"}
    /\ Goto(t, "joining")
    /\ UNCHANGED <<reflex, alive, worker, place, gpu, layerMutex>>

\* The work attached goes with it.
JoinMonitor(t) ==
    /\ pc[t] = "joining"
    /\ worker["monitor"] = "ended"
    /\ worker' = [worker EXCEPT !["monitor"] = "none"]
    /\ stop' = stop \ {"monitor"}
    /\ place' = Moved(At("pending"), "expiring")
    /\ strategyMutex' = None
    /\ Goto(t, "idle")
    /\ UNCHANGED <<reflex, alive, gpu, layerMutex>>

\* DestroyDevice takes the layer's mutex and destroys the context, the last owner.
BeginDestroy(t) ==
    /\ pc[t] = "destroy"
    /\ layerMutex = None
    /\ layerMutex' = t
    /\ Goto(t, "destroying")
    /\ UNCHANGED <<reflex, alive, workVars, strategyMutex>>

\* The member whose destructor is next: the last one declared of those left.
Doomed(p) == p \in alive \cap Members
             /\ \A r \in (alive \cap Members) \ {p} : Declared[r] < Declared[p]

\* The worker of a member, if it has one.
WorkersOf(p) ==
    {WorkerOf[m] : m \in {p} \cap DOMAIN WorkerOf} \ {w \in Workers : worker[w] = "none"}

StopWorker(t) ==
    /\ pc[t] = "destroying"
    /\ \E p \in Members : Doomed(p) /\ \E w \in WorkersOf(p) \ stop : stop' = stop \cup {w}
    /\ UNCHANGED <<reflex, alive, worker, place, gpu, pc, lockVars>>

\* The handles a member still has are dropped with it.
Dropped(p) == CASE p = "queueStrategy" -> At("tracked")
                [] p = "strategy" -> At("pending")
                [] OTHER -> {}

DestroyMember(t) ==
    /\ pc[t] = "destroying"
    /\ \E p \in Members :
         /\ Doomed(p)
         /\ \A w \in WorkersOf(p) : worker[w] = "ended"
         /\ alive' = alive \ {p}
         /\ worker' = [w \in Workers |-> IF w \in WorkersOf(p) THEN "none" ELSE worker[w]]
         /\ stop' = stop \ WorkersOf(p)
         /\ place' = Moved(Dropped(p), "expiring")
    /\ UNCHANGED <<reflex, gpu, pc, lockVars>>

\* The mutex is released before the driver destroys the device.
Unlock(t) ==
    /\ pc[t] = "destroying" /\ alive \cap Members = {}
    /\ layerMutex' = None
    /\ Goto(t, "driver")
    /\ UNCHANGED <<reflex, alive, workVars, strategyMutex>>

DestroyInDriver(t) ==
    /\ pc[t] = "driver"
    /\ alive' = alive \ {"driver"}
    /\ Goto(t, "idle")
    /\ UNCHANGED <<reflex, workVars, lockVars>>

-----------------------------------------------------------------------------

CallStep(t) ==
    \/ Lookup(t)
    \/ CreateInDriver(t) \/ BuildDevice(t) \/ BuildQueue(t) \/ AddQueue(t)
    \/ Submit(t) \/ Notify(t) \/ Collect(t) \/ Attach(t) \/ Sleep(t) \/ Enqueue(t)
    \/ MakeMonitor(t) \/ StopMonitor(t) \/ JoinMonitor(t)
    \/ BeginDestroy(t) \/ StopWorker(t) \/ DestroyMember(t) \/ Unlock(t)
    \/ DestroyInDriver(t)

MonitorStep == MonitorTake \/ MonitorAwaited \/ MonitorPaced \/ WorkerEnds("monitor")
ReaperStep == ReaperTake \/ ReaperFree \/ WorkerEnds("reaper")
CalibratorStep == Calibrated \/ CalibratesAgain \/ WorkerEnds("calibrator")

Next ==
    \/ \E t \in Threads :
         \/ \E c \in DOMAIN Hooks \cup {"create", "destroy"} : Start(t, c)
         \/ CallStep(t)
    \/ MonitorStep \/ ReaperStep \/ CalibratorStep
    \/ \E h \in Handles : Complete(h)

Spec == Init /\ [][Next]_vars

\* Threads are scheduled, a mutex that is free again and again is got in the end, and the
\* GPU completes what it has accepted.
Fairness ==
    /\ \A t \in Threads : SF_vars(CallStep(t))
    /\ WF_vars(MonitorStep) /\ WF_vars(ReaperStep) /\ WF_vars(CalibratorStep)
    /\ \A h \in Handles : WF_vars(Complete(h))

FairSpec == Spec /\ Fairness

-----------------------------------------------------------------------------
(* Properties.                                                             *)

Running(w) == worker[w] \in {"waiting", "working", "pacing"}

\* Where a thread may be.
Locations == DOMAIN Hooks \cup {Hooks[c] : c \in DOMAIN Hooks} \cup
             {"create", "build", "adding", "notifying", "attaching", "joining", "destroy",
              "destroying", "driver"}

\* The variables have their types; the reaper has one handle at a time.
TypeOK ==
    /\ reflex \in BOOLEAN
    /\ alive \subseteq Parts
    /\ worker \in [Workers -> {"none", "waiting", "working", "pacing", "ended"}]
    /\ stop \subseteq {w \in Workers : worker[w] # "none"}
    /\ place \in [Handles -> Threads \cup Places]
    /\ Cardinality(At("reaped")) <= 1
    /\ gpu \subseteq {h \in Handles : place[h] # "free"}
    /\ pc \in [Threads -> Locations]
    /\ layerMutex \in Threads \cup {None} /\ strategyMutex \in Threads \cup {None}

\* What is in use exists: a thread's own object; the clock and the driver while the monitor
\* awaits timestamps or paces; the clock, the driver and the command pool while the reaper
\* waits for a handle; the driver while the clock is calibrated; the pool as long as any
\* handle is out, wherever it is, which its deleter and its chunk need; and the driver's
\* device as long as anything of it is left.
PartsInUseAreAlive ==
    /\ \A p \in DOMAIN WorkerOf : Running(WorkerOf[p]) => p \in alive
    /\ worker["monitor"] \in {"working", "pacing"} => {"clock", "driver"} \subseteq alive
    /\ worker["reaper"] = "working" => {"clock", "driver", "commandPool"} \subseteq alive
    /\ worker["calibrator"] = "working" => "driver" \in alive
    /\ (\E h \in Handles : place[h] # "free") => "pool" \in alive
    /\ "pool" \in alive => "commandPool" \in alive
    /\ alive # {} => "driver" \in alive

\* Every hook returns, those of other devices included, although vkDestroyDevice joins the
\* threads of a device with the mutex of the layer held, and vkDestroySwapchainKHR its
\* monitor with that of the strategy.
CallsReturn == \A t \in Threads : pc[t] # "idle" ~> pc[t] = "idle"

=============================================================================
