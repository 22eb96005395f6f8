------------------------- MODULE DeviceLifetimeProofs --------------------------
(***************************************************************************)
(* Proofs about DeviceLifetime, for every number of application threads    *)
(* and handles, and for both extensions.                                   *)
(***************************************************************************)
EXTENDS DeviceLifetime, FiniteSetTheorems, TLAPS

-----------------------------------------------------------------------------
(* The inductive invariant.                                                *)

\* What every device with a context has, and what may be left of a device.
Core == {"driver", "clock", "strategy"}

Remains == {{"driver"}, {"driver", "clock"}, {"driver", "clock", "commandPool"},
            {"driver", "clock", "commandPool", "pool"}, Parts \ {"strategy"}, Core, Parts}

\* Where a thread is in the calls that no other call of the device may overlap.
Alone == {"create", "build", "destroy", "destroying", "driver"}

\* In the calls for swapchains.
Opening == {"createSwapchain", "making"}
Closing == {"destroySwapchain", "closing", "joining"}

\* In the calls that need the queue's objects, and in those that need the device's.
QueueCalls == {"submit", "submitting", "notifying", "collect", "collecting", "attaching",
               "adding"}
DeviceCalls == {"getQueue", "getting", "sleep", "sleeping", "destroy"} \cup Opening
               \cup Closing

\* Which objects exist while a thread is where.
LifeInv ==
    /\ alive \in {{}} \cup Remains
    /\ \A t \in Threads :
         /\ pc[t] \in Alone => \A u \in Threads \ {t} : pc[u] \in {"idle", "other"}
         /\ pc[t] = "create" => alive = {}
         /\ pc[t] \in {"build", "driver"} => alive = {"driver"}
         /\ pc[t] = "destroying" => alive # {}
         /\ pc[t] \in DeviceCalls => alive \in {Core, Parts}
         /\ pc[t] \in QueueCalls => alive = Parts
    /\ alive \in {{}, Core, Parts}
         \/ \E t \in Threads : pc[t] \in {"build", "destroying", "driver"}

\* Which worker threads exist, and when they are asked to stop: the monitor by the thread
\* that joins it, the others when their object is the next to be destroyed.
WorkerInv ==
    /\ worker["calibrator"] # "none" <=> "clock" \in alive
    /\ worker["reaper"] # "none" <=> "pool" \in alive
    /\ worker["monitor"] # "none" => "strategy" \in alive
    /\ \A w \in Workers : worker[w] = "ended" => w \in stop
    /\ "calibrator" \in stop => alive = {"driver", "clock"}
    /\ "reaper" \in stop => alive = {"driver", "clock", "commandPool", "pool"}
    /\ "monitor" \in stop => IF reflex THEN strategyMutex # None
                                       ELSE \E t \in Threads : pc[t] = "destroying"

\* The monitor of a swapchain: one call at a time makes or unmakes it.
MonitorInv ==
    /\ strategyMutex # None => pc[strategyMutex] = "joining"
    /\ \A t \in Threads :
         /\ pc[t] \in Opening \cup Closing =>
              reflex /\ \A u \in Threads : pc[u] \in Opening \cup Closing => u = t
         /\ pc[t] \in Opening => worker["monitor"] = "none"
         /\ pc[t] \in Closing => worker["monitor"] # "none"
         /\ reflex /\ pc[t] \in {"destroy", "destroying"} => worker["monitor"] = "none"

\* Somebody is left to take care of every handle, wherever it is.
HandleInv ==
    \A h \in Handles :
      /\ place[h] \in Threads => pc[place[h]] \in {"notifying", "attaching"}
      /\ place[h] = "tracked" => "queueStrategy" \in alive
      /\ place[h] = "pending" => reflex /\ worker["monitor"] # "none"
      /\ place[h] = "queued" => Running("monitor")
      /\ place[h] = "awaited" => worker["monitor"] \in {"working", "pacing"}
      /\ place[h] = "expiring" => Running("reaper")
      /\ place[h] = "reaped" => worker["reaper"] = "working"
      /\ place[h] # "free" => "pool" \in alive

\* The reaper holds one handle at a time.
SingleInv ==
    \A g, h \in Handles : place[g] = "reaped" /\ place[h] = "reaped" => g = h

IInv == TypeOK /\ LifeInv /\ WorkerInv /\ MonitorInv /\ HandleInv /\ SingleInv

-----------------------------------------------------------------------------
(* The operators of the model.                                             *)

\* A set whose members are all equal has one member at most.
LEMMA AtMostOne ==
    ASSUME NEW S, \A x, y \in S : x = y
    PROVE  Cardinality(S) <= 1
<1>1. CASE S = {}
  BY <1>1, FS_EmptySet
<1>2. CASE S # {}
  <2>1. PICK x \in S : TRUE
    BY <1>2
  <2>2. S = {x}
    BY <2>1
  <2>3. Cardinality({x}) = 1
    BY FS_Singleton
  <2> QED
    BY <2>2, <2>3
<1> QED
  BY <1>1, <1>2

LEMMA SingleReaped == SingleInv' => Cardinality(At("reaped")') <= 1
<1> SUFFICES ASSUME SingleInv' PROVE Cardinality(At("reaped")') <= 1
  OBVIOUS
<1>1. PICK S : S = At("reaped")'
  OBVIOUS
<1>2. \A x, y \in S : x = y
  BY <1>1 DEF SingleInv, At
<1> QED
  BY <1>1, <1>2, AtMostOne

LEMMA HooksAre ==
    /\ DOMAIN Hooks = {"other", "submit", "collect", "sleep", "getQueue", "createSwapchain",
                       "destroySwapchain"}
    /\ Hooks["other"] = "idle" /\ Hooks["submit"] = "submitting"
    /\ Hooks["collect"] = "collecting" /\ Hooks["sleep"] = "sleeping"
    /\ Hooks["getQueue"] = "getting" /\ Hooks["createSwapchain"] = "making"
    /\ Hooks["destroySwapchain"] = "closing"
  BY DEF Hooks

LEMMA LocationsAre ==
    \A l : l \in Locations <=>
      l \in {"other", "submit", "collect", "sleep", "getQueue", "createSwapchain",
             "destroySwapchain", "idle", "submitting", "collecting", "sleeping", "getting",
             "making", "closing", "create", "build", "adding", "notifying", "attaching",
             "joining", "destroy", "destroying", "driver"}
<1>1. \A l : (\E c \in DOMAIN Hooks : l = Hooks[c]) <=>
             l \in {"idle", "submitting", "collecting", "sleeping", "getting", "making", "closing"}
  BY HooksAre
<1>2. \A l : l \in Locations <=>
        \/ l \in DOMAIN Hooks \/ \E c \in DOMAIN Hooks : l = Hooks[c]
        \/ l \in {"create", "build", "adding", "notifying", "attaching", "joining", "destroy",
                  "destroying", "driver"}
  BY DEF Locations
<1> QED
  BY <1>1, <1>2, HooksAre

\* Destructors run in the reverse order of declaration.
LEMMA DoomedIs ==
    ASSUME alive \in Remains, NEW p \in Members, Doomed(p)
    PROVE  \/ p = "clock" /\ alive = {"driver", "clock"}
           \/ p = "commandPool" /\ alive = {"driver", "clock", "commandPool"}
           \/ p = "pool" /\ alive = {"driver", "clock", "commandPool", "pool"}
           \/ p = "queueStrategy" /\ alive = Parts \ {"strategy"}
           \/ p = "strategy" /\ alive \in {Core, Parts}
<1>1. Members = {"clock", "commandPool", "pool", "queueStrategy", "strategy"}
  BY DEF Members, Declared
<1>2. /\ Declared["clock"] = 1 /\ Declared["commandPool"] = 2 /\ Declared["pool"] = 3
      /\ Declared["queueStrategy"] = 4 /\ Declared["strategy"] = 5
  BY DEF Declared
<1>3. /\ p \in alive
      /\ \A r \in Members : r \in alive /\ r # p => Declared[r] < Declared[p]
  BY DEF Doomed
<1> QED
  BY <1>1, <1>2, <1>3 DEF Remains, Parts, Core

LEMMA WorkersOfIs ==
    ASSUME NEW p \in Members
    PROVE  \A w : w \in WorkersOf(p) <=>
                    /\ \/ p = "clock" /\ w = "calibrator"
                       \/ p = "pool" /\ w = "reaper"
                       \/ p = "strategy" /\ w = "monitor"
                    /\ worker[w] # "none"
<1>1. DOMAIN WorkerOf = {"clock", "pool", "strategy"}
  BY DEF WorkerOf
<1>2. /\ WorkerOf["clock"] = "calibrator" /\ WorkerOf["pool"] = "reaper"
      /\ WorkerOf["strategy"] = "monitor"
  BY DEF WorkerOf
<1>3. \A w : w \in WorkersOf(p) <=>
               /\ \E m \in DOMAIN WorkerOf : m = p /\ w = WorkerOf[m]
               /\ ~(w \in Workers /\ worker[w] = "none")
  BY DEF WorkersOf
<1> QED
  BY <1>1, <1>2, <1>3 DEF Workers

\* As long as the pool's users may be there, its reaper runs.
LEMMA ReaperRuns ==
    ASSUME TypeOK, WorkerInv, "pool" \in alive,
           alive # {"driver", "clock", "commandPool", "pool"}
    PROVE  Running("reaper")
  BY DEF TypeOK, WorkerInv, Running, Workers

\* What a call may rely on when it starts.
LEMMA LegalIs ==
    ASSUME LifeInv, NEW c \in DOMAIN Hooks \cup {"create", "destroy"}, Legal(c)
    PROVE  /\ c \in {"create", "destroy"} => \A u \in Threads : pc[u] \in {"idle", "other"}
           /\ c = "create" => alive = {}
           /\ c \notin {"create", "other"} =>
                /\ alive \in {Core, Parts}
                /\ \A u \in Threads : pc[u] \notin Alone
           /\ c = "destroy" /\ reflex => worker["monitor"] = "none"
           /\ c \in {"submit", "collect"} => alive = Parts
           /\ c \in {"createSwapchain", "destroySwapchain"} =>
                /\ reflex /\ (worker["monitor"] = "none" <=> c = "createSwapchain")
                /\ \A u \in Threads : pc[u] \notin Opening \cup Closing
<1>1. c \in {"other", "submit", "collect", "sleep", "getQueue", "createSwapchain",
            "destroySwapchain", "create", "destroy"}
  BY HooksAre
<1>2. InCall = {} => \A u \in Threads : pc[u] \in {"idle", "other"}
  BY DEF InCall
<1>3. ASSUME Usable
      PROVE  alive \in {Core, Parts} /\ \A u \in Threads : pc[u] \notin Alone
  <2>1. "driver" \in alive
        /\ \A u \in Threads : pc[u] \notin {"build", "destroy", "destroying", "driver"}
    BY <1>3 DEF Usable
  <2>2. alive \in {{}, Core, Parts} /\ alive # {}
    BY <2>1 DEF LifeInv
  <2>3. \A u \in Threads : pc[u] # "create"
    BY <2>2 DEF LifeInv
  <2> QED
    BY <2>1, <2>2, <2>3 DEF Alone
<1>4. c \notin {"create", "other"} => Usable
  BY <1>1 DEF Legal
<1>5. /\ c \in {"create", "destroy"} => InCall = {}
      /\ c = "create" => alive = {}
      /\ c = "destroy" /\ reflex => worker["monitor"] = "none"
  BY DEF Legal
<1>6. c \in {"submit", "collect"} => "pool" \in alive
  BY DEF Legal
<1>7. c \in {"createSwapchain", "destroySwapchain"} =>
        /\ reflex /\ (worker["monitor"] = "none" <=> c = "createSwapchain")
        /\ \A u \in Threads : pc[u] \notin Opening \cup Closing
  BY DEF Legal, Opening, Closing
<1>8. c \in {"submit", "collect"} => alive = Parts
  BY <1>3, <1>4, <1>6 DEF Core
<1> QED
  BY <1>2, <1>3, <1>4, <1>5, <1>7, <1>8

-----------------------------------------------------------------------------
(* The inductive step, action by action.                                   *)

LEMMA StartInv ==
    ASSUME IInv, NEW t \in Threads, NEW c \in DOMAIN Hooks \cup {"create", "destroy"}, Start(t, c)
    PROVE  IInv'
<1>t. TypeOK /\ LifeInv /\ WorkerInv /\ MonitorInv /\ HandleInv /\ SingleInv
  BY DEF IInv
<1>f. /\ pc[t] = "idle" /\ Legal(c)
      /\ UNCHANGED <<reflex, alive, worker, stop, place, gpu, layerMutex, strategyMutex>>
      /\ \A u \in Threads : pc'[u] = IF u = t THEN c ELSE pc[u]
  BY <1>t DEF TypeOK, Start, Goto, workVars, lockVars
<1>e. /\ c \in {"other", "submit", "collect", "sleep", "getQueue", "createSwapchain",
                "destroySwapchain", "create", "destroy"}
      /\ c \in {"create", "destroy"} => \A u \in Threads : pc[u] \in {"idle", "other"}
      /\ c = "create" => alive = {}
      /\ c \notin {"create", "other"} =>
           /\ alive \in {Core, Parts}
           /\ \A u \in Threads : pc[u] \notin Alone
      /\ c = "destroy" /\ reflex => worker["monitor"] = "none"
      /\ c \in {"submit", "collect"} => alive = Parts
      /\ c \in {"createSwapchain", "destroySwapchain"} =>
           /\ reflex /\ (worker["monitor"] = "none" <=> c = "createSwapchain")
           /\ \A u \in Threads : pc[u] \notin Opening \cup Closing
  BY <1>t, <1>f, HooksAre, LegalIs
<1>1. LifeInv'
  BY <1>t, <1>f, <1>e DEF LifeInv, Alone, DeviceCalls, QueueCalls, Opening, Closing
<1>2. WorkerInv'
  BY <1>t, <1>f, <1>e DEF WorkerInv, TypeOK, Workers
<1>3. MonitorInv'
  BY <1>t, <1>f, <1>e DEF MonitorInv, Opening, Closing, TypeOK
<1>4. HandleInv'
  BY <1>t, <1>f, <1>e DEF HandleInv, Running, TypeOK
<1>5. SingleInv'
  BY <1>t, <1>f DEF SingleInv
<1>6. TypeOK'
  <2>1. Cardinality(At("reaped")') <= 1
    BY <1>5, SingleReaped
  <2>2. alive' \subseteq Parts
    BY <1>1 DEF LifeInv, Remains, Core, Parts, Members, Declared
  <2>3. pc' \in [Threads -> Locations]
    BY <1>t, <1>e, LocationsAre DEF TypeOK, Start, Goto
  <2> QED
    BY <1>t, <1>f, <2>1, <2>2, <2>3 DEF TypeOK
<1> QED
  BY <1>1, <1>2, <1>3, <1>4, <1>5, <1>6 DEF IInv

LEMMA LookupInv ==
    ASSUME IInv, NEW t \in Threads, Lookup(t)
    PROVE  IInv'
<1>t. TypeOK /\ LifeInv /\ WorkerInv /\ MonitorInv /\ HandleInv /\ SingleInv
  BY DEF IInv
<1>f. /\ pc[t] \in DOMAIN Hooks
      /\ UNCHANGED <<reflex, alive, worker, stop, place, gpu, layerMutex, strategyMutex>>
      /\ \A u \in Threads : pc'[u] = IF u = t THEN Hooks[pc[t]] ELSE pc[u]
  BY <1>t DEF TypeOK, Lookup, Goto, workVars, lockVars
<1>e. PICK l :
        /\ l = Hooks[pc[t]]
        /\ \A u \in Threads : pc'[u] = IF u = t THEN l ELSE pc[u]
        /\ \/ pc[t] = "other" /\ l = "idle"
           \/ pc[t] = "submit" /\ l = "submitting"
           \/ pc[t] = "collect" /\ l = "collecting"
           \/ pc[t] = "sleep" /\ l = "sleeping"
           \/ pc[t] = "getQueue" /\ l = "getting"
           \/ pc[t] = "createSwapchain" /\ l = "making"
           \/ pc[t] = "destroySwapchain" /\ l = "closing"
  BY <1>f, HooksAre
<1>1. LifeInv'
  BY <1>t, <1>f, <1>e DEF LifeInv, Alone, DeviceCalls, QueueCalls, Opening, Closing
<1>2. WorkerInv'
  BY <1>t, <1>f, <1>e DEF WorkerInv, TypeOK, Workers
<1>3. MonitorInv'
  BY <1>t, <1>f, <1>e DEF MonitorInv, Opening, Closing, TypeOK
<1>4. HandleInv'
  BY <1>t, <1>f, <1>e DEF HandleInv, Running, TypeOK
<1>5. SingleInv'
  BY <1>t, <1>f DEF SingleInv
<1>6. TypeOK'
  <2>1. Cardinality(At("reaped")') <= 1
    BY <1>5, SingleReaped
  <2>2. alive' \subseteq Parts
    BY <1>1 DEF LifeInv, Remains, Core, Parts, Members, Declared
  <2>3. pc' \in [Threads -> Locations]
    BY <1>t, <1>e, LocationsAre DEF TypeOK, Lookup, Goto
  <2> QED
    BY <1>t, <1>f, <2>1, <2>2, <2>3 DEF TypeOK
<1> QED
  BY <1>1, <1>2, <1>3, <1>4, <1>5, <1>6 DEF IInv

LEMMA CreateInDriverInv ==
    ASSUME IInv, NEW t \in Threads, CreateInDriver(t)
    PROVE  IInv'
<1>t. TypeOK /\ LifeInv /\ WorkerInv /\ MonitorInv /\ HandleInv /\ SingleInv
  BY DEF IInv
<1>f. /\ pc[t] = "create"
      /\ UNCHANGED <<reflex, worker, stop, place, gpu, layerMutex, strategyMutex>>
      /\ \A u \in Threads : pc'[u] = IF u = t THEN "build" ELSE pc[u]
      /\ alive' = {"driver"}
  BY <1>t DEF TypeOK, CreateInDriver, Goto, workVars, lockVars
<1>1. LifeInv'
  BY <1>t, <1>f DEF LifeInv, Alone, DeviceCalls, QueueCalls, Opening, Closing, Core,
     Remains, Parts, Members, Declared, QueueMembers
<1>2. WorkerInv'
  BY <1>t, <1>f DEF WorkerInv, TypeOK, Workers, LifeInv, Core, Remains, Parts, Members,
     Declared, QueueMembers
<1>3. MonitorInv'
  BY <1>t, <1>f DEF MonitorInv, Opening, Closing, TypeOK
<1>4. HandleInv'
  BY <1>t, <1>f DEF HandleInv, Running, TypeOK, QueueMembers, LifeInv
<1>5. SingleInv'
  BY <1>t, <1>f DEF SingleInv
<1>6. TypeOK'
  <2>1. Cardinality(At("reaped")') <= 1
    BY <1>5, SingleReaped
  <2>2. alive' \subseteq Parts
    BY <1>1 DEF LifeInv, Remains, Core, Parts, Members, Declared
  <2>3. pc' \in [Threads -> Locations]
    BY <1>t, LocationsAre DEF TypeOK, CreateInDriver, Goto
  <2> QED
    BY <1>t, <1>f, <2>1, <2>2, <2>3 DEF TypeOK
<1> QED
  BY <1>1, <1>2, <1>3, <1>4, <1>5, <1>6 DEF IInv

LEMMA BuildDeviceInv ==
    ASSUME IInv, NEW t \in Threads, BuildDevice(t)
    PROVE  IInv'
<1>t. TypeOK /\ LifeInv /\ WorkerInv /\ MonitorInv /\ HandleInv /\ SingleInv
  BY DEF IInv
<1>f. /\ pc[t] = "build"
      /\ UNCHANGED <<reflex, stop, place, gpu, layerMutex, strategyMutex>>
      /\ \A u \in Threads : pc'[u] = IF u = t THEN "idle" ELSE pc[u]
      /\ alive' = alive \cup {"clock", "strategy"}
      /\ \A w \in Workers : worker'[w] = CASE w = "calibrator" -> "working"
                                   [] w = "monitor" -> IF reflex THEN worker[w] ELSE "waiting"
                                   [] OTHER -> worker[w]
  BY <1>t DEF TypeOK, BuildDevice, Goto, lockVars, Workers
<1>1. LifeInv'
  BY <1>t, <1>f DEF LifeInv, Alone, DeviceCalls, QueueCalls, Opening, Closing, Core,
     Remains, Parts, Members, Declared, QueueMembers
<1>2. WorkerInv'
  BY <1>t, <1>f DEF WorkerInv, TypeOK, Workers, LifeInv, Core, Remains, Parts, Members,
     Declared, QueueMembers
<1>3. MonitorInv'
  BY <1>t, <1>f DEF MonitorInv, Opening, Closing, TypeOK, Workers
<1>4. HandleInv'
  BY <1>t, <1>f DEF HandleInv, Running, TypeOK, Workers, QueueMembers, LifeInv
<1>5. SingleInv'
  BY <1>t, <1>f DEF SingleInv
<1>6. TypeOK'
  <2>1. Cardinality(At("reaped")') <= 1
    BY <1>5, SingleReaped
  <2>2. alive' \subseteq Parts
    BY <1>1 DEF LifeInv, Remains, Core, Parts, Members, Declared
  <2>3. pc' \in [Threads -> Locations]
    BY <1>t, LocationsAre DEF TypeOK, BuildDevice, Goto
  <2>4. worker' \in [Workers -> {"none", "waiting", "working", "pacing", "ended"}]
    BY <1>t DEF TypeOK, BuildDevice, Becomes
  <2>5. /\ stop' \subseteq {w \in Workers : worker'[w] # "none"}
        /\ gpu' \subseteq {h \in Handles : place'[h] # "free"}
    BY <1>t, <1>f, DeviceConstants DEF TypeOK, Workers, Places, WorkerInv
  <2> QED
    BY <1>t, <1>f, <2>1, <2>2, <2>3, <2>4, <2>5 DEF TypeOK
<1> QED
  BY <1>1, <1>2, <1>3, <1>4, <1>5, <1>6 DEF IInv

LEMMA BuildQueueInv ==
    ASSUME IInv, NEW t \in Threads, BuildQueue(t)
    PROVE  IInv'
<1>t. TypeOK /\ LifeInv /\ WorkerInv /\ MonitorInv /\ HandleInv /\ SingleInv
  BY DEF IInv
<1>f. /\ pc[t] = "getting"
      /\ UNCHANGED <<reflex, stop, place, gpu, strategyMutex>>
      /\ \A u \in Threads : pc'[u] = IF u = t THEN "adding" ELSE pc[u]
      /\ alive' = alive \cup QueueMembers
      /\ layerMutex' = t
      /\ \A w \in Workers : worker'[w] = IF w = "reaper" /\ "pool" \notin alive
                                   THEN "waiting" ELSE worker[w]
  BY <1>t DEF TypeOK, BuildQueue, Goto, Workers
<1>1. LifeInv'
  BY <1>t, <1>f DEF LifeInv, Alone, DeviceCalls, QueueCalls, Opening, Closing, Core,
     Remains, Parts, Members, Declared, QueueMembers
<1>2. WorkerInv'
  BY <1>t, <1>f, DeviceConstants DEF WorkerInv, LifeInv, MonitorInv, TypeOK, Workers, Core,
     Remains, Parts, Members, Declared, QueueMembers, Alone, QueueCalls, DeviceCalls,
     Opening, Closing
<1>3. MonitorInv'
  BY <1>t, <1>f DEF MonitorInv, Opening, Closing, TypeOK, Workers
<1>4. HandleInv'
  BY <1>t, <1>f DEF HandleInv, Running, TypeOK, Workers, QueueMembers, LifeInv
<1>5. SingleInv'
  BY <1>t, <1>f DEF SingleInv
<1>6. TypeOK'
  <2>1. Cardinality(At("reaped")') <= 1
    BY <1>5, SingleReaped
  <2>2. alive' \subseteq Parts
    BY <1>1 DEF LifeInv, Remains, Core, Parts, Members, Declared
  <2>3. pc' \in [Threads -> Locations]
    BY <1>t, LocationsAre DEF TypeOK, BuildQueue, Goto
  <2>4. worker' \in [Workers -> {"none", "waiting", "working", "pacing", "ended"}]
    BY <1>t DEF TypeOK, BuildQueue, Becomes
  <2>5. /\ stop' \subseteq {w \in Workers : worker'[w] # "none"}
        /\ gpu' \subseteq {h \in Handles : place'[h] # "free"}
    BY <1>t, <1>f, DeviceConstants DEF TypeOK, Workers, Places, WorkerInv
  <2> QED
    BY <1>t, <1>f, <2>1, <2>2, <2>3, <2>4, <2>5 DEF TypeOK
<1> QED
  BY <1>1, <1>2, <1>3, <1>4, <1>5, <1>6 DEF IInv

LEMMA AddQueueInv ==
    ASSUME IInv, NEW t \in Threads, AddQueue(t)
    PROVE  IInv'
<1>t. TypeOK /\ LifeInv /\ WorkerInv /\ MonitorInv /\ HandleInv /\ SingleInv
  BY DEF IInv
<1>f. /\ pc[t] = "adding"
      /\ UNCHANGED <<reflex, alive, worker, stop, place, gpu, strategyMutex>>
      /\ \A u \in Threads : pc'[u] = IF u = t THEN "idle" ELSE pc[u]
      /\ layerMutex' = None
  BY <1>t DEF TypeOK, AddQueue, Goto, workVars
<1>1. LifeInv'
  BY <1>t, <1>f DEF LifeInv, Alone, DeviceCalls, QueueCalls, Opening, Closing
<1>2. WorkerInv'
  BY <1>t, <1>f DEF WorkerInv, TypeOK, Workers
<1>3. MonitorInv'
  BY <1>t, <1>f DEF MonitorInv, Opening, Closing, TypeOK
<1>4. HandleInv'
  BY <1>t, <1>f DEF HandleInv, Running, TypeOK
<1>5. SingleInv'
  BY <1>t, <1>f DEF SingleInv
<1>6. TypeOK'
  <2>1. Cardinality(At("reaped")') <= 1
    BY <1>5, SingleReaped
  <2>2. alive' \subseteq Parts
    BY <1>1 DEF LifeInv, Remains, Core, Parts, Members, Declared
  <2>3. pc' \in [Threads -> Locations]
    BY <1>t, LocationsAre DEF TypeOK, AddQueue, Goto
  <2> QED
    BY <1>t, <1>f, <2>1, <2>2, <2>3 DEF TypeOK
<1> QED
  BY <1>1, <1>2, <1>3, <1>4, <1>5, <1>6 DEF IInv

LEMMA SubmitInv ==
    ASSUME IInv, NEW t \in Threads, Submit(t)
    PROVE  IInv'
<1>t. TypeOK /\ LifeInv /\ WorkerInv /\ MonitorInv /\ HandleInv /\ SingleInv
  BY DEF IInv
<1>f. /\ pc[t] = "submitting"
      /\ UNCHANGED <<reflex, alive, worker, stop, layerMutex, strategyMutex>>
      /\ \/ /\ \E g \in Handles : /\ place[g] = "free" /\ gpu' = gpu \cup {g}
                                  /\ \A h \in Handles : place'[h] = IF h = g THEN t ELSE place[h]
            /\ \A u \in Threads : pc'[u] = IF u = t THEN "notifying" ELSE pc[u]
         \/ /\ \E g \in Handles : /\ place[g] = "free" /\ gpu' = gpu
                                  /\ \A h \in Handles : place'[h] = IF h = g THEN "expiring" ELSE place[h]
            /\ \A u \in Threads : pc'[u] = IF u = t THEN "idle" ELSE pc[u]
         \/ /\ gpu' = gpu
            /\ \A h \in Handles : place'[h] = place[h]
            /\ \A u \in Threads : pc'[u] = IF u = t THEN "idle" ELSE pc[u]
  BY <1>t DEF TypeOK, Submit, Goto, At, Moved, lockVars
<1>1. LifeInv'
  BY <1>t, <1>f, DeviceConstants DEF LifeInv, Alone, DeviceCalls, QueueCalls, Opening,
     Closing
<1>2. WorkerInv'
  BY <1>t, <1>f, DeviceConstants DEF WorkerInv, TypeOK, Workers
<1>3. MonitorInv'
  BY <1>t, <1>f, DeviceConstants DEF MonitorInv, Opening, Closing, TypeOK
<1>4. HandleInv'
  BY <1>t, <1>f, ReaperRuns, DeviceConstants DEF HandleInv, Running, LifeInv, WorkerInv,
     TypeOK, Core, Parts, Members, Declared, QueueMembers, QueueCalls, Places, MonitorInv,
     Workers
<1>5. SingleInv'
  BY <1>t, <1>f, DeviceConstants DEF SingleInv, HandleInv, TypeOK, Places
<1>6. TypeOK'
  <2>1. Cardinality(At("reaped")') <= 1
    BY <1>5, SingleReaped
  <2>2. alive' \subseteq Parts
    BY <1>1 DEF LifeInv, Remains, Core, Parts, Members, Declared
  <2>3. pc' \in [Threads -> Locations]
    BY <1>t, LocationsAre DEF TypeOK, Submit, Goto
  <2>4. place' \in [Handles -> Threads \cup Places]
    BY <1>t DEF TypeOK, Submit, Moved, Places, At
  <2>5. /\ stop' \subseteq {w \in Workers : worker'[w] # "none"}
        /\ gpu' \subseteq {h \in Handles : place'[h] # "free"}
    BY <1>t, <1>f, DeviceConstants DEF TypeOK, Workers, Places
  <2> QED
    BY <1>t, <1>f, <2>1, <2>2, <2>3, <2>4, <2>5 DEF TypeOK
<1> QED
  BY <1>1, <1>2, <1>3, <1>4, <1>5, <1>6 DEF IInv

LEMMA NotifyInv ==
    ASSUME IInv, NEW t \in Threads, Notify(t)
    PROVE  IInv'
<1>t. TypeOK /\ LifeInv /\ WorkerInv /\ MonitorInv /\ HandleInv /\ SingleInv
  BY DEF IInv
<1>f. /\ pc[t] = "notifying"
      /\ UNCHANGED <<reflex, alive, worker, stop, gpu, layerMutex, strategyMutex>>
      /\ \A u \in Threads : pc'[u] = IF u = t THEN "idle" ELSE pc[u]
      /\ \/ /\ \A h \in Handles : place'[h] = IF place[h] = t THEN "expiring" ELSE place[h]
         \/ /\ \A h \in Handles : \/ place[h] = t /\ place'[h] = "tracked"
                                  \/ place[h] # t /\ place'[h] = place[h]
                                  \/ place[h] = "tracked" /\ place'[h] = "expiring"
  BY <1>t DEF TypeOK, Notify, Goto, At, Moved, lockVars
<1>1. LifeInv'
  BY <1>t, <1>f, DeviceConstants DEF LifeInv, Alone, DeviceCalls, QueueCalls, Opening,
     Closing
<1>2. WorkerInv'
  BY <1>t, <1>f, DeviceConstants DEF WorkerInv, TypeOK, Workers
<1>3. MonitorInv'
  BY <1>t, <1>f, DeviceConstants DEF MonitorInv, Opening, Closing, TypeOK
<1>4. HandleInv'
  BY <1>t, <1>f, ReaperRuns, DeviceConstants DEF HandleInv, Running, LifeInv, WorkerInv,
     TypeOK, Core, Parts, Members, Declared, QueueMembers, QueueCalls, Places, MonitorInv,
     Workers
<1>5. SingleInv'
  BY <1>t, <1>f, DeviceConstants DEF SingleInv, HandleInv, TypeOK, Places
<1>6. TypeOK'
  <2>1. Cardinality(At("reaped")') <= 1
    BY <1>5, SingleReaped
  <2>2. alive' \subseteq Parts
    BY <1>1 DEF LifeInv, Remains, Core, Parts, Members, Declared
  <2>3. pc' \in [Threads -> Locations]
    BY <1>t, LocationsAre DEF TypeOK, Notify, Goto
  <2>4. place' \in [Handles -> Threads \cup Places]
    BY <1>t DEF TypeOK, Notify, Moved, Places, At
  <2>5. /\ stop' \subseteq {w \in Workers : worker'[w] # "none"}
        /\ gpu' \subseteq {h \in Handles : place'[h] # "free"}
    BY <1>t, <1>f, DeviceConstants DEF TypeOK, Workers, Places
  <2> QED
    BY <1>t, <1>f, <2>1, <2>2, <2>3, <2>4, <2>5 DEF TypeOK
<1> QED
  BY <1>1, <1>2, <1>3, <1>4, <1>5, <1>6 DEF IInv

LEMMA CollectInv ==
    ASSUME IInv, NEW t \in Threads, Collect(t)
    PROVE  IInv'
<1>t. TypeOK /\ LifeInv /\ WorkerInv /\ MonitorInv /\ HandleInv /\ SingleInv
  BY DEF IInv
<1>f. /\ pc[t] = "collecting"
      /\ UNCHANGED <<reflex, alive, worker, stop, gpu, layerMutex, strategyMutex>>
      /\ \A u \in Threads : pc'[u] = IF u = t THEN "attaching" ELSE pc[u]
      /\ \A h \in Handles : place'[h] = place[h] \/ (place[h] = "tracked" /\ place'[h] = t)
  <2>1. PICK H \in SUBSET At("tracked") : place' = Moved(H, t)
    BY DEF Collect
  <2>2. \A h \in H : place[h] = "tracked"
    BY DEF At
  <2>3. \A h \in Handles : place'[h] = IF h \in H THEN t ELSE place[h]
    BY <2>1 DEF Moved
  <2>4. \A h \in Handles : place'[h] = place[h] \/ (place[h] = "tracked" /\ place'[h] = t)
    BY <2>2, <2>3
  <2>5. pc[t] = "collecting" /\ \A u \in Threads : pc'[u] = IF u = t THEN "attaching" ELSE pc[u]
    BY <1>t DEF TypeOK, Collect, Goto
  <2> QED
    BY <2>4, <2>5 DEF Collect, lockVars 
<1>1. LifeInv'
  BY <1>t, <1>f, DeviceConstants DEF LifeInv, Alone, DeviceCalls, QueueCalls, Opening,
     Closing
<1>2. WorkerInv'
  BY <1>t, <1>f, DeviceConstants DEF WorkerInv, TypeOK, Workers
<1>3. MonitorInv'
  BY <1>t, <1>f, DeviceConstants DEF MonitorInv, Opening, Closing, TypeOK
<1>4. HandleInv'
  BY <1>t, <1>f, ReaperRuns, DeviceConstants DEF HandleInv, Running, LifeInv, WorkerInv,
     TypeOK, Core, Parts, Members, Declared, QueueMembers, QueueCalls, Places, MonitorInv,
     Workers
<1>5. SingleInv'
  BY <1>t, <1>f, DeviceConstants DEF SingleInv, HandleInv, TypeOK, Places, Places
<1>6. TypeOK'
  <2>1. Cardinality(At("reaped")') <= 1
    BY <1>5, SingleReaped
  <2>2. alive' \subseteq Parts
    BY <1>1 DEF LifeInv, Remains, Core, Parts, Members, Declared
  <2>3. pc' \in [Threads -> Locations]
    BY <1>t, LocationsAre DEF TypeOK, Collect, Goto
  <2>4. place' \in [Handles -> Threads \cup Places]
    BY <1>t DEF TypeOK, Collect, Moved, Places, At
  <2>5. /\ stop' \subseteq {w \in Workers : worker'[w] # "none"}
        /\ gpu' \subseteq {h \in Handles : place'[h] # "free"}
    BY <1>t, <1>f, DeviceConstants DEF TypeOK, Workers, Places
  <2> QED
    BY <1>t, <1>f, <2>1, <2>2, <2>3, <2>4, <2>5 DEF TypeOK
<1> QED
  BY <1>1, <1>2, <1>3, <1>4, <1>5, <1>6 DEF IInv

LEMMA AttachInv ==
    ASSUME IInv, NEW t \in Threads, Attach(t)
    PROVE  IInv'
<1>t. TypeOK /\ LifeInv /\ WorkerInv /\ MonitorInv /\ HandleInv /\ SingleInv
  BY DEF IInv
<1>f. /\ pc[t] = "attaching" /\ reflex /\ strategyMutex = None
      /\ UNCHANGED <<reflex, alive, worker, stop, gpu, layerMutex, strategyMutex>>
      /\ \A u \in Threads : pc'[u] = IF u = t THEN "idle" ELSE pc[u]
      /\ \/ /\ \A h \in Handles : place'[h] = IF place[h] = t THEN "expiring" ELSE place[h]
         \/ /\ worker["monitor"] # "none"
            /\ \A h \in Handles : place'[h] = CASE place[h] = t -> "pending"
                                             [] place[h] = "pending" -> "expiring"
                                             [] OTHER -> place[h]
  BY <1>t DEF TypeOK, Attach, Goto, At, Moved, lockVars
<1>1. LifeInv'
  BY <1>t, <1>f, DeviceConstants DEF LifeInv, Alone, DeviceCalls, QueueCalls, Opening,
     Closing
<1>2. WorkerInv'
  BY <1>t, <1>f, DeviceConstants DEF WorkerInv, TypeOK, Workers
<1>3. MonitorInv'
  BY <1>t, <1>f, DeviceConstants DEF MonitorInv, Opening, Closing, TypeOK
<1>4. HandleInv'
  BY <1>t, <1>f, ReaperRuns, DeviceConstants DEF HandleInv, Running, LifeInv, WorkerInv,
     TypeOK, Core, Parts, Members, Declared, QueueMembers, QueueCalls, Places, MonitorInv,
     Workers
<1>5. SingleInv'
  BY <1>t, <1>f, DeviceConstants DEF SingleInv, HandleInv, TypeOK, Places
<1>6. TypeOK'
  <2>1. Cardinality(At("reaped")') <= 1
    BY <1>5, SingleReaped
  <2>2. alive' \subseteq Parts
    BY <1>1 DEF LifeInv, Remains, Core, Parts, Members, Declared
  <2>3. pc' \in [Threads -> Locations]
    BY <1>t, LocationsAre DEF TypeOK, Attach, Goto
  <2>4. place' \in [Handles -> Threads \cup Places]
    BY <1>t DEF TypeOK, Attach, Moved, Places, At
  <2>5. /\ stop' \subseteq {w \in Workers : worker'[w] # "none"}
        /\ gpu' \subseteq {h \in Handles : place'[h] # "free"}
    BY <1>t, <1>f, DeviceConstants DEF TypeOK, Workers, Places
  <2> QED
    BY <1>t, <1>f, <2>1, <2>2, <2>3, <2>4, <2>5 DEF TypeOK
<1> QED
  BY <1>1, <1>2, <1>3, <1>4, <1>5, <1>6 DEF IInv

LEMMA SleepInv ==
    ASSUME IInv, NEW t \in Threads, Sleep(t)
    PROVE  IInv'
<1>t. TypeOK /\ LifeInv /\ WorkerInv /\ MonitorInv /\ HandleInv /\ SingleInv
  BY DEF IInv
<1>f. /\ pc[t] = "sleeping" /\ strategyMutex = None
      /\ UNCHANGED <<reflex, alive, worker, stop, gpu, layerMutex, strategyMutex>>
      /\ \A u \in Threads : pc'[u] = IF u = t THEN "idle" ELSE pc[u]
      /\ \A h \in Handles : place'[h] = IF place[h] = "pending" THEN "queued" ELSE place[h]
  BY <1>t DEF TypeOK, Sleep, Goto, At, Moved, lockVars
<1>1. LifeInv'
  BY <1>t, <1>f, DeviceConstants DEF LifeInv, Alone, DeviceCalls, QueueCalls, Opening,
     Closing
<1>2. WorkerInv'
  BY <1>t, <1>f, DeviceConstants DEF WorkerInv, TypeOK, Workers
<1>3. MonitorInv'
  BY <1>t, <1>f, DeviceConstants DEF MonitorInv, Opening, Closing, TypeOK
<1>4. HandleInv'
  BY <1>t, <1>f, ReaperRuns, DeviceConstants DEF HandleInv, Running, LifeInv, WorkerInv,
     TypeOK, Core, Parts, Members, Declared, QueueMembers, QueueCalls, Places, MonitorInv,
     Workers
<1>5. SingleInv'
  BY <1>t, <1>f, DeviceConstants DEF SingleInv, HandleInv, TypeOK, Places
<1>6. TypeOK'
  <2>1. Cardinality(At("reaped")') <= 1
    BY <1>5, SingleReaped
  <2>2. alive' \subseteq Parts
    BY <1>1 DEF LifeInv, Remains, Core, Parts, Members, Declared
  <2>3. pc' \in [Threads -> Locations]
    BY <1>t, LocationsAre DEF TypeOK, Sleep, Goto
  <2>4. place' \in [Handles -> Threads \cup Places]
    BY <1>t DEF TypeOK, Sleep, Moved, Places, At
  <2>5. /\ stop' \subseteq {w \in Workers : worker'[w] # "none"}
        /\ gpu' \subseteq {h \in Handles : place'[h] # "free"}
    BY <1>t, <1>f, DeviceConstants DEF TypeOK, Workers, Places
  <2> QED
    BY <1>t, <1>f, <2>1, <2>2, <2>3, <2>4, <2>5 DEF TypeOK
<1> QED
  BY <1>1, <1>2, <1>3, <1>4, <1>5, <1>6 DEF IInv

LEMMA EnqueueInv ==
    ASSUME IInv, NEW t \in Threads, Enqueue(t)
    PROVE  IInv'
<1>t. TypeOK /\ LifeInv /\ WorkerInv /\ MonitorInv /\ HandleInv /\ SingleInv
  BY DEF IInv
<1>f. /\ pc[t] = "attaching" /\ worker["monitor"] = "waiting"
      /\ UNCHANGED <<reflex, alive, worker, stop, gpu, layerMutex, strategyMutex>>
      /\ \A u \in Threads : pc'[u] = IF u = t THEN "idle" ELSE pc[u]
      /\ \A h \in Handles : place'[h] = IF place[h] = t THEN "queued" ELSE place[h]
  BY <1>t DEF TypeOK, Enqueue, Goto, At, Moved, lockVars
<1>1. LifeInv'
  BY <1>t, <1>f, DeviceConstants DEF LifeInv, Alone, DeviceCalls, QueueCalls, Opening,
     Closing
<1>2. WorkerInv'
  BY <1>t, <1>f, DeviceConstants DEF WorkerInv, TypeOK, Workers
<1>3. MonitorInv'
  BY <1>t, <1>f, DeviceConstants DEF MonitorInv, Opening, Closing, TypeOK
<1>4. HandleInv'
  BY <1>t, <1>f, ReaperRuns, DeviceConstants DEF HandleInv, Running, LifeInv, WorkerInv,
     TypeOK, Core, Parts, Members, Declared, QueueMembers, QueueCalls, Places, MonitorInv,
     Workers
<1>5. SingleInv'
  BY <1>t, <1>f, DeviceConstants DEF SingleInv, HandleInv, TypeOK, Places
<1>6. TypeOK'
  <2>1. Cardinality(At("reaped")') <= 1
    BY <1>5, SingleReaped
  <2>2. alive' \subseteq Parts
    BY <1>1 DEF LifeInv, Remains, Core, Parts, Members, Declared
  <2>3. pc' \in [Threads -> Locations]
    BY <1>t, LocationsAre DEF TypeOK, Enqueue, Goto
  <2>4. place' \in [Handles -> Threads \cup Places]
    BY <1>t DEF TypeOK, Enqueue, Moved, Places, At
  <2>5. /\ stop' \subseteq {w \in Workers : worker'[w] # "none"}
        /\ gpu' \subseteq {h \in Handles : place'[h] # "free"}
    BY <1>t, <1>f, DeviceConstants DEF TypeOK, Workers, Places
  <2> QED
    BY <1>t, <1>f, <2>1, <2>2, <2>3, <2>4, <2>5 DEF TypeOK
<1> QED
  BY <1>1, <1>2, <1>3, <1>4, <1>5, <1>6 DEF IInv

LEMMA MonitorTakeInv ==
    ASSUME IInv, MonitorTake
    PROVE  IInv'
<1>t. TypeOK /\ LifeInv /\ WorkerInv /\ MonitorInv /\ HandleInv /\ SingleInv
  BY DEF IInv
<1>f. /\ worker["monitor"] = "waiting"
      /\ UNCHANGED <<reflex, alive, stop, gpu, pc, layerMutex, strategyMutex>>
      /\ \/ /\ worker' = worker
            /\ \A h \in Handles : place'[h] = IF place[h] = "queued" THEN "expiring" ELSE place[h]
         \/ /\ \A w \in Workers : worker'[w] = IF w = "monitor" THEN "working" ELSE worker[w]
            /\ \A h \in Handles : place'[h] = IF place[h] = "queued" THEN "awaited" ELSE place[h]
  BY <1>t DEF TypeOK, MonitorTake, Becomes, WorkerUnchanged, At, Moved, lockVars, Workers
<1>1. LifeInv'
  BY <1>t, <1>f DEF LifeInv
<1>2. WorkerInv'
  BY <1>t, <1>f, DeviceConstants DEF WorkerInv, TypeOK, Workers
<1>3. MonitorInv'
  BY <1>t, <1>f, DeviceConstants DEF MonitorInv, Opening, Closing, TypeOK, Workers
<1>4. HandleInv'
  BY <1>t, <1>f, ReaperRuns, DeviceConstants DEF HandleInv, Running, LifeInv, WorkerInv,
     TypeOK, Core, Parts, Members, Declared, QueueMembers, QueueCalls, Places, MonitorInv,
     Workers
<1>5. SingleInv'
  BY <1>t, <1>f, DeviceConstants DEF SingleInv, HandleInv, TypeOK, Places
<1>6. TypeOK'
  <2>1. Cardinality(At("reaped")') <= 1
    BY <1>5, SingleReaped
  <2>2. alive' \subseteq Parts
    BY <1>1 DEF LifeInv, Remains, Core, Parts, Members, Declared
  <2>3. place' \in [Handles -> Threads \cup Places]
    BY <1>t DEF TypeOK, MonitorTake, Moved, Places, At
  <2>4. worker' \in [Workers -> {"none", "waiting", "working", "pacing", "ended"}]
    BY <1>t DEF TypeOK, MonitorTake, Becomes
  <2>5. /\ stop' \subseteq {w \in Workers : worker'[w] # "none"}
        /\ gpu' \subseteq {h \in Handles : place'[h] # "free"}
    BY <1>t, <1>f, DeviceConstants DEF TypeOK, Workers, Places, WorkerInv
  <2> QED
    BY <1>t, <1>f, <2>1, <2>2, <2>3, <2>4, <2>5 DEF TypeOK
<1> QED
  BY <1>1, <1>2, <1>3, <1>4, <1>5, <1>6 DEF IInv

LEMMA MonitorAwaitedInv ==
    ASSUME IInv, MonitorAwaited
    PROVE  IInv'
<1>t. TypeOK /\ LifeInv /\ WorkerInv /\ MonitorInv /\ HandleInv /\ SingleInv
  BY DEF IInv
<1>f. /\ worker["monitor"] = "working"
      /\ UNCHANGED <<reflex, alive, stop, place, gpu, pc, layerMutex, strategyMutex>>
      /\ \A w \in Workers : worker'[w] = IF w = "monitor" THEN "pacing" ELSE worker[w]
  BY <1>t DEF TypeOK, MonitorAwaited, Becomes, WorkerUnchanged, At, lockVars, Workers
<1>1. LifeInv'
  BY <1>t, <1>f DEF LifeInv
<1>2. WorkerInv'
  BY <1>t, <1>f DEF WorkerInv, TypeOK, Workers
<1>3. MonitorInv'
  BY <1>t, <1>f DEF MonitorInv, Opening, Closing, TypeOK, Workers
<1>4. HandleInv'
  BY <1>t, <1>f DEF HandleInv, Running, TypeOK, Workers
<1>5. SingleInv'
  BY <1>t, <1>f DEF SingleInv
<1>6. TypeOK'
  <2>1. Cardinality(At("reaped")') <= 1
    BY <1>5, SingleReaped
  <2>2. alive' \subseteq Parts
    BY <1>1 DEF LifeInv, Remains, Core, Parts, Members, Declared
  <2>3. worker' \in [Workers -> {"none", "waiting", "working", "pacing", "ended"}]
    BY <1>t DEF TypeOK, MonitorAwaited, Becomes
  <2>4. /\ stop' \subseteq {w \in Workers : worker'[w] # "none"}
        /\ gpu' \subseteq {h \in Handles : place'[h] # "free"}
    BY <1>t, <1>f, DeviceConstants DEF TypeOK, Workers, Places, WorkerInv
  <2> QED
    BY <1>t, <1>f, <2>1, <2>2, <2>3, <2>4 DEF TypeOK
<1> QED
  BY <1>1, <1>2, <1>3, <1>4, <1>5, <1>6 DEF IInv

LEMMA MonitorPacedInv ==
    ASSUME IInv, MonitorPaced
    PROVE  IInv'
<1>t. TypeOK /\ LifeInv /\ WorkerInv /\ MonitorInv /\ HandleInv /\ SingleInv
  BY DEF IInv
<1>f. /\ worker["monitor"] = "pacing"
      /\ UNCHANGED <<reflex, alive, stop, gpu, pc, layerMutex, strategyMutex>>
      /\ \A w \in Workers : worker'[w] = IF w = "monitor" THEN "waiting" ELSE worker[w]
      /\ \A h \in Handles : place'[h] = IF place[h] = "awaited" THEN "expiring" ELSE place[h]
  BY <1>t DEF TypeOK, MonitorPaced, Becomes, WorkerUnchanged, At, Moved, lockVars, Workers
<1>1. LifeInv'
  BY <1>t, <1>f DEF LifeInv
<1>2. WorkerInv'
  BY <1>t, <1>f, DeviceConstants DEF WorkerInv, TypeOK, Workers
<1>3. MonitorInv'
  BY <1>t, <1>f, DeviceConstants DEF MonitorInv, Opening, Closing, TypeOK, Workers
<1>4. HandleInv'
  BY <1>t, <1>f, ReaperRuns, DeviceConstants DEF HandleInv, Running, LifeInv, WorkerInv,
     TypeOK, Core, Parts, Members, Declared, QueueMembers, QueueCalls, Places, MonitorInv,
     Workers
<1>5. SingleInv'
  BY <1>t, <1>f, DeviceConstants DEF SingleInv, HandleInv, TypeOK, Places
<1>6. TypeOK'
  <2>1. Cardinality(At("reaped")') <= 1
    BY <1>5, SingleReaped
  <2>2. alive' \subseteq Parts
    BY <1>1 DEF LifeInv, Remains, Core, Parts, Members, Declared
  <2>3. place' \in [Handles -> Threads \cup Places]
    BY <1>t DEF TypeOK, MonitorPaced, Moved, Places, At
  <2>4. worker' \in [Workers -> {"none", "waiting", "working", "pacing", "ended"}]
    BY <1>t DEF TypeOK, MonitorPaced, Becomes
  <2>5. /\ stop' \subseteq {w \in Workers : worker'[w] # "none"}
        /\ gpu' \subseteq {h \in Handles : place'[h] # "free"}
    BY <1>t, <1>f, DeviceConstants DEF TypeOK, Workers, Places, WorkerInv
  <2> QED
    BY <1>t, <1>f, <2>1, <2>2, <2>3, <2>4, <2>5 DEF TypeOK
<1> QED
  BY <1>1, <1>2, <1>3, <1>4, <1>5, <1>6 DEF IInv

LEMMA ReaperTakeInv ==
    ASSUME IInv, ReaperTake
    PROVE  IInv'
<1>t. TypeOK /\ LifeInv /\ WorkerInv /\ MonitorInv /\ HandleInv /\ SingleInv
  BY DEF IInv
<1>f. /\ worker["reaper"] = "waiting"
      /\ UNCHANGED <<reflex, alive, stop, gpu, pc, layerMutex, strategyMutex>>
      /\ \A w \in Workers : worker'[w] = IF w = "reaper" THEN "working" ELSE worker[w]
      /\ \E g \in Handles : /\ place[g] = "expiring"
                      /\ \A h \in Handles : place'[h] = IF h = g THEN "reaped" ELSE place[h]
  BY <1>t DEF TypeOK, ReaperTake, Becomes, WorkerUnchanged, At, Moved, lockVars, Workers
<1>1. LifeInv'
  BY <1>t, <1>f DEF LifeInv
<1>2. WorkerInv'
  BY <1>t, <1>f, DeviceConstants DEF WorkerInv, TypeOK, Workers
<1>3. MonitorInv'
  BY <1>t, <1>f, DeviceConstants DEF MonitorInv, Opening, Closing, TypeOK, Workers
<1>4. HandleInv'
  BY <1>t, <1>f, ReaperRuns, DeviceConstants DEF HandleInv, Running, LifeInv, WorkerInv,
     TypeOK, Core, Parts, Members, Declared, QueueMembers, QueueCalls, Places, MonitorInv,
     Workers
<1>5. SingleInv'
  BY <1>t, <1>f, DeviceConstants DEF SingleInv, HandleInv, TypeOK, Places
<1>6. TypeOK'
  <2>1. Cardinality(At("reaped")') <= 1
    BY <1>5, SingleReaped
  <2>2. alive' \subseteq Parts
    BY <1>1 DEF LifeInv, Remains, Core, Parts, Members, Declared
  <2>3. place' \in [Handles -> Threads \cup Places]
    BY <1>t DEF TypeOK, ReaperTake, Moved, Places, At
  <2>4. worker' \in [Workers -> {"none", "waiting", "working", "pacing", "ended"}]
    BY <1>t DEF TypeOK, ReaperTake, Becomes
  <2>5. /\ stop' \subseteq {w \in Workers : worker'[w] # "none"}
        /\ gpu' \subseteq {h \in Handles : place'[h] # "free"}
    BY <1>t, <1>f, DeviceConstants DEF TypeOK, Workers, Places, WorkerInv
  <2> QED
    BY <1>t, <1>f, <2>1, <2>2, <2>3, <2>4, <2>5 DEF TypeOK
<1> QED
  BY <1>1, <1>2, <1>3, <1>4, <1>5, <1>6 DEF IInv

LEMMA ReaperFreeInv ==
    ASSUME IInv, ReaperFree
    PROVE  IInv'
<1>t. TypeOK /\ LifeInv /\ WorkerInv /\ MonitorInv /\ HandleInv /\ SingleInv
  BY DEF IInv
<1>f. /\ worker["reaper"] = "working"
      /\ UNCHANGED <<reflex, alive, stop, gpu, pc, layerMutex, strategyMutex>>
      /\ \A w \in Workers : worker'[w] = IF w = "reaper" THEN "waiting" ELSE worker[w]
      /\ \A h \in Handles : place'[h] = IF place[h] = "reaped" THEN "free" ELSE place[h]
      /\ \A h \in Handles : place[h] = "reaped" => h \notin gpu
  BY <1>t DEF TypeOK, ReaperFree, Becomes, WorkerUnchanged, At, Moved, lockVars, Workers
<1>1. LifeInv'
  BY <1>t, <1>f DEF LifeInv
<1>2. WorkerInv'
  BY <1>t, <1>f, DeviceConstants DEF WorkerInv, TypeOK, Workers
<1>3. MonitorInv'
  BY <1>t, <1>f, DeviceConstants DEF MonitorInv, Opening, Closing, TypeOK, Workers
<1>4. HandleInv'
  BY <1>t, <1>f, ReaperRuns, DeviceConstants DEF HandleInv, Running, LifeInv, WorkerInv,
     TypeOK, Core, Parts, Members, Declared, QueueMembers, QueueCalls, Places, MonitorInv,
     Workers
<1>5. SingleInv'
  BY <1>t, <1>f, DeviceConstants DEF SingleInv, HandleInv, TypeOK, Places
<1>6. TypeOK'
  <2>1. Cardinality(At("reaped")') <= 1
    BY <1>5, SingleReaped
  <2>2. alive' \subseteq Parts
    BY <1>1 DEF LifeInv, Remains, Core, Parts, Members, Declared
  <2>3. place' \in [Handles -> Threads \cup Places]
    BY <1>t DEF TypeOK, ReaperFree, Moved, Places, At
  <2>4. worker' \in [Workers -> {"none", "waiting", "working", "pacing", "ended"}]
    BY <1>t DEF TypeOK, ReaperFree, Becomes
  <2>5. /\ stop' \subseteq {w \in Workers : worker'[w] # "none"}
        /\ gpu' \subseteq {h \in Handles : place'[h] # "free"}
    BY <1>t, <1>f, DeviceConstants DEF TypeOK, Workers, Places, WorkerInv
  <2> QED
    BY <1>t, <1>f, <2>1, <2>2, <2>3, <2>4, <2>5 DEF TypeOK
<1> QED
  BY <1>1, <1>2, <1>3, <1>4, <1>5, <1>6 DEF IInv

LEMMA CalibratedInv ==
    ASSUME IInv, Calibrated
    PROVE  IInv'
<1>t. TypeOK /\ LifeInv /\ WorkerInv /\ MonitorInv /\ HandleInv /\ SingleInv
  BY DEF IInv
<1>f. /\ worker["calibrator"] = "working"
      /\ UNCHANGED <<reflex, alive, stop, place, gpu, pc, layerMutex, strategyMutex>>
      /\ \A w \in Workers : worker'[w] = IF w = "calibrator" THEN "waiting" ELSE worker[w]
  BY <1>t DEF TypeOK, Calibrated, Becomes, WorkerUnchanged, lockVars, Workers
<1>1. LifeInv'
  BY <1>t, <1>f DEF LifeInv
<1>2. WorkerInv'
  BY <1>t, <1>f DEF WorkerInv, TypeOK, Workers
<1>3. MonitorInv'
  BY <1>t, <1>f DEF MonitorInv, Opening, Closing, TypeOK, Workers
<1>4. HandleInv'
  BY <1>t, <1>f DEF HandleInv, Running, TypeOK, Workers
<1>5. SingleInv'
  BY <1>t, <1>f DEF SingleInv
<1>6. TypeOK'
  <2>1. Cardinality(At("reaped")') <= 1
    BY <1>5, SingleReaped
  <2>2. alive' \subseteq Parts
    BY <1>1 DEF LifeInv, Remains, Core, Parts, Members, Declared
  <2>3. worker' \in [Workers -> {"none", "waiting", "working", "pacing", "ended"}]
    BY <1>t DEF TypeOK, Calibrated, Becomes
  <2>4. /\ stop' \subseteq {w \in Workers : worker'[w] # "none"}
        /\ gpu' \subseteq {h \in Handles : place'[h] # "free"}
    BY <1>t, <1>f, DeviceConstants DEF TypeOK, Workers, Places, WorkerInv
  <2> QED
    BY <1>t, <1>f, <2>1, <2>2, <2>3, <2>4 DEF TypeOK
<1> QED
  BY <1>1, <1>2, <1>3, <1>4, <1>5, <1>6 DEF IInv

LEMMA CalibratesAgainInv ==
    ASSUME IInv, CalibratesAgain
    PROVE  IInv'
<1>t. TypeOK /\ LifeInv /\ WorkerInv /\ MonitorInv /\ HandleInv /\ SingleInv
  BY DEF IInv
<1>f. /\ worker["calibrator"] = "waiting"
      /\ UNCHANGED <<reflex, alive, stop, place, gpu, pc, layerMutex, strategyMutex>>
      /\ \A w \in Workers : worker'[w] = IF w = "calibrator" THEN "working" ELSE worker[w]
  BY <1>t DEF TypeOK, CalibratesAgain, Becomes, WorkerUnchanged, lockVars, Workers
<1>1. LifeInv'
  BY <1>t, <1>f DEF LifeInv
<1>2. WorkerInv'
  BY <1>t, <1>f DEF WorkerInv, TypeOK, Workers
<1>3. MonitorInv'
  BY <1>t, <1>f DEF MonitorInv, Opening, Closing, TypeOK, Workers
<1>4. HandleInv'
  BY <1>t, <1>f DEF HandleInv, Running, TypeOK, Workers
<1>5. SingleInv'
  BY <1>t, <1>f DEF SingleInv
<1>6. TypeOK'
  <2>1. Cardinality(At("reaped")') <= 1
    BY <1>5, SingleReaped
  <2>2. alive' \subseteq Parts
    BY <1>1 DEF LifeInv, Remains, Core, Parts, Members, Declared
  <2>3. worker' \in [Workers -> {"none", "waiting", "working", "pacing", "ended"}]
    BY <1>t DEF TypeOK, CalibratesAgain, Becomes
  <2>4. /\ stop' \subseteq {w \in Workers : worker'[w] # "none"}
        /\ gpu' \subseteq {h \in Handles : place'[h] # "free"}
    BY <1>t, <1>f, DeviceConstants DEF TypeOK, Workers, Places, WorkerInv
  <2> QED
    BY <1>t, <1>f, <2>1, <2>2, <2>3, <2>4 DEF TypeOK
<1> QED
  BY <1>1, <1>2, <1>3, <1>4, <1>5, <1>6 DEF IInv

LEMMA WorkerEndsInv ==
    ASSUME IInv, NEW v \in Workers, WorkerEnds(v)
    PROVE  IInv'
<1>t. TypeOK /\ LifeInv /\ WorkerInv /\ MonitorInv /\ HandleInv /\ SingleInv
  BY DEF IInv
<1>f. /\ worker[v] = "waiting" /\ v \in stop
      /\ UNCHANGED <<reflex, alive, stop, place, gpu, pc, layerMutex, strategyMutex>>
      /\ \A w \in Workers : worker'[w] = IF w = v THEN "ended" ELSE worker[w]
      /\ v = "monitor" => \A h \in Handles : place[h] # "queued"
      /\ v = "reaper" => \A h \in Handles : place[h] # "expiring"
  <2>1. Backlog[v] = {}
    BY DEF WorkerEnds
  <2>2. v = "monitor" => \A h \in Handles : place[h] # "queued"
    BY <2>1 DEF Backlog, At
  <2>3. v = "reaper" => \A h \in Handles : place[h] # "expiring"
    BY <2>1 DEF Backlog, At
  <2> QED
    BY <2>2, <2>3, <1>t DEF TypeOK, WorkerEnds, Becomes, WorkerUnchanged, lockVars
<1>1. LifeInv'
  BY <1>t, <1>f DEF LifeInv
<1>2. WorkerInv'
  BY <1>t, <1>f DEF WorkerInv, TypeOK, Workers
<1>3. MonitorInv'
  BY <1>t, <1>f DEF MonitorInv, Opening, Closing, TypeOK, Workers
<1>4. HandleInv'
  BY <1>t, <1>f DEF HandleInv, Running, TypeOK, Workers
<1>5. SingleInv'
  BY <1>t, <1>f DEF SingleInv
<1>6. TypeOK'
  <2>1. Cardinality(At("reaped")') <= 1
    BY <1>5, SingleReaped
  <2>2. alive' \subseteq Parts
    BY <1>1 DEF LifeInv, Remains, Core, Parts, Members, Declared
  <2>3. worker' \in [Workers -> {"none", "waiting", "working", "pacing", "ended"}]
    BY <1>t DEF TypeOK, WorkerEnds, Becomes
  <2>4. /\ stop' \subseteq {w \in Workers : worker'[w] # "none"}
        /\ gpu' \subseteq {h \in Handles : place'[h] # "free"}
    BY <1>t, <1>f, DeviceConstants DEF TypeOK, Workers, Places, WorkerInv
  <2> QED
    BY <1>t, <1>f, <2>1, <2>2, <2>3, <2>4 DEF TypeOK
<1> QED
  BY <1>1, <1>2, <1>3, <1>4, <1>5, <1>6 DEF IInv

LEMMA CompleteInv ==
    ASSUME IInv, NEW g \in Handles, Complete(g)
    PROVE  IInv'
<1>t. TypeOK /\ LifeInv /\ WorkerInv /\ MonitorInv /\ HandleInv /\ SingleInv
  BY DEF IInv
<1>f. /\ UNCHANGED <<reflex, alive, worker, stop, place, pc, layerMutex, strategyMutex>>
      /\ gpu' = gpu \ {g}
  BY <1>t DEF TypeOK, Complete, WorkerUnchanged, lockVars
<1>1. LifeInv'
  BY <1>t, <1>f DEF LifeInv
<1>2. WorkerInv'
  BY <1>t, <1>f DEF WorkerInv
<1>3. MonitorInv'
  BY <1>t, <1>f DEF MonitorInv
<1>4. HandleInv'
  BY <1>t, <1>f DEF HandleInv, Running
<1>5. SingleInv'
  BY <1>t, <1>f DEF SingleInv
<1>6. TypeOK'
  <2>1. Cardinality(At("reaped")') <= 1
    BY <1>5, SingleReaped
  <2>2. alive' \subseteq Parts
    BY <1>1 DEF LifeInv, Remains, Core, Parts, Members, Declared
  <2>3. /\ stop' \subseteq {w \in Workers : worker'[w] # "none"}
        /\ gpu' \subseteq {h \in Handles : place'[h] # "free"}
    BY <1>t, <1>f, DeviceConstants DEF TypeOK, Workers, Places
  <2> QED
    BY <1>t, <1>f, <2>1, <2>2, <2>3 DEF TypeOK
<1> QED
  BY <1>1, <1>2, <1>3, <1>4, <1>5, <1>6 DEF IInv

LEMMA MakeMonitorInv ==
    ASSUME IInv, NEW t \in Threads, MakeMonitor(t)
    PROVE  IInv'
<1>t. TypeOK /\ LifeInv /\ WorkerInv /\ MonitorInv /\ HandleInv /\ SingleInv
  BY DEF IInv
<1>f. /\ pc[t] = "making"
      /\ UNCHANGED <<reflex, alive, stop, place, gpu, layerMutex, strategyMutex>>
      /\ \A u \in Threads : pc'[u] = IF u = t THEN "idle" ELSE pc[u]
      /\ \A w \in Workers : worker'[w] = IF w = "monitor" THEN "waiting" ELSE worker[w]
  BY <1>t DEF TypeOK, MakeMonitor, Goto, lockVars, Workers
<1>1. LifeInv'
  BY <1>t, <1>f DEF LifeInv, Alone, DeviceCalls, QueueCalls, Opening, Closing
<1>2. WorkerInv'
  BY <1>t, <1>f, DeviceConstants DEF WorkerInv, LifeInv, MonitorInv, TypeOK, Workers, Core,
     Remains, Parts, Members, Declared, QueueMembers, Alone, QueueCalls, DeviceCalls,
     Opening, Closing
<1>3. MonitorInv'
  BY <1>t, <1>f, DeviceConstants DEF MonitorInv, LifeInv, TypeOK, Workers, Core, Remains,
     Parts, Members, Declared, QueueMembers, Alone, QueueCalls, DeviceCalls, Opening,
     Closing
<1>4. HandleInv'
  BY <1>t, <1>f, ReaperRuns, DeviceConstants DEF HandleInv, LifeInv, MonitorInv, WorkerInv,
     TypeOK, Running, Workers, Places, Core, Remains, Parts, Members, Declared,
     QueueMembers, Alone, QueueCalls, DeviceCalls, Opening, Closing
<1>5. SingleInv'
  BY <1>t, <1>f DEF SingleInv
<1>6. TypeOK'
  <2>1. Cardinality(At("reaped")') <= 1
    BY <1>5, SingleReaped
  <2>2. alive' \subseteq Parts
    BY <1>1 DEF LifeInv, Remains, Core, Parts, Members, Declared
  <2>3. pc' \in [Threads -> Locations]
    BY <1>t, LocationsAre DEF TypeOK, MakeMonitor, Goto
  <2>4. worker' \in [Workers -> {"none", "waiting", "working", "pacing", "ended"}]
    BY <1>t DEF TypeOK, MakeMonitor, Becomes
  <2>5. /\ stop' \subseteq {w \in Workers : worker'[w] # "none"}
        /\ gpu' \subseteq {h \in Handles : place'[h] # "free"}
    BY <1>t, <1>f, DeviceConstants DEF TypeOK, Workers, Places, WorkerInv
  <2> QED
    BY <1>t, <1>f, <2>1, <2>2, <2>3, <2>4, <2>5 DEF TypeOK
<1> QED
  BY <1>1, <1>2, <1>3, <1>4, <1>5, <1>6 DEF IInv

LEMMA StopMonitorInv ==
    ASSUME IInv, NEW t \in Threads, StopMonitor(t)
    PROVE  IInv'
<1>t. TypeOK /\ LifeInv /\ WorkerInv /\ MonitorInv /\ HandleInv /\ SingleInv
  BY DEF IInv
<1>f. /\ pc[t] = "closing" /\ strategyMutex = None
      /\ UNCHANGED <<reflex, alive, worker, place, gpu, layerMutex>>
      /\ \A u \in Threads : pc'[u] = IF u = t THEN "joining" ELSE pc[u]
      /\ strategyMutex' = t
      /\ stop' = stop \cup {"monitor"}
  BY <1>t DEF TypeOK, StopMonitor, Goto
<1>1. LifeInv'
  BY <1>t, <1>f, DeviceConstants DEF LifeInv, Alone, DeviceCalls, QueueCalls, Opening,
     Closing
<1>2. WorkerInv'
  BY <1>t, <1>f, DeviceConstants DEF WorkerInv, LifeInv, MonitorInv, TypeOK, Workers, Core,
     Remains, Parts, Members, Declared, QueueMembers, Alone, QueueCalls, DeviceCalls,
     Opening, Closing
<1>3. MonitorInv'
  BY <1>t, <1>f, DeviceConstants DEF MonitorInv, Opening, Closing, TypeOK, Workers
<1>4. HandleInv'
  BY <1>t, <1>f, DeviceConstants DEF HandleInv, Running, TypeOK
<1>5. SingleInv'
  BY <1>t, <1>f DEF SingleInv
<1>6. TypeOK'
  <2>1. Cardinality(At("reaped")') <= 1
    BY <1>5, SingleReaped
  <2>2. alive' \subseteq Parts
    BY <1>1 DEF LifeInv, Remains, Core, Parts, Members, Declared
  <2>3. pc' \in [Threads -> Locations]
    BY <1>t, LocationsAre DEF TypeOK, StopMonitor, Goto
  <2>4. /\ stop' \subseteq {w \in Workers : worker'[w] # "none"}
        /\ gpu' \subseteq {h \in Handles : place'[h] # "free"}
    BY <1>t, <1>f DEF TypeOK, Workers, MonitorInv, Closing
  <2> QED
    BY <1>t, <1>f, <2>1, <2>2, <2>3, <2>4 DEF TypeOK
<1> QED
  BY <1>1, <1>2, <1>3, <1>4, <1>5, <1>6 DEF IInv

LEMMA JoinMonitorInv ==
    ASSUME IInv, NEW t \in Threads, JoinMonitor(t)
    PROVE  IInv'
<1>t. TypeOK /\ LifeInv /\ WorkerInv /\ MonitorInv /\ HandleInv /\ SingleInv
  BY DEF IInv
<1>f. /\ pc[t] = "joining" /\ worker["monitor"] = "ended"
      /\ UNCHANGED <<reflex, alive, gpu, layerMutex>>
      /\ \A u \in Threads : pc'[u] = IF u = t THEN "idle" ELSE pc[u]
      /\ strategyMutex' = None
      /\ stop' = stop \ {"monitor"}
      /\ \A w \in Workers : worker'[w] = IF w = "monitor" THEN "none" ELSE worker[w]
      /\ \A h \in Handles : place'[h] = IF place[h] = "pending" THEN "expiring" ELSE place[h]
  BY <1>t DEF TypeOK, JoinMonitor, Goto, At, Moved, Workers
<1>1. LifeInv'
  BY <1>t, <1>f, DeviceConstants DEF LifeInv, Alone, DeviceCalls, QueueCalls, Opening,
     Closing
<1>2. WorkerInv'
  BY <1>t, <1>f, DeviceConstants DEF WorkerInv, TypeOK, Workers, LifeInv, MonitorInv, Alone
<1>3. MonitorInv'
  BY <1>t, <1>f, DeviceConstants DEF MonitorInv, Opening, Closing, TypeOK, Workers
<1>4. HandleInv'
  BY <1>t, <1>f, ReaperRuns, DeviceConstants DEF HandleInv, Running, LifeInv, WorkerInv,
     TypeOK, Core, Parts, Members, Declared, QueueMembers, QueueCalls, Places, MonitorInv,
     Workers
<1>5. SingleInv'
  BY <1>t, <1>f, DeviceConstants DEF SingleInv, HandleInv, TypeOK, Places
<1>6. TypeOK'
  <2>1. Cardinality(At("reaped")') <= 1
    BY <1>5, SingleReaped
  <2>2. alive' \subseteq Parts
    BY <1>1 DEF LifeInv, Remains, Core, Parts, Members, Declared
  <2>3. pc' \in [Threads -> Locations]
    BY <1>t, LocationsAre DEF TypeOK, JoinMonitor, Goto
  <2>4. place' \in [Handles -> Threads \cup Places]
    BY <1>t DEF TypeOK, JoinMonitor, Moved, Places, At
  <2>5. worker' \in [Workers -> {"none", "waiting", "working", "pacing", "ended"}]
    BY <1>t DEF TypeOK, JoinMonitor, Becomes
  <2>6. /\ stop' \subseteq {w \in Workers : worker'[w] # "none"}
        /\ gpu' \subseteq {h \in Handles : place'[h] # "free"}
    BY <1>t, <1>f, DeviceConstants DEF TypeOK, Workers, Places, WorkerInv
  <2> QED
    BY <1>t, <1>f, <2>1, <2>2, <2>3, <2>4, <2>5, <2>6 DEF TypeOK
<1> QED
  BY <1>1, <1>2, <1>3, <1>4, <1>5, <1>6 DEF IInv

LEMMA BeginDestroyInv ==
    ASSUME IInv, NEW t \in Threads, BeginDestroy(t)
    PROVE  IInv'
<1>t. TypeOK /\ LifeInv /\ WorkerInv /\ MonitorInv /\ HandleInv /\ SingleInv
  BY DEF IInv
<1>f. /\ pc[t] = "destroy"
      /\ UNCHANGED <<reflex, alive, worker, stop, place, gpu, strategyMutex>>
      /\ \A u \in Threads : pc'[u] = IF u = t THEN "destroying" ELSE pc[u]
      /\ layerMutex' = t
  BY <1>t DEF TypeOK, BeginDestroy, Goto, workVars
<1>1. LifeInv'
  BY <1>t, <1>f, DeviceConstants DEF LifeInv, TypeOK, Core, Remains, Parts, Members,
     Declared, QueueMembers, Alone, QueueCalls, DeviceCalls, Opening, Closing
<1>2. WorkerInv'
  BY <1>t, <1>f DEF WorkerInv, TypeOK, Workers
<1>3. MonitorInv'
  BY <1>t, <1>f, DeviceConstants DEF MonitorInv, LifeInv, TypeOK, Workers, Core, Remains,
     Parts, Members, Declared, QueueMembers, Alone, QueueCalls, DeviceCalls, Opening,
     Closing
<1>4. HandleInv'
  BY <1>t, <1>f DEF HandleInv, Running, TypeOK
<1>5. SingleInv'
  BY <1>t, <1>f DEF SingleInv
<1>6. TypeOK'
  <2>1. Cardinality(At("reaped")') <= 1
    BY <1>5, SingleReaped
  <2>2. alive' \subseteq Parts
    BY <1>1 DEF LifeInv, Remains, Core, Parts, Members, Declared
  <2>3. pc' \in [Threads -> Locations]
    BY <1>t, LocationsAre DEF TypeOK, BeginDestroy, Goto
  <2> QED
    BY <1>t, <1>f, <2>1, <2>2, <2>3 DEF TypeOK
<1> QED
  BY <1>1, <1>2, <1>3, <1>4, <1>5, <1>6 DEF IInv

LEMMA StopWorkerInv ==
    ASSUME IInv, NEW t \in Threads, StopWorker(t)
    PROVE  IInv'
<1>t. TypeOK /\ LifeInv /\ WorkerInv /\ MonitorInv /\ HandleInv /\ SingleInv
  BY DEF IInv
<1>f. /\ pc[t] = "destroying"
      /\ UNCHANGED <<reflex, alive, worker, place, gpu, pc, layerMutex, strategyMutex>>
      /\ \E p \in Members, w \in Workers : Doomed(p) /\ w \in WorkersOf(p) /\ stop' = stop \cup {w}
  <2>1. \A p, w : w \in WorkersOf(p) => w \in Workers
    BY DEF WorkersOf, WorkerOf, Workers
  <2> QED
    BY <2>1 DEF StopWorker, lockVars
<1>e. PICK p \in Members, v \in Workers :
        /\ stop' = stop \cup {v} /\ worker[v] # "none"
        /\ \/ p = "clock" /\ v = "calibrator" /\ alive = {"driver", "clock"}
           \/ p = "pool" /\ v = "reaper" /\ alive = {"driver", "clock", "commandPool", "pool"}
           \/ p = "strategy" /\ v = "monitor" /\ alive \in {Core, Parts}
  <2>1. PICK m \in Members, u \in Workers :
          Doomed(m) /\ u \in WorkersOf(m) /\ stop' = stop \cup {u}
    BY <1>f
  <2>2. alive \in Remains
    BY <1>t, <1>f DEF LifeInv
  <2> QED
    BY <2>1, <2>2, DoomedIs, WorkersOfIs
<1>1. LifeInv'
  BY <1>t, <1>f DEF LifeInv
<1>2. WorkerInv'
  BY <1>t, <1>f, <1>e DEF WorkerInv, TypeOK, Workers, LifeInv, MonitorInv, Alone
<1>3. MonitorInv'
  BY <1>t, <1>f DEF MonitorInv
<1>4. HandleInv'
  BY <1>t, <1>f DEF HandleInv, Running
<1>5. SingleInv'
  BY <1>t, <1>f DEF SingleInv
<1>6. TypeOK'
  <2>1. Cardinality(At("reaped")') <= 1
    BY <1>5, SingleReaped
  <2>2. alive' \subseteq Parts
    BY <1>1 DEF LifeInv, Remains, Core, Parts, Members, Declared
  <2>3. /\ stop' \subseteq {w \in Workers : worker'[w] # "none"}
        /\ gpu' \subseteq {h \in Handles : place'[h] # "free"}
    BY <1>t, <1>f, <1>e DEF TypeOK
  <2> QED
    BY <1>t, <1>f, <2>1, <2>2, <2>3 DEF TypeOK
<1> QED
  BY <1>1, <1>2, <1>3, <1>4, <1>5, <1>6 DEF IInv

LEMMA UnlockInv ==
    ASSUME IInv, NEW t \in Threads, Unlock(t)
    PROVE  IInv'
<1>t. TypeOK /\ LifeInv /\ WorkerInv /\ MonitorInv /\ HandleInv /\ SingleInv
  BY DEF IInv
<1>f. /\ pc[t] = "destroying" /\ alive \cap Members = {}
      /\ UNCHANGED <<reflex, alive, worker, stop, place, gpu, strategyMutex>>
      /\ \A u \in Threads : pc'[u] = IF u = t THEN "driver" ELSE pc[u]
      /\ layerMutex' = None
  BY <1>t DEF TypeOK, Unlock, Goto, workVars
<1>e. alive = {"driver"}
  <2>1. Members = {"clock", "commandPool", "pool", "queueStrategy", "strategy"}
    BY DEF Members, Declared
  <2> QED
    BY <2>1, <1>t, <1>f DEF LifeInv, Remains, Core, Parts
<1>1. LifeInv'
  BY <1>t, <1>f, <1>e DEF LifeInv, Alone, DeviceCalls, QueueCalls, Opening, Closing
<1>2. WorkerInv'
  BY <1>t, <1>f, <1>e DEF WorkerInv, TypeOK, Workers
<1>3. MonitorInv'
  BY <1>t, <1>f, <1>e, DeviceConstants DEF MonitorInv, LifeInv, TypeOK, Workers, Core,
     Remains, Parts, Members, Declared, QueueMembers, Alone, QueueCalls, DeviceCalls,
     Opening, Closing
<1>4. HandleInv'
  BY <1>t, <1>f, <1>e DEF HandleInv, Running, TypeOK
<1>5. SingleInv'
  BY <1>t, <1>f DEF SingleInv
<1>6. TypeOK'
  <2>1. Cardinality(At("reaped")') <= 1
    BY <1>5, SingleReaped
  <2>2. alive' \subseteq Parts
    BY <1>1 DEF LifeInv, Remains, Core, Parts, Members, Declared
  <2>3. pc' \in [Threads -> Locations]
    BY <1>t, <1>e, LocationsAre DEF TypeOK, Unlock, Goto
  <2> QED
    BY <1>t, <1>f, <2>1, <2>2, <2>3 DEF TypeOK
<1> QED
  BY <1>1, <1>2, <1>3, <1>4, <1>5, <1>6 DEF IInv

LEMMA DestroyInDriverInv ==
    ASSUME IInv, NEW t \in Threads, DestroyInDriver(t)
    PROVE  IInv'
<1>t. TypeOK /\ LifeInv /\ WorkerInv /\ MonitorInv /\ HandleInv /\ SingleInv
  BY DEF IInv
<1>f. /\ pc[t] = "driver"
      /\ UNCHANGED <<reflex, worker, stop, place, gpu, layerMutex, strategyMutex>>
      /\ \A u \in Threads : pc'[u] = IF u = t THEN "idle" ELSE pc[u]
      /\ alive' = alive \ {"driver"}
  BY <1>t DEF TypeOK, DestroyInDriver, Goto, workVars, lockVars
<1>1. LifeInv'
  BY <1>t, <1>f DEF LifeInv, Alone, DeviceCalls, QueueCalls, Opening, Closing, Core,
     Remains, Parts, Members, Declared, QueueMembers
<1>2. WorkerInv'
  BY <1>t, <1>f DEF WorkerInv, TypeOK, Workers, LifeInv, Core, Remains, Parts, Members,
     Declared, QueueMembers
<1>3. MonitorInv'
  BY <1>t, <1>f DEF MonitorInv, Opening, Closing, TypeOK
<1>4. HandleInv'
  BY <1>t, <1>f DEF HandleInv, Running, TypeOK, QueueMembers, LifeInv
<1>5. SingleInv'
  BY <1>t, <1>f DEF SingleInv
<1>6. TypeOK'
  <2>1. Cardinality(At("reaped")') <= 1
    BY <1>5, SingleReaped
  <2>2. alive' \subseteq Parts
    BY <1>1 DEF LifeInv, Remains, Core, Parts, Members, Declared
  <2>3. pc' \in [Threads -> Locations]
    BY <1>t, LocationsAre DEF TypeOK, DestroyInDriver, Goto
  <2> QED
    BY <1>t, <1>f, <2>1, <2>2, <2>3 DEF TypeOK
<1> QED
  BY <1>1, <1>2, <1>3, <1>4, <1>5, <1>6 DEF IInv

\* The destructor of a member: the worker in it has ended, and nothing else needs it.
LEMMA DestroyMemberInv ==
    ASSUME IInv, NEW t \in Threads, DestroyMember(t)
    PROVE  IInv'
<1>t. TypeOK /\ LifeInv /\ WorkerInv /\ MonitorInv /\ HandleInv /\ SingleInv
  BY DEF IInv
<1>1. PICK p \in Members :
        /\ Doomed(p)
        /\ \A w \in WorkersOf(p) : worker[w] = "ended"
        /\ alive' = alive \ {p}
        /\ worker' = [w \in Workers |-> IF w \in WorkersOf(p) THEN "none" ELSE worker[w]]
        /\ stop' = stop \ WorkersOf(p)
        /\ place' = Moved(Dropped(p), "expiring")
  BY DEF DestroyMember
<1>2. /\ pc[t] = "destroying"
      /\ UNCHANGED <<reflex, gpu, pc, layerMutex, strategyMutex>>
  BY DEF DestroyMember, lockVars
<1>3. /\ alive # {} /\ alive \in Remains
      /\ \A u \in Threads \ {t} : pc[u] \in {"idle", "other"}
      /\ \A u \in Threads : u # t => pc[u] \notin {"notifying", "attaching"}
      /\ reflex => worker["monitor"] = "none"
      /\ strategyMutex = None
  BY <1>t, <1>2 DEF LifeInv, MonitorInv, Alone, TypeOK
<1>4. \/ p = "clock" /\ alive = {"driver", "clock"}
      \/ p = "commandPool" /\ alive = {"driver", "clock", "commandPool"}
      \/ p = "pool" /\ alive = {"driver", "clock", "commandPool", "pool"}
      \/ p = "queueStrategy" /\ alive = Parts \ {"strategy"}
      \/ p = "strategy" /\ alive \in {Core, Parts}
  BY <1>1, <1>3, DoomedIs
<1>5. /\ Parts = {"driver", "clock", "commandPool", "pool", "queueStrategy", "strategy"}
      /\ Parts \ {"strategy"} = {"driver", "clock", "commandPool", "pool", "queueStrategy"}
  BY DEF Parts, Members, Declared
<1>6. \A w \in Workers :
        /\ w \in WorkersOf(p) <=> /\ \/ p = "clock" /\ w = "calibrator"
                                     \/ p = "pool" /\ w = "reaper"
                                     \/ p = "strategy" /\ w = "monitor"
                                  /\ worker[w] # "none"
        /\ w \in WorkersOf(p) => worker[w] = "ended"
        /\ worker'[w] = IF w \in WorkersOf(p) THEN "none" ELSE worker[w]
  BY <1>1, WorkersOfIs
<1>7. /\ p = "clock" => worker'["calibrator"] = "none" /\ worker["calibrator"] \in {"none", "ended"}
      /\ p # "clock" => worker'["calibrator"] = worker["calibrator"]
      /\ p = "pool" => worker'["reaper"] = "none" /\ worker["reaper"] \in {"none", "ended"}
      /\ p # "pool" => worker'["reaper"] = worker["reaper"]
      /\ p = "strategy" => worker'["monitor"] = "none" /\ worker["monitor"] \in {"none", "ended"}
      /\ p # "strategy" => worker'["monitor"] = worker["monitor"]
  BY <1>6 DEF Workers
<1>8. alive' \in {{}} \cup Remains /\ alive' # {}
  BY <1>1, <1>4, <1>5 DEF Remains, Core
<1>9. LifeInv'
  BY <1>2, <1>3, <1>8 DEF LifeInv, Alone, DeviceCalls, QueueCalls, Opening, Closing
<1>10. WorkerInv'
  <2>1. "calibrator" \notin stop' /\ "reaper" \notin stop'
        /\ ("monitor" \in stop' => "monitor" \in stop)
    BY <1>1, <1>4, <1>5, <1>6, <1>t DEF WorkerInv, Workers, Core
  <2>2. \A w \in Workers : worker'[w] = "ended" => w \in stop'
    BY <1>1, <1>6, <1>t DEF WorkerInv
  <2>3. /\ worker'["calibrator"] # "none" <=> "clock" \in alive'
        /\ worker'["reaper"] # "none" <=> "pool" \in alive'
        /\ worker'["monitor"] # "none" => "strategy" \in alive'
    BY <1>1, <1>4, <1>5, <1>7, <1>t DEF WorkerInv, Core
  <2> QED
    BY <2>1, <2>2, <2>3, <1>2, <1>t DEF WorkerInv
<1>11. MonitorInv'
  BY <1>2, <1>3, <1>7, <1>t DEF MonitorInv, Opening, Closing
<1>12. \A h \in Handles :
         place'[h] = IF \/ p = "queueStrategy" /\ place[h] = "tracked"
                        \/ p = "strategy" /\ place[h] = "pending"
                     THEN "expiring" ELSE place[h]
  <2>1. \A h \in Handles : h \in Dropped(p) <=> \/ p = "queueStrategy" /\ place[h] = "tracked"
                                                \/ p = "strategy" /\ place[h] = "pending"
    BY <1>4 DEF Dropped, At
  <2> QED
    BY <2>1, <1>1 DEF Moved
<1>13. HandleInv'
  <2>1. ASSUME NEW h \in Handles, place[h] # "free"
        PROVE  /\ place[h] \notin Threads
               /\ p \in {"pool", "queueStrategy", "strategy"}
               /\ p = "pool" => place[h] = "tracked"
    <3>1. "pool" \in alive /\ place[h] \notin Threads
      BY <2>1, <1>2, <1>3, <1>t DEF HandleInv
    <3>2. p \in {"pool", "queueStrategy", "strategy"}
      BY <3>1, <1>4
    <3>3. CASE p = "pool"
      <4>1. /\ worker["monitor"] = "none" /\ worker["reaper"] = "ended"
            /\ "queueStrategy" \notin alive
        BY <3>3, <1>4, <1>7, <3>1, <1>t DEF WorkerInv
      <4>2. place[h] \in Places
        BY <3>1, <1>t DEF TypeOK
      <4> QED
        BY <4>1, <4>2, <2>1, <3>1, <3>2, <1>t DEF HandleInv, Running, Places
    <3> QED
      BY <3>1, <3>2, <3>3
  <2>2. ASSUME NEW h \in Handles, place[h] # "free"
        PROVE  p # "pool"
    <3>1. p = "pool" => "queueStrategy" \notin alive
      BY <1>4
    <3> QED
      BY <2>1, <2>2, <3>1, <1>t DEF HandleInv
  <2>3. ASSUME NEW h \in Handles, place[h] # "free"
        PROVE  Running("reaper") /\ Running("reaper")' /\ "pool" \in alive'
    <3>1. p \in {"queueStrategy", "strategy"} /\ "pool" \in alive
      BY <2>1, <2>2, <2>3, <1>t DEF HandleInv
    <3>2. alive # {"driver", "clock", "commandPool", "pool"} /\ "pool" \in alive'
      BY <3>1, <1>1, <1>4, <1>5 DEF Core
    <3>3. Running("reaper")
      BY <3>1, <3>2, <1>t, ReaperRuns
    <3> QED
      BY <3>1, <3>2, <3>3, <1>7 DEF Running
  <2> SUFFICES ASSUME NEW h \in Handles
               PROVE  /\ place'[h] \in Threads => pc'[place'[h]] \in {"notifying", "attaching"}
                      /\ place'[h] = "tracked" => "queueStrategy" \in alive'
                      /\ place'[h] = "pending" => reflex' /\ worker'["monitor"] # "none"
                      /\ place'[h] = "queued" => Running("monitor")'
                      /\ place'[h] = "awaited" => worker'["monitor"] \in {"working", "pacing"}
                      /\ place'[h] = "expiring" => Running("reaper")'
                      /\ place'[h] = "reaped" => worker'["reaper"] = "working"
                      /\ place'[h] # "free" => "pool" \in alive'
    BY DEF HandleInv
  <2>4. CASE place[h] = "free"
    BY <2>4, <1>12, DeviceConstants DEF Places
  <2>5. CASE place[h] # "free"
    <3>1. place'[h] \notin Threads
      BY <2>1, <2>5, <1>12, DeviceConstants DEF Places
    <3>2. p \in {"queueStrategy", "strategy"}
      BY <2>1, <2>2, <2>5
    <3>3. CASE p = "queueStrategy"
      BY <2>3, <2>5, <3>1, <3>3, <1>2, <1>7, <1>12, <1>t DEF HandleInv, Running
    <3>4. CASE p = "strategy"
      <4>1. place'[h] \notin {"pending", "queued", "awaited"}
        BY <3>4, <1>7, <1>12, <1>t DEF HandleInv, Running
      <4>2. "queueStrategy" \in alive => "queueStrategy" \in alive'
        BY <3>4, <1>1
      <4> QED
        BY <4>1, <4>2, <2>3, <2>5, <3>1, <3>4, <1>7, <1>12, <1>t DEF HandleInv
    <3> QED
      BY <3>2, <3>3, <3>4
  <2> QED
    BY <2>4, <2>5
<1>14. SingleInv'
  BY <1>12, <1>t DEF SingleInv
<1>15. TypeOK'
  <2>1. Cardinality(At("reaped")') <= 1
    BY <1>14, SingleReaped
  <2>2. alive' \subseteq Parts
    BY <1>1, <1>t DEF TypeOK
  <2>3. place' \in [Handles -> Threads \cup Places]
    BY <1>1, <1>t DEF TypeOK, Moved, Places
  <2>4. worker' \in [Workers -> {"none", "waiting", "working", "pacing", "ended"}]
    BY <1>1, <1>t DEF TypeOK
  <2>5. stop' \subseteq {w \in Workers : worker'[w] # "none"}
    BY <1>1, <1>6, <1>t DEF TypeOK
  <2>6. gpu' \subseteq {h \in Handles : place'[h] # "free"}
    BY <1>2, <1>12, <1>t DEF TypeOK
  <2> QED
    BY <1>2, <1>t, <2>1, <2>2, <2>3, <2>4, <2>5, <2>6 DEF TypeOK
<1> QED
  BY <1>9, <1>10, <1>11, <1>13, <1>14, <1>15 DEF IInv

LEMMA InitInv == Init => IInv
<1> SUFFICES ASSUME Init PROVE IInv
  OBVIOUS
<1>1. \A h \in Handles : place[h] = "free"
  BY DEF Init
<1>2. Cardinality(At("reaped")) <= 1
  <2>1. PICK S : S = At("reaped")
    OBVIOUS
  <2>2. \A x, y \in S : x = y
    BY <2>1, <1>1 DEF At
  <2> QED
    BY <2>1, <2>2, AtMostOne
<1>3. pc \in [Threads -> Locations]
  BY LocationsAre DEF Init
<1>4. TypeOK
  BY <1>2, <1>3 DEF Init, TypeOK, Places, Workers
<1>5. LifeInv /\ MonitorInv
  BY DEF Init, LifeInv, MonitorInv, Alone, DeviceCalls, QueueCalls, Opening, Closing
<1>6. WorkerInv
  BY DEF Init, WorkerInv, Workers
<1>7. HandleInv /\ SingleInv
  BY <1>1, DeviceConstants DEF HandleInv, SingleInv, Places
<1> QED
  BY <1>4, <1>5, <1>6, <1>7 DEF IInv

LEMMA NextInv == IInv /\ [Next]_vars => IInv'
<1> SUFFICES ASSUME IInv, [Next]_vars PROVE IInv'
  OBVIOUS
<1>1. CASE UNCHANGED vars
  BY <1>1 DEF IInv, TypeOK, LifeInv, WorkerInv, MonitorInv, HandleInv, SingleInv, Running, At, vars,
              workVars, lockVars
<1>2. ASSUME NEW t \in Threads, CallStep(t) PROVE IInv'
  BY <1>2, LookupInv, CreateInDriverInv, BuildDeviceInv, BuildQueueInv, AddQueueInv, SubmitInv,
     NotifyInv, CollectInv, AttachInv, SleepInv, EnqueueInv, MakeMonitorInv, StopMonitorInv,
     JoinMonitorInv, BeginDestroyInv, StopWorkerInv, DestroyMemberInv, UnlockInv,
     DestroyInDriverInv DEF CallStep
<1>3. CASE MonitorStep
  BY <1>3, MonitorTakeInv, MonitorAwaitedInv, MonitorPacedInv, WorkerEndsInv
     DEF MonitorStep, Workers
<1>4. CASE ReaperStep
  BY <1>4, ReaperTakeInv, ReaperFreeInv, WorkerEndsInv DEF ReaperStep, Workers
<1>5. CASE CalibratorStep
  BY <1>5, CalibratedInv, CalibratesAgainInv, WorkerEndsInv DEF CalibratorStep, Workers
<1> QED
  BY <1>1, <1>2, <1>3, <1>4, <1>5, StartInv, CompleteInv DEF Next

-----------------------------------------------------------------------------
(* The theorems.                                                           *)

\* The inductive invariant.
THEOREM Invariance == Spec => []IInv
  BY InitInv, NextInv, PTL DEF Spec

\* The variables have their types, and the reaper has one handle at a time.
THEOREM TypeCorrect == Spec => []TypeOK
<1>1. IInv => TypeOK
  BY DEF IInv
<1> QED
  BY <1>1, Invariance, PTL

\* Whatever is in use exists: no thread of the layer outlives its object, and none waits,
\* paces, frees or calibrates without the objects it does it with, in whichever order the
\* device, its queue and its swapchains come and go.
THEOREM PartsOutliveTheirUse == Spec => []PartsInUseAreAlive
<1>1. IInv => PartsInUseAreAlive
  <2> SUFFICES ASSUME IInv PROVE PartsInUseAreAlive
    OBVIOUS
  <2>t. LifeInv /\ WorkerInv /\ HandleInv
    BY DEF IInv
  <2>1. \A p \in DOMAIN WorkerOf : Running(WorkerOf[p]) => p \in alive
    <3>1. DOMAIN WorkerOf = {"clock", "pool", "strategy"}
      BY DEF WorkerOf
    <3>2. /\ WorkerOf["clock"] = "calibrator" /\ WorkerOf["pool"] = "reaper"
          /\ WorkerOf["strategy"] = "monitor"
      BY DEF WorkerOf
    <3> QED
      BY <3>1, <3>2, <2>t DEF WorkerInv, Running
  <2>2. /\ "strategy" \in alive => {"clock", "driver"} \subseteq alive
        /\ "pool" \in alive => {"clock", "driver", "commandPool"} \subseteq alive
        /\ alive # {} => "driver" \in alive
    BY <2>t DEF LifeInv, Remains, Core, Parts, Members, Declared
  <2>3. /\ worker["monitor"] \in {"working", "pacing"} => "strategy" \in alive
        /\ worker["reaper"] = "working" => "pool" \in alive
        /\ worker["calibrator"] = "working" => "clock" \in alive
    BY <2>t DEF WorkerInv
  <2>4. (\E h \in Handles : place[h] # "free") => "pool" \in alive
    BY <2>t DEF HandleInv
  <2> QED
    BY <2>1, <2>2, <2>3, <2>4 DEF PartsInUseAreAlive
<1> QED
  BY <1>1, Invariance, PTL

===============================================================================
