------------------------ MODULE SwapchainMonitorProofs ------------------------
(***************************************************************************)
(* Proofs about SwapchainMonitor, for every number of threads, swapchains, *)
(* semaphores and frames and for every queue bound.                        *)
(***************************************************************************)
EXTENDS SwapchainMonitor, SequenceTheorems, TLAPS

-----------------------------------------------------------------------------
(* The inductive invariant, for any application.                           *)

Changing  == {"creating", "joining", "destroying"}
AtHand(s) == mpc[s] \in {"awaiting", "checking", "signalling"}

\* The strategy's mutex has one holder; creating or destroying has the handle to itself.
LockInv ==
    \A t, u \in Threads : t # u =>
        /\ ~(pc[t] \in Exclusive /\ pc[u] \in Exclusive)
        /\ pc[t] \in Changing /\ pc[u] \in Changing => target[t] # target[u]

\* What a thread inside a call works on.
TargetInv ==
    \A t \in Threads :
        /\ pc[t] \in {"creating", "destroying"} => target[t] \in alive \ monitors
        /\ pc[t] = "joining" => target[t] \in monitors /\ stop[target[t]]
        /\ pc[t] = "signalling" => hand[t] \in Signals

\* A monitor and its thread come and go together, and only the thread that joins it
\* asks it to stop; what has exited has nothing queued, and neither has what is gone.
MonitorInv ==
    /\ monitors \subseteq alive
    /\ \A s \in Swapchains :
         /\ mpc[s] = "absent" <=> s \notin monitors
         /\ s \notin monitors => ~stop[s] /\ pending[s] = <<>> /\ lastWork[s] = NoWork
         /\ mpc[s] = "exited" => stop[s] /\ pending[s] = <<>>
         /\ stop[s] => \E t \in Threads : pc[t] = "joining" /\ target[t] = s
         /\ AtHand(s) => mhand[s] \in Signals

\* Frame w is complete when the monitor of s has dealt with its first n requests.
Covered(s, w, n) ==
    \/ w \in done \cup {NoWork}
    \/ mpc[s] = "awaiting" /\ w \in mhand[s].work
    \/ \E j \in 1..n : w \in pending[s][j].work

\* The requests of a monitor that is not stopping wait, in their order, for the frames
\* that were presented before them.
Ordered(s) ==
    /\ \A i \in 1..Len(pending[s]) : Covered(s, pending[s][i].after, i)
    /\ lastWork[s] \in pendingWork[s] \/ Covered(s, lastWork[s], Len(pending[s]))
    /\ AtHand(s) => Covered(s, mhand[s].after, 0)

FrameInv == \A s \in Swapchains : ~stop[s] => Ordered(s)

IInv == TypeOK /\ LockInv /\ TargetInv /\ MonitorInv /\ FrameInv

-----------------------------------------------------------------------------
(* What the discipline of the application adds.                            *)

\* Request r, held by the monitor p or by a thread that signals itself: the
\* application made it, and p is where the last request for its semaphore went unless
\* the semaphore has reached it.
Placed(r, p) == /\ <<r.sem, r.value>> \in requested
                /\ Reached(r.sem, r.value) \/ route[r.sem] = p

PlaceInv ==
    /\ \A s \in Swapchains :
         /\ AtHand(s) => Placed(mhand[s], s)
         /\ \A i \in 1..Len(pending[s]) : Placed(pending[s][i], s)
    /\ \A t \in Threads : pc[t] = "signalling" => Placed(hand[t], Direct)

DisciplinedInv == IInv /\ PlaceInv /\ FreshSignal /\ NoSignalDropped

-----------------------------------------------------------------------------
(* The inductive step, action by action.                                   *)

LEMMA InitInv == Init => IInv
<1> SUFFICES ASSUME Init PROVE IInv
  OBVIOUS
<1>1. TypeOK
  BY MonitorConstants DEF Init, TypeOK
<1>2. LockInv /\ TargetInv /\ MonitorInv
  BY DEF Init, LockInv, TargetInv, MonitorInv, Exclusive, Changing, AtHand
<1>3. FrameInv
  BY DEF Init, FrameInv, Ordered, Covered, AtHand
<1> QED
  BY <1>1, <1>2, <1>3 DEF IInv

\* What the monitor of s has waiting is ordered still when only more frames are done.
LEMMA OrderedKept ==
    ASSUME NEW s \in Swapchains, Ordered(s), done \subseteq done',
           pending'[s] = pending[s], lastWork'[s] = lastWork[s],
           pendingWork'[s] = pendingWork[s], mpc'[s] = mpc[s], mhand'[s] = mhand[s]
    PROVE  Ordered(s)'
BY DEF Ordered, Covered, AtHand

LEMMA CreateSwapchainInv ==
    ASSUME IInv, NEW t \in Threads, NEW s \in Swapchains, CreateSwapchain(t, s)
    PROVE  IInv'
<1>t. TypeOK /\ LockInv /\ TargetInv /\ MonitorInv /\ FrameInv
  BY DEF IInv
<1>1. TypeOK'
  BY <1>t, MonitorConstants DEF TypeOK, CreateSwapchain, monVars, thrVars, gpuVars, histVars
<1>2. LockInv'
  BY <1>t DEF LockInv, TargetInv, MonitorInv, TypeOK, Exclusive, Changing, CreateSwapchain
<1>3. TargetInv'
  BY <1>t DEF TargetInv, LockInv, MonitorInv, TypeOK, Exclusive, Changing,
        CreateSwapchain, monVars, thrVars, gpuVars, histVars
<1>4. MonitorInv'
  BY <1>t DEF MonitorInv, TargetInv, LockInv, TypeOK, AtHand, Exclusive, Changing,
        CreateSwapchain, monVars, thrVars, gpuVars, histVars
<1>5. FrameInv'
  <2>1. ASSUME NEW x \in Swapchains, ~stop'[x] PROVE Ordered(x)'
    BY <2>1, <1>t, OrderedKept DEF FrameInv, TypeOK, MonitorInv, CreateSwapchain,
          monVars, thrVars, gpuVars, histVars
  <2> QED
    BY <2>1 DEF FrameInv
<1> QED
  BY <1>1, <1>2, <1>3, <1>4, <1>5 DEF IInv

LEMMA NotifyCreateInv ==
    ASSUME IInv, NEW t \in Threads, NEW on \in BOOLEAN, NotifyCreate(t, on)
    PROVE  IInv'
<1>t. TypeOK /\ LockInv /\ TargetInv /\ MonitorInv /\ FrameInv
  BY DEF IInv
<1>0. target[t] \in Swapchains \ monitors
  BY <1>t DEF NotifyCreate, TargetInv, TypeOK
<1>1. TypeOK'
  <2>1. monitors' \subseteq Swapchains /\ enabled' \in [Swapchains -> BOOLEAN]
    BY <1>0, <1>t DEF NotifyCreate, TypeOK
  <2>2. mpc' \in [Swapchains -> {"absent", "waiting", "awaiting", "checking", "signalling", "exited"}]
    BY <1>0, <1>t DEF NotifyCreate, TypeOK
  <2>3. /\ pc' \in [Threads -> {"idle", "creating", "joining", "destroying", "signalling"}]
        /\ target' \in [Threads -> Swapchains \cup {Direct}]
    BY <1>t DEF NotifyCreate, Return, TypeOK
  <2> QED
    BY <2>1, <2>2, <2>3, <1>t DEF NotifyCreate, gpuVars, histVars, TypeOK
<1>2. LockInv'
  BY <1>t DEF LockInv, TypeOK, Exclusive, Changing, StrategyFree, NotifyCreate, Return,
        gpuVars, histVars
<1>3. TargetInv'
  BY <1>t DEF TargetInv, LockInv, MonitorInv, TypeOK, Exclusive, Changing, StrategyFree,
        NotifyCreate, Return, gpuVars, histVars
<1>4. MonitorInv'
  BY <1>t DEF MonitorInv, TargetInv, LockInv, TypeOK, AtHand, Exclusive, Changing,
        StrategyFree, NotifyCreate, Return, gpuVars, histVars
<1>5. FrameInv'
  <2>1. ASSUME NEW x \in Swapchains, ~stop'[x], x # target[t]
        PROVE  Ordered(x)'
    BY <2>1, <1>t, OrderedKept DEF FrameInv, TypeOK, NotifyCreate, gpuVars, histVars
  <2>2. ASSUME NEW x \in Swapchains, x = target[t]
        PROVE  Ordered(x)'
    <3>1. pending'[x] = <<>> /\ lastWork'[x] = NoWork /\ mpc'[x] = "waiting"
      BY <2>2, <1>0, <1>t DEF NotifyCreate, MonitorInv, TypeOK, histVars
    <3> QED
      BY <3>1 DEF Ordered, Covered, AtHand
  <2> QED
    BY <2>1, <2>2 DEF FrameInv
<1> QED
  BY <1>1, <1>2, <1>3, <1>4, <1>5 DEF IInv

LEMMA NotifyDestroyInv ==
    ASSUME IInv, NEW t \in Threads, NEW s \in Swapchains, NotifyDestroy(t, s)
    PROVE  IInv'
<1>t. TypeOK /\ LockInv /\ TargetInv /\ MonitorInv /\ FrameInv
  BY DEF IInv
<1>1. TypeOK'
  BY <1>t, MonitorConstants DEF TypeOK, NotifyDestroy, Undisturbed, monVars, thrVars,
        gpuVars, histVars
<1>2. LockInv'
  BY <1>t DEF LockInv, TypeOK, Exclusive, Changing, StrategyFree, NotifyDestroy,
        Undisturbed, monVars, thrVars, gpuVars, histVars
<1>3. TargetInv'
  BY <1>t DEF TargetInv, LockInv, MonitorInv, TypeOK, Exclusive, Changing, StrategyFree,
        NotifyDestroy, Undisturbed, monVars, thrVars, gpuVars, histVars
<1>4. MonitorInv'
  BY <1>t DEF MonitorInv, TargetInv, LockInv, TypeOK, AtHand, Exclusive, Changing,
        StrategyFree, NotifyDestroy, Undisturbed, monVars, thrVars, gpuVars, histVars
<1>5. FrameInv'
  <2>1. ASSUME NEW x \in Swapchains, ~stop'[x] PROVE Ordered(x)'
    BY <2>1, <1>t, OrderedKept DEF FrameInv, TypeOK, MonitorInv, NotifyDestroy,
          Undisturbed, monVars, thrVars, gpuVars, histVars
  <2> QED
    BY <2>1 DEF FrameInv
<1> QED
  BY <1>1, <1>2, <1>3, <1>4, <1>5 DEF IInv

LEMMA JoinedInv ==
    ASSUME IInv, NEW t \in Threads, Joined(t)
    PROVE  IInv'
<1>t. TypeOK /\ LockInv /\ TargetInv /\ MonitorInv /\ FrameInv
  BY DEF IInv
<1>0. target[t] \in monitors /\ target[t] \in Swapchains
  BY <1>t DEF Joined, TargetInv, TypeOK
<1>1. TypeOK'
  <2>1. monitors' \subseteq Swapchains /\ stop' \in [Swapchains -> BOOLEAN]
        /\ enabled' \in [Swapchains -> BOOLEAN] /\ pendingWork' \in [Swapchains -> SUBSET Work]
        /\ lastWork' \in [Swapchains -> Work \cup {NoWork}]
    BY <1>0, <1>t DEF Joined, TypeOK
  <2>2. pending' \in [Swapchains -> Seq(Signals)]
    BY <1>0, <1>t DEF Joined, TypeOK
  <2>3. /\ pc' \in [Threads -> {"idle", "creating", "joining", "destroying", "signalling"}]
        /\ mpc' \in [Swapchains -> {"absent", "waiting", "awaiting", "checking", "signalling", "exited"}]
    BY <1>t DEF Joined, TypeOK
  <2> QED
    BY <2>1, <2>2, <2>3, <1>t DEF Joined, gpuVars, TypeOK
<1>2. LockInv'
  BY <1>t DEF LockInv, TypeOK, Exclusive, Changing, Joined, gpuVars
<1>3. TargetInv'
  BY <1>t DEF TargetInv, LockInv, MonitorInv, TypeOK, Exclusive, Changing, Joined, gpuVars
<1>4. MonitorInv'
  BY <1>t DEF MonitorInv, TargetInv, LockInv, TypeOK, AtHand, Exclusive, Changing,
        Joined, gpuVars
<1>5. FrameInv'
  <2>1. ASSUME NEW x \in Swapchains, ~stop'[x], x # target[t]
        PROVE  Ordered(x)'
    BY <2>1, <1>t, OrderedKept DEF FrameInv, TypeOK, Joined, gpuVars
  <2>2. ASSUME NEW x \in Swapchains, x = target[t]
        PROVE  Ordered(x)'
    <3>1. pending'[x] = <<>> /\ lastWork'[x] = NoWork /\ mpc'[x] = "absent"
      BY <2>2, <1>t DEF Joined, TypeOK
    <3> QED
      BY <3>1 DEF Ordered, Covered, AtHand
  <2> QED
    BY <2>1, <2>2 DEF FrameInv
<1> QED
  BY <1>1, <1>2, <1>3, <1>4, <1>5 DEF IInv

LEMMA DriverDestroyInv ==
    ASSUME IInv, NEW t \in Threads, DriverDestroy(t)
    PROVE  IInv'
<1>t. TypeOK /\ LockInv /\ TargetInv /\ MonitorInv /\ FrameInv
  BY DEF IInv
<1>1. TypeOK'
  BY <1>t, MonitorConstants DEF TypeOK, DriverDestroy, Return, monVars, thrVars, gpuVars,
        histVars
<1>2. LockInv'
  BY <1>t DEF LockInv, TypeOK, Exclusive, Changing, DriverDestroy, Return, monVars,
        thrVars, gpuVars, histVars
<1>3. TargetInv'
  BY <1>t DEF TargetInv, LockInv, MonitorInv, TypeOK, Exclusive, Changing, DriverDestroy,
        Return, monVars, thrVars, gpuVars, histVars
<1>4. MonitorInv'
  BY <1>t DEF MonitorInv, TargetInv, LockInv, TypeOK, AtHand, Exclusive, Changing,
        DriverDestroy, Return, monVars, thrVars, gpuVars, histVars
<1>5. FrameInv'
  <2>1. ASSUME NEW x \in Swapchains, ~stop'[x] PROVE Ordered(x)'
    BY <2>1, <1>t, OrderedKept DEF FrameInv, TypeOK, MonitorInv, DriverDestroy, Return,
          monVars, thrVars, gpuVars, histVars
  <2> QED
    BY <2>1 DEF FrameInv
<1> QED
  BY <1>1, <1>2, <1>3, <1>4, <1>5 DEF IInv

LEMMA SleepModeInv ==
    ASSUME IInv, NEW t \in Threads, NEW s \in Swapchains, NEW on \in BOOLEAN, SleepMode(t, s, on)
    PROVE  IInv'
<1>t. TypeOK /\ LockInv /\ TargetInv /\ MonitorInv /\ FrameInv
  BY DEF IInv
<1>1. TypeOK'
  BY <1>t, MonitorConstants DEF TypeOK, SleepMode, mapVars, thrVars, appVars, gpuVars,
        histVars
<1>2. LockInv'
  BY <1>t DEF LockInv, TypeOK, Exclusive, Changing, StrategyFree, SleepMode, mapVars,
        thrVars, appVars, gpuVars, histVars
<1>3. TargetInv'
  BY <1>t DEF TargetInv, LockInv, MonitorInv, TypeOK, Exclusive, Changing, StrategyFree,
        SleepMode, mapVars, thrVars, appVars, gpuVars, histVars
<1>4. MonitorInv'
  BY <1>t DEF MonitorInv, TargetInv, LockInv, TypeOK, AtHand, Exclusive, Changing,
        StrategyFree, SleepMode, mapVars, thrVars, appVars, gpuVars, histVars
<1>5. FrameInv'
  <2>1. ASSUME NEW x \in Swapchains, ~stop'[x] PROVE Ordered(x)'
    BY <2>1, <1>t, OrderedKept DEF FrameInv, TypeOK, MonitorInv, SleepMode, mapVars,
          thrVars, appVars, gpuVars, histVars
  <2> QED
    BY <2>1 DEF FrameInv
<1> QED
  BY <1>1, <1>2, <1>3, <1>4, <1>5 DEF IInv

LEMMA PresentInv ==
    ASSUME IInv, NEW t \in Threads, NEW s \in Swapchains, NEW w \in Work, Present(t, s, w)
    PROVE  IInv'
<1>t. TypeOK /\ LockInv /\ TargetInv /\ MonitorInv /\ FrameInv
  BY DEF IInv
<1>1. TypeOK'
  <2>1. submitted' \subseteq Work
    BY <1>t DEF Present, TypeOK
  <2>2. pendingWork' \in [Swapchains -> SUBSET Work] /\ lastWork' \in [Swapchains -> Work \cup {NoWork}]
    <3>1. CASE enabled[s]
      <4>1. pendingWork' = [pendingWork EXCEPT ![s] = {w}] /\ lastWork' = [lastWork EXCEPT ![s] = w]
        BY <3>1 DEF Present
      <4>2. {w} \in SUBSET Work
        OBVIOUS
      <4> QED
        BY <4>1, <4>2, <1>t DEF TypeOK
    <3>2. CASE ~enabled[s]
      BY <3>2, <1>t DEF Present, TypeOK
    <3> QED
      BY <3>1, <3>2
  <2> QED
    BY <2>1, <2>2, <1>t DEF Present, mapVars, thrVars, appVars, TypeOK
<1>2. LockInv'
  BY <1>t DEF LockInv, TypeOK, Exclusive, Changing, StrategyFree, Present, mapVars,
        thrVars, appVars
<1>3. TargetInv'
  BY <1>t DEF TargetInv, LockInv, MonitorInv, TypeOK, Exclusive, Changing, StrategyFree,
        Present, mapVars, thrVars, appVars
<1>4. MonitorInv'
  BY <1>t DEF MonitorInv, TargetInv, LockInv, TypeOK, AtHand, Exclusive, Changing,
        StrategyFree, Present, mapVars, thrVars, appVars
<1>5. FrameInv'
  <2>1. ASSUME NEW x \in Swapchains, ~stop'[x], x # s \/ ~enabled[s]
        PROVE  Ordered(x)'
    BY <2>1, <1>t, OrderedKept DEF FrameInv, TypeOK, Present, mapVars, thrVars
  <2>2. ASSUME NEW x \in Swapchains, ~stop'[x], x = s, enabled[s]
        PROVE  Ordered(x)'
    <3>1. Ordered(s) /\ done' = done /\ pending' = pending /\ mpc' = mpc /\ mhand' = mhand
      BY <2>2, <1>t DEF FrameInv, Present, mapVars, thrVars
    <3>2. lastWork'[s] = w /\ pendingWork'[s] = {w}
      BY <2>2, <1>t DEF Present, TypeOK
    <3> QED
      BY <2>2, <3>1, <3>2 DEF Ordered, Covered, AtHand
  <2> QED
    BY <2>1, <2>2 DEF FrameInv
<1> QED
  BY <1>1, <1>2, <1>3, <1>4, <1>5 DEF IInv

LEMMA SleepQueuedInv ==
    ASSUME IInv, NEW t \in Threads, NEW s \in Swapchains, NEW m \in Sems,
           NEW v \in Values, SleepQueued(t, s, m, v)
    PROVE  IInv'
<1>t. TypeOK /\ LockInv /\ TargetInv /\ MonitorInv /\ FrameInv
  BY DEF IInv
<1> PICK r : r = PendingSignal(m, v, pendingWork[s], lastWork[s])
  OBVIOUS
<1>a. /\ r \in Signals /\ r.after = lastWork[s] /\ r.work = pendingWork[s]
  BY <1>t DEF PendingSignal, Signals, TypeOK
<1>b. /\ pending' = [pending EXCEPT ![s] = Append(pending[s], r)]
      /\ pendingWork' = [pendingWork EXCEPT ![s] = {}]
      /\ requested' = requested \cup {<<m, v>>} /\ route' = [route EXCEPT ![m] = s]
      /\ s \in monitors /\ StrategyFree
  BY <1>t, MonitorConstants DEF SleepQueued, MaySleep, Requested, RouteOf, TypeOK
<1>1. TypeOK'
  <2>1. Append(pending[s], r) \in Seq(Signals)
    BY <1>a, <1>t, AppendProperties DEF TypeOK
  <2>2. pending' \in [Swapchains -> Seq(Signals)] /\ pendingWork' \in [Swapchains -> SUBSET Work]
    BY <1>b, <2>1, <1>t DEF TypeOK
  <2>3. requested' \subseteq Sems \X Values /\ route' \in [Sems -> Swapchains \cup {Direct}]
    BY <1>b, <1>t DEF TypeOK
  <2> QED
    BY <2>2, <2>3, <1>t DEF SleepQueued, Requested, mapVars, thrVars, appVars, gpuVars,
          TypeOK
<1>2. LockInv'
  BY <1>t DEF LockInv, TypeOK, Exclusive, Changing, StrategyFree, SleepQueued, MaySleep,
        RouteOf, PendingSignal, Requested, Signals, mapVars, thrVars, appVars, gpuVars
<1>3. TargetInv'
  BY <1>t DEF TargetInv, LockInv, MonitorInv, TypeOK, Exclusive, Changing, StrategyFree,
        SleepQueued, MaySleep, RouteOf, PendingSignal, Requested, Signals, mapVars,
        thrVars, appVars, gpuVars
<1>4. MonitorInv'
  <2>1. ~stop[s] /\ mpc[s] # "exited"
    BY <1>b, <1>t DEF MonitorInv, StrategyFree, Exclusive
  <2> QED
    BY <2>1, <1>b, <1>t DEF MonitorInv, SleepQueued, Requested, AtHand, mapVars, thrVars,
          appVars, TypeOK
<1>5. FrameInv'
  <2>0. /\ done' = done /\ mpc' = mpc /\ mhand' = mhand /\ lastWork' = lastWork /\ stop' = stop
    BY DEF SleepQueued, Requested, mapVars, thrVars, gpuVars
  <2>1. ASSUME NEW x \in Swapchains, ~stop'[x], x # s
        PROVE  Ordered(x)'
    BY <2>0, <2>1, <1>b, <1>t, OrderedKept DEF FrameInv, TypeOK
  <2>2. ASSUME ~stop'[s]
        PROVE  Ordered(s)'
    <3> PICK n : n = Len(pending[s])
      OBVIOUS
    <3>1. Ordered(s) /\ pending[s] \in Seq(Signals) /\ n \in Nat
      BY <2>0, <2>2, <1>t, LenProperties DEF FrameInv, TypeOK
    <3>2. /\ Len(pending'[s]) = n + 1 /\ pending'[s][n + 1] = r
          /\ \A i \in 1..n : pending'[s][i] = pending[s][i]
      BY <1>a, <1>b, <1>t, <3>1, AppendProperties DEF TypeOK
    <3>3. ASSUME NEW w, NEW k \in 0..n, Covered(s, w, k)
          PROVE  Covered(s, w, k)'
      BY <2>0, <3>1, <3>2, <3>3 DEF Covered
    <3>4. Covered(s, lastWork[s], n + 1)'
      <4>1. CASE lastWork[s] \in pendingWork[s]
        BY <2>0, <4>1, <3>1, <3>2, <1>a DEF Covered
      <4>2. CASE Covered(s, lastWork[s], n)
        BY <2>0, <4>2, <3>1, <3>2 DEF Covered
      <4> QED
        BY <4>1, <4>2, <3>1 DEF Ordered
    <3>5. ASSUME NEW i \in 1..Len(pending'[s])
          PROVE  Covered(s, pending[s][i].after, i)'
      <4>1. CASE i = n + 1
        BY <4>1, <2>0, <3>2, <3>4, <1>a DEF Covered
      <4>2. CASE i # n + 1
        <5>1. i \in 1..n /\ i \in 0..n
          BY <4>2, <3>1, <3>2
        <5>2. Covered(s, pending[s][i].after, i)
          BY <5>1, <3>1 DEF Ordered
        <5>3. pending'[s][i] = pending[s][i]
          BY <5>1, <3>2
        <5> QED
          BY <2>0, <5>1, <5>2, <5>3, <3>1, <3>2 DEF Covered
      <4> QED
        BY <4>1, <4>2
    <3>6. AtHand(s)' => Covered(s, mhand[s].after, 0)'
      BY <2>0, <3>1 DEF Ordered, Covered, AtHand
    <3> QED
      BY <2>0, <3>2, <3>4, <3>5, <3>6 DEF Ordered
  <2> QED
    BY <2>1, <2>2 DEF FrameInv
<1> QED
  BY <1>1, <1>2, <1>3, <1>4, <1>5 DEF IInv

LEMMA SleepDirectInv ==
    ASSUME IInv, NEW t \in Threads, NEW s \in Swapchains, NEW m \in Sems,
           NEW v \in Values, SleepDirect(t, s, m, v)
    PROVE  IInv'
<1>t. TypeOK /\ LockInv /\ TargetInv /\ MonitorInv /\ FrameInv
  BY DEF IInv
<1>1. TypeOK'
  <2>1. PendingSignal(m, v, {}, NoWork) \in Signals
    BY DEF PendingSignal, Signals
  <2>2. /\ pc' \in [Threads -> {"idle", "creating", "joining", "destroying", "signalling"}]
        /\ hand' \in [Threads -> Signals \cup {NoSignal}]
        /\ target' \in [Threads -> Swapchains \cup {Direct}]
    BY <2>1, <1>t DEF SleepDirect, appVars, TypeOK
  <2>3. /\ requested' \subseteq Sems \X Values /\ route' \in [Sems -> Swapchains \cup {Direct}]
        /\ lastWork' = lastWork
    BY <1>t DEF SleepDirect, Requested, TypeOK
  <2> QED
    BY <2>2, <2>3, <1>t DEF SleepDirect, mapVars, monVars, thrVars, gpuVars, TypeOK
<1>2. LockInv'
  BY <1>t DEF LockInv, TypeOK, Exclusive, Changing, StrategyFree, SleepDirect, MaySleep,
        RouteOf, PendingSignal, Requested, Signals, mapVars, monVars, thrVars, appVars,
        gpuVars
<1>3. TargetInv'
  BY <1>t DEF TargetInv, LockInv, MonitorInv, TypeOK, Exclusive, Changing, StrategyFree,
        SleepDirect, MaySleep, RouteOf, PendingSignal, Requested, Signals, mapVars,
        monVars, thrVars, appVars, gpuVars
<1>4. MonitorInv'
  BY <1>t DEF MonitorInv, TargetInv, LockInv, TypeOK, AtHand, Exclusive, Changing,
        StrategyFree, SleepDirect, MaySleep, RouteOf, PendingSignal, Requested, Signals,
        mapVars, monVars, thrVars, appVars, gpuVars
<1>5. FrameInv'
  <2>1. ASSUME NEW x \in Swapchains, ~stop'[x] PROVE Ordered(x)'
    BY <2>1, <1>t, OrderedKept DEF FrameInv, TypeOK, MonitorInv, SleepDirect, MaySleep,
          RouteOf, PendingSignal, Requested, Signals, mapVars, monVars, thrVars, appVars,
          gpuVars
  <2> QED
    BY <2>1 DEF FrameInv
<1> QED
  BY <1>1, <1>2, <1>3, <1>4, <1>5 DEF IInv

LEMMA DirectSignalInv ==
    ASSUME IInv, NEW t \in Threads, DirectSignal(t)
    PROVE  IInv'
<1>t. TypeOK /\ LockInv /\ TargetInv /\ MonitorInv /\ FrameInv
  BY DEF IInv
<1>1. TypeOK'
  <2>1. hand[t].value \in Nat
    BY <1>t, MonitorConstants DEF DirectSignal, TargetInv, Signals
  <2>2. /\ pc' \in [Threads -> {"idle", "creating", "joining", "destroying", "signalling"}]
        /\ hand' \in [Threads -> Signals \cup {NoSignal}]
        /\ target' \in [Threads -> Swapchains \cup {Direct}]
        /\ counter' \in [Sems -> Nat]
    BY <2>1, <1>t DEF DirectSignal, Return, TypeOK
  <2> QED
    BY <2>2, <1>t DEF DirectSignal, mapVars, monVars, thrVars, gpuVars, histVars, TypeOK
<1>2. LockInv'
  BY <1>t DEF LockInv, TypeOK, Exclusive, Changing, DirectSignal, Return, Signals,
        mapVars, monVars, thrVars, gpuVars, histVars
<1>3. TargetInv'
  BY <1>t DEF TargetInv, LockInv, MonitorInv, TypeOK, Exclusive, Changing, DirectSignal,
        Return, Signals, mapVars, monVars, thrVars, gpuVars, histVars
<1>4. MonitorInv'
  BY <1>t DEF MonitorInv, TargetInv, LockInv, TypeOK, AtHand, Exclusive, Changing,
        DirectSignal, Return, Signals, mapVars, monVars, thrVars, gpuVars, histVars
<1>5. FrameInv'
  <2>1. ASSUME NEW x \in Swapchains, ~stop'[x] PROVE Ordered(x)'
    BY <2>1, <1>t, OrderedKept DEF FrameInv, TypeOK, MonitorInv, DirectSignal, Return,
          Signals, mapVars, monVars, thrVars, gpuVars, histVars
  <2> QED
    BY <2>1 DEF FrameInv
<1> QED
  BY <1>1, <1>2, <1>3, <1>4, <1>5 DEF IInv

LEMMA GpuDoneInv ==
    ASSUME IInv, NEW w \in Work, GpuDone(w)
    PROVE  IInv'
<1>t. TypeOK /\ LockInv /\ TargetInv /\ MonitorInv /\ FrameInv
  BY DEF IInv
<1>1. TypeOK'
  BY <1>t, MonitorConstants DEF TypeOK, GpuDone, mapVars, monVars, thrVars, appVars,
        histVars
<1>2. LockInv'
  BY <1>t DEF LockInv, TypeOK, Exclusive, Changing, GpuDone, mapVars, monVars, thrVars,
        appVars, histVars
<1>3. TargetInv'
  BY <1>t DEF TargetInv, LockInv, MonitorInv, TypeOK, Exclusive, Changing, GpuDone,
        mapVars, monVars, thrVars, appVars, histVars
<1>4. MonitorInv'
  BY <1>t DEF MonitorInv, TargetInv, LockInv, TypeOK, AtHand, Exclusive, Changing,
        GpuDone, mapVars, monVars, thrVars, appVars, histVars
<1>5. FrameInv'
  <2>1. ASSUME NEW x \in Swapchains, ~stop'[x] PROVE Ordered(x)'
    BY <2>1, <1>t, OrderedKept DEF FrameInv, TypeOK, MonitorInv, GpuDone, mapVars,
          monVars, thrVars, appVars, histVars
  <2> QED
    BY <2>1 DEF FrameInv
<1> QED
  BY <1>1, <1>2, <1>3, <1>4, <1>5 DEF IInv

LEMMA TakeInv ==
    ASSUME IInv, NEW s \in Swapchains, Take(s)
    PROVE  IInv'
<1>t. TypeOK /\ LockInv /\ TargetInv /\ MonitorInv /\ FrameInv
  BY DEF IInv
<1>1. TypeOK'
  BY <1>t, MonitorConstants DEF TypeOK, Take, MonitorUnchanged, AfterTake, mapVars,
        appVars, gpuVars, histVars
<1>2. LockInv'
  BY <1>t DEF LockInv, TypeOK, Exclusive, Changing, Take, MonitorUnchanged, AfterTake,
        mapVars, appVars, gpuVars, histVars
<1>3. TargetInv'
  BY <1>t DEF TargetInv, LockInv, MonitorInv, TypeOK, Exclusive, Changing, Take,
        MonitorUnchanged, AfterTake, mapVars, appVars, gpuVars, histVars
<1>4. MonitorInv'
  BY <1>t DEF MonitorInv, TargetInv, LockInv, TypeOK, AtHand, Exclusive, Changing, Take,
        MonitorUnchanged, AfterTake, mapVars, appVars, gpuVars, histVars
<1>5. FrameInv'
  <2>0. /\ done' = done /\ pendingWork' = pendingWork /\ lastWork' = lastWork /\ stop' = stop
        /\ mpc[s] = "waiting"
    BY DEF Take, MonitorUnchanged, mapVars, histVars, gpuVars
  <2>1. ASSUME NEW x \in Swapchains, ~stop'[x], x # s
        PROVE  Ordered(x)'
    BY <2>0, <2>1, <1>t, OrderedKept DEF FrameInv, TypeOK, Take
  <2>2. ASSUME ~stop'[s]
        PROVE  Ordered(s)'
    <3> PICK q : q = pending[s]
      OBVIOUS
    <3>1. /\ Ordered(s) /\ q \in Seq(Signals) /\ q # <<>>
          /\ mpc'[s] = "awaiting" /\ mhand'[s] = q[1] /\ pending'[s] = Tail(q)
      BY <2>0, <2>2, <1>t DEF FrameInv, TypeOK, Take, AfterTake
    <3>2. /\ Len(q) \in Nat /\ Len(q) >= 1 /\ Len(pending'[s]) = Len(q) - 1
          /\ \A i \in 1..(Len(q) - 1) : pending'[s][i] = q[i + 1]
      BY <3>1, HeadTailProperties
    <3>3. ASSUME NEW w, NEW k \in 1..Len(q), Covered(s, w, k)
          PROVE  Covered(s, w, k - 1)'
      <4>1. CASE w \in done \cup {NoWork}
        BY <4>1, <2>0 DEF Covered
      <4>2. CASE \E j \in 1..k : w \in pending[s][j].work
        <5>1. PICK j \in 1..k : w \in q[j].work
          BY <4>2
        <5>2. CASE j = 1
          BY <5>1, <5>2, <3>1 DEF Covered
        <5>3. CASE j # 1
          <6>1. j - 1 \in 1..(k - 1) /\ j - 1 \in 1..(Len(q) - 1) /\ (j - 1) + 1 = j
            BY <5>3, <3>2
          <6>2. pending'[s][j - 1] = q[j]
            BY <6>1, <3>2
          <6> QED
            BY <6>1, <6>2, <5>1 DEF Covered
        <5> QED
          BY <5>2, <5>3
      <4> QED
        BY <4>1, <4>2, <3>3, <2>0 DEF Covered
    <3>4. ASSUME NEW i \in 1..Len(pending'[s])
          PROVE  Covered(s, pending[s][i].after, i)'
      <4>1. i + 1 \in 1..Len(q) /\ pending'[s][i] = q[i + 1] /\ (i + 1) - 1 = i
        BY <3>2
      <4>2. Covered(s, q[i + 1].after, i + 1)
        BY <4>1, <3>1 DEF Ordered
      <4>3. Covered(s, q[i + 1].after, (i + 1) - 1)'
        BY <4>1, <4>2, <3>3
      <4> QED
        BY <4>1, <4>3 DEF Covered
    <3>5. (lastWork[s] \in pendingWork[s] \/ Covered(s, lastWork[s], Len(pending[s])))'
      <4>1. CASE lastWork[s] \in pendingWork[s]
        BY <4>1, <2>0
      <4>2. CASE Covered(s, lastWork[s], Len(q))
        <5>1. Covered(s, lastWork[s], Len(q) - 1)'
          BY <4>2, <3>2, <3>3, <2>0 DEF Covered
        <5> QED
          BY <5>1, <3>2, <2>0 DEF Covered
      <4> QED
        BY <4>1, <4>2, <3>1 DEF Ordered
    <3>6. Covered(s, mhand[s].after, 0)'
      <4>1. Covered(s, q[1].after, 1)
        BY <3>1, <3>2 DEF Ordered
      <4>2. Covered(s, q[1].after, 1 - 1)'
        BY <4>1, <3>2, <3>3
      <4> QED
        BY <4>2, <3>1 DEF Covered
    <3> QED
      BY <3>4, <3>5, <3>6 DEF Ordered
  <2> QED
    BY <2>1, <2>2 DEF FrameInv
<1> QED
  BY <1>1, <1>2, <1>3, <1>4, <1>5 DEF IInv

LEMMA AwaitedInv ==
    ASSUME IInv, NEW s \in Swapchains, Awaited(s)
    PROVE  IInv'
<1>t. TypeOK /\ LockInv /\ TargetInv /\ MonitorInv /\ FrameInv
  BY DEF IInv
<1>1. TypeOK'
  BY <1>t, MonitorConstants DEF TypeOK, Awaited, MonitorUnchanged, mapVars, appVars,
        gpuVars, histVars
<1>2. LockInv'
  BY <1>t DEF LockInv, TypeOK, Exclusive, Changing, Awaited, MonitorUnchanged, mapVars,
        appVars, gpuVars, histVars
<1>3. TargetInv'
  BY <1>t DEF TargetInv, LockInv, MonitorInv, TypeOK, Exclusive, Changing, Awaited,
        MonitorUnchanged, mapVars, appVars, gpuVars, histVars
<1>4. MonitorInv'
  BY <1>t DEF MonitorInv, TargetInv, LockInv, TypeOK, AtHand, Exclusive, Changing,
        Awaited, MonitorUnchanged, mapVars, appVars, gpuVars, histVars
<1>5. FrameInv'
  <2>0. /\ done' = done /\ pendingWork' = pendingWork /\ lastWork' = lastWork /\ stop' = stop
        /\ pending' = pending
    BY DEF Awaited, MonitorUnchanged, mapVars, histVars, gpuVars
  <2>1. ASSUME NEW x \in Swapchains, ~stop'[x], x # s
        PROVE  Ordered(x)'
    BY <2>0, <2>1, <1>t, OrderedKept DEF FrameInv, TypeOK, Awaited
  <2>2. ASSUME ~stop'[s]
        PROVE  Ordered(s)'
    <3>1. Ordered(s)
      BY <2>0, <2>2, <1>t DEF FrameInv
    <3>2. mpc[s] = "awaiting" /\ mpc'[s] = "checking" /\ mhand' = mhand /\ mhand[s].work \subseteq done
      BY <1>t DEF Awaited, TypeOK
    <3>3. \A w, k : Covered(s, w, k) => (w \in done \cup {NoWork} \/ \E j \in 1..k : w \in pending[s][j].work)
      BY <3>2 DEF Covered
    <3> QED
      BY <2>0, <3>1, <3>2, <3>3 DEF Ordered, Covered, AtHand
  <2> QED
    BY <2>1, <2>2 DEF FrameInv
<1> QED
  BY <1>1, <1>2, <1>3, <1>4, <1>5 DEF IInv

LEMMA CheckInv ==
    ASSUME IInv, NEW s \in Swapchains, Check(s)
    PROVE  IInv'
<1>t. TypeOK /\ LockInv /\ TargetInv /\ MonitorInv /\ FrameInv
  BY DEF IInv
<1>1. TypeOK'
  BY <1>t, MonitorConstants DEF TypeOK, Check, MonitorUnchanged, mapVars, appVars,
        gpuVars, histVars
<1>2. LockInv'
  BY <1>t DEF LockInv, TypeOK, Exclusive, Changing, Check, MonitorUnchanged, mapVars,
        appVars, gpuVars, histVars
<1>3. TargetInv'
  BY <1>t DEF TargetInv, LockInv, MonitorInv, TypeOK, Exclusive, Changing, Check,
        MonitorUnchanged, mapVars, appVars, gpuVars, histVars
<1>4. MonitorInv'
  BY <1>t DEF MonitorInv, TargetInv, LockInv, TypeOK, AtHand, Exclusive, Changing, Check,
        MonitorUnchanged, mapVars, appVars, gpuVars, histVars
<1>5. FrameInv'
  <2>0. /\ done' = done /\ pendingWork' = pendingWork /\ lastWork' = lastWork /\ stop' = stop
        /\ pending' = pending
    BY DEF Check, MonitorUnchanged, mapVars, histVars, gpuVars
  <2>1. ASSUME NEW x \in Swapchains, ~stop'[x], x # s
        PROVE  Ordered(x)'
    BY <2>0, <2>1, <1>t, OrderedKept DEF FrameInv, TypeOK, Check
  <2>2. ASSUME ~stop'[s]
        PROVE  Ordered(s)'
    <3>1. Ordered(s)
      BY <2>0, <2>2, <1>t DEF FrameInv
    <3>2. mpc[s] = "checking" /\ mpc'[s] \in {"waiting", "signalling"}
          /\ (mpc'[s] = "signalling" => mhand' = mhand)
      BY <1>t DEF Check, TypeOK
    <3> QED
      BY <2>0, <3>1, <3>2 DEF Ordered, Covered, AtHand
  <2> QED
    BY <2>1, <2>2 DEF FrameInv
<1> QED
  BY <1>1, <1>2, <1>3, <1>4, <1>5 DEF IInv

LEMMA SignalInv ==
    ASSUME IInv, NEW s \in Swapchains, Signal(s)
    PROVE  IInv'
<1>t. TypeOK /\ LockInv /\ TargetInv /\ MonitorInv /\ FrameInv
  BY DEF IInv
<1>1. TypeOK'
  <2>1. mhand[s].value \in Nat
    BY <1>t, MonitorConstants DEF Signal, MonitorInv, AtHand, Signals
  <2>2. /\ mpc' \in [Swapchains -> {"absent", "waiting", "awaiting", "checking", "signalling", "exited"}]
        /\ mhand' \in [Swapchains -> Signals \cup {NoSignal}]
        /\ counter' \in [Sems -> Nat]
    BY <2>1, <1>t DEF Signal, TypeOK
  <2> QED
    BY <2>2, <1>t DEF Signal, MonitorUnchanged, mapVars, appVars, gpuVars, histVars, TypeOK
<1>2. LockInv'
  BY <1>t DEF LockInv, TypeOK, Exclusive, Changing, Signal, MonitorUnchanged, Signals,
        mapVars, appVars, gpuVars, histVars
<1>3. TargetInv'
  BY <1>t DEF TargetInv, LockInv, MonitorInv, TypeOK, Exclusive, Changing, Signal,
        MonitorUnchanged, Signals, mapVars, appVars, gpuVars, histVars
<1>4. MonitorInv'
  BY <1>t DEF MonitorInv, TargetInv, LockInv, TypeOK, AtHand, Exclusive, Changing,
        Signal, MonitorUnchanged, Signals, mapVars, appVars, gpuVars, histVars
<1>5. FrameInv'
  <2>0. /\ done' = done /\ pendingWork' = pendingWork /\ lastWork' = lastWork /\ stop' = stop
        /\ pending' = pending
    BY DEF Signal, MonitorUnchanged, mapVars, histVars, gpuVars
  <2>1. ASSUME NEW x \in Swapchains, ~stop'[x], x # s
        PROVE  Ordered(x)'
    BY <2>0, <2>1, <1>t, OrderedKept DEF FrameInv, TypeOK, Signal
  <2>2. ASSUME ~stop'[s]
        PROVE  Ordered(s)'
    <3>1. Ordered(s)
      BY <2>0, <2>2, <1>t DEF FrameInv
    <3>2. mpc[s] = "signalling" /\ mpc'[s] = "waiting"
      BY <1>t DEF Signal, TypeOK
    <3> QED
      BY <2>0, <3>1, <3>2 DEF Ordered, Covered, AtHand
  <2> QED
    BY <2>1, <2>2 DEF FrameInv
<1> QED
  BY <1>1, <1>2, <1>3, <1>4, <1>5 DEF IInv

LEMMA ExitInv ==
    ASSUME IInv, NEW s \in Swapchains, Exit(s)
    PROVE  IInv'
<1>t. TypeOK /\ LockInv /\ TargetInv /\ MonitorInv /\ FrameInv
  BY DEF IInv
<1>1. TypeOK'
  BY <1>t, MonitorConstants DEF TypeOK, Exit, MonitorUnchanged, mapVars, appVars,
        gpuVars, histVars
<1>2. LockInv'
  BY <1>t DEF LockInv, TypeOK, Exclusive, Changing, Exit, MonitorUnchanged, mapVars,
        appVars, gpuVars, histVars
<1>3. TargetInv'
  BY <1>t DEF TargetInv, LockInv, MonitorInv, TypeOK, Exclusive, Changing, Exit,
        MonitorUnchanged, mapVars, appVars, gpuVars, histVars
<1>4. MonitorInv'
  BY <1>t DEF MonitorInv, TargetInv, LockInv, TypeOK, AtHand, Exclusive, Changing, Exit,
        MonitorUnchanged, mapVars, appVars, gpuVars, histVars
<1>5. FrameInv'
  <2>1. ASSUME NEW x \in Swapchains, ~stop'[x] PROVE Ordered(x)'
    BY <2>1, <1>t, OrderedKept DEF FrameInv, TypeOK, MonitorInv, Exit, MonitorUnchanged,
          mapVars, appVars, gpuVars, histVars
  <2> QED
    BY <2>1 DEF FrameInv
<1> QED
  BY <1>1, <1>2, <1>3, <1>4, <1>5 DEF IInv

LEMMA NextInv == IInv /\ [Next]_vars => IInv'
<1> SUFFICES ASSUME IInv, [Next]_vars PROVE IInv'
  OBVIOUS
<1>1. CASE UNCHANGED vars
  <2>1. TypeOK' /\ LockInv' /\ TargetInv' /\ MonitorInv'
    BY <1>1 DEF IInv, TypeOK, LockInv, TargetInv, MonitorInv, AtHand, vars, mapVars, monVars,
                thrVars, appVars, gpuVars, histVars
  <2>2. FrameInv'
    BY <1>1, OrderedKept DEF IInv, FrameInv, vars, mapVars, monVars, thrVars, gpuVars, histVars
  <2> QED
    BY <2>1, <2>2 DEF IInv
<1>2. ASSUME NEW t \in Threads, AppCall(t) PROVE IInv'
  BY <1>2, CreateSwapchainInv, NotifyDestroyInv, SleepModeInv, PresentInv, SleepQueuedInv,
     SleepDirectInv DEF AppCall
<1>3. ASSUME NEW t \in Threads, Finish(t) PROVE IInv'
  BY <1>3, NotifyCreateInv, JoinedInv, DriverDestroyInv, DirectSignalInv DEF Finish
<1>4. ASSUME NEW s \in Swapchains, MonitorStep(s) PROVE IInv'
  BY <1>4, TakeInv, AwaitedInv, CheckInv, SignalInv, ExitInv DEF MonitorStep
<1> QED
  BY <1>1, <1>2, <1>3, <1>4, GpuDoneInv DEF Next

-----------------------------------------------------------------------------
(* The inductive step of what needs the discipline.                        *)

\* A request that is held stays where it belongs when counters only rise and no
\* request for its semaphore goes elsewhere before the semaphore has reached it.
LEMMA PlacedKept ==
    ASSUME NEW r \in Signals, NEW p, Placed(r, p), TypeOK, TypeOK',
           requested \subseteq requested', counter[r.sem] <= counter'[r.sem],
           route'[r.sem] \in {route[r.sem], p} \/ Reached(r.sem, r.value)
    PROVE  /\ <<r.sem, r.value>> \in requested'
           /\ counter'[r.sem] >= r.value \/ route'[r.sem] = p
<1>1. /\ counter[r.sem] \in Nat /\ counter'[r.sem] \in Nat /\ r.value \in Nat
  BY MonitorConstants DEF Signals, TypeOK
<1> QED
  BY <1>1 DEF Placed, Reached

\* Steps that move no request and no counter.
LEMMA QuietInv ==
    ASSUME DisciplinedInv, IInv',
           UNCHANGED <<mhand, hand, counter, requested, route, pending>>,
           \A s \in Swapchains : /\ AtHand(s)' <=> AtHand(s)
                                 /\ mpc'[s] = "signalling" => mpc[s] = "signalling"
                                 /\ s \in monitors /\ pending[s] # <<>> => s \in monitors',
           \A t \in Threads : pc'[t] = "signalling" <=> pc[t] = "signalling"
    PROVE  DisciplinedInv'
<1>1. PlaceInv'
  BY DEF DisciplinedInv, PlaceInv, Placed, Reached
<1>2. FreshSignal'
  BY DEF DisciplinedInv, FreshSignal, Reached
<1>3. NoSignalDropped'
  <2> SUFFICES ASSUME NEW x \in requested, ~Reached(x[1], x[2])
               PROVE  InHand(x[1], x[2])'
    BY DEF NoSignalDropped, Reached
  <2>1. InHand(x[1], x[2])
    BY DEF DisciplinedInv, NoSignalDropped
  <2>2. ASSUME NEW s \in monitors, NEW r \in Range(pending[s])
        PROVE  s \in monitors'
    <3>1. s \in Swapchains /\ pending[s] # <<>>
      BY RangeEquality, <2>2 DEF DisciplinedInv, IInv, TypeOK, Range
    <3> QED
      BY <3>1
  <2> QED
    BY <2>1, <2>2 DEF InHand, AtHand
<1> QED
  BY <1>1, <1>2, <1>3 DEF DisciplinedInv

LEMMA SleepPlaces ==
    ASSUME DisciplinedInv, AwaitsBeforeSwitch, NEW t \in Threads, NEW s \in Swapchains,
           NEW m \in Sems, NEW v \in Values, MaySleep(t, s, m, v),
           NEW r \in Signals, NEW p, Placed(r, p), r.sem = m
    PROVE  p = RouteOf(s) \/ Reached(r.sem, r.value)
<1>1. r.value \in Values
  BY DEF Signals
<1> QED
  BY <1>1 DEF MaySleep, Disciplined, Placed

LEMMA SleepQueuedPlaces ==
    ASSUME DisciplinedInv, IInv', AwaitsBeforeSwitch, NEW t \in Threads, NEW s \in Swapchains,
           NEW m \in Sems, NEW v \in Values, SleepQueued(t, s, m, v)
    PROVE  DisciplinedInv'
<1> PICK new : new = PendingSignal(m, v, pendingWork[s], lastWork[s])
  OBVIOUS
<1>t. IInv /\ TypeOK /\ TypeOK' /\ MonitorInv /\ TargetInv /\ PlaceInv /\ FreshSignal /\ NoSignalDropped
  BY DEF DisciplinedInv, IInv
<1>1. /\ new \in Signals /\ new.sem = m /\ new.value = v /\ s \in monitors
      /\ MaySleep(t, s, m, v) /\ RouteOf(s) = s
      /\ pending' = [pending EXCEPT ![s] = Append(pending[s], new)]
      /\ requested' = requested \cup {<<m, v>>} /\ route' = [route EXCEPT ![m] = s]
      /\ mpc' = mpc /\ mhand' = mhand /\ pc' = pc /\ hand' = hand /\ counter' = counter
      /\ monitors' = monitors
  BY <1>t, MonitorConstants DEF SleepQueued, Requested, RouteOf, PendingSignal, Signals,
     mapVars, thrVars, appVars, TypeOK
<1>2. ASSUME NEW r \in Signals, NEW p, Placed(r, p)
      PROVE  /\ <<r.sem, r.value>> \in requested'
             /\ counter'[r.sem] >= r.value \/ route'[r.sem] = p
  <2>1. r.sem = m => p = s \/ Reached(r.sem, r.value)
    BY <1>1, <1>2, SleepPlaces
  <2>2. counter[r.sem] <= counter'[r.sem] /\ requested \subseteq requested'
    BY <1>1, <1>t DEF TypeOK, Signals
  <2>3. route'[r.sem] \in {route[r.sem], p} \/ Reached(r.sem, r.value)
    BY <1>1, <2>1, <1>t DEF TypeOK, Signals
  <2> QED
    BY <1>2, <1>t, <2>2, <2>3, PlacedKept
<1>3. /\ \A x \in Swapchains : x # s => pending'[x] = pending[x]
      /\ Len(pending'[s]) = Len(pending[s]) + 1 /\ Len(pending[s]) \in Nat
      /\ pending'[s][Len(pending[s]) + 1] = new
      /\ \A i \in 1..Len(pending[s]) : pending'[s][i] = pending[s][i]
  BY <1>1, <1>t, AppendProperties, LenProperties DEF TypeOK
<1>4. PlaceInv'
  <2>1. ASSUME NEW x \in Swapchains, AtHand(x)'
        PROVE  Placed(mhand[x], x)'
    <3>1. mhand[x] \in Signals /\ Placed(mhand[x], x)
      BY <1>1, <2>1, <1>t DEF AtHand, MonitorInv, PlaceInv
    <3> QED
      BY <3>1, <1>1, <1>2 DEF Placed, Reached
  <2>2. ASSUME NEW x \in Swapchains, NEW i \in 1..Len(pending'[x])
        PROVE  Placed(pending[x][i], x)'
    <3>1. CASE x = s /\ i = Len(pending[s]) + 1
      BY <3>1, <1>1, <1>3, <1>t DEF Placed, TypeOK
    <3>2. CASE ~(x = s /\ i = Len(pending[s]) + 1)
      <4>1. i \in 1..Len(pending[x]) /\ pending'[x][i] = pending[x][i]
        BY <3>2, <1>3
      <4>2. pending[x][i] \in Signals /\ Placed(pending[x][i], x)
        BY <4>1, <1>t, ElementOfSeq DEF PlaceInv, TypeOK
      <4> QED
        BY <4>1, <4>2, <1>2 DEF Placed, Reached
    <3> QED
      BY <3>1, <3>2
  <2>3. ASSUME NEW u \in Threads, pc'[u] = "signalling"
        PROVE  Placed(hand[u], Direct)'
    <3>1. hand[u] \in Signals /\ Placed(hand[u], Direct)
      BY <1>1, <2>3, <1>t DEF TargetInv, PlaceInv
    <3> QED
      BY <3>1, <1>1, <1>2 DEF Placed, Reached
  <2> QED
    BY <2>1, <2>2, <2>3 DEF PlaceInv
<1>5. FreshSignal'
  BY <1>1, <1>t DEF FreshSignal, Reached
<1>6. NoSignalDropped'
  <2>1. \A x \in Swapchains : Range(pending[x]) \subseteq Range(pending'[x])
    <3>1. \A x \in Swapchains : pending[x] \in Seq(Signals) /\ pending'[x] \in Seq(Signals)
      BY <1>t DEF TypeOK
    <3>2. Range(pending[s]) \subseteq Range(pending'[s])
      BY <3>1, <1>3, RangeEquality
    <3> QED
      BY <3>2, <1>3
  <2>2. new \in Range(pending'[s])
    <3>1. pending'[s] \in Seq(Signals) /\ Len(pending'[s]) \in 1..Len(pending'[s])
      BY <1>3, <1>t DEF TypeOK
    <3> QED
      BY <3>1, <1>3, RangeEquality
  <2>3. InHand(m, v)'
    BY <2>2, <1>1 DEF InHand
  <2>4. ASSUME NEW x \in requested, ~Reached(x[1], x[2])
        PROVE  InHand(x[1], x[2])'
    <3>1. InHand(x[1], x[2])
      BY <2>4, <1>t DEF NoSignalDropped
    <3>2. monitors \subseteq Swapchains
      BY <1>t DEF TypeOK
    <3> QED
      BY <3>1, <3>2, <2>1, <1>1 DEF InHand
  <2> QED
    BY <2>3, <2>4, <1>1 DEF NoSignalDropped, Reached
<1> QED
  BY <1>4, <1>5, <1>6 DEF DisciplinedInv

LEMMA SleepDirectPlaces ==
    ASSUME DisciplinedInv, IInv', AwaitsBeforeSwitch, NEW t \in Threads, NEW s \in Swapchains,
           NEW m \in Sems, NEW v \in Values, SleepDirect(t, s, m, v)
    PROVE  DisciplinedInv'
<1>t. IInv /\ TypeOK /\ TypeOK' /\ MonitorInv /\ TargetInv /\ PlaceInv /\ FreshSignal /\ NoSignalDropped
  BY DEF DisciplinedInv, IInv
<1>1. /\ MaySleep(t, s, m, v) /\ RouteOf(s) = Direct /\ pc[t] = "idle"
      /\ requested' = requested \cup {<<m, v>>} /\ route' = [route EXCEPT ![m] = Direct]
      /\ mpc' = mpc /\ mhand' = mhand /\ pending' = pending /\ counter' = counter
      /\ monitors' = monitors
      /\ \A u \in Threads : u # t => pc'[u] = pc[u] /\ hand'[u] = hand[u]
  BY <1>t DEF SleepDirect, MaySleep, Requested, mapVars, monVars, thrVars, appVars, TypeOK
<1>2. ASSUME NEW r \in Signals, NEW p, Placed(r, p)
      PROVE  /\ <<r.sem, r.value>> \in requested'
             /\ counter'[r.sem] >= r.value \/ route'[r.sem] = p
  <2>1. r.sem = m => p = Direct \/ Reached(r.sem, r.value)
    BY <1>1, <1>2, SleepPlaces
  <2>2. counter[r.sem] <= counter'[r.sem] /\ requested \subseteq requested'
    BY <1>1, <1>t DEF TypeOK, Signals
  <2>3. route'[r.sem] \in {route[r.sem], p} \/ Reached(r.sem, r.value)
    BY <1>1, <2>1, <1>t DEF TypeOK, Signals
  <2> QED
    BY <1>2, <1>t, <2>2, <2>3, PlacedKept
\* The calling thread, whether it signals or not.
<1>3. /\ pc'[t] = "signalling" => /\ ~Reached(m, v)
                                  /\ hand'[t].sem = m /\ hand'[t].value = v
      /\ pc'[t] = "signalling" \/ Reached(m, v)
  BY <1>1, <1>t DEF SleepDirect, appVars, PendingSignal, TypeOK
<1>4. PlaceInv'
  <2>1. ASSUME NEW x \in Swapchains, AtHand(x)'
        PROVE  Placed(mhand[x], x)'
    <3>1. mhand[x] \in Signals /\ Placed(mhand[x], x)
      BY <1>1, <2>1, <1>t DEF AtHand, MonitorInv, PlaceInv
    <3> QED
      BY <3>1, <1>1, <1>2 DEF Placed, Reached
  <2>2. ASSUME NEW x \in Swapchains, NEW i \in 1..Len(pending'[x])
        PROVE  Placed(pending[x][i], x)'
    <3>1. pending[x][i] \in Signals /\ Placed(pending[x][i], x)
      BY <1>1, <1>t, ElementOfSeq DEF PlaceInv, TypeOK
    <3> QED
      BY <3>1, <1>1, <1>2 DEF Placed, Reached
  <2>3. ASSUME NEW u \in Threads, pc'[u] = "signalling", u # t
        PROVE  Placed(hand[u], Direct)'
    <3>1. hand[u] \in Signals /\ Placed(hand[u], Direct)
      BY <1>1, <2>3, <1>t DEF TargetInv, PlaceInv
    <3> QED
      BY <3>1, <2>3, <1>1, <1>2 DEF Placed, Reached
  <2>4. pc'[t] = "signalling" => Placed(hand[t], Direct)'
    BY <1>1, <1>3, <1>t DEF Placed, TypeOK
  <2> QED
    BY <2>1, <2>2, <2>3, <2>4 DEF PlaceInv
<1>5. FreshSignal'
  BY <1>1, <1>3, <1>t DEF FreshSignal, Reached
<1>6. NoSignalDropped'
  <2>1. Reached(m, v)' \/ InHand(m, v)'
    BY <1>1, <1>3 DEF Reached, InHand
  <2>2. ASSUME NEW x \in requested, ~Reached(x[1], x[2])
        PROVE  InHand(x[1], x[2])'
    <3>1. InHand(x[1], x[2])
      BY <2>2, <1>t DEF NoSignalDropped
    <3>2. \A u \in Threads : pc[u] = "signalling" => u # t
      BY <1>1
    <3> QED
      BY <3>1, <3>2, <1>1 DEF InHand
  <2> QED
    BY <2>1, <2>2, <1>1 DEF NoSignalDropped, Reached
<1> QED
  BY <1>4, <1>5, <1>6 DEF DisciplinedInv

LEMMA TakePlaces ==
    ASSUME DisciplinedInv, IInv', NEW s \in Swapchains, Take(s)
    PROVE  DisciplinedInv'
<1> PICK q : q = pending[s]
  OBVIOUS
<1>t. IInv /\ TypeOK /\ TypeOK' /\ MonitorInv /\ PlaceInv /\ FreshSignal /\ NoSignalDropped
  BY DEF DisciplinedInv, IInv
<1>1. /\ mpc[s] = "waiting" /\ mpc'[s] \in {"awaiting", "checking"}
      /\ q \in Seq(Signals) /\ q # <<>> /\ mhand'[s] = q[1] /\ pending'[s] = Tail(q)
      /\ \A x \in Swapchains : x # s => /\ mpc'[x] = mpc[x] /\ mhand'[x] = mhand[x]
                                        /\ pending'[x] = pending[x]
      /\ counter' = counter /\ requested' = requested /\ route' = route /\ monitors' = monitors
      /\ pc' = pc /\ hand' = hand
  BY <1>t DEF Take, AfterTake, MonitorUnchanged, mapVars, appVars, histVars, TypeOK
<1>2. /\ Len(q) \in Nat /\ Len(q) >= 1 /\ Len(Tail(q)) = Len(q) - 1 /\ Tail(q) \in Seq(Signals)
      /\ \A i \in 1..(Len(q) - 1) : Tail(q)[i] = q[i + 1]
  BY <1>1, HeadTailProperties
<1>3. PlaceInv'
  <2>1. \A x \in Swapchains : x # s => (AtHand(x)' => Placed(mhand[x], x)')
    BY <1>1, <1>t DEF PlaceInv, AtHand, Placed, Reached
  <2>2. Placed(mhand[s], s)'
    <3>1. Placed(q[1], s)
      BY <1>2, <1>t DEF PlaceInv
    <3> QED
      BY <3>1, <1>1 DEF Placed, Reached
  <2>3. ASSUME NEW x \in Swapchains, x # s, NEW i \in 1..Len(pending'[x])
        PROVE  Placed(pending[x][i], x)'
    <3>1. pending'[x] = pending[x] /\ i \in 1..Len(pending[x])
      BY <2>3, <1>1
    <3>2. Placed(pending[x][i], x)
      BY <3>1, <1>t DEF PlaceInv
    <3> QED
      BY <3>1, <3>2, <1>1 DEF Placed, Reached
  <2>4. ASSUME NEW i \in 1..Len(pending'[s])
        PROVE  Placed(pending[s][i], s)'
    <3>1. i + 1 \in 1..Len(q) /\ pending'[s][i] = q[i + 1]
      BY <1>1, <1>2
    <3>2. Placed(q[i + 1], s)
      BY <3>1, <1>t DEF PlaceInv
    <3> QED
      BY <3>1, <3>2, <1>1 DEF Placed, Reached
  <2>5. \A u \in Threads : pc'[u] = "signalling" => Placed(hand[u], Direct)'
    BY <1>1, <1>t DEF PlaceInv, Placed, Reached
  <2> QED
    BY <2>1, <2>2, <2>3, <2>4, <2>5 DEF PlaceInv
<1>4. FreshSignal'
  BY <1>1, <1>t DEF FreshSignal, Reached
<1>5. NoSignalDropped'
  <2> SUFFICES ASSUME NEW x \in requested, ~Reached(x[1], x[2])
               PROVE  InHand(x[1], x[2])'
    BY <1>1 DEF NoSignalDropped, Reached
  <2>1. InHand(x[1], x[2])
    BY <1>t DEF NoSignalDropped
  <2>2. \A r \in Range(q) : r = q[1] \/ r \in Range(Tail(q))
    <3>1. ASSUME NEW i \in 1..Len(q), i # 1
          PROVE  q[i] \in Range(Tail(q))
      <4>1. i - 1 \in 1..Len(Tail(q)) /\ Tail(q)[i - 1] = q[i]
        BY <3>1, <1>2
      <4>2. Range(Tail(q)) = {Tail(q)[k] : k \in 1..Len(Tail(q))}
        BY <1>2, RangeEquality
      <4> QED
        BY <4>1, <4>2
    <3> QED
      BY <3>1, <1>1, RangeEquality
  <2>3. CASE \E u \in monitors : u = s /\ \E r \in Range(pending[u]) : r.sem = x[1] /\ r.value = x[2]
    <3>1. PICK r \in Range(q) : r.sem = x[1] /\ r.value = x[2]
      BY <2>3
    <3>2. CASE r = q[1]
      BY <3>1, <3>2, <1>1 DEF InHand
    <3>3. CASE r \in Range(Tail(q))
      BY <2>3, <3>1, <3>3, <1>1 DEF InHand
    <3> QED
      BY <2>2, <3>2, <3>3
  <2>4. CASE ~\E u \in monitors : u = s /\ \E r \in Range(pending[u]) : r.sem = x[1] /\ r.value = x[2]
    <3>1. monitors \subseteq Swapchains /\ mpc[s] \notin {"awaiting", "checking", "signalling"}
      BY <1>1, <1>t DEF TypeOK
    <3> QED
      BY <2>1, <2>4, <3>1, <1>1 DEF InHand
  <2> QED
    BY <2>3, <2>4
<1> QED
  BY <1>3, <1>4, <1>5 DEF DisciplinedInv

LEMMA CheckPlaces ==
    ASSUME DisciplinedInv, IInv', NEW s \in Swapchains, Check(s)
    PROVE  DisciplinedInv'
<1>t. IInv /\ TypeOK /\ MonitorInv /\ PlaceInv /\ FreshSignal /\ NoSignalDropped
  BY DEF DisciplinedInv, IInv
<1>1. /\ mpc[s] = "checking"
      /\ \/ Reached(mhand[s].sem, mhand[s].value) /\ mpc'[s] = "waiting"
         \/ /\ ~Reached(mhand[s].sem, mhand[s].value) /\ mpc'[s] = "signalling"
            /\ mhand'[s] = mhand[s]
      /\ \A x \in Swapchains : x # s => mpc'[x] = mpc[x] /\ mhand'[x] = mhand[x]
      /\ counter' = counter /\ requested' = requested /\ route' = route /\ monitors' = monitors
      /\ pc' = pc /\ hand' = hand /\ pending' = pending
  BY <1>t DEF Check, MonitorUnchanged, mapVars, appVars, histVars, TypeOK
<1>2. PlaceInv'
  <2>1. ASSUME NEW x \in Swapchains, AtHand(x)'
        PROVE  Placed(mhand[x], x)'
    <3>1. AtHand(x) /\ mhand'[x] = mhand[x]
      BY <2>1, <1>1 DEF AtHand
    <3> QED
      BY <3>1, <1>1, <1>t DEF PlaceInv, Placed, Reached
  <2>2. \A x \in Swapchains : \A i \in 1..Len(pending'[x]) : Placed(pending[x][i], x)'
    BY <1>1, <1>t DEF PlaceInv, Placed, Reached
  <2>3. \A u \in Threads : pc'[u] = "signalling" => Placed(hand[u], Direct)'
    BY <1>1, <1>t DEF PlaceInv, Placed, Reached
  <2> QED
    BY <2>1, <2>2, <2>3 DEF PlaceInv
<1>3. FreshSignal'
  BY <1>1, <1>t DEF FreshSignal, Reached
<1>4. NoSignalDropped'
  <2> SUFFICES ASSUME NEW x \in requested, ~Reached(x[1], x[2])
               PROVE  InHand(x[1], x[2])'
    BY <1>1 DEF NoSignalDropped, Reached
  <2>1. InHand(x[1], x[2])
    BY <1>t DEF NoSignalDropped
  <2>2. mpc'[s] = "waiting" => ~(mhand[s].sem = x[1] /\ mhand[s].value = x[2])
    BY <1>1
  <2> QED
    BY <2>1, <2>2, <1>1 DEF InHand
<1> QED
  BY <1>2, <1>3, <1>4 DEF DisciplinedInv

\* A semaphore that is raised: nobody else holds a request that it has not reached and
\* is about to signal, because that request would have its place elsewhere.
LEMMA SignalPlaces ==
    ASSUME DisciplinedInv, IInv', NEW s \in Swapchains, Signal(s)
    PROVE  DisciplinedInv'
<1> PICK r : r = mhand[s]
  OBVIOUS
<1>t. IInv /\ TypeOK /\ TypeOK' /\ MonitorInv /\ TargetInv /\ PlaceInv /\ FreshSignal /\ NoSignalDropped
  BY DEF DisciplinedInv, IInv
<1>1. /\ mpc[s] = "signalling" /\ mpc'[s] = "waiting"
      /\ \A x \in Swapchains : x # s => mpc'[x] = mpc[x] /\ mhand'[x] = mhand[x]
      /\ counter' = [counter EXCEPT ![r.sem] = r.value]
      /\ requested' = requested /\ route' = route /\ monitors' = monitors
      /\ pc' = pc /\ hand' = hand /\ pending' = pending
  BY <1>t DEF Signal, MonitorUnchanged, mapVars, appVars, histVars, TypeOK
<1>2. r \in Signals /\ ~Reached(r.sem, r.value) /\ route[r.sem] = s
  BY <1>1, <1>t DEF MonitorInv, FreshSignal, PlaceInv, Placed, AtHand
<1>3. /\ \A m \in Sems : counter[m] \in Nat /\ counter'[m] \in Nat /\ counter[m] <= counter'[m]
      /\ \A m \in Sems : m # r.sem => counter'[m] = counter[m]
      /\ counter'[r.sem] = r.value
  BY <1>1, <1>2, <1>t, MonitorConstants DEF TypeOK, Signals, Reached
<1>4. ASSUME NEW h \in Signals, NEW p, Placed(h, p)
      PROVE  /\ <<h.sem, h.value>> \in requested'
             /\ counter'[h.sem] >= h.value \/ route'[h.sem] = p
  BY <1>1, <1>3, <1>4, <1>t, PlacedKept DEF Signals
<1>5. PlaceInv'
  <2>1. ASSUME NEW x \in Swapchains, AtHand(x)'
        PROVE  Placed(mhand[x], x)'
    <3>1. x # s /\ mhand'[x] = mhand[x] /\ mhand[x] \in Signals /\ Placed(mhand[x], x)
      BY <1>1, <2>1, <1>t DEF AtHand, MonitorInv, PlaceInv
    <3> QED
      BY <3>1, <1>1, <1>4 DEF Placed, Reached
  <2>2. ASSUME NEW x \in Swapchains, NEW i \in 1..Len(pending'[x])
        PROVE  Placed(pending[x][i], x)'
    <3>1. pending[x][i] \in Signals /\ Placed(pending[x][i], x)
      BY <1>1, <1>t, ElementOfSeq DEF PlaceInv, TypeOK
    <3> QED
      BY <3>1, <1>1, <1>4 DEF Placed, Reached
  <2>3. ASSUME NEW u \in Threads, pc'[u] = "signalling"
        PROVE  Placed(hand[u], Direct)'
    <3>1. hand[u] \in Signals /\ Placed(hand[u], Direct)
      BY <1>1, <2>3, <1>t DEF TargetInv, PlaceInv
    <3> QED
      BY <3>1, <1>1, <1>4 DEF Placed, Reached
  <2> QED
    BY <2>1, <2>2, <2>3 DEF PlaceInv
<1>6. FreshSignal'
  <2>1. ASSUME NEW x \in Swapchains, mpc'[x] = "signalling"
        PROVE  ~Reached(mhand[x].sem, mhand[x].value)'
    <3>1. /\ x # s /\ mpc[x] = "signalling" /\ mhand'[x] = mhand[x] /\ mhand[x] \in Signals
          /\ ~Reached(mhand[x].sem, mhand[x].value)
      BY <1>1, <2>1, <1>t DEF AtHand, MonitorInv, FreshSignal
    <3>2. route[mhand[x].sem] = x
      BY <3>1, <1>t DEF AtHand, PlaceInv, Placed
    <3>3. mhand[x].sem # r.sem /\ mhand[x].sem \in Sems
      BY <3>1, <3>2, <1>2 DEF Signals
    <3> QED
      BY <3>1, <3>3, <1>3 DEF Reached
  <2>2. ASSUME NEW u \in Threads, pc'[u] = "signalling"
        PROVE  ~Reached(hand[u].sem, hand[u].value)'
    <3>1. hand[u] \in Signals /\ ~Reached(hand[u].sem, hand[u].value)
      BY <1>1, <2>2, <1>t DEF TargetInv, FreshSignal
    <3>2. route[hand[u].sem] = Direct
      BY <3>1, <2>2, <1>1, <1>t DEF PlaceInv, Placed
    <3>3. hand[u].sem # r.sem /\ hand[u].sem \in Sems
      BY <3>1, <3>2, <1>2, MonitorConstants DEF Signals
    <3> QED
      BY <3>1, <3>3, <1>1, <1>3 DEF Reached
  <2> QED
    BY <2>1, <2>2 DEF FreshSignal
<1>7. NoSignalDropped'
  <2> SUFFICES ASSUME NEW x \in requested, ~Reached(x[1], x[2])'
               PROVE  InHand(x[1], x[2])'
    BY <1>1 DEF NoSignalDropped
  <2>1. x[1] \in Sems /\ x[2] \in Nat
    BY <1>t, MonitorConstants DEF TypeOK
  <2>2. ~Reached(x[1], x[2]) /\ ~(r.sem = x[1] /\ r.value = x[2])
    BY <2>1, <1>3 DEF Reached
  <2>3. InHand(x[1], x[2])
    BY <2>2, <1>t DEF NoSignalDropped
  <2> QED
    BY <2>2, <2>3, <1>1 DEF InHand
<1> QED
  BY <1>5, <1>6, <1>7 DEF DisciplinedInv

LEMMA DirectSignalPlaces ==
    ASSUME DisciplinedInv, IInv', NEW t \in Threads, DirectSignal(t)
    PROVE  DisciplinedInv'
<1> PICK r : r = hand[t]
  OBVIOUS
<1>t. IInv /\ TypeOK /\ TypeOK' /\ MonitorInv /\ TargetInv /\ LockInv /\ PlaceInv /\ FreshSignal
      /\ NoSignalDropped
  BY DEF DisciplinedInv, IInv
<1>1. /\ pc[t] = "signalling" /\ pc'[t] = "idle"
      /\ \A u \in Threads : u # t => pc'[u] = pc[u] /\ hand'[u] = hand[u]
      /\ counter' = [counter EXCEPT ![r.sem] = r.value]
      /\ requested' = requested /\ route' = route /\ monitors' = monitors
      /\ mpc' = mpc /\ mhand' = mhand /\ pending' = pending
  BY <1>t DEF DirectSignal, Return, mapVars, monVars, thrVars, histVars, TypeOK
<1>2. r \in Signals /\ ~Reached(r.sem, r.value) /\ route[r.sem] = Direct
  BY <1>1, <1>t DEF TargetInv, FreshSignal, PlaceInv, Placed
<1>3. /\ \A m \in Sems : counter[m] \in Nat /\ counter'[m] \in Nat /\ counter[m] <= counter'[m]
      /\ \A m \in Sems : m # r.sem => counter'[m] = counter[m]
      /\ counter'[r.sem] = r.value
  BY <1>1, <1>2, <1>t, MonitorConstants DEF TypeOK, Signals, Reached
<1>4. ASSUME NEW h \in Signals, NEW p, Placed(h, p)
      PROVE  /\ <<h.sem, h.value>> \in requested'
             /\ counter'[h.sem] >= h.value \/ route'[h.sem] = p
  BY <1>1, <1>3, <1>4, <1>t, PlacedKept DEF Signals
\* No other thread signals by itself.
<1>5. \A u \in Threads : pc'[u] # "signalling"
  BY <1>1, <1>t DEF LockInv, Exclusive
<1>6. PlaceInv'
  <2>1. ASSUME NEW x \in Swapchains, AtHand(x)'
        PROVE  Placed(mhand[x], x)'
    <3>1. mhand[x] \in Signals /\ Placed(mhand[x], x)
      BY <1>1, <2>1, <1>t DEF AtHand, MonitorInv, PlaceInv
    <3> QED
      BY <3>1, <1>1, <1>4 DEF Placed, Reached
  <2>2. ASSUME NEW x \in Swapchains, NEW i \in 1..Len(pending'[x])
        PROVE  Placed(pending[x][i], x)'
    <3>1. pending[x][i] \in Signals /\ Placed(pending[x][i], x)
      BY <1>1, <1>t, ElementOfSeq DEF PlaceInv, TypeOK
    <3> QED
      BY <3>1, <1>1, <1>4 DEF Placed, Reached
  <2> QED
    BY <2>1, <2>2, <1>5 DEF PlaceInv
<1>7. FreshSignal'
  <2>1. ASSUME NEW x \in Swapchains, mpc'[x] = "signalling"
        PROVE  ~Reached(mhand[x].sem, mhand[x].value)'
    <3>1. mhand[x] \in Signals /\ ~Reached(mhand[x].sem, mhand[x].value) /\ mhand' = mhand
      BY <1>1, <2>1, <1>t DEF AtHand, MonitorInv, FreshSignal
    <3>2. route[mhand[x].sem] = x
      BY <3>1, <2>1, <1>1, <1>t DEF AtHand, PlaceInv, Placed
    <3>3. mhand[x].sem # r.sem /\ mhand[x].sem \in Sems
      BY <3>1, <3>2, <1>2, MonitorConstants DEF Signals
    <3> QED
      BY <3>1, <3>3, <1>3 DEF Reached
  <2> QED
    BY <2>1, <1>5 DEF FreshSignal
<1>8. NoSignalDropped'
  <2> SUFFICES ASSUME NEW x \in requested, ~Reached(x[1], x[2])'
               PROVE  InHand(x[1], x[2])'
    BY <1>1 DEF NoSignalDropped
  <2>1. x[1] \in Sems /\ x[2] \in Nat
    BY <1>t, MonitorConstants DEF TypeOK
  <2>2. ~Reached(x[1], x[2]) /\ ~(r.sem = x[1] /\ r.value = x[2])
    BY <2>1, <1>3 DEF Reached
  <2>3. InHand(x[1], x[2])
    BY <2>2, <1>t DEF NoSignalDropped
  <2> QED
    BY <2>2, <2>3, <1>1 DEF InHand
<1> QED
  BY <1>6, <1>7, <1>8 DEF DisciplinedInv

LEMMA NextPlaces ==
    ASSUME DisciplinedInv, IInv', AwaitsBeforeSwitch, [Next]_vars
    PROVE  DisciplinedInv'
<1>t. IInv /\ TypeOK /\ MonitorInv /\ TargetInv
  BY DEF DisciplinedInv, IInv
<1>1. CASE UNCHANGED vars
  BY <1>1, QuietInv DEF vars, mapVars, monVars, thrVars, appVars, histVars, AtHand
<1>2. ASSUME NEW t \in Threads, NEW s \in Swapchains, CreateSwapchain(t, s)
      PROVE  DisciplinedInv'
  BY <1>2, <1>t, QuietInv DEF CreateSwapchain, monVars, thrVars, histVars, AtHand, TypeOK
<1>3. ASSUME NEW t \in Threads, NEW on \in BOOLEAN, NotifyCreate(t, on)
      PROVE  DisciplinedInv'
  <2>1. target[t] \in Swapchains \ monitors /\ mpc[target[t]] = "absent"
    BY <1>3, <1>t DEF NotifyCreate, TargetInv, MonitorInv, TypeOK
  <2> QED
    BY <1>3, <1>t, <2>1, QuietInv DEF NotifyCreate, Return, histVars, AtHand, TypeOK
<1>4. ASSUME NEW t \in Threads, NEW s \in Swapchains, NotifyDestroy(t, s)
      PROVE  DisciplinedInv'
  BY <1>4, <1>t, QuietInv DEF NotifyDestroy, monVars, thrVars, histVars, AtHand, TypeOK
<1>5. ASSUME NEW t \in Threads, Joined(t)
      PROVE  DisciplinedInv'
  <2>1. /\ target[t] \in Swapchains /\ mpc[target[t]] = "exited" /\ pending[target[t]] = <<>>
    BY <1>5, <1>t DEF Joined, TargetInv, MonitorInv, TypeOK
  <2>2. pending' = pending
    BY <1>5, <1>t, <2>1 DEF Joined, TypeOK
  <2> QED
    BY <1>5, <1>t, <2>1, <2>2, QuietInv DEF Joined, AtHand, TypeOK
<1>6. ASSUME NEW t \in Threads, DriverDestroy(t)
      PROVE  DisciplinedInv'
  BY <1>6, <1>t, QuietInv DEF DriverDestroy, Return, monVars, thrVars, histVars, AtHand, TypeOK
<1>7. ASSUME NEW t \in Threads, NEW s \in Swapchains, NEW on \in BOOLEAN, SleepMode(t, s, on)
      PROVE  DisciplinedInv'
  BY <1>7, QuietInv DEF SleepMode, mapVars, thrVars, appVars, histVars, AtHand
<1>8. ASSUME NEW t \in Threads, NEW s \in Swapchains, NEW w \in Work, Present(t, s, w)
      PROVE  DisciplinedInv'
  BY <1>8, QuietInv DEF Present, mapVars, thrVars, appVars, AtHand
<1>9. ASSUME NEW w \in Work, GpuDone(w)
      PROVE  DisciplinedInv'
  BY <1>9, QuietInv DEF GpuDone, mapVars, monVars, thrVars, appVars, histVars, AtHand
<1>10. ASSUME NEW s \in Swapchains, Awaited(s)
       PROVE  DisciplinedInv'
  BY <1>10, <1>t, QuietInv DEF Awaited, MonitorUnchanged, mapVars, appVars, histVars, AtHand, TypeOK
<1>11. ASSUME NEW s \in Swapchains, Exit(s)
       PROVE  DisciplinedInv'
  BY <1>11, <1>t, QuietInv DEF Exit, MonitorUnchanged, mapVars, appVars, histVars, AtHand, TypeOK
<1>12. ASSUME NEW t \in Threads, AppCall(t) PROVE DisciplinedInv'
  BY <1>12, <1>2, <1>4, <1>7, <1>8, SleepQueuedPlaces, SleepDirectPlaces DEF AppCall
<1>13. ASSUME NEW t \in Threads, Finish(t) PROVE DisciplinedInv'
  BY <1>13, <1>3, <1>5, <1>6, DirectSignalPlaces DEF Finish
<1>14. ASSUME NEW s \in Swapchains, MonitorStep(s) PROVE DisciplinedInv'
  BY <1>14, <1>10, <1>11, TakePlaces, CheckPlaces, SignalPlaces DEF MonitorStep
<1> QED
  BY <1>1, <1>9, <1>12, <1>13, <1>14 DEF Next

-----------------------------------------------------------------------------
(* The theorems, for any application.                                      *)

\* The inductive invariant holds in every reachable state.
THEOREM Invariance == Spec => []IInv
BY InitInv, NextInv, PTL DEF Spec

\* The variables have their types.
THEOREM TypeCorrect == Spec => []TypeOK
<1>1. IInv => TypeOK
  BY DEF IInv
<1> QED
  BY <1>1, Invariance, PTL

\* A monitor's thread runs only while the driver has its swapchain, and a handle that
\* is used again finds no monitor.
THEOREM ThreadsOutliveNothing == Spec => []MonitorsLiveSwapchain
<1>1. IInv => MonitorsLiveSwapchain
  BY DEF IInv, MonitorInv, TargetInv, MonitorsLiveSwapchain, TypeOK
<1> QED
  BY <1>1, Invariance, PTL

\* A monitor that is not stopping raises a semaphore only after the frame presented
\* before the request, and requests and frames are matched whatever is in flight.
THEOREM SignalsFollowFrames == Spec => SignalFollowsFrame
<1>1. IInv /\ [Next]_vars =>
        [\A s \in Swapchains : Signal(s) /\ ~stop[s] => mhand[s].after \in done \cup {NoWork}]_vars
  <2> SUFFICES ASSUME IInv, NEW s \in Swapchains, Signal(s), ~stop[s]
               PROVE  mhand[s].after \in done \cup {NoWork}
    OBVIOUS
  <2>1. Covered(s, mhand[s].after, 0) /\ mpc[s] = "signalling"
    BY DEF IInv, FrameInv, Ordered, AtHand, Signal
  <2> QED
    BY <2>1 DEF Covered
<1> QED
  BY <1>1, Invariance, PTL DEF Spec, SignalFollowsFrame

-----------------------------------------------------------------------------
(* The theorems, for an application that waits for its semaphore before    *)
(* the layer signals it from somewhere else.                               *)

\* The inductive invariant of such an application.
THEOREM DisciplinedInvariance ==
    ASSUME AwaitsBeforeSwitch
    PROVE  Spec => []DisciplinedInv
<1>1. Init => DisciplinedInv
  <2> SUFFICES ASSUME Init PROVE DisciplinedInv
    OBVIOUS
  <2>1. IInv
    BY InitInv
  <2> QED
    BY <2>1 DEF Init, DisciplinedInv, PlaceInv, AtHand, FreshSignal, NoSignalDropped
<1>2. DisciplinedInv /\ IInv' /\ [Next]_vars => DisciplinedInv'
  BY NextPlaces
<1> QED
  BY <1>1, <1>2, Invariance, PTL DEF Spec

\* No request is dropped: one the semaphore has not reached is queued in a monitor or
\* in the hand of a thread.
THEOREM RequestsAreKept ==
    ASSUME AwaitsBeforeSwitch
    PROVE  Spec => []NoSignalDropped
<1>1. DisciplinedInv => NoSignalDropped
  BY DEF DisciplinedInv
<1> QED
  BY <1>1, DisciplinedInvariance, PTL

\* A thread that has checked the counter signals a value still above it, however many
\* monitors and threads signal at once.
THEOREM SignalsAreFresh ==
    ASSUME AwaitsBeforeSwitch
    PROVE  Spec => []FreshSignal
<1>1. DisciplinedInv => FreshSignal
  BY DEF DisciplinedInv
<1> QED
  BY <1>1, DisciplinedInvariance, PTL

\* A step of the model is, for the caller of vkLatencySleepNV, a request, a semaphore
\* raised to a value that was requested, or nothing.
LEMMA StepRefines ==
    ASSUME DisciplinedInv, [Next]_vars
    PROVE  [LS!LNext]_(LS!lvars)
<1>t. IInv /\ TypeOK /\ MonitorInv /\ TargetInv /\ PlaceInv /\ FreshSignal
  BY DEF DisciplinedInv, IInv
<1>1. ASSUME NEW r \in Signals, NEW p, Placed(r, p), ~Reached(r.sem, r.value),
             counter' = [counter EXCEPT ![r.sem] = r.value], requested' = requested
      PROVE  LS!LNext
  <2>1. r.sem \in Sems /\ r.value \in Values
    BY <1>1 DEF Signals
  <2>2. r.value > counter[r.sem]
    <3>1. r.value \in Nat /\ counter[r.sem] \in Nat
      BY <2>1, <1>t, MonitorConstants DEF TypeOK
    <3> QED
      BY <1>1, <3>1 DEF Reached
  <2>3. LS!Raise(r.sem, r.value)
    BY <1>1, <2>2 DEF LS!Raise, Placed
  <2> QED
    BY <2>1, <2>3 DEF LS!LNext
<1>2. ASSUME NEW s \in Swapchains, Signal(s)
      PROVE  LS!LNext
  <2>1. mhand[s] \in Signals /\ Placed(mhand[s], s) /\ ~Reached(mhand[s].sem, mhand[s].value)
    BY <1>2, <1>t DEF Signal, MonitorInv, PlaceInv, FreshSignal, AtHand
  <2> QED
    BY <1>1, <1>2, <2>1 DEF Signal, MonitorUnchanged, histVars
<1>3. ASSUME NEW t \in Threads, DirectSignal(t)
      PROVE  LS!LNext
  <2>1. hand[t] \in Signals /\ Placed(hand[t], Direct) /\ ~Reached(hand[t].sem, hand[t].value)
    BY <1>3, <1>t DEF DirectSignal, TargetInv, PlaceInv, FreshSignal
  <2> QED
    BY <1>1, <1>3, <2>1 DEF DirectSignal, histVars
<1>4. ASSUME NEW t \in Threads, NEW s \in Swapchains, NEW m \in Sems, NEW v \in Values,
             SleepQueued(t, s, m, v) \/ SleepDirect(t, s, m, v)
      PROVE  LS!LNext
  <2>1. LS!Request(m, v)
    BY <1>4 DEF SleepQueued, SleepDirect, Requested, LS!Request
  <2> QED
    BY <2>1 DEF LS!LNext
<1>5. ASSUME NEW t \in Threads, AppCall(t)
      PROVE  [LS!LNext]_(LS!lvars)
  BY <1>4, <1>5 DEF AppCall, CreateSwapchain, NotifyDestroy, SleepMode, Present, histVars, LS!lvars
<1>6. ASSUME NEW t \in Threads, Finish(t)
      PROVE  [LS!LNext]_(LS!lvars)
  BY <1>3, <1>6 DEF Finish, NotifyCreate, Joined, DriverDestroy, histVars, LS!lvars
<1>7. ASSUME NEW s \in Swapchains, MonitorStep(s)
      PROVE  [LS!LNext]_(LS!lvars)
  BY <1>2, <1>7 DEF MonitorStep, Take, Awaited, Check, Exit, MonitorUnchanged, histVars, LS!lvars
<1>8. ASSUME NEW w \in Work, GpuDone(w)
      PROVE  [LS!LNext]_(LS!lvars)
  BY <1>8 DEF GpuDone, histVars, LS!lvars
<1>9. UNCHANGED vars => UNCHANGED LS!lvars
  BY DEF vars, histVars, LS!lvars
<1> QED
  BY <1>5, <1>6, <1>7, <1>8, <1>9 DEF Next

\* The device implements the safety part of what vkLatencySleepNV promises: a semaphore
\* only rises, and only to a value that was requested for it.
THEOREM ImplementsLatencySleep ==
    ASSUME AwaitsBeforeSwitch
    PROVE  Spec => LS!LSpec
<1>1. Init => LS!LInit
  BY DEF Init, LS!LInit
<1>2. DisciplinedInv /\ [Next]_vars => [LS!LNext]_(LS!lvars)
  BY StepRefines
<1> QED
  BY <1>1, <1>2, DisciplinedInvariance, PTL DEF Spec, LS!LSpec

===============================================================================
