---------------------------- MODULE AntiLagProofs ----------------------------
(***************************************************************************)
(* Proofs about AntiLag, for every number of queues and submissions.  All  *)
(* but type correctness is for an application one thread of which drives   *)
(* the frames, as in the run.                                              *)
(***************************************************************************)
EXTENDS AntiLag, FiniteSetTheorems, TLAPS

\* At most one thread calls vkAntiLagUpdateAMD.
OneDriver == \A t, u \in Threads : t = u

-----------------------------------------------------------------------------
(* The inductive invariant.                                                *)

\* Who waits on the condition variable, and what a thread in an update has still to do.
CallInv ==
    /\ Monitor \in waiters <=> mpc = "blocked"
    /\ \A t \in Threads :
         /\ t \in waiters <=> pc[t] = "blocked"
         /\ pc[t] # "collecting" => todo[t] = {}
         /\ pc[t] \in {"idle", "notifying"} => work[t] = {}
         /\ pc[t] = "publishing" => ~workInProgress

\* The frame in progress: the work handed over is pending, or awaited, or complete.
FrameInv ==
    /\ workInProgress => pending # {} \/ mpc \in {"awaiting", "polling", "pacing"}
    /\ pending # {} => /\ pending = {lastWork} /\ workInProgress
                       /\ mpc \notin {"awaiting", "polling", "pacing"}
    /\ mpc = "awaiting" => mwork = lastWork
    /\ mpc \in {"awaiting", "polling", "pacing"} => workInProgress
    /\ mpc \in {"polling", "pacing"} \/ ~workInProgress => lastWork \subseteq done

\* A submission is in one place, and None only stands for no submission.
PlaceInv ==
    /\ \A q \in Queues : storing[q] # None => storing[q] \in submitted
    /\ \A q \in Queues : span[q] # None => span[q] \in submitted
    /\ \A t \in Threads : work[t] \subseteq submitted
    /\ \A q, r \in Queues : /\ q # r /\ span[q] # None => span[q] # span[r]
                            /\ q # r /\ storing[q] # None => storing[q] # storing[r]
                            /\ storing[q] # None => storing[q] # span[r]
    /\ \A q \in Queues, t \in Threads : span[q] \notin work[t] /\ storing[q] \notin work[t]

IInv == TypeOK /\ CallInv /\ FrameInv /\ NoLostWakeup /\ PlaceInv

-----------------------------------------------------------------------------
(* Types, for any application.                                             *)

LEMMA TypeStep == TypeOK /\ [Next]_vars => TypeOK'
<1> SUFFICES ASSUME TypeOK, [Next]_vars PROVE TypeOK'
  OBVIOUS
<1>1. ASSUME NEW q \in Queues, NEW w \in Work, Submit(q, w) PROVE TypeOK'
  BY <1>1 DEF TypeOK, Submit, deviceVars, swapVars, callVars, sharedVars, monitorVars
<1>2. ASSUME NEW q \in Queues, Store(q) PROVE TypeOK'
  BY <1>2 DEF TypeOK, Store, deviceVars, swapVars, gpuVars, callVars, sharedVars,
        monitorVars
<1>3. ASSUME NEW w \in Work, GpuDone(w) PROVE TypeOK'
  BY <1>3 DEF TypeOK, GpuDone, deviceVars, swapVars, queueVars, callVars, sharedVars,
        monitorVars
<1>4. ASSUME NEW t \in Threads, NEW on \in BOOLEAN, UpdateMode(t, on) PROVE TypeOK'
  BY <1>4 DEF TypeOK, UpdateMode, queueVars, callVars, sharedVars, UpdateUnchanged,
        swapVars, gpuVars, monitorVars
<1>5. ASSUME NEW t \in Threads, UpdatePresent(t) PROVE TypeOK'
  BY <1>5 DEF TypeOK, UpdatePresent, queueVars, callVars, sharedVars, UpdateUnchanged,
        swapVars, gpuVars, monitorVars
<1>6. ASSUME NEW t \in Threads, UpdateInput(t) PROVE TypeOK'
  BY <1>6 DEF TypeOK, UpdateInput, queueVars, sharedVars, UpdateUnchanged, swapVars,
        gpuVars, monitorVars
<1>7. ASSUME NEW t \in Threads, NEW q \in Queues, Collect(t, q) PROVE TypeOK'
  BY <1>7 DEF TypeOK, Collect, Taken, deviceVars, sharedVars, UpdateUnchanged, swapVars,
        gpuVars, monitorVars
<1>8. ASSUME NEW t \in Threads, Gate(t) PROVE TypeOK'
  BY <1>8 DEF TypeOK, Gate, Busy, deviceVars, queueVars, UpdateUnchanged, swapVars,
        gpuVars, monitorVars
<1>9. ASSUME NEW t \in Threads, Publish(t) PROVE TypeOK'
  <2>0. pending' = {work[t]} /\ work[t] \in SUBSET Work
    BY <1>9 DEF TypeOK, Publish
  <2>1. pending' \subseteq SUBSET Work /\ Cardinality(pending') <= 1
    <3>1. Cardinality({work[t]}) = 1
      BY FS_Singleton
    <3> QED
      BY <2>0, <3>1
  <2>2. /\ pc' \in [Threads -> {"idle", "collecting", "testing", "blocked", "publishing",
                                "notifying"}]
        /\ work' \in [Threads -> SUBSET Work] /\ lastWork' \subseteq Work
    BY <1>9 DEF TypeOK, Publish
  <2> QED
    BY <1>9, <2>1, <2>2 DEF TypeOK, Publish, UpdateUnchanged, deviceVars, queueVars, swapVars,
                            gpuVars, monitorVars
<1>10. ASSUME NEW t \in Threads, NotifyOne(t) PROVE TypeOK'
  BY <1>10 DEF TypeOK, NotifyOne, Woken, deviceVars, swapVars, queueVars, gpuVars
<1>11. CASE MonitorTest
  <2>1. Cardinality({}) = 0
    BY FS_EmptySet
  <2>2. /\ pending' \subseteq SUBSET Work /\ Cardinality(pending') <= 1
        /\ mwork' \subseteq Work /\ waiters' \subseteq Threads \cup {Monitor}
    <3>1. pending' \in {{}, pending} /\ waiters' \in {waiters, waiters \cup {Monitor}}
          /\ mwork' \in {mwork, UNION pending}
      BY <1>11 DEF MonitorTest
    <3>2. UNION pending \subseteq Work
      BY DEF TypeOK
    <3>3. Cardinality(pending') <= 1
      <4>1. CASE pending' = {}
        BY <2>1, <4>1
      <4>2. CASE pending' = pending
        BY <4>2 DEF TypeOK
      <4> QED
        BY <3>1, <4>1, <4>2
    <3>4. pending' \subseteq SUBSET Work
      BY <3>1 DEF TypeOK
    <3>5. mwork' \subseteq Work /\ waiters' \subseteq Threads \cup {Monitor}
      BY <3>1, <3>2 DEF TypeOK
    <3> QED
      BY <3>3, <3>4, <3>5
  <2>3. mpc' \in {"awaiting", "exited", "blocked"}
    BY <1>11 DEF MonitorTest
  <2> QED
    BY <1>11, <2>2, <2>3 DEF TypeOK, MonitorTest, MonitorUnchanged, deviceVars, swapVars,
                             queueVars, gpuVars
<1>12. CASE MonitorAwaited
  BY <1>12 DEF TypeOK, MonitorAwaited, Finished, sharedVars, MonitorUnchanged, deviceVars,
        swapVars, queueVars, gpuVars
<1>13. CASE MonitorPolled
  BY <1>13 DEF TypeOK, MonitorPolled, sharedVars, MonitorUnchanged, deviceVars, swapVars,
        queueVars, gpuVars
<1>14. CASE MonitorFinish
  BY <1>14 DEF TypeOK, MonitorFinish, MonitorUnchanged, deviceVars, swapVars, queueVars,
        gpuVars
<1>15. CASE MonitorNotifyAll
  BY <1>15 DEF TypeOK, MonitorNotifyAll, MonitorUnchanged, deviceVars, swapVars,
        queueVars, gpuVars
<1>16. ASSUME NEW s \in Swapchains, CreateSwapchain(s) PROVE TypeOK'
  BY <1>16 DEF TypeOK, CreateSwapchain, SwapUnchanged, deviceVars, queueVars, gpuVars,
        callVars, sharedVars, monitorVars
<1>17. ASSUME NEW s \in Swapchains, NotifyDestroy(s) PROVE TypeOK'
  BY <1>17 DEF TypeOK, NotifyDestroy, SwapUnchanged, deviceVars, queueVars, gpuVars,
        callVars, sharedVars, monitorVars
<1>18. ASSUME NEW s \in Swapchains, DriverDestroy(s) PROVE TypeOK'
  BY <1>18 DEF TypeOK, DriverDestroy, SwapUnchanged, deviceVars, queueVars, gpuVars,
        callVars, sharedVars, monitorVars
<1>19. CASE Stop
  BY <1>19 DEF TypeOK, Stop, Woken, deviceVars, swapVars, queueVars, gpuVars, callVars
<1>20. CASE UNCHANGED vars
  BY <1>20 DEF TypeOK, vars, callVars, deviceVars, gpuVars, monitorVars, queueVars,
        sharedVars, swapVars
<1> QED
  BY <1>1, <1>2, <1>3, <1>4, <1>5, <1>6, <1>7, <1>8, <1>9, <1>10, <1>11, <1>12, <1>13,
        <1>14, <1>15, <1>16, <1>17, <1>18, <1>19, <1>20 DEF Next, Call, Proceed,
        MonitorStep, Terminated

-----------------------------------------------------------------------------
(* The inductive step, action by action.                                   *)

LEMMA InitInv == Init => IInv
<1> SUFFICES ASSUME Init PROVE IInv
  OBVIOUS
<1>1. TypeOK
  <2>1. Cardinality({}) = 0
    BY FS_EmptySet
  <2>2. pending \subseteq SUBSET Work /\ Cardinality(pending) <= 1
    BY <2>1 DEF Init
  <2>3. waiters \subseteq Threads \cup {Monitor}
    BY DEF Init
  <2> QED
    BY <2>2, <2>3 DEF Init, TypeOK
<1>2. CallInv /\ FrameInv /\ NoLostWakeup /\ PlaceInv
  BY AntiLagConstants DEF Init, CallInv, FrameInv, NoLostWakeup, PlaceInv
<1> QED
  BY <1>1, <1>2 DEF IInv

LEMMA SubmitInv ==
    ASSUME IInv, OneDriver, TypeOK', NEW q \in Queues, NEW w \in Work, Submit(q, w)
    PROVE  IInv'
<1>t. TypeOK /\ CallInv /\ FrameInv /\ NoLostWakeup /\ PlaceInv
  BY DEF IInv
<1>1. CallInv'
  BY <1>t, AntiLagConstants DEF CallInv, TypeOK, OneDriver, Submit, deviceVars, swapVars,
        callVars, sharedVars, monitorVars
<1>2. FrameInv'
  BY <1>t, AntiLagConstants DEF FrameInv, CallInv, TypeOK, OneDriver, Submit, deviceVars,
        swapVars, callVars, sharedVars, monitorVars
<1>3. NoLostWakeup'
  BY <1>t, AntiLagConstants DEF NoLostWakeup, CallInv, FrameInv, TypeOK, OneDriver,
        Submit, deviceVars, swapVars, callVars, sharedVars, monitorVars
<1>4. PlaceInv'
  BY <1>t, AntiLagConstants DEF PlaceInv, TypeOK, OneDriver, Submit, deviceVars, swapVars,
        callVars, sharedVars, monitorVars
<1> QED
  BY <1>1, <1>2, <1>3, <1>4 DEF IInv

LEMMA StoreInv ==
    ASSUME IInv, OneDriver, TypeOK', NEW q \in Queues, Store(q)
    PROVE  IInv'
<1>t. TypeOK /\ CallInv /\ FrameInv /\ NoLostWakeup /\ PlaceInv
  BY DEF IInv
<1>1. CallInv'
  BY <1>t, AntiLagConstants DEF CallInv, TypeOK, OneDriver, Store, deviceVars, swapVars,
        gpuVars, callVars, sharedVars, monitorVars
<1>2. FrameInv'
  BY <1>t, AntiLagConstants DEF FrameInv, CallInv, TypeOK, OneDriver, Store, deviceVars,
        swapVars, gpuVars, callVars, sharedVars, monitorVars
<1>3. NoLostWakeup'
  BY <1>t, AntiLagConstants DEF NoLostWakeup, CallInv, FrameInv, TypeOK, OneDriver, Store,
        deviceVars, swapVars, gpuVars, callVars, sharedVars, monitorVars
<1>4. PlaceInv'
  BY <1>t, AntiLagConstants DEF PlaceInv, TypeOK, OneDriver, Store, deviceVars, swapVars,
        gpuVars, callVars, sharedVars, monitorVars
<1> QED
  BY <1>1, <1>2, <1>3, <1>4 DEF IInv

LEMMA GpuDoneInv ==
    ASSUME IInv, OneDriver, TypeOK', NEW w \in Work, GpuDone(w)
    PROVE  IInv'
<1>t. TypeOK /\ CallInv /\ FrameInv /\ NoLostWakeup /\ PlaceInv
  BY DEF IInv
<1>1. CallInv'
  BY <1>t, AntiLagConstants DEF CallInv, TypeOK, OneDriver, GpuDone, deviceVars, swapVars,
        queueVars, callVars, sharedVars, monitorVars
<1>2. FrameInv'
  BY <1>t, AntiLagConstants DEF FrameInv, CallInv, TypeOK, OneDriver, GpuDone, deviceVars,
        swapVars, queueVars, callVars, sharedVars, monitorVars
<1>3. NoLostWakeup'
  BY <1>t, AntiLagConstants DEF NoLostWakeup, CallInv, FrameInv, TypeOK, OneDriver,
        GpuDone, deviceVars, swapVars, queueVars, callVars, sharedVars, monitorVars
<1>4. PlaceInv'
  BY <1>t, AntiLagConstants DEF PlaceInv, TypeOK, OneDriver, GpuDone, deviceVars,
        swapVars, queueVars, callVars, sharedVars, monitorVars
<1> QED
  BY <1>1, <1>2, <1>3, <1>4 DEF IInv

LEMMA UpdateModeInv ==
    ASSUME IInv, OneDriver, TypeOK', NEW t \in Threads, NEW on \in BOOLEAN, UpdateMode(t, on)
    PROVE  IInv'
<1>t. TypeOK /\ CallInv /\ FrameInv /\ NoLostWakeup /\ PlaceInv
  BY DEF IInv
<1>1. CallInv'
  BY <1>t, AntiLagConstants DEF CallInv, TypeOK, OneDriver, UpdateMode, queueVars,
        callVars, sharedVars, UpdateUnchanged, swapVars, gpuVars, monitorVars
<1>2. FrameInv'
  BY <1>t, AntiLagConstants DEF FrameInv, CallInv, TypeOK, OneDriver, UpdateMode,
        queueVars, callVars, sharedVars, UpdateUnchanged, swapVars, gpuVars, monitorVars
<1>3. NoLostWakeup'
  BY <1>t, AntiLagConstants DEF NoLostWakeup, CallInv, FrameInv, TypeOK, OneDriver,
        UpdateMode, queueVars, callVars, sharedVars, UpdateUnchanged, swapVars, gpuVars,
        monitorVars
<1>4. PlaceInv'
  BY <1>t, AntiLagConstants DEF PlaceInv, TypeOK, OneDriver, UpdateMode, queueVars,
        callVars, sharedVars, UpdateUnchanged, swapVars, gpuVars, monitorVars
<1> QED
  BY <1>1, <1>2, <1>3, <1>4 DEF IInv

LEMMA UpdatePresentInv ==
    ASSUME IInv, OneDriver, TypeOK', NEW t \in Threads, UpdatePresent(t)
    PROVE  IInv'
<1>t. TypeOK /\ CallInv /\ FrameInv /\ NoLostWakeup /\ PlaceInv
  BY DEF IInv
<1>1. CallInv'
  BY <1>t, AntiLagConstants DEF CallInv, TypeOK, OneDriver, UpdatePresent, queueVars,
        callVars, sharedVars, UpdateUnchanged, swapVars, gpuVars, monitorVars
<1>2. FrameInv'
  BY <1>t, AntiLagConstants DEF FrameInv, CallInv, TypeOK, OneDriver, UpdatePresent,
        queueVars, callVars, sharedVars, UpdateUnchanged, swapVars, gpuVars, monitorVars
<1>3. NoLostWakeup'
  BY <1>t, AntiLagConstants DEF NoLostWakeup, CallInv, FrameInv, TypeOK, OneDriver,
        UpdatePresent, queueVars, callVars, sharedVars, UpdateUnchanged, swapVars,
        gpuVars, monitorVars
<1>4. PlaceInv'
  BY <1>t, AntiLagConstants DEF PlaceInv, TypeOK, OneDriver, UpdatePresent, queueVars,
        callVars, sharedVars, UpdateUnchanged, swapVars, gpuVars, monitorVars
<1> QED
  BY <1>1, <1>2, <1>3, <1>4 DEF IInv

LEMMA UpdateInputInv ==
    ASSUME IInv, OneDriver, TypeOK', NEW t \in Threads, UpdateInput(t)
    PROVE  IInv'
<1>t. TypeOK /\ CallInv /\ FrameInv /\ NoLostWakeup /\ PlaceInv
  BY DEF IInv
<1>1. CallInv'
  BY <1>t, AntiLagConstants DEF CallInv, TypeOK, OneDriver, UpdateInput, queueVars,
        sharedVars, UpdateUnchanged, swapVars, gpuVars, monitorVars
<1>2. FrameInv'
  BY <1>t, AntiLagConstants DEF FrameInv, CallInv, TypeOK, OneDriver, UpdateInput,
        queueVars, sharedVars, UpdateUnchanged, swapVars, gpuVars, monitorVars
<1>3. NoLostWakeup'
  BY <1>t, AntiLagConstants DEF NoLostWakeup, CallInv, FrameInv, TypeOK, OneDriver,
        UpdateInput, queueVars, sharedVars, UpdateUnchanged, swapVars, gpuVars,
        monitorVars
<1>4. PlaceInv'
  BY <1>t, AntiLagConstants DEF PlaceInv, TypeOK, OneDriver, UpdateInput, queueVars,
        sharedVars, UpdateUnchanged, swapVars, gpuVars, monitorVars
<1> QED
  BY <1>1, <1>2, <1>3, <1>4 DEF IInv

LEMMA CollectInv ==
    ASSUME IInv, OneDriver, TypeOK', NEW t \in Threads, NEW q \in Queues, Collect(t, q)
    PROVE  IInv'
<1>t. TypeOK /\ CallInv /\ FrameInv /\ NoLostWakeup /\ PlaceInv
  BY DEF IInv
<1>1. CallInv'
  BY <1>t, AntiLagConstants DEF CallInv, TypeOK, OneDriver, Collect, Taken, deviceVars,
        sharedVars, UpdateUnchanged, swapVars, gpuVars, monitorVars
<1>2. FrameInv'
  BY <1>t, AntiLagConstants DEF FrameInv, CallInv, TypeOK, OneDriver, Collect, Taken,
        deviceVars, sharedVars, UpdateUnchanged, swapVars, gpuVars, monitorVars
<1>3. NoLostWakeup'
  BY <1>t, AntiLagConstants DEF NoLostWakeup, CallInv, FrameInv, TypeOK, OneDriver,
        Collect, Taken, deviceVars, sharedVars, UpdateUnchanged, swapVars, gpuVars,
        monitorVars
<1>4. PlaceInv'
  BY <1>t, AntiLagConstants DEF PlaceInv, TypeOK, OneDriver, Collect, Taken, deviceVars,
        sharedVars, UpdateUnchanged, swapVars, gpuVars, monitorVars
<1> QED
  BY <1>1, <1>2, <1>3, <1>4 DEF IInv

LEMMA GateInv ==
    ASSUME IInv, OneDriver, TypeOK', NEW t \in Threads, Gate(t)
    PROVE  IInv'
<1>t. TypeOK /\ CallInv /\ FrameInv /\ NoLostWakeup /\ PlaceInv
  BY DEF IInv
<1>1. CallInv'
  BY <1>t, AntiLagConstants DEF CallInv, TypeOK, OneDriver, Gate, Busy, deviceVars,
        queueVars, UpdateUnchanged, swapVars, gpuVars, monitorVars
<1>2. FrameInv'
  BY <1>t, AntiLagConstants DEF FrameInv, CallInv, TypeOK, OneDriver, Gate, Busy,
        deviceVars, queueVars, UpdateUnchanged, swapVars, gpuVars, monitorVars
<1>3. NoLostWakeup'
  BY <1>t, AntiLagConstants DEF NoLostWakeup, CallInv, FrameInv, TypeOK, OneDriver, Gate,
        Busy, deviceVars, queueVars, UpdateUnchanged, swapVars, gpuVars, monitorVars
<1>4. PlaceInv'
  BY <1>t, AntiLagConstants DEF PlaceInv, TypeOK, OneDriver, Gate, Busy, deviceVars,
        queueVars, UpdateUnchanged, swapVars, gpuVars, monitorVars
<1> QED
  BY <1>1, <1>2, <1>3, <1>4 DEF IInv

LEMMA PublishInv ==
    ASSUME IInv, OneDriver, TypeOK', NEW t \in Threads, Publish(t)
    PROVE  IInv'
<1>t. TypeOK /\ CallInv /\ FrameInv /\ NoLostWakeup /\ PlaceInv
  BY DEF IInv
<1>1. CallInv'
  BY <1>t, AntiLagConstants DEF CallInv, TypeOK, OneDriver, Publish, deviceVars,
        queueVars, UpdateUnchanged, swapVars, gpuVars, monitorVars
<1>2. FrameInv'
  BY <1>t, AntiLagConstants DEF FrameInv, CallInv, TypeOK, OneDriver, Publish, deviceVars,
        queueVars, UpdateUnchanged, swapVars, gpuVars, monitorVars
<1>3. NoLostWakeup'
  BY <1>t, AntiLagConstants DEF NoLostWakeup, CallInv, FrameInv, TypeOK, OneDriver,
        Publish, deviceVars, queueVars, UpdateUnchanged, swapVars, gpuVars, monitorVars
<1>4. PlaceInv'
  BY <1>t, AntiLagConstants DEF PlaceInv, TypeOK, OneDriver, Publish, deviceVars,
        queueVars, UpdateUnchanged, swapVars, gpuVars, monitorVars
<1> QED
  BY <1>1, <1>2, <1>3, <1>4 DEF IInv

LEMMA NotifyOneInv ==
    ASSUME IInv, OneDriver, TypeOK', NEW t \in Threads, NotifyOne(t)
    PROVE  IInv'
<1>t. TypeOK /\ CallInv /\ FrameInv /\ NoLostWakeup /\ PlaceInv
  BY DEF IInv
<1>1. CallInv'
  BY <1>t, AntiLagConstants DEF CallInv, TypeOK, OneDriver, NotifyOne, Woken, deviceVars,
        swapVars, queueVars, gpuVars
<1>2. FrameInv'
  BY <1>t, AntiLagConstants DEF FrameInv, CallInv, TypeOK, OneDriver, NotifyOne, Woken,
        deviceVars, swapVars, queueVars, gpuVars
<1>3. NoLostWakeup'
  BY <1>t, AntiLagConstants DEF NoLostWakeup, CallInv, FrameInv, TypeOK, OneDriver,
        NotifyOne, Woken, deviceVars, swapVars, queueVars, gpuVars
<1>4. PlaceInv'
  BY <1>t, AntiLagConstants DEF PlaceInv, TypeOK, OneDriver, NotifyOne, Woken, deviceVars,
        swapVars, queueVars, gpuVars
<1> QED
  BY <1>1, <1>2, <1>3, <1>4 DEF IInv

LEMMA MonitorTestInv ==
    ASSUME IInv, OneDriver, TypeOK', MonitorTest
    PROVE  IInv'
<1>t. TypeOK /\ CallInv /\ FrameInv /\ NoLostWakeup /\ PlaceInv
  BY DEF IInv
<1>1. CallInv'
  BY <1>t, AntiLagConstants DEF CallInv, TypeOK, OneDriver, MonitorTest, Interrupted,
        MonitorUnchanged, deviceVars, swapVars, queueVars, gpuVars
<1>2. FrameInv'
  <2>1. CASE pending # {}
    <3>1. pending = {lastWork} /\ workInProgress
      BY <2>1, <1>t DEF FrameInv
    <3>2. UNION {lastWork} = lastWork
      OBVIOUS
    <3>3. mwork' = lastWork /\ pending' = {} /\ mpc' = "awaiting"
      BY <2>1, <3>1, <3>2 DEF MonitorTest
    <3> QED
      BY <3>1, <3>3 DEF FrameInv, MonitorTest, MonitorUnchanged
  <2>2. CASE pending = {}
    BY <2>2, <1>t DEF FrameInv, MonitorTest, MonitorUnchanged, gpuVars
  <2> QED
    BY <2>1, <2>2
<1>3. NoLostWakeup'
  BY <1>t, AntiLagConstants DEF NoLostWakeup, CallInv, FrameInv, TypeOK, OneDriver,
        MonitorTest, Interrupted, MonitorUnchanged, deviceVars, swapVars, queueVars,
        gpuVars
<1>4. PlaceInv'
  BY <1>t, AntiLagConstants DEF PlaceInv, TypeOK, OneDriver, MonitorTest, Interrupted,
        MonitorUnchanged, deviceVars, swapVars, queueVars, gpuVars
<1> QED
  BY <1>1, <1>2, <1>3, <1>4 DEF IInv

LEMMA MonitorAwaitedInv ==
    ASSUME IInv, OneDriver, TypeOK', MonitorAwaited
    PROVE  IInv'
<1>t. TypeOK /\ CallInv /\ FrameInv /\ NoLostWakeup /\ PlaceInv
  BY DEF IInv
<1>1. CallInv'
  BY <1>t, AntiLagConstants DEF CallInv, TypeOK, OneDriver, MonitorAwaited, Finished,
        sharedVars, MonitorUnchanged, deviceVars, swapVars, queueVars, gpuVars
<1>2. FrameInv'
  BY <1>t, AntiLagConstants DEF FrameInv, CallInv, TypeOK, OneDriver, MonitorAwaited,
        Finished, sharedVars, MonitorUnchanged, deviceVars, swapVars, queueVars, gpuVars
<1>3. NoLostWakeup'
  BY <1>t, AntiLagConstants DEF NoLostWakeup, CallInv, FrameInv, TypeOK, OneDriver,
        MonitorAwaited, Finished, sharedVars, MonitorUnchanged, deviceVars, swapVars,
        queueVars, gpuVars
<1>4. PlaceInv'
  BY <1>t, AntiLagConstants DEF PlaceInv, TypeOK, OneDriver, MonitorAwaited, Finished,
        sharedVars, MonitorUnchanged, deviceVars, swapVars, queueVars, gpuVars
<1> QED
  BY <1>1, <1>2, <1>3, <1>4 DEF IInv

LEMMA MonitorPolledInv ==
    ASSUME IInv, OneDriver, TypeOK', MonitorPolled
    PROVE  IInv'
<1>t. TypeOK /\ CallInv /\ FrameInv /\ NoLostWakeup /\ PlaceInv
  BY DEF IInv
<1>1. CallInv'
  BY <1>t, AntiLagConstants DEF CallInv, TypeOK, OneDriver, MonitorPolled, sharedVars,
        MonitorUnchanged, deviceVars, swapVars, queueVars, gpuVars
<1>2. FrameInv'
  BY <1>t, AntiLagConstants DEF FrameInv, CallInv, TypeOK, OneDriver, MonitorPolled,
        sharedVars, MonitorUnchanged, deviceVars, swapVars, queueVars, gpuVars
<1>3. NoLostWakeup'
  BY <1>t, AntiLagConstants DEF NoLostWakeup, CallInv, FrameInv, TypeOK, OneDriver,
        MonitorPolled, sharedVars, MonitorUnchanged, deviceVars, swapVars, queueVars,
        gpuVars
<1>4. PlaceInv'
  BY <1>t, AntiLagConstants DEF PlaceInv, TypeOK, OneDriver, MonitorPolled, sharedVars,
        MonitorUnchanged, deviceVars, swapVars, queueVars, gpuVars
<1> QED
  BY <1>1, <1>2, <1>3, <1>4 DEF IInv

LEMMA MonitorFinishInv ==
    ASSUME IInv, OneDriver, TypeOK', MonitorFinish
    PROVE  IInv'
<1>t. TypeOK /\ CallInv /\ FrameInv /\ NoLostWakeup /\ PlaceInv
  BY DEF IInv
<1>1. CallInv'
  BY <1>t, AntiLagConstants DEF CallInv, TypeOK, OneDriver, MonitorFinish,
        MonitorUnchanged, deviceVars, swapVars, queueVars, gpuVars
<1>2. FrameInv'
  BY <1>t, AntiLagConstants DEF FrameInv, CallInv, TypeOK, OneDriver, MonitorFinish,
        MonitorUnchanged, deviceVars, swapVars, queueVars, gpuVars
<1>3. NoLostWakeup'
  BY <1>t, AntiLagConstants DEF NoLostWakeup, CallInv, FrameInv, TypeOK, OneDriver,
        MonitorFinish, MonitorUnchanged, deviceVars, swapVars, queueVars, gpuVars
<1>4. PlaceInv'
  BY <1>t, AntiLagConstants DEF PlaceInv, TypeOK, OneDriver, MonitorFinish,
        MonitorUnchanged, deviceVars, swapVars, queueVars, gpuVars
<1> QED
  BY <1>1, <1>2, <1>3, <1>4 DEF IInv

LEMMA MonitorNotifyAllInv ==
    ASSUME IInv, OneDriver, TypeOK', MonitorNotifyAll
    PROVE  IInv'
<1>t. TypeOK /\ CallInv /\ FrameInv /\ NoLostWakeup /\ PlaceInv
  BY DEF IInv
<1>1. CallInv'
  BY <1>t, AntiLagConstants DEF CallInv, TypeOK, OneDriver, MonitorNotifyAll,
        MonitorUnchanged, deviceVars, swapVars, queueVars, gpuVars
<1>2. FrameInv'
  BY <1>t, AntiLagConstants DEF FrameInv, CallInv, TypeOK, OneDriver, MonitorNotifyAll,
        MonitorUnchanged, deviceVars, swapVars, queueVars, gpuVars
<1>3. NoLostWakeup'
  BY <1>t, AntiLagConstants DEF NoLostWakeup, CallInv, FrameInv, TypeOK, OneDriver,
        MonitorNotifyAll, MonitorUnchanged, deviceVars, swapVars, queueVars, gpuVars
<1>4. PlaceInv'
  BY <1>t, AntiLagConstants DEF PlaceInv, TypeOK, OneDriver, MonitorNotifyAll,
        MonitorUnchanged, deviceVars, swapVars, queueVars, gpuVars
<1> QED
  BY <1>1, <1>2, <1>3, <1>4 DEF IInv

LEMMA StopInv ==
    ASSUME IInv, OneDriver, TypeOK', Stop
    PROVE  IInv'
<1>t. TypeOK /\ CallInv /\ FrameInv /\ NoLostWakeup /\ PlaceInv
  BY DEF IInv
<1>1. CallInv'
  BY <1>t, AntiLagConstants DEF CallInv, TypeOK, OneDriver, Stop, Woken, deviceVars,
        swapVars, queueVars, gpuVars, callVars
<1>2. FrameInv'
  BY <1>t, AntiLagConstants DEF FrameInv, CallInv, TypeOK, OneDriver, Stop, Woken,
        deviceVars, swapVars, queueVars, gpuVars, callVars
<1>3. NoLostWakeup'
  BY <1>t, AntiLagConstants DEF NoLostWakeup, CallInv, FrameInv, TypeOK, OneDriver, Stop,
        Woken, deviceVars, swapVars, queueVars, gpuVars, callVars
<1>4. PlaceInv'
  BY <1>t, AntiLagConstants DEF PlaceInv, TypeOK, OneDriver, Stop, Woken, deviceVars,
        swapVars, queueVars, gpuVars, callVars
<1> QED
  BY <1>1, <1>2, <1>3, <1>4 DEF IInv

LEMMA NextInv == OneDriver /\ IInv /\ [Next]_vars => IInv'
<1> SUFFICES ASSUME OneDriver, IInv, [Next]_vars PROVE IInv'
  OBVIOUS
<1>1. TypeOK'
  BY TypeStep DEF IInv
<1>2. CASE UNCHANGED vars
  BY <1>1, <1>2 DEF IInv, CallInv, FrameInv, NoLostWakeup, PlaceInv, vars, queueVars, gpuVars,
                    callVars, sharedVars, monitorVars
<1>3. ASSUME NEW t \in Threads, Call(t) \/ Proceed(t) PROVE IInv'
  BY <1>1, <1>3, UpdateModeInv, UpdatePresentInv, UpdateInputInv, CollectInv, GateInv, PublishInv,
     NotifyOneInv DEF Call, Proceed
<1>4. CASE MonitorStep
  BY <1>1, <1>4, MonitorTestInv, MonitorAwaitedInv, MonitorPolledInv, MonitorFinishInv,
     MonitorNotifyAllInv DEF MonitorStep
<1>5. ASSUME NEW s \in Swapchains, CreateSwapchain(s) \/ NotifyDestroy(s) \/ DriverDestroy(s)
      PROVE  IInv'
  BY <1>1, <1>5 DEF IInv, CallInv, FrameInv, NoLostWakeup, PlaceInv, CreateSwapchain, NotifyDestroy,
       DriverDestroy, SwapUnchanged, queueVars, gpuVars, callVars, sharedVars, monitorVars
<1> QED
  BY <1>1, <1>2, <1>3, <1>4, <1>5, SubmitInv, StoreInv, GpuDoneInv, StopInv DEF Next, Terminated

-----------------------------------------------------------------------------
(* The theorems.                                                           *)

\* The variables have their types, whoever drives the frames.
THEOREM TypeCorrect == Spec => []TypeOK
<1>1. Init => TypeOK
  BY InitInv DEF IInv
<1> QED
  BY <1>1, TypeStep, PTL DEF Spec

\* The inductive invariant.
THEOREM Invariance ==
    ASSUME OneDriver
    PROVE  Spec => []IInv
<1>1. IInv /\ [Next]_vars => IInv'
  BY NextInv
<1> QED
  BY <1>1, InitInv, PTL DEF Spec

\* The queue depth is 1: a frame is handed over only when nothing is pending, the monitor
\* is done with the frame before, and the GPU is done with all of its work.
THEOREM DepthIsOne ==
    ASSUME OneDriver
    PROVE  Spec => []BackPressure
<1>1. IInv => BackPressure
  BY DEF IInv, CallInv, FrameInv, BackPressure
<1> QED
  BY <1>1, Invariance, PTL

\* Work never waits for a monitor that nobody is about to wake, although notify_one may
\* wake any thread that waits on the condition variable.
THEOREM WakeupsArrive ==
    ASSUME OneDriver
    PROVE  Spec => []NoLostWakeup
<1>1. IInv => NoLostWakeup
  BY DEF IInv
<1> QED
  BY <1>1, Invariance, PTL

-----------------------------------------------------------------------------
(* The refinement of FrameContract: what its variables are here.           *)

Past    == submitted \ {storing[q] : q \in Queues}
Tracked == ({span[q] : q \in Queues} \cup UNION {work[t] : t \in Threads}) \ {None}
Due     == (UNION {work[t] \cup {span[q] : q \in todo[t]} : t \in Threads}) \ {None}
Awaited == IF workInProgress THEN lastWork ELSE {}

LEMMA InPast == \A w : w \in Past <=> w \in submitted /\ \A q \in Queues : storing[q] # w
  BY DEF Past

LEMMA InTracked ==
    \A w : w \in Tracked <=> /\ w # None
                             /\ \/ \E q \in Queues : span[q] = w
                                \/ \E t \in Threads : w \in work[t]
  BY DEF Tracked

LEMMA InDue ==
    \A w : w \in Due <=> /\ w # None
                         /\ \E t \in Threads : \/ w \in work[t]
                                               \/ \E q \in todo[t] : span[q] = w
  BY DEF Due

\* The same after a step.
LEMMA InPastNext ==
    \A w : w \in Past' <=> w \in submitted' /\ \A q \in Queues : storing'[q] # w
  BY DEF Past

LEMMA InTrackedNext ==
    \A w : w \in Tracked' <=> /\ w # None
                              /\ \/ \E q \in Queues : span'[q] = w
                                 \/ \E t \in Threads : w \in work'[t]
  BY DEF Tracked

LEMMA InDueNext ==
    \A w : w \in Due' <=> /\ w # None
                          /\ \E t \in Threads : \/ w \in work'[t]
                                                \/ \E q \in todo'[t] : span'[q] = w
  BY DEF Due

FrameUnchanged == UNCHANGED <<Past, Tracked, Due, Awaited, done>>

LEMMA FrameStutters == FrameUnchanged => [FC!FNext]_(FC!fvars)
  BY DEF FrameUnchanged, Past, Tracked, Due, Awaited, FC!fvars

\* A step that leaves the submissions and the frame alone.
LEMMA QuietStep ==
    UNCHANGED <<queueVars, gpuVars, work, todo, workInProgress, lastWork>> => FrameUnchanged
  BY DEF FrameUnchanged, Past, Tracked, Due, Awaited, queueVars, gpuVars

\* A submission the layer has decided to track is decided about when it is stored.
LEMMA SubmitRefines ==
    ASSUME IInv, OneDriver, NEW q \in Queues, NEW w \in Work, Submit(q, w)
    PROVE  FrameUnchanged \/ FC!Pass(w)
<1>t. TypeOK /\ PlaceInv
  BY DEF IInv
<1>1. UNCHANGED <<Tracked, Due, Awaited, done>>
  BY DEF Submit, Tracked, Due, Awaited, callVars, sharedVars
<1>2. w \notin Past /\ w # None
  BY InPast, AntiLagConstants DEF Submit
<1>3. CASE storing' = [storing EXCEPT ![q] = w]
  <2>1. /\ \A r \in Queues : storing'[r] = IF r = q THEN w ELSE storing[r]
        /\ submitted' = submitted \cup {w} /\ storing[q] = None /\ None \notin submitted
        /\ w \notin submitted
    BY <1>3, <1>t, AntiLagConstants DEF TypeOK, Submit
  <2>2. \A v : v \in Past' <=> v \in Past
    BY <2>1, InPast, InPastNext
  <2>3. Past' = Past
    BY <2>2 DEF Past
  <2> QED
    BY <1>1, <2>3 DEF FrameUnchanged
<1>4. CASE storing' = storing
  <2>1. /\ \A r \in Queues : storing'[r] = storing[r] /\ storing[r] # w
        /\ submitted' = submitted \cup {w}
    BY <1>4, <1>2, <1>t DEF PlaceInv, Submit
  <2>2. \A v : v \in Past' <=> v \in Past \cup {w}
    BY <2>1, InPast, InPastNext
  <2>3. Past' = Past \cup {w}
    BY <2>2 DEF Past
  <2> QED
    BY <1>1, <1>2, <2>3 DEF FC!Pass, Past, Tracked, Due, Awaited
<1> QED
  BY <1>3, <1>4 DEF Submit

\* Storing a span is where a tracked submission enters, for the one its queue held.
LEMMA StoreRefines ==
    ASSUME IInv, OneDriver, NEW q \in Queues, Store(q)
    PROVE  FC!Track(storing[q], {span[q]} \ {None})
<1> DEFINE w == storing[q]
           earlier == {span[q]} \ {None}
<1>t. TypeOK /\ PlaceInv
  BY DEF IInv
<1>1. /\ \A r \in Queues : storing'[r] = IF r = q THEN None ELSE storing[r]
      /\ \A r \in Queues : span'[r] = IF r = q THEN storing[q] ELSE span[r]
      /\ w # None /\ w \in submitted /\ UNCHANGED <<submitted, done, work, todo>>
      /\ None \notin submitted
  BY <1>t, AntiLagConstants DEF Store, TypeOK, PlaceInv, gpuVars, callVars
<1>2. \A r \in Queues : r # q => storing[r] # w
  BY <1>1, <1>t DEF PlaceInv
<1>3. w \notin Past
  BY InPast
<1>4. Past' = Past \cup {w}
  <2>1. \A v : v \in Past' <=> v \in Past \cup {w}
    BY <1>1, <1>2, InPast, InPastNext
  <2> QED
    BY <2>1 DEF Past
<1>5. earlier \subseteq Tracked
  BY InTracked
<1>6. span[q] # None => /\ \A r \in Queues : r # q => span[r] # span[q]
                        /\ \A t \in Threads : span[q] \notin work[t]
  BY <1>t DEF PlaceInv
<1>7. Tracked' = (Tracked \ earlier) \cup {w}
  <2>1. \A v : v \in Tracked' <=> v \in (Tracked \ earlier) \cup {w}
    <3> SUFFICES ASSUME NEW v PROVE v \in Tracked' <=> v \in (Tracked \ earlier) \cup {w}
      OBVIOUS
    <3>1. v \in Tracked' <=> /\ v # None
                             /\ \/ v = w
                                \/ \E r \in Queues : r # q /\ span[r] = v
                                \/ \E t \in Threads : v \in work[t]
      BY <1>1, InTrackedNext
    <3>2. v \in Tracked \ earlier <=> /\ v # None
                                      /\ \/ \E r \in Queues : r # q /\ span[r] = v
                                         \/ \E t \in Threads : v \in work[t]
      BY <1>6, InTracked
    <3> QED
      BY <1>1, <3>1, <3>2
  <2> QED
    BY <2>1 DEF Tracked
<1>8. CASE \E t \in Threads : q \in todo[t]
  <2>1. \A v : v \in Due' <=> v \in (Due \ earlier) \cup {w}
    <3> SUFFICES ASSUME NEW v PROVE v \in Due' <=> v \in (Due \ earlier) \cup {w}
      OBVIOUS
    <3>0. \A t \in Threads : todo[t] \subseteq Queues
      BY <1>t DEF TypeOK
    <3>1. v \in Due' <=> /\ v # None
                         /\ \/ v = w
                            \/ \E t \in Threads : \/ v \in work[t]
                                                  \/ \E r \in todo[t] : r # q /\ span[r] = v
      BY <1>1, <1>8, <3>0, InDueNext
    <3>2. v \in Due \ earlier <=>
             /\ v # None
             /\ \E t \in Threads : \/ v \in work[t]
                                   \/ \E r \in todo[t] : r # q /\ span[r] = v
      BY <1>6, <3>0, InDue
    <3> QED
      BY <1>1, <3>1, <3>2
  <2>2. Due' = (Due \ earlier) \cup {w}
    BY <2>1 DEF Due
  <2> QED
    BY <1>1, <1>3, <1>4, <1>5, <1>7, <2>2 DEF FC!Track, Past, Tracked, Due, Awaited, Store,
                                             sharedVars
<1>9. CASE \A t \in Threads : q \notin todo[t]
  <2>0. \A t \in Threads : \A r \in todo[t] : r \in Queues /\ r # q
    BY <1>9, <1>t DEF TypeOK
  <2>1. \A v : v \in Due' <=> v \in Due
    BY <1>1, <2>0, InDue, InDueNext
  <2>2. Due' = Due
    BY <2>1 DEF Due
  <2>3. Due \cap earlier = {}
    BY <1>6, <2>0, InDue
  <2> QED
    BY <1>1, <1>3, <1>4, <1>5, <1>7, <2>2, <2>3 DEF FC!Track, Past, Tracked, Due, Awaited,
                                                   Store, sharedVars
<1> QED
  BY <1>8, <1>9

\* The INPUT stage makes everything tracked due: the driver holds no work yet.
LEMMA InputRefines ==
    ASSUME IInv, OneDriver, NEW t \in Threads, UpdateInput(t)
    PROVE  FC!Input
<1>t. TypeOK /\ CallInv
  BY DEF IInv
<1>1. \A u \in Threads : work[u] = {} /\ todo'[u] = Queues
  BY <1>t DEF TypeOK, CallInv, UpdateInput, OneDriver
<1>2. UNCHANGED <<Past, Tracked, Awaited, done>> /\ UNCHANGED <<span, work>>
  BY DEF UpdateInput, UpdateUnchanged, queueVars, gpuVars, sharedVars, Past, Tracked, Awaited
<1>3. \A v : v \in Due' <=> v \in Tracked
  BY <1>1, <1>2, InTracked, InDueNext
<1>4. Due' = Tracked
  BY <1>3 DEF Due, Tracked
<1> QED
  BY <1>2, <1>4 DEF FC!Input, Past, Tracked, Due, Awaited

\* Collecting moves a submission from its queue to the call, which changes nothing.
LEMMA CollectRefines ==
    ASSUME IInv, OneDriver, NEW t \in Threads, NEW q \in Queues, Collect(t, q)
    PROVE  FrameUnchanged
<1>t. TypeOK
  BY DEF IInv
<1>1. /\ q \in todo[t] /\ \A u \in Threads : u = t
      /\ work'[t] = work[t] \cup ({span[q]} \ {None}) /\ todo'[t] = todo[t] \ {q}
      /\ \A r \in Queues : span'[r] = IF r = q THEN None ELSE span[r]
      /\ todo[t] \subseteq Queues
  BY <1>t DEF TypeOK, Collect, Taken, OneDriver
<1>2. UNCHANGED <<Past, Awaited, done>>
  BY DEF Collect, UpdateUnchanged, gpuVars, sharedVars, Past, Awaited
<1>3. \A v : v \in Tracked' <=> v \in Tracked
  BY <1>1, InTracked, InTrackedNext
<1>4. \A v : v \in Due' <=> v \in Due
  BY <1>1, InDue, InDueNext
<1>5. Tracked' = Tracked /\ Due' = Due
  BY <1>3, <1>4 DEF Tracked, Due
<1> QED
  BY <1>2, <1>5 DEF FrameUnchanged

\* Publishing hands over all that is due, and nothing is awaited then.
LEMMA PublishRefines ==
    ASSUME IInv, OneDriver, NEW t \in Threads, Publish(t)
    PROVE  FC!HandOver
<1>t. TypeOK /\ CallInv /\ PlaceInv
  BY DEF IInv
<1>1. /\ \A u \in Threads : u = t /\ todo[u] = {} /\ UNCHANGED todo
      /\ work'[t] = {} /\ None \notin work[t] /\ UNCHANGED span
  BY <1>t, AntiLagConstants DEF TypeOK, CallInv, Publish, OneDriver, queueVars
<1>2. Awaited = {} /\ Awaited' = work[t]
  BY <1>t DEF CallInv, Publish, Awaited
<1>3. \A v : v \in Due <=> v \in work[t]
  BY <1>1, InDue
<1>4. \A v : v \notin Due'
  BY <1>1, InDueNext
<1>5. \A v : v \in Tracked' <=> v \in Tracked \ work[t]
  BY <1>1, <1>t, InTracked, InTrackedNext DEF PlaceInv
<1>6. Due = work[t] /\ Due' = {} /\ work[t] \subseteq Tracked
  BY <1>1, <1>3, <1>4, InTracked DEF Due
<1>7. Tracked' = Tracked \ work[t]
  BY <1>5 DEF Tracked
<1>8. Past' = Past /\ done' = done
  BY DEF Publish, UpdateUnchanged, queueVars, gpuVars, Past
<1>9. \E W \in SUBSET Tracked : Due \subseteq W /\ Awaited' = W /\ Tracked' = Tracked \ W
  BY <1>2, <1>6, <1>7
<1> QED
  BY <1>2, <1>6, <1>8, <1>9 DEF FC!HandOver, Past, Tracked, Due, Awaited

\* The frame is over when the GPU is done with it.
LEMMA FinishRefines ==
    ASSUME IInv, MonitorFinish
    PROVE  FrameUnchanged \/ FC!Retire
<1>t. FrameInv
  BY DEF IInv
<1>1. Awaited = lastWork /\ Awaited' = {} /\ lastWork \subseteq done
  BY <1>t DEF FrameInv, MonitorFinish, Awaited
<1>2. UNCHANGED <<Past, Tracked, Due, done>>
  BY DEF MonitorFinish, MonitorUnchanged, queueVars, gpuVars, Past, Tracked, Due
<1>3. CASE lastWork = {}
  BY <1>1, <1>2, <1>3 DEF FrameUnchanged
<1>4. CASE lastWork # {}
  BY <1>1, <1>2, <1>4 DEF FC!Retire, Past, Tracked, Due, Awaited
<1> QED
  BY <1>3, <1>4

LEMMA StepRefines ==
    ASSUME IInv, OneDriver, [Next]_vars
    PROVE  [FC!FNext]_(FC!fvars)
<1>1. ASSUME NEW q \in Queues, NEW w \in Work, Submit(q, w) PROVE [FC!FNext]_(FC!fvars)
  BY <1>1, SubmitRefines, FrameStutters DEF FC!FNext
<1>2. ASSUME NEW q \in Queues, Store(q) PROVE [FC!FNext]_(FC!fvars)
  <2>1. storing[q] \in Work /\ span[q] \in Work \cup {None}
    BY <1>2 DEF IInv, TypeOK, Store
  <2>2. FC!Track(storing[q], {span[q]} \ {None})
    BY <1>2, StoreRefines
  <2>3. CASE span[q] = None
    <3>1. {span[q]} \ {None} = {}
      BY <2>3
    <3>2. FC!Track(storing[q], {})
      BY <2>2, <3>1 DEF FC!Track
    <3>3. \E w \in Work : FC!Track(w, {})
      BY <2>1, <3>2
    <3> QED
      BY <3>3 DEF FC!FNext
  <2>4. CASE span[q] # None
    <3>1. {span[q]} \ {None} = {span[q]} /\ span[q] \in Work
      BY <2>1, <2>4
    <3>2. FC!Track(storing[q], {span[q]})
      BY <2>2, <3>1 DEF FC!Track
    <3>3. \E w \in Work, v \in Work : FC!Track(w, {v})
      BY <2>1, <3>1, <3>2 DEF FC!Track
    <3> QED
      BY <3>3 DEF FC!FNext
  <2> QED
    BY <2>3, <2>4
<1>3. ASSUME NEW w \in Work, GpuDone(w) PROVE [FC!FNext]_(FC!fvars)
  <2>1. UNCHANGED <<Past, Tracked, Due, Awaited>> /\ done' = done \cup {w}
    BY <1>3 DEF GpuDone, queueVars, callVars, sharedVars, Past, Tracked, Due, Awaited
  <2>2. FC!Complete(w)
    BY <2>1 DEF FC!Complete, Past, Tracked, Due, Awaited
  <2> QED
    BY <2>2 DEF FC!FNext
<1>4. ASSUME NEW t \in Threads, Call(t) PROVE [FC!FNext]_(FC!fvars)
  <2>1. CASE UpdateInput(t)
    BY <2>1, InputRefines DEF FC!FNext
  <2>2. ASSUME UpdatePresent(t) \/ \E on \in BOOLEAN : UpdateMode(t, on)
        PROVE  FrameUnchanged
    BY <2>2, QuietStep DEF UpdatePresent, UpdateMode, UpdateUnchanged, callVars, sharedVars
  <2> QED
    BY <1>4, <2>1, <2>2, FrameStutters DEF Call
<1>5. ASSUME NEW t \in Threads, Proceed(t) PROVE [FC!FNext]_(FC!fvars)
  <2>1. CASE Publish(t)
    BY <2>1, PublishRefines DEF FC!FNext
  <2>2. CASE \E q \in Queues : Collect(t, q)
    BY <2>2, CollectRefines, FrameStutters
  <2>3. ASSUME Gate(t) \/ NotifyOne(t)
        PROVE  FrameUnchanged
    BY <2>3, QuietStep DEF Gate, NotifyOne, UpdateUnchanged
  <2> QED
    BY <1>5, <2>1, <2>2, <2>3, FrameStutters DEF Proceed
<1>6. CASE MonitorStep
  <2>1. CASE MonitorFinish
    BY <2>1, FinishRefines, FrameStutters DEF FC!FNext
  <2>2. ASSUME MonitorTest \/ MonitorAwaited \/ MonitorPolled \/ MonitorNotifyAll
        PROVE  FrameUnchanged
    BY <2>2, QuietStep DEF MonitorTest, MonitorAwaited, MonitorPolled, MonitorNotifyAll,
                           MonitorUnchanged, sharedVars
  <2> QED
    BY <1>6, <2>1, <2>2, FrameStutters DEF MonitorStep
<1>7. ASSUME NEW s \in Swapchains, CreateSwapchain(s) \/ NotifyDestroy(s) \/ DriverDestroy(s)
      PROVE  FrameUnchanged
  BY <1>7, QuietStep DEF CreateSwapchain, NotifyDestroy, DriverDestroy, SwapUnchanged, callVars,
                         sharedVars
<1>8. CASE Stop \/ UNCHANGED vars
  <2>1. FrameUnchanged
    BY <1>8, QuietStep DEF Stop, vars, callVars, sharedVars
  <2> QED
    BY <2>1, FrameStutters
<1> QED
  BY <1>1, <1>2, <1>3, <1>4, <1>5, <1>6, <1>7, <1>8, FrameStutters DEF Next, Terminated

\* The strategies implement FrameContract, but for its fairness: every tracked submission is
\* handed over by the next INPUT update, waited for once, and never beside another frame.
THEOREM ImplementsFrameContract ==
    ASSUME OneDriver
    PROVE  Spec => FC!FSafety
<1>1. Init => FC!FInit
  <2> SUFFICES ASSUME Init PROVE FC!FInit
    OBVIOUS
  <2>1. \A v : v \notin Past /\ v \notin Tracked /\ v \notin Due
    BY InPast, InTracked, InDue DEF Init
  <2>2. Past = {} /\ Tracked = {} /\ Due = {} /\ Awaited = {} /\ done = {}
    BY <2>1 DEF Init, Awaited
  <2> QED
    BY <2>2 DEF FC!FInit, Past, Tracked, Due, Awaited
<1>2. IInv /\ [Next]_vars => [FC!FNext]_(FC!fvars)
  BY StepRefines
<1> QED
  BY <1>1, <1>2, Invariance, PTL DEF Spec, FC!FSafety

===============================================================================
