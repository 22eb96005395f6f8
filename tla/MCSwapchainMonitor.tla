-------------------------- MODULE MCSwapchainMonitor --------------------------
(***************************************************************************)
(* Two application threads and one semaphore whose values repeat, under    *)
(* three loads, all with queues of two: two swapchains at a time with two  *)
(* values; two swapchains with a frame and a value that repeats; and one   *)
(* handle, created again after it was destroyed, with two frames and two   *)
(* values.                                                                 *)
(* Liveness is checked, so there is no symmetry.                           *)
(***************************************************************************)
EXTENDS SwapchainMonitor

CONSTANTS t1, t2, s1, s2, m1, w1, w2

MCThreads == {t1, t2}
MCSwapchains == {s1, s2}
MCSems == {m1}
MCValues == 1..2
MCWork == {w1, w2}
MCLoads ==
    {[swapchains |-> {s1, s2}, frames |-> {},       values |-> {1, 2}, queue |-> 2],
     [swapchains |-> {s1, s2}, frames |-> {w1},     values |-> {1},    queue |-> 2],
     [swapchains |-> {s1},     frames |-> {w1, w2}, values |-> {1, 2}, queue |-> 2]}

\* For the finding.
OneSwapchain == {s1}
OneLoad == {[swapchains |-> {s1}, frames |-> {w1}, values |-> {1, 2}, queue |-> 1]}

=============================================================================
