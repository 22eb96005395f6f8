------------------------------ MODULE MCAntiLag ------------------------------
(***************************************************************************)
(* One thread that drives the frames, two graphics queues, so that a frame *)
(* may have two spans, and a compute queue; two submissions.  The finding  *)
(* is about two swapchains.                                                *)
(***************************************************************************)
EXTENDS AntiLag

CONSTANTS t1, gfx1, gfx2, compute, w1, w2, s1, s2

OneThread == {t1}
MCQueues == {gfx1, gfx2, compute}
MCGraphics == {gfx1, gfx2}
MCWork == {w1, w2}
OneSwapchain == {s1}
MCSwapchains == {s1, s2}

=============================================================================
