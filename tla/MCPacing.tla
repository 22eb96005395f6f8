------------------------------- MODULE MCPacing -------------------------------
(***************************************************************************)
(* A refresh cycle of 3 and caps below and above it, so that a cap can end *)
(* in the middle of a cycle; windows of two samples, so that they fill up. *)
(***************************************************************************)
EXTENDS Pacing

MCTiers == {1, 2}
MCDelays == {0, 4}
MCLayerCaps == {0, 2}
MCRenderTimes == {1, 3}

=============================================================================
