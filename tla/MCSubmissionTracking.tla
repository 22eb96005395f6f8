------------------------- MODULE MCSubmissionTracking -------------------------
(***************************************************************************)
(* Two queues, rings of two ids and three ids in use, so that rings        *)
(* overflow; two threads that present.                                     *)
(***************************************************************************)
EXTENDS SubmissionTracking, TLC

CONSTANTS q1, q2, t1, t2, p1, p2, p3

MCQueues == {q1, q2}
MCThreads == {t1, t2}
MCPresentIds == {p1, p2, p3}

Symmetry == Permutations(MCQueues) \cup Permutations(MCThreads)
            \cup Permutations(MCPresentIds)

=============================================================================
