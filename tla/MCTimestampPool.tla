--------------------------- MODULE MCTimestampPool ---------------------------
(***************************************************************************)
(* A pool whose chunks have room for two handles, so that three live       *)
(* handles need a second chunk; two submit infos per submission; one       *)
(* thread that owns spans.  Liveness is checked, so there is no symmetry.  *)
(***************************************************************************)
EXTENDS TimestampPool

CONSTANTS c1, c2, h1, h2, h3, monitor

MCChunks == {c1, c2}
MCIndices == {0, 2}
MCHandles == {h1, h2, h3}
MCTrackers == {monitor}

=============================================================================
