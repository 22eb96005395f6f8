--------------------------- MODULE MCLatencyMarkers ---------------------------
(***************************************************************************)
(* Two threads, three frames and a ring of two records.                    *)
(***************************************************************************)
EXTENDS LatencyMarkers

CONSTANTS t1, t2

MCThreads == {t1, t2}
MCPresentIds == 1..3

=============================================================================
