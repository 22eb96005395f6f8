--------------------------- MODULE MCLayerContexts ---------------------------
(***************************************************************************)
(* Six addresses: an instance with a physical device and two devices with  *)
(* a queue each, or two instances with a device between them; two objects  *)
(* per address, so that each is used again, by any kind; two threads.      *)
(***************************************************************************)
EXTENDS LayerContexts, TLC

CONSTANTS h1, h2, h3, h4, h5, h6, t1, t2

MCHandles == {h1, h2, h3, h4, h5, h6}
MCThreads == {t1, t2}

\* Addresses and threads are only compared.
Symmetry == Permutations(MCHandles) \cup Permutations(MCThreads)

=============================================================================
