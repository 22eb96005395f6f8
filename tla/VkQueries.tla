------------------------------ MODULE VkQueries ------------------------------
(***************************************************************************)
(* What Vulkan asks of the owner of a set of timestamp queries, and what   *)
(* it promises in return.  This is the contract TimestampPool works under. *)
(* A query may be reset and its command buffer re-recorded only while the  *)
(* GPU has no claim on it; a ONE_TIME_SUBMIT command buffer is submitted   *)
(* at most once per recording; a query pool is destroyed only when none of *)
(* its queries is pending.                                                 *)
(***************************************************************************)

CONSTANT Slots          \* all (query pool, query index) pairs

VARIABLES gpu,          \* gpu[s]: what Vulkan may be doing with query s
          destroyed     \* the query pools and command buffers were freed

GpuStates == {"blank", "recorded", "pending", "written"}

QInit == /\ gpu = [s \in Slots |-> "blank"]
         /\ destroyed = FALSE

\* Host reset plus re-recording of the command buffers that write query s.
Record(s) == /\ ~destroyed
             /\ gpu[s] # "pending"
             /\ gpu' = [gpu EXCEPT ![s] = "recorded"]
             /\ UNCHANGED destroyed

\* One queue submission that contains the command buffers of the set S.
Submit(S) == /\ ~destroyed
             /\ \A s \in S : gpu[s] = "recorded"
             /\ gpu' = [s \in Slots |-> IF s \in S THEN "pending" ELSE gpu[s]]
             /\ UNCHANGED destroyed

\* The GPU wrote both timestamps of s: the result is available.
Complete(s) == /\ ~destroyed
               /\ gpu[s] = "pending"
               /\ gpu' = [gpu EXCEPT ![s] = "written"]
               /\ UNCHANGED destroyed

Destroy == /\ ~destroyed
           /\ \A s \in Slots : gpu[s] # "pending"
           /\ destroyed' = TRUE
           /\ UNCHANGED gpu

QNext == \/ \E s \in Slots : Record(s) \/ Complete(s)
         \/ \E S \in SUBSET Slots : Submit(S)
         \/ Destroy

qvars == <<gpu, destroyed>>

QSpec == QInit /\ [][QNext]_qvars

=============================================================================
