----------------------------- MODULE LatencySleep -----------------------------
(***************************************************************************)
(* What vkLatencySleepNV promises its caller, whatever the layer does with *)
(* the request: the semaphore is eventually signalled with the requested   *)
(* value, it is never signalled with a value nobody asked for, and, as for *)
(* every timeline semaphore, a signal moves its counter strictly upwards.  *)
(***************************************************************************)
EXTENDS Naturals

CONSTANTS Sems, Values

VARIABLES counter,      \* counter[m]: payload of timeline semaphore m
          requested     \* the pairs <<semaphore, value>> slept on so far

Reached(r) == counter[r[1]] >= r[2]

LInit == /\ counter = [m \in Sems |-> 0]
         /\ requested = {}

Request(m, v) == /\ requested' = requested \cup {<<m, v>>}
                 /\ UNCHANGED counter

Raise(m, v) == /\ <<m, v>> \in requested
               /\ v > counter[m]
               /\ counter' = [counter EXCEPT ![m] = v]
               /\ UNCHANGED requested

LNext == \E m \in Sems, v \in Values : Request(m, v) \/ Raise(m, v)

lvars == <<counter, requested>>

LSpec == LInit /\ [][LNext]_lvars

\* No request is forgotten.
Answered == \A r \in Sems \X Values : r \in requested ~> Reached(r)

LFairSpec == LSpec /\ Answered

=============================================================================
