---------------------------- MODULE TimestampPool ----------------------------
(***************************************************************************)
(* The timestamp pool of one queue (src/src/timestamp_pool.cc) together    *)
(* with the code that hands its handles around: vkQueueSubmit and          *)
(* vkQueueSubmit2 (src/src/layer.cc), the strategies that keep shared      *)
(* pointers to the handles, the reaper thread, and the GPU.                *)
(*                                                                         *)
(* A Handle is reference counted.  holders[h] is the set of shared owners; *)
(* when it empties the custom deleter queues h for the reaper, which gives *)
(* the slot back once Vulkan is done with it.                              *)
(***************************************************************************)
EXTENDS Naturals, Sequences, Functions

CONSTANTS Chunks,       \* bound: query chunks that may ever be created
          Indices,      \* the (even) query indices of one chunk: CHUNK_SIZE / 2
          Handles,      \* bound: Handle objects alive at the same time
          Trackers,     \* owners of handles other than the submitting thread
          App,          \* the submitting thread (the queue is externally synchronised)
          MaxBatch,     \* bound: submit infos of one vkQueueSubmit
          NoSlot, NoHandle

Slots == Chunks \X Indices

ASSUME PoolConstants ==
    /\ App \notin Trackers
    /\ NoSlot \notin Slots
    /\ NoHandle \notin Handles
    /\ MaxBatch \in Nat \ {0}

VARIABLES
    chunks,         \* query_chunks
    free,           \* free[c]: free_indices of chunk c
    slot,           \* slot[h]: chunk and query_index of Handle h, NoSlot if not allocated
    wasSubmitted,   \* wasSubmitted[h]: Handle::was_submitted
    holders,        \* holders[h]: who owns a shared_ptr to h
    batch,          \* the local vector `handles` of vkQueueSubmit
    submitter,      \* where the submitting thread is
    expiring,       \* expiring_handles
    reaper,         \* where the reaper thread is
    reaping,        \* the handle the reaper took from the queue
    owner,          \* life of the QueueContext that owns the pool
    gpu,            \* Vulkan's view of each query
    destroyed       \* query pools and command buffers were freed

vars == <<chunks, free, slot, wasSubmitted, holders, batch, submitter,
          expiring, reaper, reaping, owner, gpu, destroyed>>

poolVars   == <<chunks, free, slot>>
reaperVars == <<reaper, reaping>>
lifeVars   == <<owner, destroyed>>

Live == {h \in Handles : slot[h] # NoSlot}

Init ==
    /\ chunks = {}
    /\ free = [c \in Chunks |-> {}]
    /\ slot = [h \in Handles |-> NoSlot]
    /\ wasSubmitted = [h \in Handles |-> FALSE]
    /\ holders = [h \in Handles |-> {}]
    /\ batch = <<>>
    /\ submitter = "filling"
    /\ expiring = <<>>
    /\ reaper = "waiting"
    /\ reaping = NoHandle
    /\ owner = "running"
    /\ gpu = [s \in Slots |-> "blank"]
    /\ destroyed = FALSE

-----------------------------------------------------------------------------
(* The submitting thread.                                                  *)

\* Mutant of FreeOf: an existing chunk is taken for an unused one.
MutAllIndices(c) == Indices

\* The free indices acquire may draw from: those of any chunk that has some,
\* or those of a chunk it creates because no chunk has any.
FreeOf(c) == IF c \in chunks THEN free[c] ELSE Indices

MayUse(c) == \/ c \in chunks /\ free[c] # {}
             \/ c \notin chunks /\ \A d \in chunks : free[d] = {}

\* acquire(), called once per submit info.  The mutex is held until the Handle
\* has reset both queries and recorded both command buffers again.
Acquire(h, c, i) ==
    /\ submitter = "filling"
    /\ owner = "running"
    /\ Len(batch) < MaxBatch
    /\ h \notin Live
    /\ MayUse(c)
    /\ i \in FreeOf(c)
    /\ chunks' = chunks \cup {c}
    /\ free' = [free EXCEPT ![c] = FreeOf(c) \ {i}]
    /\ slot' = [slot EXCEPT ![h] = <<c, i>>]
    /\ wasSubmitted' = [wasSubmitted EXCEPT ![h] = FALSE]
    /\ holders' = [holders EXCEPT ![h] = {App}]
    /\ batch' = Append(batch, h)
    /\ gpu' = [gpu EXCEPT ![<<c, i>>] = "recorded"]
    /\ UNCHANGED <<submitter, expiring, reaperVars, lifeVars>>

\* The driver's vkQueueSubmit succeeded: the batch is the GPU's now.
DriverAccepts ==
    /\ submitter = "filling"
    /\ batch # <<>>
    /\ submitter' = "notifying"
    /\ gpu' = [s \in Slots |->
                 IF \E h \in Range(batch) : slot[h] = s THEN "pending" ELSE gpu[s]]
    /\ UNCHANGED <<poolVars, wasSubmitted, holders, batch, expiring, reaperVars, lifeVars>>

\* It failed: vkQueueSubmit returns and the vector `handles` is destroyed.
DriverRejects ==
    /\ submitter = "filling"
    /\ batch # <<>>
    /\ submitter' = "discarding"
    /\ UNCHANGED <<poolVars, wasSubmitted, holders, batch, expiring, reaperVars,
                   lifeVars, gpu>>

\* Mutant of SetHolders: the deleter runs for every owner that lets go.
MutDeleterPerOwner(h, who) ==
    /\ holders' = [holders EXCEPT ![h] = who]
    /\ expiring' = Append(expiring, h)

\* What becomes of the shared owners of h, and of h when the last one is gone:
\* the custom deleter appends it to the reaper's queue.
SetHolders(h, who) ==
    /\ holders' = [holders EXCEPT ![h] = who]
    /\ expiring' = IF who = {} THEN Append(expiring, h) ELSE expiring

NextSubmitter == IF Len(batch) = 1 THEN "filling" ELSE submitter

\* Mutant of Flagged: was_submitted is not set.
MutUnflagged(h) == wasSubmitted

\* was_submitted of h is set.
Flagged(h) == [wasSubmitted EXCEPT ![h] = TRUE]

\* One round of the loop after a successful submission: set was_submitted, then
\* move the handle into strategy->notify_submit, which keeps it or lets it go.
Notify(who) ==
    LET h == Head(batch) IN
    /\ submitter = "notifying"
    /\ wasSubmitted' = Flagged(h)
    /\ SetHolders(h, who)
    /\ batch' = Tail(batch)
    /\ submitter' = NextSubmitter
    /\ UNCHANGED <<poolVars, reaperVars, lifeVars, gpu>>

\* One element of the vector is destroyed on the failure path.
Discard ==
    /\ submitter = "discarding"
    /\ SetHolders(Head(batch), {})
    /\ batch' = Tail(batch)
    /\ submitter' = NextSubmitter
    /\ UNCHANGED <<poolVars, wasSubmitted, reaperVars, lifeVars, gpu>>

-----------------------------------------------------------------------------
(* The strategies' threads and the GPU.                                    *)

\* A tracker destroys its shared_ptr (span replaced, evicted or waited for).  A span
\* that moves from a strategy to a monitor's thread keeps its shared_ptr: the pool
\* does not see it, and a tracker is whichever thread has the span.
Drop(h, t) ==
    /\ t \in holders[h] \cap Trackers
    /\ SetHolders(h, holders[h] \ {t})
    /\ UNCHANGED <<poolVars, wasSubmitted, batch, submitter, reaperVars, lifeVars, gpu>>

\* Both timestamps of slot s are written and available.
GpuComplete(s) ==
    /\ gpu[s] = "pending"
    /\ gpu' = [gpu EXCEPT ![s] = "written"]
    /\ UNCHANGED <<poolVars, wasSubmitted, holders, batch, submitter, expiring,
                   reaperVars, lifeVars>>

-----------------------------------------------------------------------------
(* The reaper thread.                                                      *)

\* Mutant of ReaperTake: the wait looks at the stop request first.
MutTakeUntilStop ==
    /\ reaper = "waiting" /\ owner # "stopping"
    /\ expiring # <<>>
    /\ reaping' = Head(expiring)
    /\ expiring' = Tail(expiring)
    /\ reaper' = "awaiting"
    /\ UNCHANGED <<poolVars, wasSubmitted, holders, batch, submitter, lifeVars, gpu>>

\* The wait returns: the front of the queue is popped and the mutex released.
\* A stop request does not matter while the queue has handles in it.
ReaperTake ==
    /\ reaper = "waiting"
    /\ expiring # <<>>
    /\ reaping' = Head(expiring)
    /\ expiring' = Tail(expiring)
    /\ reaper' = "awaiting"
    /\ UNCHANGED <<poolVars, wasSubmitted, holders, batch, submitter, lifeVars, gpu>>

\* Mutants of AwaitOver: the reaper does not wait, or waits for failed submissions too.
MutNoWait(h) == TRUE
MutAlwaysWait(h) == gpu[slot[h]] = "written"

\* await_end() blocks until the end timestamp is available, and is skipped for a
\* handle whose submission failed.
AwaitOver(h) == wasSubmitted[h] => gpu[slot[h]] = "written"

\* Mutant of IndexOf: the index of the end timestamp.
MutEndIndex(s) == s[2] + 1

\* The index a slot is known by in free_indices: that of its begin timestamp.
IndexOf(s) == s[2]

\* The index goes back to its chunk and the Handle is deleted, under the mutex.
ReaperRecycle ==
    LET s == slot[reaping] IN
    /\ reaper = "awaiting"
    /\ AwaitOver(reaping)
    /\ free' = [free EXCEPT ![s[1]] = @ \cup {IndexOf(s)}]
    /\ slot' = [slot EXCEPT ![reaping] = NoSlot]
    /\ reaping' = NoHandle
    /\ reaper' = "waiting"
    /\ UNCHANGED <<chunks, wasSubmitted, holders, batch, submitter, expiring,
                   lifeVars, gpu>>

\* Mutant of ReaperExit: the thread leaves with handles in its queue.
MutExitAtOnce ==
    /\ reaper = "waiting"
    /\ owner = "stopping"
    /\ reaper' = "exited"
    /\ UNCHANGED <<poolVars, wasSubmitted, holders, batch, submitter, expiring,
                   reaping, lifeVars, gpu>>

\* The stop was requested and the queue is empty.
ReaperExit ==
    /\ reaper = "waiting"
    /\ owner = "stopping"
    /\ expiring = <<>>
    /\ reaper' = "exited"
    /\ UNCHANGED <<poolVars, wasSubmitted, holders, batch, submitter, expiring,
                   reaping, lifeVars, gpu>>

-----------------------------------------------------------------------------
(* Destruction of the QueueContext: strategy, then pool.  The device's own *)
(* strategy went before it.                                                *)

BeginDestroy ==
    /\ owner = "running"
    /\ batch = <<>>
    /\ owner' = "releasing"
    /\ UNCHANGED <<poolVars, wasSubmitted, holders, batch, submitter, expiring,
                   reaperVars, destroyed, gpu>>

\* The strategies are gone; ~TimestampPool starts with ~jthread: request_stop.
RequestStop ==
    /\ owner = "releasing"
    /\ \A h \in Handles : holders[h] = {}
    /\ owner' = "stopping"
    /\ UNCHANGED <<poolVars, wasSubmitted, holders, batch, submitter, expiring,
                   reaperVars, destroyed, gpu>>

\* The reaper was joined; the chunks, with their Vulkan objects, are destroyed.
FreeChunks ==
    /\ reaper = "exited"
    /\ ~destroyed
    /\ chunks' = {}
    /\ free' = [c \in Chunks |-> {}]
    /\ destroyed' = TRUE
    /\ UNCHANGED <<slot, wasSubmitted, holders, batch, submitter, expiring,
                   reaperVars, owner, gpu>>

Terminated == destroyed /\ UNCHANGED vars

-----------------------------------------------------------------------------

Next ==
    \/ \E h \in Handles, c \in Chunks, i \in Indices : Acquire(h, c, i)
    \/ DriverAccepts
    \/ DriverRejects
    \/ \E who \in SUBSET Trackers : Notify(who)
    \/ Discard
    \/ \E h \in Handles, t \in Trackers : Drop(h, t)
    \/ \E s \in Slots : GpuComplete(s)
    \/ ReaperTake
    \/ ReaperRecycle
    \/ ReaperExit
    \/ BeginDestroy
    \/ RequestStop
    \/ FreeChunks
    \/ Terminated

Spec == Init /\ [][Next]_vars

\* The threads are scheduled, a driver call returns, the GPU finishes what was
\* submitted, and a destruction that began goes on.  Nothing makes the program
\* submit, destroy the device, or a strategy of a running queue let go.
Fairness ==
    /\ WF_vars(DriverAccepts \/ DriverRejects)
    /\ WF_vars(Discard \/ \E who \in SUBSET Trackers : Notify(who))
    /\ \A s \in Slots : WF_vars(GpuComplete(s))
    /\ WF_vars(ReaperTake)
    /\ WF_vars(ReaperRecycle)
    /\ WF_vars(ReaperExit)
    /\ WF_vars(owner = "releasing" /\ \E h \in Handles, t \in Trackers : Drop(h, t))
    /\ WF_vars(RequestStop)
    /\ WF_vars(FreeChunks)

FairSpec == Spec /\ Fairness

-----------------------------------------------------------------------------
(* Properties.                                                             *)

TypeOK ==
    /\ chunks \subseteq Chunks
    /\ free \in [Chunks -> SUBSET Indices]
    /\ slot \in [Handles -> Slots \cup {NoSlot}]
    /\ wasSubmitted \in [Handles -> BOOLEAN]
    /\ holders \in [Handles -> SUBSET (Trackers \cup {App})]
    /\ batch \in Seq(Handles)
    /\ submitter \in {"filling", "notifying", "discarding"}
    /\ expiring \in Seq(Handles)
    /\ reaper \in {"waiting", "awaiting", "exited"}
    /\ reaping \in Handles \cup {NoHandle}
    /\ owner \in {"running", "releasing", "stopping"}
    /\ gpu \in [Slots -> {"blank", "recorded", "pending", "written"}]
    /\ destroyed \in BOOLEAN

\* An index of an existing chunk is either free or belongs to exactly one Handle:
\* acquire, the deleter and the reaper neither lose an index nor hand it out twice.
SlotOwnership ==
    /\ \A h, k \in Live : slot[h] = slot[k] => h = k
    /\ \A c \in chunks, i \in Indices :
         i \in free[c] <=> \A h \in Live : slot[h] # <<c, i>>

\* A free index is one Vulkan has no claim on, so acquire may reset its queries and
\* re-record its command buffers at once ("only when Vulkan is done with it").
FreeSlotIsIdle ==
    \A c \in Chunks : \A i \in free[c] : gpu[<<c, i>>] # "pending"

\* Every Handle is in one place, held by a shared owner, queued for the reaper or with
\* the reaper: no leak, no double delete, and whoever still owns a handle reads what
\* its own submission wrote, never what a later owner of the index writes.
OnePlace ==
    /\ \A h \in Handles :
         /\ h \in Live <=> (holders[h] # {} \/ h \in Range(expiring) \/ h = reaping)
         /\ holders[h] # {} => h \notin Range(expiring) /\ h # reaping
    /\ reaping \notin Range(expiring)
    /\ IsInjective(expiring)

\* When the reaper thread has been joined nothing is left: every Handle was given
\* back, so the chunks can be freed under no pending query.
CleanShutdown ==
    reaper = "exited" => Live = {} /\ \A s \in Slots : gpu[s] # "pending"

\* The pool uses its queries as Vulkan allows.
Vk == INSTANCE VkQueries WITH Slots <- Slots, gpu <- gpu, destroyed <- destroyed
VulkanContract == Vk!QSpec

\* A handle in the reaper's queue gets its slot back to the pool: neither a failed
\* submission nor a stop request leaves the reaper waiting for ever.
ReapedEventually ==
    \A h \in Handles : h \in Range(expiring) ~> slot[h] = NoSlot

\* Destroying a queue terminates with its chunks freed.
DestroyTerminates == owner = "releasing" ~> destroyed

=============================================================================
