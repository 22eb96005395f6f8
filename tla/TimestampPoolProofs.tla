------------------------- MODULE TimestampPoolProofs -------------------------
(***************************************************************************)
(* Proofs about TimestampPool, for every number of chunks, indices,        *)
(* handles, trackers and submit infos.                                     *)
(***************************************************************************)
EXTENDS TimestampPool, SequenceTheorems, TLAPS

-----------------------------------------------------------------------------
(* The strengthening that makes the safety properties inductive.           *)

\* The vector `handles` and the submitting thread's references are the same, and the
\* queries of a batch that was not accepted are recorded but not submitted.
BatchInv ==
    /\ IsInjective(batch)
    /\ \A h \in Handles : h \in Range(batch) <=> App \in holders[h]
    /\ submitter # "filling" => batch # <<>>
    /\ submitter # "notifying" => \A h \in Range(batch) : gpu[slot[h]] = "recorded"

\* Once a handle left the batch, its flag is set if Vulkan may have its queries; and a
\* pending query has a handle.
FlagInv ==
    /\ \A h \in Live : gpu[slot[h]] = "pending" => h \in Range(batch) \/ wasSubmitted[h]
    /\ \A s \in Slots : gpu[s] = "pending" => \E h \in Live : slot[h] = s

\* Handles live in existing chunks, and only those have free indices.
ChunkInv ==
    /\ \A h \in Live : slot[h][1] \in chunks
    /\ \A c \in Chunks : c \notin chunks => free[c] = {}

\* The phases of the reaper and of the destruction.
LifeInv ==
    /\ reaping # NoHandle <=> reaper = "awaiting"
    /\ owner # "running" => batch = <<>>
    /\ owner = "stopping" => \A h \in Handles : holders[h] = {}
    /\ reaper = "exited" => owner = "stopping" /\ expiring = <<>>
    /\ destroyed => reaper = "exited"

IInv == /\ TypeOK /\ SlotOwnership /\ OnePlace
        /\ BatchInv /\ FlagInv /\ ChunkInv /\ LifeInv

-----------------------------------------------------------------------------
(* Sequences without repetition, as queues.                                *)

\* What appending does to the elements of a sequence.
LEMMA AppendElements ==
    ASSUME NEW S, NEW seq \in Seq(S), NEW x \in S
    PROVE  /\ Append(seq, x) \in Seq(S)
           /\ Range(Append(seq, x)) = Range(seq) \cup {x}
           /\ IsInjective(seq) /\ x \notin Range(seq) => IsInjective(Append(seq, x))
<1>1. /\ Append(seq, x) \in Seq(S)
      /\ Len(Append(seq, x)) = Len(seq) + 1
      /\ \A i \in 1..Len(seq) : Append(seq, x)[i] = seq[i]
      /\ Append(seq, x)[Len(seq) + 1] = x
  BY AppendProperties
<1>2. /\ DOMAIN seq = 1..Len(seq) /\ Len(seq) \in Nat
      /\ DOMAIN Append(seq, x) = 1..(Len(seq) + 1)
  BY <1>1, LenProperties
<1>3. Range(Append(seq, x)) = Range(seq) \cup {x}
  BY <1>1, <1>2 DEF Range
<1>4. IsInjective(seq) /\ x \notin Range(seq) => IsInjective(Append(seq, x))
  BY <1>1, <1>2 DEF Range, IsInjective
<1> QED  BY <1>1, <1>3, <1>4

\* What taking the front off does to them.
LEMMA TailElements ==
    ASSUME NEW S, NEW seq \in Seq(S), seq # << >>, IsInjective(seq)
    PROVE  /\ Head(seq) \in S /\ Tail(seq) \in Seq(S)
           /\ Head(seq) \in Range(seq)
           /\ Range(Tail(seq)) = Range(seq) \ {Head(seq)}
           /\ IsInjective(Tail(seq))
           /\ Tail(seq) = << >> <=> Len(seq) = 1
<1>1. /\ Head(seq) \in S /\ Tail(seq) \in Seq(S)
      /\ Head(seq) = seq[1]
      /\ Len(Tail(seq)) = Len(seq) - 1
      /\ \A i \in 1..Len(Tail(seq)) : Tail(seq)[i] = seq[i + 1]
  BY HeadTailProperties
<1>2. /\ DOMAIN seq = 1..Len(seq) /\ Len(seq) \in Nat /\ Len(seq) >= 1
      /\ DOMAIN Tail(seq) = 1..Len(Tail(seq))
      /\ Tail(seq) = << >> <=> Len(Tail(seq)) = 0
  <2>1. Len(seq) \in Nat \ {0} /\ Len(<< >>) = 0
    BY EmptySeq
  <2>2. Tail(seq) # << >> => Len(Tail(seq)) \in Nat \ {0}
    BY <1>1, EmptySeq
  <2>3. DOMAIN seq = 1..Len(seq) /\ DOMAIN Tail(seq) = 1..Len(Tail(seq))
    BY <1>1, LenProperties
  <2> QED  BY <2>1, <2>2, <2>3
<1>3. Range(Tail(seq)) = Range(seq) \ {Head(seq)}
  <2>1. ASSUME NEW i \in DOMAIN Tail(seq)
        PROVE  Tail(seq)[i] \in Range(seq) \ {Head(seq)}
    BY <1>1, <1>2 DEF Range, IsInjective
  <2>2. ASSUME NEW j \in DOMAIN seq, seq[j] # Head(seq)
        PROVE  \E i \in DOMAIN Tail(seq) : Tail(seq)[i] = seq[j]
    <3>1. j - 1 \in DOMAIN Tail(seq) /\ (j - 1) + 1 = j
      BY <1>1, <1>2, <2>2
    <3> QED  BY <1>1, <1>2, <3>1
  <2> QED  BY <2>1, <2>2 DEF Range
<1>4. IsInjective(Tail(seq))
  BY <1>1, <1>2 DEF IsInjective
<1>5. Head(seq) \in Range(seq)
  BY <1>1, <1>2 DEF Range
<1>6. Tail(seq) = << >> <=> Len(seq) = 1
  BY <1>1, <1>2
<1> QED  BY <1>1, <1>3, <1>4, <1>5, <1>6

-----------------------------------------------------------------------------
(* What the invariant says besides.                                        *)

\* A free index belongs to no handle, so no query of it is pending.
LEMMA FreeIsIdle == IInv => FreeSlotIsIdle
<1> SUFFICES ASSUME IInv, NEW c \in Chunks, NEW i \in free[c]
             PROVE  gpu[<<c, i>>] # "pending"
  BY DEF FreeSlotIsIdle
<1>1. c \in chunks /\ i \in Indices
  BY DEF IInv, ChunkInv, TypeOK
<1>2. \A h \in Live : slot[h] # <<c, i>>
  BY <1>1 DEF IInv, SlotOwnership
<1>3. <<c, i>> \in Slots
  BY <1>1 DEF Slots
<1> QED  BY <1>2, <1>3 DEF IInv, FlagInv

\* After the reaper's exit no place is left where a handle could be.
LEMMA ExitIsClean == IInv => CleanShutdown
<1> SUFFICES ASSUME IInv, reaper = "exited"
             PROVE  Live = {} /\ \A s \in Slots : gpu[s] # "pending"
  BY DEF CleanShutdown
<1>1. Range(expiring) = {}
  BY DEF IInv, LifeInv, Range
<1>2. Live = {}
  BY <1>1, PoolConstants DEF IInv, LifeInv, OnePlace, Live
<1> QED  BY <1>2 DEF IInv, FlagInv

LEMMA InitIInv == Init => IInv
<1> SUFFICES ASSUME Init  PROVE IInv
  OBVIOUS
<1> USE DEF Init
<1>1. Live = {} /\ Range(batch) = {} /\ Range(expiring) = {}
  BY DEF Live, Range
<1>2. TypeOK
  BY EmptySeq DEF TypeOK
<1>3. SlotOwnership /\ OnePlace
  BY <1>1, PoolConstants DEF SlotOwnership, OnePlace, IsInjective
<1>4. BatchInv /\ FlagInv /\ ChunkInv /\ LifeInv
  BY <1>1, PoolConstants DEF BatchInv, FlagInv, ChunkInv, LifeInv, IsInjective
<1> QED  BY <1>2, <1>3, <1>4 DEF IInv

-----------------------------------------------------------------------------
(* Each action preserves the invariant.                                    *)

\* acquire: the chosen index was free, or is in a chunk that did not exist, so no other
\* handle has it.
LEMMA AcquireStep ==
    ASSUME IInv, NEW h \in Handles, NEW c \in Chunks, NEW i \in Indices, Acquire(h, c, i)
    PROVE  IInv'
<1> USE DEF Acquire
<1>1. <<c, i>> \in Slots /\ <<c, i>> # NoSlot /\ <<c, i>>[1] = c /\ <<c, i>>[2] = i
  BY PoolConstants DEF Slots
<1>2. /\ h \notin Live /\ Live' = Live \cup {h}
      /\ \A k \in Live : slot'[k] = slot[k]
      /\ slot'[h] = <<c, i>>
  BY <1>1 DEF Live, IInv, TypeOK
<1>3. \A k \in Live : slot[k] # <<c, i>>
  BY DEF IInv, SlotOwnership, ChunkInv, MayUse, FreeOf
<1>4. /\ h \notin Range(batch) /\ h \notin Range(expiring) /\ h # reaping
      /\ holders[h] = {}
  BY <1>2 DEF IInv, OnePlace, BatchInv
<1>5. /\ batch' \in Seq(Handles) /\ Range(batch') = Range(batch) \cup {h}
      /\ IsInjective(batch') /\ batch' # << >>
  BY <1>4, AppendElements, AppendProperties DEF IInv, TypeOK, BatchInv
<1>6. TypeOK'
  BY <1>1, <1>5 DEF IInv, TypeOK, FreeOf, reaperVars, lifeVars
<1>7. SlotOwnership'
  <2>1. \A j, k \in Live' : slot'[j] = slot'[k] => j = k
    BY <1>2, <1>3 DEF IInv, SlotOwnership
  <2>2. ASSUME NEW d \in chunks', NEW j \in Indices
        PROVE  j \in free'[d] <=> \A k \in Live' : slot'[k] # <<d, j>>
    <3>1. d \in Chunks
      BY DEF IInv, TypeOK
    <3>2. (\A k \in Live' : slot'[k] # <<d, j>>)
             <=> (<<c, i>> # <<d, j>> /\ \A k \in Live : slot[k] # <<d, j>>)
      BY <1>2
    <3>3. CASE d # c
      <4>1. <<c, i>> # <<d, j>> /\ d \in chunks /\ free'[d] = free[d]
        BY <3>1, <3>3 DEF IInv, TypeOK
      <4> QED  BY <4>1, <3>2 DEF IInv, SlotOwnership
    <3>4. CASE d = c
      <4>1. free'[d] = FreeOf(c) \ {i} /\ (<<c, i>> # <<d, j>> <=> j # i)
        BY <3>4 DEF IInv, TypeOK
      <4>2. j \in FreeOf(c) <=> \A k \in Live : slot[k] # <<c, j>>
        <5>1. CASE c \in chunks
          BY <5>1 DEF IInv, SlotOwnership, FreeOf
        <5>2. CASE c \notin chunks
          <6>1. \A k \in Live : slot[k] # <<c, j>>
            BY <5>2 DEF IInv, ChunkInv
          <6> QED  BY <5>2, <6>1 DEF FreeOf
        <5> QED  BY <5>1, <5>2
      <4> QED  BY <4>1, <4>2, <3>2, <3>4
    <3> QED  BY <3>3, <3>4
  <2> QED  BY <2>1, <2>2 DEF SlotOwnership
<1>8. OnePlace'
  BY <1>2, <1>4 DEF IInv, TypeOK, OnePlace, reaperVars
<1>9. BatchInv'
  <2>1. \A k \in Handles : k \in Range(batch') <=> App \in holders'[k]
    BY <1>4, <1>5 DEF IInv, TypeOK, BatchInv
  <2>2. \A k \in Range(batch') : gpu'[slot'[k]] = "recorded"
    <3>1. \A k \in Range(batch) : k \in Live /\ slot[k] \in Slots
      BY DEF IInv, TypeOK, OnePlace, BatchInv, Live, Range
    <3> QED  BY <3>1, <1>1, <1>2, <1>3, <1>5 DEF IInv, TypeOK, BatchInv
  <2> QED  BY <2>1, <2>2, <1>5 DEF BatchInv
<1>10. FlagInv'
  <2>1. \A k \in Live : slot[k] \in Slots
    BY DEF IInv, TypeOK, Live
  <2>2. ASSUME NEW k \in Live', gpu'[slot'[k]] = "pending"
        PROVE  k \in Range(batch') \/ wasSubmitted'[k]
    <3>1. gpu'[<<c, i>>] = "recorded"
      BY <1>1 DEF IInv, TypeOK
    <3>2. k \in Live /\ k # h
      BY <2>2, <3>1, <1>2
    <3>3. gpu[slot[k]] = "pending"
      BY <2>1, <2>2, <3>2, <1>1, <1>2, <1>3 DEF IInv, TypeOK
    <3> QED  BY <3>2, <3>3, <1>5 DEF IInv, TypeOK, FlagInv
  <2>3. ASSUME NEW s \in Slots, gpu'[s] = "pending"
        PROVE  \E k \in Live' : slot'[k] = s
    <3>1. gpu[s] = "pending"
      BY <2>3, <1>1 DEF IInv, TypeOK
    <3>2. PICK k \in Live : slot[k] = s
      BY <3>1 DEF IInv, FlagInv
    <3> QED  BY <3>2, <1>2
  <2> QED  BY <2>2, <2>3 DEF FlagInv
<1>11. ChunkInv' /\ LifeInv'
  BY <1>1, <1>2, <1>4, <1>5 DEF IInv, TypeOK, ChunkInv, LifeInv, reaperVars, lifeVars
<1> QED  BY <1>6, <1>7, <1>8, <1>9, <1>10, <1>11 DEF IInv

\* What does not touch the pool keeps the ownership of the slots.
LEMMA SamePool ==
    ASSUME IInv, UNCHANGED poolVars
    PROVE  Live' = Live /\ SlotOwnership' /\ ChunkInv'
<1>1. chunks' = chunks /\ free' = free /\ slot' = slot
  BY DEF poolVars
<1>2. Live' = Live
  BY <1>1 DEF Live
<1>3. SlotOwnership'
  BY <1>1, <1>2 DEF IInv, SlotOwnership
<1>4. ChunkInv'
  BY <1>1, <1>2 DEF IInv, ChunkInv
<1> QED  BY <1>2, <1>3, <1>4

\* What moves no handle keeps each in its place.
LEMMA SamePlaces ==
    ASSUME IInv, UNCHANGED <<slot, holders, expiring, reaping>>
    PROVE  OnePlace'
<1>1. Live' = Live
  BY DEF Live
<1> QED  BY <1>1 DEF IInv, OnePlace

\* What changes neither flag nor query keeps the batch and the flags right.
LEMMA SameBatch ==
    ASSUME IInv, UNCHANGED <<slot, wasSubmitted, batch, submitter, gpu>>,
           \A k \in Handles : App \in holders'[k] <=> App \in holders[k]
    PROVE  BatchInv' /\ FlagInv'
<1>1. Live' = Live /\ Range(batch') = Range(batch)
  BY DEF Live
<1>2. BatchInv'
  BY <1>1 DEF IInv, BatchInv
<1>3. FlagInv'
  BY <1>1 DEF IInv, FlagInv
<1> QED  BY <1>2, <1>3

\* The handles of a batch are alive and have a slot.
LEMMA BatchIsLive ==
    ASSUME IInv, NEW h \in Range(batch)
    PROVE  h \in Handles /\ h \in Live /\ slot[h] \in Slots
<1>1. h \in Handles
  BY DEF IInv, TypeOK, Range
<1> QED  BY <1>1 DEF IInv, TypeOK, OnePlace, BatchInv, Live

\* The driver accepts: the pending queries are those of the batch, whose flags are not
\* needed while it is in the vector.
LEMMA DriverAcceptsStep == ASSUME IInv, DriverAccepts  PROVE IInv'
<1> USE DEF DriverAccepts, poolVars, reaperVars, lifeVars
<1>1. Live' = Live /\ \A h \in Live : slot[h] \in Slots
  BY DEF Live, IInv, TypeOK
<1>2. TypeOK'
  BY DEF IInv, TypeOK
<1>3. SlotOwnership' /\ OnePlace' /\ ChunkInv'
  BY SamePool, SamePlaces
<1>5. LifeInv'
  BY DEF IInv, LifeInv
<1>6. BatchInv'
  BY DEF IInv, BatchInv
<1>4. FlagInv'
  <2>1. ASSUME NEW h \in Live, gpu'[slot[h]] = "pending"
        PROVE  h \in Range(batch) \/ wasSubmitted[h]
    <3>1. CASE \E k \in Range(batch) : slot[k] = slot[h]
      BY <3>1, BatchIsLive DEF IInv, SlotOwnership
    <3>2. CASE ~ \E k \in Range(batch) : slot[k] = slot[h]
      BY <2>1, <3>2, <1>1 DEF IInv, FlagInv
    <3> QED  BY <3>1, <3>2
  <2>2. ASSUME NEW s \in Slots, gpu'[s] = "pending"
        PROVE  \E h \in Live : slot[h] = s
    <3>1. CASE \E h \in Range(batch) : slot[h] = s
      BY <3>1, BatchIsLive
    <3>2. CASE ~ \E h \in Range(batch) : slot[h] = s
      BY <2>2, <3>2 DEF IInv, FlagInv
    <3> QED  BY <3>1, <3>2
  <2> QED  BY <2>1, <2>2, <1>1 DEF FlagInv
<1> QED  BY <1>2, <1>3, <1>4, <1>5, <1>6 DEF IInv

\* The driver rejects: nothing of the batch was submitted.
LEMMA DriverRejectsStep == ASSUME IInv, DriverRejects  PROVE IInv'
<1> USE DEF DriverRejects, poolVars, reaperVars, lifeVars
<1>1. SlotOwnership' /\ OnePlace' /\ ChunkInv'
  BY SamePool, SamePlaces
<1>2. Live' = Live
  BY SamePool
<1>3. TypeOK' /\ LifeInv'
  BY DEF IInv, TypeOK, LifeInv
<1>4. BatchInv'
  BY DEF IInv, BatchInv
<1>5. FlagInv'
  BY <1>2 DEF IInv, FlagInv
<1> QED  BY <1>1, <1>3, <1>4, <1>5 DEF IInv

\* Owners of a handle change: it stays owned, or it moves to the reaper's queue.
LEMMA SetHoldersStep ==
    ASSUME IInv, NEW h \in Handles, NEW who \in SUBSET (Trackers \cup {App}),
           holders[h] # {}, SetHolders(h, who), UNCHANGED <<slot, reaping>>
    PROVE  /\ holders' \in [Handles -> SUBSET (Trackers \cup {App})]
           /\ holders'[h] = who /\ \A k \in Handles \ {h} : holders'[k] = holders[k]
           /\ expiring' \in Seq(Handles)
           /\ OnePlace'
<1> USE DEF SetHolders
<1>1. /\ holders' \in [Handles -> SUBSET (Trackers \cup {App})]
      /\ holders'[h] = who /\ \A k \in Handles \ {h} : holders'[k] = holders[k]
  BY DEF IInv, TypeOK
<1>2. h \in Live /\ Live' = Live /\ h \notin Range(expiring) /\ h # reaping
  BY DEF IInv, OnePlace, Live
<1>3. CASE who = {}
  <2>1. /\ expiring' \in Seq(Handles) /\ IsInjective(expiring')
        /\ Range(expiring') = Range(expiring) \cup {h}
    BY <1>2, <1>3, AppendElements DEF IInv, TypeOK, OnePlace
  <2> QED  BY <2>1, <1>1, <1>2, <1>3 DEF IInv, OnePlace
<1>4. CASE who # {}
  BY <1>1, <1>2, <1>4 DEF IInv, TypeOK, OnePlace
<1> QED  BY <1>1, <1>3, <1>4

\* The front of the batch leaves it, with its flag set if the batch was accepted.
LEMMA LeaveBatch ==
    ASSUME IInv, NEW who \in SUBSET Trackers, submitter # "filling",
           SetHolders(Head(batch), who),
           wasSubmitted' \in [Handles -> BOOLEAN],
           submitter = "notifying" => wasSubmitted'[Head(batch)],
           \A k \in Handles \ {Head(batch)} : wasSubmitted'[k] = wasSubmitted[k],
           batch' = Tail(batch), submitter' = NextSubmitter,
           UNCHANGED <<poolVars, reaperVars, lifeVars, gpu>>
    PROVE  IInv'
<1> DEFINE h == Head(batch)
<1> USE DEF poolVars, reaperVars, lifeVars
<1>1. /\ h \in Handles /\ h \in Range(batch) /\ batch' \in Seq(Handles)
      /\ Range(batch') = Range(batch) \ {h} /\ IsInjective(batch')
      /\ batch' = << >> <=> Len(batch) = 1
  BY TailElements DEF IInv, TypeOK, BatchInv
<1>2. App \in holders[h] /\ h \in Live /\ Live' = Live
  BY <1>1, BatchIsLive DEF IInv, BatchInv, Live
<1>3. /\ holders' \in [Handles -> SUBSET (Trackers \cup {App})]
      /\ holders'[h] = who /\ \A k \in Handles \ {h} : holders'[k] = holders[k]
      /\ expiring' \in Seq(Handles)
      /\ OnePlace'
  BY <1>1, <1>2, SetHoldersStep
<1> HIDE DEF h
<1>4. TypeOK'
  BY <1>1, <1>3 DEF IInv, TypeOK, NextSubmitter
<1>5. SlotOwnership' /\ ChunkInv'
  BY SamePool
<1>6. BatchInv'
  <2>1. \A k \in Handles : k \in Range(batch') <=> App \in holders'[k]
    BY <1>1, <1>3, PoolConstants DEF IInv, BatchInv
  <2>2. submitter' # "filling" => batch' # << >>
    BY <1>1 DEF NextSubmitter
  <2>3. ASSUME submitter' # "notifying", NEW k \in Range(batch')
        PROVE  gpu'[slot'[k]] = "recorded"
    <3>1. batch' # << >>
      BY <2>3 DEF Range
    <3>2. submitter # "notifying" /\ k \in Range(batch)
      BY <2>3, <3>1, <1>1 DEF NextSubmitter
    <3> QED  BY <3>2 DEF IInv, BatchInv
  <2> QED  BY <2>1, <2>2, <2>3, <1>1 DEF BatchInv
<1>7. FlagInv'
  <2>1. ASSUME NEW k \in Live', gpu'[slot'[k]] = "pending"
        PROVE  k \in Range(batch') \/ wasSubmitted'[k]
    <3>1. CASE k = h
      <4>1. submitter = "notifying"
        BY <2>1, <3>1, <1>1 DEF IInv, BatchInv
      <4> QED  BY <4>1, <3>1 DEF h
    <3>2. CASE k # h
      BY <2>1, <3>2, <1>1, <1>2 DEF IInv, FlagInv, Live, h
    <3> QED  BY <3>1, <3>2
  <2>2. ASSUME NEW s \in Slots, gpu'[s] = "pending"
        PROVE  \E k \in Live' : slot'[k] = s
    BY <2>2, <1>2 DEF IInv, FlagInv
  <2> QED  BY <2>1, <2>2 DEF FlagInv
<1>8. LifeInv'
  <2>1. owner = "running" /\ reaper # "exited" /\ ~destroyed
    BY DEF IInv, LifeInv, BatchInv
  <2> QED  BY <2>1 DEF IInv, LifeInv
<1> QED  BY <1>3, <1>4, <1>5, <1>6, <1>7, <1>8 DEF IInv

LEMMA NotifyStep ==
    ASSUME IInv, NEW who \in SUBSET Trackers, Notify(who)
    PROVE  IInv'
<1>1. batch # << >> /\ Head(batch) \in Handles
  BY TailElements DEF Notify, IInv, TypeOK, BatchInv
<1>2. /\ wasSubmitted' \in [Handles -> BOOLEAN]
      /\ wasSubmitted'[Head(batch)]
      /\ \A k \in Handles \ {Head(batch)} : wasSubmitted'[k] = wasSubmitted[k]
  BY <1>1 DEF Notify, Flagged, IInv, TypeOK
<1> QED  BY <1>2, LeaveBatch DEF Notify

LEMMA DiscardStep == ASSUME IInv, Discard  PROVE IInv'
<1>1. wasSubmitted' \in [Handles -> BOOLEAN] /\ {} \in SUBSET Trackers
  BY DEF Discard, IInv, TypeOK
<1> QED  BY <1>1, LeaveBatch DEF Discard

-----------------------------------------------------------------------------
(* The strategies' threads and the GPU.                                    *)

LEMMA DropStep ==
    ASSUME IInv, NEW h \in Handles, NEW t \in Trackers, Drop(h, t)
    PROVE  IInv'
<1> USE DEF Drop, poolVars, reaperVars, lifeVars
<1>1. /\ holders' \in [Handles -> SUBSET (Trackers \cup {App})]
      /\ holders'[h] = holders[h] \ {t}
      /\ \A k \in Handles \ {h} : holders'[k] = holders[k]
      /\ expiring' \in Seq(Handles)
      /\ OnePlace'
  <2>1. holders[h] \ {t} \in SUBSET (Trackers \cup {App}) /\ holders[h] # {}
    BY DEF IInv, TypeOK
  <2> QED  BY <2>1, SetHoldersStep
<1>2. Live' = Live /\ \A k \in Handles : App \in holders'[k] <=> App \in holders[k]
  BY <1>1, PoolConstants DEF Live
<1>3. TypeOK'
  BY <1>1 DEF IInv, TypeOK
<1>4. SlotOwnership' /\ ChunkInv' /\ BatchInv' /\ FlagInv'
  BY <1>2, SamePool, SameBatch
<1>5. LifeInv'
  <2>1. owner # "stopping" /\ reaper # "exited"
    BY DEF IInv, LifeInv
  <2> QED  BY <2>1 DEF IInv, LifeInv
<1> QED  BY <1>1, <1>3, <1>4, <1>5 DEF IInv

LEMMA GpuCompleteStep ==
    ASSUME IInv, NEW s \in Slots, GpuComplete(s)
    PROVE  IInv'
<1> USE DEF GpuComplete, poolVars, reaperVars, lifeVars
<1>1. Live' = Live
  BY DEF Live
<1>2. TypeOK'
  BY DEF IInv, TypeOK
<1>3. SlotOwnership' /\ OnePlace' /\ ChunkInv' /\ LifeInv'
  BY SamePool, SamePlaces DEF IInv, LifeInv
<1>4. \A k \in Slots : gpu'[k] = "pending" => gpu[k] = "pending"
  BY DEF IInv, TypeOK
<1>5. FlagInv'
  BY <1>1, <1>4 DEF IInv, TypeOK, FlagInv, Live
<1>6. BatchInv'
  <2>1. \A k \in Range(batch) : gpu[slot[k]] = "recorded" => gpu'[slot[k]] = "recorded"
    BY BatchIsLive DEF IInv, TypeOK
  <2> QED  BY <2>1 DEF IInv, BatchInv
<1> QED  BY <1>2, <1>3, <1>5, <1>6 DEF IInv

-----------------------------------------------------------------------------
(* The reaper thread.                                                      *)

\* The front of the queue has no owner left, so it is in one place again.
LEMMA ReaperTakeStep == ASSUME IInv, ReaperTake  PROVE IInv'
<1> USE DEF ReaperTake, poolVars, lifeVars
<1>1. /\ Head(expiring) \in Handles /\ Tail(expiring) \in Seq(Handles)
      /\ Head(expiring) \in Range(expiring)
      /\ Range(Tail(expiring)) = Range(expiring) \ {Head(expiring)}
      /\ IsInjective(Tail(expiring))
  BY TailElements DEF IInv, TypeOK, OnePlace
<1>2. reaping = NoHandle
  BY DEF IInv, LifeInv
<1>3. TypeOK'
  BY <1>1 DEF IInv, TypeOK
<1>4. SlotOwnership' /\ ChunkInv' /\ BatchInv' /\ FlagInv' /\ Live' = Live
  BY SamePool, SameBatch
<1>5. OnePlace'
  <2>1. \A k \in Handles : k # reaping
    BY <1>2, PoolConstants
  <2> QED  BY <1>1, <1>4, <2>1 DEF IInv, OnePlace
<1>6. LifeInv'
  <2>1. Head(expiring) # NoHandle
    BY <1>1, PoolConstants
  <2>2. reaper # "exited"
    BY DEF IInv, LifeInv
  <2> QED  BY <2>1, <2>2 DEF IInv, LifeInv
<1> QED  BY <1>3, <1>4, <1>5, <1>6 DEF IInv

\* The slot is given back when no query of it is pending: its flag was set if it was
\* submitted, and then the reaper waited for it.
LEMMA ReaperRecycleStep == ASSUME IInv, ReaperRecycle  PROVE IInv'
<1> DEFINE h == reaping
           s == slot[h]
<1> USE DEF ReaperRecycle, IndexOf, lifeVars
<1>1. h \in Handles /\ h \in Live /\ holders[h] = {} /\ h \notin Range(expiring)
  BY PoolConstants DEF IInv, TypeOK, LifeInv, OnePlace
<1>2. s \in Slots /\ s[1] \in chunks /\ s[1] \in Chunks /\ s[2] \in Indices /\ s = <<s[1], s[2]>>
  BY <1>1 DEF IInv, TypeOK, ChunkInv, Live, Slots
<1>3. /\ slot'[h] = NoSlot /\ slot' \in [Handles -> Slots \cup {NoSlot}]
      /\ \A k \in Handles \ {h} : slot'[k] = slot[k]
      /\ Live' = Live \ {h}
  BY <1>1 DEF IInv, TypeOK, Live
<1>4. /\ free' \in [Chunks -> SUBSET Indices]
      /\ free'[s[1]] = free[s[1]] \cup {s[2]}
      /\ \A d \in Chunks \ {s[1]} : free'[d] = free[d]
  BY <1>2 DEF IInv, TypeOK
<1>5. gpu[s] # "pending" /\ h \notin Range(batch)
  <2>1. h \notin Range(batch)
    BY <1>1 DEF IInv, BatchInv
  <2>2. CASE wasSubmitted[h]
    BY <2>1, <2>2 DEF AwaitOver
  <2>3. CASE ~wasSubmitted[h]
    BY <1>1, <2>1, <2>3 DEF IInv, FlagInv
  <2> QED  BY <2>1, <2>2, <2>3
<1> HIDE DEF h, s
<1>6. TypeOK'
  BY <1>3, <1>4 DEF IInv, TypeOK
<1>7. SlotOwnership'
  <2>1. \A j, k \in Live' : slot'[j] = slot'[k] => j = k
    BY <1>3 DEF IInv, SlotOwnership, Live
  <2>2. ASSUME NEW d \in chunks', NEW j \in Indices
        PROVE  j \in free'[d] <=> \A k \in Live' : slot'[k] # <<d, j>>
    <3>1. d \in chunks /\ d \in Chunks
      BY DEF IInv, TypeOK
    <3>2. (\A k \in Live' : slot'[k] # <<d, j>>)
            <=> (\A k \in Live \ {h} : slot[k] # <<d, j>>)
      BY <1>3 DEF Live
    <3>3. CASE <<d, j>> = s
      <4>1. d = s[1] /\ j = s[2]
        BY <3>3
      <4>2. \A k \in Live \ {h} : slot[k] # s
        BY <1>1 DEF IInv, SlotOwnership, s
      <4> QED  BY <4>1, <4>2, <3>2, <3>3, <1>4
    <3>4. CASE <<d, j>> # s
      <4>1. d # s[1] \/ j # s[2]
        BY <3>4, <1>2
      <4>2. j \in free'[d] <=> j \in free[d]
        BY <4>1, <3>1, <1>4
      <4>3. slot[h] # <<d, j>>
        BY <3>4 DEF s
      <4> QED  BY <4>2, <4>3, <3>1, <3>2 DEF IInv, SlotOwnership
    <3> QED  BY <3>3, <3>4
  <2> QED  BY <2>1, <2>2 DEF SlotOwnership
<1>8. OnePlace'
  <2>1. reaping' \notin Handles /\ h = reaping
    BY PoolConstants DEF h
  <2>2. reaping' \notin Range(expiring')
    BY <2>1 DEF IInv, TypeOK, Range
  <2> QED  BY <2>1, <2>2, <1>1, <1>3 DEF IInv, OnePlace
<1>9. BatchInv'
  <2>1. \A k \in Range(batch) : slot'[k] = slot[k]
    BY <1>3, <1>5, BatchIsLive
  <2> QED  BY <2>1 DEF IInv, BatchInv
<1>10. FlagInv'
  <2>1. \A k \in Live' : k \in Live /\ slot'[k] = slot[k]
    BY <1>3 DEF Live
  <2>2. ASSUME NEW q \in Slots, gpu'[q] = "pending"
        PROVE  \E k \in Live' : slot'[k] = q
    <3>1. PICK k \in Live : slot[k] = q
      BY <2>2 DEF IInv, FlagInv
    <3>2. k # h
      BY <2>2, <3>1, <1>5 DEF s
    <3> QED  BY <3>1, <3>2, <1>3, <2>1
  <2> QED  BY <2>1, <2>2 DEF IInv, FlagInv
<1>11. ChunkInv'
  <2>1. \A k \in Live' : k \in Live /\ slot'[k] = slot[k]
    BY <1>3 DEF Live
  <2> QED  BY <2>1, <1>2, <1>4 DEF IInv, ChunkInv
<1>12. LifeInv'
  <2>1. reaper # "exited" /\ ~destroyed
    BY DEF IInv, LifeInv
  <2> QED  BY <2>1 DEF IInv, LifeInv
<1> QED  BY <1>6, <1>7, <1>8, <1>9, <1>10, <1>11, <1>12 DEF IInv

LEMMA ReaperExitStep == ASSUME IInv, ReaperExit  PROVE IInv'
<1> USE DEF ReaperExit, lifeVars
<1>1. SlotOwnership' /\ ChunkInv' /\ BatchInv' /\ FlagInv' /\ OnePlace'
  BY SamePool, SameBatch, SamePlaces DEF poolVars
<1>2. TypeOK' /\ LifeInv'
  BY DEF IInv, TypeOK, LifeInv, poolVars
<1> QED  BY <1>1, <1>2 DEF IInv

-----------------------------------------------------------------------------
(* Destruction.                                                            *)

LEMMA BeginDestroyStep == ASSUME IInv, BeginDestroy  PROVE IInv'
<1> USE DEF BeginDestroy, reaperVars
<1>1. SlotOwnership' /\ ChunkInv' /\ BatchInv' /\ FlagInv' /\ OnePlace'
  BY SamePool, SameBatch, SamePlaces DEF poolVars
<1>2. TypeOK' /\ LifeInv'
  BY DEF IInv, TypeOK, LifeInv, poolVars
<1> QED  BY <1>1, <1>2 DEF IInv

LEMMA RequestStopStep == ASSUME IInv, RequestStop  PROVE IInv'
<1> USE DEF RequestStop, reaperVars
<1>1. SlotOwnership' /\ ChunkInv' /\ BatchInv' /\ FlagInv' /\ OnePlace'
  BY SamePool, SameBatch, SamePlaces DEF poolVars
<1>2. TypeOK' /\ LifeInv'
  BY DEF IInv, TypeOK, LifeInv, poolVars
<1> QED  BY <1>1, <1>2 DEF IInv

\* Nothing is left in the chunks when they go.
LEMMA FreeChunksStep == ASSUME IInv, FreeChunks  PROVE IInv'
<1> USE DEF FreeChunks, reaperVars
<1>1. Live = {} /\ Live' = {}
  BY ExitIsClean DEF CleanShutdown, Live
<1>2. BatchInv' /\ FlagInv' /\ OnePlace'
  BY SameBatch, SamePlaces
<1>3. SlotOwnership' /\ ChunkInv'
  BY <1>1 DEF SlotOwnership, ChunkInv
<1>4. TypeOK' /\ LifeInv'
  BY DEF IInv, TypeOK, LifeInv
<1> QED  BY <1>2, <1>3, <1>4 DEF IInv

LEMMA StutterStep == ASSUME IInv, UNCHANGED vars  PROVE IInv'
<1> USE DEF vars
<1>1. SlotOwnership' /\ ChunkInv' /\ BatchInv' /\ FlagInv' /\ OnePlace'
  BY SamePool, SameBatch, SamePlaces DEF poolVars
<1>2. TypeOK' /\ LifeInv'
  BY DEF IInv, TypeOK, LifeInv
<1> QED  BY <1>1, <1>2 DEF IInv

-----------------------------------------------------------------------------
(* The safety properties.                                                  *)

LEMMA NextIInv == IInv /\ [Next]_vars => IInv'
<1> SUFFICES ASSUME IInv, [Next]_vars  PROVE IInv'
  OBVIOUS
<1>1. CASE \E h \in Handles, c \in Chunks, i \in Indices : Acquire(h, c, i)
  BY <1>1, AcquireStep
<1>2. CASE DriverAccepts
  BY <1>2, DriverAcceptsStep
<1>3. CASE DriverRejects
  BY <1>3, DriverRejectsStep
<1>4. CASE \E who \in SUBSET Trackers : Notify(who)
  BY <1>4, NotifyStep
<1>5. CASE Discard
  BY <1>5, DiscardStep
<1>6. CASE \E h \in Handles, t \in Trackers : Drop(h, t)
  BY <1>6, DropStep
<1>7. CASE \E s \in Slots : GpuComplete(s)
  BY <1>7, GpuCompleteStep
<1>8. CASE ReaperTake
  BY <1>8, ReaperTakeStep
<1>9. CASE ReaperRecycle
  BY <1>9, ReaperRecycleStep
<1>10. CASE ReaperExit
  BY <1>10, ReaperExitStep
<1>11. CASE BeginDestroy
  BY <1>11, BeginDestroyStep
<1>12. CASE RequestStop
  BY <1>12, RequestStopStep
<1>13. CASE FreeChunks
  BY <1>13, FreeChunksStep
<1>14. CASE Terminated \/ UNCHANGED vars
  BY <1>14, StutterStep DEF Terminated
<1> QED  BY <1>1, <1>2, <1>3, <1>4, <1>5, <1>6, <1>7, <1>8, <1>9, <1>10, <1>11,
            <1>12, <1>13, <1>14 DEF Next

\* The strengthening is an invariant of every execution.
THEOREM Invariance == Spec => []IInv
  BY InitIInv, NextIInv, PTL DEF Spec

\* Every variable keeps its type.
THEOREM TypeCorrect == Spec => []TypeOK
<1>1. IInv => TypeOK
  BY DEF IInv
<1> QED  BY <1>1, Invariance, PTL

\* acquire, the custom deleter and the reaper never hand an index out twice and never
\* lose one.
THEOREM SlotsAreOwned == Spec => []SlotOwnership
<1>1. IInv => SlotOwnership
  BY DEF IInv
<1> QED  BY <1>1, Invariance, PTL

\* What acquire finds in free_indices may be reset and recorded at once.
THEOREM FreeSlotsAreIdle == Spec => []FreeSlotIsIdle
  BY FreeIsIdle, Invariance, PTL

\* A Handle is never leaked, deleted twice or reused under an owner.
THEOREM HandlesAreInOnePlace == Spec => []OnePlace
<1>1. IInv => OnePlace
  BY DEF IInv
<1> QED  BY <1>1, Invariance, PTL

\* The reaper exits only when every Handle was given back.
THEOREM ShutdownIsClean == Spec => []CleanShutdown
  BY ExitIsClean, Invariance, PTL

-----------------------------------------------------------------------------
(* The pool implements the contract of VkQueries: the two variables of the *)
(* contract are variables of the pool, and every step records, submits,    *)
(* completes or destroys as the contract allows, or leaves both alone.     *)

LEMMA InitContract == Init => Vk!QInit
  BY DEF Init, Vk!QInit

LEMMA AcquireRecords ==
    ASSUME IInv, NEW h \in Handles, NEW c \in Chunks, NEW i \in Indices, Acquire(h, c, i)
    PROVE  Vk!Record(<<c, i>>)
<1>1. ~destroyed /\ destroyed' = destroyed
  BY DEF Acquire, lifeVars, IInv, LifeInv
<1>2. gpu[<<c, i>>] # "pending"
  <2>1. \A k \in Live : slot[k] # <<c, i>>
    BY DEF Acquire, IInv, SlotOwnership, ChunkInv, MayUse, FreeOf
  <2>2. <<c, i>> \in Slots
    BY DEF Slots
  <2> QED  BY <2>1, <2>2 DEF IInv, FlagInv
<1> QED  BY <1>1, <1>2 DEF Acquire, Vk!Record

LEMMA DriverAcceptsSubmits ==
    ASSUME IInv, DriverAccepts
    PROVE  \E S \in SUBSET Slots : Vk!Submit(S)
<1> DEFINE S == {slot[h] : h \in Range(batch)}
<1>1. S \in SUBSET Slots
  BY BatchIsLive
<1>2. \A s \in S : gpu[s] = "recorded"
  BY DEF DriverAccepts, IInv, BatchInv
<1>3. ~destroyed /\ destroyed' = destroyed
  BY DEF DriverAccepts, lifeVars, IInv, LifeInv
<1>4. gpu' = [s \in Slots |-> IF s \in S THEN "pending" ELSE gpu[s]]
  BY DEF DriverAccepts
<1> QED  BY <1>1, <1>2, <1>3, <1>4 DEF Vk!Submit

LEMMA NextContract == IInv /\ [Next]_vars => [Vk!QNext]_(Vk!qvars)
<1> SUFFICES ASSUME IInv, [Next]_vars  PROVE [Vk!QNext]_(Vk!qvars)
  OBVIOUS
<1> USE DEF Vk!QNext, Vk!qvars
<1>1. ASSUME NEW h \in Handles, NEW c \in Chunks, NEW i \in Indices, Acquire(h, c, i)
      PROVE  Vk!QNext
  <2>1. <<c, i>> \in Slots
    BY DEF Slots
  <2> QED  BY <2>1, <1>1, AcquireRecords
<1>2. CASE DriverAccepts
  BY <1>2, DriverAcceptsSubmits
<1>3. ASSUME NEW s \in Slots, GpuComplete(s)
      PROVE  Vk!QNext
  <2>1. ~destroyed /\ destroyed' = destroyed
    BY <1>3, ExitIsClean DEF GpuComplete, lifeVars, IInv, LifeInv, CleanShutdown
  <2> QED  BY <1>3, <2>1 DEF GpuComplete, Vk!Complete
<1>4. CASE FreeChunks
  BY <1>4, ExitIsClean DEF FreeChunks, CleanShutdown, Vk!Destroy
<1>5. CASE \/ DriverRejects \/ Discard \/ ReaperTake \/ ReaperRecycle \/ ReaperExit
           \/ BeginDestroy \/ RequestStop \/ Terminated \/ UNCHANGED vars
  BY <1>5 DEF DriverRejects, Discard, ReaperTake, ReaperRecycle, ReaperExit, BeginDestroy,
              RequestStop, Terminated, vars, lifeVars
<1>6. CASE \/ \E who \in SUBSET Trackers : Notify(who)
           \/ \E h \in Handles, t \in Trackers : Drop(h, t)
  BY <1>6 DEF Notify, Drop, lifeVars
<1> QED  BY <1>1, <1>2, <1>3, <1>4, <1>5, <1>6 DEF Next

\* The pool resets, records, submits and frees queries only as Vulkan allows.
THEOREM ImplementsContract == Spec => VulkanContract
  BY Invariance, InitContract, NextContract, PTL DEF Spec, VulkanContract, Vk!QSpec

=============================================================================
