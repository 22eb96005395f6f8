-------------------------- MODULE SubmissionTracking --------------------------
(***************************************************************************)
(* How VK_NV_low_latency2 associates GPU work with a present: every queue  *)
(* keeps a map from present ids to submission spans                        *)
(* (LowLatency2QueueStrategy), and a present collects the spans of its id  *)
(* from all queues, one queue lock at a time                               *)
(* (LowLatency2DeviceStrategy::submit_swapchain_present_id).               *)
(*                                                                         *)
(* The submissions to a queue are numbered as their notify_submit          *)
(* ran: number h stands for the timestamp handle of the h-th one.          *)
(***************************************************************************)
EXTENDS Naturals, Sequences, FiniteSets, Functions

CONSTANTS Queues,
          PresentIds,           \* present ids the application uses, other than 0 (none)
          Threads,              \* threads that call vkQueuePresentKHR
          MaxTracked,           \* MAX_TRACKED_PRESENTS
          MaxSubmits,           \* bound: submissions
          MaxPresents,          \* bound: presents
          SubmitsBeforePresent, \* the application's discipline, see MaySubmit
          NoSpan

Ids == PresentIds \cup {0}
Spans == [head : Nat, tail : Nat]

ASSUME TrackingConstants ==
    /\ 0 \notin PresentIds
    /\ MaxTracked \in Nat \ {0}
    /\ MaxSubmits \in Nat /\ MaxPresents \in Nat
    /\ SubmitsBeforePresent \in BOOLEAN
    /\ NoSpan \notin Spans

VARIABLES
    spans,          \* spans[q][p]: submission_spans of queue q
    stale,          \* stale[q]: stale_present_ids
    outOfBand,      \* queues with is_out_of_band set
    pid,            \* pid[t]: id thread t is presenting with
    todo,           \* todo[t]: queues the present has still to visit
    work,           \* work[t]: the spans collected so far, with their queue
    presenting,     \* threads inside submit_swapchain_present_id
    log,            \* history: log[q]: the id of every submission to q
    upto,           \* history: upto[t][q]: submissions to q when the present began
    presents,       \* number of presents begun
    presented,      \* history: ids presented so far
    attached, evicted   \* history: submissions handed to a monitor, or forgotten

trackVars   == <<spans, stale>>
presentVars == <<pid, todo, work, presenting, upto, presents>>
vars == <<trackVars, outOfBand, presentVars, log, presented, attached, evicted>>

Tracked(q) == {p \in Ids : spans[q][p] # NoSpan}

Init ==
    /\ spans = [q \in Queues |-> [p \in Ids |-> NoSpan]]
    /\ stale = [q \in Queues |-> <<>>]
    /\ outOfBand = {}
    /\ pid = [t \in Threads |-> 0]
    /\ todo = [t \in Threads |-> {}]
    /\ work = [t \in Threads |-> {}]
    /\ presenting = {}
    /\ log = [q \in Queues |-> <<>>]
    /\ upto = [t \in Threads |-> [q \in Queues |-> 0]]
    /\ presents = 0 /\ presented = {} /\ attached = {} /\ evicted = {}

\* All submissions, each as its queue and number.
Submissions == UNION {{q} \X DOMAIN log[q] : q \in Queues}

\* Those a span of queue q and id p stands for, given the log l of q: the ones from
\* its head to its tail.  The handles between the two are not kept.
Covered(q, l, p, span) ==
    {q} \X {h \in DOMAIN l : l[h] = p /\ span.head <= h /\ h <= span.tail}

-----------------------------------------------------------------------------

\* An application whose submissions with an id all come before the present with it.
MaySubmit(p) == SubmitsBeforePresent => p \notin presented

\* try_emplace of the id: a new span that starts and ends with h, or the old one with
\* h as its tail.
Insert(q, p, h) ==
    [spans[q] EXCEPT ![p] = IF @ = NoSpan THEN [head |-> h, tail |-> h]
                                          ELSE [@ EXCEPT !.tail = h]]

\* Mutants of Ring: id 0 enters it too, or no id does.
MutRingZero(q, p) == IF spans[q][p] = NoSpan THEN Append(stale[q], p) ELSE stale[q]
MutRingForgets(q, p) == stale[q]

\* A new non-zero id enters the ring.
Ring(q, p) ==
    IF spans[q][p] = NoSpan /\ p # 0 THEN Append(stale[q], p) ELSE stale[q]

\* Mutants of Overfull and Oldest: off by one, the wrong end.
MutOneMore(ring) == Len(ring) > MaxTracked + 1
MutNewest(ring) == ring[Len(ring)]

Overfull(ring) == Len(ring) > MaxTracked
Oldest(ring) == Head(ring)

\* notify_submit: track the submission, and evict the oldest id of a ring that is
\* too long together with its span.
Submit(q, p) ==
    LET h == Len(log[q]) + 1
        now == Insert(q, p, h)
        ring == Ring(q, p)
        old == Oldest(ring)
        evicts == Overfull(ring)
    IN
    /\ Cardinality(Submissions) < MaxSubmits
    /\ MaySubmit(p)
    /\ log' = [log EXCEPT ![q] = Append(@, p)]
    /\ stale' = [stale EXCEPT ![q] = IF evicts THEN Tail(ring) ELSE ring]
    /\ spans' = [spans EXCEPT ![q] =
                   IF evicts THEN [now EXCEPT ![old] = NoSpan] ELSE now]
    /\ evicted' = IF evicts /\ now[old] # NoSpan
                  THEN evicted \cup Covered(q, log'[q], old, now[old])
                  ELSE evicted
    /\ UNCHANGED <<outOfBand, presentVars, presented, attached>>

\* vkQueueNotifyOutOfBandNV: there is no way back.
NotifyOutOfBand(q) ==
    /\ outOfBand' = outOfBand \cup {q}
    /\ UNCHANGED <<trackVars, presentVars, log, presented, attached, evicted>>

\* notify_present, for one swapchain: the driver was called, collecting starts.
BeginPresent(t, p) ==
    /\ t \notin presenting
    /\ presents < MaxPresents
    /\ presents' = presents + 1
    /\ presenting' = presenting \cup {t}
    /\ pid' = [pid EXCEPT ![t] = p]
    /\ todo' = [todo EXCEPT ![t] = Queues]
    /\ work' = [work EXCEPT ![t] = {}]
    /\ upto' = [upto EXCEPT ![t] = [q \in Queues |-> Len(log[q])]]
    /\ presented' = IF p = 0 THEN presented ELSE presented \cup {p}
    /\ UNCHANGED <<trackVars, outOfBand, log, attached, evicted>>

\* Mutants of Taken and Skips: the span is copied, a span of one submission looks empty.
MutCopied(q, p) == spans
MutEmptySpan(q, p) ==
    q \in outOfBand \/ spans[q][p] = NoSpan \/ spans[q][p].head = spans[q][p].tail

\* The map without the span of id p on queue q.
Taken(q, p) == [spans EXCEPT ![q][p] = NoSpan]

\* Queues a present passes over.
Skips(q, p) == q \in outOfBand \/ spans[q][p] = NoSpan

\* One round of the loop over the queues, under that queue's lock.  The span leaves
\* the map; its id stays in the ring.
Collect(t, q) ==
    LET p == pid[t] IN
    /\ t \in presenting
    /\ q \in todo[t]
    /\ todo' = [todo EXCEPT ![t] = @ \ {q}]
    /\ IF Skips(q, p)
       THEN UNCHANGED <<spans, work>>
       ELSE /\ work' = [work EXCEPT ![t] = @ \cup {[queue |-> q, span |-> spans[q][p]]}]
            /\ spans' = Taken(q, p)
    /\ UNCHANGED <<stale, outOfBand, pid, presenting, upto, presents, log, presented, attached,
                   evicted>>

Gathered(t) == UNION {Covered(w.queue, log[w.queue], pid[t], w.span) : w \in work[t]}

\* The spans go to the monitor of the swapchain (module SwapchainMonitor).
Attach(t) ==
    /\ t \in presenting
    /\ todo[t] = {}
    /\ presenting' = presenting \ {t}
    /\ attached' = attached \cup Gathered(t)
    /\ work' = [work EXCEPT ![t] = {}]
    /\ pid' = [pid EXCEPT ![t] = 0]
    /\ upto' = [upto EXCEPT ![t] = [q \in Queues |-> 0]]
    /\ UNCHANGED <<trackVars, outOfBand, todo, presents, log, presented, evicted>>

-----------------------------------------------------------------------------

Next ==
    \/ \E q \in Queues, p \in Ids : Submit(q, p)
    \/ \E q \in Queues : NotifyOutOfBand(q)
    \/ \E t \in Threads, p \in Ids : BeginPresent(t, p)
    \/ \E t \in Threads, q \in Queues : Collect(t, q)
    \/ \E t \in Threads : Attach(t)

Spec == Init /\ [][Next]_vars

-----------------------------------------------------------------------------
(* Properties.                                                             *)

TypeOK ==
    /\ spans \in [Queues -> [Ids -> Spans \cup {NoSpan}]]
    /\ stale \in [Queues -> Seq(PresentIds)]
    /\ outOfBand \subseteq Queues
    /\ pid \in [Threads -> Ids]
    /\ todo \in [Threads -> SUBSET Queues]
    /\ work \in [Threads -> SUBSET [queue : Queues, span : Spans]]
    /\ presenting \subseteq Threads
    /\ log \in [Queues -> Seq(Ids)]
    /\ upto \in [Threads -> [Queues -> Nat]]
    /\ presents \in 0..MaxPresents
    /\ presented \subseteq PresentIds
    /\ attached \subseteq Submissions
    /\ evicted \subseteq Submissions

\* Without presents the map does not grow without limit: whatever is submitted and
\* collected, a queue tracks at most MAX_TRACKED_PRESENTS ids besides 0.
TrackingIsBounded ==
    \A q \in Queues : /\ Cardinality(Tracked(q) \ {0}) <= MaxTracked
                      /\ Len(stale[q]) <= MaxTracked

\* The ring knows every non-zero id of the map; this is why evicting from the ring
\* bounds the map.
TrackedIsInRing ==
    \A q \in Queues : Tracked(q) \ {0} \subseteq Range(stale[q])

\* A submission is in exactly one place: in the map, in the hands of one present,
\* handed to a monitor, or evicted.  None is lost and none is waited for twice.
Accounted ==
    \A s \in Submissions :
        LET q == s[1]
            p == log[q][s[2]]
            kept == [map |-> spans[q][p] # NoSpan /\ s \in Covered(q, log[q], p, spans[q][p]),
                     attached |-> s \in attached,
                     evicted |-> s \in evicted]
        IN  Cardinality({t \in Threads : s \in Gathered(t)})
              + Cardinality({x \in DOMAIN kept : kept[x]}) = 1

\* When a present has visited all queues, no submission made with its id before it
\* began is still in the map of a queue that counts: a present misses none.
PresentMissesNothing ==
    \A t \in presenting, q \in Queues \ outOfBand :
        q \notin todo[t] /\ spans[q][pid[t]] # NoSpan =>
            spans[q][pid[t]].head > upto[t][q]

\* An eviction hits the id that has been tracked longest ("the last unique
\* MAX_TRACKED_PRESENTS"): its span starts before that of every other id that stays.
EvictsOldest ==
    [][\A q \in Queues, p \in PresentIds : Submit(q, p) =>
         \A o \in PresentIds, n \in PresentIds :
           (spans[q][o] # NoSpan \/ o = p) /\ spans'[q][o] = NoSpan
             /\ spans'[q][n] # NoSpan =>
               spans[q][o] # NoSpan /\ spans[q][o].head < spans'[q][n].head]_vars

=============================================================================
