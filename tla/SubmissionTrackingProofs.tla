----------------------- MODULE SubmissionTrackingProofs -----------------------
(***************************************************************************)
(* Proofs about SubmissionTracking, for every number of queues, ids,       *)
(* presenting threads, submissions and presents, and every MaxTracked.     *)
(***************************************************************************)
EXTENDS SubmissionTracking, SequenceTheorems, FiniteSetTheorems, TLAPS

-----------------------------------------------------------------------------
(* The strengthening that makes the safety properties inductive.           *)

\* A span that is still in a map ends with the last submission of its id.
SpanInv ==
    \A q \in Queues, p \in Ids : spans[q][p] # NoSpan =>
        /\ 1 <= spans[q][p].head /\ spans[q][p].head <= spans[q][p].tail
        /\ spans[q][p].tail <= Len(log[q])
        /\ \A h \in 1..Len(log[q]) :
             log[q][h] = p /\ spans[q][p].head <= h => h <= spans[q][p].tail

\* A span that was collected covers only submissions made before it was; a thread has
\* spans in its hands while it presents.
WorkInv ==
    /\ \A t \in Threads : \A w \in work[t] : w.span.tail <= Len(log[w.queue])
    /\ \A t \in Threads \ presenting : work[t] = {}

\* Submission h of queue q is in the map; thread t has it in its hands.
InMap(q, h) ==
    LET span == spans[q][log[q][h]] IN span # NoSpan /\ span.head <= h /\ h <= span.tail
InHands(t, q, h) ==
    \E w \in work[t] : /\ w.queue = q /\ log[q][h] = pid[t]
                       /\ w.span.head <= h /\ h <= w.span.tail

\* Accounted, without cardinalities.
InOnePlace(q, h) ==
    /\ InMap(q, h) \/ <<q, h>> \in attached \/ <<q, h>> \in evicted
         \/ \E t \in Threads : InHands(t, q, h)
    /\ InMap(q, h) => <<q, h>> \notin attached /\ <<q, h>> \notin evicted
    /\ <<q, h>> \notin attached \/ <<q, h>> \notin evicted
    /\ \A t \in Threads : InHands(t, q, h) =>
         /\ ~InMap(q, h) /\ <<q, h>> \notin attached /\ <<q, h>> \notin evicted
         /\ \A u \in Threads : InHands(u, q, h) => u = t

PlaceInv == \A q \in Queues : \A h \in 1..Len(log[q]) : InOnePlace(q, h)

\* The ring never exceeds its limit, and what a present recorded when it began is past.
BoundInv ==
    /\ \A q \in Queues : Len(stale[q]) <= MaxTracked
    /\ \A t \in Threads, q \in Queues : upto[t][q] <= Len(log[q])

IInv == /\ TypeOK /\ SpanInv /\ WorkInv /\ PlaceInv /\ BoundInv
        /\ TrackedIsInRing /\ PresentMissesNothing

\* With the discipline of MaySubmit: the ring has an id once, in the order in which they
\* were first submitted, and an id without a span has been presented.
RingInv ==
    \A q \in Queues :
        /\ \A i, j \in 1..Len(stale[q]) : stale[q][i] = stale[q][j] => i = j
        /\ \A i, j \in 1..Len(stale[q]) :
             /\ i < j
             /\ spans[q][stale[q][i]] # NoSpan /\ spans[q][stale[q][j]] # NoSpan
             => spans[q][stale[q][i]].head < spans[q][stale[q][j]].head
        /\ \A i \in 1..Len(stale[q]) :
             spans[q][stale[q][i]] = NoSpan => stale[q][i] \in presented

PidInv == \A t \in presenting : pid[t] = 0 \/ pid[t] \in presented

DisciplinedInv == IInv /\ RingInv /\ PidInv

-----------------------------------------------------------------------------
(* The operators of the model.                                             *)

LEMMA InRange ==
    ASSUME NEW S, NEW seq \in Seq(S)
    PROVE  \A x : x \in Range(seq) <=> \E i \in 1..Len(seq) : seq[i] = x
BY RangeEquality

\* Submissions, Covered and Gathered, element by element.
LEMMA PairsOf ==
    ASSUME NEW l \in [Queues -> Seq(Ids)]
    PROVE  LET pairs == UNION {{q} \X DOMAIN l[q] : q \in Queues}
           IN  /\ \A q, h : <<q, h>> \in pairs <=> q \in Queues /\ h \in 1..Len(l[q])
               /\ \A s \in pairs : \E q \in Queues : \E h \in 1..Len(l[q]) : s = <<q, h>>
<1>1. \A q \in Queues : DOMAIN l[q] = 1..Len(l[q])
  OBVIOUS
<1> QED  BY <1>1

LEMMA SubmissionsAre ==
    ASSUME TypeOK
    PROVE  /\ \A q, h : <<q, h>> \in Submissions <=> q \in Queues /\ h \in 1..Len(log[q])
           /\ \A s \in Submissions : \E q \in Queues : \E h \in 1..Len(log[q]) : s = <<q, h>>
BY PairsOf DEF TypeOK, Submissions

LEMMA CoveredIs ==
    ASSUME NEW S, NEW l \in Seq(S), NEW q, NEW p, NEW span, NEW k, NEW h
    PROVE  <<k, h>> \in Covered(q, l, p, span) <=>
             k = q /\ h \in 1..Len(l) /\ l[h] = p /\ span.head <= h /\ h <= span.tail
<1>1. DOMAIN l = 1..Len(l)
  OBVIOUS
<1> QED  BY <1>1 DEF Covered

LEMMA GatheredIs ==
    ASSUME TypeOK, NEW t \in Threads, NEW q \in Queues, NEW h \in 1..Len(log[q])
    PROVE  <<q, h>> \in Gathered(t) <=> InHands(t, q, h)
<1>1. \A w \in work[t] : w.queue \in Queues /\ log[w.queue] \in Seq(Ids)
  BY DEF TypeOK
<1>2. \A w \in work[t] :
        <<q, h>> \in Covered(w.queue, log[w.queue], pid[t], w.span) <=>
          w.queue = q /\ log[q][h] = pid[t] /\ w.span.head <= h /\ h <= w.span.tail
  BY <1>1, CoveredIs
<1> QED  BY <1>2 DEF Gathered, InHands

LEMMA GatheredIsSubmitted ==
    ASSUME TypeOK, NEW t \in Threads
    PROVE  Gathered(t) \subseteq Submissions
<1> SUFFICES ASSUME NEW w \in work[t]
             PROVE  Covered(w.queue, log[w.queue], pid[t], w.span) \subseteq Submissions
  BY DEF Gathered
<1>1. w.queue \in Queues /\ log[w.queue] \in Seq(Ids)
  BY DEF TypeOK
<1>2. DOMAIN log[w.queue] = 1..Len(log[w.queue])
  BY <1>1
<1> QED  BY <1>1, <1>2, SubmissionsAre DEF Covered

-----------------------------------------------------------------------------
(* The initial states.                                                     *)

LEMMA InitIInv == Init => DisciplinedInv
<1> SUFFICES ASSUME Init  PROVE DisciplinedInv
  OBVIOUS
<1> USE TrackingConstants DEF Init
<1>1. Submissions = {}
  BY DEF Submissions
<1>2. TypeOK
  BY DEF TypeOK, Ids
<1>3. SpanInv /\ WorkInv /\ PidInv
  BY DEF SpanInv, WorkInv, PidInv
<1>4. PlaceInv /\ BoundInv /\ RingInv
  BY DEF PlaceInv, BoundInv, RingInv
<1>5. TrackedIsInRing /\ PresentMissesNothing
  BY DEF TrackedIsInRing, Tracked, PresentMissesNothing
<1> QED  BY <1>2, <1>3, <1>4, <1>5 DEF DisciplinedInv, IInv

-----------------------------------------------------------------------------
(* notify_submit.                                                          *)

\* What becomes of the log, the map and the ring before anything is evicted.
LEMMA Tracks ==
    ASSUME TypeOK, NEW q \in Queues, NEW p \in Ids, Submit(q, p)
    PROVE  LET n == Len(log[q]) + 1
               now == Insert(q, p, n)
           IN  /\ n \in Nat \ {0}
               /\ log' \in [Queues -> Seq(Ids)]
               /\ \A k \in Queues \ {q} : log'[k] = log[k]
               /\ Len(log'[q]) = n /\ log'[q][n] = p
               /\ \A h \in 1..Len(log[q]) : log'[q][h] = log[q][h]
               /\ now \in [Ids -> Spans \cup {NoSpan}]
               /\ now[p] # NoSpan
               /\ now[p].head = (IF spans[q][p] = NoSpan THEN n ELSE spans[q][p].head)
               /\ now[p].tail = n
               /\ \A i \in Ids \ {p} : now[i] = spans[q][i]
<1> DEFINE n == Len(log[q]) + 1
           now == Insert(q, p, n)
<1>1. log[q] \in Seq(Ids) /\ spans[q] \in [Ids -> Spans \cup {NoSpan}] /\ n \in Nat \ {0}
  BY DEF TypeOK
<1>2. log' = [log EXCEPT ![q] = Append(log[q], p)]
  BY DEF Submit
<1>3. /\ log' \in [Queues -> Seq(Ids)]
      /\ \A k \in Queues \ {q} : log'[k] = log[k]
      /\ log'[q] = Append(log[q], p)
  BY <1>1, <1>2 DEF TypeOK
<1>4. /\ Len(log'[q]) = n /\ log'[q][n] = p
      /\ \A h \in 1..Len(log[q]) : log'[q][h] = log[q][h]
  BY <1>1, <1>3
<1>5. \A i \in Ids \ {p} : now[i] = spans[q][i]
  BY <1>1 DEF Insert
<1>6. now \in [Ids -> Spans \cup {NoSpan}] /\ now[p] # NoSpan /\ now[p].tail = n
      /\ now[p].head = (IF spans[q][p] = NoSpan THEN n ELSE spans[q][p].head)
  <2>1. [head |-> n, tail |-> n] \in Spans
    BY <1>1 DEF Spans
  <2>2. CASE spans[q][p] = NoSpan
    <3>1. now[p] = [head |-> n, tail |-> n]
      BY <1>1, <2>2 DEF Insert
    <3>2. now \in [Ids -> Spans \cup {NoSpan}]
      BY <1>1, <2>1, <2>2 DEF Insert
    <3> QED  BY <2>1, <2>2, <3>1, <3>2, TrackingConstants
  <2>3. CASE spans[q][p] # NoSpan
    <3>1. spans[q][p] \in Spans
      BY <1>1, <2>3
    <3>2. now[p] = [spans[q][p] EXCEPT !.tail = n]
      BY <1>1, <2>3 DEF Insert
    <3>3. now[p] \in Spans /\ now[p].tail = n /\ now[p].head = spans[q][p].head
      BY <1>1, <3>1, <3>2 DEF Spans
    <3>4. now \in [Ids -> Spans \cup {NoSpan}]
      BY <1>1, <1>5, <3>3 DEF Insert
    <3> QED  BY <2>3, <3>3, <3>4, TrackingConstants
  <2> QED  BY <2>2, <2>3
<1> QED  BY <1>1, <1>3, <1>4, <1>5, <1>6

LEMMA Rings ==
    ASSUME TypeOK, BoundInv, TrackedIsInRing, NEW q \in Queues, NEW p \in Ids, Submit(q, p)
    PROVE  LET ring == Ring(q, p)
               new == spans[q][p] = NoSpan /\ p # 0
           IN  /\ ring \in Seq(PresentIds)
               /\ new => ring = Append(stale[q], p)
               /\ ~new => ring = stale[q]
               /\ \A i \in 1..Len(stale[q]) : ring[i] = stale[q][i]
               /\ p # 0 => \E i \in 1..Len(ring) : ring[i] = p
               /\ \A x \in Tracked(q) \ {0} : \E i \in 1..Len(ring) : ring[i] = x
               /\ Overfull(ring) => /\ new /\ Len(ring) = MaxTracked + 1
                                    /\ Len(stale[q]) = MaxTracked
               /\ stale' = [stale EXCEPT ![q] = IF Overfull(ring) THEN Tail(ring) ELSE ring]
               /\ spans' = [spans EXCEPT ![q] =
                              IF Overfull(ring)
                              THEN [Insert(q, p, Len(log[q]) + 1) EXCEPT ![ring[1]] = NoSpan]
                              ELSE Insert(q, p, Len(log[q]) + 1)]
<1> DEFINE ring == Ring(q, p)
           new == spans[q][p] = NoSpan /\ p # 0
<1>1. stale[q] \in Seq(PresentIds) /\ Len(stale[q]) <= MaxTracked /\ MaxTracked \in Nat \ {0}
  BY TrackingConstants DEF TypeOK, BoundInv
<1>2. new => ring = Append(stale[q], p) /\ p \in PresentIds
  BY DEF Ring, Ids
<1>3. ~new => ring = stale[q]
  BY DEF Ring
<1>4. /\ ring \in Seq(PresentIds)
      /\ Len(ring) = IF new THEN Len(stale[q]) + 1 ELSE Len(stale[q])
      /\ \A i \in 1..Len(stale[q]) : ring[i] = stale[q][i]
      /\ new => ring[Len(ring)] = p
  BY <1>1, <1>2, <1>3
<1>5. \A x \in Tracked(q) \ {0} : \E i \in 1..Len(stale[q]) : stale[q][i] = x
  BY <1>1, InRange DEF TrackedIsInRing
<1>6. \A x \in Tracked(q) \ {0} : \E i \in 1..Len(ring) : ring[i] = x
  BY <1>1, <1>4, <1>5
<1>7. p # 0 => \E i \in 1..Len(ring) : ring[i] = p
  <2>1. CASE new
    BY <1>1, <1>4, <2>1
  <2>2. CASE ~new /\ p # 0
    BY <1>6, <2>2 DEF Tracked
  <2> QED  BY <2>1, <2>2
<1>8. Overfull(ring) => new /\ Len(ring) = MaxTracked + 1 /\ Len(stale[q]) = MaxTracked
  BY <1>1, <1>4 DEF Overfull
<1>9. Oldest(ring) = ring[1]
  BY <1>1, <1>4 DEF Oldest
<1>10. /\ stale' = [stale EXCEPT ![q] = IF Overfull(ring) THEN Tail(ring) ELSE ring]
       /\ spans' = [spans EXCEPT ![q] =
                      IF Overfull(ring)
                      THEN [Insert(q, p, Len(log[q]) + 1) EXCEPT ![ring[1]] = NoSpan]
                      ELSE Insert(q, p, Len(log[q]) + 1)]
  BY <1>9 DEF Submit
<1> QED  BY <1>2, <1>3, <1>4, <1>6, <1>7, <1>8, <1>10

LEMMA LogGrows ==
    ASSUME TypeOK, NEW q \in Queues, NEW p \in Ids, Submit(q, p)
    PROVE  \A k \in Queues : /\ Len(log[k]) \in Nat /\ Len(log'[k]) \in Nat
                             /\ Len(log[k]) <= Len(log'[k])
<1>1. /\ log' \in [Queues -> Seq(Ids)]
      /\ \A k \in Queues \ {q} : log'[k] = log[k]
      /\ Len(log'[q]) = Len(log[q]) + 1
  BY Tracks
<1>2. \A k \in Queues : Len(log[k]) \in Nat
  BY DEF TypeOK
<1> QED  BY <1>1, <1>2

LEMMA SubmitType ==
    ASSUME IInv, NEW q \in Queues, NEW p \in Ids, Submit(q, p)
    PROVE  TypeOK' /\ Submissions \subseteq Submissions'
<1> DEFINE n == Len(log[q]) + 1
           now == Insert(q, p, n)
           ring == Ring(q, p)
<1> USE DEF IInv
<1>1. /\ n \in Nat \ {0}
      /\ log' \in [Queues -> Seq(Ids)]
      /\ \A k \in Queues \ {q} : log'[k] = log[k]
      /\ Len(log'[q]) = n
      /\ now \in [Ids -> Spans \cup {NoSpan}]
  BY Tracks
<1>2. /\ ring \in Seq(PresentIds)
      /\ stale' = [stale EXCEPT ![q] = IF Overfull(ring) THEN Tail(ring) ELSE ring]
      /\ spans' = [spans EXCEPT ![q] =
                     IF Overfull(ring) THEN [now EXCEPT ![ring[1]] = NoSpan] ELSE now]
      /\ Overfull(ring) => Len(ring) = MaxTracked + 1 /\ ring[1] = Oldest(ring)
  BY Rings DEF Oldest
<1> HIDE DEF now, ring, n
<1>3. Submissions' = UNION {{k} \X DOMAIN log'[k] : k \in Queues}
  BY DEF Submissions
<1>4. \A k, h : <<k, h>> \in Submissions' <=> k \in Queues /\ h \in 1..Len(log'[k])
  BY <1>1, <1>3, PairsOf
<1>5. Submissions \subseteq Submissions'
  <2> SUFFICES ASSUME NEW k \in Queues, NEW h \in 1..Len(log[k])
               PROVE  <<k, h>> \in Submissions'
    BY SubmissionsAre
  <2>1. h \in 1..Len(log'[k])
    BY LogGrows
  <2> QED  BY <1>4, <2>1
<1>6. spans' \in [Queues -> [Ids -> Spans \cup {NoSpan}]]
  BY <1>1, <1>2 DEF TypeOK
<1>7. stale' \in [Queues -> Seq(PresentIds)]
  <2>1. Overfull(ring) => Tail(ring) \in Seq(PresentIds)
    BY <1>2, TrackingConstants
  <2> QED  BY <1>2, <2>1 DEF TypeOK
<1>8. evicted' \subseteq Submissions'
  <2>1. Covered(q, log'[q], Oldest(ring), now[Oldest(ring)]) \subseteq Submissions'
    BY <1>1, <1>3 DEF Covered
  <2> QED  BY <1>5, <2>1 DEF Submit, TypeOK, now, ring, n
<1>9. /\ UNCHANGED <<outOfBand, pid, todo, work, presenting, upto, presents, presented, attached>>
  BY DEF Submit, presentVars
<1> QED  BY <1>1, <1>5, <1>6, <1>7, <1>8, <1>9 DEF TypeOK

LEMMA SubmitStep ==
    ASSUME IInv, NEW q \in Queues, NEW p \in Ids, Submit(q, p)
    PROVE  IInv'
<1> DEFINE n == Len(log[q]) + 1
           now == Insert(q, p, n)
           ring == Ring(q, p)
           evicts == Overfull(ring)
           old == ring[1]
<1> USE DEF IInv
<1>1. /\ n \in Nat \ {0}
      /\ log' \in [Queues -> Seq(Ids)]
      /\ \A k \in Queues \ {q} : log'[k] = log[k]
      /\ Len(log'[q]) = n /\ log'[q][n] = p
      /\ \A h \in 1..Len(log[q]) : log'[q][h] = log[q][h]
  BY Tracks
<1>2. /\ now \in [Ids -> Spans \cup {NoSpan}]
      /\ now[p] # NoSpan
      /\ now[p].head = (IF spans[q][p] = NoSpan THEN n ELSE spans[q][p].head)
      /\ now[p].tail = n
      /\ \A i \in Ids \ {p} : now[i] = spans[q][i]
  BY Tracks
<1>3. /\ ring \in Seq(PresentIds)
      /\ p # 0 => \E i \in 1..Len(ring) : ring[i] = p
      /\ \A x \in Tracked(q) \ {0} : \E i \in 1..Len(ring) : ring[i] = x
      /\ evicts => Len(ring) = MaxTracked + 1 /\ Oldest(ring) = old
      /\ stale' = [stale EXCEPT ![q] = IF evicts THEN Tail(ring) ELSE ring]
      /\ spans' = [spans EXCEPT ![q] = IF evicts THEN [now EXCEPT ![old] = NoSpan] ELSE now]
  BY Rings DEF Oldest
<1>4. ~evicts => Len(ring) <= MaxTracked
  BY <1>3, TrackingConstants DEF Overfull
<1>5. evicts => /\ old \in PresentIds
                /\ Tail(ring) \in Seq(PresentIds) /\ Len(Tail(ring)) = MaxTracked
                /\ \A i \in 2..Len(ring) : \E j \in 1..Len(Tail(ring)) : Tail(ring)[j] = ring[i]
  <2> SUFFICES ASSUME evicts
               PROVE  /\ old \in PresentIds
                      /\ Tail(ring) \in Seq(PresentIds) /\ Len(Tail(ring)) = MaxTracked
                      /\ \A i \in 2..Len(ring) :
                           \E j \in 1..Len(Tail(ring)) : Tail(ring)[j] = ring[i]
    OBVIOUS
  <2>1. /\ Tail(ring) \in Seq(PresentIds) /\ Len(Tail(ring)) = MaxTracked
        /\ \A j \in 1..MaxTracked : Tail(ring)[j] = ring[j + 1]
    BY <1>3, TrackingConstants
  <2>2. \A i \in 2..Len(ring) : i - 1 \in 1..MaxTracked /\ Tail(ring)[i - 1] = ring[i]
    BY <1>3, <2>1, TrackingConstants
  <2> QED  BY <1>3, <2>1, <2>2, TrackingConstants
<1>6. evicted' = IF evicts /\ now[old] # NoSpan
                 THEN evicted \cup Covered(q, log'[q], old, now[old]) ELSE evicted
  BY <1>3 DEF Submit
<1>7. UNCHANGED <<outOfBand, pid, todo, work, presenting, upto, presents, presented, attached>>
  BY DEF Submit, presentVars
<1>8. TypeOK' /\ Submissions \subseteq Submissions'
  BY SubmitType
<1> HIDE DEF now, ring, evicts, old
\* The span of an id after the step.
<1>9. /\ \A k \in Queues \ {q} : spans'[k] = spans[k]
      /\ \A i \in Ids : spans'[q][i] = IF evicts /\ i = old THEN NoSpan ELSE now[i]
  BY <1>2, <1>3, <1>5 DEF TypeOK, Ids
<1>10. SpanInv'
  <2> SUFFICES ASSUME NEW k \in Queues, NEW i \in Ids, spans'[k][i] # NoSpan
               PROVE  /\ 1 <= spans'[k][i].head /\ spans'[k][i].head <= spans'[k][i].tail
                      /\ spans'[k][i].tail <= Len(log'[k])
                      /\ \A h \in 1..Len(log'[k]) :
                           log'[k][h] = i /\ spans'[k][i].head <= h => h <= spans'[k][i].tail
    BY DEF SpanInv
  <2>1. CASE k # q
    BY <1>1, <1>9, <2>1 DEF SpanInv
  <2>2. CASE k = q /\ i = p
    <3>1. spans'[q][p] = now[p]
      BY <1>9, <2>2
    <3>2. spans[q][p] # NoSpan => 1 <= spans[q][p].head /\ spans[q][p].head <= Len(log[q])
      BY DEF SpanInv, TypeOK, Spans
    <3>3. spans'[q][p].head \in Nat /\ n >= 1 /\ Len(log[q]) = n - 1
      BY <1>1, <1>2, <3>1 DEF TypeOK, Spans
    <3>4. 1 <= spans'[q][p].head /\ spans'[q][p].head <= n
      BY <1>2, <3>1, <3>2, <3>3
    <3> QED  BY <1>1, <1>2, <2>2, <3>1, <3>4
  <2>3. CASE k = q /\ i # p
    <3>1. spans'[q][i] = spans[q][i]
      BY <1>2, <1>9, <2>3
    <3>2. spans[q][i] \in Spans
      BY <2>3, <3>1 DEF TypeOK
    <3>3. \A h \in 1..n : h \in 1..Len(log[q]) \/ h = n
      BY <1>1
    <3>4. /\ 1 <= spans[q][i].head /\ spans[q][i].head <= spans[q][i].tail
          /\ spans[q][i].tail <= Len(log[q]) /\ spans[q][i].tail \in Nat
          /\ \A h \in 1..Len(log[q]) :
               log[q][h] = i /\ spans[q][i].head <= h => h <= spans[q][i].tail
      BY <2>3, <3>1, <3>2 DEF SpanInv, Spans
    <3>5. \A h \in 1..Len(log'[q]) : log'[q][h] = i => h \in 1..Len(log[q]) /\ log[q][h] = i
      BY <1>1, <2>3, <3>3
    <3> QED  BY <1>1, <2>3, <3>1, <3>4, <3>5, LogGrows
  <2> QED  BY <2>1, <2>2, <2>3
<1>11. WorkInv'
  <2>1. \A t \in Threads : \A w \in work[t] : w.queue \in Queues /\ w.span.tail \in Nat
    BY DEF TypeOK, Spans
  <2>2. \A k \in Queues : Len(log[k]) <= Len(log'[k]) /\ Len(log[k]) \in Nat
                             /\ Len(log'[k]) \in Nat
    BY LogGrows
  <2> QED  BY <1>7, <2>1, <2>2 DEF WorkInv
<1>12. BoundInv'
  <2>1. \A k \in Queues : Len(stale'[k]) <= MaxTracked
    BY <1>3, <1>4, <1>5, TrackingConstants DEF TypeOK, BoundInv
  <2>2. \A k \in Queues : Len(log[k]) <= Len(log'[k]) /\ Len(log[k]) \in Nat
                             /\ Len(log'[k]) \in Nat
    BY LogGrows
  <2>3. \A t \in Threads, k \in Queues : upto[t][k] \in Nat
    BY DEF TypeOK
  <2> QED  BY <1>7, <2>1, <2>2, <2>3 DEF BoundInv
<1>13. TrackedIsInRing'
  <2> SUFFICES ASSUME NEW k \in Queues, NEW i \in Ids \ {0}, spans'[k][i] # NoSpan
               PROVE  i \in Range(stale'[k])
    BY DEF TrackedIsInRing, Tracked
  <2>1. CASE k # q
    BY <1>3, <1>9, <2>1 DEF TrackedIsInRing, Tracked, TypeOK
  <2>2. CASE k = q
    <3>1. \E j \in 1..Len(ring) : ring[j] = i
      BY <1>2, <1>3, <1>9, <2>2 DEF Tracked
    <3>2. evicts => i # old
      BY <1>9, <2>2
    <3>3. evicts => \E j \in 1..Len(Tail(ring)) : Tail(ring)[j] = i
      BY <1>3, <1>5, <3>1, <3>2 DEF old
    <3>4. stale'[q] \in Seq(PresentIds) /\ stale'[q] = IF evicts THEN Tail(ring) ELSE ring
      BY <1>3, <1>8 DEF TypeOK
    <3>5. \E j \in 1..Len(stale'[q]) : stale'[q][j] = i
      BY <3>1, <3>3, <3>4
    <3> QED  BY <2>2, <3>4, <3>5, InRange
  <2> QED  BY <2>1, <2>2
<1>14. PresentMissesNothing'
  <2> SUFFICES ASSUME NEW t \in presenting, NEW k \in Queues \ outOfBand,
                      k \notin todo[t], spans'[k][pid[t]] # NoSpan
               PROVE  spans'[k][pid[t]].head > upto[t][k]
    BY <1>7 DEF PresentMissesNothing
  <2>1. pid[t] \in Ids /\ upto[t][k] \in Nat /\ upto[t][k] <= Len(log[k])
    BY DEF TypeOK, BoundInv
  <2>2. CASE k = q /\ pid[t] = p
    BY <1>1, <1>2, <1>9, <2>1, <2>2 DEF PresentMissesNothing
  <2>3. CASE k # q \/ pid[t] # p
    <3>1. spans'[k][pid[t]] = spans[k][pid[t]]
      BY <1>2, <1>9, <2>1, <2>3
    <3> QED  BY <3>1 DEF PresentMissesNothing
  <2> QED  BY <2>2, <2>3
\* Where a submission is.
<1>15. PlaceInv'
  <2> SUFFICES ASSUME NEW k \in Queues, NEW h \in 1..Len(log'[k])  PROVE InOnePlace(k, h)'
    BY DEF PlaceInv
  <2>1. \A t \in Threads : InHands(t, k, h)' <=>
           \E w \in work[t] : /\ w.queue = k /\ log'[k][h] = pid[t]
                              /\ w.span.head <= h /\ h <= w.span.tail
    BY <1>7 DEF InHands
  <2>2. \A k2, h2 : <<k2, h2>> \in evicted' <=>
            \/ <<k2, h2>> \in evicted
            \/ /\ evicts /\ now[old] # NoSpan
               /\ k2 = q /\ h2 \in 1..n /\ log'[q][h2] = old
               /\ now[old].head <= h2 /\ h2 <= now[old].tail
    <3>1. log'[q] \in Seq(Ids)
      BY <1>1
    <3>2. \A k2, h2 : <<k2, h2>> \in Covered(q, log'[q], old, now[old]) <=>
            /\ k2 = q /\ h2 \in 1..n /\ log'[q][h2] = old
            /\ now[old].head <= h2 /\ h2 <= now[old].tail
      <4>1. DOMAIN log'[q] = 1..n
        BY <1>1, <3>1
      <4> QED  BY <4>1 DEF Covered
    <3> QED  BY <1>6, <3>2
  <2>3. CASE k # q
    <3>1. InMap(k, h)' <=> InMap(k, h)
      BY <1>1, <1>9, <2>3 DEF InMap
    <3>2. \A t \in Threads : InHands(t, k, h)' <=> InHands(t, k, h)
      BY <1>1, <2>1, <2>3 DEF InHands
    <3>3. InOnePlace(k, h)
      BY <1>1, <2>3 DEF PlaceInv
    <3> QED  BY <1>7, <2>2, <2>3, <3>1, <3>2, <3>3 DEF InOnePlace
  \* The submission is an earlier one of this queue.
  <2>4. CASE k = q /\ h \in 1..Len(log[q])
    <3>1. log'[q][h] = log[q][h] /\ log[q][h] \in Ids
      BY <1>1, <2>4 DEF TypeOK
    <3>2. \A t \in Threads : InHands(t, q, h)' <=> InHands(t, q, h)
      BY <2>1, <2>4, <3>1 DEF InHands
    <3>3. InOnePlace(q, h)
      BY <2>4 DEF PlaceInv
    <3> DEFINE i == log[q][h]
               kept == now[i] # NoSpan /\ now[i].head <= h /\ h <= now[i].tail
    <3>4. kept <=> InMap(q, h)
      <4>1. CASE i # p
        BY <1>2, <3>1, <4>1 DEF InMap
      <4>2. CASE i = p /\ spans[q][p] = NoSpan
        BY <1>1, <1>2, <2>4, <4>2 DEF InMap
      <4>3. CASE i = p /\ spans[q][p] # NoSpan
        <5>1. spans[q][p] \in Spans /\ h <= n
          BY <1>1, <2>4, <4>3 DEF TypeOK
        <5> QED  BY <1>1, <1>2, <2>4, <4>3, <5>1 DEF InMap, SpanInv
      <4> QED  BY <4>1, <4>2, <4>3
    <3>5. InMap(q, h)' <=> kept /\ ~(evicts /\ i = old)
      BY <1>9, <3>1 DEF InMap
    <3>6. <<q, h>> \in evicted' <=> <<q, h>> \in evicted \/ (kept /\ evicts /\ i = old)
      <4>1. h \in 1..n
        BY <1>1, <2>4
      <4> QED  BY <2>2, <3>1, <4>1
    <3> HIDE DEF kept
    <3> QED  BY <1>7, <2>4, <3>2, <3>3, <3>4, <3>5, <3>6 DEF InOnePlace
  \* It is the new one.
  <2>5. CASE k = q /\ h = n
    <3>1. <<q, n>> \notin attached /\ <<q, n>> \notin evicted
      <4>1. <<q, n>> \notin Submissions
        BY <1>1, SubmissionsAre
      <4> QED  BY <4>1 DEF TypeOK
    <3>2. \A t \in Threads : ~InHands(t, q, h)'
      <4>1. \A t \in Threads : \A w \in work[t] : w.queue = q => ~(n <= w.span.tail)
        BY <1>1 DEF WorkInv, TypeOK, Spans
      <4> QED  BY <2>1, <2>5, <4>1
    <3>3. now[p] \in Spans /\ now[p].head <= n /\ n <= now[p].tail
      <4>1. spans[q][p] # NoSpan => spans[q][p].head <= Len(log[q])
                                      /\ spans[q][p].head \in Nat
        BY DEF SpanInv, TypeOK, Spans
      <4> QED  BY <1>1, <1>2, <4>1
    <3>4. InMap(q, h)' <=> ~(evicts /\ p = old)
      BY <1>1, <1>2, <1>9, <2>5, <3>3 DEF InMap
    <3>5. <<q, h>> \in evicted' <=> evicts /\ p = old
      BY <1>1, <1>2, <2>2, <2>5, <3>1, <3>3
    <3> QED  BY <1>7, <2>5, <3>1, <3>2, <3>4, <3>5 DEF InOnePlace
  <2>6. h \in 1..Len(log[q]) \/ h = n \/ k # q
    BY <1>1
  <2> QED  BY <2>3, <2>4, <2>5, <2>6
<1> QED  BY <1>8, <1>10, <1>11, <1>12, <1>13, <1>14, <1>15

-----------------------------------------------------------------------------
(* Presents, and queues that go out of band.                               *)

\* A step that leaves every submission where it is.
LEMMA SamePlaces ==
    ASSUME PlaceInv, UNCHANGED <<log, attached, evicted>>,
           \A q \in Queues : \A h \in 1..Len(log[q]) :
             /\ InMap(q, h)' <=> InMap(q, h)
             /\ \A u \in Threads : InHands(u, q, h)' <=> InHands(u, q, h)
    PROVE  PlaceInv'
<1> SUFFICES ASSUME NEW q \in Queues, NEW h \in 1..Len(log[q])  PROVE InOnePlace(q, h)'
  BY DEF PlaceInv
<1>1. InOnePlace(q, h)
  BY DEF PlaceInv
<1> QED  BY <1>1 DEF InOnePlace

\* Of what a thread collects nothing is lost, and nothing is in two places.
LEMMA CollectStep ==
    ASSUME IInv, NEW t \in Threads, NEW q \in Queues, Collect(t, q)
    PROVE  IInv'
<1> DEFINE p == pid[t]
           taken == spans[q][p]
<1> USE DEF IInv
<1>1. p \in Ids /\ t \in presenting /\ q \in todo[t]
  BY DEF Collect, TypeOK
<1>2. UNCHANGED <<stale, outOfBand, pid, presenting, upto, presents, log, presented, attached,
                  evicted>>
      /\ todo' = [todo EXCEPT ![t] = @ \ {q}]
  BY DEF Collect
<1>3. CASE Skips(q, p)
  <2>1. UNCHANGED <<spans, work>>
    BY <1>3 DEF Collect
  <2>2. Submissions' = Submissions
    BY <1>2 DEF Submissions
  <2>3. TypeOK'
    BY <1>2, <2>1, <2>2 DEF TypeOK
  <2>4. SpanInv' /\ WorkInv' /\ BoundInv' /\ TrackedIsInRing'
    BY <1>2, <2>1 DEF SpanInv, WorkInv, BoundInv, TrackedIsInRing, Tracked
  <2>5. PlaceInv'
    <3>1. \A k \in Queues : \A h \in 1..Len(log[k]) :
            /\ InMap(k, h)' <=> InMap(k, h)
            /\ \A u \in Threads : InHands(u, k, h)' <=> InHands(u, k, h)
      BY <1>2, <2>1 DEF InMap, InHands
    <3> QED  BY <1>2, <3>1, SamePlaces
  <2>6. PresentMissesNothing'
    <3> SUFFICES ASSUME NEW u \in presenting, NEW k \in Queues \ outOfBand,
                        k \notin todo'[u], spans[k][pid[u]] # NoSpan
                 PROVE  spans[k][pid[u]].head > upto[u][k]
      BY <1>2, <2>1 DEF PresentMissesNothing
    <3>1. CASE u = t /\ k = q
      BY <1>3, <3>1 DEF Skips
    <3>2. CASE ~(u = t /\ k = q)
      <4>1. k \notin todo[u]
        BY <1>2, <3>2 DEF TypeOK
      <4> QED  BY <4>1 DEF PresentMissesNothing
    <3> QED  BY <3>1, <3>2
  <2> QED  BY <2>3, <2>4, <2>5, <2>6
<1>4. CASE ~Skips(q, p)
  <2>1. /\ taken # NoSpan /\ taken \in Spans
        /\ work' = [work EXCEPT ![t] = @ \cup {[queue |-> q, span |-> taken]}]
        /\ spans' = [spans EXCEPT ![q][p] = NoSpan]
    BY <1>1, <1>4 DEF Collect, Skips, Taken, TypeOK
  <2>2. Submissions' = Submissions
    BY <1>2 DEF Submissions
  <2>3. /\ spans' \in [Queues -> [Ids -> Spans \cup {NoSpan}]]
        /\ spans'[q][p] = NoSpan
        /\ \A k \in Queues, i \in Ids : k # q \/ i # p => spans'[k][i] = spans[k][i]
    BY <1>1, <2>1 DEF TypeOK
  <2>4. /\ work' \in [Threads -> SUBSET [queue : Queues, span : Spans]]
        /\ work'[t] = work[t] \cup {[queue |-> q, span |-> taken]}
        /\ \A u \in Threads \ {t} : work'[u] = work[u]
    BY <2>1 DEF TypeOK
  <2>5. TypeOK'
    BY <1>2, <2>2, <2>3, <2>4 DEF TypeOK
  <2>6. SpanInv'
    BY <1>2, <2>3 DEF SpanInv
  <2>7. WorkInv'
    <3>1. taken.tail <= Len(log[q])
      BY <1>1, <2>1 DEF SpanInv
    <3> QED  BY <1>1, <1>2, <2>4, <3>1 DEF WorkInv
  <2>8. BoundInv' /\ TrackedIsInRing'
    BY <1>2, <2>3 DEF BoundInv, TrackedIsInRing, Tracked
  <2>9. PresentMissesNothing'
    <3> SUFFICES ASSUME NEW u \in presenting, NEW k \in Queues \ outOfBand,
                        k \notin todo'[u], spans'[k][pid[u]] # NoSpan
                 PROVE  spans'[k][pid[u]].head > upto[u][k]
      BY <1>2 DEF PresentMissesNothing
    <3>1. pid[u] \in Ids /\ ~(k = q /\ pid[u] = p) /\ ~(k = q /\ u = t)
      BY <2>3 DEF TypeOK
    <3>2. spans'[k][pid[u]] = spans[k][pid[u]] /\ k \notin todo[u]
      BY <1>2, <2>3, <3>1 DEF TypeOK
    <3> QED  BY <3>2 DEF PresentMissesNothing
  <2>10. PlaceInv'
    <3> SUFFICES ASSUME NEW k \in Queues, NEW h \in 1..Len(log[k])  PROVE InOnePlace(k, h)'
      BY <1>2 DEF PlaceInv
    <3> DEFINE moves == k = q /\ log[q][h] = p /\ taken.head <= h /\ h <= taken.tail
    <3>1. log[k][h] \in Ids
      BY DEF TypeOK
    <3>2. InMap(k, h)' <=> InMap(k, h) /\ ~moves
      BY <1>2, <2>3, <3>1 DEF InMap
    <3>3. moves => InMap(k, h)
      BY <2>1 DEF InMap
    <3>4. InHands(t, k, h)' <=> InHands(t, k, h) \/ moves
      <4> DEFINE w0 == [queue |-> q, span |-> taken]
      <4>1. w0.queue = q /\ w0.span = taken
        OBVIOUS
      <4>2. work'[t] = work[t] \cup {w0}
        BY <2>4
      <4> HIDE DEF w0, taken
      <4>3. InHands(t, k, h)' <=>
              \E w \in work[t] \cup {w0} : /\ w.queue = k /\ log[k][h] = p
                                           /\ w.span.head <= h /\ h <= w.span.tail
        BY <1>2, <4>2 DEF InHands
      <4> QED  BY <4>1, <4>3 DEF InHands
    <3>5. \A u \in Threads \ {t} : InHands(u, k, h)' <=> InHands(u, k, h)
      BY <1>2, <2>4 DEF InHands
    <3>6. InOnePlace(k, h)
      BY DEF PlaceInv
    <3> HIDE DEF moves
    <3> QED  BY <1>2, <3>2, <3>3, <3>4, <3>5, <3>6 DEF InOnePlace
  <2> QED  BY <2>5, <2>6, <2>7, <2>8, <2>9, <2>10
<1> QED  BY <1>3, <1>4

LEMMA BeginPresentStep ==
    ASSUME IInv, NEW t \in Threads, NEW p \in Ids, BeginPresent(t, p)
    PROVE  IInv'
<1> USE DEF IInv
<1>1. /\ t \notin presenting /\ presenting' = presenting \cup {t}
      /\ UNCHANGED <<spans, stale, outOfBand, log, attached, evicted>>
      /\ pid' = [pid EXCEPT ![t] = p]
      /\ todo' = [todo EXCEPT ![t] = Queues]
      /\ work' = [work EXCEPT ![t] = {}]
      /\ upto' = [upto EXCEPT ![t] = [q \in Queues |-> Len(log[q])]]
  BY DEF BeginPresent, trackVars
<1>2. work' = work
  BY <1>1 DEF WorkInv, TypeOK
<1>3. \A q \in Queues : Len(log[q]) \in Nat
  BY DEF TypeOK
<1>4. TypeOK'
  <2>1. presents' \in 0..MaxPresents
    BY TrackingConstants DEF BeginPresent, TypeOK
  <2>2. presented' \subseteq PresentIds
    BY DEF BeginPresent, TypeOK, Ids
  <2>3. Submissions' = Submissions
    BY <1>1 DEF Submissions
  <2> QED  BY <1>1, <1>3, <2>1, <2>2, <2>3 DEF TypeOK
<1>5. SpanInv' /\ WorkInv' /\ BoundInv' /\ TrackedIsInRing'
  <2>1. BoundInv'
    BY <1>1, <1>3 DEF BoundInv, TypeOK
  <2> QED  BY <1>1, <1>2, <2>1 DEF SpanInv, WorkInv, TrackedIsInRing, Tracked
<1>6. PlaceInv'
  <2>1. \A u \in Threads, q \in Queues : \A h : InHands(u, q, h)' <=> InHands(u, q, h)
    <3>1. \A u \in Threads \ {t} : pid'[u] = pid[u] /\ work'[u] = work[u]
      BY <1>1 DEF TypeOK
    <3>2. work[t] = {} /\ work'[t] = {}
      BY <1>1, <1>2 DEF WorkInv
    <3> QED  BY <1>1, <3>1, <3>2 DEF InHands
  <2>2. \A q \in Queues : \A h : InMap(q, h)' <=> InMap(q, h)
    BY <1>1 DEF InMap
  <2> QED  BY <1>1, <2>1, <2>2, SamePlaces
<1>7. PresentMissesNothing'
  <2>1. /\ todo'[t] = Queues
        /\ \A u \in Threads \ {t} : pid'[u] = pid[u] /\ todo'[u] = todo[u] /\ upto'[u] = upto[u]
    BY <1>1 DEF TypeOK
  <2> QED  BY <1>1, <2>1 DEF PresentMissesNothing, TypeOK
<1> QED  BY <1>4, <1>5, <1>6, <1>7

LEMMA AttachStep ==
    ASSUME IInv, NEW t \in Threads, Attach(t)
    PROVE  IInv'
<1> USE DEF IInv
<1>1. /\ t \in presenting /\ presenting' = presenting \ {t}
      /\ UNCHANGED <<spans, stale, outOfBand, todo, presents, log, presented, evicted>>
      /\ pid' = [pid EXCEPT ![t] = 0]
      /\ work' = [work EXCEPT ![t] = {}]
      /\ upto' = [upto EXCEPT ![t] = [q \in Queues |-> 0]]
      /\ attached' = attached \cup Gathered(t)
  BY DEF Attach, trackVars
<1>2. TypeOK'
  <2>1. Submissions' = Submissions
    BY <1>1 DEF Submissions
  <2> QED  BY <1>1, <2>1, GatheredIsSubmitted DEF TypeOK, Ids
<1>3. /\ pid'[t] = 0 /\ work'[t] = {} /\ upto'[t] = [q \in Queues |-> 0]
      /\ \A u \in Threads \ {t} : pid'[u] = pid[u] /\ work'[u] = work[u] /\ upto'[u] = upto[u]
  BY <1>1 DEF TypeOK
<1>4. SpanInv' /\ WorkInv' /\ BoundInv' /\ TrackedIsInRing'
  <2>1. \A q \in Queues : Len(log[q]) \in Nat /\ 0 <= Len(log[q])
    BY DEF TypeOK
  <2>2. BoundInv'
    BY <1>1, <1>3, <2>1 DEF BoundInv
  <2>3. WorkInv'
    BY <1>1, <1>3 DEF WorkInv
  <2> QED  BY <1>1, <2>2, <2>3 DEF SpanInv, TrackedIsInRing, Tracked
<1>5. PlaceInv'
  <2> SUFFICES ASSUME NEW q \in Queues, NEW h \in 1..Len(log[q])  PROVE InOnePlace(q, h)'
    BY <1>1 DEF PlaceInv
  <2>1. <<q, h>> \in attached' <=> <<q, h>> \in attached \/ InHands(t, q, h)
    BY <1>1, GatheredIs
  <2>2. ~InHands(t, q, h)'
    BY <1>3 DEF InHands
  <2>3. \A u \in Threads \ {t} : InHands(u, q, h)' <=> InHands(u, q, h)
    BY <1>1, <1>3 DEF InHands
  <2>4. InMap(q, h)' <=> InMap(q, h)
    BY <1>1 DEF InMap
  <2>5. InOnePlace(q, h)
    BY DEF PlaceInv
  <2> QED  BY <1>1, <2>1, <2>2, <2>3, <2>4, <2>5 DEF InOnePlace
<1>6. PresentMissesNothing'
  BY <1>1, <1>3 DEF PresentMissesNothing, TypeOK
<1> QED  BY <1>2, <1>4, <1>5, <1>6

LEMMA OutOfBandStep ==
    ASSUME IInv, NEW q \in Queues, NotifyOutOfBand(q)
    PROVE  IInv'
<1> USE DEF IInv, NotifyOutOfBand, trackVars, presentVars
<1>1. TypeOK'
  BY DEF TypeOK, Submissions
<1>2. SpanInv' /\ WorkInv' /\ BoundInv' /\ TrackedIsInRing'
  BY DEF SpanInv, WorkInv, BoundInv, TrackedIsInRing, Tracked
<1>3. PlaceInv' /\ PresentMissesNothing'
  BY DEF PlaceInv, InOnePlace, InMap, InHands, PresentMissesNothing
<1> QED  BY <1>1, <1>2, <1>3

LEMMA NextIInv == IInv /\ [Next]_vars => IInv'
<1> SUFFICES ASSUME IInv, [Next]_vars  PROVE IInv'
  OBVIOUS
<1>1. CASE \E q \in Queues, p \in Ids : Submit(q, p)
  BY <1>1, SubmitStep
<1>2. CASE \E q \in Queues : NotifyOutOfBand(q)
  BY <1>2, OutOfBandStep
<1>3. CASE \E t \in Threads, p \in Ids : BeginPresent(t, p)
  BY <1>3, BeginPresentStep
<1>4. CASE \E t \in Threads, q \in Queues : Collect(t, q)
  BY <1>4, CollectStep
<1>5. CASE \E t \in Threads : Attach(t)
  BY <1>5, AttachStep
<1>6. CASE UNCHANGED vars
  <2> USE DEF IInv, vars, trackVars, presentVars
  <2>1. TypeOK'
    BY <1>6 DEF TypeOK, Submissions
  <2>2. SpanInv' /\ WorkInv' /\ BoundInv' /\ TrackedIsInRing'
    BY <1>6 DEF SpanInv, WorkInv, BoundInv, TrackedIsInRing, Tracked
  <2>3. PlaceInv' /\ PresentMissesNothing'
    BY <1>6 DEF PlaceInv, InOnePlace, InMap, InHands, PresentMissesNothing
  <2> QED  BY <2>1, <2>2, <2>3
<1> QED  BY <1>1, <1>2, <1>3, <1>4, <1>5, <1>6 DEF Next

-----------------------------------------------------------------------------
(* The safety properties.                                                  *)

\* The inductive invariant holds of every behaviour: notify_submit, the loop of
\* submit_swapchain_present_id and out-of-band queues keep it.
THEOREM Invariance == Spec => []IInv
<1>1. Init => IInv
  BY InitIInv DEF DisciplinedInv
<1> QED  BY <1>1, NextIInv, PTL DEF Spec

\* The map, the ring and what presents hold have their types.
THEOREM TypeCorrect == Spec => []TypeOK
<1>1. IInv => TypeOK
  BY DEF IInv
<1> QED  BY <1>1, Invariance, PTL

\* Every non-zero id of a map is in the ring, so that eviction reaches it.
THEOREM TrackedAreInRing == Spec => []TrackedIsInRing
<1>1. IInv => TrackedIsInRing
  BY DEF IInv
<1> QED  BY <1>1, Invariance, PTL

\* A sequence has no more elements than its length.
LEMMA RangeIsSmall ==
    ASSUME NEW S, NEW seq \in Seq(S)
    PROVE  IsFiniteSet(Range(seq)) /\ Cardinality(Range(seq)) <= Len(seq)
<1>1. Len(seq) \in Nat /\ DOMAIN seq = 1..Len(seq)
  OBVIOUS
<1>2. IsFiniteSet(1..Len(seq)) /\ Cardinality(1..Len(seq)) = Len(seq)
  BY <1>1, FS_Interval
<1>3. seq \in Surjection(1..Len(seq), Range(seq))
  BY <1>1 DEF Surjection, Range
<1> QED  BY <1>2, <1>3, FS_Surjection

\* The ring bounds the map: a queue never tracks more than MAX_TRACKED_PRESENTS ids.
THEOREM TrackingStaysBounded == Spec => []TrackingIsBounded
<1>1. IInv => TrackingIsBounded
  <2> SUFFICES ASSUME IInv, NEW q \in Queues
               PROVE  /\ Cardinality(Tracked(q) \ {0}) <= MaxTracked
                      /\ Len(stale[q]) <= MaxTracked
    BY DEF TrackingIsBounded
  <2>1. stale[q] \in Seq(PresentIds) /\ Len(stale[q]) <= MaxTracked
    BY DEF IInv, TypeOK, BoundInv
  <2>2. IsFiniteSet(Range(stale[q])) /\ Cardinality(Range(stale[q])) <= Len(stale[q])
    BY <2>1, RangeIsSmall
  <2>3. Tracked(q) \ {0} \in SUBSET Range(stale[q])
    BY DEF IInv, TrackedIsInRing
  <2>4. /\ Cardinality(Tracked(q) \ {0}) <= Cardinality(Range(stale[q]))
        /\ Cardinality(Tracked(q) \ {0}) \in Nat /\ Cardinality(Range(stale[q])) \in Nat
    BY <2>2, <2>3, FS_Subset, FS_CardinalityType
  <2>5. Len(stale[q]) \in Nat /\ MaxTracked \in Nat
    BY <2>1, TrackingConstants
  <2> QED  BY <2>1, <2>2, <2>4, <2>5
<1> QED  BY <1>1, Invariance, PTL

\* A present that has visited a queue left nothing there that was submitted with its id
\* before it began.
THEOREM PresentsMissNothing == Spec => []PresentMissesNothing
<1>1. IInv => PresentMissesNothing
  BY DEF IInv
<1> QED  BY <1>1, Invariance, PTL

\* Exactly one of four places: in the words of Accounted.
LEMMA OnePlaceIsAccounted ==
    ASSUME IInv, NEW q \in Queues, NEW h \in 1..Len(log[q]),
           NEW a \in BOOLEAN, NEW b \in BOOLEAN, NEW c \in BOOLEAN, NEW T,
           a <=> InMap(q, h), b <=> <<q, h>> \in attached, c <=> <<q, h>> \in evicted,
           T = {t \in Threads : InHands(t, q, h)}
    PROVE  LET kept == [map |-> a, attached |-> b, evicted |-> c]
           IN  Cardinality(T) + Cardinality({x \in DOMAIN kept : kept[x]}) = 1
<1> DEFINE kept == [map |-> a, attached |-> b, evicted |-> c]
           K == {x \in DOMAIN kept : kept[x]}
<1>1. InOnePlace(q, h)
  BY DEF IInv, PlaceInv
<1>2. DOMAIN kept = {"map", "attached", "evicted"}
      /\ kept["map"] = a /\ kept["attached"] = b /\ kept["evicted"] = c
  OBVIOUS
<1>3. \A x : Cardinality({x}) = 1
  BY FS_Singleton
<1>4. Cardinality({}) = 0
  BY FS_EmptySet
<1> HIDE DEF kept
<1>5. ASSUME NEW t \in Threads, InHands(t, q, h)
      PROVE  Cardinality(T) + Cardinality(K) = 1
  <2>1. T = {t}
    BY <1>1, <1>5 DEF InOnePlace
  <2>2. ~a /\ ~b /\ ~c
    BY <1>1, <1>5 DEF InOnePlace
  <2>3. K = {}
    BY <1>2, <2>2, Zenon
  <2>4. Cardinality(T) = 1 /\ Cardinality(K) = 0
    BY <1>3, <1>4, <2>1, <2>3
  <2> HIDE DEF K
  <2> QED  BY <2>4
<1>6. ASSUME ~\E t \in Threads : InHands(t, q, h)
      PROVE  Cardinality(T) + Cardinality(K) = 1
  <2>1. T = {}
    BY <1>6
  <2>2. \E x : K = {x}
    <3>1. CASE a
      <4>1. ~b /\ ~c
        BY <1>1, <3>1 DEF InOnePlace
      <4>2. K = {"map"}
        BY <1>2, <3>1, <4>1, Zenon
      <4> QED  BY <4>2
    <3>2. CASE b
      <4>1. ~a /\ ~c
        BY <1>1, <3>2 DEF InOnePlace
      <4>2. K = {"attached"}
        BY <1>2, <3>2, <4>1, Zenon
      <4> QED  BY <4>2
    <3>3. CASE c
      <4>1. ~a /\ ~b
        BY <1>1, <3>3 DEF InOnePlace
      <4>2. K = {"evicted"}
        BY <1>2, <3>3, <4>1, Zenon
      <4> QED  BY <4>2
    <3> QED  BY <1>1, <1>6, <3>1, <3>2, <3>3 DEF InOnePlace
  <2>3. Cardinality(T) = 0 /\ Cardinality(K) = 1
    BY <1>3, <1>4, <2>1, <2>2
  <2> HIDE DEF K
  <2> QED  BY <2>3
<1>7. Cardinality(T) + Cardinality(K) = 1
  BY <1>5, <1>6
<1> QED  BY <1>7 DEF kept

\* Every submission is in exactly one place, whatever submits, presents and evictions do
\* at the same time: none is lost, none is handed over twice.
THEOREM AllAccounted == Spec => []Accounted
<1>1. IInv => Accounted
  <2> SUFFICES ASSUME IInv  PROVE Accounted
    OBVIOUS
  <2>1. TypeOK
    BY DEF IInv
  <2> SUFFICES ASSUME NEW q \in Queues, NEW h \in 1..Len(log[q])
               PROVE  LET p == log[q][h]
                          kept == [map |-> spans[q][p] # NoSpan
                                             /\ <<q, h>> \in Covered(q, log[q], p, spans[q][p]),
                                   attached |-> <<q, h>> \in attached,
                                   evicted |-> <<q, h>> \in evicted]
                      IN  Cardinality({t \in Threads : <<q, h>> \in Gathered(t)})
                            + Cardinality({x \in DOMAIN kept : kept[x]}) = 1
    BY <2>1, SubmissionsAre DEF Accounted
  <2> DEFINE p == log[q][h]
             a == spans[q][p] # NoSpan /\ <<q, h>> \in Covered(q, log[q], p, spans[q][p])
             b == <<q, h>> \in attached
             c == <<q, h>> \in evicted
             T == {t \in Threads : <<q, h>> \in Gathered(t)}
             kept == [map |-> a, attached |-> b, evicted |-> c]
  <2>2. a <=> InMap(q, h)
    <3>1. log[q] \in Seq(Ids)
      BY <2>1 DEF TypeOK
    <3> QED  BY <3>1, CoveredIs DEF InMap
  <2>3. T = {t \in Threads : InHands(t, q, h)}
    BY <2>1, GatheredIs
  <2>4. a \in BOOLEAN /\ b \in BOOLEAN /\ c \in BOOLEAN
    OBVIOUS
  <2>5. b <=> <<q, h>> \in attached
    OBVIOUS
  <2>6. c <=> <<q, h>> \in evicted
    OBVIOUS
  <2> HIDE DEF a, b, c, T
  <2>7. Cardinality(T) + Cardinality({x \in DOMAIN kept : kept[x]}) = 1
    BY <2>2, <2>3, <2>4, <2>5, <2>6, OnePlaceIsAccounted
  <2> QED  BY <2>7 DEF a, b, c, T
<1> QED  BY <1>1, Invariance, PTL

-----------------------------------------------------------------------------
(* What the discipline of the application adds: the ring is in the order   *)
(* of submission.                                                          *)

LEMMA SubmitRing ==
    ASSUME SubmitsBeforePresent, DisciplinedInv, NEW q \in Queues, NEW p \in Ids, Submit(q, p)
    PROVE  RingInv'
<1> DEFINE n == Len(log[q]) + 1
           now == Insert(q, p, n)
           ring == Ring(q, p)
           evicts == Overfull(ring)
           new == spans[q][p] = NoSpan /\ p # 0
<1> USE DEF DisciplinedInv, IInv
<1>1. /\ now \in [Ids -> Spans \cup {NoSpan}]
      /\ now[p] # NoSpan
      /\ now[p].head = (IF spans[q][p] = NoSpan THEN n ELSE spans[q][p].head)
      /\ \A i \in Ids \ {p} : now[i] = spans[q][i]
  BY Tracks
<1>2. /\ ring \in Seq(PresentIds)
      /\ new => ring = Append(stale[q], p)
      /\ ~new => ring = stale[q]
      /\ evicts => new /\ Len(ring) = MaxTracked + 1
      /\ stale' = [stale EXCEPT ![q] = IF evicts THEN Tail(ring) ELSE ring]
      /\ spans' = [spans EXCEPT ![q] = IF evicts THEN [now EXCEPT ![ring[1]] = NoSpan] ELSE now]
  BY Rings
<1>3. p \notin presented /\ UNCHANGED presented
  BY DEF Submit, MaySubmit
<1>4. stale[q] \in Seq(PresentIds) /\ Len(stale[q]) \in Nat /\ n \in Nat /\ Len(log[q]) \in Nat
  BY DEF TypeOK
\* An id that has no span was presented, or is not in the ring.
<1>5. new => \A i \in 1..Len(stale[q]) : stale[q][i] # p
  BY <1>3 DEF RingInv
<1>6. \A i \in Ids : spans[q][i] # NoSpan => spans[q][i].head \in Nat /\ spans[q][i].head < n
  BY <1>4 DEF SpanInv, TypeOK, Spans
<1> HIDE DEF now, ring, evicts, n
\* The ring before an eviction has the three properties, with the new span.
<1> DEFINE Ordered(r, m) ==
      /\ \A i, j \in 1..Len(r) : r[i] = r[j] => i = j
      /\ \A i, j \in 1..Len(r) :
           i < j /\ m[r[i]] # NoSpan /\ m[r[j]] # NoSpan => m[r[i]].head < m[r[j]].head
      /\ \A i \in 1..Len(r) : m[r[i]] = NoSpan => r[i] \in presented
<1>7. Ordered(ring, now)
  <2>0. Ordered(stale[q], spans[q])
    BY DEF RingInv
  <2>1. CASE new
    <3>1. /\ Len(ring) = Len(stale[q]) + 1 /\ ring[Len(ring)] = p
          /\ \A i \in 1..Len(stale[q]) : ring[i] = stale[q][i] /\ ring[i] # p /\ ring[i] \in Ids
      BY <1>2, <1>4, <1>5, <2>1 DEF Ids
    <3>2. \A i \in 1..Len(ring) : i \in 1..Len(stale[q]) \/ i = Len(ring)
      BY <1>4, <3>1
    <3>3. now[p].head = n /\ \A i \in 1..Len(stale[q]) : now[ring[i]] = spans[q][stale[q][i]]
      BY <1>1, <2>1, <3>1
    <3>4. \A i, j \in 1..Len(ring) : ring[i] = ring[j] => i = j
      BY <2>0, <3>1, <3>2
    <3>5. \A i, j \in 1..Len(ring) :
            i < j /\ now[ring[i]] # NoSpan /\ now[ring[j]] # NoSpan
              => now[ring[i]].head < now[ring[j]].head
      <4> SUFFICES ASSUME NEW i \in 1..Len(ring), NEW j \in 1..Len(ring), i < j,
                          now[ring[i]] # NoSpan, now[ring[j]] # NoSpan
                   PROVE  now[ring[i]].head < now[ring[j]].head
        OBVIOUS
      <4>1. i \in 1..Len(stale[q])
        BY <1>4, <3>1
      <4>2. CASE j \in 1..Len(stale[q])
        BY <2>0, <3>3, <4>1, <4>2
      <4>3. CASE j = Len(ring)
        BY <1>6, <3>1, <3>3, <4>1, <4>3
      <4> QED  BY <3>2, <4>2, <4>3
    <3>6. \A i \in 1..Len(ring) : now[ring[i]] = NoSpan => ring[i] \in presented
      BY <1>1, <2>0, <3>1, <3>2, <3>3
    <3> QED  BY <3>4, <3>5, <3>6
  <2>2. CASE ~new
    <3>1. ring = stale[q]
      BY <1>2, <2>2
    <3>2. \A i \in 1..Len(ring) : ring[i] \in PresentIds
      BY <1>2
    <3>3. \A i \in 1..Len(ring) : /\ ring[i] \in Ids /\ ring[i] # 0
                                  /\ now[ring[i]] = NoSpan <=> spans[q][ring[i]] = NoSpan
                                  /\ now[ring[i]] # NoSpan =>
                                       now[ring[i]].head = spans[q][ring[i]].head
      BY <1>1, <2>2, <3>2, TrackingConstants DEF Ids
    <3> QED  BY <2>0, <3>1, <3>3
  <2> QED  BY <2>1, <2>2
<1>8. Ordered(stale'[q], spans'[q])
  <2>1. CASE ~evicts
    BY <1>2, <1>7, <2>1 DEF TypeOK
  <2>2. CASE evicts
    <3> DEFINE r == Tail(ring)
               m == [now EXCEPT ![ring[1]] = NoSpan]
    <3>1. /\ Len(ring) = MaxTracked + 1 /\ MaxTracked \in Nat
          /\ Len(r) = MaxTracked /\ \A i \in 1..Len(r) : r[i] = ring[i + 1]
      BY <1>2, <2>2, TrackingConstants
    <3>2. \A i \in 1..Len(r) : /\ i + 1 \in 1..Len(ring) /\ 1 \in 1..Len(ring)
                               /\ i + 1 # 1 /\ r[i] # ring[1]
      BY <1>7, <3>1
    <3>3. \A i \in 1..Len(r) : m[r[i]] = now[ring[i + 1]] /\ r[i] = ring[i + 1]
      <4>1. \A i \in 1..Len(ring) : ring[i] \in Ids
        BY <1>2 DEF Ids
      <4> QED  BY <1>1, <3>1, <3>2, <4>1
    <3>4. stale'[q] = r /\ spans'[q] = m
      BY <1>2, <2>2 DEF TypeOK
    <3> HIDE DEF r, m
    <3>5. Ordered(r, m)
      <4>1. \A i, j \in 1..Len(r) : i < j => i + 1 < j + 1
        BY <3>1
      <4>2. \A i, j \in 1..Len(r) : i + 1 = j + 1 => i = j
        BY <3>1
      <4>3. \A i, j \in 1..Len(r) : r[i] = r[j] => i = j
        BY <1>7, <3>2, <3>3, <4>2
      <4>4. \A i, j \in 1..Len(r) :
              i < j /\ m[r[i]] # NoSpan /\ m[r[j]] # NoSpan => m[r[i]].head < m[r[j]].head
        BY <1>7, <3>2, <3>3, <4>1
      <4>5. \A i \in 1..Len(r) : m[r[i]] = NoSpan => r[i] \in presented
        BY <1>7, <3>2, <3>3
      <4> QED  BY <4>3, <4>4, <4>5
    <3> QED  BY <3>4, <3>5
  <2> QED  BY <2>1, <2>2
<1>9. \A k \in Queues \ {q} : stale'[k] = stale[k] /\ spans'[k] = spans[k]
  BY <1>2 DEF TypeOK
<1> QED  BY <1>3, <1>8, <1>9 DEF RingInv

\* What is collected was presented.
LEMMA NextDisciplined ==
    ASSUME SubmitsBeforePresent, DisciplinedInv, [Next]_vars
    PROVE  DisciplinedInv'
<1> USE DEF DisciplinedInv
<1>1. IInv'
  BY NextIInv
<1>2. CASE \E q \in Queues, p \in Ids : Submit(q, p)
  <2>1. RingInv'
    BY <1>2, SubmitRing
  <2>2. PidInv'
    BY <1>2 DEF Submit, presentVars, PidInv
  <2> QED  BY <1>1, <2>1, <2>2
<1>3. CASE \E t \in Threads, q \in Queues : Collect(t, q)
  <2> PICK t \in Threads, q \in Queues : Collect(t, q)
    BY <1>3
  <2>1. /\ t \in presenting /\ pid[t] \in Ids
        /\ UNCHANGED <<stale, pid, presenting, presented>>
        /\ spans' = spans \/ spans' = [spans EXCEPT ![q][pid[t]] = NoSpan]
    BY DEF Collect, Taken, IInv, TypeOK
  <2>2. PidInv'
    BY <2>1 DEF PidInv
  <2>3. \A k \in Queues, i \in Ids :
          spans'[k][i] = spans[k][i] \/ (spans'[k][i] = NoSpan /\ i = pid[t])
    <3>1. CASE spans' = spans
      BY <3>1
    <3>2. CASE spans' = [spans EXCEPT ![q][pid[t]] = NoSpan]
      <4>1. \A k \in Queues, i \in Ids :
              spans'[k][i] = IF k = q /\ i = pid[t] THEN NoSpan ELSE spans[k][i]
        BY <2>1, <3>2 DEF IInv, TypeOK
      <4> QED  BY <4>1
    <3> QED  BY <2>1, <3>1, <3>2
  <2>4. \A k \in Queues : \A i \in 1..Len(stale[k]) : stale[k][i] \in Ids \ {0}
    BY TrackingConstants DEF IInv, TypeOK, Ids
  <2>5. pid[t] = 0 \/ pid[t] \in presented
    BY <2>1 DEF PidInv
  <2>6. RingInv'
    BY <2>1, <2>3, <2>4, <2>5 DEF RingInv
  <2> QED  BY <1>1, <2>2, <2>6
<1>4. CASE \E t \in Threads, p \in Ids : BeginPresent(t, p)
  <2>1. UNCHANGED <<spans, stale>> /\ presented \subseteq presented'
    BY <1>4 DEF BeginPresent, trackVars
  <2>2. RingInv'
    BY <2>1 DEF RingInv
  <2>3. PidInv'
    BY <1>4 DEF BeginPresent, PidInv, IInv, TypeOK
  <2> QED  BY <1>1, <2>2, <2>3
<1>5. CASE \E t \in Threads : Attach(t)
  <2>1. RingInv'
    BY <1>5 DEF Attach, trackVars, RingInv
  <2>2. PidInv'
    BY <1>5 DEF Attach, PidInv, IInv, TypeOK
  <2> QED  BY <1>1, <2>1, <2>2
<1>6. CASE (\E q \in Queues : NotifyOutOfBand(q)) \/ UNCHANGED vars
  BY <1>1, <1>6 DEF NotifyOutOfBand, vars, trackVars, presentVars, RingInv, PidInv
<1> QED  BY <1>2, <1>3, <1>4, <1>5, <1>6 DEF Next

LEMMA SubmitEvictsOldest ==
    ASSUME SubmitsBeforePresent, DisciplinedInv, NEW q \in Queues, NEW p \in PresentIds,
           Submit(q, p), NEW o \in PresentIds, NEW i \in PresentIds,
           spans[q][o] # NoSpan \/ o = p, spans'[q][o] = NoSpan, spans'[q][i] # NoSpan
    PROVE  spans[q][o] # NoSpan /\ spans[q][o].head < spans'[q][i].head
<1> DEFINE n == Len(log[q]) + 1
           now == Insert(q, p, n)
           ring == Ring(q, p)
           evicts == Overfull(ring)
           new == spans[q][p] = NoSpan /\ p # 0
<1> USE DEF DisciplinedInv, IInv
<1>1. p \in Ids /\ o \in Ids /\ i \in Ids
  BY DEF Ids
<1>2. /\ now \in [Ids -> Spans \cup {NoSpan}]
      /\ now[p] # NoSpan
      /\ now[p].head = (IF spans[q][p] = NoSpan THEN n ELSE spans[q][p].head)
      /\ \A k \in Ids \ {p} : now[k] = spans[q][k]
  BY <1>1, Tracks
<1>3. /\ ring \in Seq(PresentIds)
      /\ new => ring = Append(stale[q], p)
      /\ \A k \in Tracked(q) \ {0} : \E j \in 1..Len(ring) : ring[j] = k
      /\ evicts => new /\ Len(ring) = MaxTracked + 1 /\ Len(stale[q]) = MaxTracked
      /\ spans' = [spans EXCEPT ![q] = IF evicts THEN [now EXCEPT ![ring[1]] = NoSpan] ELSE now]
  BY <1>1, Rings
<1>4. /\ stale[q] \in Seq(PresentIds) /\ n \in Nat /\ Len(log[q]) \in Nat
      /\ MaxTracked \in Nat \ {0}
  BY TrackingConstants DEF TypeOK
<1>5. \A k \in Ids : spans[q][k] # NoSpan => spans[q][k].head \in Nat /\ spans[q][k].head < n
  BY <1>4 DEF SpanInv, TypeOK, Spans
<1>6. p \notin presented
  BY DEF Submit, MaySubmit
<1> HIDE DEF now, ring, n
\* Only the front of the ring loses its span.
<1>7. evicts /\ o = ring[1]
  BY <1>1, <1>2, <1>3 DEF TypeOK
<1>8. /\ new /\ ring[1] = stale[q][1] /\ 1 \in 1..Len(stale[q])
      /\ Len(ring) = Len(stale[q]) + 1 /\ ring[Len(ring)] = p
      /\ \A j \in 1..Len(stale[q]) : ring[j] = stale[q][j]
  BY <1>3, <1>4, <1>7
<1>9. o # p
  BY <1>6, <1>7, <1>8 DEF RingInv
<1>10. spans[q][o] # NoSpan /\ i # o
  BY <1>1, <1>2, <1>3, <1>7, <1>9 DEF TypeOK
<1>11. spans'[q][i] = now[i]
  BY <1>1, <1>2, <1>3, <1>7, <1>10 DEF TypeOK
<1>12. CASE i = p
  BY <1>1, <1>2, <1>5, <1>8, <1>10, <1>11, <1>12
<1>13. CASE i # p
  <2>1. now[i] = spans[q][i] /\ spans[q][i] # NoSpan /\ i # 0
    BY <1>1, <1>2, <1>11, <1>13, TrackingConstants
  <2>2. PICK j \in 1..Len(ring) : ring[j] = i
    BY <1>1, <1>3, <2>1 DEF Tracked
  <2>3. j \in 1..Len(stale[q]) /\ j > 1 /\ stale[q][j] = i
    BY <1>4, <1>7, <1>8, <1>10, <1>13, <2>2
  <2> QED  BY <1>7, <1>8, <1>10, <1>11, <2>1, <2>3 DEF RingInv
<1> QED  BY <1>12, <1>13

\* Applications that submit with an id before they present it: notify_submit evicts the id
\* that has been tracked longest, whatever was collected in between.
THEOREM OldestIsEvicted ==
    ASSUME SubmitsBeforePresent
    PROVE  Spec => EvictsOldest
<1>1. DisciplinedInv /\ [Next]_vars => DisciplinedInv'
  BY NextDisciplined
<1>2. DisciplinedInv /\ [Next]_vars =>
        [\A q \in Queues, p \in PresentIds : Submit(q, p) =>
           \A o \in PresentIds, n \in PresentIds :
             (spans[q][o] # NoSpan \/ o = p) /\ spans'[q][o] = NoSpan
               /\ spans'[q][n] # NoSpan =>
                 spans[q][o] # NoSpan /\ spans[q][o].head < spans'[q][n].head]_vars
  BY SubmitEvictsOldest
<1> QED  BY <1>1, <1>2, InitIInv, PTL DEF Spec, EvictsOldest

=============================================================================
