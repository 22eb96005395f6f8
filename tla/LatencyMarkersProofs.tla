------------------------- MODULE LatencyMarkersProofs -------------------------
(***************************************************************************)
(* The ring of latency markers, for any number of threads, frames and      *)
(* records.  The argument: a time on its way into the ring is one at which *)
(* its marker was set (StampsAreCalls); appending a record keeps the ones  *)
(* before, less the oldest (TrimmedAppend), so that                        *)
(* get_or_create_marker_record leaves one record to an id                  *)
(* (WithRecordIsRing).                                                     *)
(***************************************************************************)
EXTENDS LatencyMarkers, TLAPS

\* What a thread is about to store is what the application called.
StampsAreCalls ==
    \A t \in Threads : \A s \in stamp[t] : <<s.present_id, s.marker, s.now_us>> \in called

IInv == TypeOK /\ RingOK /\ RecordsAreCalls /\ StampsAreCalls

-----------------------------------------------------------------------------
(* get_or_create_marker_record.                                            *)

\* The new record is a record.
LEMMA NewRecordType ==
    ASSUME MaxTime \in Nat \ {0}, NEW id \in PresentIds
    PROVE  NewRecord(id) \in Records
BY DEF NewRecord, Records, NoTime, Times

\* w is the ring q with the record r appended, less at most the oldest one.
Follows(w, q, r) ==
    /\ w \in Seq(Records)
    /\ Len(w) <= RingSize
    /\ \E d \in {0, 1} :
         /\ Len(w) = Len(q) + 1 - d
         /\ \A i \in 1..Len(w) - 1 : i + d \in 1..Len(q) /\ w[i] = q[i + d]
         /\ w[Len(w)] = r

LEMMA TrimmedAppend ==
    ASSUME RingSize \in Nat \ {0}, NEW q \in Seq(Records), NEW r \in Records, Len(q) <= RingSize
    PROVE  Follows(Trimmed(Append(q, r)), q, r)
<1> DEFINE a == Append(q, r)
<1>1. /\ a \in Seq(Records) /\ Len(a) = Len(q) + 1
      /\ \A i \in 1..Len(q) : a[i] = q[i]
      /\ a[Len(q) + 1] = r
  OBVIOUS
<1> HIDE DEF a
<1>2. CASE Len(a) > RingSize
  <2>1. Trimmed(a) = Tail(a)
    BY <1>2 DEF Trimmed
  <2>2. /\ Tail(a) \in Seq(Records) /\ Len(Tail(a)) = Len(q)
        /\ \A i \in 1..Len(q) : Tail(a)[i] = a[i + 1]
    BY <1>1, <1>2
  <2>3. \A i \in 1..Len(q) - 1 : i + 1 \in 1..Len(q) /\ Tail(a)[i] = q[i + 1]
    BY <1>1, <2>2
  <2>4. Len(q) \in Nat /\ Len(q) > 0 /\ Tail(a)[Len(q)] = r
    BY <1>1, <1>2, <2>2
  <2> QED BY <1>1, <2>1, <2>2, <2>3, <2>4 DEF Follows, a
<1>3. CASE ~(Len(a) > RingSize)
  <2>1. Trimmed(a) = a
    BY <1>3 DEF Trimmed
  <2>2. \A i \in 1..Len(a) - 1 : i + 0 \in 1..Len(q) /\ a[i] = q[i + 0]
    BY <1>1
  <2> QED BY <1>1, <1>3, <2>1, <2>2 DEF Follows, a
<1> QED BY <1>2, <1>3

\* The ring that notify_set_latency_marker works on is bounded, consists of records of
\* the ring and perhaps a new one, and has one record for an id.
LEMMA WithRecordIsRing ==
    ASSUME RingSize \in Nat \ {0}, MaxTime \in Nat \ {0}, ring \in Seq(Records), RingOK,
           NEW id \in PresentIds
    PROVE  /\ WithRecord(id) \in Seq(Records)
           /\ Len(WithRecord(id)) <= RingSize
           /\ \A i \in DOMAIN WithRecord(id) :
                \/ WithRecord(id)[i] = NewRecord(id)
                \/ \E j \in DOMAIN ring : WithRecord(id)[i] = ring[j]
           /\ \A i, j \in DOMAIN WithRecord(id) :
                WithRecord(id)[i].present_id = WithRecord(id)[j].present_id => i = j
<1>1. CASE Has(id)
  BY <1>1 DEF WithRecord, RingOK
<1>2. CASE ~Has(id)
  <2> DEFINE w == Trimmed(Append(ring, NewRecord(id)))
  <2>1. NewRecord(id) \in Records /\ NewRecord(id).present_id = id
    BY NewRecordType DEF NewRecord
  <2>2. WithRecord(id) = w
    BY <1>2 DEF WithRecord
  <2>3. Len(ring) <= RingSize
    BY DEF RingOK
  <2>4. Follows(w, ring, NewRecord(id))
    BY <2>1, <2>3, TrimmedAppend
  <2> HIDE DEF w
  <2>5. PICK d \in {0, 1} :
             /\ Len(w) = Len(ring) + 1 - d
             /\ \A i \in 1..Len(w) - 1 : i + d \in 1..Len(ring) /\ w[i] = ring[i + d]
             /\ w[Len(w)] = NewRecord(id)
    BY <2>4 DEF Follows
  <2>6. DOMAIN w = 1..Len(w) /\ DOMAIN ring = 1..Len(ring) /\ Len(w) \in Nat
    BY <2>4 DEF Follows
  <2>7. \A i \in 1..Len(w) - 1 : w[i].present_id # id
    BY <1>2, <2>5, <2>6 DEF Has
  <2>8. ASSUME NEW i \in DOMAIN w, NEW j \in DOMAIN w, w[i].present_id = w[j].present_id
        PROVE  i = j
    <3>1. CASE i = Len(w) \/ j = Len(w)
      BY <2>1, <2>5, <2>6, <2>7, <2>8, <3>1
    <3>2. CASE i \in 1..Len(w) - 1 /\ j \in 1..Len(w) - 1
      <4>1. i + d \in DOMAIN ring /\ j + d \in DOMAIN ring
            /\ ring[i + d].present_id = ring[j + d].present_id
        BY <2>5, <2>6, <2>8, <3>2
      <4>2. i + d = j + d
        BY <4>1 DEF RingOK
      <4> QED BY <2>6, <3>2, <4>2
    <3> QED BY <2>6, <3>1, <3>2
  <2>9. ASSUME NEW i \in DOMAIN w
        PROVE  w[i] = NewRecord(id) \/ \E j \in DOMAIN ring : w[i] = ring[j]
    <3>1. CASE i = Len(w)
      BY <2>5, <3>1
    <3>2. CASE i \in 1..Len(w) - 1
      BY <2>5, <2>6, <3>2
    <3> QED BY <2>6, <3>1, <3>2
  <2> QED BY <2>2, <2>4, <2>8, <2>9 DEF Follows
<1> QED BY <1>1, <1>2

-----------------------------------------------------------------------------
(* The invariant.                                                          *)

LEMMA InitIInv ==
    ASSUME MaxTime \in Nat \ {0}, RingSize \in Nat \ {0}
    PROVE  Init => IInv
BY DEF Init, IInv, TypeOK, RingOK, RecordsAreCalls, StampsAreCalls, Times, NoTime

LEMMA SetIInv ==
    ASSUME MaxTime \in Nat \ {0}, IInv, NEW t \in Threads, NEW id \in PresentIds,
           NEW marker \in 0..8, SetLatencyMarker(t, id, marker)
    PROVE  IInv'
<1> USE DEF SetLatencyMarker, IInv
<1>1. marker \in Slots
  BY DEF Stored, Slots
<1> DEFINE new == [present_id |-> id, marker |-> marker, now_us |-> clock]
<1>2. new \in Stamps /\ <<id, marker, clock>> \in PresentIds \X Slots \X Times
  BY <1>1 DEF Stamps, TypeOK
<1>3. TypeOK'
  BY <1>1, <1>2 DEF TypeOK
<1>4. RingOK'
  BY DEF RingOK
<1>5. RecordsAreCalls'
  BY DEF RecordsAreCalls
<1>6. StampsAreCalls'
  <2> SUFFICES ASSUME NEW u \in Threads, NEW s \in stamp'[u]
               PROVE  <<s.present_id, s.marker, s.now_us>> \in called'
    BY DEF StampsAreCalls
  <2>1. CASE u = t
    BY <2>1 DEF TypeOK
  <2>2. CASE u # t
    BY <2>2 DEF TypeOK, StampsAreCalls
  <2> QED BY <2>1, <2>2
<1> QED BY <1>3, <1>4, <1>5, <1>6

LEMMA StoreIInv ==
    ASSUME MaxTime \in Nat \ {0}, RingSize \in Nat \ {0}, IInv,
           NEW t \in Threads, NEW s \in stamp[t], Store(t, s)
    PROVE  IInv'
<1> DEFINE id == s.present_id
           w == WithRecord(id)
<1>1. s \in Stamps /\ id \in PresentIds /\ s.marker \in Slots /\ s.now_us \in Times
      /\ <<id, s.marker, s.now_us>> \in called
  BY DEF IInv, TypeOK, StampsAreCalls, Stamps
<1>2. /\ w \in Seq(Records) /\ Len(w) <= RingSize
      /\ \A i \in DOMAIN w : w[i] = NewRecord(id) \/ \E j \in DOMAIN ring : w[i] = ring[j]
      /\ \A i, j \in DOMAIN w : w[i].present_id = w[j].present_id => i = j
  BY <1>1, WithRecordIsRing DEF IInv, TypeOK
<1>3. ring' = [i \in DOMAIN w |-> IF w[i].present_id = id
                                  THEN [w[i] EXCEPT !.marker_us[s.marker] = s.now_us]
                                  ELSE w[i]]
  BY DEF Store
<1>4. UNCHANGED <<clock, called>> /\ stamp' = [stamp EXCEPT ![t] = {}]
  BY DEF Store
<1> HIDE DEF w, id
<1>5. DOMAIN w = 1..Len(w) /\ Len(w) \in Nat /\ \A i \in DOMAIN w : w[i] \in Records
  BY <1>2
<1>6. \A i \in DOMAIN w :
        /\ ring'[i] \in Records
        /\ ring'[i].present_id = w[i].present_id
        /\ \A m \in Slots :
             \/ ring'[i].marker_us[m] = w[i].marker_us[m]
             \/ w[i].present_id = id /\ m = s.marker /\ ring'[i].marker_us[m] = s.now_us
  BY <1>1, <1>3, <1>5 DEF Records
<1>7. ring' \in Seq(Records) /\ Len(ring') = Len(w) /\ DOMAIN ring' = DOMAIN w
  BY <1>3, <1>5, <1>6
<1>8. TypeOK'
  BY <1>4, <1>7 DEF IInv, TypeOK
<1>9. RingOK'
  BY <1>2, <1>6, <1>7 DEF RingOK
<1>10. RecordsAreCalls'
  <2> SUFFICES ASSUME NEW i \in DOMAIN w, NEW m \in Slots, ring'[i].marker_us[m] # NoTime
               PROVE  <<ring'[i].present_id, m, ring'[i].marker_us[m]>> \in called
    BY <1>4, <1>7 DEF RecordsAreCalls
  <2>1. CASE w[i].present_id = id /\ m = s.marker /\ ring'[i].marker_us[m] = s.now_us
    BY <1>1, <1>6, <2>1
  <2>2. CASE ring'[i].marker_us[m] = w[i].marker_us[m]
    <3>1. CASE w[i] = NewRecord(id)
      BY <2>2, <3>1 DEF NewRecord
    <3>2. CASE \E j \in DOMAIN ring : w[i] = ring[j]
      BY <1>6, <2>2, <3>2 DEF IInv, RecordsAreCalls
    <3> QED BY <1>2, <3>1, <3>2
  <2> QED BY <1>6, <2>1, <2>2
<1>11. StampsAreCalls'
  BY <1>4 DEF IInv, TypeOK, StampsAreCalls
<1> QED BY <1>8, <1>9, <1>10, <1>11 DEF IInv

LEMMA NextIInv ==
    ASSUME MaxTime \in Nat \ {0}, RingSize \in Nat \ {0}, IInv, [Next]_vars
    PROVE  IInv'
<1>1. CASE \E t \in Threads, id \in PresentIds, marker \in 0..8 : SetLatencyMarker(t, id, marker)
  BY <1>1, SetIInv
<1>2. CASE \E t \in Threads : \E s \in stamp[t] : Store(t, s)
  BY <1>2, StoreIInv
<1>3. CASE Tick
  BY <1>3 DEF Tick, IInv, TypeOK, RingOK, RecordsAreCalls, StampsAreCalls, Times, NoTime
<1>4. CASE UNCHANGED vars
  BY <1>4 DEF vars, IInv, TypeOK, RingOK, RecordsAreCalls, StampsAreCalls
<1> QED BY <1>1, <1>2, <1>3, <1>4 DEF Next

\* Every step of notify_set_latency_marker and get_or_create_marker_record keeps the
\* inductive invariant.
THEOREM MarkersInvariance ==
    ASSUME MaxTime \in Nat \ {0}, RingSize \in Nat \ {0}
    PROVE  Spec => []IInv
<1>1. Init => IInv
  BY InitIInv
<1>2. IInv /\ [Next]_vars => IInv'
  BY NextIInv
<1> QED BY <1>1, <1>2, PTL DEF Spec

\* The variables have their types.
THEOREM MarkersTypeCorrect ==
    ASSUME MaxTime \in Nat \ {0}, RingSize \in Nat \ {0}
    PROVE  Spec => []TypeOK
<1>1. IInv => TypeOK
  BY DEF IInv
<1> QED BY <1>1, MarkersInvariance, PTL

\* get_or_create_marker_record keeps the ring bounded and an id in one record.
THEOREM RingStaysBounded ==
    ASSUME MaxTime \in Nat \ {0}, RingSize \in Nat \ {0}
    PROVE  Spec => []RingOK
<1>1. IInv => RingOK
  BY DEF IInv
<1> QED BY <1>1, MarkersInvariance, PTL

\* notify_set_latency_marker stores the time of each marker in its entry, or the entry is
\* empty, whatever threads and evictions do meanwhile.
THEOREM TimesAreCalls ==
    ASSUME MaxTime \in Nat \ {0}, RingSize \in Nat \ {0}
    PROVE  Spec => []RecordsAreCalls
<1>1. IInv => RecordsAreCalls
  BY DEF IInv
<1> QED BY <1>1, MarkersInvariance, PTL

=============================================================================
