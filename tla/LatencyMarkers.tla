---------------------------- MODULE LatencyMarkers ----------------------------
(***************************************************************************)
(* Latency markers of VK_NV_low_latency2: vkSetLatencyMarkerNV records the *)
(* time of a marker under its present id in a ring of records, and         *)
(* vkGetLatencyTimingsNV reports the times of the ids it is asked about.   *)
(*                                                                         *)
(* The time is taken before the mutex of the ring, so that two threads may *)
(* store in the other order.  The ring knows no swapchains.  The moving    *)
(* averages of the stages are left out: nothing reads them.                *)
(***************************************************************************)
EXTENDS Naturals, Sequences

CONSTANTS Threads,
          PresentIds,
          RingSize,     \* MARKER_RING_SIZE
          MaxTime       \* bound: the clock

\* VkLatencyMarkerNV, as far as it concerns a frame in band.  8 stands for the
\* out-of-band markers.
VkMarker == [SIMULATION_START |-> 0, SIMULATION_END |-> 1, RENDERSUBMIT_START |-> 2,
             RENDERSUBMIT_END |-> 3, PRESENT_START |-> 4, PRESENT_END |-> 5,
             INPUT_SAMPLE |-> 6, TRIGGER_FLASH |-> 7, OUT_OF_BAND |-> 8]

\* Entries of marker_us, of which TRIGGER_FLASH's stays 0.
Slots == 0..7

Times == 0..MaxTime
NoTime == 0

\* FrameMarkers.
Records == [present_id : PresentIds, marker_us : [Slots -> Times]]

Stamps == [present_id : PresentIds, marker : Slots, now_us : Times]

VARIABLES clock,
          ring,     \* marker_ring_
          stamp,    \* stamp[t]: empty, or the marker thread t is about to store
          called    \* history: the markers the application set, with the time

vars == <<clock, ring, stamp, called>>

Init ==
    /\ clock = 1
    /\ ring = <<>>
    /\ stamp = [t \in Threads |-> {}]
    /\ called = {}

-----------------------------------------------------------------------------

Has(id) == \E i \in DOMAIN ring : ring[i].present_id = id

\* push_back makes at most one record too many.
Trimmed(r) == IF Len(r) > RingSize THEN Tail(r) ELSE r

NewRecord(id) == [present_id |-> id, marker_us |-> [m \in Slots |-> NoTime]]

\* get_or_create_marker_record: the record of id is in the ring, and the oldest one has
\* made room for it.
WithRecord(id) == IF Has(id) THEN ring ELSE Trimmed(Append(ring, NewRecord(id)))

\* Out-of-band markers and TRIGGER_FLASH are not stored.
Stored(marker) == marker < 8 /\ marker # VkMarker.TRIGGER_FLASH

\* vkSetLatencyMarkerNV, up to where it has read the clock.
SetLatencyMarker(t, id, marker) ==
    /\ stamp[t] = {}
    /\ Stored(marker)
    /\ stamp' = [stamp EXCEPT
                   ![t] = {[present_id |-> id, marker |-> marker, now_us |-> clock]}]
    /\ called' = called \cup {<<id, marker, clock>>}
    /\ UNCHANGED <<clock, ring>>

\* The rest, under marker_mutex_.
Store(t, s) ==
    /\ stamp[t] = {s}
    /\ LET records == WithRecord(s.present_id) IN
         ring' = [i \in DOMAIN records |->
                    IF records[i].present_id = s.present_id
                    THEN [records[i] EXCEPT !.marker_us[s.marker] = s.now_us]
                    ELSE records[i]]
    /\ stamp' = [stamp EXCEPT ![t] = {}]
    /\ UNCHANGED <<clock, called>>

Tick ==
    /\ clock < MaxTime
    /\ clock' = clock + 1
    /\ UNCHANGED <<ring, stamp, called>>

Next ==
    \/ \E t \in Threads :
         \/ \E id \in PresentIds, marker \in 0..8 : SetLatencyMarker(t, id, marker)
         \/ \E s \in stamp[t] : Store(t, s)
    \/ Tick

Spec == Init /\ [][Next]_vars

-----------------------------------------------------------------------------
(* vkGetLatencyTimingsNV.                                                  *)

\* The entry of marker_us copy_latency_timings reads for each field of a report.
FieldSlot == [inputSample |-> 0, simStart |-> 1, simEnd |-> 2, renderSubmitStart |-> 3,
              renderSubmitEnd |-> 4, presentStart |-> 5, presentEnd |-> 6]

\* A report about id: the caller's own values (of which nothing is known, hence no
\* report) if the ring has no record of it.
Report(id) ==
    {[f \in DOMAIN FieldSlot |-> ring[i].marker_us[FieldSlot[f]]] :
       i \in {j \in DOMAIN ring : ring[j].present_id = id}}

-----------------------------------------------------------------------------
(* Properties.                                                             *)

TypeOK ==
    /\ clock \in Times \ {NoTime}
    /\ ring \in Seq(Records)
    /\ stamp \in [Threads -> SUBSET Stamps]
    /\ called \subseteq PresentIds \X Slots \X Times

\* "The ring is bounded", and an id has one record: a late marker, or another thread,
\* never splits the frame's times over two records that are in the ring together.
RingOK ==
    /\ Len(ring) <= RingSize
    /\ \A i, j \in DOMAIN ring : ring[i].present_id = ring[j].present_id => i = j

\* "Each entry is the host clock time when the app called the corresponding marker, or 0":
\* no time is of another frame or of another marker, although records are dropped and made
\* anew and threads store in any order.
RecordsAreCalls ==
    \A i \in DOMAIN ring, m \in Slots :
       \/ ring[i].marker_us[m] = NoTime
       \/ <<ring[i].present_id, m, ring[i].marker_us[m]>> \in called

\* The marker each field of VkLatencyTimingsFrameReportNV is named for.
FieldMarker == [inputSample |-> VkMarker.INPUT_SAMPLE,
                simStart |-> VkMarker.SIMULATION_START,
                simEnd |-> VkMarker.SIMULATION_END,
                renderSubmitStart |-> VkMarker.RENDERSUBMIT_START,
                renderSubmitEnd |-> VkMarker.RENDERSUBMIT_END,
                presentStart |-> VkMarker.PRESENT_START,
                presentEnd |-> VkMarker.PRESENT_END]

\* "Fill in the marker timings from our per-presentID ring buffer": a time in a report is
\* one at which the application set the marker the field is named for, for that frame.
ReportsMarkers ==
    \A id \in PresentIds : \A report \in Report(id) : \A f \in DOMAIN report :
       report[f] = NoTime \/ <<id, FieldMarker[f], report[f]>> \in called

=============================================================================
