----------------------------- MODULE FrameContract -----------------------------
(***************************************************************************)
(* What VK_AMD_anti_lag does with the submissions of a frame, as the       *)
(* application sees it: a submission is tracked or not, once and for all;  *)
(* the update at the INPUT stage hands over every submission tracked until *)
(* then; one set is waited for at a time, and only until it is complete.   *)
(* Modes may change and frames may be abandoned at any time: that neither  *)
(* loses a tracked submission nor makes it be waited for twice.            *)
(***************************************************************************)
CONSTANT Work

VARIABLES past,     \* submissions the layer has decided about
          tracked,  \* those tracked and not handed over
          due,      \* those the INPUT update in progress has to hand over
          awaited,  \* the set that is waited for
          done      \* those the GPU completed

fvars == <<past, tracked, due, awaited, done>>

FInit == past = {} /\ tracked = {} /\ due = {} /\ awaited = {} /\ done = {}

\* A submission the layer does not track.
Pass(w) ==
    /\ w \notin past
    /\ past' = past \cup {w}
    /\ UNCHANGED <<tracked, due, awaited, done>>

\* A tracked submission.  It may stand for an earlier one of its queue, and it may
\* still make it into the update in progress.
Track(w, earlier) ==
    /\ w \notin past
    /\ earlier \subseteq tracked
    /\ past' = past \cup {w}
    /\ tracked' = (tracked \ earlier) \cup {w}
    /\ \/ due' = due /\ due \cap earlier = {}
       \/ due' = (due \ earlier) \cup {w}
    /\ UNCHANGED <<awaited, done>>

\* An update at the INPUT stage begins.
Input ==
    /\ due' = tracked
    /\ UNCHANGED <<past, tracked, awaited, done>>

\* It hands over its work when the frame before is over.
HandOver ==
    /\ awaited = {}
    /\ \E W \in SUBSET tracked :
         /\ due \subseteq W
         /\ awaited' = W
         /\ tracked' = tracked \ W
    /\ due' = {}
    /\ UNCHANGED <<past, done>>

\* The frame is over.
Retire ==
    /\ awaited # {}
    /\ awaited \subseteq done
    /\ awaited' = {}
    /\ UNCHANGED <<past, tracked, due, done>>

Complete(w) ==
    /\ done' = done \cup {w}
    /\ UNCHANGED <<past, tracked, due, awaited>>

FNext ==
    \/ \E w \in Work :
         Pass(w) \/ Complete(w) \/ Track(w, {}) \/ \E v \in Work : Track(w, {v})
    \/ Input
    \/ HandOver
    \/ Retire

FSafety == FInit /\ [][FNext]_fvars

\* A frame the GPU has completed is let go.
FSpec == FSafety /\ WF_fvars(Retire)

=============================================================================
