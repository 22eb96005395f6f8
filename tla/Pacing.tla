-------------------------------- MODULE Pacing --------------------------------
(***************************************************************************)
(* The release time of a frame.  Tier 1 is PredictiveQueuePacer; Tier 2 is *)
(* DisplayDeadlinePacer, which runs a Tier 1 pacer as its core and then    *)
(* waits for the display.  One thread calls pace; the thread that creates  *)
(* swapchains may set the refresh cycle and the present mode while it      *)
(* sleeps, without a lock.                                                 *)
(*                                                                         *)
(* Time is a number.  The moving averages are abstracted to any values,    *)
(* and so is the PI term, to any correction of up to half a refresh cycle: *)
(* what is checked holds whatever they are.                                *)
(***************************************************************************)
EXTENDS Integers, FiniteSetsExt

CONSTANTS Tiers,            \* the backends to model, of 1 and 2
          Delays,           \* minimum intervals the application asks for
          LayerCaps,        \* intervals of LOW_LATENCY_LAYER_FPS_LIMIT, 0 = not set
          MaxDelay,         \* bound: the longest of either
          Refresh,          \* the display's refresh cycle
          Window,           \* WINDOW_SIZE
          Late,             \* a sleep ends at most this late
          Skew,             \* a calibrated GPU time is at most this far ahead
          Start,            \* the time the pacer is created
          MaxIdle,          \* bound: time between two frames
          RenderTimes,      \* GPU render times, and predictions of them
          MaxLag,           \* bound: CPU lags
          MaxTime,          \* bound: no frame begins later
          None

ASSUME PacingConstants ==
    /\ Tiers \subseteq {1, 2}
    /\ Delays \subseteq 0..MaxDelay /\ LayerCaps \subseteq 0..MaxDelay /\ MaxDelay \in Nat
    /\ Refresh \in Nat \ {0} /\ Window \in Nat \ {0}
    /\ Late \in Nat /\ Skew \in Nat
    /\ MaxIdle \in Nat /\ MaxLag \in Nat /\ MaxTime \in Nat
    /\ RenderTimes \subseteq Nat \ {0}
    /\ Start \in Refresh..MaxTime
    /\ None \notin Int

Fields == {"refresh", "vrr", "anchor"}

VARIABLES
    tier, layerCap,     \* fixed when the pacer is made
    mailbox,            \* present_mode_ is MAILBOX or IMMEDIATE, see Init
    now,                \* the clock when the pacing thread last read it
    at,                 \* the pacing thread: "idle", "jit" or "vblank" (sleeping)
    deadline,           \* what it sleeps for
    delay,              \* min_delay of the frame
    releasePrev,        \* the core's release_prev
    samples,            \* render_window_count
    refresh, vrr, anchor,   \* refresh_interval_, is_vrr_, vblank_anchor_
    unwritten,          \* fields of the refresh cycle set_swapchain has still to write
    bound,              \* swapchain_ is set
    fed,                \* the PI loop has had an error to correct
    arrival, earliest,  \* history: when the frame began, release_prev + min_delay then
    last, owed          \* history: last time returned, the first one + all delays since

fixed   == <<tier, layerCap, mailbox>>
display == <<refresh, vrr, unwritten, bound>>
frame   == <<delay, arrival, earliest>>
history == <<last, owed>>
vars == <<fixed, now, at, deadline, frame, releasePrev, samples, display, anchor, fed, history>>

\* A present mode is set right after the pacer is made, before any frame, or never.
Init ==
    /\ tier \in Tiers /\ layerCap \in LayerCaps
    /\ mailbox \in IF tier = 2 THEN BOOLEAN ELSE {FALSE}
    /\ now = Start /\ at = "idle" /\ deadline = 0
    /\ delay = 0 /\ arrival = 0 /\ earliest = 0
    /\ releasePrev = None /\ samples = 0
    /\ refresh = 0 /\ vrr = FALSE /\ anchor = Start /\ unwritten = {}
    /\ bound = FALSE /\ fed = FALSE
    /\ last = None /\ owed = None

-----------------------------------------------------------------------------
(* Tier 1: PredictiveQueuePacer::pace.                                     *)

\* effective_min_delay: the layer can only lower the frame rate.
EffectiveDelay(app) == IF layerCap = 0 THEN app ELSE Max({app, layerCap})

\* GPU intervals of a frame that is complete at time n, as start and end; zero without
\* any span.  An end before n has the same effect as n.  The clock may be calibrated anew
\* between the conversions of the two ticks: the interval shrinks, or ends before it starts.
Intervals(n) ==
    {<<0, 0>>} \cup {<<e - r, e>> : e \in n..n + Skew, r \in RenderTimes \cup {0, -Skew}}

\* Mutant of Counted: the window of WINDOW_SIZE entries overflows.
MutOverflows(s, e) == IF e > s THEN samples + 1 ELSE samples

\* The render window after a frame: only real intervals are samples.
Counted(s, e) == IF e > s THEN Min({samples + 1, Window}) ELSE samples

\* ewma_cpu_lag_ns and the predicted render time (level and trend); 0 stands for none.
Lags == IF releasePrev = None THEN {0} ELSE 0..MaxLag
Predictions(count) == IF count = 0 THEN {0} ELSE RenderTimes

\* skip_next_release: a full window and a render time of 2.5 times the prediction p.
Hitch(s, e, p, count) == /\ p > 0 /\ count >= Window /\ e > s
                         /\ 2 * (e - s) > 5 * p

\* release_prev + min_delay, the earliest time the cap allows.
Floor(d) == IF releasePrev # None /\ d > 0 THEN releasePrev + d ELSE 0

\* Mutant of Target: the clamp comes after the cap, as the header of the class has it.
MutClampLast(n, e, l, p, skip, d) ==
    LET wanted == Max({IF skip THEN n ELSE e - l, Floor(d)})
    IN  IF p > 0 THEN Min({wanted, n + p}) ELSE wanted

\* target_release: just in time, clamped to one predicted render time, not before the
\* cap's floor.
Target(n, e, l, p, skip, d) ==
    LET wanted == IF skip THEN n ELSE e - l
        clamped == IF p > 0 THEN Min({wanted, n + p}) ELSE wanted
    IN  Max({clamped, Floor(d)})

\* The releases the core may choose at time n for delay d after GPU work from s to e, with
\* the new window.
ReleasesAfter(n, d, s, e) ==
    {[count |-> Counted(s, e),
      time |-> Max({n, Target(n, e, l, p, Hitch(s, e, p, Counted(s, e)), d)})] :
        l \in Lags, p \in Predictions(Counted(s, e))}

Releases(n, d) == UNION {ReleasesAfter(n, d, i[1], i[2]) : i \in Intervals(n)}

\* Mutant of Recorded: the time pace began.
MutArrival(n, release) == n

\* What the core remembers as release_prev.
Recorded(n, release) == release

\* Present times the driver may report at time n: past ones, or, from a driver without
\* stage queries, the time it aims at.
PresentTimes(n) == n - Refresh + 1..n + Refresh

\* Tier 2 drains the samples first: the anchor becomes the last one or the median of the
\* recent ones.  The PI loop gets an error from a sample with a target that was missed.
Drained(n) ==
    \/ UNCHANGED <<anchor, fed>>
    \/ /\ tier = 2 /\ bound
       /\ anchor' \in PresentTimes(n)
       /\ fed' \in {fed, TRUE}

\* pace is called, up to where the core sleeps.
Begin ==
    /\ at = "idle"
    /\ at' = "jit"
    /\ \E n \in now..now + MaxIdle, app \in Delays :
         LET d == EffectiveDelay(app) IN
         /\ n <= MaxTime
         /\ \E release \in Releases(n, d) :
              /\ samples' = release.count
              /\ deadline' = release.time
              /\ releasePrev' = Recorded(n, release.time)
         /\ Drained(n)
         /\ now' = n /\ arrival' = n
         /\ delay' = d
         /\ earliest' = Floor(d)
    /\ UNCHANGED <<fixed, display, history>>

-----------------------------------------------------------------------------
(* Waking up and returning.                                                *)

\* hybrid_sleep_until: never early.
Wakes == Max({now, deadline})..Max({now, deadline}) + Late

\* pace returns its deadline.
Returns ==
    /\ at' = "idle"
    /\ last' = deadline
    /\ owed' = IF owed = None THEN deadline ELSE owed + delay
    /\ deadline' = 0 /\ delay' = 0 /\ arrival' = 0 /\ earliest' = 0

\* Tier 1, or Tier 2 without a refresh cycle or with a mode that has no vblank to wait for.
ReturnJit ==
    /\ at = "jit"
    /\ tier = 1 \/ refresh = 0 \/ mailbox
    /\ now' \in Wakes
    /\ Returns
    /\ UNCHANGED <<fixed, releasePrev, samples, display, anchor, fed>>

\* Half a refresh cycle either way, once there has been an error.
Corrections == IF fed THEN -(Refresh \div 2)..Refresh \div 2 ELSE {0}

\* Mutant of Clamped: no clamp.
MutUnclamped(n, t) == Max({n, t})

\* Neither in the past nor more than a refresh cycle ahead.
Clamped(n, t) == Max({n, Min({t, n + Refresh})})

\* A variable refresh rate: only the correction.
AlignVrr ==
    /\ at = "jit"
    /\ tier = 2 /\ refresh > 0 /\ ~mailbox /\ vrr
    /\ now' \in Wakes
    /\ \E c \in Corrections : deadline' = Clamped(now', deadline - c)
    /\ at' = "vblank"
    /\ UNCHANGED <<fixed, frame, releasePrev, samples, display, anchor, fed, history>>

\* Mutant of Vblank: rounded down.
MutRoundsDown(t) == anchor + Max({1, (t - anchor) \div Refresh}) * Refresh

\* The vblank for time t on the grid of the anchor.
Vblank(t) == anchor + Max({1, (t - anchor + Refresh - 1) \div Refresh}) * Refresh

\* A fixed refresh rate: wait for the vblank, less the correction.
AlignGrid ==
    /\ at = "jit"
    /\ tier = 2 /\ refresh > 0 /\ ~mailbox /\ ~vrr
    /\ now' \in Wakes
    /\ LET base == Max({deadline, now'}) IN
         \E c \in Corrections :
           deadline' = Clamped(now', deadline + (Vblank(base) - base) - c)
    /\ at' = "vblank"
    /\ UNCHANGED <<fixed, frame, releasePrev, samples, display, anchor, fed, history>>

\* The second sleep ends.
ReturnAligned ==
    /\ at = "vblank"
    /\ now' \in Wakes
    /\ Returns
    /\ UNCHANGED <<fixed, releasePrev, samples, display, anchor, fed>>

-----------------------------------------------------------------------------
(* The thread that creates swapchains.                                     *)

\* set_swapchain with a swapchain: the query may fail, and the first success is the last.
SetSwapchain ==
    /\ tier = 2 /\ refresh = 0 /\ unwritten = {}
    /\ bound' = TRUE
    /\ unwritten' \in {{}, Fields}
    /\ UNCHANGED <<fixed, now, at, deadline, frame, releasePrev, samples, refresh, vrr, anchor,
                   fed, history>>

\* One of the three plain fields becomes visible to the pacing thread, in any order.
\* The anchor is the present time rounded up to a multiple of the cycle.
Write(f) ==
    /\ f \in unwritten
    /\ unwritten' = unwritten \ {f}
    /\ refresh' = IF f = "refresh" THEN Refresh ELSE refresh
    /\ vrr' \in IF f = "vrr" THEN BOOLEAN ELSE {vrr}
    /\ anchor' \in IF f = "anchor"
                   THEN {((t + Refresh - 1) \div Refresh) * Refresh :
                           t \in now..Max({now, deadline})}
                   ELSE {anchor}
    /\ UNCHANGED <<fixed, now, at, deadline, frame, releasePrev, samples, bound, fed, history>>

-----------------------------------------------------------------------------

Next ==
    \/ Begin
    \/ ReturnJit
    \/ AlignVrr
    \/ AlignGrid
    \/ ReturnAligned
    \/ SetSwapchain
    \/ \E f \in Fields : Write(f)

Spec == Init /\ [][Next]_vars

-----------------------------------------------------------------------------
(* Properties.                                                             *)

Times == 0..MaxTime + MaxDelay + 3 * Refresh + 4 * Late + Skew

\* The variables have their types; no time runs away.
TypeOK ==
    /\ tier \in Tiers /\ layerCap \in LayerCaps
    /\ now \in Times /\ deadline \in Times /\ arrival \in Times /\ earliest \in Times
    /\ at \in {"idle", "jit", "vblank"}
    /\ delay \in 0..MaxDelay
    /\ releasePrev \in Times \cup {None}
    /\ samples \in 0..Window
    /\ refresh \in {0, Refresh} /\ vrr \in BOOLEAN /\ mailbox \in BOOLEAN
    /\ anchor \in Times /\ unwritten \subseteq Fields
    /\ bound \in BOOLEAN /\ fed \in BOOLEAN
    /\ last \in Times \cup {None} /\ owed \in Times \cup {None}

\* "The returned value becomes the next frame's release_prev" and the cap "is always
\* respected": two times pace returns in a row are at least min_delay apart.
FrameRateCap ==
    [][at # "idle" /\ at' = "idle" /\ last # None => last' - last >= delay]_vars

\* What the code does promise: with Tier 1, whatever the estimates and whatever hitches,
\* the cap holds from one frame to the next.
Tier1Cap ==
    [][tier = 1 /\ at # "idle" /\ at' = "idle" /\ last # None => last' - last >= delay]_vars

\* With both tiers the cap holds in the long run: since the first frame, the sum of all
\* min_delays has passed, but for one wait for the display.  Waiting for the vblank does
\* not add up, and late wake-ups are never made up for.
LongRunCap ==
    owed # None => last >= owed - (IF tier = 1 THEN 0 ELSE Refresh + Late)

\* A frame whose GPU work is done is held back until the cap's floor, and beyond that for
\* at most one refresh cycle, however stale the estimates, whatever the feedback says and
\* whichever part of a new refresh cycle the pacer sees.
BoundedSleep ==
    at # "idle" =>
        deadline <= Max({arrival + Skew, earliest})
                      + (IF at = "jit" THEN 0 ELSE Late + Refresh)

\* The next vblank at time t: the first time from t on that is a whole number of cycles
\* away from the anchor, in either direction.
NextVblank(t) == Min({v \in t..t + Refresh - 1 : (v - anchor) % Refresh = 0})

\* "Aligns that release point to the next vblank on a steady grid", "a single very-bad
\* first sample can't overshoot by a full frame": once the anchor has passed, a frame for
\* the grid is released at the next vblank, early by no more than the core woke late, and
\* half a cycle off either way once there is an error to correct.  With an anchor that is
\* not in the past yet the code aims at the vblank after the anchor, and this fails.
ReleasedAtVblank ==
    [][AlignGrid /\ anchor < now' =>
          LET off == IF fed THEN Refresh \div 2 ELSE 0 IN
          deadline' \in NextVblank(now') - Late - off..NextVblank(now') + off]_vars

=============================================================================
