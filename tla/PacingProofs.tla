---------------------------- MODULE PacingProofs -----------------------------
(***************************************************************************)
(* Proofs about Pacing, for every refresh cycle, window, delay, lateness   *)
(* and skew, and for whatever the estimates of the pacers are.             *)
(***************************************************************************)
EXTENDS Pacing, TLAPS

-----------------------------------------------------------------------------
(* The inductive invariant.                                                *)

\* The latest release of a frame's core.
LatestRelease == MaxTime + MaxDelay + Skew

\* Where the clock, the deadline and the core's release stand in each phase of a frame.
PhaseInv ==
    /\ now >= Start
    /\ at = "idle" => deadline = 0 /\ now <= LatestRelease + Refresh + 2 * Late
    /\ at # "idle" => /\ arrival <= MaxTime /\ earliest <= MaxTime + MaxDelay
                      /\ releasePrev # None /\ releasePrev <= Max({arrival + Skew, earliest})
    /\ at = "jit" => now = arrival /\ now <= deadline /\ deadline = releasePrev
    /\ at = "vblank" => /\ tier = 2
                        /\ releasePrev <= now /\ now <= releasePrev + Late
                        /\ now <= deadline /\ deadline <= now + Refresh

\* The core's releases are at least min_delay apart, and what pace returns follows them.
CapInv ==
    /\ (last = None) <=> (owed = None)
    /\ at = "idle" => (last = None) <=> (releasePrev = None)
    /\ at = "idle" /\ last # None =>
         /\ releasePrev <= last /\ last <= now
         /\ tier = 1 => last = releasePrev
         /\ owed <= releasePrev + (IF tier = 1 THEN 0 ELSE Refresh + Late)
    /\ at # "idle" /\ last # None =>
         /\ tier = 1 => last + delay <= releasePrev
         /\ owed + delay <= releasePrev + (IF tier = 1 THEN 0 ELSE Refresh + Late)

\* The anchor stays within a cycle of a time the clock or a deadline had.
AnchorInv == anchor <= LatestRelease + 3 * Refresh + 2 * Late

IInv == TypeOK /\ PhaseInv /\ CapInv /\ AnchorInv /\ LongRunCap

-----------------------------------------------------------------------------
(* The operators of the model.                                             *)

LEMMA MaxOfTwo == \A a, b \in Int : Max({a, b}) = IF a >= b THEN a ELSE b
  BY DEF Max

LEMMA MinOfTwo == \A a, b \in Int : Min({a, b}) = IF a <= b THEN a ELSE b
  BY DEF Min

\* The layer only ever lengthens the interval the application asks for.
LEMMA EffectiveDelayBounds ==
    ASSUME TypeOK, NEW app \in Delays
    PROVE  EffectiveDelay(app) \in 0..MaxDelay /\ EffectiveDelay(app) >= app
<1>1. app \in 0..MaxDelay /\ layerCap \in 0..MaxDelay /\ MaxDelay \in Nat
  BY PacingConstants DEF TypeOK
<1> QED
  BY <1>1, MaxOfTwo DEF EffectiveDelay

\* A GPU interval ends at most the skew of the clocks from now.
LEMMA IntervalBounds ==
    ASSUME NEW n \in Nat, NEW i \in Intervals(n)
    PROVE  i[1] \in Int /\ i[2] \in Int /\ i[2] <= n + Skew
<1>0. Skew \in Nat /\ RenderTimes \subseteq Nat
  BY PacingConstants
<1>1. CASE i = <<0, 0>>
  BY <1>0, <1>1
<1>2. ASSUME NEW e \in n..n + Skew, NEW r \in RenderTimes \cup {0, -Skew}, i = <<e - r, e>>
      PROVE  i[1] \in Int /\ i[2] \in Int /\ i[2] <= n + Skew
  BY <1>0, <1>2
<1> QED
  BY <1>1, <1>2 DEF Intervals

\* The core never releases a frame in the past, nor before the floor of the cap, nor later
\* than both the floor and the end of its GPU work: the estimates only make it earlier.
LEMMA TargetBounds ==
    ASSUME NEW n \in Nat, NEW e \in Int, e <= n + Skew, NEW l \in Nat, NEW p \in Nat,
           NEW skip \in BOOLEAN, NEW d, Floor(d) \in Nat
    PROVE  LET time == Max({n, Target(n, e, l, p, skip, d)}) IN
           /\ time \in Nat /\ n <= time /\ Floor(d) <= time
           /\ time <= n + Skew \/ time <= Floor(d)
<1>0. Skew \in Nat
  BY PacingConstants
<1> DEFINE wanted == IF skip THEN n ELSE e - l
           clamped == IF p > 0 THEN Min({wanted, n + p}) ELSE wanted
<1>1. wanted \in Int /\ wanted <= n + Skew
  BY <1>0
<1> HIDE DEF wanted
<1>2. clamped \in Int /\ clamped <= n + Skew
  BY <1>0, <1>1, MinOfTwo
<1> HIDE DEF clamped
<1>3. Target(n, e, l, p, skip, d) = Max({clamped, Floor(d)})
  BY DEF Target, wanted, clamped
<1>4. \A f \in Nat : LET target == Max({clamped, f}) IN
                     target \in Int /\ target >= f /\ (target <= n + Skew \/ target <= f)
  BY <1>0, <1>2, MaxOfTwo
<1>5. \A target \in Int : LET time == Max({n, target}) IN
                          /\ time \in Nat /\ n <= time /\ target <= time
                          /\ time <= n \/ time <= target
  BY MaxOfTwo
<1> QED
  BY <1>0, <1>3, <1>4, <1>5

LEMMA FloorBounds ==
    ASSUME TypeOK, NEW d \in Nat
    PROVE  /\ Floor(d) \in Nat
           /\ releasePrev # None /\ d > 0 => Floor(d) = releasePrev + d
           /\ releasePrev = None \/ d = 0 => Floor(d) = 0
<1>1. releasePrev # None => releasePrev \in Nat
  BY DEF TypeOK, Times
<1> QED
  BY <1>1 DEF Floor

LEMMA ReleaseBounds ==
    ASSUME TypeOK, NEW n \in Nat, NEW d \in Nat, NEW release \in Releases(n, d)
    PROVE  /\ release.count \in 0..Window
           /\ release.time \in Nat /\ n <= release.time /\ Floor(d) <= release.time
           /\ release.time <= n + Skew \/ release.time <= Floor(d)
<1>1. PICK i \in Intervals(n) : release \in ReleasesAfter(n, d, i[1], i[2])
  BY DEF Releases
<1>2. PICK l \in Lags, p \in Predictions(Counted(i[1], i[2])) :
          release = [count |-> Counted(i[1], i[2]),
                     time |-> Max({n, Target(n, i[2], l, p,
                                             Hitch(i[1], i[2], p, Counted(i[1], i[2])), d)})]
  BY <1>1 DEF ReleasesAfter
<1>3. i[1] \in Int /\ i[2] \in Int /\ i[2] <= n + Skew
  BY IntervalBounds
<1>4. l \in Nat /\ p \in Nat
  BY PacingConstants DEF Lags, Predictions
<1>5. Hitch(i[1], i[2], p, Counted(i[1], i[2])) \in BOOLEAN
  BY DEF Hitch
<1>6. Floor(d) \in Nat
  BY FloorBounds
<1>7. Counted(i[1], i[2]) \in 0..Window
  <2>1. samples \in 0..Window /\ Window \in Nat
    BY PacingConstants DEF TypeOK
  <2> QED
    BY <2>1, MinOfTwo DEF Counted
<1> DEFINE skip == Hitch(i[1], i[2], p, Counted(i[1], i[2]))
           time == Max({n, Target(n, i[2], l, p, skip, d)})
<1>8. /\ time \in Nat /\ n <= time /\ Floor(d) <= time
      /\ time <= n + Skew \/ time <= Floor(d)
  BY <1>3, <1>4, <1>5, <1>6, TargetBounds
<1>9. release.count = Counted(i[1], i[2]) /\ release.time = time
  BY <1>2
<1> QED
  BY <1>7, <1>8, <1>9

\* A sleep ends between the deadline, or now if that is over, and Late after it.
LEMMA WakesBounds ==
    ASSUME TypeOK, NEW m \in Wakes
    PROVE  /\ m \in Nat /\ now <= m /\ deadline <= m
           /\ m <= now + Late \/ m <= deadline + Late
<1>1. now \in Nat /\ deadline \in Nat /\ Late \in Nat
  BY PacingConstants DEF TypeOK, Times
<1> QED
  BY <1>1, MaxOfTwo DEF Wakes

LEMMA ClampedBounds ==
    ASSUME NEW n \in Nat, NEW t \in Int
    PROVE  /\ Clamped(n, t) \in Nat /\ n <= Clamped(n, t) /\ Clamped(n, t) <= n + Refresh
           /\ Clamped(n, t) = IF t < n THEN n ELSE IF t > n + Refresh THEN n + Refresh ELSE t
<1>1. Refresh \in Nat
  BY PacingConstants
<1> DEFINE low == Min({t, n + Refresh})
<1>2. low \in Int /\ low = IF t <= n + Refresh THEN t ELSE n + Refresh
  BY <1>1, MinOfTwo
<1> HIDE DEF low
<1>3. Max({n, low}) = IF n >= low THEN n ELSE low
  BY <1>2, MaxOfTwo
<1>4. Clamped(n, t) = Max({n, low})
  BY DEF Clamped, low
<1> QED
  BY <1>1, <1>2, <1>3, <1>4

\* Rounding up to a multiple of the refresh cycle.
LEMMA RoundUp ==
    ASSUME NEW t \in Int
    PROVE  LET k == (t + Refresh - 1) \div Refresh IN
           k \in Int /\ t <= k * Refresh /\ k * Refresh <= t + Refresh - 1
<1>1. Refresh \in Nat \ {0}
  BY PacingConstants
<1>2. \A x \in Int : \A r \in Nat \ {0} : /\ x \div r \in Int
                                         /\ (x \div r) * r <= x
                                         /\ x <= (x \div r) * r + r - 1
  OBVIOUS
<1> QED
  BY <1>1, <1>2

-----------------------------------------------------------------------------
(* The inductive step, action by action.                                   *)

LEMMA Numbers ==
    /\ MaxDelay \in Nat /\ Refresh \in Nat \ {0} /\ Window \in Nat \ {0} /\ Late \in Nat
    /\ Skew \in Nat /\ MaxTime \in Nat /\ Start \in Nat /\ Start >= Refresh
    /\ Start <= MaxTime
    /\ None \notin Int
  BY PacingConstants

LEMMA InitInv == Init => IInv
<1> SUFFICES ASSUME Init PROVE IInv
  OBVIOUS
<1>1. TypeOK /\ AnchorInv
  <2>1. mailbox \in BOOLEAN
    BY DEF Init
  <2>2. 0 \in Times /\ Start \in Times /\ Start <= LatestRelease + 3 * Refresh + 2 * Late
    BY Numbers DEF Times, LatestRelease
  <2>3. 0 \in 0..MaxDelay /\ 0 \in 0..Window
    BY Numbers
  <2> QED
    BY <2>1, <2>2, <2>3 DEF Init, TypeOK, AnchorInv
<1> QED
  BY <1>1, Numbers DEF Init, IInv, PhaseInv, CapInv, LongRunCap, LatestRelease

\* What the bounds of a frame in progress amount to.
LEMMA InFrame ==
    ASSUME IInv, at # "idle"
    PROVE  /\ arrival \in Nat /\ earliest \in Nat /\ releasePrev \in Nat /\ deadline \in Nat
           /\ now \in Nat /\ delay \in Nat /\ releasePrev <= LatestRelease
           /\ releasePrev <= Max({arrival + Skew, earliest})
           /\ Max({arrival + Skew, earliest}) \in Nat
           /\ LatestRelease \in Nat
<1>1. /\ arrival \in Nat /\ earliest \in Nat /\ releasePrev \in Nat /\ deadline \in Nat
      /\ now \in Nat /\ delay \in Nat
  BY Numbers DEF IInv, TypeOK, Times, PhaseInv
<1>2. arrival <= MaxTime /\ earliest <= MaxTime + MaxDelay
      /\ releasePrev <= Max({arrival + Skew, earliest})
  BY DEF IInv, PhaseInv
<1>3. Max({arrival + Skew, earliest}) =
        IF arrival + Skew >= earliest THEN arrival + Skew ELSE earliest
  BY <1>1, Numbers, MaxOfTwo
<1> QED
  BY <1>1, <1>2, <1>3, Numbers DEF LatestRelease

LEMMA BeginInv ==
    ASSUME IInv, Begin
    PROVE  IInv'
<1>t. TypeOK /\ PhaseInv /\ CapInv /\ AnchorInv /\ LongRunCap
  BY DEF IInv
<1>1. PICK n \in now..now + MaxIdle, app \in Delays :
        /\ n <= MaxTime
        /\ Drained(n)
        /\ \E release \in Releases(n, EffectiveDelay(app)) :
             /\ samples' = release.count
             /\ deadline' = release.time
             /\ releasePrev' = Recorded(n, release.time)
        /\ now' = n /\ arrival' = n
        /\ delay' = EffectiveDelay(app)
        /\ earliest' = Floor(EffectiveDelay(app))
  BY DEF Begin
<1>2. PICK d : d = EffectiveDelay(app)
  OBVIOUS
<1>3. d \in 0..MaxDelay /\ d \in Nat
  BY <1>t, <1>2, EffectiveDelayBounds, Numbers
<1>4. now \in Nat /\ n \in Nat /\ now <= n /\ n <= MaxTime
  BY <1>1, <1>t, PacingConstants DEF TypeOK, Times
<1>5. PICK release \in Releases(n, d) :
             /\ samples' = release.count
             /\ deadline' = release.time
             /\ releasePrev' = Recorded(n, release.time)
  BY <1>1, <1>2
<1>6. /\ samples' \in 0..Window
      /\ deadline' \in Nat /\ n <= deadline' /\ Floor(d) <= deadline'
      /\ deadline' <= n + Skew \/ deadline' <= Floor(d)
      /\ releasePrev' = deadline'
  BY <1>t, <1>3, <1>4, <1>5, ReleaseBounds DEF Recorded
<1>7. /\ at = "idle" /\ at' = "jit" /\ now' = n /\ arrival' = n /\ delay' = d
      /\ earliest' = Floor(d)
      /\ UNCHANGED <<tier, layerCap, mailbox, refresh, vrr, unwritten, bound, last, owed>>
  BY <1>1, <1>2 DEF Begin, fixed, display, history
<1>8. last # None => /\ last \in Nat /\ releasePrev \in Nat /\ owed \in Nat
                     /\ releasePrev # None /\ releasePrev <= last /\ last <= now
                     /\ tier = 1 => last = releasePrev
                     /\ owed <= releasePrev + (IF tier = 1 THEN 0 ELSE Refresh + Late)
  BY <1>t, <1>7 DEF TypeOK, Times, CapInv
<1>9. /\ Floor(d) \in Nat /\ Floor(d) <= MaxTime + MaxDelay
      /\ last # None /\ d > 0 => Floor(d) = releasePrev + d
  <2>1. last = None <=> releasePrev = None
    BY <1>t, <1>7 DEF CapInv
  <2> QED
    BY <2>1, <1>t, <1>3, <1>4, <1>8, FloorBounds, Numbers
<1>10. anchor' = anchor \/ anchor' \in n - Refresh + 1..n + Refresh
  BY <1>1 DEF Drained, PresentTimes
<1>11. anchor' \in Nat /\ anchor' <= LatestRelease + 3 * Refresh + 2 * Late
  <2>1. n >= Refresh
    BY <1>4, <1>t, Numbers DEF PhaseInv
  <2>2. anchor \in Nat /\ anchor <= LatestRelease + 3 * Refresh + 2 * Late
    BY <1>t DEF TypeOK, Times, AnchorInv
  <2> QED
    BY <2>1, <2>2, <1>4, <1>10, Numbers DEF LatestRelease
<1>12. fed' \in BOOLEAN
  BY <1>1, <1>t DEF Drained, TypeOK
<1>13. TypeOK'
  <2>1. now' \in Times /\ deadline' \in Times /\ arrival' \in Times /\ earliest' \in Times
    BY <1>4, <1>6, <1>7, <1>9, Numbers DEF Times
  <2>2. anchor' \in Times
    BY <1>11, Numbers DEF Times, LatestRelease
  <2> QED
    BY <2>1, <2>2, <1>t, <1>3, <1>6, <1>7, <1>12 DEF TypeOK
<1>14. PhaseInv'
  <2>1. Max({n + Skew, Floor(d)}) = IF n + Skew >= Floor(d) THEN n + Skew ELSE Floor(d)
    BY <1>4, <1>9, Numbers, MaxOfTwo
  <2>2. releasePrev' # None
    BY <1>6, Numbers
  <2>3. releasePrev' <= Max({n + Skew, Floor(d)})
    BY <2>1, <1>4, <1>6, <1>9, Numbers
  <2>4. now' >= Start
    BY <1>t, <1>4, <1>7, Numbers DEF PhaseInv
  <2> QED
    BY <2>2, <2>3, <2>4, <1>4, <1>6, <1>7, <1>9 DEF PhaseInv
<1>15. CapInv'
  <2>1. last # None => /\ last + d <= releasePrev' \/ tier # 1
                       /\ owed + d <= releasePrev' + (IF tier = 1 THEN 0 ELSE Refresh + Late)
    BY <1>3, <1>4, <1>6, <1>8, <1>9, Numbers
  <2> QED
    BY <2>1, <1>t, <1>7 DEF CapInv
<1>16. LongRunCap' /\ AnchorInv'
  BY <1>t, <1>7, <1>11 DEF LongRunCap, AnchorInv
<1> QED
  BY <1>13, <1>14, <1>15, <1>16 DEF IInv

\* pace returns the deadline it slept for.
LEMMA ReturnInv ==
    ASSUME IInv, at # "idle", now' \in Wakes, Returns,
           UNCHANGED <<fixed, releasePrev, samples, display, anchor, fed>>
    PROVE  IInv'
<1>t. TypeOK /\ PhaseInv /\ CapInv /\ AnchorInv /\ LongRunCap
  BY DEF IInv
<1>1. /\ releasePrev \in Nat /\ deadline \in Nat /\ now \in Nat /\ delay \in Nat
      /\ releasePrev <= LatestRelease /\ LatestRelease \in Nat
  BY InFrame
<1>2. now' \in Nat /\ deadline <= now' /\ now <= now' /\ now' <= deadline + Late
  <2>1. now <= deadline
    BY <1>t, <1>1 DEF TypeOK, PhaseInv
  <2> QED
    BY <2>1, <1>t, <1>1, WakesBounds, Numbers
<1>3. /\ releasePrev <= deadline /\ deadline <= releasePrev + Refresh + Late
      /\ tier = 1 => deadline = releasePrev
  BY <1>t, <1>1, Numbers DEF TypeOK, PhaseInv
<1>4. /\ at' = "idle" /\ last' = deadline /\ deadline' = 0 /\ delay' = 0 /\ arrival' = 0
      /\ earliest' = 0 /\ owed' = IF owed = None THEN deadline ELSE owed + delay
      /\ UNCHANGED <<tier, layerCap, mailbox, releasePrev, samples, refresh, vrr, unwritten, bound,
                     anchor, fed>>
  BY DEF Returns, fixed, display
<1>5. last # None => /\ owed \in Nat /\ owed # None
                     /\ owed + delay <= releasePrev + (IF tier = 1 THEN 0 ELSE Refresh + Late)
  BY <1>t DEF TypeOK, Times, CapInv
<1>6. owed' \in Nat /\ owed' <= releasePrev + (IF tier = 1 THEN 0 ELSE Refresh + Late)
  <2>1. CASE owed = None
    BY <2>1, <1>1, <1>3, <1>4, Numbers
  <2>2. CASE owed # None
    <3>1. last # None
      BY <2>2, <1>t DEF CapInv
    <3> QED
      BY <2>2, <3>1, <1>1, <1>4, <1>5
  <2> QED
    BY <2>1, <2>2
<1>7. now' \in Times /\ last' \in Times /\ owed' \in Times /\ 0 \in Times
  <2>1. /\ now' <= LatestRelease + Refresh + 2 * Late
        /\ last' <= LatestRelease + Refresh + 2 * Late
        /\ owed' <= LatestRelease + Refresh + 2 * Late
    BY <1>1, <1>2, <1>3, <1>4, <1>6, Numbers
  <2> QED
    BY <2>1, <1>1, <1>2, <1>4, <1>6, Numbers DEF Times, LatestRelease
<1>8. TypeOK'
  BY <1>t, <1>4, <1>7, Numbers DEF TypeOK
<1>9. PhaseInv'
  <2>1. now' >= Start /\ now' <= LatestRelease + Refresh + 2 * Late
    BY <1>t, <1>1, <1>2, <1>3, Numbers DEF PhaseInv
  <2> QED
    BY <2>1, <1>4 DEF PhaseInv
<1>10. CapInv'
  <2>1. last' # None /\ owed' # None /\ releasePrev' # None
    BY <1>1, <1>4, <1>6, Numbers
  <2> QED
    BY <2>1, <1>1, <1>2, <1>3, <1>4, <1>6 DEF CapInv
<1>11. LongRunCap'
  <2>1. last' >= owed' - (IF tier = 1 THEN 0 ELSE Refresh + Late)
    BY <1>1, <1>3, <1>4, <1>6, Numbers
  <2> QED
    BY <2>1, <1>4 DEF LongRunCap
<1> QED
  BY <1>t, <1>4, <1>8, <1>9, <1>10, <1>11 DEF IInv, AnchorInv

\* Aligning with the display: the new deadline is within a cycle of the wake-up.
LEMMA AlignInv ==
    ASSUME IInv, tier = 2, at = "jit", at' = "vblank", now' \in Wakes, NEW t \in Int,
           deadline' = Clamped(now', t),
           UNCHANGED <<fixed, frame, releasePrev, samples, display, anchor, fed, history>>
    PROVE  IInv'
<1>t. TypeOK /\ PhaseInv /\ CapInv /\ AnchorInv /\ LongRunCap
  BY DEF IInv
<1>1. /\ releasePrev \in Nat /\ deadline \in Nat /\ now \in Nat
      /\ releasePrev <= LatestRelease /\ LatestRelease \in Nat
  BY InFrame
<1>2. now = arrival /\ now <= deadline /\ deadline = releasePrev
  BY <1>t DEF PhaseInv
<1>3. now' \in Nat /\ releasePrev <= now' /\ now <= now' /\ now' <= releasePrev + Late
  BY <1>t, <1>1, <1>2, WakesBounds, Numbers
<1>4. deadline' \in Nat /\ now' <= deadline' /\ deadline' <= now' + Refresh
  BY <1>3, ClampedBounds
<1>5. UNCHANGED <<tier, layerCap, mailbox, delay, arrival, earliest, releasePrev, samples, refresh,
                  vrr, unwritten, bound, anchor, fed, last, owed>>
  BY DEF fixed, frame, display, history
<1>6. now' \in Times /\ deadline' \in Times
  BY <1>1, <1>3, <1>4, Numbers DEF Times, LatestRelease
<1>7. TypeOK'
  BY <1>t, <1>5, <1>6 DEF TypeOK
<1>8. PhaseInv'
  <2>1. now' >= Start
    BY <1>t, <1>1, <1>3, Numbers DEF PhaseInv
  <2> QED
    BY <2>1, <1>t, <1>3, <1>4, <1>5 DEF PhaseInv
<1>9. CapInv' /\ LongRunCap' /\ AnchorInv'
  BY <1>t, <1>5 DEF CapInv, LongRunCap, AnchorInv
<1> QED
  BY <1>7, <1>8, <1>9 DEF IInv

LEMMA AlignVrrInv ==
    ASSUME IInv, AlignVrr
    PROVE  IInv'
<1>1. PICK c \in Corrections : deadline' = Clamped(now', deadline - c)
  BY DEF AlignVrr
<1>2. Refresh \div 2 \in Int
  BY Numbers
<1>3. deadline - c \in Int
  BY <1>2, InFrame DEF AlignVrr, Corrections
<1> QED
  BY <1>1, <1>3, AlignInv DEF AlignVrr

LEMMA AlignGridInv ==
    ASSUME IInv, AlignGrid
    PROVE  IInv'
<1>0. PICK base : base = Max({deadline, now'})
  OBVIOUS
<1>1. PICK c \in Corrections :
         deadline' = Clamped(now', deadline + (Vblank(base) - base) - c)
  BY <1>0 DEF AlignGrid
<1>2. deadline \in Nat /\ now' \in Nat /\ anchor \in Nat
  BY InFrame, WakesBounds DEF AlignGrid, IInv, TypeOK, Times
<1>3. base \in Int
  BY <1>0, <1>2, MaxOfTwo
<1>4. Vblank(base) \in Int
  <2> DEFINE k == (base - anchor + Refresh - 1) \div Refresh
  <2>1. k \in Int
    BY <1>2, <1>3, RoundUp
  <2>2. Max({1, k}) \in Int
    BY <2>1, MaxOfTwo
  <2> QED
    BY <2>2, <1>2, Numbers DEF Vblank
<1>5. Refresh \div 2 \in Int
  BY Numbers
<1>6. c \in Int
  BY <1>5 DEF Corrections
<1>7. deadline + (Vblank(base) - base) - c \in Int
  BY <1>2, <1>3, <1>4, <1>6
<1> QED
  BY <1>1, <1>7, AlignInv DEF AlignGrid

LEMMA WriteInv ==
    ASSUME IInv, NEW f \in Fields, Write(f)
    PROVE  IInv'
<1>t. TypeOK /\ PhaseInv /\ CapInv /\ AnchorInv /\ LongRunCap
  BY DEF IInv
<1>1. now \in Nat /\ deadline \in Nat /\ LatestRelease \in Nat
  BY <1>t, Numbers DEF TypeOK, Times, LatestRelease
<1>2. /\ now <= LatestRelease + Refresh + 2 * Late
      /\ deadline <= LatestRelease + Refresh + 2 * Late
  <2>1. CASE at = "idle"
    BY <2>1, <1>t, <1>1, Numbers DEF TypeOK, PhaseInv
  <2>2. CASE at # "idle"
    BY <2>2, <1>t, <1>1, InFrame, Numbers DEF TypeOK, PhaseInv
  <2> QED
    BY <2>1, <2>2
<1>3. anchor' \in Nat /\ AnchorInv'
  <2>1. CASE anchor' = anchor
    BY <2>1, <1>t DEF TypeOK, Times, AnchorInv
  <2>2. CASE anchor' # anchor
    <3>1. PICK t \in now..Max({now, deadline}) :
            anchor' = ((t + Refresh - 1) \div Refresh) * Refresh
      BY <2>2 DEF Write
    <3>2. Max({now, deadline}) = IF now >= deadline THEN now ELSE deadline
      BY <1>1, MaxOfTwo
    <3>3. t \in Nat /\ t <= LatestRelease + Refresh + 2 * Late
      BY <3>2, <1>1, <1>2, Numbers
    <3>4. /\ (t + Refresh - 1) \div Refresh \in Int
          /\ t <= ((t + Refresh - 1) \div Refresh) * Refresh
          /\ ((t + Refresh - 1) \div Refresh) * Refresh <= t + Refresh - 1
      BY <3>3, RoundUp
    <3>5. anchor' \in Int
      BY <3>1, <3>4, Numbers
    <3> QED
      BY <3>1, <3>3, <3>4, <3>5, <1>1, Numbers DEF AnchorInv
  <2> QED
    BY <2>1, <2>2
<1>4. anchor' \in Times
  BY <1>1, <1>3, Numbers DEF AnchorInv, Times, LatestRelease
<1>5. /\ unwritten' \subseteq Fields /\ refresh' \in {0, Refresh} /\ vrr' \in BOOLEAN
      /\ UNCHANGED <<tier, layerCap, mailbox, now, at, deadline, delay, arrival, earliest,
                     releasePrev, samples, bound, fed, last, owed>>
  BY <1>t DEF TypeOK, Write, fixed, frame, history
<1> QED
  BY <1>t, <1>3, <1>4, <1>5 DEF IInv, TypeOK, PhaseInv, CapInv, LongRunCap

LEMMA SetSwapchainInv ==
    ASSUME IInv, SetSwapchain
    PROVE  IInv'
  BY DEF SetSwapchain, IInv, TypeOK, PhaseInv, CapInv, AnchorInv, LongRunCap, fixed, frame,
         history

LEMMA NextInv == IInv /\ [Next]_vars => IInv'
<1> SUFFICES ASSUME IInv, [Next]_vars PROVE IInv'
  OBVIOUS
<1>1. CASE ReturnJit
  BY <1>1, ReturnInv DEF ReturnJit
<1>2. CASE ReturnAligned
  BY <1>2, ReturnInv DEF ReturnAligned
<1>3. CASE UNCHANGED vars
  BY <1>3 DEF IInv, TypeOK, PhaseInv, CapInv, AnchorInv, LongRunCap, vars, fixed, display, frame,
              history
<1> QED
  BY <1>1, <1>2, <1>3, BeginInv, AlignVrrInv, AlignGridInv, WriteInv, SetSwapchainInv DEF Next

-----------------------------------------------------------------------------
(* The grid of the vblanks.                                                *)

LEMMA TimesMonotone ==
    ASSUME NEW i \in Int, NEW j \in Int, NEW r \in Nat \ {0}, i <= j
    PROVE  i * r <= j * r
  OBVIOUS

LEMMA TimesStrict ==
    ASSUME NEW i \in Int, NEW j \in Int, NEW r \in Nat \ {0}, i * r < j * r
    PROVE  i < j
  BY TimesMonotone

LEMMA MultipleMod ==
    ASSUME NEW i \in Int, NEW r \in Nat \ {0}
    PROVE  (i * r) % r = 0
  OBVIOUS

LEMMA ModMultiple ==
    ASSUME NEW j \in Int, NEW r \in Nat \ {0}, j % r = 0
    PROVE  j = (j \div r) * r /\ j \div r \in Int
  OBVIOUS

\* After the anchor, the code's rounding finds the next vblank: it is on the grid, and the
\* first from t on.  (With t <= anchor the lower bound of one cycle breaks this.)
LEMMA VblankIsNext ==
    ASSUME anchor \in Int, NEW t \in Int, anchor < t
    PROVE  Vblank(t) \in t..t + Refresh - 1 /\ NextVblank(t) = Vblank(t)
<1>0. Refresh \in Nat \ {0}
  BY Numbers
<1> DEFINE k == (t - anchor + Refresh - 1) \div Refresh
           S == {v \in t..t + Refresh - 1 : (v - anchor) % Refresh = 0}
<1>1. /\ k \in Int /\ t - anchor <= k * Refresh
      /\ k * Refresh <= t - anchor + Refresh - 1
  BY RoundUp
<1>2. Vblank(t) = anchor + Max({1, k}) * Refresh
  BY DEF Vblank
<1> HIDE DEF k
<1>3. k >= 1
  <2>1. 0 * Refresh < k * Refresh
    BY <1>0, <1>1
  <2> QED
    BY <2>1, <1>0, <1>1, TimesStrict
<1>4. Vblank(t) = anchor + k * Refresh /\ k * Refresh \in Int
  BY <1>0, <1>1, <1>2, <1>3, MaxOfTwo
<1>5. Vblank(t) \in t..t + Refresh - 1
  BY <1>0, <1>1, <1>4
<1>6. Vblank(t) \in S
  <2>1. Vblank(t) - anchor = k * Refresh
    BY <1>4
  <2> QED
    BY <2>1, <1>0, <1>1, <1>5, MultipleMod
<1>7. ASSUME NEW v \in S PROVE Vblank(t) <= v
  <2>1. v \in Int /\ t <= v /\ (v - anchor) % Refresh = 0
    BY <1>0
  <2>2. PICK q \in Int : v - anchor = q * Refresh
    <3>1. PICK j \in Int : j = v - anchor
      BY <2>1
    <3>2. j = (j \div Refresh) * Refresh /\ j \div Refresh \in Int
      BY <3>1, <1>0, <2>1, ModMultiple
    <3> QED
      BY <3>1, <3>2
  <2>3. k < q + 1
    <3>1. (q + 1) * Refresh = q * Refresh + Refresh
      BY <1>0
    <3>2. k * Refresh < (q + 1) * Refresh
      BY <3>1, <2>1, <2>2, <1>0, <1>1
    <3> QED
      BY <3>2, <1>0, <1>1, TimesStrict
  <2>4. k * Refresh <= q * Refresh
    BY <2>3, <1>0, <1>1, TimesMonotone
  <2> QED
    BY <2>1, <2>2, <2>4, <1>0, <1>4
<1>8. \A v \in S : v \in Int
  BY <1>0
<1>9. NextVblank(t) = Min(S)
  BY DEF NextVblank
<1> HIDE DEF S
<1>10. Min(S) = Vblank(t)
  BY <1>6, <1>7, <1>8 DEF Min
<1> QED
  BY <1>5, <1>9, <1>10

-----------------------------------------------------------------------------
(* The theorems.                                                           *)

\* The inductive invariant.
THEOREM Invariance == Spec => []IInv
  BY InitInv, NextInv, PTL DEF Spec

\* The variables have their types, and no time runs away: none is later than a bound made of
\* the last time a frame may begin, one delay and a few cycles, however many frames there are.
THEOREM TypeCorrect == Spec => []TypeOK
<1>1. IInv => TypeOK
  BY DEF IInv
<1> QED
  BY <1>1, Invariance, PTL

\* With both tiers the frame rate cap holds in the long run: waiting for the vblank and waking
\* up late do not add up.
THEOREM CapHoldsInTheLongRun == Spec => []LongRunCap
<1>1. IInv => LongRunCap
  BY DEF IInv
<1> QED
  BY <1>1, Invariance, PTL

\* A frame whose GPU work is done is held back until the cap's floor, and beyond that for at
\* most one refresh cycle, whatever the estimates, the feedback and the fields seen.
THEOREM SleepIsBounded == Spec => []BoundedSleep
<1>1. IInv => BoundedSleep
  <2> SUFFICES ASSUME IInv, at # "idle"
               PROVE  deadline <= Max({arrival + Skew, earliest})
                                    + (IF at = "jit" THEN 0 ELSE Late + Refresh)
    BY DEF BoundedSleep
  <2>1. /\ releasePrev <= Max({arrival + Skew, earliest})
        /\ Max({arrival + Skew, earliest}) \in Nat /\ releasePrev \in Nat
        /\ now \in Nat /\ deadline \in Nat
    BY InFrame
  <2>2. /\ at = "jit" => deadline = releasePrev
        /\ at # "jit" => deadline <= now + Refresh /\ now <= releasePrev + Late
    BY DEF IInv, TypeOK, PhaseInv
  <2> QED
    BY <2>1, <2>2, Numbers
<1> QED
  BY <1>1, Invariance, PTL

\* With Tier 1 two times pace returns in a row are at least min_delay apart, whatever the
\* estimates and whatever hitches.
THEOREM Tier1HoldsTheCap == Spec => Tier1Cap
<1>1. IInv /\ [Next]_vars =>
        [tier = 1 /\ at # "idle" /\ at' = "idle" /\ last # None => last' - last >= delay]_vars
  <2> SUFFICES ASSUME IInv, Next, tier = 1, at # "idle", at' = "idle", last # None
               PROVE  last' - last >= delay
    OBVIOUS
  <2>1. at = "jit" /\ last + delay <= releasePrev /\ deadline = releasePrev
    BY DEF IInv, TypeOK, PhaseInv, CapInv
  <2>2. last' = deadline
    BY <2>1 DEF Next, Begin, ReturnJit, AlignVrr, AlignGrid, ReturnAligned, SetSwapchain, Write,
                Returns
  <2>3. last \in Nat /\ delay \in Nat /\ releasePrev \in Nat
    BY InFrame DEF IInv, TypeOK, Times
  <2> QED
    BY <2>1, <2>2, <2>3
<1> QED
  BY <1>1, Invariance, PTL DEF Spec, Tier1Cap

\* Once the anchor has passed, a frame for the grid is released at the next vblank, early by
\* no more than the core woke late, and half a cycle off either way once the PI loop has an
\* error to correct.  Before that the code aims at the vblank after the anchor, and only
\* SleepIsBounded holds.
THEOREM GridReleasesAtVblank == Spec => ReleasedAtVblank
<1>1. IInv /\ [Next]_vars =>
        [AlignGrid /\ anchor < now' =>
           LET off == IF fed THEN Refresh \div 2 ELSE 0 IN
           deadline' \in NextVblank(now') - Late - off..NextVblank(now') + off]_vars
  <2> DEFINE off == IF fed THEN Refresh \div 2 ELSE 0
  <2> SUFFICES ASSUME IInv, AlignGrid, anchor < now'
               PROVE  deadline' \in NextVblank(now') - Late - off..NextVblank(now') + off
    OBVIOUS
  <2>1. /\ deadline \in Nat /\ anchor \in Nat /\ now' \in Nat
        /\ deadline <= now' /\ now' <= deadline + Late
    <3>1. now <= deadline
      BY DEF IInv, PhaseInv, AlignGrid
    <3>2. now \in Nat /\ deadline \in Nat /\ anchor \in Nat
      BY DEF IInv, TypeOK, Times
    <3> QED
      BY <3>1, <3>2, WakesBounds, Numbers DEF IInv, AlignGrid
  <2>2. Max({deadline, now'}) = now'
    BY <2>1, MaxOfTwo
  <2>3. PICK c \in Corrections :
          deadline' = Clamped(now', deadline + (Vblank(now') - now') - c)
    BY <2>2 DEF AlignGrid
  <2>4. off \in Nat /\ c \in -off..off
    <3>1. Refresh \div 2 \in Nat
      BY Numbers
    <3> QED
      BY <3>1, <2>3 DEF Corrections
  <2> HIDE DEF off
  <2>5. /\ NextVblank(now') = Vblank(now') /\ Vblank(now') \in Int
        /\ now' <= Vblank(now') /\ Vblank(now') <= now' + Refresh
    BY <2>1, VblankIsNext, Numbers
  <2>6. PICK wanted \in Int : wanted = deadline + (Vblank(now') - now') - c
    BY <2>1, <2>4, <2>5
  <2>7. deadline' = IF wanted < now' THEN now'
                    ELSE IF wanted > now' + Refresh THEN now' + Refresh ELSE wanted
    BY <2>1, <2>3, <2>6, ClampedBounds
  <2> QED
    BY <2>1, <2>4, <2>5, <2>6, <2>7, Numbers
<1> QED
  BY <1>1, Invariance, PTL DEF Spec, ReleasedAtVblank

=============================================================================
