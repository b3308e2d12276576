--------------------------- MODULE CubeTimer_proofs ----------------------------
(***************************************************************************)
(* The work timer is right for every sequence of samples, however long,    *)
(* and every clock.                                                        *)
(***************************************************************************)
EXTENDS CubeTimer, TLAPS

\* An update leaves a timer of the right type that starts no later than now.
LEMMA UpdateType ==
    ASSUME NEW t \in TimerType, NEW side \in SideCodes, NEW now \in Nat,
           t.start_time_us <= now
    PROVE  /\ cube_timer_update(t, side, now) \in TimerType
           /\ cube_timer_update(t, side, now).start_time_us <= now
<1>1. CASE side \notin WorkSides
  <2>1. cube_timer_update(t, side, now) = [t EXCEPT !.running = FALSE]
    BY <1>1 DEF cube_timer_update
  <2> QED
    BY <2>1 DEF TimerType
<1>2. CASE side \in WorkSides /\ t.running /\ side = t.side
  BY <1>2 DEF cube_timer_update
<1>3. CASE side \in WorkSides /\ ~(t.running /\ side = t.side)
  <2>1. cube_timer_update(t, side, now)
            = [running |-> TRUE, side |-> side, start_time_us |-> now]
    BY <1>3 DEF cube_timer_update
  <2> QED
    BY <2>1 DEF TimerType
<1> QED
  BY <1>1, <1>2, <1>3

Last(s) == s[Len(s)]

\* What the timer knows of its history: while the last sample is of a work
\* side it runs on that side, since the first sample of the latest run;
\* otherwise it is stopped.  (The start time of a stopped timer is stale,
\* and its side too, so neither may be used to start it again.)
TimerInv ==
    /\ TypeOK
    /\ timer.running <=> OnWorkSide
    /\ OnWorkSide =>
          /\ timer.side = Last(samples).side
          /\ \E k \in 1..Len(samples) :
                RunStartsAt(k) /\ timer.start_time_us = samples[k].at

\* Appending a sample of the side the run is on extends the run, appending
\* one of another side starts a run of its own.
LEMMA RunOfAppend ==
    ASSUME TypeOK, NEW s \in [side: SideCodes, at: Nat],
           samples' = Append(samples, s)
    PROVE  /\ samples # <<>> /\ Last(samples).side = s.side =>
                 \A k \in 1..Len(samples) : RunStartsAt(k) => RunStartsAt(k)'
           /\ samples = <<>> \/ Last(samples).side # s.side =>
                 \A k \in Nat : k = Len(samples) + 1 => RunStartsAt(k)'
<1>1. samples \in Seq([side: SideCodes, at: Nat])
  BY DEF TypeOK
<1>2. /\ Len(samples') = Len(samples) + 1
      /\ Len(samples) \in Nat
      /\ \A i \in 1..Len(samples) : samples'[i] = samples[i]
      /\ samples'[Len(samples) + 1] = s
  BY <1>1
<1>3. ASSUME samples # <<>>, Last(samples).side = s.side,
             NEW k \in 1..Len(samples), RunStartsAt(k)
      PROVE  RunStartsAt(k)'
  <2>1. k \in 1..Len(samples')
    BY <1>2
  <2>2. ASSUME NEW i \in k..Len(samples')
        PROVE  samples'[i].side = samples'[Len(samples')].side
    <3>1. CASE i = Len(samples')
      BY <3>1
    <3>2. CASE i # Len(samples')
      <4>1. i \in k..Len(samples) /\ i \in 1..Len(samples)
        BY <1>2, <3>2
      <4> QED
        BY <1>2, <1>3, <4>1 DEF RunStartsAt, Last
    <3> QED
      BY <3>1, <3>2
  <2>3. k > 1 => samples'[k - 1].side # samples'[k].side
    BY <1>2, <1>3 DEF RunStartsAt
  <2> QED
    BY <2>1, <2>2, <2>3 DEF RunStartsAt
<1>4. ASSUME samples = <<>> \/ Last(samples).side # s.side,
             NEW k \in Nat, k = Len(samples) + 1
      PROVE  RunStartsAt(k)'
  <2>1. k \in 1..Len(samples') /\ k = Len(samples')
    BY <1>2, <1>4
  <2>2. \A i \in k..Len(samples') : i = k
    BY <2>1
  <2>3. k > 1 => samples'[k - 1].side # samples'[k].side
    BY <1>1, <1>2, <1>4 DEF Last
  <2> QED
    BY <2>1, <2>2, <2>3 DEF RunStartsAt
<1> QED
  BY <1>3, <1>4

LEMMA TimerInvIsInvariant == Spec => []TimerInv
<1>1. Init => TimerInv
  <2>1. StoppedTimer \in TimerType
    BY DEF StoppedTimer, TimerType, SideCodes
  <2> QED
    BY <2>1 DEF Init, TimerInv, TypeOK, StoppedTimer, OnWorkSide
<1>2. TimerInv /\ [Next]_vars => TimerInv'
  <2> SUFFICES ASSUME TimerInv, [Next]_vars
               PROVE  TimerInv'
    OBVIOUS
  <2> USE DEF TimerInv
  <2>1. CASE cube_timer_init
    <3>1. StoppedTimer \in TimerType
      BY DEF StoppedTimer, TimerType, SideCodes
    <3> QED
      BY <2>1, <3>1 DEF cube_timer_init, TypeOK, StoppedTimer, OnWorkSide
  <2>2. ASSUME NEW side \in SideCodes, Update(side)
        PROVE  TimerInv'
    <3> DEFINE s == [side |-> side, at |-> now_us]
    <3>1. /\ timer' = cube_timer_update(timer, side, now_us)
          /\ samples' = Append(samples, s)
          /\ now_us' = now_us
      BY <2>2 DEF Update
    <3>2. s \in [side: SideCodes, at: Nat]
      BY DEF TypeOK
    <3>3. TypeOK'
      <4>1. /\ cube_timer_update(timer, side, now_us) \in TimerType
            /\ cube_timer_update(timer, side, now_us).start_time_us <= now_us
        BY UpdateType DEF TypeOK
      <4>2. samples' \in Seq([side: SideCodes, at: Nat])
        BY <3>1, <3>2 DEF TypeOK
      <4> QED
        BY <3>1, <4>1, <4>2 DEF TypeOK
    <3>4. /\ samples \in Seq([side: SideCodes, at: Nat])
          /\ Len(samples) \in Nat
          /\ Len(samples') = Len(samples) + 1
          /\ samples' # <<>>
          /\ \A i \in 1..Len(samples) : samples'[i] = samples[i]
          /\ samples'[Len(samples')] = s
      BY <3>1, <3>2 DEF TypeOK
    <3>5. OnWorkSide' <=> side \in WorkSides
      BY <3>4 DEF OnWorkSide
    <3>6. CASE side \notin WorkSides
      <4>1. timer'.running = FALSE
        BY <3>1, <3>6 DEF cube_timer_update, TypeOK, TimerType
      <4> QED
        BY <3>3, <3>5, <3>6, <4>1 DEF OnWorkSide
    <3>7. CASE side \in WorkSides /\ timer.running /\ side = timer.side
      <4>1. timer' = timer
        BY <3>1, <3>7 DEF cube_timer_update
      <4>2. samples # <<>> /\ Last(samples).side = s.side
        BY <3>7 DEF OnWorkSide
      <4>3. PICK k \in 1..Len(samples) :
                RunStartsAt(k) /\ timer.start_time_us = samples[k].at
        BY <3>7
      <4>4. RunStartsAt(k)'
        BY <3>1, <3>2, <4>2, <4>3, RunOfAppend
      <4>5. k \in 1..Len(samples') /\ samples'[k] = samples[k]
        BY <3>4
      <4>6. Last(samples)'.side = timer'.side
        BY <3>4, <3>7, <4>1 DEF Last
      <4> QED
        BY <3>3, <3>5, <3>7, <4>1, <4>3, <4>4, <4>5, <4>6
    <3>8. CASE side \in WorkSides /\ ~(timer.running /\ side = timer.side)
      <4>1. timer' = [running |-> TRUE, side |-> side, start_time_us |-> now_us]
        BY <3>1, <3>8 DEF cube_timer_update
      <4>2. samples = <<>> \/ Last(samples).side # s.side
        BY <3>8 DEF OnWorkSide, Last
      <4>3. PICK k \in Nat : k = Len(samples')
        BY <3>4
      <4>4. RunStartsAt(k)'
        BY <3>1, <3>2, <3>4, <4>2, <4>3, RunOfAppend DEF TypeOK
      <4>5. /\ k \in 1..Len(samples')
            /\ samples'[k].at = timer'.start_time_us
            /\ Last(samples)'.side = timer'.side
            /\ timer'.running
        BY <3>4, <4>1, <4>3 DEF Last
      <4> QED
        BY <3>3, <3>5, <3>8, <4>4, <4>5
    <3> QED
      BY <3>6, <3>7, <3>8
  <2>3. CASE Tick
    BY <2>3 DEF Tick, TypeOK, TimerType, OnWorkSide, RunStartsAt, Last
  <2>4. CASE UNCHANGED vars
    BY <2>4 DEF vars, TypeOK, OnWorkSide, RunStartsAt, Last
  <2> QED
    BY <2>1, <2>2, <2>3, <2>4 DEF Next
<1> QED
  BY <1>1, <1>2, PTL DEF Spec

\* The timer never starts in the future.
THEOREM TypeCorrect == Spec => []TypeOK
<1>1. TimerInv => TypeOK
  BY DEF TimerInv
<1> QED
  BY <1>1, TimerInvIsInvariant, PTL

\* The elapsed time is the length of the present stay, for every history.
THEOREM ElapsedIsTheDwell == Spec => []ElapsedIsDwell
<1>1. TimerInv => ElapsedIsDwell
  BY DEF TimerInv, ElapsedIsDwell, elapsed, cube_timer_elapsed_us, TypeOK,
         TimerType
<1> QED
  BY <1>1, TimerInvIsInvariant, PTL

\* The shown time falls only when the side changes or the timer is
\* initialised, for every history.
THEOREM ElapsedDropsOnChange == Spec => ElapsedDropsOnChangeOnly
<1> DEFINE Kept == elapsed' < elapsed =>
              \/ samples' = <<>>
              \/ samples'[Len(samples')].side # samples[Len(samples)].side
<1>1. TimerInv /\ [Next]_vars => [Kept]_vars
  <2> SUFFICES ASSUME TimerInv, [Next]_vars
               PROVE  [Kept]_vars
    OBVIOUS
  <2>1. CASE cube_timer_init
    BY <2>1 DEF cube_timer_init
  <2>2. ASSUME NEW side \in SideCodes, Update(side),
               elapsed' < elapsed
        PROVE  samples'[Len(samples')].side # samples[Len(samples)].side
    <3>1. /\ samples' = Append(samples, [side |-> side, at |-> now_us])
          /\ samples \in Seq([side: SideCodes, at: Nat])
          /\ timer' = cube_timer_update(timer, side, now_us)
          /\ now_us' = now_us /\ now_us \in Nat
          /\ timer \in TimerType
      BY <2>2 DEF Update, TimerInv, TypeOK
    <3>2. samples'[Len(samples')].side = side
      BY <3>1
    <3>3. timer.running
      <4>1. CASE ~timer.running
        <5>1. elapsed = 0
          BY <4>1 DEF elapsed, cube_timer_elapsed_us
        <5>2. elapsed' \in Nat
          <6>1. timer' \in TimerType /\ timer'.start_time_us <= now_us
            BY <3>1, UpdateType DEF TimerInv, TypeOK
          <6> QED
            BY <3>1, <6>1 DEF elapsed, cube_timer_elapsed_us, TimerType
        <5> QED
          BY <2>2, <5>1, <5>2
      <4> QED
        BY <4>1, <3>1 DEF TimerType
    <3>4. timer.side = samples[Len(samples)].side /\ OnWorkSide
      BY <3>3 DEF TimerInv, Last
    <3>5. CASE side = timer.side
      <4>1. timer' = timer
        BY <3>1, <3>3, <3>4, <3>5 DEF cube_timer_update, OnWorkSide
      <4>2. elapsed' = elapsed
        BY <3>1, <4>1 DEF elapsed
      <4> QED
        BY <2>2, <3>1, <4>2 DEF elapsed, cube_timer_elapsed_us, TimerType
    <3> QED
      BY <3>2, <3>4, <3>5
  <2>3. CASE Tick
    BY <2>3 DEF Tick, TimerInv, TypeOK, TimerType, elapsed,
                cube_timer_elapsed_us
  <2> QED
    BY <2>1, <2>2, <2>3 DEF Next
<1> QED
  BY <1>1, TimerInvIsInvariant, PTL DEF Spec, ElapsedDropsOnChangeOnly
=============================================================================
