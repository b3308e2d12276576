------------------------------- MODULE CubeTimer -------------------------------
(***************************************************************************)
(* A cube_timer_t in use: its owner initialises it, feeds it the side of   *)
(* every sample with the time of the sample, and reads the elapsed time    *)
(* whenever it likes.  The history of the samples is kept beside the timer,*)
(* which itself remembers one side and one start time only; the properties *)
(* relate the two.                                                         *)
(***************************************************************************)
EXTENDS CubeLogic, Sequences

CONSTANTS
    MaxTime,    \* bound on the clock
    MaxSamples  \* bound on the samples between two initialisations

ASSUME TimerBoundsAssumption == MaxTime \in Nat /\ MaxSamples \in Nat

VARIABLES
    timer,    \* the cube_timer_t
    now_us,   \* the clock both operations are given
    samples   \* history: the updates since the last cube_timer_init

vars == <<timer, now_us, samples>>

elapsed == cube_timer_elapsed_us(timer, now_us)

-----------------------------------------------------------------------------
Init ==
    /\ timer = StoppedTimer
    /\ now_us = 0
    /\ samples = <<>>

cube_timer_init ==
    /\ timer' = StoppedTimer
    /\ samples' = <<>>
    /\ UNCHANGED now_us

Update(side) ==
    /\ Len(samples) < MaxSamples
    /\ timer' = cube_timer_update(timer, side, now_us)
    /\ samples' = Append(samples, [side |-> side, at |-> now_us])
    /\ UNCHANGED now_us

Tick ==
    /\ now_us < MaxTime
    /\ now_us' = now_us + 1
    /\ UNCHANGED <<timer, samples>>

Next ==
    \/ cube_timer_init
    \/ \E side \in SideCodes : Update(side)
    \/ Tick

Spec == Init /\ [][Next]_vars

-----------------------------------------------------------------------------
\* The fields keep their types and nothing starts in the future.
TypeOK ==
    /\ timer \in TimerType
    /\ now_us \in Nat
    /\ samples \in Seq([side: SideCodes, at: Nat])
    /\ timer.start_time_us <= now_us

OnWorkSide == samples # <<>> /\ samples[Len(samples)].side \in WorkSides

\* The latest uninterrupted run of samples on one side begins at sample k.
RunStartsAt(k) ==
    /\ k \in 1..Len(samples)
    /\ \A i \in k..Len(samples) : samples[i].side = samples[Len(samples)].side
    /\ k > 1 => samples[k - 1].side # samples[k].side

\* The elapsed time is the time since the cube came to lie on its present
\* side, if that is a work side, and 0 otherwise (README.md:129-135: the time
\* keeps going while the side stays, a change of side or the sleep side
\* starts it again), although the timer forgets every sample but one:
\* leaving side 3 for the sleep side and coming back does not add the two
\* stays up, repeating a sample does not start it again.
ElapsedIsDwell ==
    IF OnWorkSide
    THEN \E k \in 1..Len(samples) :
            RunStartsAt(k) /\ elapsed = now_us - samples[k].at
    ELSE elapsed = 0

\* The shown time goes back only in a step that takes a sample of another
\* side than the one before, or initialises the timer.
ElapsedDropsOnChangeOnly ==
    [][ elapsed' < elapsed =>
          \/ samples' = <<>>
          \/ samples'[Len(samples')].side # samples[Len(samples)].side
      ]_vars
=============================================================================
