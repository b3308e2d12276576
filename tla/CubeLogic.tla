------------------------------- MODULE CubeLogic -------------------------------
(***************************************************************************)
(* lib/cube_logic: the part of the firmware that touches no hardware.      *)
(* get_cube_side reduces an acceleration to a side number, the cube_timer  *)
(* functions keep the work timer shown to the user.                        *)
(*   1..6  a face (Z+, Z-, X+, X-, Y+, Y-); 6 is the sleep side            *)
(*   0     "no certain side": nothing but noise on every axis              *)
(*   -1    the firmware's own value for "the sensor could not be read"     *)
(***************************************************************************)
EXTENDS Integers

CONSTANT SIDE_MIN_THRESHOLD  \* readings below this on all axes are noise

ASSUME ThresholdAssumption == SIDE_MIN_THRESHOLD \in Nat \ {0}

SLEEP_SIDE == 6
Faces      == 1..6
WorkSides  == Faces \ {SLEEP_SIDE}
SideCodes  == {-1, 0} \union Faces

INT16_MAX == 32767
INT16_MIN == -32768
Int16 == INT16_MIN..INT16_MAX

Abs(n) == IF n < 0 THEN -n ELSE n

-----------------------------------------------------------------------------
(* The side of a reading.                                                  *)

\* Plausible bug: a magnitude compared with a signed value.
SignedDominance(x, y, z) ==
    IF \A v \in {x, y, z} : Abs(v) < SIDE_MIN_THRESHOLD THEN 0
    ELSE IF Abs(z) >= x /\ Abs(z) >= y THEN (IF z > 0 THEN 1 ELSE 2)
    ELSE IF Abs(x) >= Abs(y)           THEN (IF x > 0 THEN 3 ELSE 4)
    ELSE                                    (IF y > 0 THEN 5 ELSE 6)

\* Plausible bug: one of the faces of an axis is given the wrong number.
FacesOfZExchanged(x, y, z) ==
    IF \A v \in {x, y, z} : Abs(v) < SIDE_MIN_THRESHOLD THEN 0
    ELSE IF Abs(z) >= Abs(x) /\ Abs(z) >= Abs(y) THEN (IF z > 0 THEN 1 ELSE 7)
    ELSE IF Abs(x) >= Abs(y)                     THEN (IF x > 0 THEN 3 ELSE 4)
    ELSE                                              (IF y > 0 THEN 5 ELSE 6)

\* Plausible bug: the order of the axes in a tie depends on their signs.
TieBySign(x, y, z) ==
    IF \A v \in {x, y, z} : Abs(v) < SIDE_MIN_THRESHOLD THEN 0
    ELSE IF Abs(z) > x /\ Abs(z) >= Abs(x) /\ Abs(z) >= Abs(y)
                                                 THEN (IF z > 0 THEN 1 ELSE 2)
    ELSE IF Abs(x) >= Abs(y)                     THEN (IF x > 0 THEN 3 ELSE 4)
    ELSE                                              (IF y > 0 THEN 5 ELSE 6)

\* The axis with the largest magnitude (Z before X before Y in a tie), and
\* of its two faces the one its sign selects.
get_cube_side(x, y, z) ==
    IF \A v \in {x, y, z} : Abs(v) < SIDE_MIN_THRESHOLD THEN 0
    ELSE IF Abs(z) >= Abs(x) /\ Abs(z) >= Abs(y) THEN (IF z > 0 THEN 1 ELSE 2)
    ELSE IF Abs(x) >= Abs(y)                     THEN (IF x > 0 THEN 3 ELSE 4)
    ELSE                                              (IF y > 0 THEN 5 ELSE 6)

-----------------------------------------------------------------------------
(* The work timer: cube_timer_t and its three operations.                  *)

TimerType == [running: BOOLEAN, side: SideCodes, start_time_us: Nat]

StoppedTimer == [running |-> FALSE, side |-> 0, start_time_us |-> 0]

\* Plausible bug: the side is compared without looking at running.
UpdateIgnoringRunning(timer, side, now_us) ==
    IF side \notin WorkSides THEN [timer EXCEPT !.running = FALSE]
    ELSE IF side = timer.side THEN [timer EXCEPT !.running = TRUE]
    ELSE [running |-> TRUE, side |-> side, start_time_us |-> now_us]

\* Plausible bug: every sample of a work side starts the timer again.
UpdateAlwaysRestarts(timer, side, now_us) ==
    IF side \notin WorkSides THEN [timer EXCEPT !.running = FALSE]
    ELSE [running |-> TRUE, side |-> side, start_time_us |-> now_us]

\* Plausible bug: the start is rounded up to the next tick of a coarser clock.
UpdateRoundingUp(timer, side, now_us) ==
    IF side \notin WorkSides THEN [timer EXCEPT !.running = FALSE]
    ELSE IF timer.running /\ side = timer.side THEN timer
    ELSE [running |-> TRUE, side |-> side, start_time_us |-> now_us + 1]

\* A side that is not a work side stops the timer and touches nothing else;
\* a work side starts it again unless it is already running on that side.
cube_timer_update(timer, side, now_us) ==
    IF side \notin WorkSides THEN [timer EXCEPT !.running = FALSE]
    ELSE IF timer.running /\ side = timer.side THEN timer
    ELSE [running |-> TRUE, side |-> side, start_time_us |-> now_us]

cube_timer_elapsed_us(timer, now_us) ==
    IF timer.running THEN now_us - timer.start_time_us ELSE 0
=============================================================================
