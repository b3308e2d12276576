------------------------------ MODULE CubeSensor ------------------------------
(***************************************************************************)
(* The first thing every boot does (src/main.c, app_main): six bytes are   *)
(* read from the MPU6050 in one burst, assembled into three signed 16-bit  *)
(* values and reduced to a side number by get_cube_side.                   *)
(***************************************************************************)
EXTENDS CubeLogic

CONSTANT Bytes   \* the values a register may hold

ASSUME BytesAssumption == Bytes \subseteq 0..255

\* What an axis reads that points straight down: the range is 2 g.
ONE_G == 16384

\* An axis that feels half of the gravity is not noise.
ASSUME GravityAssumption == 2 * SIDE_MIN_THRESHOLD <= ONE_G

VARIABLES
    pc,        \* where app_main is: before or after the read
    x, y, z,   \* the assembled values, 0 until the read
    new_side   \* app_main's local of that name

vars == <<pc, x, y, z, new_side>>

-----------------------------------------------------------------------------
\* int16_t v = (hi << 8) | lo : the two's complement value of 16 bits.
ToInt16(hi, lo) ==
    LET word == 256 * hi + lo
    IN  IF word < 32768 THEN word ELSE word - 65536

Init ==
    /\ pc = "boot"
    /\ x = 0 /\ y = 0 /\ z = 0
    /\ new_side = -1

\* The burst read of ACCEL_XOUT_H .. ACCEL_ZOUT_L succeeds.
SampleOk ==
    /\ pc = "boot"
    /\ \E hi, lo \in Bytes : x' = ToInt16(hi, lo)
    /\ \E hi, lo \in Bytes : y' = ToInt16(hi, lo)
    /\ \E hi, lo \in Bytes : z' = ToInt16(hi, lo)
    /\ new_side' = get_cube_side(x', y', z')
    /\ pc' = "sampled"

\* i2c_master_transmit_receive does not return ESP_OK.
SampleFails ==
    /\ pc = "boot"
    /\ pc' = "sampled"
    /\ UNCHANGED <<x, y, z, new_side>>

\* Deep sleep ends in a boot: app_main runs again, with fresh locals.
Reboot ==
    /\ pc = "sampled"
    /\ pc' = "boot"
    /\ x' = 0 /\ y' = 0 /\ z' = 0
    /\ new_side' = -1

Next == SampleOk \/ SampleFails \/ Reboot

Spec == Init /\ [][Next]_vars

-----------------------------------------------------------------------------
\* The assembled values fit the int16_t they are stored in, and new_side is
\* one of the numbers the rest of the firmware tells apart.
TypeOK ==
    /\ pc \in {"boot", "sampled"}
    /\ x \in Int16 /\ y \in Int16 /\ z \in Int16
    /\ new_side \in SideCodes

\* How much of the acceleration points along the outward normal of face s
\* (Z+ = 1, Z- = 2, X+ = 3, X- = 4, Y+ = 5, Y- = 6).
Along(s) == <<z, -z, x, -x, y, -y>>[s]

\* get_cube_side names a face whose normal is closest to the measured
\* acceleration: no other face has more of it, whatever the signs, the ties
\* and the asymmetric range of int16_t, and it has more than noise.  Nor does
\* it give up too early: with an axis that is closer to 1 g than to nothing
\* there is a side, whatever the others read.  That there is none when no axis
\* is close to 1 g (README.md:125-127) is not claimed, and is not so: the code
\* names a face of every reading that is not noise on all axes, also of a cube
\* that is tilted or moved.
SteepestFace ==
    /\ new_side \in Faces =>
          /\ \A s \in Faces : Along(s) <= Along(new_side)
          /\ Along(new_side) >= SIDE_MIN_THRESHOLD
    /\ (\E v \in {x, y, z} : 2 * Abs(v) >= ONE_G) => new_side # 0

Opposite(s) == IF s = 0 THEN 0 ELSE IF s % 2 = 1 THEN s + 1 ELSE s - 1

\* Turning the cube over negates the reading and gives the opposite face (an
\* uncertain reading stays uncertain), ties between axes included: which
\* axis wins may not depend on a sign.
FlipGivesOppositeFace ==
    (pc = "sampled" /\ new_side # -1) =>
        get_cube_side(-x, -y, -z) = Opposite(new_side)
=============================================================================
