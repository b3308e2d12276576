--------------------------- MODULE CubeSensor_proofs ---------------------------
(***************************************************************************)
(* What the side detection promises for every threshold and every content  *)
(* of the sensor's registers.                                              *)
(***************************************************************************)
EXTENDS CubeSensor, TLAPS

-----------------------------------------------------------------------------
(* Facts about get_cube_side, for every threshold and every reading.       *)

\* Membership in int16_t, as two comparisons.
LEMMA Int16Range ==
    \A n : n \in Int16 <=> n \in Int /\ -32768 <= n /\ n <= 32767
<1>1. INT16_MIN = -32768 /\ INT16_MAX = 32767
  BY DEF INT16_MIN, INT16_MAX
<1>2. INT16_MIN \in Int /\ INT16_MAX \in Int
  BY <1>1
<1>3. \A n : n \in Int16 <=> n \in Int /\ INT16_MIN <= n /\ n <= INT16_MAX
  BY <1>2 DEF Int16
<1> QED
  BY <1>1, <1>3

\* The face of a reading, axis by axis: the sign of the largest axis selects
\* it, and that axis is above the threshold.
LEMMA SideByAxis ==
    ASSUME NEW a \in Int, NEW b \in Int, NEW c \in Int,
           NEW side \in Faces, side = get_cube_side(a, b, c)
    PROVE  \/ side = 1 /\  c >= Abs(a) /\  c >= Abs(b) /\  c >= SIDE_MIN_THRESHOLD
           \/ side = 2 /\ -c >= Abs(a) /\ -c >= Abs(b) /\ -c >= SIDE_MIN_THRESHOLD
           \/ side = 3 /\  a >= Abs(c) /\  a >= Abs(b) /\  a >= SIDE_MIN_THRESHOLD
           \/ side = 4 /\ -a >= Abs(c) /\ -a >= Abs(b) /\ -a >= SIDE_MIN_THRESHOLD
           \/ side = 5 /\  b >= Abs(c) /\  b >= Abs(a) /\  b >= SIDE_MIN_THRESHOLD
           \/ side = 6 /\ -b >= Abs(c) /\ -b >= Abs(a) /\ -b >= SIDE_MIN_THRESHOLD
BY ThresholdAssumption DEF get_cube_side, Faces, Abs

\* A reading with an axis that is not noise is on some side.
LEMMA LoudAxisIsCertain ==
    ASSUME NEW a \in Int, NEW b \in Int, NEW c \in Int,
           \E v \in {a, b, c} : Abs(v) >= SIDE_MIN_THRESHOLD
    PROVE  get_cube_side(a, b, c) # 0
BY ThresholdAssumption DEF get_cube_side, Abs

\* A mirrored reading has the mirrored side: the axis is the same, whatever ties
\* there are, and the sign the other one.
LEMMA MirroredSide ==
    ASSUME NEW a \in Int, NEW b \in Int, NEW c \in Int
    PROVE  LET s == get_cube_side(a, b, c)
               t == get_cube_side(-a, -b, -c)
           IN  \/ s = 0 /\ t = 0
               \/ s = 1 /\ t = 2
               \/ s = 2 /\ t = 1
               \/ s = 3 /\ t = 4
               \/ s = 4 /\ t = 3
               \/ s = 5 /\ t = 6
               \/ s = 6 /\ t = 5
BY ThresholdAssumption DEF get_cube_side, Abs

-----------------------------------------------------------------------------
(* What the samples leave behind.                                          *)

\* What a sample leaves behind: nothing before the read, the side of the
\* reading or the failure code after it.
SampleInv ==
    /\ pc \in {"boot", "sampled"}
    /\ x \in Int16 /\ y \in Int16 /\ z \in Int16
    /\ \/ new_side = -1
       \/ new_side = get_cube_side(x, y, z)

\* Two bytes always assemble into a value of int16_t.
LEMMA AssemblyType ==
    ASSUME NEW hi \in Bytes, NEW lo \in Bytes
    PROVE  ToInt16(hi, lo) \in Int16
<1> hi \in 0..255 /\ lo \in 0..255
  BY BytesAssumption
<1>1. 256 * hi + lo \in Int /\ 0 <= 256 * hi + lo /\ 256 * hi + lo < 65536
  OBVIOUS
<1> QED
  BY <1>1, Int16Range DEF ToInt16

LEMMA SampleInvIsInvariant == Spec => []SampleInv
<1>1. Init => SampleInv
  BY Int16Range DEF Init, SampleInv
<1>2. SampleInv /\ [Next]_vars => SampleInv'
  <2> SUFFICES ASSUME SampleInv, [Next]_vars
               PROVE  SampleInv'
    OBVIOUS
  <2>1. CASE SampleOk
    <3>1. x' \in Int16 /\ y' \in Int16 /\ z' \in Int16
      BY <2>1, AssemblyType DEF SampleOk
    <3> QED
      BY <2>1, <3>1 DEF SampleOk, SampleInv
  <2>2. CASE SampleFails
    BY <2>2 DEF SampleFails, SampleInv
  <2>3. CASE Reboot
    BY <2>3, Int16Range DEF Reboot, SampleInv
  <2>4. CASE UNCHANGED vars
    BY <2>4 DEF vars, SampleInv
  <2> QED
    BY <2>1, <2>2, <2>3, <2>4 DEF Next
<1> QED
  BY <1>1, <1>2, PTL DEF Spec

\* app_main only ever holds int16_t values and one of the eight side codes.
THEOREM TypeCorrect == Spec => []TypeOK
<1>1. SampleInv => TypeOK
  <2>1. get_cube_side(x, y, z) \in {0} \union Faces
    BY DEF get_cube_side, Faces
  <2> QED
    BY <2>1 DEF SampleInv, TypeOK, SideCodes
<1> QED
  BY <1>1, SampleInvIsInvariant, PTL

\* Whatever the registers hold, a reported face is one the cube shows most
\* of, and more than noise of; and a cube with an axis that is closer to 1 g
\* than to nothing is on some side.
THEOREM SteepestFaceIsReported == Spec => []SteepestFace
<1>1. ASSUME SampleInv, new_side \in Faces
      PROVE  /\ \A s \in Faces : Along(s) <= Along(new_side)
             /\ Along(new_side) >= SIDE_MIN_THRESHOLD
  <2>1. x \in Int /\ y \in Int /\ z \in Int
    BY <1>1, Int16Range DEF SampleInv
  <2>2. new_side = get_cube_side(x, y, z)
    BY <1>1 DEF SampleInv, Faces
  <2>3. /\ Along(1) = z /\ Along(2) = -z
        /\ Along(3) = x /\ Along(4) = -x
        /\ Along(5) = y /\ Along(6) = -y
    BY DEF Along
  <2>4. /\ Along(new_side) >= SIDE_MIN_THRESHOLD
        /\ Along(new_side) >= Abs(x)
        /\ Along(new_side) >= Abs(y)
        /\ Along(new_side) >= Abs(z)
    <3>1. CASE new_side \in {1, 2}
      BY <1>1, <2>1, <2>2, <2>3, <3>1, SideByAxis, ThresholdAssumption DEF Abs
    <3>2. CASE new_side \in {3, 4}
      BY <1>1, <2>1, <2>2, <2>3, <3>2, SideByAxis, ThresholdAssumption DEF Abs
    <3>3. CASE new_side \in {5, 6}
      BY <1>1, <2>1, <2>2, <2>3, <3>3, SideByAxis, ThresholdAssumption DEF Abs
    <3> QED
      BY <1>1, <3>1, <3>2, <3>3 DEF Faces
  <2>5. ASSUME NEW s \in Faces PROVE Along(s) <= Along(new_side)
    <3>1. \E v \in {x, y, z} : Along(s) = v \/ Along(s) = -v
      BY <2>3, <2>5 DEF Faces
    <3>2. Along(new_side) \in Int
      BY <1>1, <2>1, <2>3 DEF Faces
    <3> QED
      BY <2>1, <2>4, <3>1, <3>2 DEF Abs
  <2> QED
    BY <2>4, <2>5
<1>2. ASSUME SampleInv, \E v \in {x, y, z} : 2 * Abs(v) >= ONE_G
      PROVE  new_side # 0
  <2>1. x \in Int /\ y \in Int /\ z \in Int
    BY <1>2, Int16Range DEF SampleInv
  <2>2. PICK v \in {x, y, z} : 2 * Abs(v) >= ONE_G
    BY <1>2
  <2>3. Abs(v) >= SIDE_MIN_THRESHOLD
    BY <2>1, <2>2, ThresholdAssumption, GravityAssumption DEF Abs, ONE_G
  <2> QED
    BY <1>2, <2>1, <2>3, LoudAxisIsCertain DEF SampleInv
<1>3. SampleInv => SteepestFace
  BY <1>1, <1>2 DEF SteepestFace
<1> QED
  BY <1>3, SampleInvIsInvariant, PTL

\* Turning the cube over turns the reported side over, for every reading.
THEOREM FlippingFlipsTheSide == Spec => []FlipGivesOppositeFace
<1>1. SampleInv => FlipGivesOppositeFace
  <2> SUFFICES ASSUME SampleInv, new_side # -1
               PROVE  get_cube_side(-x, -y, -z) = Opposite(new_side)
    BY DEF FlipGivesOppositeFace
  <2>1. x \in Int /\ y \in Int /\ z \in Int
    BY Int16Range DEF SampleInv
  <2>2. new_side = get_cube_side(x, y, z)
    BY DEF SampleInv
  <2>3. /\ Opposite(0) = 0
        /\ Opposite(1) = 2 /\ Opposite(2) = 1
        /\ Opposite(3) = 4 /\ Opposite(4) = 3
        /\ Opposite(5) = 6 /\ Opposite(6) = 5
    BY DEF Opposite
  <2>4. new_side \in {0} \union Faces
    BY <2>2 DEF get_cube_side, Faces
  <2>5. /\ new_side = 0 => get_cube_side(-x, -y, -z) = 0
        /\ new_side = 1 => get_cube_side(-x, -y, -z) = 2
        /\ new_side = 2 => get_cube_side(-x, -y, -z) = 1
        /\ new_side = 3 => get_cube_side(-x, -y, -z) = 4
        /\ new_side = 4 => get_cube_side(-x, -y, -z) = 3
        /\ new_side = 5 => get_cube_side(-x, -y, -z) = 6
        /\ new_side = 6 => get_cube_side(-x, -y, -z) = 5
    BY <2>1, <2>2, MirroredSide
  <2> QED
    BY <2>3, <2>4, <2>5 DEF Faces
<1> QED
  BY <1>1, SampleInvIsInvariant, PTL
=============================================================================
