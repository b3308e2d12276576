---------------------------- MODULE MCCubeFirmware -----------------------------
(***************************************************************************)
(* TLC instance of CubeFirmware: a cube that can lie on a work side (Z+)   *)
(* and on the sleep side (Y-), and, with MCThreePoses, on a third one.     *)
(***************************************************************************)
EXTENDS CubeFirmware

MCTwoPoses   == {<<0, 0, 16384>>, <<0, -16384, 0>>}
MCThreePoses == MCTwoPoses \union {<<16000, 3500, 0>>}
=============================================================================
