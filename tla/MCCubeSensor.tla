----------------------------- MODULE MCCubeSensor -----------------------------
(***************************************************************************)
(* TLC instance of CubeSensor: the bytes give every axis values on both    *)
(* sides of the threshold (3000 = 16#0BB8, read as 11 and 184), 1g (64 and *)
(* 0), and both ends of int16_t.                                           *)
(***************************************************************************)
EXTENDS CubeSensor

MCBytes == {0, 11, 64, 127, 128, 183, 184, 255}
=============================================================================
