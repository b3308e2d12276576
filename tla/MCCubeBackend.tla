----------------------------- MODULE MCCubeBackend -----------------------------
(***************************************************************************)
(* TLC instance of CubeBackend: two registered cubes and one the database  *)
(* does not know; a work side, the sleep side and the sleep code 0.        *)
(***************************************************************************)
EXTENDS CubeBackend

CONSTANTS c1, c2, stranger

MCCubes      == {c1, c2, stranger}
MCRegistered == {c1, c2}
MCSides      == {0, 3, 6}
=============================================================================
