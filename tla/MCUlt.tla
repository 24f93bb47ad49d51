------------------------------- MODULE MCUlt -------------------------------
(* Instances of Ult for TLC.                                               *)
EXTENDS Ult

CONSTANTS t1, t2
=============================================================================
