------------------------------ MODULE MCUltFls ------------------------------
(* Instances of UltFls for TLC.                                            *)
EXTENDS UltFls

CONSTANTS f1, f2, f3
=============================================================================
