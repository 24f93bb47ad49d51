----------------------------- MODULE MCTestbed -----------------------------
(* Instances of Testbed for TLC.                                           *)
EXTENDS Testbed

CONSTANTS t1, t2
=============================================================================
