----------------------------- MODULE MCGsmCell -----------------------------
(* Instances of GsmCell for TLC.                                           *)
EXTENDS GsmCell
=============================================================================
