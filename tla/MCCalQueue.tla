----------------------------- MODULE MCCalQueue -----------------------------
(* Instances of CalQueue for TLC: only the constants differ.               *)
EXTENDS CalQueue
=============================================================================
