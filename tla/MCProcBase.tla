----------------------------- MODULE MCProcBase -----------------------------
(* Instances of ProcBase for TLC.                                          *)
EXTENDS ProcBase, TLC

CONSTANTS r1, r2, r3

ReaderSymmetry == Permutations(Readers)
=============================================================================
