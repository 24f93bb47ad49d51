---------------------------- MODULE MCProcFibers ----------------------------
(* Instances of ProcFibers for TLC.                                        *)
EXTENDS ProcFibers

CONSTANTS c1, c2, r1

\* fibers are added to buckets before, at and after those of the first two
ThreeBuckets == [f \in Fids |-> IF f = 2 THEN 0 ELSE IF f \in {1, 3} THEN 1 ELSE 2]
=============================================================================
