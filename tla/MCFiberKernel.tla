--------------------------- MODULE MCFiberKernel ---------------------------
(* Instances of FiberKernel for TLC.                                       *)
EXTENDS FiberKernel

CONSTANTS t1, t2

\* t1 may convert, switch away and switch back, t2 convert and switch once
Tries == [t \in Threads |-> IF t = t1 THEN 3 ELSE 2]
\* every node hashes to the same bucket
OneTBucket == [t \in Threads |-> 0]
OneFBucket == [f \in Fids |-> 0]
=============================================================================
