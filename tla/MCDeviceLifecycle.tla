------------------------- MODULE MCDeviceLifecycle -------------------------
(* Instances of DeviceLifecycle for TLC.                                   *)
EXTENDS DeviceLifecycle, TLC

CONSTANTS p1, p2, p3, t1, t2, f1, f2, f3

\* processes, threads and files are interchangeable
Symmetry == Permutations(Procs) \cup Permutations(Threads) \cup Permutations(Files)
=============================================================================
