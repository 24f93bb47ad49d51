---------------------------- MODULE MCFiberFls ----------------------------
(* Instances of FiberFls for TLC.                                          *)
EXTENDS FiberFls, TLC

CONSTANTS t1, t2

\* every node has a bucket of its own
OwnTBucket == [t \in Threads |-> t]
OwnFBucket == [f \in Fids |-> f]
Tries == [t \in Threads |-> 3]

\* the threads are interchangeable
ThreadSymmetry == Permutations(Threads)

\* what no guard and no property of these runs depends on is left out
Relevant ==
  <<group, thrTab, fidCount, fibTab, nrec, curFid, flock, state, ctx, pc, local_vars,
    regs, known, tries, fls_vars>>
=============================================================================
