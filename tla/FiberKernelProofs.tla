------------------------- MODULE FiberKernelProofs -------------------------
(***************************************************************************)
(* Proofs about FiberKernel and about FiberFls, which adds local storage   *)
(* to it, for every set of threads, every hash function, every number of   *)
(* slots and every value of the bounds.                                    *)
(***************************************************************************)
EXTENDS FiberFls, FiniteSetTheorems, WellFoundedInduction, TLAPS

-----------------------------------------------------------------------------
(* The inductive invariant                                                 *)

HasRec  == {"cv_addt", "cv_new", "cv_snapf", "cv_addf", "cv_lock", "cv_act",
            "cr_new", "cr_snapf", "cr_addf", "cr_ctx",
            "sw_lock", "sw_old", "sw_save", "sw_clear", "sw_unlock", "sw_load"}
HasNewf == {"cv_snapf", "cv_addf", "cv_lock", "cv_act",
            "cr_snapf", "cr_addf", "cr_ctx",
            "sw_lock", "sw_old", "sw_save", "sw_clear", "sw_unlock", "sw_load"}
HasOldf == {"sw_save", "sw_clear", "sw_unlock"}
Converting == {"cv_addt", "cv_new", "cv_snapf", "cv_addf", "cv_lock", "cv_act"}

(* A handler's locals point where the code that set them left them.        *)
LocalsOK ==
  \A t \in Threads :
    /\ pc[t] \in {"cv_find", "cv_snapt"} => nrec[t] < MaxConverts
    /\ pc[t] \in HasRec => rec[t] \in Recs /\ rec[t][1] = t /\ rec[t][2] <= nrec[t]
    /\ pc[t] \in HasNewf => newf[t] \in Fids /\ newf[t] <= fidCount
    /\ pc[t] \in HasOldf => oldf[t] \in Fids /\ oldf[t] <= fidCount
    /\ pc[t] \in Converting => curFid[rec[t]] = NO_FIBERS

(* Nothing refers to a fid that is not drawn or a record not generated.    *)
FreshOK ==
  /\ \A r \in Recs : curFid[r] <= fidCount
  /\ \A r \in Recs : r[2] > nrec[r[1]] => curFid[r] = NO_FIBERS
  /\ \A b \in TBuckets : \A r \in thrTab[b] : r[2] <= nrec[r[1]]
  /\ \A t \in Threads : \A r \in tsnap[t] : r[2] <= nrec[r[1]]
  /\ \A b \in FBuckets : \A f \in fibTab[b] : f <= fidCount
  /\ \A t \in Threads : \A f \in fsnap[t] : f <= fidCount

(* The state of a fiber is cleared before its lock is released.            *)
ClearedFirst ==
  \A t \in Threads : pc[t] = "sw_unlock" => state[oldf[t]] = NoThread

IInv ==
  /\ TypeOK /\ LocalsOK /\ FreshOK
  /\ MutualExclusion /\ StateNamesRunner /\ ClearedFirst

(* What a thread may do next, the unobserved steps of Idle left out.       *)
ThreadStep(t) ==
  \/ ConvertGroup(t) \/ CreateFind(t) \/ (\E f \in Fids : SwitchFind(t, f))
  \/ Kernel(t) \/ Run(t) \/ Exit(t) \/ KmallocFails(t)

-----------------------------------------------------------------------------
(* Type correctness                                                        *)

(* The state before the first ioctl satisfies the inductive invariant.     *)
LEMMA InitIInv == Init => IInv
  <1> SUFFICES ASSUME Init PROVE IInv
    OBVIOUS
  <1>1. TypeOK
    <2> USE ConstantsAssumption DEF Init
    <2>1. /\ fidCount \in -1 .. MaxFid
          /\ nrec \in [Threads -> 0 .. MaxConverts]
      BY DEF NO_FIBERS
    <2>2. regs \in [Threads -> Points] /\ ctx \in [Fids -> Points]
      BY DEF Points, Flows
    <2>3. /\ pc \in [Threads -> Labels] /\ ret \in [Threads -> Codes]
          /\ rec \in [Threads -> Recs \cup {NoRec}]
          /\ newf \in [Threads -> Fids \cup {NO_FIBERS}]
          /\ oldf \in [Threads -> Fids \cup {NO_FIBERS}]
          /\ tsnap \in [Threads -> SUBSET Recs]
          /\ fsnap \in [Threads -> SUBSET Fids]
          /\ curFid \in [Recs -> Fids \cup {NO_FIBERS}]
      BY DEF Labels, Codes
    <2>4. /\ thrTab \in [TBuckets -> SUBSET Recs]
          /\ fibTab \in [FBuckets -> SUBSET Fids]
          /\ flock \in [Fids -> BOOLEAN]
          /\ state \in [Fids -> Threads \cup {NoThread}]
      OBVIOUS
    <2>5. /\ succ \in [Fids -> Nat] /\ failed \in [Fids -> Nat]
          /\ lastAct \in [Fids -> Nat] /\ total \in [Fids -> Int]
          /\ utime \in [Threads -> Nat] /\ tries \in [Threads -> Nat]
          /\ pos \in [Flows -> Nat]
      OBVIOUS
    <2>6. known \subseteq Fids /\ born \subseteq Fids /\ group \in BOOLEAN
      OBVIOUS
    <2> QED
      BY <2>1, <2>2, <2>3, <2>4, <2>5, <2>6 DEF TypeOK
  <1>2. LocalsOK
    BY DEF Init, LocalsOK, HasRec, HasNewf, HasOldf, Converting
  <1>3. FreshOK
    BY DEF Init, FreshOK, NO_FIBERS, Recs
  <1>4. MutualExclusion
    BY DEF Init, MutualExclusion, Active, Pending, Leaving, NO_FIBERS, Fids
  <1>5. StateNamesRunner
    BY DEF Init, StateNamesRunner, Active, Leaving, NO_FIBERS, Fids
  <1>6. ClearedFirst
    BY DEF Init, ClearedFirst
  <1> QED
    BY <1>1, <1>2, <1>3, <1>4, <1>5, <1>6 DEF IInv

(* The return of an ioctl resets the handler's locals within their types.  *)
LEMMA ReturnTypes ==
  ASSUME TypeOK, NEW t \in Threads, NEW code \in Codes, Return(t, code)
  PROVE  /\ pc' \in [Threads -> Labels] /\ ret' \in [Threads -> Codes]
         /\ rec' \in [Threads -> Recs \cup {NoRec}]
         /\ newf' \in [Threads -> Fids \cup {NO_FIBERS}]
         /\ oldf' \in [Threads -> Fids \cup {NO_FIBERS}]
         /\ tsnap' \in [Threads -> SUBSET Recs]
         /\ fsnap' \in [Threads -> SUBSET Fids]
  BY DEF TypeOK, Return, Labels

(* The record get_thread finds is one of the caller's records.             *)
LEMMA GetThread ==
  ASSUME thrTab \in [TBuckets -> SUBSET Recs],
         NEW t \in Threads, NEW r \in get_thread(t)
  PROVE  r \in Recs /\ r[1] = t /\ r \in thrTab[TBucket[t]] /\ TBucket[t] \in TBuckets
  BY DEF get_thread, TBuckets

(* Every step of a thread preserves the types.                             *)
LEMMA TypeStep ==
  ASSUME TypeOK, LocalsOK, NEW t \in Threads, ThreadStep(t)
  PROVE  TypeOK'
  <1> USE DEF TypeOK, group_vars, fiber_vars, lock_vars, info_vars, local_vars,
              cpu_vars, Goto, Labels
  <1>1. CASE ConvertGroup(t)
    BY <1>1 DEF ConvertGroup
  <1>2. CASE ConvertFind(t)
    BY <1>2 DEF ConvertFind, Return, Codes, NO_FIBERS
  <1>3. CASE GenerateThread(t)
    <2>1. /\ nrec[t] + 1 \in 0 .. MaxConverts
          /\ <<t, nrec[t] + 1>> \in Recs
      BY <1>3, ConstantsAssumption DEF GenerateThread, LocalsOK, Recs
    <2>2. thrTab[TBucket[t]] \subseteq Recs
      BY DEF TBuckets
    <2> QED
      BY <1>3, <2>1, <2>2 DEF GenerateThread
  <1>4. CASE AddThread(t)
    BY <1>4 DEF AddThread, LocalsOK, HasRec, TBuckets
  <1>5. CASE ConvertLock(t)
    <2>1. newf[t] \in Fids
      BY <1>5 DEF ConvertLock, LocalsOK, HasNewf
    <2>2. /\ flock' \in [Fids -> BOOLEAN] /\ failed' \in [Fids -> Nat]
          /\ tries' \in [Threads -> Nat]
      BY <1>5, <2>1 DEF ConvertLock, TryActivate
    <2>3. CASE CanActivate(newf[t])
      BY <1>5, <2>2, <2>3 DEF ConvertLock
    <2>4. CASE ~CanActivate(newf[t])
      BY <1>5, <2>2, <2>4, ReturnTypes DEF ConvertLock, Codes
    <2> QED
      BY <2>3, <2>4
  <1>6. CASE ConvertActivate(t)
    BY <1>6 DEF ConvertActivate, Activate, LocalsOK, HasNewf, HasRec, Return, Codes, NO_FIBERS
  <1>7. CASE \E from, to \in Labels : GenerateFiber(t, from, to)
    <2>1. PICK from, to \in Labels : GenerateFiber(t, from, to)
      BY <1>7
    <2>2. fidCount + 1 \in Fids /\ fidCount' \in -1 .. MaxFid
      BY <2>1, ConstantsAssumption DEF GenerateFiber, Fids
    <2> QED
      BY <2>1, <2>2 DEF GenerateFiber
  <1>8. CASE \E from, to \in Labels : ReadFirst(t, from, to) /\ from \in HasNewf
    BY <1>8 DEF ReadFirst, LocalsOK, FBuckets
  <1>9. CASE \E from, to \in Labels : AddFiber(t, from, to) /\ from \in HasNewf
    BY <1>9 DEF AddFiber, LocalsOK, FBuckets
  <1>10. CASE CreateFind(t)
    <2>1. CASE group /\ get_thread(t) # {}
      <3>1. PICK r \in get_thread(t) : rec' = [rec EXCEPT ![t] = r]
        BY <1>10, <2>1 DEF CreateFind
      <3>2. r \in Recs
        BY GetThread
      <3> QED
        BY <1>10, <2>1, <3>1, <3>2 DEF CreateFind
    <2>2. CASE ~(group /\ get_thread(t) # {})
      BY <1>10, <2>2, ReturnTypes DEF CreateFind, Codes
    <2> QED
      BY <2>1, <2>2
  <1>11. CASE CreateContext(t)
    BY <1>11 DEF CreateContext, LocalsOK, HasNewf, Return, Codes, NO_FIBERS, Points, Flows
  <1>12. CASE \E f \in Fids : SwitchFind(t, f)
    <2>1. PICK f \in Fids : SwitchFind(t, f)
      BY <1>12
    <2>2. CASE group /\ get_thread(t) # {} /\ get_fiber(f)
      <3>1. PICK r \in get_thread(t) : rec' = [rec EXCEPT ![t] = r]
        BY <2>1, <2>2 DEF SwitchFind
      <3>2. r \in Recs
        BY GetThread
      <3> QED
        BY <2>1, <2>2, <3>1, <3>2 DEF SwitchFind
    <2>3. CASE ~(group /\ get_thread(t) # {} /\ get_fiber(f))
      BY <2>1, <2>3, ReturnTypes DEF SwitchFind, Codes
    <2> QED
      BY <2>2, <2>3
  <1>13. CASE SwitchLock(t)
    <2>1. newf[t] \in Fids
      BY <1>13 DEF SwitchLock, LocalsOK, HasNewf
    <2>2. /\ flock' \in [Fids -> BOOLEAN] /\ failed' \in [Fids -> Nat]
          /\ tries' \in [Threads -> Nat]
      BY <1>13, <2>1 DEF SwitchLock, TryActivate
    <2>3. CASE CanActivate(newf[t])
      BY <1>13, <2>2, <2>3 DEF SwitchLock
    <2>4. CASE ~CanActivate(newf[t])
      BY <1>13, <2>2, <2>4, ReturnTypes DEF SwitchLock, Codes
    <2> QED
      BY <2>3, <2>4
  <1>14. CASE SwitchActivate(t)
    <2>1. newf[t] \in Fids /\ rec[t] \in Recs
      BY <1>14 DEF SwitchActivate, LocalsOK, HasNewf, HasRec
    <2>2. CASE get_fiber(curFid[rec[t]])
      <3>1. curFid[rec[t]] \in Fids
        BY <2>2 DEF get_fiber
      <3>2. Activate(t, newf[t])
        BY <1>14, <2>2 DEF SwitchActivate
      <3>3. /\ state' \in [Fids -> Threads \cup {NoThread}]
            /\ curFid' \in [Recs -> Fids \cup {NO_FIBERS}]
            /\ succ' \in [Fids -> Nat] /\ lastAct' \in [Fids -> Nat]
        BY <2>1, <3>2 DEF Activate
      <3> QED
        BY <1>14, <2>1, <2>2, <3>1, <3>3 DEF SwitchActivate
    <2>3. CASE ~get_fiber(curFid[rec[t]])
      BY <1>14, <2>3, ReturnTypes DEF SwitchActivate, Codes
    <2> QED
      BY <2>2, <2>3
  <1>15. CASE SwitchSave(t)
    BY <1>15 DEF SwitchSave, LocalsOK, HasOldf
  <1>16. CASE SwitchClear(t)
    BY <1>16 DEF SwitchClear
  <1>17. CASE SwitchUnlock(t)
    BY <1>17 DEF SwitchUnlock
  <1>18. CASE SwitchLoad(t)
    BY <1>18 DEF SwitchLoad, LocalsOK, HasNewf, Return, Codes, NO_FIBERS
  <1>19. CASE Run(t)
    BY <1>19 DEF Run, Points
  <1>20. CASE Exit(t)
    BY <1>20 DEF Exit
  <1>21. CASE KmallocFails(t)
    BY <1>21 DEF KmallocFails
  <1> QED
    BY <1>1, <1>2, <1>3, <1>4, <1>5, <1>6, <1>7, <1>8, <1>9, <1>10, <1>11, <1>12, <1>13,
       <1>14, <1>15, <1>16, <1>17, <1>18, <1>19, <1>20, <1>21
    DEF ThreadStep, Kernel, Convert, Create, Switch, HasNewf

-----------------------------------------------------------------------------
(* The handlers' locals                                                    *)

(* Every step of a thread leaves the locals of every thread consistent.    *)
LEMMA LocalsStep ==
  ASSUME TypeOK, TypeOK', LocalsOK, FreshOK, NEW t \in Threads, ThreadStep(t)
  PROVE  LocalsOK'
  <1> SUFFICES ASSUME NEW u \in Threads
               PROVE  /\ (pc[u] \in {"cv_find", "cv_snapt"} => nrec[u] < MaxConverts)'
                      /\ (pc[u] \in HasRec => /\ rec[u] \in Recs /\ rec[u][1] = u
                                              /\ rec[u][2] <= nrec[u])'
                      /\ (pc[u] \in HasNewf => newf[u] \in Fids /\ newf[u] <= fidCount)'
                      /\ (pc[u] \in HasOldf => oldf[u] \in Fids /\ oldf[u] <= fidCount)'
                      /\ (pc[u] \in Converting => curFid[rec[u]] = NO_FIBERS)'
    BY DEF LocalsOK
  <1> USE DEF TypeOK, LocalsOK, HasRec, HasNewf, HasOldf, Converting, group_vars,
              fiber_vars, lock_vars, info_vars, local_vars, cpu_vars, Goto
  <1>1. CASE ConvertGroup(t)
    BY <1>1 DEF ConvertGroup
  <1>2. CASE ConvertFind(t)
    <2>1. CASE get_thread(t) # {}
      BY <1>2, <2>1 DEF ConvertFind, Return
    <2>2. CASE get_thread(t) = {}
      BY <1>2, <2>2 DEF ConvertFind
    <2> QED
      BY <2>1, <2>2
  <1>3. CASE GenerateThread(t)
    BY <1>3 DEF GenerateThread
  <1>4. CASE AddThread(t)
    BY <1>4 DEF AddThread
  <1>5. CASE ConvertLock(t)
    BY <1>5 DEF ConvertLock, Return
  <1>6. CASE ConvertActivate(t)
    BY <1>6 DEF ConvertActivate, Activate, Return
  <1>7. CASE GenerateFiber(t, "cv_new", "cv_snapf") \/ GenerateFiber(t, "cr_new", "cr_snapf")
    <2>1. fidCount + 1 \in Fids /\ fidCount' = fidCount + 1
      BY <1>7, ConstantsAssumption DEF GenerateFiber, Fids
    <2>2. \A f \in Fids : f <= fidCount => f <= fidCount'
      BY <2>1 DEF Fids
    <2>3. fidCount + 1 <= fidCount'
      BY <2>1 DEF Fids
    <2> QED
      BY <1>7, <2>1, <2>2, <2>3 DEF GenerateFiber
  <1>8. CASE ReadFirst(t, "cv_snapf", "cv_addf") \/ ReadFirst(t, "cr_snapf", "cr_addf")
    BY <1>8 DEF ReadFirst
  <1>9. CASE AddFiber(t, "cv_addf", "cv_lock") \/ AddFiber(t, "cr_addf", "cr_ctx")
    BY <1>9 DEF AddFiber
  <1>10. CASE CreateFind(t)
    <2>1. CASE group /\ get_thread(t) # {}
      <3>1. PICK r \in get_thread(t) : rec' = [rec EXCEPT ![t] = r]
        BY <1>10, <2>1 DEF CreateFind
      <3>2. /\ r \in Recs /\ r[1] = t
            /\ r \in thrTab[TBucket[t]] /\ TBucket[t] \in TBuckets
        BY GetThread
      <3>3. r[2] <= nrec[t]
        BY <3>2 DEF FreshOK
      <3> QED
        BY <1>10, <2>1, <3>1, <3>2, <3>3 DEF CreateFind
    <2>2. CASE ~(group /\ get_thread(t) # {})
      BY <1>10, <2>2 DEF CreateFind, Return
    <2> QED
      BY <2>1, <2>2
  <1>11. CASE CreateContext(t)
    BY <1>11 DEF CreateContext, Return
  <1>12. CASE \E f \in Fids : SwitchFind(t, f)
    <2>1. PICK f \in Fids : SwitchFind(t, f)
      BY <1>12
    <2>2. CASE group /\ get_thread(t) # {} /\ get_fiber(f)
      <3>1. PICK r \in get_thread(t) : rec' = [rec EXCEPT ![t] = r]
        BY <2>1, <2>2 DEF SwitchFind
      <3>2. /\ r \in Recs /\ r[1] = t
            /\ r \in thrTab[TBucket[t]] /\ TBucket[t] \in TBuckets
        BY GetThread
      <3>3. r[2] <= nrec[t]
        BY <3>2 DEF FreshOK
      <3>4. f <= fidCount
        BY <2>2 DEF FreshOK, get_fiber, FBuckets
      <3> QED
        BY <2>1, <2>2, <3>1, <3>2, <3>3, <3>4 DEF SwitchFind
    <2>3. CASE ~(group /\ get_thread(t) # {} /\ get_fiber(f))
      BY <2>1, <2>3 DEF SwitchFind, Return
    <2> QED
      BY <2>2, <2>3
  <1>13. CASE SwitchLock(t)
    BY <1>13 DEF SwitchLock, Return
  <1>14. CASE SwitchActivate(t)
    <2>1. CASE get_fiber(curFid[rec[t]])
      <3>1. /\ curFid[rec[t]] \in Fids /\ curFid[rec[t]] <= fidCount
            /\ rec[t] \in Recs /\ rec[t][1] = t
        BY <1>14, <2>1 DEF SwitchActivate, get_fiber, FreshOK
      <3>2. \A q \in Recs : q[1] # t => curFid'[q] = curFid[q]
        BY <1>14, <2>1, <3>1 DEF SwitchActivate, Activate
      <3> QED
        BY <1>14, <2>1, <3>1, <3>2 DEF SwitchActivate
    <2>2. CASE ~get_fiber(curFid[rec[t]])
      BY <1>14, <2>2 DEF SwitchActivate, Return
    <2> QED
      BY <2>1, <2>2
  <1>15. CASE SwitchSave(t)
    BY <1>15 DEF SwitchSave
  <1>16. CASE SwitchClear(t)
    BY <1>16 DEF SwitchClear
  <1>17. CASE SwitchUnlock(t)
    BY <1>17 DEF SwitchUnlock
  <1>18. CASE SwitchLoad(t)
    BY <1>18 DEF SwitchLoad, Return
  <1>19. CASE Run(t)
    BY <1>19 DEF Run
  <1>20. CASE Exit(t)
    BY <1>20 DEF Exit
  <1>21. CASE KmallocFails(t)
    <2>1. fidCount' \in Int /\ fidCount <= fidCount'
      BY <1>21, ConstantsAssumption DEF KmallocFails
    <2> QED
      BY <1>21, <2>1 DEF KmallocFails, Fids
  <1> QED
    BY <1>1, <1>2, <1>3, <1>4, <1>5, <1>6, <1>7, <1>8, <1>9, <1>10, <1>11, <1>12, <1>13,
       <1>14, <1>15, <1>16, <1>17, <1>18, <1>19, <1>20, <1>21
    DEF ThreadStep, Kernel, Convert, Create, Switch

(* No step of a thread refers to a fid or a record that is still to come.  *)
LEMMA FreshStep ==
  ASSUME TypeOK, LocalsOK, FreshOK, NEW t \in Threads, ThreadStep(t)
  PROVE  FreshOK'
  <1> USE DEF group_vars, fiber_vars, lock_vars, info_vars, local_vars, cpu_vars, Goto
  <1>0. /\ \A r \in Recs : r[2] \in Int /\ r[1] \in Threads
        /\ \A u \in Threads : nrec[u] \in Int
    BY ConstantsAssumption DEF Recs, TypeOK
  <1>1. CASE UNCHANGED <<curFid, nrec, thrTab, tsnap, fibTab, fsnap, fidCount>>
    BY <1>1 DEF FreshOK
  <1>2. CASE GenerateThread(t)
    <2>1. /\ <<t, nrec[t] + 1>> \in Recs
          /\ \A u \in Threads : nrec'[u] \in Int /\ nrec[u] <= nrec'[u]
          /\ nrec'[t] = nrec[t] + 1
      BY <1>2, ConstantsAssumption DEF GenerateThread, LocalsOK, TypeOK, Recs
    <2>2. (\A r \in Recs : curFid[r] <= fidCount)'
      BY <1>0, <1>2, <2>1 DEF GenerateThread, TypeOK, FreshOK, NO_FIBERS
    <2>3. (\A r \in Recs : r[2] > nrec[r[1]] => curFid[r] = NO_FIBERS)'
      BY <1>0, <1>2, <2>1 DEF GenerateThread, TypeOK, FreshOK
    <2>4. (\A b \in TBuckets : \A r \in thrTab[b] : r[2] <= nrec[r[1]])'
      BY <1>0, <1>2, <2>1 DEF GenerateThread, TypeOK, FreshOK
    <2>5. (\A u \in Threads : \A r \in tsnap[u] : r[2] <= nrec[r[1]])'
      <3>1. \A r \in thrTab[TBucket[t]] : r \in Recs /\ r[2] <= nrec[r[1]]
        BY DEF TypeOK, FreshOK, TBuckets
      <3>2. \A u \in Threads : \A r \in tsnap[u] : r \in Recs /\ r[2] <= nrec[r[1]]
        BY DEF TypeOK, FreshOK
      <3>3. \A u \in Threads : tsnap'[u] = IF u = t THEN thrTab[TBucket[t]] ELSE tsnap[u]
        BY <1>2 DEF GenerateThread, TypeOK
      <3>4. \A u \in Threads : \A r \in tsnap'[u] : r \in Recs /\ r[2] <= nrec[r[1]]
        BY <3>1, <3>2, <3>3
      <3> QED
        BY <1>0, <2>1, <3>4
    <2> QED
      BY <1>2, <2>2, <2>3, <2>4, <2>5 DEF GenerateThread, FreshOK
  <1>3. CASE AddThread(t)
    BY <1>3 DEF AddThread, TypeOK, LocalsOK, FreshOK, HasRec
  <1>4. CASE Activate(t, newf[t]) /\ pc[t] \in HasRec /\ pc[t] \in HasNewf
             /\ UNCHANGED <<nrec, thrTab, tsnap, fibTab, fsnap, fidCount>>
    <2>1. /\ rec[t] \in Recs /\ rec[t][1] = t /\ rec[t][2] <= nrec[t]
          /\ newf[t] \in Fids /\ newf[t] <= fidCount
      BY <1>4 DEF LocalsOK
    <2>2. (\A r \in Recs : curFid[r] <= fidCount)'
      BY <1>4, <2>1 DEF Activate, TypeOK, FreshOK
    <2>3. (\A r \in Recs : r[2] > nrec[r[1]] => curFid[r] = NO_FIBERS)'
      <3> SUFFICES ASSUME NEW r \in Recs, r[2] > nrec[r[1]]
                   PROVE  curFid'[r] = NO_FIBERS
        BY <1>4
      <3>1. r # rec[t]
        BY <1>0, <2>1
      <3> QED
        BY <1>4, <3>1 DEF Activate, TypeOK, FreshOK
    <2> QED
      BY <1>4, <2>2, <2>3 DEF FreshOK
  <1>5. CASE /\ fidCount' \in Int /\ fidCount <= fidCount'
             /\ UNCHANGED <<curFid, nrec, thrTab, tsnap, fibTab, fsnap>>
    <2>1. \A f \in Fids \cup {NO_FIBERS} : f <= fidCount => f <= fidCount'
      BY <1>5 DEF TypeOK, Fids, NO_FIBERS
    <2> QED
      BY <1>5, <2>1 DEF TypeOK, FreshOK
  <1>6. CASE \E from, to \in Labels : ReadFirst(t, from, to) /\ from \in HasNewf
    <2>1. /\ newf[t] \in Fids
          /\ fsnap' = [fsnap EXCEPT ![t] = fibTab[FBucket[newf[t]]]]
          /\ UNCHANGED <<curFid, nrec, thrTab, tsnap, fibTab, fidCount>>
      BY <1>6 DEF ReadFirst, LocalsOK
    <2>2. \A f \in fibTab[FBucket[newf[t]]] : f <= fidCount
      BY <2>1 DEF FreshOK, FBuckets
    <2>3. \A u \in Threads : fsnap'[u] = IF u = t THEN fibTab[FBucket[newf[t]]] ELSE fsnap[u]
      BY <2>1 DEF TypeOK
    <2>4. (\A u \in Threads : \A f \in fsnap[u] : f <= fidCount)'
      BY <2>1, <2>2, <2>3 DEF FreshOK
    <2> QED
      BY <2>1, <2>4 DEF FreshOK
  <1>7. CASE \E from, to \in Labels : AddFiber(t, from, to) /\ from \in HasNewf
    BY <1>7 DEF AddFiber, TypeOK, LocalsOK, FreshOK
  <1>8. CASE ConvertFind(t) \/ ConvertGroup(t) \/ ConvertLock(t)
    BY <1>1, <1>8 DEF ConvertFind, ConvertGroup, ConvertLock, Return
  <1>9. CASE CreateFind(t) \/ CreateContext(t) \/ (\E f \in Fids : SwitchFind(t, f))
    BY <1>1, <1>9 DEF CreateFind, CreateContext, SwitchFind, Return
  <1>10. CASE SwitchLock(t) \/ SwitchSave(t) \/ SwitchClear(t) \/ SwitchUnlock(t) \/ SwitchLoad(t)
    BY <1>1, <1>10 DEF SwitchLock, SwitchSave, SwitchClear, SwitchUnlock, SwitchLoad, Return
  <1>11. CASE Run(t) \/ Exit(t)
    BY <1>1, <1>11 DEF Run, Exit
  <1>12. CASE KmallocFails(t)
    BY <1>5, <1>12, ConstantsAssumption DEF KmallocFails, TypeOK
  <1>13. CASE \E from, to \in Labels : GenerateFiber(t, from, to)
    BY <1>5, <1>13, ConstantsAssumption DEF GenerateFiber, TypeOK
  <1>14. CASE ConvertActivate(t)
    BY <1>4, <1>14 DEF ConvertActivate, Return, HasRec, HasNewf
  <1>15. CASE SwitchActivate(t)
    BY <1>1, <1>4, <1>15 DEF SwitchActivate, Return, HasRec, HasNewf
  <1> QED
    BY <1>2, <1>3, <1>6, <1>7, <1>8, <1>9, <1>10, <1>11, <1>12, <1>13, <1>14, <1>15
    DEF ThreadStep, Kernel, Convert, Create, Switch, Labels, HasNewf

-----------------------------------------------------------------------------
(* Mutual exclusion                                                        *)

(* The part of the invariant that is about claims, locks and states.       *)
Exclusion == MutualExclusion /\ StateNamesRunner /\ ClearedFirst

(* A step of t that activates nothing and releases nothing: claims do not  *)
(* change, except that t may give up a claim it has not turned into an     *)
(* activation, and locks are at most taken.                                *)
Quiet(t) ==
  /\ UNCHANGED <<curFid, state>>
  /\ \A f \in Fids : flock[f] => flock'[f]
  /\ \A u \in Threads \ {t} : UNCHANGED <<pc[u], newf[u], oldf[u]>>
  /\ pc'[t] \notin {"cv_act", "sw_old"}
  /\ \/ pc[t] \notin HasOldf /\ pc'[t] \notin HasOldf
     \/ /\ pc[t] \in HasOldf /\ pc'[t] \in HasOldf \ {"sw_unlock"}
        /\ oldf'[t] = oldf[t]

(* A quiet step keeps the claims on fibers exclusive.                      *)
LEMMA QuietStep ==
  ASSUME TypeOK, TypeOK', Exclusion, NEW t \in Threads, Quiet(t)
  PROVE  Exclusion'
  <1> USE DEF Quiet
  <1>1. \A u \in Threads, f \in Fids : Pending(u, f)' => Pending(u, f)
    BY DEF Pending
  <1>2. \A u \in Threads, f \in Fids : Leaving(u, f)' <=> Leaving(u, f)
    BY DEF Leaving, HasOldf
  <1>3. \A r \in Recs, f \in Fids : Active(r, f)' <=> Active(r, f)
    BY DEF Active
  <1>4. MutualExclusion'
    BY <1>1, <1>2, <1>3 DEF Exclusion, MutualExclusion
  <1>5. StateNamesRunner'
    BY <1>2, <1>3 DEF Exclusion, StateNamesRunner
  <1>6. ClearedFirst'
    BY DEF Exclusion, ClearedFirst, HasOldf
  <1> QED
    BY <1>4, <1>5, <1>6 DEF Exclusion

(* A successful try-lock: the thread gets a pending claim on a fiber that  *)
(* nobody had a claim on.                                                  *)
LEMMA LockStep ==
  ASSUME TypeOK, TypeOK', Exclusion, NEW t \in Threads, newf[t] \in Fids,
         ~flock[newf[t]],
         UNCHANGED <<curFid, state, newf, oldf>>,
         flock' = [flock EXCEPT ![newf[t]] = TRUE],
         pc[t] \in {"cv_lock", "sw_lock"},
         pc' = [pc EXCEPT ![t] = "cv_act"] \/ pc' = [pc EXCEPT ![t] = "sw_old"]
  PROVE  Exclusion'
  <1>1. \A u \in Threads, f \in Fids :
          Pending(u, f)' <=> Pending(u, f) \/ (u = t /\ f = newf[t])
    BY DEF Pending, TypeOK
  <1>2. \A u \in Threads, f \in Fids : Leaving(u, f)' <=> Leaving(u, f)
    BY DEF Leaving, TypeOK
  <1>3. \A r \in Recs, f \in Fids : Active(r, f)' <=> Active(r, f)
    BY DEF Active
  <1>4. \A f \in Fids : flock'[f] <=> flock[f] \/ f = newf[t]
    BY DEF TypeOK
  <1>5. \A f \in Fids : ~(Pending(t, f) \/ Leaving(t, f))
    BY DEF Pending, Leaving
  <1>6. MutualExclusion'
    BY <1>1, <1>2, <1>3, <1>4, <1>5 DEF Exclusion, MutualExclusion
  <1>7. StateNamesRunner'
    BY <1>2, <1>3, <1>4 DEF Exclusion, StateNamesRunner
  <1>8. ClearedFirst'
    BY DEF Exclusion, ClearedFirst, TypeOK
  <1> QED
    BY <1>6, <1>7, <1>8 DEF Exclusion

(* An activation: the pending claim of t becomes that of its record, and   *)
(* the fiber the record ran before, if any, is one t is leaving.           *)
LEMMA ActivateStep ==
  ASSUME TypeOK, TypeOK', LocalsOK, Exclusion, NEW t \in Threads,
         pc[t] \in {"cv_act", "sw_old"},
         Activate(t, newf[t]), UNCHANGED flock,
         \A u \in Threads \ {t} : UNCHANGED <<pc[u], newf[u], oldf[u]>>,
         \/ pc'[t] = "user" /\ curFid[rec[t]] = NO_FIBERS
         \/ pc'[t] = "sw_save" /\ oldf'[t] = curFid[rec[t]]
  PROVE  Exclusion'
  <1>0. rec[t] \in Recs /\ rec[t][1] = t /\ newf[t] \in Fids
    BY DEF LocalsOK, HasRec, HasNewf
  <1>1. \A r \in Recs, f \in Fids :
          Active(r, f)' <=> IF r = rec[t] THEN f = newf[t] ELSE Active(r, f)
    BY <1>0 DEF Active, Activate, TypeOK
  <1>2. \A u \in Threads, f \in Fids : Pending(u, f)' <=> Pending(u, f) /\ u # t
    BY DEF Pending
  <1>3. \A u \in Threads, f \in Fids :
          Leaving(u, f)' => IF u = t THEN Active(rec[t], f) ELSE Leaving(u, f)
    BY DEF Leaving, Active
  <1>4. \A u \in Threads, f \in Fids :
          Leaving(u, f) \/ (u = t /\ Active(rec[t], f)) => Leaving(u, f)'
    BY DEF Leaving, Active, NO_FIBERS, Fids
  <1>5. Pending(t, newf[t])
    BY DEF Pending
  <1>6. \A f \in Fids : state'[f] = IF f = newf[t] THEN t ELSE state[f]
    BY <1>0 DEF Activate, TypeOK
  <1>7. MutualExclusion'
    <2>1. \A f \in Fids : \A r \in Recs : Active(r, f)' => flock'[f]
      BY <1>0, <1>1, <1>5 DEF Exclusion, MutualExclusion
    <2>2. \A f \in Fids : \A u \in Threads : Pending(u, f)' \/ Leaving(u, f)' => flock'[f]
      BY <1>0, <1>2, <1>3 DEF Exclusion, MutualExclusion
    <2>3. \A f \in Fids : \A r, q \in Recs : Active(r, f)' /\ Active(q, f)' => r = q
      BY <1>0, <1>1, <1>5 DEF Exclusion, MutualExclusion
    <2>4. \A f \in Fids : \A u, v \in Threads :
            (Pending(u, f)' \/ Leaving(u, f)') /\ (Pending(v, f)' \/ Leaving(v, f)') => u = v
      BY <1>0, <1>2, <1>3 DEF Exclusion, MutualExclusion
    <2>5. \A f \in Fids : \A r \in Recs, u \in Threads :
            Active(r, f)' => ~Pending(u, f)' /\ ~Leaving(u, f)'
      BY <1>0, <1>1, <1>2, <1>3, <1>5 DEF Exclusion, MutualExclusion
    <2> QED
      BY <2>1, <2>2, <2>3, <2>4, <2>5 DEF MutualExclusion
  <1>8. StateNamesRunner'
    <2>1. \A f \in Fids : ~flock'[f] => state'[f] = NoThread
      BY <1>0, <1>5, <1>6 DEF Exclusion, MutualExclusion, StateNamesRunner
    <2>2. \A f \in Fids : \A r \in Recs : Active(r, f)' => state'[f] = r[1]
      BY <1>0, <1>1, <1>5, <1>6 DEF Exclusion, MutualExclusion, StateNamesRunner
    <2>3. \A f \in Fids : state'[f] # NoThread =>
            \/ \E r \in Recs : Active(r, f)' /\ r[1] = state'[f]
            \/ \E u \in Threads : Leaving(u, f)' /\ u = state'[f]
      BY <1>0, <1>1, <1>4, <1>6 DEF Exclusion, StateNamesRunner
    <2> QED
      BY <2>1, <2>2, <2>3 DEF StateNamesRunner
  <1>9. ClearedFirst'
    <2> SUFFICES ASSUME NEW u \in Threads, pc'[u] = "sw_unlock"
                 PROVE  state'[oldf'[u]] = NoThread
      BY DEF ClearedFirst
    <2>1. u # t /\ pc[u] = "sw_unlock" /\ oldf'[u] = oldf[u] /\ oldf[u] \in Fids
      BY DEF LocalsOK, HasOldf
    <2>2. oldf[u] # newf[t]
      BY <1>0, <1>5, <2>1 DEF Exclusion, MutualExclusion, Leaving
    <2> QED
      BY <1>6, <2>1, <2>2 DEF Exclusion, ClearedFirst
  <1> QED
    BY <1>7, <1>8, <1>9 DEF Exclusion

(* The state of the fiber that is left is cleared under its lock.          *)
LEMMA ClearStep ==
  ASSUME TypeOK, TypeOK', LocalsOK, Exclusion, NEW t \in Threads, SwitchClear(t)
  PROVE  Exclusion'
  <1> USE DEF SwitchClear, Goto, local_vars
  <1>0. oldf[t] \in Fids /\ Leaving(t, oldf[t]) /\ UNCHANGED <<curFid, flock, newf, oldf>>
    BY DEF LocalsOK, HasOldf, Leaving
  <1>1. \A u \in Threads, f \in Fids : Pending(u, f)' <=> Pending(u, f)
    BY DEF Pending, TypeOK
  <1>2. \A u \in Threads, f \in Fids : Leaving(u, f)' <=> Leaving(u, f)
    BY DEF Leaving, TypeOK
  <1>3. \A r \in Recs, f \in Fids : Active(r, f)' <=> Active(r, f)
    BY <1>0 DEF Active
  <1>4. \A f \in Fids : state'[f] = IF f = oldf[t] THEN NoThread ELSE state[f]
    BY <1>0 DEF TypeOK
  <1>5. MutualExclusion'
    BY <1>0, <1>1, <1>2, <1>3 DEF Exclusion, MutualExclusion
  <1>6. StateNamesRunner'
    BY <1>0, <1>2, <1>3, <1>4 DEF Exclusion, MutualExclusion, StateNamesRunner
  <1>7. ClearedFirst'
    BY <1>0, <1>4 DEF Exclusion, ClearedFirst, TypeOK, LocalsOK, HasOldf
  <1> QED
    BY <1>5, <1>6, <1>7 DEF Exclusion

(* The lock of the fiber that is left is released by its only claimant.    *)
LEMMA UnlockStep ==
  ASSUME TypeOK, TypeOK', LocalsOK, Exclusion, NEW t \in Threads, SwitchUnlock(t)
  PROVE  Exclusion'
  <1> USE DEF SwitchUnlock, Goto, local_vars
  <1>0. oldf[t] \in Fids /\ Leaving(t, oldf[t]) /\ UNCHANGED <<curFid, state, newf, oldf>>
    BY DEF LocalsOK, HasOldf, Leaving
  <1>1. \A u \in Threads, f \in Fids : Pending(u, f)' <=> Pending(u, f) /\ u # t
    BY DEF Pending, TypeOK
  <1>2. \A u \in Threads, f \in Fids : Leaving(u, f)' <=> Leaving(u, f) /\ u # t
    BY DEF Leaving, TypeOK
  <1>3. \A r \in Recs, f \in Fids : Active(r, f)' <=> Active(r, f)
    BY <1>0 DEF Active
  <1>4. \A f \in Fids : flock'[f] <=> flock[f] /\ f # oldf[t]
    BY <1>0 DEF TypeOK
  <1>5. state[oldf[t]] = NoThread /\ \A f \in Fids : Leaving(t, f) => f = oldf[t]
    BY DEF Exclusion, ClearedFirst, Leaving
  <1>6. MutualExclusion'
    BY <1>0, <1>1, <1>2, <1>3, <1>4 DEF Exclusion, MutualExclusion
  <1>7. StateNamesRunner'
    BY <1>0, <1>2, <1>3, <1>4, <1>5 DEF Exclusion, StateNamesRunner
  <1>8. ClearedFirst'
    BY <1>0 DEF Exclusion, ClearedFirst, TypeOK
  <1> QED
    BY <1>6, <1>7, <1>8 DEF Exclusion

(* A fid that is just drawn has no claim on it, so that initialising its   *)
(* lock and its state takes nothing from anybody.                          *)
LEMMA GenerateStep ==
  ASSUME TypeOK, TypeOK', LocalsOK, FreshOK, Exclusion, NEW t \in Threads,
         GenerateFiber(t, "cv_new", "cv_snapf") \/ GenerateFiber(t, "cr_new", "cr_snapf")
  PROVE  Exclusion'
  <1> DEFINE g == fidCount + 1
  <1>0. /\ g \in Fids /\ UNCHANGED <<curFid, oldf>>
        /\ \A f \in Fids : f <= fidCount => f # g
    BY ConstantsAssumption DEF GenerateFiber, Fids, TypeOK
  <1>1. \A r \in Recs : ~Active(r, g)
    BY <1>0 DEF Active, FreshOK, TypeOK, NO_FIBERS
  <1>2. \A u \in Threads : ~Pending(u, g) /\ ~Leaving(u, g)
    BY <1>0 DEF Pending, Leaving, LocalsOK, HasNewf, HasOldf
  <1>3. \A u \in Threads, f \in Fids : Pending(u, f)' <=> Pending(u, f)
    BY DEF Pending, TypeOK, GenerateFiber, Goto
  <1>4. \A u \in Threads, f \in Fids : Leaving(u, f)' <=> Leaving(u, f)
    BY DEF Leaving, TypeOK, GenerateFiber, Goto
  <1>5. \A r \in Recs, f \in Fids : Active(r, f)' <=> Active(r, f)
    BY <1>0 DEF Active
  <1>6. \A f \in Fids : /\ flock'[f] <=> flock[f] /\ f # g
                        /\ state'[f] = IF f = g THEN NoThread ELSE state[f]
    BY <1>0 DEF TypeOK, GenerateFiber
  <1> HIDE DEF g
  <1>7. MutualExclusion'
    BY <1>0, <1>1, <1>2, <1>3, <1>4, <1>5, <1>6 DEF Exclusion, MutualExclusion
  <1>8. StateNamesRunner'
    BY <1>0, <1>1, <1>2, <1>4, <1>5, <1>6 DEF Exclusion, StateNamesRunner
  <1>9. ClearedFirst'
    BY <1>0, <1>6 DEF Exclusion, ClearedFirst, TypeOK, LocalsOK, HasOldf, GenerateFiber, Goto
  <1> QED
    BY <1>7, <1>8, <1>9 DEF Exclusion

(* Every step of a thread keeps the claims on fibers exclusive.            *)
LEMMA ExclusionStep ==
  ASSUME IInv, TypeOK', NEW t \in Threads, ThreadStep(t)
  PROVE  Exclusion'
  <1>0. TypeOK /\ LocalsOK /\ FreshOK /\ Exclusion
    BY DEF IInv, Exclusion
  <1>Q. Quiet(t) => Exclusion'
    BY <1>0, QuietStep
  <1> USE DEF group_vars, fiber_vars, lock_vars, local_vars, Goto, HasOldf
  <1>1. CASE ConvertGroup(t) \/ AddThread(t)
    BY <1>0, <1>1, <1>Q DEF Quiet, TypeOK, ConvertGroup, AddThread
  <1>2. CASE ConvertFind(t) \/ CreateFind(t) \/ CreateContext(t) \/ SwitchLoad(t)
    BY <1>0, <1>2, <1>Q DEF Quiet, TypeOK, ConvertFind, CreateFind, CreateContext, SwitchLoad, Return
  <1>3. CASE \E f \in Fids : SwitchFind(t, f)
    BY <1>0, <1>3, <1>Q DEF Quiet, TypeOK, SwitchFind, Return
  <1>4. CASE SwitchSave(t) \/ Run(t) \/ Exit(t) \/ KmallocFails(t)
    BY <1>0, <1>4, <1>Q DEF Quiet, TypeOK, SwitchSave, Run, Exit, KmallocFails
  <1>5. CASE ReadFirst(t, "cv_snapf", "cv_addf") \/ ReadFirst(t, "cr_snapf", "cr_addf")
    BY <1>0, <1>5, <1>Q DEF Quiet, TypeOK, ReadFirst
  <1>6. CASE AddFiber(t, "cv_addf", "cv_lock") \/ AddFiber(t, "cr_addf", "cr_ctx")
    BY <1>0, <1>6, <1>Q DEF Quiet, TypeOK, AddFiber
  <1>7. CASE ConvertLock(t) \/ SwitchLock(t)
    <2>1. newf[t] \in Fids /\ flock' = [flock EXCEPT ![newf[t]] = TRUE]
      BY <1>0, <1>7 DEF LocalsOK, HasNewf, ConvertLock, SwitchLock, TryActivate
    <2>2. CASE CanActivate(newf[t])
      BY <1>0, <1>7, <2>1, <2>2, LockStep DEF ConvertLock, SwitchLock, CanActivate
    <2>3. CASE ~CanActivate(newf[t])
      BY <1>0, <1>7, <2>1, <2>3, <1>Q DEF Quiet, TypeOK, ConvertLock, SwitchLock, Return
    <2> QED
      BY <2>2, <2>3
  <1>8. CASE ConvertActivate(t)
    <2>1. curFid[rec[t]] = NO_FIBERS
      BY <1>0, <1>8 DEF ConvertActivate, LocalsOK, Converting
    <2> QED
      BY <1>0, <1>8, <2>1, ActivateStep DEF TypeOK, ConvertActivate, Return
  <1>9. CASE SwitchActivate(t)
    <2>1. CASE get_fiber(curFid[rec[t]])
      BY <1>0, <1>9, <2>1, ActivateStep DEF TypeOK, SwitchActivate
    <2>2. CASE ~get_fiber(curFid[rec[t]])
      BY <1>0, <1>9, <2>2, <1>Q DEF Quiet, TypeOK, SwitchActivate, Return
    <2> QED
      BY <2>1, <2>2
  <1>10. CASE SwitchClear(t)
    BY <1>0, <1>10, ClearStep
  <1>11. CASE SwitchUnlock(t)
    BY <1>0, <1>11, UnlockStep
  <1>12. CASE GenerateFiber(t, "cv_new", "cv_snapf") \/ GenerateFiber(t, "cr_new", "cr_snapf")
    BY <1>0, <1>12, GenerateStep
  <1>13. CASE GenerateThread(t)
    <2> DEFINE r == <<t, nrec[t] + 1>>
    <2>1. r \in Recs /\ r[2] > nrec[r[1]]
      BY <1>0, <1>13, ConstantsAssumption DEF GenerateThread, LocalsOK, TypeOK, Recs
    <2>2. curFid[r] = NO_FIBERS
      BY <1>0, <2>1 DEF FreshOK
    <2>3. UNCHANGED curFid
      BY <1>0, <1>13, <2>1, <2>2 DEF GenerateThread, TypeOK
    <2> QED
      BY <1>0, <1>13, <1>Q, <2>3 DEF Quiet, TypeOK, GenerateThread
  <1> QED
    BY <1>1, <1>2, <1>3, <1>4, <1>5, <1>6, <1>7, <1>8, <1>9, <1>10, <1>11, <1>12, <1>13
    DEF ThreadStep, Kernel, Convert, Create, Switch

-----------------------------------------------------------------------------
(* The theorems                                                            *)

(* The invariant is inductive: no step of any thread, and no stuttering    *)
(* step, leads out of it.                                                  *)
THEOREM IInvInductive == IInv /\ [Next]_vars => IInv'
  <1> SUFFICES ASSUME IInv, [Next]_vars PROVE IInv'
    OBVIOUS
  <1>1. CASE UNCHANGED vars
    BY <1>1 DEF IInv, TypeOK, LocalsOK, FreshOK, MutualExclusion, StateNamesRunner,
       ClearedFirst, Active, Pending, Leaving, vars, group_vars, fiber_vars, lock_vars,
       info_vars, local_vars, cpu_vars
  <1>2. ASSUME NEW t \in Threads, ThreadStep(t)
        PROVE  IInv'
    <2>0. TypeOK /\ LocalsOK /\ FreshOK
      BY DEF IInv
    <2>1. TypeOK'
      BY <1>2, <2>0, TypeStep
    <2>2. LocalsOK'
      BY <1>2, <2>0, <2>1, LocalsStep
    <2>3. FreshOK'
      BY <1>2, <2>0, FreshStep
    <2>4. Exclusion'
      BY <1>2, <2>1, ExclusionStep
    <2> QED
      BY <2>1, <2>2, <2>3, <2>4 DEF IInv, Exclusion
  <1> QED
    BY <1>1, <1>2 DEF Next, Idle, ThreadStep

(* The inductive invariant holds in every reachable state.                 *)
THEOREM IInvHolds == Spec => []IInv
  BY InitIInv, IInvInductive, PTL DEF Spec

(* In every reachable state every variable has its type, for any threads,  *)
(* fids, bounds and hash functions: the handlers of fiber.c never store a  *)
(* value of the wrong kind.                                                *)
THEOREM TypeCorrect == Spec => []TypeOK
  <1>1. IInv => TypeOK
    BY DEF IInv
  <1> QED
    BY <1>1, IInvHolds, PTL

(* do_convert_thread_to_fiber and do_switch_to_fiber never let two threads *)
(* hold a fiber at once, for any number of threads and fibers, any hash    *)
(* functions, any fids the callers guess, any entries the unsynchronised   *)
(* tables lose and any threads that die.                                   *)
THEOREM MutualExclusionHolds == Spec => []MutualExclusion
  <1>1. IInv => MutualExclusion
    BY DEF IInv
  <1> QED
    BY <1>1, IInvHolds, PTL

(* info.state always names the thread that runs or is leaving the fiber,   *)
(* and an unlocked fiber is marked free: the state test after a successful *)
(* spin_trylock never fails, so it never leaks the lock.                   *)
THEOREM StateNamesRunnerHolds == Spec => []StateNamesRunner
  <1>1. IInv => StateNamesRunner
    BY DEF IInv
  <1> QED
    BY <1>1, IInvHolds, PTL

-----------------------------------------------------------------------------
(* Fids that are given out                                                 *)

Making    == {"cv_snapf", "cv_addf", "cv_lock", "cv_act", "cr_snapf", "cr_addf", "cr_ctx"}
Entering  == {"sw_save", "sw_clear", "sw_unlock", "sw_load"}
Switching == {"sw_lock", "sw_old"} \cup Entering

(* A fid is drawn before it is given out, and while a thread makes the     *)
(* fiber nobody was given its fid and nobody else makes it.                *)
GivenOut ==
  /\ \A f \in known : f <= fidCount
  /\ born \subseteq known
  /\ \A t \in Threads : pc[t] \in Making => newf[t] \notin known
  /\ \A t, u \in Threads :
       pc[t] \in Making /\ pc[u] \in Making /\ newf[t] = newf[u] => t = u

(* A step of t leaves the program counter and the locals of the others     *)
(* alone.                                                                  *)
LEMMA OthersStay ==
  ASSUME TypeOK, NEW t \in Threads, ThreadStep(t)
  PROVE  \A u \in Threads \ {t} :
           /\ pc'[u] = pc[u] /\ newf'[u] = newf[u] /\ oldf'[u] = oldf[u]
           /\ rec'[u] = rec[u] /\ regs'[u] = regs[u] /\ utime'[u] = utime[u]
  <1> USE DEF TypeOK, Goto, Return, group_vars, fiber_vars, lock_vars, info_vars,
              local_vars, cpu_vars
  <1>1. CASE ConvertGroup(t) \/ CreateFind(t) \/ (\E f \in Fids : SwitchFind(t, f))
    BY <1>1 DEF ConvertGroup, CreateFind, SwitchFind
  <1>2. CASE Convert(t)
    <2>1. CASE ConvertFind(t) \/ GenerateThread(t) \/ AddThread(t)
      BY <2>1 DEF ConvertFind, GenerateThread, AddThread
    <2>2. CASE ConvertLock(t) \/ ConvertActivate(t)
      BY <2>2 DEF ConvertLock, ConvertActivate
    <2>3. CASE \E from, to \in Labels : GenerateFiber(t, from, to) \/ ReadFirst(t, from, to)
                                         \/ AddFiber(t, from, to)
      BY <2>3 DEF GenerateFiber, ReadFirst, AddFiber
    <2> QED
      BY <1>2, <2>1, <2>2, <2>3 DEF Convert, Labels
  <1>3. CASE Create(t)
    <2>1. CASE CreateContext(t)
      BY <2>1 DEF CreateContext
    <2>2. CASE \E from, to \in Labels : GenerateFiber(t, from, to) \/ ReadFirst(t, from, to)
                                         \/ AddFiber(t, from, to)
      BY <2>2 DEF GenerateFiber, ReadFirst, AddFiber
    <2> QED
      BY <1>3, <2>1, <2>2 DEF Create, Labels
  <1>4. CASE SwitchLock(t) \/ SwitchActivate(t)
    BY <1>4 DEF SwitchLock, SwitchActivate
  <1>5. CASE SwitchSave(t) \/ SwitchClear(t) \/ SwitchUnlock(t) \/ SwitchLoad(t)
    BY <1>5 DEF SwitchSave, SwitchClear, SwitchUnlock, SwitchLoad
  <1>6. CASE Run(t) \/ Exit(t) \/ KmallocFails(t)
    BY <1>6 DEF Run, Exit, KmallocFails
  <1> QED
    BY <1>1, <1>2, <1>3, <1>4, <1>5, <1>6 DEF ThreadStep, Kernel, Switch

(* Every step keeps what is known of the fids that are given out.          *)
LEMMA GivenStep ==
  ASSUME IInv, GivenOut, NEW t \in Threads, ThreadStep(t)
  PROVE  GivenOut'
  <1>0. TypeOK /\ LocalsOK /\ FreshOK
    BY DEF IInv
  <1>S. \A u \in Threads \ {t} : pc'[u] = pc[u] /\ newf'[u] = newf[u]
    BY <1>0, OthersStay
  <1> USE DEF Goto, group_vars, fiber_vars, lock_vars, info_vars, local_vars, cpu_vars
  <1>1. CASE /\ UNCHANGED <<known, born>> /\ fidCount' \in Int /\ fidCount <= fidCount'
             /\ pc'[t] \notin Making \/ (pc[t] \in Making /\ newf'[t] = newf[t])
    <2>1. \A f \in known : f <= fidCount'
      BY <1>0, <1>1 DEF GivenOut, TypeOK, Fids
    <2> QED
      BY <1>1, <1>S, <2>1 DEF GivenOut
  <1>2. CASE GenerateFiber(t, "cv_new", "cv_snapf") \/ GenerateFiber(t, "cr_new", "cr_snapf")
    <2> DEFINE g == fidCount + 1
    <2>1. /\ g \in Int /\ fidCount' = g /\ newf'[t] = g /\ UNCHANGED <<known, born>>
          /\ pc[t] \notin Making
          /\ \A f \in Fids : f <= fidCount => f # g /\ f <= g
      BY <1>0, <1>2 DEF GenerateFiber, TypeOK, Making, Fids
    <2>2. \A f \in known : f \in Fids /\ f <= fidCount
      BY <1>0 DEF TypeOK, GivenOut
    <2>3. \A u \in Threads : pc[u] \in Making => newf[u] \in Fids /\ newf[u] <= fidCount
      BY <1>0 DEF LocalsOK, Making, HasNewf
    <2> HIDE DEF g
    <2> QED
      BY <1>S, <2>1, <2>2, <2>3 DEF GivenOut
  <1>3. CASE CreateContext(t) \/ ConvertActivate(t)
    <2>1. /\ pc[t] \in Making /\ pc'[t] \notin Making /\ UNCHANGED fidCount
          /\ known' = known \cup {newf[t]} /\ born' \subseteq born \cup {newf[t]}
          /\ CreateContext(t) \/ born' = born
      BY <1>0, <1>3 DEF CreateContext, ConvertActivate, Return, Making, TypeOK
    <2>2. newf[t] <= fidCount
      BY <1>0, <2>1 DEF LocalsOK, Making, HasNewf
    <2> QED
      BY <1>S, <2>1, <2>2 DEF GivenOut
  <1>F. fidCount \in Int /\ fidCount <= fidCount
    BY <1>0 DEF TypeOK
  <1> USE DEF Making, TypeOK
  <1>4. CASE ConvertGroup(t) \/ CreateFind(t) \/ (\E f \in Fids : SwitchFind(t, f))
    BY <1>0, <1>1, <1>4, <1>F DEF ConvertGroup, CreateFind, SwitchFind, Return
  <1>5. CASE ConvertFind(t) \/ GenerateThread(t) \/ AddThread(t) \/ ConvertLock(t)
    BY <1>0, <1>1, <1>5, <1>F DEF ConvertFind, GenerateThread, AddThread, ConvertLock, Return
  <1>6. CASE ReadFirst(t, "cv_snapf", "cv_addf") \/ ReadFirst(t, "cr_snapf", "cr_addf")
    BY <1>0, <1>1, <1>6, <1>F DEF ReadFirst
  <1>7. CASE AddFiber(t, "cv_addf", "cv_lock") \/ AddFiber(t, "cr_addf", "cr_ctx")
    BY <1>0, <1>1, <1>7, <1>F DEF AddFiber
  <1>8. CASE SwitchLock(t) \/ SwitchActivate(t)
    BY <1>0, <1>1, <1>8, <1>F DEF SwitchLock, SwitchActivate, Return
  <1>9. CASE SwitchSave(t) \/ SwitchClear(t) \/ SwitchUnlock(t) \/ SwitchLoad(t)
    BY <1>0, <1>1, <1>9, <1>F DEF SwitchSave, SwitchClear, SwitchUnlock, SwitchLoad, Return
  <1>10. CASE Run(t) \/ Exit(t)
    BY <1>0, <1>1, <1>10, <1>F DEF Run, Exit
  <1>11. CASE KmallocFails(t)
    <2>1. /\ fidCount' \in Int /\ fidCount <= fidCount' /\ UNCHANGED <<known, born>>
          /\ pc'[t] = "dead"
      BY <1>0, <1>11, ConstantsAssumption DEF KmallocFails
    <2> QED
      BY <1>1, <2>1
  <1> QED
    BY <1>2, <1>3, <1>4, <1>5, <1>6, <1>7, <1>8, <1>9, <1>10, <1>11
    DEF ThreadStep, Kernel, Convert, Create, Switch

(* Which contexts a step of a thread writes: that of a fid not given out,  *)
(* or that of the fiber it is leaving.                                     *)
LEMMA ContextStep ==
  ASSUME IInv, GivenOut, NEW t \in Threads, ThreadStep(t), NEW f \in Fids, ctx'[f] # ctx[f]
  PROVE  f \notin known \/ (pc[t] = "sw_save" /\ oldf[t] = f)
  <1>0. TypeOK /\ LocalsOK
    BY DEF IInv
  <1>1. CASE SwitchSave(t)
    BY <1>0, <1>1 DEF SwitchSave, Goto, TypeOK
  <1>2. CASE CreateContext(t)
    BY <1>0, <1>2 DEF CreateContext, GivenOut, Making, TypeOK
  <1>3. CASE \E from, to \in Labels : GenerateFiber(t, from, to)
    <2>1. f = fidCount + 1 /\ fidCount \in Int
      BY <1>0, <1>3 DEF GenerateFiber, TypeOK
    <2> QED
      BY <2>1 DEF GivenOut
  <1>4. CASE UNCHANGED ctx
    BY <1>4
  <1> QED
    BY <1>1, <1>2, <1>3, <1>4
    DEF ThreadStep, Kernel, Convert, Create, Switch, ConvertGroup, CreateFind, SwitchFind,
        ConvertFind, GenerateThread, AddThread, ReadFirst, AddFiber, ConvertLock,
        ConvertActivate, SwitchLock, SwitchActivate, SwitchClear, SwitchUnlock, SwitchLoad,
        Run, Exit, KmallocFails, Labels

(* No fid is given out twice, or before it is drawn.                       *)
THEOREM GivenOutHolds == Spec => []GivenOut
  <1>1. Init => GivenOut
    BY DEF Init, GivenOut, Making
  <1>2. IInv /\ GivenOut /\ [Next]_vars => GivenOut'
    <2> SUFFICES ASSUME IInv, GivenOut, [Next]_vars PROVE GivenOut'
      OBVIOUS
    <2>1. CASE UNCHANGED vars
      BY <2>1 DEF GivenOut, vars, fiber_vars, local_vars
    <2>2. CASE \E t \in Threads : ThreadStep(t)
      BY <2>2, GivenStep
    <2> QED
      BY <2>1, <2>2 DEF Next, Idle, ThreadStep
  <1> QED
    BY <1>1, <1>2, IInvHolds, PTL DEF Spec

(* Only the thread that is leaving a fiber writes the context of a fid     *)
(* that was given out: SAVE_CONTEXT runs under the lock of old_f, and      *)
(* generate_fiber and ALLOC_CONTEXT are done before the fid is returned.   *)
(* It holds for any threads, hash functions, guessed fids and deaths.      *)
THEOREM ContextWritesHolds == Spec => ContextWrites
  <1>1. IInv /\ GivenOut /\ [Next]_vars =>
          [\A f \in Fids :
             ctx'[f] # ctx[f] =>
               f \notin known \/ \E t \in Threads : pc[t] = "sw_save" /\ oldf[t] = f]_vars
    <2> SUFFICES ASSUME IInv, GivenOut, Next, NEW f \in Fids, ctx'[f] # ctx[f], f \in known
                 PROVE  \E t \in Threads : pc[t] = "sw_save" /\ oldf[t] = f
      OBVIOUS
    <2>1. ~UNCHANGED vars
      BY DEF vars
    <2>2. PICK t \in Threads : ThreadStep(t)
      BY <2>1 DEF Next, Idle, ThreadStep
    <2> QED
      BY <2>2, ContextStep
  <1> QED
    BY <1>1, IInvHolds, GivenOutHolds, PTL DEF Spec, ContextWrites

-----------------------------------------------------------------------------
(* Flows of control, for callers that name only fids they were given       *)

(* The point a thread is at: once it has released the old fiber, the one   *)
(* in the new fiber's context.                                             *)
At(t) == IF pc[t] = "sw_load" THEN ctx[newf[t]] ELSE regs[t]

(* The context of f is where its flow will be resumed: nobody holds f, or  *)
(* a thread is about to enter it.                                          *)
Parked(f) ==
  /\ f \in known
  /\ \/ ~flock[f]
     \/ \E t \in Threads : pc[t] \in {"sw_old", "sw_save", "sw_clear", "sw_unlock"}
                           /\ newf[t] = f

(* Only fibers that were given out are entered, run and left, and the      *)
(* caller's record names the fiber that is entered.                        *)
EntersKnown ==
  /\ \A t \in Threads : pc[t] \in Switching => newf[t] \in known
  /\ \A t \in Threads : pc[t] \in Entering => curFid[rec[t]] = newf[t]
  /\ \A r \in Recs : curFid[r] # NO_FIBERS => curFid[r] \in known
  /\ \A t \in Threads : pc[t] \in HasOldf => oldf[t] \in known

(* The registers are in the old fiber's context before it is released.     *)
SavedFirst ==
  \A t \in Threads : pc[t] \in {"sw_clear", "sw_unlock"} => ctx[oldf[t]] = regs[t]

(* A flow is in one place: on one thread or in one context.                *)
OnePlace ==
  /\ \A t, u \in Threads : At(t).flow = At(u).flow => t = u
  /\ \A t \in Threads, f \in Fids : Parked(f) => At(t).flow # ctx[f].flow
  /\ \A f, g \in Fids : Parked(f) /\ Parked(g) /\ ctx[f].flow = ctx[g].flow => f = g

(* That place is the latest point of a flow that exists.                   *)
Latest ==
  /\ \A t \in Threads : At(t).flow \in Threads \cup born /\ At(t).at = pos[At(t).flow]
  /\ \A f \in Fids :
       Parked(f) => ctx[f].flow \in Threads \cup born /\ ctx[f].at = pos[ctx[f].flow]
  /\ \A f \in Fids : f \notin born => pos[f] = 0

FlowInv == EntersKnown /\ SavedFirst /\ OnePlace /\ Latest

(* Every step enters only fibers that were given out.                      *)
LEMMA EntersStep ==
  ASSUME ~AnyFid, IInv, IInv', EntersKnown, NEW t \in Threads, ThreadStep(t)
  PROVE  EntersKnown'
  <1>0. TypeOK /\ LocalsOK /\ FreshOK /\ TypeOK' /\ LocalsOK'
    BY DEF IInv
  <1>S. \A u \in Threads \ {t} : /\ pc'[u] = pc[u] /\ newf'[u] = newf[u]
                                 /\ oldf'[u] = oldf[u] /\ rec'[u] = rec[u]
    BY <1>0, OthersStay
  <1>R. \A u \in Threads : pc[u] \in Entering => rec[u] \in Recs /\ rec[u][1] = u
    BY <1>0 DEF LocalsOK, HasRec, Entering
  <1> USE DEF Goto, group_vars, fiber_vars, lock_vars, info_vars, local_vars, cpu_vars
  <1>1. CASE /\ UNCHANGED curFid /\ known \subseteq known'
             /\ pc'[t] \in Switching => newf'[t] \in known'
             /\ pc'[t] \in Entering => pc[t] \in Entering /\ newf'[t] = newf[t] /\ rec'[t] = rec[t]
             /\ pc'[t] \in HasOldf => pc[t] \in HasOldf /\ oldf'[t] = oldf[t]
    BY <1>1, <1>S DEF EntersKnown
  <1>2. CASE ConvertActivate(t) \/ (SwitchActivate(t) /\ get_fiber(curFid[rec[t]]))
    <2>1. /\ Activate(t, newf[t]) /\ rec[t] \in Recs /\ rec[t][1] = t
          /\ newf[t] \in known' /\ known \subseteq known'
          /\ pc'[t] = "user" \/ /\ pc'[t] = "sw_save" /\ rec'[t] = rec[t] /\ newf'[t] = newf[t]
                                /\ oldf'[t] = curFid[rec[t]] /\ oldf'[t] # NO_FIBERS
      BY <1>0, <1>2
      DEF ConvertActivate, SwitchActivate, Return, LocalsOK, HasRec, TypeOK, EntersKnown,
          Switching, get_fiber, NO_FIBERS, Fids
    <2>2. \A r \in Recs : curFid'[r] = IF r = rec[t] THEN newf[t] ELSE curFid[r]
      BY <1>0, <2>1 DEF Activate, TypeOK
    <2>3. \A u \in Threads \ {t} : pc[u] \in Entering => curFid'[rec[u]] = curFid[rec[u]]
      BY <1>R, <2>1, <2>2
    <2>4. (\A r \in Recs : curFid[r] # NO_FIBERS => curFid[r] \in known)'
      BY <2>1, <2>2 DEF EntersKnown
    <2>5. (\A u \in Threads : pc[u] \in Entering => curFid[rec[u]] = newf[u])'
      BY <1>S, <2>1, <2>2, <2>3 DEF EntersKnown, Entering
    <2>6. (\A u \in Threads : pc[u] \in HasOldf => oldf[u] \in known)'
      BY <1>S, <2>1 DEF EntersKnown, HasOldf
    <2>7. (\A u \in Threads : pc[u] \in Switching => newf[u] \in known)'
      BY <1>S, <2>1 DEF EntersKnown, Switching, Entering
    <2> QED
      BY <2>4, <2>5, <2>6, <2>7 DEF EntersKnown
  <1>3. CASE GenerateThread(t)
    <2>1. <<t, nrec[t] + 1>> \in Recs /\ curFid[<<t, nrec[t] + 1>>] = NO_FIBERS
      BY <1>0, <1>3, ConstantsAssumption DEF GenerateThread, LocalsOK, TypeOK, Recs, FreshOK
    <2>2. UNCHANGED curFid
      BY <1>0, <1>3, <2>1 DEF GenerateThread, TypeOK
    <2> QED
      BY <1>0, <1>1, <1>3, <2>2 DEF GenerateThread, TypeOK, Switching, Entering, HasOldf
  <1>4. CASE \E f \in Fids : SwitchFind(t, f)
    BY <1>0, <1>1, <1>4 DEF SwitchFind, Return, TypeOK, Switching, Entering, HasOldf
  <1> USE DEF TypeOK, Switching, Entering, HasOldf
  <1>5. CASE ConvertGroup(t) \/ CreateFind(t)
    BY <1>0, <1>1, <1>5 DEF ConvertGroup, CreateFind, Return
  <1>6. CASE ConvertFind(t) \/ AddThread(t) \/ ConvertLock(t)
    BY <1>0, <1>1, <1>6 DEF ConvertFind, AddThread, ConvertLock, Return
  <1>7. CASE \/ GenerateFiber(t, "cv_new", "cv_snapf") \/ GenerateFiber(t, "cr_new", "cr_snapf")
             \/ ReadFirst(t, "cv_snapf", "cv_addf") \/ ReadFirst(t, "cr_snapf", "cr_addf")
             \/ AddFiber(t, "cv_addf", "cv_lock") \/ AddFiber(t, "cr_addf", "cr_ctx")
    BY <1>0, <1>1, <1>7 DEF GenerateFiber, ReadFirst, AddFiber
  <1>8. CASE CreateContext(t)
    BY <1>0, <1>1, <1>8 DEF CreateContext, Return
  <1>9. CASE SwitchLock(t) \/ (SwitchActivate(t) /\ ~get_fiber(curFid[rec[t]]))
    BY <1>0, <1>1, <1>9 DEF SwitchLock, SwitchActivate, Return, EntersKnown
  <1>10. CASE SwitchSave(t) \/ SwitchClear(t) \/ SwitchUnlock(t) \/ SwitchLoad(t)
    BY <1>0, <1>1, <1>10 DEF SwitchSave, SwitchClear, SwitchUnlock, SwitchLoad, Return, EntersKnown
  <1>11. CASE Run(t) \/ Exit(t) \/ KmallocFails(t)
    BY <1>0, <1>1, <1>11 DEF Run, Exit, KmallocFails, EntersKnown
  <1> QED
    BY <1>2, <1>3, <1>4, <1>5, <1>6, <1>7, <1>8, <1>9, <1>10, <1>11
    DEF ThreadStep, Kernel, Convert, Create, Switch

(* A fiber that is being entered is locked, a parked one is not being left.*)
LEMMA Holders ==
  ASSUME IInv, EntersKnown
  PROVE  /\ \A u \in Threads : pc[u] \in Entering =>
              /\ rec[u] \in Recs /\ rec[u][1] = u /\ newf[u] \in Fids /\ newf[u] \in known
              /\ Active(rec[u], newf[u]) /\ flock[newf[u]]
         /\ \A f \in Fids, t \in Threads : Parked(f) => ~Leaving(t, f)
         /\ \A u, t \in Threads : pc[u] \in Entering => ~Leaving(t, newf[u])
         /\ \A u, t \in Threads :
              pc[u] \in Entering \cup {"sw_old"} /\ pc[t] \in Entering \cup {"sw_old"}
                /\ newf[t] = newf[u] => t = u
  <1>0. LocalsOK /\ MutualExclusion /\ TypeOK
    BY DEF IInv
  <1>1. \A u \in Threads : pc[u] \in Entering =>
          /\ rec[u] \in Recs /\ rec[u][1] = u /\ newf[u] \in Fids /\ newf[u] \in known
          /\ Active(rec[u], newf[u])
    BY <1>0 DEF LocalsOK, EntersKnown, Entering, Switching, HasRec, HasNewf, Active
  <1>2. \A u \in Threads : pc[u] \in Entering => flock[newf[u]]
    BY <1>0, <1>1 DEF MutualExclusion
  <1>3. \A u, t \in Threads : pc[u] \in Entering => ~Leaving(t, newf[u]) /\ ~Pending(t, newf[u])
    BY <1>0, <1>1 DEF MutualExclusion
  <1>4. \A u \in Threads : pc[u] = "sw_old" => newf[u] \in Fids /\ Pending(u, newf[u])
    BY <1>0 DEF LocalsOK, HasNewf, Pending
  <1>5. \A f \in Fids, t, u \in Threads : Pending(u, f) => ~Leaving(t, f)
    BY <1>0 DEF MutualExclusion, Pending, Leaving
  <1>6. \A f \in Fids, t \in Threads : Parked(f) => ~Leaving(t, f)
    BY <1>0, <1>3, <1>4, <1>5 DEF Parked, MutualExclusion, Entering
  <1>7. \A u, t \in Threads :
          pc[u] \in Entering \cup {"sw_old"} /\ pc[t] \in Entering \cup {"sw_old"}
            /\ newf[t] = newf[u] => t = u
    <2> SUFFICES ASSUME NEW u \in Threads, NEW t \in Threads, newf[t] = newf[u],
                        pc[u] \in Entering \cup {"sw_old"}, pc[t] \in Entering \cup {"sw_old"}
                 PROVE  t = u
      OBVIOUS
    <2>1. CASE pc[u] \in Entering /\ pc[t] \in Entering
      <3>1. rec[u] = rec[t]
        BY <1>0, <1>1, <2>1 DEF MutualExclusion
      <3> QED
        BY <1>1, <2>1, <3>1
    <2>2. CASE pc[u] = "sw_old" /\ pc[t] = "sw_old"
      <3>1. newf[u] \in Fids /\ Pending(u, newf[u]) /\ Pending(t, newf[u])
        BY <1>4, <2>2
      <3> QED
        BY <1>0, <3>1 DEF MutualExclusion
    <2>3. CASE (pc[u] \in Entering /\ pc[t] = "sw_old") \/ (pc[t] \in Entering /\ pc[u] = "sw_old")
      BY <1>3, <1>4, <2>3
    <2> QED
      BY <2>1, <2>2, <2>3
  <1> QED
    BY <1>1, <1>2, <1>3, <1>6, <1>7

(* No step writes the context of a parked fiber or of one being entered.   *)
LEMMA ContextKept ==
  ASSUME IInv, GivenOut, EntersKnown, NEW t \in Threads, ThreadStep(t)
  PROVE  /\ \A f \in Fids : Parked(f) => ctx'[f] = ctx[f]
         /\ \A u \in Threads : pc[u] \in Entering => ctx'[newf[u]] = ctx[newf[u]]
  <1>1. \A f \in Fids : f \in known /\ ~Leaving(t, f) => ctx'[f] = ctx[f]
    BY ContextStep DEF Leaving
  <1> QED
    BY <1>1, Holders DEF Parked

(* The registers stay saved until the old fiber is released.               *)
LEMMA SavedStep ==
  ASSUME IInv, GivenOut, EntersKnown, SavedFirst, NEW t \in Threads, ThreadStep(t)
  PROVE  SavedFirst'
  <1>0. TypeOK /\ LocalsOK /\ MutualExclusion
    BY DEF IInv
  <1>S. \A u \in Threads \ {t} : pc'[u] = pc[u] /\ oldf'[u] = oldf[u] /\ regs'[u] = regs[u]
    BY <1>0, OthersStay
  <1>1. ASSUME NEW u \in Threads \ {t}, pc'[u] \in {"sw_clear", "sw_unlock"}
        PROVE  ctx'[oldf'[u]] = regs'[u]
    <2>1. oldf[u] \in Fids /\ oldf[u] \in known /\ Leaving(u, oldf[u])
      BY <1>0, <1>1, <1>S DEF LocalsOK, HasOldf, EntersKnown, Leaving
    <2>2. ~Leaving(t, oldf[u])
      BY <1>0, <2>1 DEF MutualExclusion
    <2>3. ctx'[oldf[u]] = ctx[oldf[u]]
      BY <2>1, <2>2, ContextStep DEF Leaving
    <2> QED
      BY <1>1, <1>S, <2>3 DEF SavedFirst
  <1>2. ASSUME pc'[t] \in {"sw_clear", "sw_unlock"}
        PROVE  ctx'[oldf'[t]] = regs'[t]
    <2>1. SwitchSave(t) \/ SwitchClear(t)
      BY <1>0, <1>2
      DEF ThreadStep, Kernel, Convert, Create, Switch, ConvertGroup, CreateFind, SwitchFind,
          ConvertFind, GenerateThread, AddThread, GenerateFiber, ReadFirst, AddFiber, ConvertLock,
          ConvertActivate, CreateContext, SwitchLock, SwitchActivate, SwitchUnlock, SwitchLoad,
          Run, Exit, KmallocFails, Return, Goto, TypeOK
    <2>2. CASE SwitchSave(t)
      <3>1. oldf[t] \in Fids
        BY <1>0, <2>2 DEF SwitchSave, Goto, LocalsOK, HasOldf
      <3> QED
        BY <1>0, <2>2, <3>1 DEF SwitchSave, local_vars, cpu_vars, TypeOK
    <2>3. CASE SwitchClear(t)
      BY <2>3 DEF SwitchClear, Goto, local_vars, cpu_vars, SavedFirst
    <2> QED
      BY <2>1, <2>2, <2>3
  <1> QED
    BY <1>1, <1>2 DEF SavedFirst

(* A step after which every thread is at the point where it was, and that  *)
(* parks no fiber, keeps flows in one place.                               *)
LEMMA QuietFlow ==
  ASSUME OnePlace, Latest, UNCHANGED <<pos, born>>,
         \A u \in Threads : At(u)' = At(u),
         \A f \in Fids : Parked(f)' => Parked(f) /\ ctx'[f] = ctx[f]
  PROVE  OnePlace' /\ Latest'
  <1>1. OnePlace'
    BY DEF OnePlace
  <1>2. Latest'
    BY DEF Latest
  <1> QED
    BY <1>1, <1>2

(* The steps of t that move no thread to another point.                    *)
LEMMA StaysAt ==
  ASSUME IInv, GivenOut, EntersKnown, NEW t \in Threads, ThreadStep(t),
         \/ pc[t] # "sw_load" /\ pc'[t] # "sw_load" /\ regs'[t] = regs[t]
         \/ SwitchLoad(t)
  PROVE  \A u \in Threads : At(u)' = At(u)
  <1>0. TypeOK
    BY DEF IInv
  <1>S. \A u \in Threads \ {t} : pc'[u] = pc[u] /\ newf'[u] = newf[u] /\ regs'[u] = regs[u]
    BY <1>0, OthersStay
  <1>1. \A u \in Threads \ {t} : At(u)' = At(u)
    BY <1>S, ContextKept DEF At, Entering
  <1>2. At(t)' = At(t)
    BY <1>0 DEF At, SwitchLoad, Return, TypeOK
  <1> QED
    BY <1>1, <1>2

(* A step that neither makes a fiber, releases one nor runs user code      *)
(* parks no fiber.                                                         *)
LEMMA ParksNone ==
  ASSUME ~AnyFid, IInv, GivenOut, EntersKnown, NEW t \in Threads, ThreadStep(t),
         ~CreateContext(t), ~SwitchUnlock(t), NEW f \in Fids, Parked(f)'
  PROVE  Parked(f)
  <1>0. TypeOK /\ LocalsOK /\ MutualExclusion
    BY DEF IInv
  <1>S. \A u \in Threads \ {t} : pc'[u] = pc[u] /\ newf'[u] = newf[u]
    BY <1>0, OthersStay
  <1> DEFINE Enters(u) == pc[u] \in {"sw_old", "sw_save", "sw_clear", "sw_unlock"} /\ newf[u] = f
  <1>1. CASE /\ f \in known' => f \in known
             /\ ~flock'[f] => ~flock[f] \/ f \notin known
             /\ Enters(t)' => Parked(f)
    BY <1>1, <1>S DEF Parked
  <1> USE DEF Goto, group_vars, fiber_vars, lock_vars, info_vars, local_vars, cpu_vars, Return
  <1>2. CASE UNCHANGED <<known, flock>> /\ pc'[t] \notin Entering \cup {"sw_old"}
    BY <1>1, <1>2 DEF Entering
  <1>3. CASE UNCHANGED <<known, flock, newf>> /\ pc[t] \in Entering \cup {"sw_old"} /\ pc[t] # "sw_load"
    BY <1>1, <1>3 DEF Entering, Parked
  <1>4. CASE SwitchLock(t) \/ ConvertLock(t)
    <2>1. /\ newf[t] \in Fids /\ UNCHANGED known
          /\ flock' = [flock EXCEPT ![newf[t]] = TRUE]
          /\ Enters(t)' => ~flock[newf[t]] /\ newf[t] = f
      BY <1>0, <1>4 DEF SwitchLock, ConvertLock, TryActivate, CanActivate, LocalsOK, HasNewf, TypeOK
    <2>2. ~flock'[f] => ~flock[f]
      BY <1>0, <2>1 DEF TypeOK
    <2> QED
      BY <1>1, <2>1, <2>2 DEF Parked
  <1>5. CASE \E from, to \in Labels : /\ GenerateFiber(t, from, to)
                                      /\ to \in {"cv_snapf", "cr_snapf"}
    <2>1. /\ UNCHANGED known /\ ~Enters(t)' /\ fidCount \in Int
          /\ flock' = [flock EXCEPT ![fidCount + 1] = FALSE]
      BY <1>0, <1>5 DEF GenerateFiber, TypeOK
    <2>2. f = fidCount + 1 => f \notin known
      BY <2>1 DEF GivenOut
    <2>3. f # fidCount + 1 => flock'[f] = flock[f]
      BY <1>0, <2>1 DEF TypeOK
    <2> QED
      BY <1>1, <2>1, <2>2, <2>3
  <1>6. CASE ConvertActivate(t)
    <2>1. /\ pc[t] \in Making /\ Pending(t, newf[t]) /\ newf[t] \in Fids
          /\ UNCHANGED flock /\ known' = known \cup {newf[t]} /\ pc'[t] = "user"
      BY <1>0, <1>6 DEF ConvertActivate, Making, Pending, LocalsOK, HasNewf, TypeOK
    <2>2. flock[newf[t]] /\ newf[t] \notin known
      BY <1>0, <2>1 DEF MutualExclusion, GivenOut
    <2>3. \A u \in Threads \ {t} : Enters(u)' => f \in known
      BY <1>S DEF EntersKnown, Switching, Entering
    <2>4. f \in known'
      BY DEF Parked
    <2>5. f # newf[t]
      <3> SUFFICES ASSUME f = newf[t] PROVE FALSE
        OBVIOUS
      <3>1. \E u \in Threads : Enters(u)'
        BY <2>1, <2>2 DEF Parked
      <3> QED
        BY <2>1, <2>2, <2>3, <3>1
    <2> QED
      BY <1>1, <2>1, <2>4, <2>5
  <1> USE DEF TypeOK, Entering
  <1>7. CASE ConvertGroup(t) \/ CreateFind(t) \/ (\E g \in Fids : SwitchFind(t, g))
    BY <1>0, <1>2, <1>7 DEF ConvertGroup, CreateFind, SwitchFind
  <1>8. CASE ConvertFind(t) \/ GenerateThread(t) \/ AddThread(t)
    BY <1>0, <1>2, <1>8 DEF ConvertFind, GenerateThread, AddThread
  <1>9. CASE \/ ReadFirst(t, "cv_snapf", "cv_addf") \/ ReadFirst(t, "cr_snapf", "cr_addf")
             \/ AddFiber(t, "cv_addf", "cv_lock") \/ AddFiber(t, "cr_addf", "cr_ctx")
    BY <1>0, <1>2, <1>9 DEF ReadFirst, AddFiber
  <1>10. CASE SwitchActivate(t) \/ SwitchSave(t) \/ SwitchClear(t)
    BY <1>0, <1>2, <1>3, <1>10 DEF SwitchActivate, SwitchSave, SwitchClear
  <1>11. CASE SwitchLoad(t) \/ Run(t) \/ Exit(t) \/ KmallocFails(t)
    BY <1>0, <1>2, <1>11 DEF SwitchLoad, Run, Exit, KmallocFails
  <1> QED
    BY <1>4, <1>5, <1>6, <1>7, <1>8, <1>9, <1>10, <1>11
    DEF ThreadStep, Kernel, Convert, Create, Switch, Labels

(* The release of the old fiber: its flow is parked there and the thread   *)
(* is where the new fiber was parked.                                      *)
LEMMA UnlockPlaces ==
  ASSUME IInv, GivenOut, EntersKnown, SavedFirst, NEW t \in Threads, SwitchUnlock(t)
  PROVE  /\ UNCHANGED <<ctx, pos, born, known, newf>>
         /\ newf[t] \in Fids /\ oldf[t] \in Fids /\ Parked(newf[t])
         /\ At(t) = ctx[oldf[t]] /\ At(t)' = ctx[newf[t]]
         /\ \A u \in Threads \ {t} : At(u)' = At(u)
         /\ ~Parked(newf[t])'
         /\ \A f \in Fids \ {oldf[t]} : Parked(f)' => Parked(f)
  <1>0. TypeOK /\ LocalsOK /\ MutualExclusion
    BY DEF IInv
  <1>1. /\ pc[t] = "sw_unlock" /\ pc' = [pc EXCEPT ![t] = "sw_load"]
        /\ flock' = [flock EXCEPT ![oldf[t]] = FALSE]
        /\ UNCHANGED <<ctx, pos, born, known, newf, oldf, regs, rec, curFid>>
    BY DEF SwitchUnlock, Goto, local_vars, cpu_vars
  <1>2. newf[t] \in Fids /\ oldf[t] \in Fids /\ newf[t] \in known /\ Leaving(t, oldf[t])
    BY <1>0, <1>1 DEF LocalsOK, HasNewf, HasOldf, Leaving, EntersKnown, Switching, Entering
  <1>3. Parked(newf[t])
    BY <1>1, <1>2 DEF Parked
  <1>4. newf[t] # oldf[t] /\ flock[newf[t]]
    BY <1>1, <1>2, Holders DEF Entering
  <1>5. At(t) = ctx[oldf[t]] /\ At(t)' = ctx[newf[t]]
    BY <1>0, <1>1 DEF At, SavedFirst, TypeOK
  <1>6. \A u \in Threads \ {t} : At(u)' = At(u)
    BY <1>0, <1>1 DEF At, TypeOK
  <1>7. \A u \in Threads : pc'[u] \in {"sw_old", "sw_save", "sw_clear", "sw_unlock"} =>
                             u # t /\ pc[u] = pc'[u]
    BY <1>0, <1>1 DEF TypeOK
  <1>8. ~Parked(newf[t])'
    <2>1. flock'[newf[t]]
      BY <1>0, <1>1, <1>2, <1>4 DEF TypeOK
    <2>2. \A u \in Threads \ {t} : pc[u] \in Entering \cup {"sw_old"} => newf[u] # newf[t]
      BY <1>1, Holders DEF Entering
    <2> QED
      BY <1>1, <1>7, <2>1, <2>2 DEF Parked, Entering
  <1>9. \A f \in Fids \ {oldf[t]} : Parked(f)' => Parked(f)
    BY <1>0, <1>1, <1>7 DEF Parked, TypeOK
  <1> QED
    BY <1>1, <1>2, <1>3, <1>5, <1>6, <1>8, <1>9

(* Every step keeps every flow in one place, at its latest point.          *)
LEMMA PlaceStep ==
  ASSUME ~AnyFid, IInv, GivenOut, FlowInv, NEW t \in Threads, ThreadStep(t)
  PROVE  OnePlace' /\ Latest'
  <1>0. /\ TypeOK /\ LocalsOK /\ MutualExclusion
        /\ EntersKnown /\ SavedFirst /\ OnePlace /\ Latest
    BY DEF IInv, FlowInv
  <1>S. \A u \in Threads \ {t} : pc'[u] = pc[u] /\ newf'[u] = newf[u] /\ regs'[u] = regs[u]
    BY <1>0, OthersStay
  <1>K. /\ \A f \in Fids : Parked(f) => ctx'[f] = ctx[f]
        /\ \A u \in Threads : pc[u] = "sw_load" => ctx'[newf[u]] = ctx[newf[u]]
    BY <1>0, ContextKept DEF Entering
  <1> USE DEF Goto, group_vars, fiber_vars, lock_vars, info_vars, local_vars, cpu_vars
  <1>1. CASE SwitchUnlock(t)
    <2>1. /\ UNCHANGED <<ctx, pos, born, known, newf>>
          /\ newf[t] \in Fids /\ oldf[t] \in Fids /\ Parked(newf[t])
          /\ At(t) = ctx[oldf[t]] /\ At(t)' = ctx[newf[t]]
          /\ \A u \in Threads \ {t} : At(u)' = At(u)
          /\ ~Parked(newf[t])'
          /\ \A f \in Fids \ {oldf[t]} : Parked(f)' => Parked(f)
      BY <1>0, <1>1, UnlockPlaces
    <2>2. (\A u, v \in Threads : At(u).flow = At(v).flow => u = v)'
      BY <1>0, <2>1 DEF OnePlace
    <2>3. (\A u \in Threads, f \in Fids : Parked(f) => At(u).flow # ctx[f].flow)'
      <3> SUFFICES ASSUME NEW u \in Threads, NEW f \in Fids, Parked(f)'
                   PROVE  At(u)'.flow # ctx[f].flow
        BY <2>1
      <3>1. f # newf[t]
        BY <2>1
      <3>2. CASE u = t /\ f = oldf[t]
        BY <1>0, <2>1, <3>2 DEF OnePlace
      <3>3. CASE u = t /\ f # oldf[t]
        BY <1>0, <2>1, <3>1, <3>3 DEF OnePlace
      <3>4. CASE u # t /\ f = oldf[t]
        BY <1>0, <2>1, <3>4 DEF OnePlace
      <3>5. CASE u # t /\ f # oldf[t]
        BY <1>0, <2>1, <3>5 DEF OnePlace
      <3> QED
        BY <3>2, <3>3, <3>4, <3>5
    <2>4. (\A f, g \in Fids : Parked(f) /\ Parked(g) /\ ctx[f].flow = ctx[g].flow => f = g)'
      BY <1>0, <2>1 DEF OnePlace
    <2>5. (\A u \in Threads : At(u).flow \in Threads \cup born /\ At(u).at = pos[At(u).flow])'
      BY <1>0, <2>1 DEF Latest
    <2>6. (\A f \in Fids : Parked(f) => ctx[f].flow \in Threads \cup born
                                         /\ ctx[f].at = pos[ctx[f].flow])'
      BY <1>0, <2>1 DEF Latest
    <2> QED
      BY <1>0, <2>1, <2>2, <2>3, <2>4, <2>5, <2>6 DEF OnePlace, Latest
  <1>2. CASE CreateContext(t)
    <2>1. PICK g \in Fids : g = newf[t]
      BY <1>0, <1>2 DEF CreateContext, LocalsOK, HasNewf
    <2>2. /\ ctx' = [ctx EXCEPT ![g] = [flow |-> g, at |-> 0]]
          /\ born' = born \cup {g} /\ known' = known \cup {g}
          /\ UNCHANGED <<flock, regs, pos>> /\ pc[t] = "cr_ctx" /\ pc'[t] = "user"
      BY <1>0, <1>2, <2>1 DEF CreateContext, Return, TypeOK
    <2>3. g \notin known /\ g \notin born /\ g \notin Threads
      BY <1>0, <2>1, <2>2, ConstantsAssumption DEF GivenOut, Making
    <2>4. ctx'[g] = [flow |-> g, at |-> 0] /\ \A f \in Fids \ {g} : ctx'[f] = ctx[f]
      BY <1>0, <2>1, <2>2 DEF TypeOK
    <2>5. \A u \in Threads : At(u)' = At(u)
      BY <1>K, <1>S, <2>2 DEF At
    <2>6. \A f \in Fids \ {g} : Parked(f)' => Parked(f)
      BY <1>S, <2>2 DEF Parked
    <2>7. \A f \in Fids \ {g} : Parked(f) => ctx[f].flow # g
      BY <1>0, <2>3 DEF Latest
    <2>8. OnePlace'
      <3>1. (\A u, v \in Threads : At(u).flow = At(v).flow => u = v)'
        BY <1>0, <2>5 DEF OnePlace
      <3>2. (\A u \in Threads, f \in Fids : Parked(f) => At(u).flow # ctx[f].flow)'
        BY <1>0, <2>3, <2>4, <2>5, <2>6 DEF OnePlace, Latest
      <3>3. (\A f, h \in Fids : Parked(f) /\ Parked(h) /\ ctx[f].flow = ctx[h].flow => f = h)'
        BY <1>0, <2>4, <2>6, <2>7 DEF OnePlace
      <3> QED
        BY <3>1, <3>2, <3>3 DEF OnePlace
    <2>9. Latest'
      BY <1>0, <2>2, <2>3, <2>4, <2>5, <2>6 DEF Latest
    <2> QED
      BY <2>8, <2>9
  <1>3. CASE Run(t)
    <2>1. /\ pc[t] = "user" /\ UNCHANGED <<ctx, known, flock, pc, newf, born>>
          /\ pos' = [pos EXCEPT ![regs[t].flow] = regs[t].at + 1]
          /\ regs' = [regs EXCEPT ![t].at = @ + 1]
      BY <1>3 DEF Run
    <2>2. /\ regs[t] \in Points
          /\ regs'[t].flow = regs[t].flow /\ regs'[t].at = regs[t].at + 1
          /\ \A u \in Threads \ {t} : regs'[u] = regs[u]
      BY <1>0, <2>1 DEF TypeOK, Points
    <2>3. \A u \in Threads : At(u)'.flow = At(u).flow /\ (u # t => At(u)' = At(u))
      BY <2>1, <2>2 DEF At
    <2>4. At(t) = regs[t] /\ At(t)'.at = regs[t].at + 1
      BY <2>1, <2>2 DEF At
    <2>5. \A s \in Flows : pos'[s] = IF s = regs[t].flow THEN regs[t].at + 1 ELSE pos[s]
      BY <1>0, <2>1, <2>2 DEF TypeOK, Points
    <2>6. \A f \in Fids : Parked(f)' <=> Parked(f)
      BY <2>1 DEF Parked
    <2>7. Threads \cup born \subseteq Flows /\ Fids \subseteq Flows
      BY <1>0 DEF TypeOK, Flows
    <2>8. OnePlace'
      BY <1>0, <2>1, <2>3, <2>6 DEF OnePlace
    <2>9. (\A u \in Threads : At(u).flow \in Threads \cup born /\ At(u).at = pos[At(u).flow])'
      <3>1. \A u \in Threads \ {t} : At(u).flow # regs[t].flow
        BY <1>0, <2>4 DEF OnePlace
      <3> QED
        BY <1>0, <2>1, <2>3, <2>4, <2>5, <2>7, <3>1 DEF Latest
    <2>10. (\A f \in Fids : Parked(f) => ctx[f].flow \in Threads \cup born
                                          /\ ctx[f].at = pos[ctx[f].flow])'
      <3>1. \A f \in Fids : Parked(f) => ctx[f].flow # regs[t].flow
        BY <1>0, <2>4 DEF OnePlace
      <3> QED
        BY <1>0, <2>1, <2>5, <2>6, <2>7, <3>1 DEF Latest
    <2>11. (\A f \in Fids : f \notin born => pos[f] = 0)'
      <3>1. regs[t].flow \in Threads \cup born
        BY <1>0, <2>4 DEF Latest
      <3>2. \A f \in Fids : f \notin born => f # regs[t].flow
        BY <3>1, ConstantsAssumption
      <3> QED
        BY <1>0, <2>1, <2>5, <2>7, <3>2 DEF Latest
    <2> QED
      BY <2>8, <2>9, <2>10, <2>11 DEF Latest
  <1>4. CASE ~SwitchUnlock(t) /\ ~CreateContext(t) /\ ~Run(t)
    <2>1. \A f \in Fids : Parked(f)' => Parked(f) /\ ctx'[f] = ctx[f]
      BY <1>0, <1>4, <1>K, ParksNone
    <2>2. UNCHANGED <<pos, born>>
      BY <1>4
      DEF ThreadStep, Kernel, Convert, Create, Switch, ConvertGroup, CreateFind, SwitchFind,
          ConvertFind, GenerateThread, AddThread, GenerateFiber, ReadFirst, AddFiber, ConvertLock,
          ConvertActivate, SwitchLock, SwitchActivate, SwitchSave, SwitchClear, SwitchLoad,
          Exit, KmallocFails
    <2>3. SwitchLoad(t) \/ (pc[t] # "sw_load" /\ pc'[t] # "sw_load" /\ regs'[t] = regs[t])
      BY <1>0, <1>4
      DEF ThreadStep, Kernel, Convert, Create, Switch, ConvertGroup, CreateFind, SwitchFind,
          ConvertFind, GenerateThread, AddThread, GenerateFiber, ReadFirst, AddFiber, ConvertLock,
          ConvertActivate, SwitchLock, SwitchActivate, SwitchSave, SwitchClear,
          Exit, KmallocFails, Return, TypeOK
    <2>4. \A u \in Threads : At(u)' = At(u)
      BY <1>0, <2>3, StaysAt
    <2> QED
      BY <1>0, <2>1, <2>2, <2>4, QuietFlow
  <1> QED
    BY <1>1, <1>2, <1>3, <1>4

(* A step of a thread is one of the coroutines or changes nothing that     *)
(* they show.                                                              *)
LEMMA CoroutineStep ==
  ASSUME ~AnyFid, IInv, GivenOut, FlowInv, NEW t \in Threads, ThreadStep(t)
  PROVE  [Abstract!Next]_(Abstract!vars)
  <1> DEFINE running == [u \in Threads |-> IF pc[u] = "sw_load" THEN ctx[newf[u]].flow
                                                               ELSE regs[u].flow]
  <1>0. /\ TypeOK /\ LocalsOK
        /\ EntersKnown /\ SavedFirst /\ OnePlace /\ Latest
    BY DEF IInv, FlowInv
  <1>R. /\ \A u \in Threads : running[u] = At(u).flow /\ running'[u] = At(u)'.flow
        /\ DOMAIN running = Threads /\ DOMAIN running' = Threads
    BY DEF At
  <1>E. running = [u \in Threads |-> running[u]] /\ running' = [u \in Threads |-> running'[u]]
    OBVIOUS
  <1>Q. CASE UNCHANGED <<pos, born>> /\ \A u \in Threads : At(u)' = At(u)
    <2>1. running' = running
      BY <1>Q, <1>R, <1>E
    <2> QED
      BY <1>Q, <2>1 DEF Abstract!vars
  <1> USE DEF Goto, group_vars, fiber_vars, lock_vars, info_vars, local_vars, cpu_vars
  <1>1. CASE SwitchUnlock(t)
    <2>1. /\ UNCHANGED <<pos, born>> /\ newf[t] \in Fids /\ Parked(newf[t])
          /\ At(t)' = ctx[newf[t]]
          /\ \A u \in Threads \ {t} : At(u)' = At(u)
      BY <1>0, <1>1, UnlockPlaces
    <2>2. PICK s \in Threads \cup born : s = ctx[newf[t]].flow /\ s \in Abstract!Flows
      BY <1>0, <2>1 DEF Latest, TypeOK, Abstract!Flows
    <2>3. \A u \in Threads : running[u] # s
      BY <1>0, <1>R, <2>1, <2>2 DEF OnePlace
    <2>4. \A u \in Threads : running'[u] = IF u = t THEN s ELSE running[u]
      BY <1>R, <2>1, <2>2
    <2>5. running' = [running EXCEPT ![t] = s]
      BY <1>E, <2>4
    <2>6. Abstract!SwitchTo(t, s)
      BY <2>1, <2>2, <2>3, <2>5 DEF Abstract!SwitchTo
    <2> QED
      BY <2>2, <2>6 DEF Abstract!Next
  <1>2. CASE CreateContext(t)
    <2>1. PICK g \in Fids : g = newf[t]
      BY <1>0, <1>2 DEF CreateContext, LocalsOK, HasNewf
    <2>2. /\ born' = born \cup {g} /\ UNCHANGED <<regs, pos>> /\ pc[t] = "cr_ctx"
          /\ pc'[t] = "user"
      BY <1>0, <1>2, <2>1 DEF CreateContext, Return, TypeOK
    <2>3. g \notin born /\ pos[g] = 0
      BY <1>0, <2>1, <2>2 DEF GivenOut, Making, Latest
    <2>4. \A u \in Threads : At(u)' = At(u)
      BY <1>0, <2>2, StaysAt
    <2>5. running' = running
      BY <1>R, <1>E, <2>4
    <2>6. Abstract!Create(g)
      BY <2>2, <2>3, <2>5 DEF Abstract!Create
    <2> QED
      BY <2>6 DEF Abstract!Next
  <1>3. CASE Run(t)
    <2>1. /\ pc[t] = "user" /\ UNCHANGED <<ctx, pc, newf, born>>
          /\ pos' = [pos EXCEPT ![regs[t].flow] = regs[t].at + 1]
          /\ regs' = [regs EXCEPT ![t].at = @ + 1]
      BY <1>3 DEF Run
    <2>2. regs[t] \in Points /\ \A u \in Threads : regs'[u].flow = regs[u].flow
      BY <1>0, <2>1 DEF TypeOK, Points
    <2>3. \A u \in Threads : At(u)'.flow = At(u).flow
      BY <2>1, <2>2 DEF At
    <2>4. running' = running
      BY <1>R, <1>E, <2>3
    <2>5. At(t) = regs[t] /\ running[t] = regs[t].flow /\ regs[t].at = pos[regs[t].flow]
      BY <1>0, <1>R, <2>1 DEF At, Latest
    <2>6. pos' = [pos EXCEPT ![running[t]] = @ + 1]
      BY <2>1, <2>5
    <2>7. Abstract!Step(t)
      BY <2>1, <2>4, <2>6 DEF Abstract!Step
    <2> QED
      BY <2>7 DEF Abstract!Next
  <1>4. CASE ~SwitchUnlock(t) /\ ~CreateContext(t) /\ ~Run(t)
    <2>1. UNCHANGED <<pos, born>>
      BY <1>4
      DEF ThreadStep, Kernel, Convert, Create, Switch, ConvertGroup, CreateFind, SwitchFind,
          ConvertFind, GenerateThread, AddThread, GenerateFiber, ReadFirst, AddFiber, ConvertLock,
          ConvertActivate, SwitchLock, SwitchActivate, SwitchSave, SwitchClear, SwitchLoad,
          Exit, KmallocFails
    <2>2. SwitchLoad(t) \/ (pc[t] # "sw_load" /\ pc'[t] # "sw_load" /\ regs'[t] = regs[t])
      BY <1>0, <1>4
      DEF ThreadStep, Kernel, Convert, Create, Switch, ConvertGroup, CreateFind, SwitchFind,
          ConvertFind, GenerateThread, AddThread, GenerateFiber, ReadFirst, AddFiber, ConvertLock,
          ConvertActivate, SwitchLock, SwitchActivate, SwitchSave, SwitchClear,
          Exit, KmallocFails, Return, TypeOK
    <2>3. \A u \in Threads : At(u)' = At(u)
      BY <1>0, <2>2, StaysAt
    <2> QED
      BY <1>Q, <2>1, <2>3
  <1> QED
    BY <1>1, <1>2, <1>3, <1>4

(* Every flow is in one place, for any hash functions: a thread that lost  *)
(* its record and converts again leaves its old fiber locked for good.     *)
THEOREM FlowHolds ==
  ASSUME ~AnyFid
  PROVE  Spec => []FlowInv
  <1>1. Init => FlowInv
    <2> SUFFICES ASSUME Init PROVE FlowInv
      OBVIOUS
    <2>1. EntersKnown /\ SavedFirst
      BY DEF Init, EntersKnown, SavedFirst, Switching, Entering, HasOldf
    <2>2. (\A f \in Fids : ~Parked(f)) /\ \A t \in Threads : At(t) = [flow |-> t, at |-> 0]
      BY DEF Init, Parked, At
    <2>3. OnePlace
      BY <2>2 DEF OnePlace
    <2>4. Latest
      BY <2>2 DEF Latest, Init, Flows
    <2> QED
      BY <2>1, <2>3, <2>4 DEF FlowInv
  <1>2. IInv /\ IInv' /\ GivenOut /\ FlowInv /\ [Next]_vars => FlowInv'
    <2> SUFFICES ASSUME IInv, IInv', GivenOut, FlowInv, [Next]_vars PROVE FlowInv'
      OBVIOUS
    <2>1. CASE UNCHANGED vars
      BY <2>1 DEF FlowInv, EntersKnown, SavedFirst, OnePlace, Latest, At, Parked,
         vars, fiber_vars, lock_vars, local_vars, cpu_vars
    <2>2. CASE \E t \in Threads : ThreadStep(t)
      BY <2>2, EntersStep, SavedStep, PlaceStep DEF FlowInv
    <2> QED
      BY <2>1, <2>2 DEF Next, Idle, ThreadStep
  <1> QED
    BY <1>1, <1>2, IInvHolds, GivenOutHolds, PTL DEF Spec

(* No two threads run on the same stack and each is at the latest point of *)
(* its flow, whatever the unsynchronised tables lose and whichever threads *)
(* die, as long as callers name only fids they were given.                 *)
THEOREM OneThreadPerFlowHolds ==
  ASSUME ~AnyFid
  PROVE  Spec => []OneThreadPerFlow
  <1>1. FlowInv => OneThreadPerFlow
    BY DEF FlowInv, OnePlace, Latest, OneThreadPerFlow, At
  <1> QED
    BY <1>1, FlowHolds, PTL

(* The scheduler of fiber.c implements coroutines, for any number of       *)
(* threads and fibers, any hash functions and any threads that die, as     *)
(* long as callers name only fids they were given: every step is a step of *)
(* a flow, the creation of one, a switch to one that no thread executes,   *)
(* or invisible.                                                           *)
THEOREM KernelImplementsCoroutines ==
  ASSUME ~AnyFid
  PROVE  Spec => ImplementsCoroutines
  <1>1. Init => Abstract!Init
    BY DEF Init, Abstract!Init, Abstract!Flows, Flows
  <1>2. IInv /\ GivenOut /\ FlowInv /\ [Next]_vars => [Abstract!Next]_(Abstract!vars)
    <2> SUFFICES ASSUME IInv, GivenOut, FlowInv, [Next]_vars
                 PROVE  [Abstract!Next]_(Abstract!vars)
      OBVIOUS
    <2>1. CASE UNCHANGED vars
      BY <2>1 DEF Abstract!vars, vars, local_vars, cpu_vars
    <2>2. CASE \E t \in Threads : ThreadStep(t)
      BY <2>2, CoroutineStep
    <2> QED
      BY <2>1, <2>2 DEF Next, Idle, ThreadStep
  <1> QED
    BY <1>1, <1>2, IInvHolds, GivenOutHolds, FlowHolds, PTL
    DEF Spec, ImplementsCoroutines, Abstract!Spec

-----------------------------------------------------------------------------
(* The hash tables, when no two insertions in one bucket overlap           *)

OwnRec(t) == <<t, 1>>

(* A thread gets one record and keeps it.                                  *)
OneRecord ==
  \A t \in Threads :
    /\ nrec[t] <= 1
    /\ pc[t] = "cv_snapt" => nrec[t] = 0
    /\ pc[t] = "cv_addt" => nrec[t] = 1 /\ tsnap[t] = thrTab[TBucket[t]]
    /\ {r \in thrTab[TBucket[t]] : r[1] = t} =
         IF nrec[t] = 0 \/ pc[t] = "cv_addt" THEN {} ELSE {OwnRec(t)}

(* A fiber is in the table from the store of its new head on, and the      *)
(* chain read as first is still there when that store comes.               *)
Findable ==
  /\ \A f \in known : get_fiber(f)
  /\ \A t \in Threads : pc[t] \in {"cv_lock", "cv_act", "cr_ctx"} => get_fiber(newf[t])
  /\ \A t \in Threads : pc[t] \in {"cv_addf", "cr_addf"} => fsnap[t] = fibTab[FBucket[newf[t]]]

(* get_thread finds the record of a thread that has one.                   *)
LEMMA FindsRecord ==
  ASSUME OneRecord, NEW t \in Threads, TypeOK, nrec[t] # 0, pc[t] # "cv_addt"
  PROVE  get_thread(t) = {OwnRec(t)}
  <1> DEFINE Of == {r \in thrTab[TBucket[t]] : r[1] = t}
  <1>1. Of = {OwnRec(t)}
    BY DEF OneRecord
  <1>2. OwnRec(t)[1] = t /\ OwnRec(t)[2] = 1
    BY DEF OwnRec
  <1>3. \A q \in {OwnRec(t)} : q[2] <= OwnRec(t)[2]
    BY <1>2
  <1>4. get_thread(t) = {r \in Of : \A q \in Of : q[2] <= r[2]}
    BY DEF get_thread
  <1> QED
    BY <1>1, <1>3, <1>4

(* Every step leaves every thread with at most one record.                 *)
LEMMA RecordStep ==
  ASSUME NoOverlap, IInv, OneRecord, NEW t \in Threads, ThreadStep(t)
  PROVE  OneRecord'
  <1>0. TypeOK /\ LocalsOK
    BY DEF IInv
  <1>S. \A u \in Threads \ {t} : pc'[u] = pc[u]
    BY <1>0, OthersStay
  <1> USE DEF Goto, group_vars, fiber_vars, lock_vars, info_vars, local_vars, cpu_vars
  <1>1. CASE /\ UNCHANGED <<thrTab, nrec, tsnap>> /\ pc[t] # "cv_addt"
             /\ pc'[t] \notin {"cv_snapt", "cv_addt"} \/ (pc'[t] = "cv_snapt" /\ nrec[t] = 0)
    BY <1>S, <1>1 DEF OneRecord
  <1>2. CASE GenerateThread(t)
    <2>1. nrec[t] = 0 /\ pc[t] = "cv_snapt" /\ UNCHANGED thrTab
      BY <1>2 DEF GenerateThread, OneRecord
    <2>2. /\ nrec'[t] = 1 /\ tsnap'[t] = thrTab[TBucket[t]] /\ pc'[t] = "cv_addt"
          /\ \A u \in Threads \ {t} : nrec'[u] = nrec[u] /\ tsnap'[u] = tsnap[u]
      BY <1>0, <1>2, <2>1 DEF GenerateThread, TypeOK
    <2> QED
      BY <1>S, <2>1, <2>2 DEF OneRecord
  <1>3. CASE AddThread(t)
    <2>1. /\ pc[t] = "cv_addt" /\ pc'[t] = "cv_new" /\ nrec[t] = 1
          /\ tsnap[t] = thrTab[TBucket[t]]
          /\ UNCHANGED nrec /\ \A u \in Threads \ {t} : tsnap'[u] = tsnap[u]
      BY <1>0, <1>3 DEF AddThread, OneRecord, TypeOK
    <2>2. rec[t] \in Recs /\ rec[t][1] = t /\ rec[t][2] <= 1
      BY <1>0, <2>1 DEF LocalsOK, HasRec
    <2>3. rec[t] = OwnRec(t)
      BY <2>2, ConstantsAssumption DEF Recs, OwnRec
    <2>4. /\ thrTab'[TBucket[t]] = thrTab[TBucket[t]] \cup {OwnRec(t)}
          /\ \A b \in TBuckets \ {TBucket[t]} : thrTab'[b] = thrTab[b]
          /\ \A u \in Threads : TBucket[u] \in TBuckets
      BY <1>0, <1>3, <2>1, <2>3 DEF AddThread, TypeOK, TBuckets
    <2>5. \A u \in Threads \ {t} :
            {r \in thrTab'[TBucket[u]] : r[1] = u} = {r \in thrTab[TBucket[u]] : r[1] = u}
      BY <2>4 DEF OwnRec
    <2>6. \A u \in Threads \ {t} : pc[u] = "cv_addt" => thrTab'[TBucket[u]] = thrTab[TBucket[u]]
      BY <2>1, <2>4 DEF NoOverlap
    <2> SUFFICES ASSUME NEW u \in Threads
                 PROVE  /\ nrec[u] <= 1
                        /\ pc'[u] = "cv_snapt" => nrec[u] = 0
                        /\ pc'[u] = "cv_addt" => nrec[u] = 1 /\ tsnap'[u] = thrTab'[TBucket[u]]
                        /\ {r \in thrTab'[TBucket[u]] : r[1] = u} =
                             IF nrec[u] = 0 \/ pc'[u] = "cv_addt" THEN {} ELSE {OwnRec(u)}
      BY <2>1 DEF OneRecord
    <2>7. CASE u = t
      <3>1. {r \in thrTab[TBucket[t]] : r[1] = t} = {}
        BY <2>1 DEF OneRecord
      <3>2. {r \in thrTab'[TBucket[t]] : r[1] = t} = {OwnRec(t)}
        BY <2>4, <3>1 DEF OwnRec
      <3> QED
        BY <2>1, <2>7, <3>2
    <2>8. CASE u # t
      <3>1. {r \in thrTab'[TBucket[u]] : r[1] = u} = {r \in thrTab[TBucket[u]] : r[1] = u}
        BY <2>5, <2>8
      <3>2. pc'[u] = pc[u] /\ tsnap'[u] = tsnap[u]
        BY <1>S, <2>1, <2>8
      <3> QED
        BY <2>6, <2>8, <3>1, <3>2 DEF OneRecord
    <2> QED
      BY <2>7, <2>8
  <1>4. CASE ConvertFind(t)
    <2>1. CASE get_thread(t) = {}
      <3>1. pc[t] = "cv_find" /\ pc'[t] = "cv_snapt" /\ UNCHANGED <<thrTab, nrec, tsnap>>
        BY <1>0, <1>4, <2>1 DEF ConvertFind, TypeOK
      <3>2. nrec[t] = 0
        BY <1>0, <2>1, <3>1, FindsRecord
      <3> QED
        BY <1>1, <3>1, <3>2
    <2>2. CASE get_thread(t) # {}
      BY <1>0, <1>1, <1>4, <2>2 DEF ConvertFind, Return, TypeOK
    <2> QED
      BY <2>1, <2>2
  <1> USE DEF TypeOK
  <1>5. CASE ConvertGroup(t) \/ CreateFind(t) \/ (\E f \in Fids : SwitchFind(t, f))
    BY <1>0, <1>1, <1>5 DEF ConvertGroup, CreateFind, SwitchFind, Return
  <1>6. CASE ConvertLock(t) \/ ConvertActivate(t) \/ CreateContext(t)
    BY <1>0, <1>1, <1>6 DEF ConvertLock, ConvertActivate, CreateContext, Return
  <1>7. CASE \/ GenerateFiber(t, "cv_new", "cv_snapf") \/ GenerateFiber(t, "cr_new", "cr_snapf")
             \/ ReadFirst(t, "cv_snapf", "cv_addf") \/ ReadFirst(t, "cr_snapf", "cr_addf")
             \/ AddFiber(t, "cv_addf", "cv_lock") \/ AddFiber(t, "cr_addf", "cr_ctx")
    BY <1>0, <1>1, <1>7 DEF GenerateFiber, ReadFirst, AddFiber
  <1>8. CASE SwitchLock(t) \/ SwitchActivate(t) \/ SwitchSave(t)
    BY <1>0, <1>1, <1>8 DEF SwitchLock, SwitchActivate, SwitchSave, Return
  <1>9. CASE SwitchClear(t) \/ SwitchUnlock(t) \/ SwitchLoad(t)
    BY <1>0, <1>1, <1>9 DEF SwitchClear, SwitchUnlock, SwitchLoad, Return
  <1>10. CASE Run(t)
    BY <1>0, <1>10 DEF Run, OneRecord
  <1>11. CASE Exit(t) \/ KmallocFails(t)
    BY <1>0, <1>1, <1>11 DEF Exit, KmallocFails
  <1> QED
    BY <1>2, <1>3, <1>4, <1>5, <1>6, <1>7, <1>8, <1>9, <1>10, <1>11
    DEF ThreadStep, Kernel, Convert, Create, Switch

(* Every step leaves every fiber in the table once it is there.            *)
LEMMA FindableStep ==
  ASSUME NoOverlap, IInv, Findable, NEW t \in Threads, ThreadStep(t)
  PROVE  Findable'
  <1>0. TypeOK /\ LocalsOK
    BY DEF IInv
  <1>S. \A u \in Threads \ {t} : pc'[u] = pc[u] /\ newf'[u] = newf[u]
    BY <1>0, OthersStay
  <1>G. UNCHANGED fibTab => \A f : get_fiber(f)' <=> get_fiber(f)
    BY DEF get_fiber
  <1> USE DEF Goto, group_vars, fiber_vars, lock_vars, info_vars, local_vars, cpu_vars
  <1> DEFINE Added == {"cv_lock", "cv_act", "cr_ctx"}
             Adding == {"cv_addf", "cr_addf"}
  <1>1. CASE /\ UNCHANGED <<fibTab, known, fsnap>>
             /\ pc'[t] \in Added => pc[t] \in Added /\ newf'[t] = newf[t]
             /\ pc'[t] \notin Adding
    BY <1>1, <1>S, <1>G DEF Findable, get_fiber
  <1>2. CASE AddFiber(t, "cv_addf", "cv_lock") \/ AddFiber(t, "cr_addf", "cr_ctx")
    <2>1. /\ newf[t] \in Fids /\ UNCHANGED <<known, newf>> /\ pc[t] \in Adding
          /\ pc'[t] \in Added /\ fsnap[t] = fibTab[FBucket[newf[t]]]
          /\ fibTab' = [fibTab EXCEPT ![FBucket[newf[t]]] = fsnap[t] \cup {newf[t]}]
          /\ \A u \in Threads \ {t} : fsnap'[u] = fsnap[u]
      BY <1>0, <1>2 DEF AddFiber, LocalsOK, HasNewf, Findable, TypeOK
    <2>2. \A f \in Fids : f \in fibTab'[FBucket[f]] <=> IF f = newf[t] THEN TRUE
                                                       ELSE f \in fibTab[FBucket[f]]
      BY <1>0, <2>1 DEF TypeOK, FBuckets
    <2>3. \A f : get_fiber(f) => f \in Fids /\ f \in fibTab'[FBucket[f]]
      BY <2>2 DEF get_fiber
    <2>4. \A u \in Threads \ {t} : pc[u] \in Adding => fibTab'[FBucket[newf[u]]] = fibTab[FBucket[newf[u]]]
      <3> SUFFICES ASSUME NEW u \in Threads \ {t}, pc[u] \in Adding
                   PROVE  fibTab'[FBucket[newf[u]]] = fibTab[FBucket[newf[u]]]
        OBVIOUS
      <3>1. newf[u] \in Fids
        BY <1>0 DEF LocalsOK, HasNewf
      <3>2. FBucket[newf[u]] # FBucket[newf[t]]
        BY <2>1 DEF NoOverlap
      <3> QED
        BY <1>0, <2>1, <3>1, <3>2 DEF TypeOK, FBuckets
    <2>5. (\A f \in known : get_fiber(f))'
      BY <2>1, <2>3 DEF Findable, get_fiber
    <2>6. (\A u \in Threads : pc[u] \in {"cv_lock", "cv_act", "cr_ctx"} => get_fiber(newf[u]))'
      BY <1>S, <2>1, <2>2, <2>3 DEF Findable, get_fiber
    <2>7. (\A u \in Threads : pc[u] \in {"cv_addf", "cr_addf"} => fsnap[u] = fibTab[FBucket[newf[u]]])'
      BY <1>S, <2>1, <2>4 DEF Findable
    <2> QED
      BY <2>5, <2>6, <2>7 DEF Findable
  <1>3. CASE ConvertActivate(t) \/ CreateContext(t)
    <2>1. /\ pc[t] \in Added /\ pc'[t] \notin Added \cup Adding /\ UNCHANGED <<fibTab, fsnap>>
          /\ known' = known \cup {newf[t]}
      BY <1>0, <1>3 DEF ConvertActivate, CreateContext, Return, TypeOK
    <2> QED
      BY <1>S, <2>1 DEF Findable, get_fiber
  <1> USE DEF TypeOK
  <1>4. CASE ConvertGroup(t) \/ CreateFind(t) \/ (\E f \in Fids : SwitchFind(t, f))
    BY <1>0, <1>1, <1>4 DEF ConvertGroup, CreateFind, SwitchFind, Return
  <1>5. CASE ConvertFind(t) \/ GenerateThread(t) \/ AddThread(t) \/ ConvertLock(t)
    BY <1>0, <1>1, <1>5 DEF ConvertFind, GenerateThread, AddThread, ConvertLock, Return
  <1>6. CASE GenerateFiber(t, "cv_new", "cv_snapf") \/ GenerateFiber(t, "cr_new", "cr_snapf")
    BY <1>0, <1>1, <1>6 DEF GenerateFiber
  <1>7. CASE SwitchLock(t) \/ SwitchActivate(t) \/ SwitchSave(t)
    BY <1>0, <1>1, <1>7 DEF SwitchLock, SwitchActivate, SwitchSave, Return
  <1>8. CASE SwitchClear(t) \/ SwitchUnlock(t) \/ SwitchLoad(t)
    BY <1>0, <1>1, <1>8 DEF SwitchClear, SwitchUnlock, SwitchLoad, Return
  <1>9. CASE Run(t) \/ Exit(t) \/ KmallocFails(t)
    BY <1>0, <1>1, <1>9 DEF Run, Exit, KmallocFails
  <1>10. CASE ReadFirst(t, "cv_snapf", "cv_addf") \/ ReadFirst(t, "cr_snapf", "cr_addf")
    <2>1. /\ pc'[t] \in Adding /\ UNCHANGED <<fibTab, known, newf>>
          /\ fsnap'[t] = fibTab[FBucket[newf[t]]]
          /\ \A u \in Threads \ {t} : fsnap'[u] = fsnap[u]
      BY <1>0, <1>10 DEF ReadFirst
    <2> QED
      BY <1>S, <1>G, <2>1 DEF Findable, get_fiber
  <1> QED
    BY <1>2, <1>3, <1>4, <1>5, <1>6, <1>7, <1>8, <1>9, <1>10
    DEF ThreadStep, Kernel, Convert, Create, Switch

(* As long as no two insertions overlap, no thread is ever converted twice.*)
THEOREM OneRecordHolds == Spec /\ []NoOverlap => []OneRecord
  <1>1. Init => OneRecord
    BY DEF Init, OneRecord, TBuckets
  <1>2. IInv /\ NoOverlap /\ OneRecord /\ [Next]_vars => OneRecord'
    <2> SUFFICES ASSUME IInv, NoOverlap, OneRecord, [Next]_vars PROVE OneRecord'
      OBVIOUS
    <2>1. CASE UNCHANGED vars
      BY <2>1 DEF OneRecord, vars, group_vars, local_vars
    <2>2. CASE \E t \in Threads : ThreadStep(t)
      BY <2>2, RecordStep
    <2> QED
      BY <2>1, <2>2 DEF Next, Idle, ThreadStep
  <1> QED
    BY <1>1, <1>2, IInvHolds, PTL DEF Spec

(* As long as no two insertions overlap, a fiber given out is never lost.  *)
THEOREM FindableHolds == Spec /\ []NoOverlap => []Findable
  <1>1. Init => Findable
    BY DEF Init, Findable
  <1>2. IInv /\ NoOverlap /\ Findable /\ [Next]_vars => Findable'
    <2> SUFFICES ASSUME IInv, NoOverlap, Findable, [Next]_vars PROVE Findable'
      OBVIOUS
    <2>1. CASE UNCHANGED vars
      BY <2>1 DEF Findable, get_fiber, vars, fiber_vars, local_vars
    <2>2. CASE \E t \in Threads : ThreadStep(t)
      BY <2>2, FindableStep
    <2> QED
      BY <2>1, <2>2 DEF Next, Idle, ThreadStep
  <1> QED
    BY <1>1, <1>2, IInvHolds, PTL DEF Spec

(* For any hash functions, hence any collisions, any fids the callers      *)
(* guess and any threads that die: the unlocked hash_add_rcu loses a fiber *)
(* or a thread record only when two of its calls overlap in one bucket.    *)
THEOREM LossNeedsOverlapHolds == Spec => LossNeedsOverlap
  <1>1. IInv /\ OneRecord /\ Findable => NothingLost
    <2> SUFFICES ASSUME TypeOK, OneRecord, Findable PROVE NothingLost
      BY DEF IInv
    <2>1. \A t \in Threads : pc[t] = "user" /\ nrec[t] > 0 => get_thread(t) # {}
      <3>1. \A t \in Threads : nrec[t] > 0 => nrec[t] # 0
        BY DEF TypeOK
      <3> QED
        BY <3>1, FindsRecord
    <2> QED
      BY <2>1 DEF Findable, NothingLost
  <1> QED
    BY <1>1, IInvHolds, OneRecordHolds, FindableHolds, PTL DEF LossNeedsOverlap

-----------------------------------------------------------------------------
(* Records of handlers                                                     *)

(* The record a handler works on is the thread's only one.                 *)
LEMMA RecIsOwn ==
  ASSUME IInv, OneRecord, NEW t \in Threads, pc[t] \in HasRec
  PROVE  rec[t] = OwnRec(t) /\ rec[t] \in Recs /\ nrec[t] = 1
  <1>1. /\ rec[t] \in Recs /\ rec[t][1] = t /\ rec[t][2] <= nrec[t] /\ nrec[t] <= 1
        /\ nrec[t] \in Int
    <2>1. nrec[t] \in 0 .. MaxConverts
      BY DEF IInv, TypeOK
    <2>2. nrec[t] <= 1
      BY DEF OneRecord
    <2>3. rec[t] \in Recs /\ rec[t][1] = t /\ rec[t][2] <= nrec[t]
      BY DEF IInv, LocalsOK
    <2> QED
      BY <2>1, <2>2, <2>3, ConstantsAssumption
  <1>2. rec[t][2] = 1 /\ nrec[t] = 1
    BY <1>1, ConstantsAssumption DEF Recs
  <1>3. rec[t] = OwnRec(t)
    BY <1>1, <1>2 DEF Recs, OwnRec
  <1> QED
    BY <1>1, <1>2, <1>3

-----------------------------------------------------------------------------
(* Sums: the fold of SumFunction over a finite set                         *)

(* A nonempty set of numbers has a least one: the form of induction that   *)
(* the proofs below use, on a counterexample that could not be least.      *)
LEMMA LeastNat ==
  ASSUME NEW T, T \subseteq Nat, T # {}
  PROVE  \E x \in T : \A y \in T : x <= y
<1>1. PICK x \in T : \A y \in T : ~ (<<y, x>> \in OpToRel(<, Nat))
  BY WFMin, NatLessThanWellFounded, Zenon
<1>2. \A y \in T : ~(y < x)
  BY <1>1 DEF OpToRel
<1> QED BY <1>2

(* The fold of SumFunction, on the parts of S with at most n elements.     *)
Small(S, n) == {s \in SUBSET S : Cardinality(s) <= n}
Some(s) == CHOOSE x \in s : TRUE
Folded(c, S, n, g) ==
  g = [s \in Small(S, n) |-> IF s = {} THEN 0 ELSE c[Some(s)] + g[s \ {Some(s)}]]

(* Without one of its elements a part is a smaller part.                   *)
LEMMA SmallParts ==
  ASSUME NEW S, IsFiniteSet(S), NEW n \in Nat, NEW s \in Small(S, n)
  PROVE  /\ s \subseteq S /\ IsFiniteSet(s) /\ Cardinality(s) \in Nat /\ Cardinality(s) <= n
         /\ s # {} => /\ Some(s) \in s /\ s \ {Some(s)} \in Small(S, n)
                      /\ Cardinality(s \ {Some(s)}) = Cardinality(s) - 1
                      /\ n > 0 /\ s \ {Some(s)} \in Small(S, n - 1)
<1>1. s \subseteq S /\ Cardinality(s) <= n
  BY DEF Small
<1>2. IsFiniteSet(s) /\ Cardinality(s) \in Nat
  BY <1>1, FS_Subset, FS_CardinalityType
<1>3. ASSUME s # {}
      PROVE  /\ Some(s) \in s /\ s \ {Some(s)} \in Small(S, n)
             /\ Cardinality(s \ {Some(s)}) = Cardinality(s) - 1
             /\ n > 0 /\ s \ {Some(s)} \in Small(S, n - 1)
  <2>1. Some(s) \in s
    BY <1>3 DEF Some
  <2> DEFINE x == Some(s)
  <2> HIDE DEF x
  <2>2. Cardinality(s \ {x}) = Cardinality(s) - 1 /\ IsFiniteSet(s \ {x})
    BY <1>2, <2>1, FS_RemoveElement DEF x
  <2>3. Cardinality(s \ {x}) \in Nat
    BY <2>2, FS_CardinalityType
  <2>4. n > 0 /\ Cardinality(s \ {x}) <= n - 1 /\ Cardinality(s \ {x}) <= n
    BY <1>1, <1>2, <2>2, <2>3
  <2> QED BY <1>1, <2>1, <2>2, <2>4 DEF Small, x
<1> QED BY <1>1, <1>2, <1>3

(* The fold exists, as a function; by induction on the size of the parts.  *)
LEMMA FoldExists ==
  ASSUME NEW c, NEW S, IsFiniteSet(S), NEW n \in Nat
  PROVE  \E g : Folded(c, S, n, g)
<1> DEFINE T == {k \in Nat : ~\E g : Folded(c, S, k, g)}
<1>1. SUFFICES ASSUME T # {} PROVE FALSE
  OBVIOUS
<1>2. PICK k \in T : \A y \in T : k <= y
  BY <1>1, LeastNat
<1>3. CASE k = 0
  <2> DEFINE g == [s \in Small(S, 0) |-> 0]
  <2>1. \A s \in Small(S, 0) : s = {}
    <3> SUFFICES ASSUME NEW s \in Small(S, 0), s # {} PROVE FALSE
      OBVIOUS
    <3>1. 0 \in Nat /\ ~(0 > 0)
      OBVIOUS
    <3> QED BY <3>1, SmallParts
  <2>2. g = [s \in Small(S, 0) |-> IF s = {} THEN 0 ELSE c[Some(s)] + g[s \ {Some(s)}]]
    BY <2>1
  <2>3. Folded(c, S, 0, g)
    BY <2>2 DEF Folded
  <2> QED BY <1>2, <1>3, <2>3
<1>4. CASE k # 0
  <2>1. k - 1 \in Nat /\ k - 1 \notin T
    BY <1>2, <1>4
  <2>2. PICK h : Folded(c, S, k - 1, h)
    BY <2>1
  <2> DEFINE g == [s \in Small(S, k) |-> IF s = {} THEN 0 ELSE c[Some(s)] + h[s \ {Some(s)}]]
  <2>3. ASSUME NEW s \in Small(S, k), s # {}
        PROVE  g[s \ {Some(s)}] = h[s \ {Some(s)}]
    <3> DEFINE r == s \ {Some(s)}
    <3> HIDE DEF r
    <3>1. r \in Small(S, k) /\ r \in Small(S, k - 1)
      BY <2>3, SmallParts, k \in Nat DEF r
    <3>2. h[r] = IF r = {} THEN 0 ELSE c[Some(r)] + h[r \ {Some(r)}]
      BY <2>2, <3>1 DEF Folded
    <3>3. g[r] = IF r = {} THEN 0 ELSE c[Some(r)] + h[r \ {Some(r)}]
      BY <3>1
    <3>4. g[r] = h[r]
      BY <3>2, <3>3
    <3> QED BY <3>4 DEF r
  <2>4. g = [s \in Small(S, k) |-> IF s = {} THEN 0 ELSE c[Some(s)] + g[s \ {Some(s)}]]
    BY <2>3
  <2>5. Folded(c, S, k, g)
    BY <2>4 DEF Folded
  <2> QED BY <1>2, <2>5
<1> QED BY <1>3, <1>4

(* SumFunction is the value of that fold on all of the domain.             *)
LEMMA SumFolded ==
  ASSUME NEW c, IsFiniteSet(DOMAIN c)
  PROVE  \E g : /\ Folded(c, DOMAIN c, Cardinality(DOMAIN c), g)
                /\ SumFunction(c) = g[DOMAIN c]
<1> DEFINE S == DOMAIN c
           n == Cardinality(S)
           F(g) == [s \in SUBSET S |-> IF s = {} THEN 0 ELSE c[Some(s)] + g[s \ {Some(s)}]]
           it == CHOOSE g : g = F(g)
<1>1. n \in Nat
  BY FS_CardinalityType
<1>2. Small(S, n) = SUBSET S
  <2>1. \A s \in SUBSET S : Cardinality(s) <= n
    BY FS_Subset
  <2> QED BY <2>1 DEF Small
<1>3. \E g : g = F(g)
  <2>1. PICK g : Folded(c, S, n, g)
    BY <1>1, FoldExists
  <2>2. g = F(g)
    BY <2>1, <1>2 DEF Folded
  <2> QED BY <2>2
<1>4. it = F(it)
  BY <1>3
<1>5. Folded(c, S, n, it)
  BY <1>4, <1>2 DEF Folded
<1>6. SumFunction(c) = it[S]
  BY DEF SumFunction, SumFunctionOnSet, FoldFunctionOnSet, MapThenFoldSet, Some
<1> QED BY <1>5, <1>6

(* d counts one more than c, at k.                                         *)
OneUp(c, d, k) ==
  /\ DOMAIN d = DOMAIN c /\ k \in DOMAIN c /\ d[k] = c[k] + 1
  /\ \A x \in DOMAIN c \ {k} : d[x] = c[x]

(* The fold of numbers is a number, and 0 when they are all 0; by          *)
(* induction on the size of the parts.                                     *)
LEMMA FoldInt ==
  ASSUME NEW S, IsFiniteSet(S), NEW c \in [S -> Nat], NEW n \in Nat, NEW g, Folded(c, S, n, g)
  PROVE  \A s \in Small(S, n) : g[s] \in Nat /\ ((\A x \in S : c[x] = 0) => g[s] = 0)
<1> DEFINE OK(s) == g[s] \in Nat /\ ((\A x \in S : c[x] = 0) => g[s] = 0)
           T == {m \in Nat : \E s \in Small(S, n) : Cardinality(s) = m /\ ~OK(s)}
<1>1. SUFFICES ASSUME T # {} PROVE FALSE
  <2>1. \A s \in Small(S, n) : Cardinality(s) \in Nat
    BY SmallParts
  <2> QED BY <1>1, <2>1
<1>2. PICK m \in T : \A y \in T : m <= y
  BY <1>1, LeastNat
<1>3. PICK s \in Small(S, n) : Cardinality(s) = m /\ ~OK(s)
  BY <1>2
<1>4. g[s] = IF s = {} THEN 0 ELSE c[Some(s)] + g[s \ {Some(s)}]
  BY DEF Folded
<1>5. s # {}
  BY <1>3, <1>4
<1> DEFINE r == s \ {Some(s)}
<1>6. /\ r \in Small(S, n) /\ Cardinality(r) = m - 1 /\ Some(s) \in S /\ m \in Nat /\ m - 1 \in Nat
  <2>1. r \in Small(S, n) /\ Cardinality(r) = Cardinality(s) - 1 /\ s \subseteq S /\ Some(s) \in s
    BY <1>5, SmallParts
  <2> HIDE DEF r
  <2>2. IsFiniteSet(r) /\ Cardinality(r) \in Nat
    BY <2>1, SmallParts
  <2> QED BY <1>3, <2>1, <2>2
<1>7. OK(r)
  BY <1>2, <1>6
<1>8. c[Some(s)] \in Nat /\ ((\A x \in S : c[x] = 0) => c[Some(s)] = 0)
  BY <1>6
<1>9. OK(s)
  BY <1>4, <1>5, <1>7, <1>8
<1> QED BY <1>3, <1>9

(* The same for the whole sum.                                             *)
LEMMA SumZero ==
  ASSUME NEW S, IsFiniteSet(S), NEW c \in [S -> Nat]
  PROVE  SumFunction(c) \in Nat /\ ((\A x \in S : c[x] = 0) => SumFunction(c) = 0)
<1>1. PICK g : Folded(c, S, Cardinality(S), g) /\ SumFunction(c) = g[S]
  BY SumFolded
<1>2. Cardinality(S) \in Nat /\ S \in Small(S, Cardinality(S))
  BY FS_CardinalityType DEF Small
<1> QED BY <1>1, <1>2, FoldInt

(* One more activation of one fiber is one more in the sum over all; by    *)
(* induction on the size of the parts.                                     *)
LEMMA SumOneUp ==
  ASSUME NEW S, IsFiniteSet(S), NEW c \in [S -> Nat], NEW d \in [S -> Nat], NEW k, OneUp(c, d, k)
  PROVE  SumFunction(d) = SumFunction(c) + 1
<1> DEFINE n == Cardinality(S)
<1>0. n \in Nat /\ S \in Small(S, n) /\ k \in S
  BY FS_CardinalityType DEF Small, OneUp
<1>1. PICK g : Folded(c, S, n, g) /\ SumFunction(c) = g[S]
  BY SumFolded
<1>2. PICK h : Folded(d, S, n, h) /\ SumFunction(d) = h[S]
  BY SumFolded
<1> HIDE DEF n
<1>3. \A s \in Small(S, n) : g[s] \in Nat /\ h[s] \in Nat
  BY <1>0, <1>1, <1>2, FoldInt
<1> DEFINE OK(s) == h[s] = g[s] + (IF k \in s THEN 1 ELSE 0)
           T == {m \in Nat : \E s \in Small(S, n) : Cardinality(s) = m /\ ~OK(s)}
<1>4. T = {}
  <2> SUFFICES ASSUME T # {} PROVE FALSE
    OBVIOUS
  <2>2. PICK m \in T : \A y \in T : m <= y
    BY LeastNat
  <2>3. PICK s \in Small(S, n) : Cardinality(s) = m /\ ~OK(s)
    BY <2>2
  <2>4. /\ g[s] = IF s = {} THEN 0 ELSE c[Some(s)] + g[s \ {Some(s)}]
        /\ h[s] = IF s = {} THEN 0 ELSE d[Some(s)] + h[s \ {Some(s)}]
    BY <1>1, <1>2 DEF Folded
  <2>5. s # {}
    BY <2>3, <2>4
  <2> DEFINE r == s \ {Some(s)}
  <2>6. /\ r \in Small(S, n) /\ Cardinality(r) = m - 1 /\ Some(s) \in S /\ Some(s) \in s
        /\ m \in Nat /\ m - 1 \in Nat
    <3>1. r \in Small(S, n) /\ Cardinality(r) = Cardinality(s) - 1 /\ s \subseteq S /\ Some(s) \in s
      BY <1>0, <2>5, SmallParts
    <3> HIDE DEF r
    <3>2. IsFiniteSet(r) /\ Cardinality(r) \in Nat
      BY <1>0, <3>1, SmallParts
    <3> QED BY <2>3, <3>1, <3>2
  <2>7. OK(r)
    BY <2>2, <2>6
  <2>8. c[Some(s)] \in Nat /\ d[Some(s)] = c[Some(s)] + (IF Some(s) = k THEN 1 ELSE 0)
    BY <2>6 DEF OneUp
  <2>9. OK(s)
    <3>1. g[r] \in Nat /\ h[r] = g[r] + (IF k \in r THEN 1 ELSE 0)
      BY <1>3, <2>6, <2>7
    <3>2. g[s] = c[Some(s)] + g[r] /\ h[s] = d[Some(s)] + h[r]
      BY <2>4, <2>5
    <3>3. k \in s <=> k \in r \/ k = Some(s)
      BY <2>6
    <3>4. k = Some(s) => k \notin r
      OBVIOUS
    <3> HIDE DEF r
    <3> QED BY <3>1, <3>2, <3>3, <3>4, <2>8
  <2> QED BY <2>3, <2>9
<1>5. OK(S)
  <2>1. Cardinality(S) \in Nat
    BY FS_CardinalityType
  <2> QED BY <1>0, <1>4, <2>1
<1> QED BY <1>0, <1>1, <1>2, <1>5

-----------------------------------------------------------------------------
(* The activation counters                                                 *)

(* A fid that is not drawn has no activations, and nobody locked it.       *)
Unused == \A f \in Fids : f > fidCount => succ[f] = 0 /\ failed[f] = 0 /\ ~flock[f]

(* How many try-locks are neither shown by a counter nor the lock of a     *)
(* claimant or a leaked one.                                               *)
Uncounted ==
  SumFunction(tries) - SumFunction(succ) - SumFunction(failed)
    - Cardinality(Claimants) - Cardinality(Leaked)

(* The threads that hold a lock they have not used yet.                    *)
InLock == {t \in Threads : pc[t] \in {"cv_act", "sw_old"}}

(* The sums are numbers and the claimants those who just took a lock.      *)
LEMMA LedgerTypes ==
  ASSUME IsFiniteSet(Threads), TypeOK, LocalsOK
  PROVE  /\ SumFunction(tries) \in Nat /\ SumFunction(succ) \in Nat /\ SumFunction(failed) \in Nat
         /\ Claimants = InLock /\ IsFiniteSet(InLock) /\ Cardinality(InLock) \in Nat
         /\ IsFiniteSet(Leaked) /\ Cardinality(Leaked) \in Nat
<1>1. IsFiniteSet(Fids)
  BY FS_Interval, ConstantsAssumption DEF Fids
<1>2. SumFunction(tries) \in Nat /\ SumFunction(succ) \in Nat /\ SumFunction(failed) \in Nat
  BY <1>1, SumZero DEF TypeOK
<1>3. Claimants = InLock
  BY DEF Claimants, InLock, Pending, LocalsOK, HasNewf
<1>4. IsFiniteSet(InLock) /\ Cardinality(InLock) \in Nat
  BY FS_Subset, FS_CardinalityType DEF InLock
<1>5. IsFiniteSet(Leaked) /\ Cardinality(Leaked) \in Nat
  BY <1>1, FS_Subset, FS_CardinalityType DEF Leaked
<1> QED BY <1>2, <1>3, <1>4, <1>5

(* What a step of t may do to the ledger: nothing, a successful or a       *)
(* failed try-lock, an activation, and the return that gives up.           *)
Untouching == UNCHANGED <<tries, succ, failed>> /\ InLock' = InLock /\ Leaked' = Leaked
Locking(t) ==
  /\ OneUp(tries, tries', t)
  /\ UNCHANGED <<succ, failed>>
  /\ t \notin InLock /\ InLock' = InLock \cup {t} /\ Leaked' = Leaked
Failing(t) ==
  /\ OneUp(tries, tries', t) /\ OneUp(failed, failed', newf[t])
  /\ UNCHANGED succ /\ InLock' = InLock /\ Leaked' = Leaked
Activating(t) ==
  /\ OneUp(succ, succ', newf[t])
  /\ UNCHANGED <<tries, failed>>
  /\ t \in InLock /\ InLock' = InLock \ {t} /\ Leaked' = Leaked
GivingUp(t) ==
  /\ UNCHANGED <<tries, succ, failed>>
  /\ t \in InLock /\ InLock' = InLock \ {t}
  /\ newf[t] \notin Leaked /\ Leaked' = Leaked \cup {newf[t]}

(* What that means for the sums.                                           *)
LEMMA LedgerSums ==
  ASSUME IsFiniteSet(Threads), TypeOK, LocalsOK, TypeOK', LocalsOK', NEW t \in Threads,
         Untouching \/ Locking(t) \/ Failing(t) \/ Activating(t) \/ GivingUp(t)
  PROVE  Uncounted' = Uncounted
<1>1. IsFiniteSet(Fids)
  BY FS_Interval, ConstantsAssumption DEF Fids
<1>2. /\ SumFunction(tries) \in Nat /\ SumFunction(succ) \in Nat /\ SumFunction(failed) \in Nat
      /\ Claimants = InLock /\ IsFiniteSet(InLock) /\ Cardinality(InLock) \in Nat
      /\ IsFiniteSet(Leaked) /\ Cardinality(Leaked) \in Nat
  BY LedgerTypes
<1>3. Claimants' = InLock'
  BY DEF Claimants, InLock, Pending, LocalsOK, HasNewf
<1>4. /\ OneUp(tries, tries', t) => SumFunction(tries') = SumFunction(tries) + 1
      /\ OneUp(succ, succ', newf[t]) => SumFunction(succ') = SumFunction(succ) + 1
      /\ OneUp(failed, failed', newf[t]) => SumFunction(failed') = SumFunction(failed) + 1
  BY <1>1, SumOneUp DEF TypeOK
<1>5. t \notin InLock => Cardinality(InLock \cup {t}) = Cardinality(InLock) + 1
  BY <1>2, FS_AddElement
<1>6. t \in InLock => Cardinality(InLock \ {t}) = Cardinality(InLock) - 1
  BY <1>2, FS_RemoveElement
<1>L. newf[t] \notin Leaked => Cardinality(Leaked \cup {newf[t]}) = Cardinality(Leaked) + 1
  BY <1>2, FS_AddElement
<1>7. Uncounted' = SumFunction(tries') - SumFunction(succ') - SumFunction(failed')
                     - Cardinality(InLock') - Cardinality(Leaked')
  BY <1>3 DEF Uncounted
<1>8. Uncounted = SumFunction(tries) - SumFunction(succ) - SumFunction(failed)
                    - Cardinality(InLock) - Cardinality(Leaked)
  BY <1>2 DEF Uncounted
<1>9. CASE Untouching
  BY <1>9, <1>7, <1>8 DEF Untouching
<1>10. CASE Locking(t)
  BY <1>10, <1>2, <1>4, <1>5, <1>7, <1>8 DEF Locking
<1>11. CASE Failing(t)
  BY <1>11, <1>2, <1>4, <1>7, <1>8 DEF Failing
<1>12. CASE Activating(t)
  BY <1>12, <1>2, <1>4, <1>6, <1>7, <1>8 DEF Activating
<1>13. CASE GivingUp(t)
  BY <1>13, <1>2, <1>6, <1>L, <1>7, <1>8 DEF GivingUp
<1> QED BY <1>9, <1>10, <1>11, <1>12, <1>13

(* The return for a fiber that cannot be looked up.                        *)
GivesUp(t) == SwitchActivate(t) /\ ~get_fiber(curFid[rec[t]])

(* A fiber with a claimant: who runs, takes or leaves it.                  *)
Claimed(f) ==
  \/ \E r \in Recs : Active(r, f)
  \/ \E t \in Threads : Pending(t, f) \/ Leaving(t, f)

(* Only the return that gives up leaks a lock, and it leaks one; nothing   *)
(* ever releases a leaked lock.                                            *)
LEMMA LeakStep ==
  ASSUME IInv, Unused, NEW t \in Threads, ThreadStep(t)
  PROVE  /\ GivesUp(t) => newf[t] \notin Leaked /\ Leaked' = Leaked \cup {newf[t]}
         /\ ~GivesUp(t) => Leaked' = Leaked
<1>0. TypeOK /\ LocalsOK /\ FreshOK /\ MutualExclusion /\ StateNamesRunner
  BY DEF IInv
<1>S. \A u \in Threads \ {t} : pc'[u] = pc[u] /\ newf'[u] = newf[u] /\ oldf'[u] = oldf[u]
  BY <1>0, OthersStay
<1>C. \A u \in Threads \ {t}, f \in Fids :
        (Pending(u, f)' <=> Pending(u, f)) /\ (Leaving(u, f)' <=> Leaving(u, f))
  BY <1>S DEF Pending, Leaving
<1>L. Leaked = {f \in Fids : flock[f] /\ ~Claimed(f)}
  BY DEF Leaked, Claimed
<1>M. Leaked' = {f \in Fids : flock'[f] /\ ~Claimed(f)'}
  BY DEF Leaked, Claimed
<1>E. ASSUME \A f \in Fids : flock'[f] /\ ~Claimed(f)' <=> flock[f] /\ ~Claimed(f)
      PROVE  Leaked' = Leaked
  BY <1>E, <1>L, <1>M
<1> USE DEF Goto, group_vars, fiber_vars, lock_vars, info_vars, local_vars, cpu_vars
<1> DEFINE Claim == {"cv_act", "sw_old", "sw_save", "sw_clear", "sw_unlock"}
<1>1. ASSUME UNCHANGED <<curFid, flock>>,
             \/ pc[t] \notin Claim /\ pc'[t] \notin Claim
             \/ pc[t] \in HasOldf /\ pc'[t] \in HasOldf /\ oldf'[t] = oldf[t]
      PROVE  Leaked' = Leaked
  <2>1. \A f \in Fids : (Pending(t, f) \/ Leaving(t, f))' <=> (Pending(t, f) \/ Leaving(t, f))
    BY <1>1 DEF Pending, Leaving, HasOldf
  <2>2. \A r \in Recs, f \in Fids : Active(r, f)' <=> Active(r, f)
    BY <1>1 DEF Active
  <2>3. \A f \in Fids : Claimed(f)' <=> Claimed(f)
    BY <1>C, <2>1, <2>2 DEF Claimed
  <2> QED BY <1>1, <1>E, <2>3
<1>Q. pc[t] # "sw_old" => ~GivesUp(t)
  BY DEF GivesUp, SwitchActivate
<1>2. CASE ConvertLock(t) \/ SwitchLock(t)
  <2>1. /\ newf[t] \in Fids /\ flock' = [flock EXCEPT ![newf[t]] = TRUE]
        /\ UNCHANGED curFid /\ pc[t] \in {"cv_lock", "sw_lock"}
    BY <1>0, <1>2 DEF ConvertLock, SwitchLock, TryActivate, LocalsOK, HasNewf
  <2>2. CASE flock[newf[t]]
    <3>1. UNCHANGED flock
      BY <1>0, <2>1, <2>2 DEF TypeOK
    <3>2. pc'[t] = "user"
      BY <1>0, <1>2, <2>1, <2>2 DEF ConvertLock, SwitchLock, CanActivate, Return, TypeOK
    <3> QED BY <1>1, <1>Q, <2>1, <3>1, <3>2
  <2>3. CASE ~flock[newf[t]]
    <3>1. CanActivate(newf[t])
      BY <1>0, <2>1, <2>3 DEF StateNamesRunner, CanActivate
    <3>2. pc'[t] \in {"cv_act", "sw_old"} /\ newf'[t] = newf[t]
      BY <1>0, <1>2, <3>1 DEF ConvertLock, SwitchLock, TypeOK
    <3>3. \A f \in Fids : flock'[f] <=> flock[f] \/ f = newf[t]
      BY <1>0, <2>1 DEF TypeOK
    <3>4. \A f \in Fids : ~Pending(t, f) /\ ~Leaving(t, f) /\ ~Leaving(t, f)'
      BY <2>1, <3>2 DEF Pending, Leaving
    <3>5. \A f \in Fids : Pending(t, f)' <=> f = newf[t]
      BY <3>2 DEF Pending
    <3>6. \A r \in Recs, f \in Fids : Active(r, f)' <=> Active(r, f)
      BY <2>1 DEF Active
    <3>7. \A f \in Fids : Claimed(f)' <=> Claimed(f) \/ f = newf[t]
      BY <1>C, <3>4, <3>5, <3>6 DEF Claimed
    <3>8. \A f \in Fids : flock'[f] /\ ~Claimed(f)' <=> flock[f] /\ ~Claimed(f)
      BY <2>3, <3>3, <3>7
    <3> QED BY <1>E, <1>Q, <2>1, <3>8
  <2> QED BY <2>2, <2>3
<1>3. CASE ConvertActivate(t) \/ (SwitchActivate(t) /\ ~GivesUp(t))
  <2>1. /\ pc[t] \in {"cv_act", "sw_old"} /\ newf[t] \in Fids /\ rec[t] \in Recs
    BY <1>0, <1>3 DEF ConvertActivate, SwitchActivate, LocalsOK, HasNewf, HasRec
  <2>2. /\ Activate(t, newf[t]) /\ UNCHANGED flock
        /\ \/ pc[t] = "cv_act" /\ pc'[t] = "user"
           \/ /\ pc[t] = "sw_old" /\ pc'[t] = "sw_save" /\ oldf'[t] = curFid[rec[t]]
              /\ curFid[rec[t]] \in Fids
    BY <1>0, <1>3, <2>1 DEF ConvertActivate, SwitchActivate, GivesUp, get_fiber, Return, TypeOK
  <2>3. \A r \in Recs : curFid'[r] = IF r = rec[t] THEN newf[t] ELSE curFid[r]
    BY <1>0, <2>1, <2>2 DEF Activate, TypeOK
  <2>4. pc[t] = "cv_act" => curFid[rec[t]] = NO_FIBERS
    BY <1>0 DEF LocalsOK, Converting
  <2>5. \A r \in Recs, f \in Fids : Active(r, f)' <=> IF r = rec[t] THEN f = newf[t] ELSE Active(r, f)
    BY <2>3 DEF Active
  <2>6. \A f \in Fids : /\ Pending(t, f) <=> f = newf[t]
                       /\ ~Pending(t, f)' /\ ~Leaving(t, f)
    BY <2>1, <2>2 DEF Pending, Leaving
  <2>7. \A f \in Fids : Leaving(t, f)' <=> Active(rec[t], f)
    BY <2>1, <2>2, <2>4 DEF Active, Leaving, NO_FIBERS, Fids
  <2>8. ASSUME NEW f \in Fids PROVE Claimed(f)' <=> Claimed(f)
    <3>1. CASE f = newf[t]
      BY <2>1, <2>5, <2>6, <3>1 DEF Claimed
    <3>2. CASE f # newf[t]
      BY <1>C, <2>1, <2>5, <2>6, <2>7, <3>2 DEF Claimed
    <3> QED BY <3>1, <3>2
  <2>9. ~GivesUp(t)
    BY <1>3 DEF GivesUp, ConvertActivate, SwitchActivate
  <2> QED BY <1>E, <2>2, <2>8, <2>9
<1>4. CASE GivesUp(t)
  <2>1. pc[t] = "sw_old" /\ pc'[t] = "user" /\ newf[t] \in Fids /\ UNCHANGED <<curFid, flock>>
    BY <1>0, <1>4 DEF GivesUp, SwitchActivate, Return, LocalsOK, HasNewf, TypeOK
  <2> PICK n \in Fids : n = newf[t]
    BY <2>1
  <2>2. \A f \in Fids : /\ Pending(t, f) <=> f = n
                       /\ ~Pending(t, f)' /\ ~Leaving(t, f) /\ ~Leaving(t, f)'
    BY <2>1 DEF Pending, Leaving
  <2>3. \A r \in Recs, f \in Fids : Active(r, f)' <=> Active(r, f)
    BY <2>1 DEF Active
  <2>4. flock[n] /\ Claimed(n)
    BY <1>0, <2>1, <2>2 DEF MutualExclusion, Claimed
  <2>5. ~Claimed(n)'
    <3>1. \A r \in Recs : ~Active(r, n)
      BY <1>0, <2>1, <2>2 DEF MutualExclusion
    <3>2. \A u \in Threads \ {t} : ~Pending(u, n) /\ ~Leaving(u, n)
      BY <1>0, <2>1, <2>2 DEF MutualExclusion
    <3>3. \A r \in Recs : ~Active(r, n)'
      BY <2>3, <3>1
    <3>4. \A u \in Threads : ~Pending(u, n)' /\ ~Leaving(u, n)'
      BY <1>C, <2>2, <3>2
    <3> QED BY <3>3, <3>4 DEF Claimed
  <2>6. \A f \in Fids \ {n} : Claimed(f)' <=> Claimed(f)
    BY <1>C, <2>2, <2>3 DEF Claimed
  <2>7. n \notin Leaked /\ Leaked' = Leaked \cup {n}
    BY <1>L, <1>M, <2>1, <2>4, <2>5, <2>6
  <2> QED BY <1>4, <2>7
<1>5. CASE SwitchUnlock(t)
  <2>1. /\ oldf[t] \in Fids /\ flock' = [flock EXCEPT ![oldf[t]] = FALSE]
        /\ UNCHANGED <<curFid, newf, oldf>> /\ pc[t] = "sw_unlock" /\ pc'[t] = "sw_load"
    BY <1>0, <1>5 DEF SwitchUnlock, LocalsOK, HasOldf, TypeOK
  <2>2. \A f \in Fids : flock'[f] <=> flock[f] /\ f # oldf[t]
    BY <1>0, <2>1 DEF TypeOK
  <2>3. \A f \in Fids : /\ Leaving(t, f) <=> f = oldf[t]
                       /\ ~Pending(t, f) /\ ~Pending(t, f)' /\ ~Leaving(t, f)'
    BY <2>1 DEF Pending, Leaving
  <2>4. \A r \in Recs, f \in Fids : Active(r, f)' <=> Active(r, f)
    BY <2>1 DEF Active
  <2>5. Claimed(oldf[t])
    BY <2>1, <2>3 DEF Claimed
  <2>6. \A f \in Fids \ {oldf[t]} : Claimed(f)' <=> Claimed(f)
    BY <1>C, <2>3, <2>4 DEF Claimed
  <2>7. ~GivesUp(t)
    BY <2>1 DEF GivesUp, SwitchActivate
  <2> QED BY <1>E, <2>2, <2>5, <2>6, <2>7
<1>6. CASE GenerateFiber(t, "cv_new", "cv_snapf") \/ GenerateFiber(t, "cr_new", "cr_snapf")
  <2>1. PICK g \in Fids : g = fidCount + 1 /\ fidCount \in Int
    BY <1>0, <1>6, ConstantsAssumption DEF GenerateFiber, TypeOK, Fids
  <2>2. /\ flock' = [flock EXCEPT ![g] = FALSE] /\ UNCHANGED curFid
        /\ pc[t] \in {"cv_new", "cr_new"} /\ pc'[t] \in {"cv_snapf", "cr_snapf"}
    BY <1>0, <1>6, <2>1 DEF GenerateFiber, TypeOK
  <2>3. ~flock[g]
    BY <2>1 DEF Unused
  <2>4. flock' = flock
    BY <1>0, <2>2, <2>3 DEF TypeOK
  <2>5. ~GivesUp(t)
    BY <2>2 DEF GivesUp, SwitchActivate
  <2> QED BY <1>1, <2>2, <2>4, <2>5
<1>7. CASE GenerateThread(t)
  <2>1. <<t, nrec[t] + 1>> \in Recs /\ curFid[<<t, nrec[t] + 1>>] = NO_FIBERS
    BY <1>0, <1>7, ConstantsAssumption DEF GenerateThread, LocalsOK, TypeOK, Recs, FreshOK
  <2>2. /\ UNCHANGED <<curFid, flock>> /\ pc[t] = "cv_snapt" /\ pc'[t] = "cv_addt"
    BY <1>0, <1>7, <2>1 DEF GenerateThread, TypeOK
  <2>3. ~GivesUp(t)
    BY <2>2 DEF GivesUp, SwitchActivate
  <2> QED BY <1>1, <2>2, <2>3
<1> USE DEF TypeOK
<1>8. CASE ConvertGroup(t) \/ CreateFind(t) \/ (\E f \in Fids : SwitchFind(t, f))
  BY <1>0, <1>1, <1>Q, <1>8 DEF ConvertGroup, CreateFind, SwitchFind, Return
<1>9. CASE ConvertFind(t) \/ AddThread(t)
  BY <1>0, <1>1, <1>Q, <1>9 DEF ConvertFind, AddThread, Return
<1>10. CASE \/ ReadFirst(t, "cv_snapf", "cv_addf") \/ ReadFirst(t, "cr_snapf", "cr_addf")
            \/ AddFiber(t, "cv_addf", "cv_lock") \/ AddFiber(t, "cr_addf", "cr_ctx")
  BY <1>0, <1>1, <1>Q, <1>10 DEF ReadFirst, AddFiber
<1>11. CASE CreateContext(t) \/ SwitchLoad(t)
  BY <1>0, <1>1, <1>Q, <1>11 DEF CreateContext, SwitchLoad, Return
<1>12. CASE SwitchSave(t) \/ SwitchClear(t)
  BY <1>0, <1>1, <1>Q, <1>12 DEF SwitchSave, SwitchClear, HasOldf
<1>13. CASE Run(t) \/ Exit(t)
  BY <1>0, <1>1, <1>Q, <1>13 DEF Run, Exit
<1>14. CASE KmallocFails(t)
  BY <1>0, <1>1, <1>Q, <1>14 DEF KmallocFails
<1> QED
  BY <1>2, <1>3, <1>4, <1>5, <1>6, <1>7, <1>8, <1>9, <1>10, <1>11, <1>12, <1>13, <1>14
  DEF ThreadStep, Kernel, Convert, Create, Switch, GivesUp

(* Every step of a thread does one of these to the ledger.                 *)
LEMMA LedgerStep ==
  ASSUME IInv, TypeOK, TypeOK', LocalsOK, Unused, NEW t \in Threads, ThreadStep(t)
  PROVE  /\ Unused'
         /\ Untouching \/ Locking(t) \/ Failing(t) \/ Activating(t) \/ GivingUp(t)
<1>L. /\ GivesUp(t) => newf[t] \notin Leaked /\ Leaked' = Leaked \cup {newf[t]}
      /\ ~GivesUp(t) => Leaked' = Leaked
  BY LeakStep
<1>G. pc[t] # "sw_old" => ~GivesUp(t)
  BY DEF GivesUp, SwitchActivate
<1> USE DEF Goto, group_vars, fiber_vars, lock_vars, info_vars, local_vars, cpu_vars
<1>0. fidCount \in Int /\ MaxFid \in Nat /\ \A f \in Fids : f \in Int
  BY ConstantsAssumption DEF TypeOK, Fids
<1>Q. ASSUME UNCHANGED <<tries, succ, failed>>, fidCount' >= fidCount, fidCount' \in Int,
             \A f \in Fids : f > fidCount => ~flock'[f],
             \A u \in Threads : pc'[u] \in {"cv_act", "sw_old"} <=> pc[u] \in {"cv_act", "sw_old"},
             pc[t] # "sw_old"
      PROVE  Unused' /\ Untouching
  <2>1. Unused'
    BY <1>0, <1>Q DEF Unused
  <2>2. InLock' = InLock
    BY <1>Q DEF InLock
  <2> QED BY <1>Q, <1>L, <1>G, <2>1, <2>2 DEF Untouching
<1>K. ASSUME UNCHANGED <<tries, succ, failed, flock>>, fidCount' >= fidCount, fidCount' \in Int,
             \A u \in Threads : pc'[u] \in {"cv_act", "sw_old"} <=> pc[u] \in {"cv_act", "sw_old"},
             pc[t] # "sw_old"
      PROVE  Unused' /\ Untouching
  BY <1>K, <1>Q DEF Unused
<1>1. CASE ConvertGroup(t) \/ AddThread(t) \/ GenerateThread(t)
  BY <1>0, <1>1, <1>K DEF TypeOK, ConvertGroup, AddThread, GenerateThread
<1>2. CASE ConvertFind(t) \/ CreateFind(t) \/ CreateContext(t) \/ SwitchLoad(t)
  BY <1>0, <1>2, <1>K DEF TypeOK, ConvertFind, CreateFind, CreateContext, SwitchLoad, Return
<1>3. CASE \E f \in Fids : SwitchFind(t, f)
  BY <1>0, <1>3, <1>K DEF TypeOK, SwitchFind, Return
<1>4. CASE SwitchSave(t) \/ SwitchClear(t) \/ Run(t) \/ Exit(t)
  BY <1>0, <1>4, <1>K DEF TypeOK, SwitchSave, SwitchClear, Run, Exit
<1>U. CASE SwitchUnlock(t)
  <2>1. \A f \in Fids : flock'[f] => flock[f]
    BY <1>U DEF SwitchUnlock, TypeOK
  <2>2. \A f \in Fids : f > fidCount => ~flock'[f]
    BY <2>1 DEF Unused
  <2>3. /\ UNCHANGED <<tries, succ, failed, fidCount>> /\ pc[t] # "sw_old"
        /\ \A u \in Threads : pc'[u] \in {"cv_act", "sw_old"} <=> pc[u] \in {"cv_act", "sw_old"}
    BY <1>U DEF SwitchUnlock, TypeOK
  <2> QED BY <1>0, <1>Q, <2>2, <2>3
<1>5. CASE KmallocFails(t)
  <2>1. fidCount' >= fidCount /\ fidCount' \in Int
    BY <1>0, <1>5 DEF KmallocFails
  <2>2. /\ pc[t] # "sw_old"
        /\ \A u \in Threads : pc'[u] \in {"cv_act", "sw_old"} <=> pc[u] \in {"cv_act", "sw_old"}
    BY <1>5 DEF TypeOK, KmallocFails
  <2> QED BY <1>5, <2>1, <2>2, <1>K DEF KmallocFails
<1>6. CASE ReadFirst(t, "cv_snapf", "cv_addf") \/ ReadFirst(t, "cr_snapf", "cr_addf")
  BY <1>0, <1>6, <1>K DEF TypeOK, ReadFirst
<1>7. CASE AddFiber(t, "cv_addf", "cv_lock") \/ AddFiber(t, "cr_addf", "cr_ctx")
  BY <1>0, <1>7, <1>K DEF TypeOK, AddFiber
<1>8. CASE GenerateFiber(t, "cv_new", "cv_snapf") \/ GenerateFiber(t, "cr_new", "cr_snapf")
  <2>1. fidCount' = fidCount + 1 /\ fidCount + 1 \in Fids /\ fidCount + 1 > fidCount
    BY <1>0, <1>8, ConstantsAssumption DEF GenerateFiber, Fids, TypeOK
  <2>2. succ[fidCount + 1] = 0 /\ failed[fidCount + 1] = 0 /\ ~flock[fidCount + 1]
    BY <2>1 DEF Unused
  <2>3. UNCHANGED <<tries, succ, failed, flock>>
    BY <1>8, <2>1, <2>2 DEF GenerateFiber, TypeOK
  <2>4. /\ pc[t] # "sw_old"
        /\ \A u \in Threads : pc'[u] \in {"cv_act", "sw_old"} <=> pc[u] \in {"cv_act", "sw_old"}
    BY <1>8 DEF GenerateFiber, TypeOK
  <2> QED BY <1>0, <1>K, <2>1, <2>3, <2>4
<1>9. CASE ConvertLock(t) \/ SwitchLock(t)
  <2>1. newf[t] \in Fids /\ newf[t] <= fidCount /\ pc[t] \in {"cv_lock", "sw_lock"}
    BY <1>9 DEF LocalsOK, HasNewf, ConvertLock, SwitchLock
  <2>2. UNCHANGED <<succ, fidCount>> /\ TryActivate(t, newf[t])
    BY <1>9 DEF ConvertLock, SwitchLock
  <2>3. OneUp(tries, tries', t)
    BY <2>2 DEF OneUp, TryActivate, TypeOK
  <2>4. Unused'
    BY <1>0, <2>1, <2>2 DEF Unused, TryActivate, TypeOK
  <2>L. Leaked' = Leaked
    BY <1>L, <1>G, <2>1
  <2>5. CASE CanActivate(newf[t])
    <3>1. UNCHANGED failed
      BY <2>1, <2>2, <2>5 DEF TryActivate, TypeOK
    <3>2. pc' = [pc EXCEPT ![t] = "cv_act"] \/ pc' = [pc EXCEPT ![t] = "sw_old"]
      BY <1>9, <2>5 DEF ConvertLock, SwitchLock
    <3>3. t \notin InLock /\ InLock' = InLock \cup {t}
      BY <2>1, <3>2 DEF InLock, TypeOK
    <3> QED BY <2>2, <2>3, <2>4, <2>L, <3>1, <3>3 DEF Locking
  <2>6. CASE ~CanActivate(newf[t])
    <3>1. OneUp(failed, failed', newf[t])
      BY <2>1, <2>2, <2>6 DEF OneUp, TryActivate, TypeOK
    <3>2. pc' = [pc EXCEPT ![t] = "user"]
      BY <1>9, <2>6 DEF ConvertLock, SwitchLock, Return
    <3>3. InLock' = InLock
      BY <2>1, <3>2 DEF InLock, TypeOK
    <3> QED BY <2>2, <2>3, <2>4, <2>L, <3>1, <3>3 DEF Failing
  <2> QED BY <2>5, <2>6
<1>10. CASE ConvertActivate(t) \/ SwitchActivate(t)
  <2>1. newf[t] \in Fids /\ newf[t] <= fidCount /\ pc[t] \in {"cv_act", "sw_old"}
    BY <1>10 DEF LocalsOK, HasNewf, ConvertActivate, SwitchActivate
  <2>2. UNCHANGED <<tries, failed, fidCount, flock>>
    BY <1>10 DEF ConvertActivate, SwitchActivate
  <2>3. \/ pc' = [pc EXCEPT ![t] = "user"]
        \/ pc' = [pc EXCEPT ![t] = "sw_save"]
    BY <1>10 DEF ConvertActivate, SwitchActivate, Return
  <2>4. t \in InLock /\ InLock' = InLock \ {t}
    BY <2>1, <2>3 DEF InLock, TypeOK
  <2>5. CASE ~GivesUp(t)
    <3>0. Activate(t, newf[t])
      BY <1>10, <2>5 DEF ConvertActivate, SwitchActivate, GivesUp
    <3>1. OneUp(succ, succ', newf[t])
      BY <2>1, <3>0 DEF OneUp, Activate, TypeOK
    <3>2. Unused'
      BY <1>0, <2>1, <2>2, <3>0 DEF Unused, Activate, TypeOK
    <3> QED BY <1>L, <2>2, <2>4, <2>5, <3>1, <3>2 DEF Activating
  <2>6. CASE GivesUp(t)
    <3>1. UNCHANGED succ
      BY <2>6 DEF GivesUp, SwitchActivate
    <3>2. Unused'
      BY <2>2, <3>1 DEF Unused
    <3> QED BY <1>L, <2>2, <2>4, <2>6, <3>1, <3>2 DEF GivingUp
  <2> QED BY <2>5, <2>6
<1> QED
  BY <1>1, <1>2, <1>3, <1>4, <1>U, <1>5, <1>6, <1>7, <1>8, <1>9, <1>10
  DEF ThreadStep, Kernel, Convert, Create, Switch

(* In every state the fids beyond the counter are unused, and no step      *)
(* leaves a try-lock uncounted or counts one twice.                        *)
LEMMA UncountedStep ==
  ASSUME IsFiniteSet(Threads), IInv, Unused, [Next]_vars
  PROVE  Unused' /\ Uncounted' = Uncounted
<1>1. TypeOK /\ LocalsOK
  BY DEF IInv
<1>2. TypeOK' /\ LocalsOK'
  BY IInvInductive DEF IInv
<1>4. CASE UNCHANGED vars
  <2>1. UNCHANGED <<tries, succ, failed, pc, newf, oldf, fidCount, flock, curFid>>
    BY <1>4 DEF vars, fiber_vars, info_vars, local_vars, lock_vars
  <2>2. Claimants' = Claimants /\ Leaked' = Leaked
    BY <2>1 DEF Claimants, Leaked, Active, Pending, Leaving
  <2> QED BY <2>1, <2>2 DEF Uncounted, Unused
<1>5. ASSUME NEW t \in Threads, ThreadStep(t)
      PROVE  Unused' /\ Uncounted' = Uncounted
  BY <1>1, <1>2, <1>5, LedgerStep, LedgerSums
<1> QED BY <1>4, <1>5 DEF Next, Idle, ThreadStep

(* Before the first ioctl nothing is counted and nothing was attempted.    *)
LEMMA InitLedger ==
  ASSUME IsFiniteSet(Threads), Init
  PROVE  Unused /\ Uncounted = 0
<1>1. IsFiniteSet(Fids)
  BY FS_Interval, ConstantsAssumption DEF Fids
<1>2. /\ tries \in [Threads -> Nat] /\ succ \in [Fids -> Nat] /\ failed \in [Fids -> Nat]
      /\ \A t \in Threads : tries[t] = 0
      /\ \A f \in Fids : succ[f] = 0 /\ failed[f] = 0
  BY DEF Init
<1>3. SumFunction(tries) = 0 /\ SumFunction(succ) = 0 /\ SumFunction(failed) = 0
  BY <1>1, <1>2, SumZero
<1>4. Claimants = {}
  BY DEF Init, Claimants, Pending
<1>L. Leaked = {}
  BY DEF Init, Leaked
<1>5. Unused
  BY <1>2 DEF Unused, Init
<1>6. Uncounted = 0
  BY <1>3, <1>4, <1>L, FS_EmptySet DEF Uncounted
<1> QED BY <1>5, <1>6

(* For any fids that callers name, any hash functions, hence any lost      *)
(* table entries, and any threads that die: every try-lock of              *)
(* do_convert_thread_to_fiber and do_switch_to_fiber is counted exactly    *)
(* once, is a claimant's, or is one lock leaked by the return for a        *)
(* missing old fiber, and no lock is lost in any other way.                *)
THEOREM ActivationLedgerHolds ==
  ASSUME IsFiniteSet(Threads)
  PROVE  Spec => []ActivationLedger
<1> DEFINE J == Unused /\ Uncounted = 0
<1>1. Init => J
  BY InitLedger
<1>2. IInv /\ J /\ [Next]_vars => J'
  BY UncountedStep
<1>3. IInv /\ J => ActivationLedger
  BY LedgerTypes DEF IInv, Uncounted, ActivationLedger
<1> QED BY <1>1, <1>2, <1>3, IInvHolds, PTL DEF Spec

-----------------------------------------------------------------------------
(* Running times, as long as no two insertions overlap                     *)

(* With d more, total_running_time of f is the number of steps up to point *)
(* p, or at most that number when the flow is that of a converted thread.  *)
Spent(f, p, d) ==
  IF p.flow = f THEN total[f] + d = p.at ELSE total[f] + d \in 0 .. p.at

(* What a thread owes to the total of the fiber it runs or leaves.         *)
ThreadTime(t) ==
  /\ pc[t] \in Making => total[newf[t]] = 0
  /\ pc[t] \in Entering => lastAct[newf[t]] = utime[t]
  /\ pc[t] = "sw_save" => Spent(oldf[t], regs[t], utime[t] - lastAct[oldf[t]])
  /\ pc[t] \in {"sw_clear", "sw_unlock"} => Spent(oldf[t], regs[t], 0)
  /\ pc[t] \notin HasOldf /\ nrec[t] = 1 /\ curFid[OwnRec(t)] # NO_FIBERS =>
       Spent(curFid[OwnRec(t)], At(t), utime[t] - lastAct[curFid[OwnRec(t)]])

TimeInv ==
  /\ \A t \in Threads : ThreadTime(t)
  /\ \A f \in Fids : Parked(f) => Spent(f, ctx[f], 0)

(* Which totals and activation times a step of t writes.                   *)
LEMMA ClockStep ==
  ASSUME IInv, NEW t \in Threads, ThreadStep(t), NEW f \in Fids, f <= fidCount
  PROVE  /\ ~Leaving(t, f) => total'[f] = total[f]
         /\ ~Pending(t, f) => lastAct'[f] = lastAct[f]
  <1>0. TypeOK /\ LocalsOK
    BY DEF IInv
  <1> USE DEF Goto, info_vars
  <1>1. CASE UNCHANGED <<total, lastAct>>
    BY <1>1
  <1>2. CASE SwitchSave(t)
    BY <1>0, <1>2 DEF SwitchSave, Leaving, TypeOK
  <1>3. CASE ConvertActivate(t) \/ (SwitchActivate(t) /\ get_fiber(curFid[rec[t]]))
    BY <1>0, <1>3 DEF ConvertActivate, SwitchActivate, Activate, Pending, TypeOK
  <1>4. CASE \E from, to \in Labels : GenerateFiber(t, from, to)
    <2>1. f # fidCount + 1
      BY <1>0 DEF TypeOK, Fids
    <2> QED
      BY <1>0, <1>4, <2>1 DEF GenerateFiber, TypeOK
  <1>5. CASE SwitchActivate(t) /\ ~get_fiber(curFid[rec[t]])
    BY <1>5 DEF SwitchActivate
  <1> QED
    BY <1>1, <1>2, <1>3, <1>4, <1>5
    DEF ThreadStep, Kernel, Convert, Create, Switch, ConvertGroup, CreateFind, SwitchFind,
        ConvertFind, GenerateThread, AddThread, ReadFirst, AddFiber, ConvertLock, CreateContext,
        SwitchLock, SwitchClear, SwitchUnlock, SwitchLoad, Run, Exit, KmallocFails, Labels

(* The record of a thread that has one.                                    *)
LEMMA OwnIsRec ==
  ASSUME IInv, NEW u \in Threads, nrec[u] = 1
  PROVE  OwnRec(u) \in Recs /\ OwnRec(u)[1] = u
  BY ConstantsAssumption DEF IInv, TypeOK, OwnRec, Recs

(* A step of t leaves the accounts of the other threads alone.             *)
LEMMA OthersTime ==
  ASSUME IInv, GivenOut, EntersKnown, OneRecord, NEW t \in Threads, ThreadStep(t),
         NEW u \in Threads \ {t}, ThreadTime(u)
  PROVE  ThreadTime(u)'
  <1>0. TypeOK /\ LocalsOK /\ FreshOK /\ MutualExclusion
    BY DEF IInv
  <1>S. /\ pc'[u] = pc[u] /\ newf'[u] = newf[u] /\ oldf'[u] = oldf[u] /\ rec'[u] = rec[u]
        /\ regs'[u] = regs[u] /\ utime'[u] = utime[u]
    BY <1>0, OthersStay
  <1>1. (pc[u] \in Making => total[newf[u]] = 0)'
    <2> SUFFICES ASSUME pc[u] \in Making PROVE total'[newf[u]] = 0
      BY <1>S
    <2>1. newf[u] \in Fids /\ newf[u] <= fidCount /\ newf[u] \notin known
      BY <1>0 DEF LocalsOK, Making, HasNewf, GivenOut
    <2>2. ~Leaving(t, newf[u])
      BY <2>1 DEF Leaving, EntersKnown, HasOldf
    <2> QED
      BY <2>1, <2>2, ClockStep DEF ThreadTime
  <1>2. (pc[u] \in Entering => lastAct[newf[u]] = utime[u])'
    <2> SUFFICES ASSUME pc[u] \in Entering PROVE lastAct'[newf[u]] = utime[u]
      BY <1>S
    <2>1. /\ newf[u] \in Fids /\ newf[u] <= fidCount
          /\ rec[u] \in Recs /\ Active(rec[u], newf[u])
      BY <1>0, Holders DEF LocalsOK, Entering, HasNewf
    <2>2. ~Pending(t, newf[u])
      BY <1>0, <2>1 DEF MutualExclusion
    <2> QED
      BY <2>1, <2>2, ClockStep DEF ThreadTime
  <1>3. pc[u] \in HasOldf => /\ total'[oldf[u]] = total[oldf[u]]
                             /\ lastAct'[oldf[u]] = lastAct[oldf[u]]
    <2> SUFFICES ASSUME pc[u] \in HasOldf
                 PROVE  /\ total'[oldf[u]] = total[oldf[u]]
                        /\ lastAct'[oldf[u]] = lastAct[oldf[u]]
      OBVIOUS
    <2>1. oldf[u] \in Fids /\ oldf[u] <= fidCount /\ Leaving(u, oldf[u])
      BY <1>0 DEF LocalsOK, HasOldf, Leaving
    <2>2. ~Pending(t, oldf[u]) /\ ~Leaving(t, oldf[u])
      BY <1>0, <2>1 DEF MutualExclusion
    <2> QED
      BY <2>1, <2>2, ClockStep
  <1>4. (pc[u] = "sw_save" => Spent(oldf[u], regs[u], utime[u] - lastAct[oldf[u]]))'
    BY <1>3, <1>S DEF ThreadTime, Spent, HasOldf
  <1>5. (pc[u] \in {"sw_clear", "sw_unlock"} => Spent(oldf[u], regs[u], 0))'
    BY <1>3, <1>S DEF ThreadTime, Spent, HasOldf
  <1>6. (pc[u] \notin HasOldf /\ nrec[u] = 1 /\ curFid[OwnRec(u)] # NO_FIBERS =>
           Spent(curFid[OwnRec(u)], At(u), utime[u] - lastAct[curFid[OwnRec(u)]]))'
    <2>1. nrec'[u] = nrec[u]
      BY <1>0
      DEF ThreadStep, Kernel, Convert, Create, Switch, ConvertGroup, CreateFind, SwitchFind,
          ConvertFind, GenerateThread, AddThread, GenerateFiber, ReadFirst, AddFiber, ConvertLock,
          ConvertActivate, CreateContext, SwitchLock, SwitchActivate, SwitchSave, SwitchClear,
          SwitchUnlock, SwitchLoad, Run, Exit, KmallocFails, TypeOK, group_vars
    <2> SUFFICES ASSUME pc[u] \notin HasOldf, nrec[u] = 1, curFid'[OwnRec(u)] # NO_FIBERS
                 PROVE  Spent(curFid[OwnRec(u)], At(u), utime[u] - lastAct[curFid[OwnRec(u)]])'
      BY <1>S, <2>1 DEF OwnRec
    <2>2. OwnRec(u) \in Recs /\ OwnRec(u)[1] = u
      BY OwnIsRec
    <2>3. curFid'[OwnRec(u)] = curFid[OwnRec(u)]
      <3>1. CASE UNCHANGED curFid
        BY <3>1
      <3>2. CASE Activate(t, newf[t]) /\ pc[t] \in HasRec
        BY <1>0, <2>2, <3>2 DEF Activate, LocalsOK, TypeOK
      <3>3. CASE GenerateThread(t)
        BY <1>0, <2>2, <3>3 DEF GenerateThread, TypeOK, OwnRec
      <3> QED
        BY <3>1, <3>2, <3>3
        DEF ThreadStep, Kernel, Convert, Create, Switch, ConvertGroup, CreateFind, SwitchFind,
            ConvertFind, AddThread, GenerateFiber, ReadFirst, AddFiber, ConvertLock,
            ConvertActivate, CreateContext, SwitchLock, SwitchActivate, SwitchSave, SwitchClear,
            SwitchUnlock, SwitchLoad, Run, Exit, KmallocFails, HasRec
    <2>4. PICK f \in Fids : f = curFid[OwnRec(u)] /\ f <= fidCount /\ Active(OwnRec(u), f)
      BY <1>0, <2>2, <2>3 DEF TypeOK, FreshOK, Active
    <2>5. ~Pending(t, f) /\ ~Leaving(t, f)
      BY <1>0, <2>2, <2>4 DEF MutualExclusion
    <2>6. total'[f] = total[f] /\ lastAct'[f] = lastAct[f]
      BY <2>4, <2>5, ClockStep
    <2>7. At(u)' = At(u)
      BY <1>S, ContextKept DEF At, Entering
    <2>8. Spent(f, At(u), utime[u] - lastAct[f])
      BY <2>3, <2>4 DEF ThreadTime
    <2>9. Spent(f, At(u), utime[u] - lastAct[f])'
      BY <1>S, <2>6, <2>7, <2>8 DEF Spent
    <2> QED
      BY <2>3, <2>4, <2>9 DEF Spent, OwnRec
  <1> QED
    BY <1>1, <1>2, <1>4, <1>5, <1>6 DEF ThreadTime

(* The steps of t that touch no clock, no register and no record.          *)
LEMMA QuietTime ==
  ASSUME NEW t \in Threads, ThreadTime(t), UNCHANGED <<total, lastAct, curFid, nrec>>,
         regs'[t] = regs[t], utime'[t] = utime[t],
         pc[t] \notin Entering, pc'[t] \notin Entering,
         pc'[t] \in Making => pc[t] \in Making /\ newf'[t] = newf[t]
  PROVE  ThreadTime(t)'
  <1>1. At(t)' = At(t)
    BY DEF At, Entering
  <1> QED
    BY <1>1 DEF ThreadTime, Spent, OwnRec, Entering, HasOldf

(* A step of t keeps its own account.                                      *)
LEMMA OwnTime ==
  ASSUME ~AnyFid, IInv, GivenOut, FlowInv, OneRecord, TimeInv, NEW t \in Threads, ThreadStep(t)
  PROVE  ThreadTime(t)'
  <1>0. /\ TypeOK /\ LocalsOK /\ FreshOK /\ MutualExclusion
        /\ EntersKnown /\ SavedFirst /\ OnePlace /\ Latest /\ ThreadTime(t)
    BY DEF IInv, FlowInv, TimeInv
  <1>T. /\ utime[t] \in Nat /\ regs[t].at \in Nat
        /\ \A f \in Fids : total[f] \in Int /\ lastAct[f] \in Nat
    BY <1>0 DEF TypeOK, Points
  <1> USE DEF Goto, group_vars, fiber_vars, lock_vars, info_vars, local_vars, cpu_vars
  <1>1. CASE GenerateThread(t)
    <2>1. <<t, nrec[t] + 1>> \in Recs /\ curFid[<<t, nrec[t] + 1>>] = NO_FIBERS
      BY <1>0, <1>1, ConstantsAssumption DEF GenerateThread, LocalsOK, TypeOK, Recs, FreshOK
    <2>2. nrec[t] = 0
      BY <1>1 DEF GenerateThread, OneRecord
    <2>3. UNCHANGED curFid /\ pc'[t] = "cv_addt" /\ curFid[OwnRec(t)] = NO_FIBERS
      BY <1>0, <1>1, <2>1, <2>2 DEF GenerateThread, TypeOK, OwnRec
    <2> QED
      BY <2>3 DEF ThreadTime, Making, Entering, OwnRec
  <1>2. CASE GenerateFiber(t, "cv_new", "cv_snapf") \/ GenerateFiber(t, "cr_new", "cr_snapf")
    <2>0. fidCount + 1 \in Fids
      <3>1. fidCount \in -1 .. MaxFid /\ fidCount + 1 <= MaxFid /\ MaxFid \in Nat
        BY <1>0, <1>2, ConstantsAssumption DEF GenerateFiber, TypeOK
      <3> QED
        BY <3>1 DEF Fids
    <2>1. /\ fidCount + 1 \in Fids /\ newf'[t] = fidCount + 1
          /\ UNCHANGED <<curFid, nrec, regs, utime>>
          /\ pc[t] \in {"cv_new", "cr_new"} /\ pc'[t] \in {"cv_snapf", "cr_snapf"}
      BY <1>0, <1>2, <2>0 DEF GenerateFiber, TypeOK
    <2>2. total'[fidCount + 1] = 0
      BY <1>0, <1>2, <2>1 DEF GenerateFiber, TypeOK
    <2>3. (pc[t] \notin HasOldf /\ nrec[t] = 1 /\ curFid[OwnRec(t)] # NO_FIBERS =>
             Spent(curFid[OwnRec(t)], At(t), utime[t] - lastAct[curFid[OwnRec(t)]]))'
      <3> SUFFICES ASSUME nrec[t] = 1, curFid[OwnRec(t)] # NO_FIBERS
                   PROVE  Spent(curFid[OwnRec(t)], At(t), utime[t] - lastAct[curFid[OwnRec(t)]])'
        BY <2>1 DEF OwnRec
      <3>1. OwnRec(t) \in Recs
        BY OwnIsRec
      <3>2. PICK f \in Fids : f = curFid[OwnRec(t)] /\ f <= fidCount
        BY <1>0, <3>1 DEF TypeOK, FreshOK
      <3>3. total'[f] = total[f] /\ lastAct'[f] = lastAct[f]
        BY <2>1, <3>2, ClockStep DEF Pending, Leaving
      <3>4. At(t)' = At(t)
        BY <2>1 DEF At
      <3>5. Spent(f, At(t), utime[t] - lastAct[f])
        BY <1>0, <2>1, <3>2 DEF ThreadTime, HasOldf
      <3>6. Spent(f, At(t), utime[t] - lastAct[f])'
        BY <2>1, <3>3, <3>4, <3>5 DEF Spent
      <3> QED
        BY <2>1, <3>2, <3>6 DEF Spent, OwnRec
    <2> QED
      BY <2>1, <2>2, <2>3 DEF ThreadTime, Entering
  <1>3. CASE ConvertActivate(t)
    <2>1. /\ newf[t] \in Fids /\ newf[t] \notin known
          /\ rec[t] = OwnRec(t) /\ rec[t] \in Recs /\ pc[t] = "cv_act" /\ pc'[t] = "user"
          /\ UNCHANGED <<total, regs, utime>>
      BY <1>0, <1>3, RecIsOwn
      DEF ConvertActivate, LocalsOK, HasNewf, HasRec, GivenOut, Making, Return, TypeOK
    <2>2. PICK f \in Fids : f = newf[t]
      BY <2>1
    <2>3. curFid'[OwnRec(t)] = f /\ lastAct'[f] = utime[t] /\ total[f] = 0
      BY <1>0, <1>3, <2>1, <2>2 DEF ConvertActivate, Activate, ThreadTime, Making, TypeOK
    <2>4. At(t) = regs[t] /\ At(t)' = regs[t]
      BY <2>1 DEF At
    <2>5. regs[t].flow # f
      BY <1>0, <2>1, <2>2, <2>4, ConstantsAssumption DEF Latest, GivenOut
    <2>6. Spent(f, At(t), utime[t] - lastAct[f])'
      BY <1>T, <2>1, <2>3, <2>4, <2>5 DEF Spent
    <2> QED
      BY <2>1, <2>3, <2>6 DEF ThreadTime, Spent, OwnRec, Making, Entering
  <1>4. CASE SwitchActivate(t) /\ get_fiber(curFid[rec[t]])
    <2>1. /\ newf[t] \in Fids /\ rec[t] = OwnRec(t) /\ rec[t] \in Recs /\ nrec[t] = 1
          /\ pc[t] = "sw_old" /\ pc'[t] = "sw_save" /\ Activate(t, newf[t])
          /\ UNCHANGED <<total, regs, utime, newf>> /\ oldf'[t] = curFid[rec[t]]
          /\ curFid[rec[t]] \in Fids
      BY <1>0, <1>4, RecIsOwn
      DEF SwitchActivate, LocalsOK, HasNewf, HasRec, TypeOK, get_fiber
    <2>2. PICK o \in Fids : o = curFid[rec[t]]
      BY <2>1
    <2>3. o # newf[t]
      BY <1>0, <2>1, <2>2 DEF MutualExclusion, Active, Pending
    <2>4. lastAct'[o] = lastAct[o] /\ lastAct'[newf[t]] = utime[t]
      BY <1>0, <2>1, <2>2, <2>3 DEF Activate, TypeOK
    <2>5. Spent(o, regs[t], utime[t] - lastAct[o])
      BY <1>0, <2>1, <2>2 DEF ThreadTime, At, HasOldf, NO_FIBERS, Fids
    <2>6. Spent(o, regs[t], utime[t] - lastAct[o])'
      BY <2>1, <2>4, <2>5 DEF Spent
    <2> QED
      BY <2>1, <2>2, <2>4, <2>6 DEF ThreadTime, Making, HasOldf, Spent
  <1>5. CASE SwitchSave(t)
    <2>1. /\ pc[t] = "sw_save" /\ pc'[t] = "sw_clear" /\ UNCHANGED <<lastAct, regs, utime, newf, oldf>>
          /\ oldf[t] \in Fids
          /\ total' = [total EXCEPT ![oldf[t]] = @ + (utime[t] - lastAct[oldf[t]])]
      BY <1>0, <1>5 DEF SwitchSave, TypeOK, LocalsOK, HasOldf
    <2>2. PICK o \in Fids : o = oldf[t]
      BY <2>1
    <2>3. total'[o] = total[o] + (utime[t] - lastAct[o])
      BY <1>0, <2>1, <2>2 DEF TypeOK
    <2>4. Spent(o, regs[t], utime[t] - lastAct[o])
      BY <1>0, <2>1, <2>2 DEF ThreadTime
    <2>5. Spent(o, regs[t], 0)'
      BY <1>T, <2>1, <2>3, <2>4 DEF Spent
    <2> QED
      BY <1>0, <2>1, <2>2, <2>5 DEF ThreadTime, Making, Entering, HasOldf, Spent
  <1>6. CASE SwitchClear(t)
    BY <1>0, <1>6 DEF SwitchClear, ThreadTime, Making, Entering, HasOldf, Spent, TypeOK
  <1>7. CASE SwitchUnlock(t)
    <2>1. /\ pc[t] = "sw_unlock" /\ pc'[t] = "sw_load"
          /\ UNCHANGED <<total, lastAct, curFid, utime, newf, ctx>>
      BY <1>0, <1>7 DEF SwitchUnlock, TypeOK
    <2>2. newf[t] \in Fids /\ Parked(newf[t]) /\ At(t)' = ctx[newf[t]]
      BY <1>0, <1>7, UnlockPlaces
    <2>3. PICK f \in Fids : f = newf[t]
      BY <2>2
    <2>4. curFid[OwnRec(t)] = f /\ lastAct[f] = utime[t]
      BY <1>0, <2>1, <2>3, RecIsOwn DEF EntersKnown, Entering, HasRec, ThreadTime
    <2>5. Spent(f, ctx[f], 0) /\ utime[t] - lastAct[f] = 0
      BY <1>T, <2>2, <2>3, <2>4 DEF TimeInv
    <2>6. Spent(f, At(t), utime[t] - lastAct[f])'
      BY <2>1, <2>2, <2>3, <2>5 DEF Spent
    <2> QED
      BY <2>1, <2>3, <2>4, <2>6 DEF ThreadTime, Making, HasOldf, Spent, OwnRec
  <1>8. CASE SwitchLoad(t)
    <2>1. /\ pc[t] = "sw_load" /\ pc'[t] = "user" /\ UNCHANGED <<total, lastAct, curFid, nrec, utime>>
      BY <1>0, <1>8 DEF SwitchLoad, Return, TypeOK
    <2>2. At(t)' = At(t)
      BY <1>0, <1>8, StaysAt
    <2> QED
      BY <1>0, <2>1, <2>2 DEF ThreadTime, Making, Entering, HasOldf, Spent, OwnRec
  <1>9. CASE Run(t)
    <2>1. /\ pc[t] = "user" /\ pc' = pc /\ UNCHANGED <<total, lastAct, curFid, nrec>>
          /\ utime' = [utime EXCEPT ![t] = @ + 1] /\ regs' = [regs EXCEPT ![t].at = @ + 1]
      BY <1>9 DEF Run
    <2>2. /\ utime'[t] = utime[t] + 1 /\ At(t) = regs[t] /\ At(t)' = regs'[t]
          /\ regs'[t].flow = regs[t].flow /\ regs'[t].at = regs[t].at + 1
      BY <1>0, <2>1 DEF TypeOK, Points, At
    <2>3. (pc[t] \notin HasOldf /\ nrec[t] = 1 /\ curFid[OwnRec(t)] # NO_FIBERS =>
             Spent(curFid[OwnRec(t)], At(t), utime[t] - lastAct[curFid[OwnRec(t)]]))'
      <3> SUFFICES ASSUME nrec[t] = 1, curFid[OwnRec(t)] # NO_FIBERS
                   PROVE  Spent(curFid[OwnRec(t)], At(t), utime[t] - lastAct[curFid[OwnRec(t)]])'
        BY <2>1 DEF OwnRec
      <3>1. OwnRec(t) \in Recs
        BY OwnIsRec
      <3>2. PICK f \in Fids : f = curFid[OwnRec(t)]
        BY <1>0, <3>1 DEF TypeOK
      <3>3. Spent(f, regs[t], utime[t] - lastAct[f])
        BY <1>0, <2>1, <2>2, <3>2 DEF ThreadTime, HasOldf
      <3>4. Spent(f, At(t), utime[t] - lastAct[f])'
        BY <1>T, <2>1, <2>2, <3>3 DEF Spent
      <3> QED
        BY <2>1, <3>2, <3>4 DEF Spent, OwnRec
    <2> QED
      BY <2>1, <2>3 DEF ThreadTime, Making, Entering
  <1>Q. CASE /\ UNCHANGED <<total, lastAct, curFid, nrec>>
             /\ regs'[t] = regs[t] /\ utime'[t] = utime[t]
             /\ pc[t] \notin Entering /\ pc'[t] \notin Entering
             /\ pc'[t] \in Making => pc[t] \in Making /\ newf'[t] = newf[t]
    BY <1>0, <1>Q, QuietTime
  <1> USE DEF TypeOK, Making, Entering
  <1>10. CASE ConvertGroup(t) \/ CreateFind(t) \/ (\E f \in Fids : SwitchFind(t, f))
    BY <1>0, <1>10, <1>Q DEF ConvertGroup, CreateFind, SwitchFind, Return
  <1>11. CASE ConvertFind(t) \/ AddThread(t) \/ ConvertLock(t) \/ SwitchLock(t)
    BY <1>0, <1>11, <1>Q DEF ConvertFind, AddThread, ConvertLock, SwitchLock, Return
  <1>12. CASE \/ ReadFirst(t, "cv_snapf", "cv_addf") \/ ReadFirst(t, "cr_snapf", "cr_addf")
              \/ AddFiber(t, "cv_addf", "cv_lock") \/ AddFiber(t, "cr_addf", "cr_ctx")
    BY <1>0, <1>12, <1>Q DEF ReadFirst, AddFiber
  <1>13. CASE CreateContext(t) \/ (SwitchActivate(t) /\ ~get_fiber(curFid[rec[t]]))
    BY <1>0, <1>13, <1>Q DEF CreateContext, SwitchActivate, Return
  <1>14. CASE Exit(t) \/ KmallocFails(t)
    BY <1>0, <1>14, <1>Q DEF Exit, KmallocFails
  <1> QED
    BY <1>1, <1>2, <1>3, <1>4, <1>5, <1>6, <1>7, <1>8, <1>9, <1>10, <1>11, <1>12, <1>13, <1>14
    DEF ThreadStep, Kernel, Convert, Create, Switch

(* Every step keeps the total of every parked fiber right.                 *)
LEMMA ParkedTime ==
  ASSUME ~AnyFid, IInv, GivenOut, FlowInv, TimeInv, NEW t \in Threads, ThreadStep(t),
         NEW f \in Fids, Parked(f)'
  PROVE  Spent(f, ctx[f], 0)'
  <1>0. /\ TypeOK /\ LocalsOK /\ EntersKnown /\ SavedFirst
        /\ ThreadTime(t) /\ (Parked(f) => Spent(f, ctx[f], 0))
    BY DEF IInv, FlowInv, TimeInv
  <1>1. CASE Parked(f)
    <2>1. f <= fidCount /\ ~Leaving(t, f)
      BY <1>0, <1>1, Holders DEF GivenOut, Parked
    <2>2. total'[f] = total[f] /\ ctx'[f] = ctx[f]
      BY <1>0, <1>1, <2>1, ClockStep, ContextKept
    <2> QED
      BY <1>0, <1>1, <2>2 DEF Spent
  <1>2. CASE ~Parked(f) /\ CreateContext(t)
    <2>1. /\ newf[t] \in Fids /\ pc[t] = "cr_ctx" /\ known' = known \cup {newf[t]}
          /\ UNCHANGED <<flock, total>> /\ pc'[t] = "user"
          /\ ctx' = [ctx EXCEPT ![newf[t]] = [flow |-> newf[t], at |-> 0]]
      BY <1>0, <1>2 DEF CreateContext, LocalsOK, HasNewf, Return, TypeOK, lock_vars, info_vars
    <2>2. \A u \in Threads \ {t} : pc'[u] = pc[u] /\ newf'[u] = newf[u]
      BY <1>0, OthersStay
    <2>3. f = newf[t]
      BY <1>2, <2>1, <2>2 DEF Parked
    <2>4. ctx'[f] = [flow |-> f, at |-> 0] /\ total'[f] = 0
      BY <1>0, <2>1, <2>3 DEF TypeOK, ThreadTime, Making
    <2> QED
      BY <2>4 DEF Spent
  <1>3. CASE ~Parked(f) /\ SwitchUnlock(t)
    <2>1. f = oldf[t]
      BY <1>0, <1>3, UnlockPlaces
    <2>2. pc[t] = "sw_unlock" /\ UNCHANGED <<ctx, total>>
      BY <1>3 DEF SwitchUnlock, Goto, info_vars
    <2> QED
      BY <1>0, <2>1, <2>2 DEF ThreadTime, SavedFirst, Spent
  <1> QED
    BY <1>0, <1>1, <1>2, <1>3, ParksNone

(* total_running_time of every fiber that is not running is the time its   *)
(* flow has run, as long as no two calls of hash_add_rcu overlap in a      *)
(* bucket and callers name only fids they were given; deaths and shared    *)
(* buckets do not matter.                                                  *)
THEOREM TimeAccountedHolds ==
  ASSUME ~AnyFid
  PROVE  Spec /\ []NoOverlap => []TimeAccounted
  <1>1. Init => TimeInv
    BY DEF Init, TimeInv, ThreadTime, Parked, Making, Entering, HasOldf
  <1>2. IInv /\ GivenOut /\ FlowInv /\ OneRecord /\ TimeInv /\ [Next]_vars => TimeInv'
    <2> SUFFICES ASSUME IInv, GivenOut, FlowInv, OneRecord, TimeInv, [Next]_vars
                 PROVE  TimeInv'
      OBVIOUS
    <2>1. CASE UNCHANGED vars
      BY <2>1 DEF TimeInv, ThreadTime, Parked, Spent, At, OwnRec,
         vars, group_vars, fiber_vars, lock_vars, info_vars, local_vars, cpu_vars
    <2>2. ASSUME NEW t \in Threads, ThreadStep(t) PROVE TimeInv'
      <3>1. \A u \in Threads : ThreadTime(u)'
        BY <2>2, OwnTime, OthersTime DEF TimeInv, FlowInv
      <3>2. \A f \in Fids : Parked(f)' => Spent(f, ctx[f], 0)'
        BY <2>2, ParkedTime
      <3> QED
        BY <3>1, <3>2 DEF TimeInv
    <2> QED
      BY <2>1, <2>2 DEF Next, Idle, ThreadStep
  <1>3. IInv /\ TimeInv => TimeAccounted
    <2> SUFFICES ASSUME TypeOK, TimeInv, NEW f \in known, ~flock[f]
                 PROVE  /\ ctx[f].flow = f => total[f] = ctx[f].at
                        /\ ctx[f].flow # f => total[f] \in 0 .. ctx[f].at
      BY DEF IInv, TimeAccounted
    <2>1. f \in Fids /\ total[f] \in Int /\ total[f] + 0 = total[f]
      BY DEF TypeOK
    <2>2. Spent(f, ctx[f], 0)
      BY <2>1 DEF TimeInv, Parked
    <2> QED
      BY <2>1, <2>2 DEF Spent
  <1> QED
    BY <1>1, <1>2, <1>3, IInvHolds, GivenOutHolds, FlowHolds, OneRecordHolds, PTL DEF Spec
-----------------------------------------------------------------------------
(* Fiber local storage: the invariant of the storage calls                 *)

FlsTypes ==
  /\ bmp \in [Fids -> SUBSET Slots]
  /\ fls \in [Threads -> [at : {"none", "test", "do"}, op : Ops,
                          fib : Fids \cup {NO_FIBERS}, idx : Int, val : Int]]
  /\ \A t \in Threads :
       fls[t].at = "do" \/ (fls[t].at = "test" /\ fls[t].op # "alloc") => fls[t].idx \in Slots

(* A thread in a storage call is in no other call, and the fiber it works  *)
(* on is the one it runs.                                                  *)
OwnFiber ==
  \A t \in Threads :
    fls[t].at # "none" =>
      /\ pc[t] = "user"
      /\ fls[t].fib \in Fids
      /\ \E r \in Recs : r[1] = t /\ curFid[r] = fls[t].fib

FlsInv == IInv /\ FlsTypes /\ OwnFiber /\ TestStillHolds

-----------------------------------------------------------------------------
(* Every step of the scheduler that thread t may take.                     *)
Enters(t) ==
  \/ ConvertGroup(t) \/ CreateFind(t) \/ (\E f \in Fids : SwitchFind(t, f))
  \/ Kernel(t) \/ Idle(t)

(* A step of thread t in the scheduler moves no other thread and leaves    *)
(* the other threads' current_fid alone.                                   *)
LEMMA OthersUntouched ==
  ASSUME IInv, NEW t \in Threads, Enters(t)
  PROVE  /\ \A u \in Threads \ {t} : pc'[u] = pc[u]
         /\ \A r \in Recs : r[1] # t => curFid'[r] = curFid[r]
  <1> USE DEF IInv, TypeOK, group_vars, fiber_vars, lock_vars, info_vars, local_vars,
              cpu_vars, Goto
  <1>1. CASE ConvertGroup(t)
    BY <1>1 DEF ConvertGroup
  <1>2. CASE CreateFind(t)
    BY <1>2 DEF CreateFind, Return
  <1>3. CASE \E f \in Fids : SwitchFind(t, f)
    BY <1>3 DEF SwitchFind, Return
  <1>4. CASE ConvertFind(t)
    BY <1>4 DEF ConvertFind, Return
  <1>5. CASE GenerateThread(t)
    BY <1>5 DEF GenerateThread, Recs
  <1>6. CASE AddThread(t)
    BY <1>6 DEF AddThread
  <1>7. CASE ConvertLock(t)
    BY <1>7 DEF ConvertLock, Return
  <1>8. CASE ConvertActivate(t)
    <2>1. rec[t] \in Recs /\ rec[t][1] = t
      BY <1>8 DEF ConvertActivate, LocalsOK, HasRec
    <2> QED
      BY <1>8, <2>1 DEF ConvertActivate, Activate, Return
  <1>9. ASSUME NEW from, NEW to, GenerateFiber(t, from, to)
        PROVE  pc' = [pc EXCEPT ![t] = to] /\ curFid' = curFid
    BY <1>9 DEF GenerateFiber
  <1>10. ASSUME NEW from, NEW to, ReadFirst(t, from, to)
         PROVE  pc' = [pc EXCEPT ![t] = to] /\ curFid' = curFid
    BY <1>10 DEF ReadFirst
  <1>11. ASSUME NEW from, NEW to, AddFiber(t, from, to)
         PROVE  pc' = [pc EXCEPT ![t] = to] /\ curFid' = curFid
    BY <1>11 DEF AddFiber
  <1>12. CASE CreateContext(t)
    BY <1>12 DEF CreateContext, Return
  <1>13. CASE SwitchLock(t)
    BY <1>13 DEF SwitchLock, Return
  <1>14. CASE SwitchActivate(t)
    <2>1. rec[t] \in Recs /\ rec[t][1] = t
      BY <1>14 DEF SwitchActivate, LocalsOK, HasRec
    <2> QED
      BY <1>14, <2>1 DEF SwitchActivate, Activate, Return
  <1>15. CASE SwitchSave(t)
    BY <1>15 DEF SwitchSave
  <1>16. CASE SwitchClear(t)
    BY <1>16 DEF SwitchClear
  <1>17. CASE SwitchUnlock(t)
    BY <1>17 DEF SwitchUnlock
  <1>18. CASE SwitchLoad(t)
    BY <1>18 DEF SwitchLoad, Return
  <1>19. CASE Idle(t)
    BY <1>19 DEF Idle, vars
  <1> QED
    BY <1>1, <1>2, <1>3, <1>4, <1>5, <1>6, <1>7, <1>8, <1>9, <1>10, <1>11, <1>12,
       <1>13, <1>14, <1>15, <1>16, <1>17, <1>18, <1>19
       DEF Enters, Kernel, Convert, Create, Switch

(* The fid a step draws is the next one.                                   *)
LEMMA DrawnFid ==
  ASSUME TypeOK, NEW t \in Threads, Schedule(t),
         pc[t] \in {"cv_new", "cr_new"}, newf'[t] # newf[t]
  PROVE  newf'[t] = fidCount + 1
  <1>1. PICK from, to : GenerateFiber(t, from, to)
    BY DEF Schedule, ConvertGroup, CreateFind, SwitchFind, Idle, vars, local_vars, Kernel, Convert,
       Create, Switch, ConvertFind, GenerateThread, AddThread, ReadFirst, AddFiber, ConvertLock,
       ConvertActivate, CreateContext, SwitchLock, SwitchActivate, SwitchSave, SwitchClear,
       SwitchUnlock, SwitchLoad, Goto
  <1> QED
    BY <1>1 DEF GenerateFiber, TypeOK

(* PREPARE_FLS only clears the storage of a fiber that nobody runs yet.    *)
LEMMA OthersStorage ==
  ASSUME FlsInv, NEW t \in Threads, Schedule(t)
  PROVE  /\ bmp' \in [Fids -> SUBSET Slots]
         /\ \A f \in Fids : f <= fidCount => bmp'[f] = bmp[f]
  <1> USE DEF FlsInv, FlsTypes, Schedule, PrepareFls
  <1>1. ASSUME pc[t] \in {"cv_new", "cr_new"}, newf'[t] # newf[t]
        PROVE  newf'[t] = fidCount + 1
    BY <1>1, DrawnFid DEF IInv
  <1>2. fidCount \in Int /\ \A f \in Fids : f \in Int
    BY ConstantsAssumption DEF IInv, TypeOK, Fids
  <1> QED
    BY <1>1, <1>2

-----------------------------------------------------------------------------
(* A call's fiber stays its own, and what it tested stays true, while      *)
(* another thread takes a step of the scheduler.                           *)
LEMMA ScheduleStep ==
  ASSUME FlsInv, NEW t \in Threads, Schedule(t)
  PROVE  FlsInv'
  <1> USE DEF FlsInv
  <1>1. Enters(t) /\ fls[t].at = "none" /\ fls' = fls
    BY DEF Schedule, Enters
  <1>2. IInv'
    <2>1. Next
      BY <1>1 DEF Enters, Next
    <2> QED
      BY <2>1, IInvInductive
  <1>3. FlsTypes'
    BY <1>1, OthersStorage DEF FlsTypes
  <1>4. OwnFiber'
    <2> SUFFICES ASSUME NEW u \in Threads, fls[u].at # "none"
                 PROVE  /\ pc'[u] = "user"
                        /\ fls[u].fib \in Fids
                        /\ \E r \in Recs : r[1] = u /\ curFid'[r] = fls[u].fib
      BY <1>1 DEF OwnFiber
    <2>1. PICK r \in Recs : r[1] = u /\ curFid[r] = fls[u].fib
      BY DEF OwnFiber
    <2> QED
      BY <1>1, <2>1, OthersUntouched DEF OwnFiber
  <1>5. TestStillHolds'
    <2> SUFFICES ASSUME NEW u \in Threads, fls[u].at = "do"
                 PROVE  bmp'[fls[u].fib] = bmp[fls[u].fib]
      BY <1>1 DEF TestStillHolds
    <2>1. fls[u].fib \in Fids /\ fls[u].fib <= fidCount
      BY DEF OwnFiber, IInv, FreshOK
    <2> QED
      BY <2>1, OthersStorage
  <1> QED
    BY <1>2, <1>3, <1>4, <1>5

(* Two threads in storage calls work on different fibers.                  *)
LEMMA DistinctFibers ==
  ASSUME FlsInv, NEW t \in Threads, NEW u \in Threads,
         fls[t].at # "none", fls[u].at # "none", fls[t].fib = fls[u].fib
  PROVE  t = u
  <1> USE DEF FlsInv
  <1>1. PICK r \in Recs : r[1] = t /\ curFid[r] = fls[t].fib
    BY DEF OwnFiber
  <1>2. PICK q \in Recs : q[1] = u /\ curFid[q] = fls[u].fib
    BY DEF OwnFiber
  <1>3. r = q
    BY <1>1, <1>2 DEF OwnFiber, IInv, MutualExclusion, Active
  <1> QED
    BY <1>1, <1>2, <1>3

(* A step of a storage call leaves the calls of the other threads alone.   *)
LEMMA StorageStep ==
  ASSUME FlsInv, NEW t \in Threads, Fls(t)
  PROVE  FlsInv'
  <1> USE DEF FlsInv
  <1>1. IInv' /\ UNCHANGED vars
    <2>1. UNCHANGED vars
      BY DEF Fls, FlsTest, FlsFirstZero, FlsChange, FlsRead, FlsWrite
    <2> QED
      BY <2>1, IInvInductive
  <1>2. NoCall \in [at : {"none", "test", "do"}, op : Ops,
                    fib : Fids \cup {NO_FIBERS}, idx : Int, val : Int]
    BY DEF NoCall, Ops
  <1>3. FlsTypes'
    <2> USE <1>2 DEF FlsTypes, FlsFail, FlsReturn
    <2>1. CASE FlsTest(t)
      BY <2>1 DEF FlsTest, NoCall
    <2>2. CASE FlsFirstZero(t)
      BY <2>2, FlsAssumption DEF FlsFirstZero, NoCall, Slots
    <2>3. CASE FlsChange(t)
      BY <2>3 DEF FlsChange, ChangeBit, NoCall
    <2>4. CASE FlsRead(t)
      BY <2>4 DEF FlsRead, NoCall
    <2>5. CASE FlsWrite(t)
      BY <2>5 DEF FlsWrite, NoCall
    <2> QED
      BY <2>1, <2>2, <2>3, <2>4, <2>5 DEF Fls
  <1>4. \A u \in Threads : fls'[u].at # "none" =>
           fls[u].at # "none" /\ fls'[u].fib = fls[u].fib /\ fls'[u].op = fls[u].op
    BY DEF Fls, FlsTest, FlsFirstZero, FlsChange, FlsRead, FlsWrite, FlsFail, FlsReturn, NoCall,
           FlsTypes
  <1>5. OwnFiber'
    BY <1>1, <1>4 DEF OwnFiber, vars
  <1>6. TestStillHolds'
    <2> SUFFICES ASSUME NEW u \in Threads, fls'[u].at = "do"
                 PROVE  (fls'[u].idx \in bmp'[fls'[u].fib]) = (fls'[u].op # "alloc")
      BY DEF TestStillHolds
    <2> USE DEF FlsTypes, FlsFail, FlsReturn
    <2>1. CASE FlsTest(t)
      BY <2>1 DEF FlsTest, NoCall, TestStillHolds
    <2>2. CASE FlsFirstZero(t)
      BY <2>2 DEF FlsFirstZero, NoCall, TestStillHolds
    <2>3. CASE FlsChange(t)
      <3>1. u # t /\ fls'[u] = fls[u] /\ fls[t].at # "none"
        BY <2>3 DEF FlsChange, NoCall
      <3>2. fls[u].fib # fls[t].fib
        BY <3>1, DistinctFibers
      <3>3. bmp'[fls[u].fib] = bmp[fls[u].fib]
        BY <2>3, <3>1, <3>2 DEF FlsChange, ChangeBit, OwnFiber
      <3> QED
        BY <3>1, <3>3 DEF TestStillHolds
    <2>4. CASE FlsRead(t)
      BY <2>4 DEF FlsRead, NoCall, TestStillHolds
    <2>5. CASE FlsWrite(t)
      BY <2>5 DEF FlsWrite, NoCall, TestStillHolds
    <2> QED
      BY <2>1, <2>2, <2>3, <2>4, <2>5 DEF Fls
  <1> QED
    BY <1>1, <1>3, <1>5, <1>6

(* A call starts on the fiber its caller runs.                             *)
LEMMA FindStep ==
  ASSUME FlsInv, NEW t \in Threads, NEW op \in Ops, NEW i \in Int, NEW v \in Int,
         FlsFind(t, op, i, v)
  PROVE  FlsInv'
  <1> USE DEF FlsInv
  <1>1. UNCHANGED vars /\ bmp' = bmp
    BY DEF FlsFind
  <1>2. IInv'
    BY <1>1, IInvInductive
  <1>3. CASE fls' = [fls EXCEPT ![t] = NoCall]
    <2>1. FlsTypes'
      BY <1>1, <1>3 DEF FlsTypes, NoCall, Ops
    <2>2. OwnFiber'
      BY <1>1, <1>3 DEF OwnFiber, vars, FlsTypes, NoCall
    <2>3. TestStillHolds'
      BY <1>1, <1>3 DEF TestStillHolds, FlsTypes, NoCall
    <2> QED
      BY <1>2, <2>1, <2>2, <2>3
  <1>4. ASSUME NEW r \in get_thread(t), get_fiber(curFid[r]),
               fls' = [fls EXCEPT ![t] = [at |-> "test", op |-> op, fib |-> curFid[r],
                                          idx |-> i, val |-> v]],
               op # "alloc" => i \in Slots
        PROVE  FlsInv'
    <2>1. r \in Recs /\ r[1] = t /\ curFid[r] \in Fids
      BY <1>4, GetThread DEF IInv, TypeOK, get_fiber
    <2>2. FlsTypes'
      BY <1>1, <1>4, <2>1 DEF FlsTypes
    <2>3. OwnFiber'
      BY <1>1, <1>4, <2>1 DEF OwnFiber, vars, FlsTypes, FlsFind
    <2>4. TestStillHolds'
      BY <1>1, <1>4 DEF TestStillHolds, FlsTypes
    <2> QED
      BY <1>2, <2>2, <2>3, <2>4
  <1> QED
    BY <1>3, <1>4 DEF FlsFind, FlsFail, FlsReturn

-----------------------------------------------------------------------------
(* The invariant of the storage is inductive: the scheduler's own          *)
(* invariant, which says that two threads never run one fiber, carries     *)
(* what a call tested over the steps of everybody else.                    *)
THEOREM FlsInvInductive == FlsInv /\ [FlsNext]_<<vars, fls_vars>> => FlsInv'
  <1> SUFFICES ASSUME FlsInv, [FlsNext]_<<vars, fls_vars>> PROVE FlsInv'
    OBVIOUS
  <1>1. ASSUME NEW t \in Threads, FlsFind(t, "alloc", 0, 0) PROVE FlsInv'
    BY <1>1, FindStep DEF Ops
  <1>2. ASSUME NEW t \in Threads, NEW i \in -1 .. FLS_MAX_SIZE, NEW op \in {"get", "free"},
               FlsFind(t, op, i, 0)
        PROVE  FlsInv'
    BY <1>2, FindStep, FlsAssumption DEF Ops
  <1>3. ASSUME NEW t \in Threads, NEW i \in -1 .. FLS_MAX_SIZE, NEW v \in Values,
               FlsFind(t, "set", i, v)
        PROVE  FlsInv'
    BY <1>3, FindStep, FlsAssumption DEF Ops
  <1>4. CASE UNCHANGED <<vars, fls_vars>>
    <2>1. IInv'
      BY <1>4, IInvInductive DEF FlsInv
    <2>2. FlsTypes' /\ OwnFiber' /\ TestStillHolds'
      BY <1>4 DEF FlsInv, FlsTypes, OwnFiber, TestStillHolds, vars, fls_vars
    <2> QED
      BY <2>1, <2>2 DEF FlsInv
  <1> QED
    BY <1>1, <1>2, <1>3, <1>4, ScheduleStep, StorageStep DEF FlsNext

(* Before the first call no bit is set and nobody is in a call.            *)
LEMMA InitFlsInv == FlsInit => FlsInv
  <1> SUFFICES ASSUME FlsInit PROVE FlsInv
    OBVIOUS
  <1>1. IInv
    BY InitIInv DEF FlsInit
  <1>2. FlsTypes /\ OwnFiber /\ TestStillHolds
    BY DEF FlsInit, FlsTypes, OwnFiber, TestStillHolds, NoCall, Ops
  <1> QED
    BY <1>1, <1>2 DEF FlsInv

(* What a storage call tested is still so when it acts: change_bit never   *)
(* flips a bit the wrong way and no slot is used that was freed meanwhile, *)
(* for any threads, fids, hash functions, slots and values, although the   *)
(* do_fls_* functions take no lock.                                        *)
THEOREM TestStillHoldsAlways == FlsSpec => []TestStillHolds
  <1>1. FlsInv => TestStillHolds
    BY DEF FlsInv
  <1> QED
    BY <1>1, InitFlsInv, FlsInvInductive, PTL DEF FlsSpec

(* Adding storage calls does not disturb the scheduler: it keeps the       *)
(* exclusive use of fibers while the threads allocate, read and write.     *)
THEOREM ExclusionWithStorage == FlsSpec => [](MutualExclusion /\ StateNamesRunner)
  <1>1. FlsInv => MutualExclusion /\ StateNamesRunner
    BY DEF FlsInv, IInv
  <1> QED
    BY <1>1, InitFlsInv, FlsInvInductive, PTL DEF FlsSpec

-----------------------------------------------------------------------------
(* Storage calls leave the scheduler's variables alone.                    *)
THEOREM StorageKeepsKernel == FlsSpec => Spec
  <1>1. [FlsNext]_<<vars, fls_vars>> => [Next]_vars
    <2> SUFFICES ASSUME [FlsNext]_<<vars, fls_vars>> PROVE [Next]_vars
      OBVIOUS
    <2>1. ASSUME NEW t \in Threads, Schedule(t) PROVE Next
      BY <2>1 DEF Schedule, Next
    <2>2. ASSUME NEW t \in Threads, Fls(t) PROVE UNCHANGED vars
      BY <2>2 DEF Fls, FlsTest, FlsFirstZero, FlsChange, FlsRead, FlsWrite
    <2>3. ASSUME NEW t \in Threads, NEW op, NEW i, NEW v, FlsFind(t, op, i, v)
          PROVE  UNCHANGED vars
      BY <2>3 DEF FlsFind
    <2>4. CASE UNCHANGED <<vars, fls_vars>>
      BY <2>4
    <2> QED
      BY <2>1, <2>2, <2>3, <2>4 DEF FlsNext
  <1>2. FlsInit => Init
    BY DEF FlsInit
  <1> QED
    BY <1>1, <1>2, PTL DEF FlsSpec, Spec

-----------------------------------------------------------------------------
(* Fiber local storage: the fiber of every flow of control                 *)

(* The fiber whose storage the flow of t has: the one it leaves, until it  *)
(* is released, or its record's current_fid.                               *)
OwnHome(t) == IF pc[t] \in HasOldf THEN oldf[t]
              ELSE IF nrec[t] = 0 THEN NO_FIBERS ELSE curFid[OwnRec(t)]

(* The fiber of a flow is where the thread or the context it is in says.   *)
HomePlace ==
  /\ \A t \in Threads : home[At(t).flow] = OwnHome(t)
  /\ \A f \in Fids : Parked(f) => home[ctx[f].flow] = f

(* Every flow has at most one fiber, which was given out, and no other     *)
(* flow has it; a flow that does not exist has none.                       *)
HomeOwn ==
  /\ home \in [Flows -> Fids \cup {NO_FIBERS}]
  /\ \A s \in Flows : home[s] # NO_FIBERS => home[s] \in known
  /\ \A s, p \in Flows : home[s] = home[p] /\ home[s] # NO_FIBERS => s = p
  /\ \A f \in Fids : home[f] # NO_FIBERS => f \in born

(* A fiber that is not given out has empty storage.                        *)
Untouched ==
  /\ data \in [Fids -> [Slots -> Int]]
  /\ \A f \in Fids \ known : bmp[f] = {} /\ data[f] = [i \in Slots |-> 0]

(* The group exists before anyone is converted.                            *)
GroupFirst == \A t \in Threads : pc[t] # "user" \/ nrec[t] # 0 => group

(* The arguments of a call in progress: what is stored is a value, and the *)
(* slot an allocation found is still the lowest free one.                  *)
CallOK ==
  \A t \in Threads :
    /\ fls[t].at # "none" /\ fls[t].op = "set" => fls[t].val \in Values
    /\ fls[t].at = "do" /\ fls[t].op = "alloc" =>
         \A j \in Slots \ bmp[fls[t].fib] : fls[t].idx <= j

HomeInv == HomePlace /\ HomeOwn /\ Untouched /\ GroupFirst /\ CallOK

(* What the slots of the flows are about, besides the scheduler's own      *)
(* invariants.                                                             *)
Based == FlsInv /\ GivenOut /\ FlowInv /\ OneRecord

(* A thread's own fiber changes only when it is converted and when it      *)
(* releases the one it leaves.                                             *)
LEMMA OwnHomeStep ==
  ASSUME Based, NEW t \in Threads, Enters(t), ThreadStep(t)
  PROVE  /\ \A u \in Threads \ {t} : OwnHome(u)' = OwnHome(u)
         /\ ~ConvertActivate(t) /\ ~SwitchUnlock(t) => OwnHome(t)' = OwnHome(t)
  <1>0. IInv /\ TypeOK /\ LocalsOK /\ OneRecord /\ EntersKnown
    BY DEF Based, FlsInv, IInv, FlowInv
  <1>S. \A u \in Threads \ {t} : pc'[u] = pc[u] /\ oldf'[u] = oldf[u]
    BY <1>0, OthersStay
  <1>N. \A u \in Threads : nrec[u] # 0 => nrec[u] = 1 /\ OwnRec(u) \in Recs /\ OwnRec(u)[1] = u
    <2> SUFFICES ASSUME NEW u \in Threads, nrec[u] # 0
                 PROVE  nrec[u] = 1 /\ OwnRec(u) \in Recs /\ OwnRec(u)[1] = u
      OBVIOUS
    <2>1. nrec[u] <= 1
      BY <1>0 DEF OneRecord
    <2>2. nrec[u] = 1
      BY <1>0, <2>1 DEF TypeOK
    <2> QED
      BY <1>0, <2>2, OwnIsRec
  <1> USE DEF Goto, Return, group_vars, fiber_vars, lock_vars, info_vars, local_vars, cpu_vars
  <1>1. \A u \in Threads \ {t} : nrec'[u] = nrec[u]
    BY <1>0
    DEF ThreadStep, Kernel, Convert, Create, Switch, ConvertGroup, CreateFind, SwitchFind,
        ConvertFind, GenerateThread, AddThread, ReadFirst, AddFiber, ConvertLock, GenerateFiber,
        ConvertActivate, SwitchLock, SwitchActivate, SwitchClear, SwitchUnlock, SwitchLoad,
        SwitchSave, CreateContext, Run, Exit, KmallocFails, TypeOK
  <1>2. \A u \in Threads \ {t} : OwnHome(u)' = OwnHome(u)
    <2> SUFFICES ASSUME NEW u \in Threads \ {t} PROVE OwnHome(u)' = OwnHome(u)
      OBVIOUS
    <2>1. nrec[u] # 0 => curFid'[OwnRec(u)] = curFid[OwnRec(u)]
      BY <1>0, <1>N, OthersUntouched
    <2> QED
      BY <1>1, <1>S, <2>1 DEF OwnHome, OwnRec
  <1>3. CASE /\ UNCHANGED <<nrec, curFid>>
             /\ pc[t] \notin HasOldf /\ pc'[t] \notin HasOldf
    BY <1>2, <1>3 DEF OwnHome, OwnRec
  <1>4. CASE pc[t] \in HasOldf /\ pc'[t] \in HasOldf /\ UNCHANGED oldf
    BY <1>2, <1>4 DEF OwnHome
  <1>5. CASE SwitchActivate(t)
    <2>1. rec[t] = OwnRec(t) /\ nrec[t] = 1 /\ pc[t] = "sw_old"
      BY <1>0, <1>5, RecIsOwn DEF SwitchActivate, HasRec
    <2>2. CASE get_fiber(curFid[rec[t]])
      <3>1. pc'[t] = "sw_save" /\ oldf'[t] = curFid[rec[t]]
        BY <1>0, <1>5, <2>2 DEF SwitchActivate, TypeOK
      <3> QED
        BY <1>2, <2>1, <3>1 DEF OwnHome, HasOldf
    <2>3. CASE ~get_fiber(curFid[rec[t]])
      <3>1. pc'[t] = "user" /\ UNCHANGED <<nrec, curFid>>
        BY <1>0, <1>5, <2>3 DEF SwitchActivate, TypeOK
      <3> QED
        BY <1>3, <2>1, <3>1 DEF HasOldf
    <2> QED
      BY <2>2, <2>3
  <1>6. CASE GenerateThread(t)
    <2>0. nrec[t] = 0
      BY <1>0, <1>6 DEF GenerateThread, OneRecord
    <2>1. nrec[t] = 0 /\ nrec'[t] = 1 /\ pc[t] = "cv_snapt" /\ pc'[t] = "cv_addt"
      BY <1>0, <1>6, <2>0 DEF GenerateThread, TypeOK
    <2>2. OwnRec(t) \in Recs
      BY <1>0, <2>1, ConstantsAssumption DEF LocalsOK, Recs, OwnRec
    <2>3. curFid'[OwnRec(t)] = NO_FIBERS
      BY <1>0, <1>6, <2>1, <2>2 DEF GenerateThread, TypeOK, OwnRec
    <2> QED
      BY <1>2, <2>1, <2>3 DEF OwnHome, HasOldf, OwnRec
  <1> USE DEF TypeOK, HasOldf
  <1>7. CASE ConvertGroup(t) \/ CreateFind(t) \/ (\E f \in Fids : SwitchFind(t, f))
    BY <1>0, <1>3, <1>7 DEF ConvertGroup, CreateFind, SwitchFind
  <1>8. CASE ConvertFind(t) \/ AddThread(t) \/ ConvertLock(t)
    BY <1>0, <1>3, <1>8 DEF ConvertFind, AddThread, ConvertLock
  <1>9. CASE \/ GenerateFiber(t, "cv_new", "cv_snapf") \/ GenerateFiber(t, "cr_new", "cr_snapf")
             \/ ReadFirst(t, "cv_snapf", "cv_addf") \/ ReadFirst(t, "cr_snapf", "cr_addf")
             \/ AddFiber(t, "cv_addf", "cv_lock") \/ AddFiber(t, "cr_addf", "cr_ctx")
    BY <1>0, <1>3, <1>9 DEF GenerateFiber, ReadFirst, AddFiber
  <1>10. CASE CreateContext(t) \/ SwitchLock(t) \/ SwitchLoad(t)
    BY <1>0, <1>3, <1>10 DEF CreateContext, SwitchLock, SwitchLoad
  <1>11. CASE SwitchSave(t) \/ SwitchClear(t)
    BY <1>0, <1>4, <1>11 DEF SwitchSave, SwitchClear
  <1>12. CASE Idle(t)
    BY <1>3, <1>12 DEF Idle, vars
  <1> QED
    BY <1>2, <1>5, <1>6, <1>7, <1>8, <1>9, <1>10, <1>11, <1>12
    DEF Enters, Kernel, Convert, Create, Switch

(* What a step of the scheduler records: only a conversion and a creation  *)
(* give a flow its fiber, and only a fiber not given out is emptied.       *)
LEMMA RecordStorage ==
  ASSUME Based, Untouched, NEW t \in Threads, Schedule(t)
  PROVE  /\ ~ConvertActivate(t) /\ ~CreateContext(t) => UNCHANGED <<known, born, home>>
         /\ CreateContext(t) => home' = [home EXCEPT ![newf[t]] = newf[t]]
         /\ ConvertActivate(t) => home' = [home EXCEPT ![regs[t].flow] = newf[t]]
         /\ \A f \in known : bmp'[f] = bmp[f] /\ data'[f] = data[f]
         /\ bmp' \in [Fids -> SUBSET Slots]
         /\ data' \in [Fids -> [Slots -> Int]]
         /\ \A f \in Fids \ known : bmp'[f] = {} /\ data'[f] = [i \in Slots |-> 0]
  <1>0. FlsInv /\ TypeOK /\ LocalsOK /\ GivenOut
    BY DEF Based, FlsInv, IInv
  <1>1. ~ConvertActivate(t) /\ ~CreateContext(t) => UNCHANGED <<known, born>>
    BY DEF Schedule, Idle, vars, Kernel, Convert, Create, Switch, ConvertGroup, CreateFind,
       SwitchFind, ConvertFind, GenerateThread, AddThread, GenerateFiber, ReadFirst, AddFiber,
       ConvertLock, SwitchLock, SwitchActivate, SwitchSave, SwitchClear, SwitchUnlock, SwitchLoad
  <1>2. ASSUME CreateContext(t) PROVE known' # known /\ pc[t] = "cr_ctx"
    BY <1>0, <1>2 DEF CreateContext, GivenOut, Making
  <1>3. ASSUME ConvertActivate(t) PROVE known' # known /\ pc[t] = "cv_act"
    BY <1>0, <1>3 DEF ConvertActivate, GivenOut, Making
  <1>4. RecordHome(t) /\ PrepareFls(t)
    BY DEF Schedule
  <1>5. bmp' \in [Fids -> SUBSET Slots] /\ \A f \in Fids : f <= fidCount => bmp'[f] = bmp[f]
    BY <1>0, OthersStorage
  <1>6. \A f \in Fids : f <= fidCount => data'[f] = data[f]
    <2> DEFINE new == IF pc[t] \in {"cv_new", "cr_new"} /\ newf'[t] # newf[t]
                        THEN {newf'[t]} ELSE {}
    <2>1. \A f \in new : f = fidCount + 1
      BY <1>0, DrawnFid
    <2>2. fidCount \in Int /\ \A f \in Fids : f \in Int
      BY <1>0, ConstantsAssumption DEF TypeOK, Fids
    <2> QED
      BY <1>4, <2>1, <2>2 DEF PrepareFls
  <1>7. \A f \in known : f \in Fids /\ f <= fidCount
    BY <1>0 DEF TypeOK, GivenOut
  <1>8. /\ data' \in [Fids -> [Slots -> Int]]
        /\ \A f \in Fids \ known : bmp'[f] = {} /\ data'[f] = [i \in Slots |-> 0]
    BY <1>4 DEF PrepareFls, Untouched
  <1> QED
    BY <1>1, <1>2, <1>3, <1>4, <1>5, <1>6, <1>7, <1>8 DEF RecordHome

(* Every step of the scheduler keeps the fiber of every flow where the     *)
(* thread or the context that holds the flow says it is.                   *)
LEMMA HomePlaceStep ==
  ASSUME ~AnyFid, Based, HomeInv, NEW t \in Threads, Schedule(t), ThreadStep(t)
  PROVE  HomePlace'
  <1>0. /\ IInv /\ TypeOK /\ LocalsOK /\ MutualExclusion /\ GivenOut /\ OneRecord
        /\ EntersKnown /\ SavedFirst /\ OnePlace /\ Latest
        /\ HomePlace /\ HomeOwn /\ Untouched
    BY DEF Based, FlsInv, IInv, FlowInv, HomeInv
  <1>1. Enters(t) /\ pc[t] # "dead"
    BY DEF Schedule, Enters, Idle, Kernel, Convert, Create, Switch, ConvertGroup, CreateFind,
       SwitchFind, ConvertFind, GenerateThread, AddThread, GenerateFiber, ReadFirst, AddFiber,
       ConvertLock, ConvertActivate, CreateContext, SwitchLock, SwitchActivate, SwitchSave,
       SwitchClear, SwitchUnlock, SwitchLoad, Goto
  <1>2. /\ \A u \in Threads \ {t} : OwnHome(u)' = OwnHome(u)
        /\ ~ConvertActivate(t) /\ ~SwitchUnlock(t) => OwnHome(t)' = OwnHome(t)
    BY <1>1, OwnHomeStep
  <1>3. \A f \in Fids : Parked(f) => ctx'[f] = ctx[f]
    BY <1>0, ContextKept
  <1>4. CASE SwitchUnlock(t)
    <2>1. /\ UNCHANGED <<ctx, known, newf>>
          /\ newf[t] \in Fids /\ oldf[t] \in Fids /\ Parked(newf[t])
          /\ At(t) = ctx[oldf[t]] /\ At(t)' = ctx[newf[t]]
          /\ \A u \in Threads \ {t} : At(u)' = At(u)
          /\ \A f \in Fids \ {oldf[t]} : Parked(f)' => Parked(f)
      BY <1>0, <1>4, UnlockPlaces
    <2>2. /\ pc[t] = "sw_unlock" /\ pc'[t] = "sw_load" /\ UNCHANGED <<nrec, curFid>>
      BY <1>0, <1>4 DEF SwitchUnlock, Goto, TypeOK, group_vars
    <2>3. home' = home
      BY <1>0, <2>2, RecordStorage DEF ConvertActivate, CreateContext
    <2>4. rec[t] = OwnRec(t) /\ nrec[t] = 1
      BY <1>0, <2>2, RecIsOwn DEF HasRec
    <2>5. OwnHome(t)' = newf[t]
      BY <1>0, <2>2, <2>4 DEF OwnHome, HasOldf, EntersKnown, Entering, OwnRec
    <2>6. OwnHome(t) = oldf[t]
      BY <2>2 DEF OwnHome, HasOldf
    <2>7. home'[At(t)'.flow] = OwnHome(t)'
      BY <1>0, <2>1, <2>3, <2>5 DEF HomePlace
    <2>8. home'[ctx'[oldf[t]].flow] = oldf[t]
      BY <1>0, <2>1, <2>3, <2>6 DEF HomePlace
    <2> QED
      BY <1>0, <1>2, <2>1, <2>3, <2>7, <2>8 DEF HomePlace
  <1>5. CASE ~SwitchUnlock(t)
    <2>1. (pc'[t] # "sw_load" /\ regs'[t] = regs[t] /\ pc[t] # "sw_load") \/ SwitchLoad(t)
      BY <1>0, <1>1, <1>5
      DEF Enters, Idle, vars, Kernel, Convert, Create, Switch, ConvertGroup, CreateFind,
          SwitchFind, ConvertFind, GenerateThread, AddThread, GenerateFiber, ReadFirst, AddFiber,
          ConvertLock, ConvertActivate, CreateContext, SwitchLock, SwitchActivate, SwitchSave,
          SwitchClear, Goto, Return, TypeOK, cpu_vars
    <2>2. \A u \in Threads : At(u)' = At(u)
      BY <1>0, <2>1, StaysAt
    <2>3. CASE ConvertActivate(t)
      <3>1. /\ pc[t] = "cv_act" /\ pc'[t] = "user" /\ newf[t] \in Fids /\ UNCHANGED nrec
            /\ curFid' = [curFid EXCEPT ![rec[t]] = newf[t]]
        BY <1>0, <2>3 DEF ConvertActivate, Activate, Return, LocalsOK, HasNewf, TypeOK, group_vars
      <3>2. rec[t] = OwnRec(t) /\ rec[t] \in Recs /\ nrec[t] = 1
        BY <1>0, <3>1, RecIsOwn DEF HasRec
      <3>3. OwnHome(t)' = newf[t]
        BY <1>0, <3>1, <3>2 DEF OwnHome, HasOldf, TypeOK, OwnRec
      <3>4. /\ home' = [home EXCEPT ![At(t).flow] = newf[t]]
            /\ At(t).flow \in Flows
        BY <1>0, <2>3, <3>1, RecordStorage DEF At, TypeOK, Points
      <3>5. \A u \in Threads \ {t} : home'[At(u)'.flow] = OwnHome(u)'
        BY <1>0, <1>2, <2>2, <3>4 DEF OnePlace, HomePlace
      <3>6. home'[At(t)'.flow] = OwnHome(t)'
        BY <1>0, <2>2, <3>3, <3>4 DEF HomeOwn
      <3>7. \A f \in Fids : Parked(f)' => home'[ctx'[f].flow] = f
        <4> SUFFICES ASSUME NEW f \in Fids, Parked(f)' PROVE home'[ctx'[f].flow] = f
          OBVIOUS
        <4>1. Parked(f)
          BY <1>0, <1>5, <2>3, <3>1, ParksNone DEF CreateContext
        <4> QED
          BY <1>0, <1>3, <3>4, <4>1 DEF OnePlace, HomePlace
      <3> QED
        BY <3>5, <3>6, <3>7 DEF HomePlace
    <2>4. CASE CreateContext(t)
      <3>1. /\ pc[t] = "cr_ctx" /\ pc'[t] = "user" /\ newf[t] \in Fids
            /\ ctx' = [ctx EXCEPT ![newf[t]] = [flow |-> newf[t], at |-> 0]]
            /\ known' = known \cup {newf[t]} /\ UNCHANGED flock
        BY <1>0, <2>4 DEF CreateContext, Return, LocalsOK, HasNewf, TypeOK, lock_vars
      <3>2. home' = [home EXCEPT ![newf[t]] = newf[t]] /\ newf[t] \in Flows
        BY <1>0, <2>4, <3>1, RecordStorage DEF Flows
      <3>3. newf[t] \notin born /\ newf[t] \notin Threads
        BY <1>0, <3>1, ConstantsAssumption DEF GivenOut, Making
      <3>4. OwnHome(t)' = OwnHome(t)
        BY <1>2, <1>5, <2>4, <3>1 DEF ConvertActivate
      <3>5. \A u \in Threads : home'[At(u)'.flow] = OwnHome(u)'
        <4> SUFFICES ASSUME NEW u \in Threads PROVE home'[At(u)'.flow] = OwnHome(u)'
          OBVIOUS
        <4>1. At(u).flow # newf[t] /\ At(u)' = At(u) /\ home[At(u).flow] = OwnHome(u)
          BY <1>0, <2>2, <3>3 DEF Latest, HomePlace
        <4>2. OwnHome(u)' = OwnHome(u)
          BY <1>2, <3>4
        <4> QED
          BY <3>2, <4>1, <4>2
      <3>6. \A f \in Fids \ {newf[t]} : Parked(f)' => Parked(f)
        <4>1. \A u \in Threads \ {t} : pc'[u] = pc[u] /\ newf'[u] = newf[u]
          BY <1>0, OthersStay
        <4> QED
          BY <3>1, <4>1 DEF Parked
      <3>7. \A f \in Fids : Parked(f)' => home'[ctx'[f].flow] = f
        <4> SUFFICES ASSUME NEW f \in Fids, Parked(f)' PROVE home'[ctx'[f].flow] = f
          OBVIOUS
        <4>1. CASE f = newf[t]
          BY <1>0, <3>1, <3>2, <4>1 DEF TypeOK, HomeOwn
        <4>2. CASE f # newf[t]
          <5>1. Parked(f) /\ ctx'[f] = ctx[f]
            BY <1>3, <3>6, <4>2
          <5>2. ctx[f].flow # newf[t] /\ home[ctx[f].flow] = f
            BY <1>0, <3>3, <5>1 DEF Latest, HomePlace
          <5> QED
            BY <3>2, <5>1, <5>2
        <4> QED
          BY <4>1, <4>2
      <3> QED
        BY <3>5, <3>7 DEF HomePlace
    <2>5. CASE ~ConvertActivate(t) /\ ~CreateContext(t)
      <3>1. home' = home
        BY <1>0, <2>5, RecordStorage
      <3>2. \A f \in Fids : Parked(f)' => Parked(f)
        BY <1>0, <1>5, <2>5, ParksNone
      <3>3. \A u \in Threads : OwnHome(u)' = OwnHome(u)
        BY <1>2, <1>5, <2>5
      <3> QED
        BY <1>0, <1>3, <2>2, <3>1, <3>2, <3>3 DEF HomePlace
    <2> QED
      BY <2>3, <2>4, <2>5
  <1> QED
    BY <1>4, <1>5

(* Every step of the scheduler keeps one fiber for every flow and no flow  *)
(* for two fibers.                                                         *)
LEMMA HomeOwnStep ==
  ASSUME Based, HomeInv, NEW t \in Threads, Schedule(t)
  PROVE  HomeOwn'
  <1>0. TypeOK /\ LocalsOK /\ GivenOut /\ HomePlace /\ HomeOwn /\ Untouched /\ OneRecord /\ IInv
    BY DEF Based, FlsInv, IInv, HomeInv
  <1>1. CASE ~ConvertActivate(t) /\ ~CreateContext(t)
    BY <1>0, <1>1, RecordStorage DEF HomeOwn
  <1>2. ASSUME NEW p \in Flows, home[p] = NO_FIBERS, newf[t] \in Fids, newf[t] \notin known,
               home' = [home EXCEPT ![p] = newf[t]], known' = known \cup {newf[t]},
               born \subseteq born', p \in Fids => p \in born'
        PROVE  HomeOwn'
    <2>1. \A s \in Flows : home'[s] = IF s = p THEN newf[t] ELSE home[s]
      BY <1>0, <1>2 DEF HomeOwn
    <2>2. home' \in [Flows -> Fids \cup {NO_FIBERS}]
      BY <1>0, <1>2 DEF HomeOwn
    <2>3. \A s \in Flows : home'[s] # NO_FIBERS => home'[s] \in known'
      BY <1>0, <1>2, <2>1 DEF HomeOwn
    <2>4. \A s, q \in Flows : home'[s] = home'[q] /\ home'[s] # NO_FIBERS => s = q
      BY <1>0, <1>2, <2>1 DEF HomeOwn
    <2>5. \A f \in Fids : home'[f] # NO_FIBERS => f \in born'
      BY <1>0, <1>2, <2>1 DEF HomeOwn, Flows
    <2> QED
      BY <2>2, <2>3, <2>4, <2>5 DEF HomeOwn
  <1>3. CASE ConvertActivate(t)
    <2>1. /\ pc[t] = "cv_act" /\ UNCHANGED born /\ known' = known \cup {newf[t]}
      BY <1>3 DEF ConvertActivate
    <2>2. newf[t] \in Fids /\ newf[t] \notin known /\ regs[t].flow \in Flows
      BY <1>0, <2>1 DEF LocalsOK, HasNewf, GivenOut, Making, TypeOK, Points
    <2>3. curFid[rec[t]] = NO_FIBERS /\ rec[t] = OwnRec(t) /\ nrec[t] = 1
      BY <1>0, <2>1, RecIsOwn DEF LocalsOK, Converting, HasRec
    <2>4. home[regs[t].flow] = NO_FIBERS
      BY <1>0, <2>1, <2>3 DEF HomePlace, OwnHome, HasOldf, At
    <2>5. home' = [home EXCEPT ![regs[t].flow] = newf[t]]
      BY <1>0, <1>3, RecordStorage
    <2>6. regs[t].flow \in Fids => regs[t].flow \in born
      BY <2>1, ConstantsAssumption DEF Based, FlowInv, Latest, At
    <2> QED
      BY <1>2, <2>1, <2>2, <2>4, <2>5, <2>6
  <1>4. CASE CreateContext(t)
    <2>1. /\ pc[t] = "cr_ctx" /\ born' = born \cup {newf[t]} /\ known' = known \cup {newf[t]}
      BY <1>4 DEF CreateContext
    <2>2. newf[t] \in Fids /\ newf[t] \notin known /\ newf[t] \in Flows
      BY <1>0, <2>1 DEF LocalsOK, HasNewf, GivenOut, Making, Flows
    <2>3. home[newf[t]] = NO_FIBERS
      BY <1>0, <2>2 DEF HomeOwn, GivenOut
    <2>4. home' = [home EXCEPT ![newf[t]] = newf[t]]
      BY <1>0, <1>4, RecordStorage
    <2> QED
      BY <1>2, <2>1, <2>2, <2>3, <2>4
  <1> QED
    BY <1>1, <1>3, <1>4

(* The group is there before a thread has a record or is in the module.    *)
LEMMA GroupStep ==
  ASSUME TypeOK, GroupFirst, NEW t \in Threads, Schedule(t)
  PROVE  GroupFirst'
  <1> USE DEF Goto, Return, group_vars, TypeOK
  <1>1. CASE ConvertGroup(t)
    BY <1>1 DEF ConvertGroup, GroupFirst
  <1>2. CASE CreateFind(t) \/ (\E f \in Fids : SwitchFind(t, f))
    BY <1>2 DEF CreateFind, SwitchFind, GroupFirst
  <1>3. CASE Idle(t)
    BY <1>3 DEF Idle, vars, GroupFirst
  <1>4. CASE Kernel(t)
    <2>1. pc[t] # "user" /\ UNCHANGED group
      BY <1>4 DEF Kernel, Convert, Create, Switch,
         ConvertFind, GenerateThread, AddThread, GenerateFiber, ReadFirst, AddFiber,
         ConvertLock, ConvertActivate, CreateContext, SwitchLock, SwitchActivate, SwitchSave,
         SwitchClear, SwitchUnlock, SwitchLoad
    <2> QED
      BY <2>1 DEF GroupFirst
  <1> QED
    BY <1>1, <1>2, <1>3, <1>4 DEF Schedule

(* The fiber a storage call works on is the one of the caller's flow.      *)
LEMMA CallHome ==
  ASSUME Based, HomeInv, NEW t \in Threads, fls[t].at # "none"
  PROVE  /\ pc[t] = "user" /\ fls[t].fib \in Fids /\ fls[t].fib \in known
         /\ regs[t].flow \in Flows /\ home[regs[t].flow] = fls[t].fib
  <1>0. TypeOK /\ FreshOK /\ OneRecord /\ OwnFiber /\ EntersKnown /\ HomePlace /\ IInv
    BY DEF Based, FlsInv, IInv, FlowInv, HomeInv
  <1>1. pc[t] = "user" /\ fls[t].fib \in Fids
    BY <1>0 DEF OwnFiber
  <1>2. PICK r \in Recs : r[1] = t /\ curFid[r] = fls[t].fib
    BY <1>0 DEF OwnFiber
  <1>3. curFid[r] # NO_FIBERS
    BY <1>1, <1>2, ConstantsAssumption DEF Fids, NO_FIBERS
  <1>4. ~(r[2] > nrec[t]) /\ nrec[t] <= 1
    BY <1>0, <1>2, <1>3 DEF FreshOK, OneRecord
  <1>5. nrec[t] = 1 /\ r = OwnRec(t)
    <2>1. nrec[t] \in 0 .. MaxConverts
      BY <1>0 DEF TypeOK
    <2>2. r[2] \in 1 .. MaxConverts
      BY DEF Recs
    <2>3. nrec[t] = 1 /\ r[2] = 1
      BY <1>4, <2>1, <2>2, ConstantsAssumption
    <2> QED
      BY <1>2, <2>3 DEF Recs, OwnRec
  <1>6. OwnHome(t) = fls[t].fib
    BY <1>1, <1>2, <1>5 DEF OwnHome, HasOldf
  <1>7. regs[t].flow \in Flows
    BY <1>0 DEF TypeOK, Points
  <1> QED
    BY <1>0, <1>1, <1>2, <1>3, <1>6, <1>7 DEF HomePlace, At, EntersKnown

(* Every step of the scheduler keeps the invariant of the slots.           *)
LEMMA HomeScheduleStep ==
  ASSUME ~AnyFid, Based, HomeInv, NEW t \in Threads, Schedule(t)
  PROVE  HomeInv'
  <1>0. Untouched /\ CallOK /\ GroupFirst /\ TypeOK
    BY DEF HomeInv, Based, FlsInv, IInv
  <1>1. HomePlace'
    <2>1. CASE UNCHANGED vars
      <3>1. home' = home
        BY <2>1 DEF Schedule, RecordHome, vars
      <3> QED
        BY <2>1, <3>1 DEF HomeInv, HomePlace, OwnHome, OwnRec, At, Parked, vars, group_vars,
           fiber_vars, lock_vars, local_vars, cpu_vars
    <2>2. CASE ThreadStep(t)
      BY <2>2, HomePlaceStep
    <2> QED
      BY <2>1, <2>2 DEF Schedule, ThreadStep, Idle
  <1>2. HomeOwn' /\ GroupFirst'
    BY <1>0, HomeOwnStep, GroupStep
  <1>3. Untouched'
    <2>1. known \subseteq known'
      BY <1>0, RecordStorage DEF ConvertActivate, CreateContext
    <2> QED
      BY <1>0, <2>1, RecordStorage DEF Untouched
  <1>4. CallOK'
    <2>1. UNCHANGED fls
      BY DEF Schedule
    <2>2. \A u \in Threads : fls[u].at # "none" => bmp'[fls[u].fib] = bmp[fls[u].fib]
      BY <1>0, CallHome, RecordStorage
    <2> QED
      BY <1>0, <2>1, <2>2 DEF CallOK
  <1> QED
    BY <1>1, <1>2, <1>3, <1>4 DEF HomeInv

(* A step that leaves the scheduler's variables and the fibers of the      *)
(* flows alone.                                                            *)
LEMMA HomeKept ==
  ASSUME HomeInv, UNCHANGED vars, UNCHANGED home, Untouched', CallOK'
  PROVE  HomeInv'
  BY DEF HomeInv, HomePlace, HomeOwn, GroupFirst, OwnHome, OwnRec, At, Parked, vars, group_vars,
         fiber_vars, lock_vars, local_vars, cpu_vars

(* A storage call starts with a value to store and touches nothing.        *)
LEMMA HomeFindStep ==
  ASSUME HomeInv, Based, NEW t \in Threads, NEW op, NEW i, NEW v,
         op = "set" => v \in Values, FlsFind(t, op, i, v)
  PROVE  HomeInv'
  <1>1. UNCHANGED <<vars, bmp, data, home>>
    BY DEF FlsFind
  <1>2. Untouched'
    BY <1>1 DEF HomeInv, Untouched, vars
  <1>3. CallOK'
    BY <1>1 DEF FlsFind, FlsFail, FlsReturn, NoCall, HomeInv, CallOK, Based, FlsInv, FlsTypes
  <1> QED
    BY <1>1, <1>2, <1>3, HomeKept

(* A storage call changes slots of a fiber given out, and no slot that     *)
(* another call works on.                                                  *)
LEMMA HomeStorageStep ==
  ASSUME HomeInv, Based, NEW t \in Threads, Fls(t)
  PROVE  HomeInv'
  <1>0. FlsInv /\ FlsTypes /\ Untouched /\ CallOK /\ TypeOK
    BY DEF HomeInv, Based, FlsInv, IInv
  <1> USE DEF Fls, FlsTest, FlsFirstZero, FlsChange, FlsRead, FlsWrite
  <1>1. UNCHANGED <<vars, home>> /\ fls[t].at # "none"
    OBVIOUS
  <1>2. fls[t].fib \in Fids /\ fls[t].fib \in known
    BY <1>1, CallHome
  <1>3. \A f \in Fids \ {fls[t].fib} : bmp'[f] = bmp[f] /\ data'[f] = data[f]
    BY <1>0, <1>2 DEF ChangeBit, FlsTypes, Untouched
  <1>4. data' \in [Fids -> [Slots -> Int]]
    <2>1. CASE FlsWrite(t)
      <3>1. fls[t] \in [at : {"none", "test", "do"}, op : Ops,
                        fib : Fids \cup {NO_FIBERS}, idx : Int, val : Int]
        BY <1>0 DEF FlsTypes
      <3>2. fls[t].val \in Int
        BY <3>1
      <3> QED
        BY <1>0, <1>2, <2>1, <3>2 DEF Untouched
    <2>2. CASE ~FlsWrite(t)
      BY <1>0, <2>2 DEF Untouched
    <2> QED
      BY <2>1, <2>2
  <1>5. Untouched'
    BY <1>0, <1>1, <1>2, <1>3, <1>4 DEF Untouched, vars
  <1>6. CallOK'
    <2> SUFFICES ASSUME NEW u \in Threads
                 PROVE  /\ fls'[u].at # "none" /\ fls'[u].op = "set" => fls'[u].val \in Values
                        /\ fls'[u].at = "do" /\ fls'[u].op = "alloc" =>
                             \A j \in Slots \ bmp'[fls'[u].fib] : fls'[u].idx <= j
      BY DEF CallOK
    <2>1. CASE u # t
      <3>1. fls'[u] = fls[u]
        BY <1>0, <2>1 DEF FlsTypes, FlsFail, FlsReturn
      <3>2. fls[u].at # "none" => bmp'[fls[u].fib] = bmp[fls[u].fib]
        BY <1>0, <1>1, <1>3, <2>1, DistinctFibers, CallHome
      <3> QED
        BY <1>0, <3>1, <3>2 DEF CallOK
    <2>2. CASE u = t
      <3> USE <2>2 DEF FlsFail, FlsReturn, NoCall, FlsTypes, CallOK
      <3>1. CASE FlsTest(t)
        BY <1>0, <3>1
      <3>2. CASE FlsFirstZero(t)
        BY <1>0, <3>2
      <3>3. CASE FlsChange(t) \/ FlsRead(t) \/ FlsWrite(t)
        BY <1>0, <3>3
      <3> QED
        BY <3>1, <3>2, <3>3
    <2> QED
      BY <2>1, <2>2
  <1> QED
    BY <1>1, <1>5, <1>6, HomeKept

-----------------------------------------------------------------------------
(* Fiber local storage: the slots of the flows of control                  *)

RunningFlow == [t \in Threads |-> IF pc[t] = "sw_load" THEN ctx[newf[t]].flow
                                                       ELSE regs[t].flow]
Member      == {s \in Flows : home[s] # NO_FIBERS}
Used        == [s \in Flows |-> IF home[s] = NO_FIBERS THEN {} ELSE bmp[home[s]]]
SlotValues  == [s \in Flows |-> IF home[s] = NO_FIBERS THEN [i \in Slots |-> 0]
                                                       ELSE data[home[s]]]

(* A step of the scheduler that moves no thread to another flow and gives  *)
(* no flow a fiber is not seen in the slots.                               *)
LEMMA UnseenSchedule ==
  ASSUME Based, HomeInv, NEW t \in Threads, Schedule(t)
  PROVE  /\ UNCHANGED out
         /\ \A s \in Flows : home'[s] = home[s] =>
              Used'[s] = Used[s] /\ SlotValues'[s] = SlotValues[s]
  <1>0. HomeOwn /\ Untouched
    BY DEF HomeInv
  <1>1. UNCHANGED out
    BY DEF Schedule
  <1>2. \A f \in known : bmp'[f] = bmp[f] /\ data'[f] = data[f]
    BY <1>0, RecordStorage
  <1> QED
    BY <1>0, <1>1, <1>2 DEF HomeOwn, Used, SlotValues

(* A step of the scheduler is a flow that becomes a fiber, a move to       *)
(* another flow, or invisible.                                             *)
LEMMA FlowScheduleStep ==
  ASSUME ~AnyFid, Based, HomeInv, NEW t \in Threads, Schedule(t)
  PROVE  [Storage!Next]_(Storage!vars)
  <1>0. /\ IInv /\ TypeOK /\ LocalsOK /\ GivenOut /\ OneRecord
        /\ EntersKnown /\ SavedFirst /\ OnePlace /\ Latest
        /\ HomePlace /\ HomeOwn /\ Untouched
    BY DEF Based, FlsInv, IInv, FlowInv, HomeInv
  <1>R. /\ \A u \in Threads : RunningFlow[u] = At(u).flow /\ RunningFlow'[u] = At(u)'.flow
        /\ RunningFlow = [u \in Threads |-> RunningFlow[u]]
        /\ RunningFlow' = [u \in Threads |-> RunningFlow'[u]]
    BY DEF At, RunningFlow
  <1>U. /\ Used = [s \in Flows |-> Used[s]] /\ Used' = [s \in Flows |-> Used'[s]]
        /\ SlotValues = [s \in Flows |-> SlotValues[s]]
        /\ SlotValues' = [s \in Flows |-> SlotValues'[s]]
    BY DEF Used, SlotValues
  <1>O. UNCHANGED out
    BY UnseenSchedule
  <1>Q. CASE UNCHANGED home /\ \A u \in Threads : At(u)' = At(u)
    <2>1. RunningFlow' = RunningFlow
      BY <1>Q, <1>R
    <2>2. Used' = Used /\ SlotValues' = SlotValues
      <3>1. \A s \in Flows : Used'[s] = Used[s] /\ SlotValues'[s] = SlotValues[s]
        BY <1>Q, UnseenSchedule
      <3> QED
        BY <1>U, <3>1
    <2> QED
      BY <1>O, <1>Q, <2>1, <2>2 DEF Storage!vars, RunningFlow, Used, SlotValues
  <1>1. ASSUME NEW p \in Flows, home[p] = NO_FIBERS, newf[t] \in Fids, newf[t] \notin known,
               home' = [home EXCEPT ![p] = newf[t]],
               \A u \in Threads : At(u)' = At(u)
        PROVE  Storage!Next
    <2>1. \A s \in Flows : home'[s] = IF s = p THEN newf[t] ELSE home[s]
      BY <1>0, <1>1 DEF HomeOwn
    <2>2. newf[t] # NO_FIBERS
      BY <1>1, ConstantsAssumption DEF Fids, NO_FIBERS
    <2>3. Member' = Member \cup {p} /\ p \notin Member
      BY <1>1, <2>1, <2>2 DEF Member
    <2>4. bmp'[newf[t]] = {} /\ data'[newf[t]] = [i \in Slots |-> 0]
      BY <1>0, <1>1, RecordStorage
    <2>5. Used' = Used /\ SlotValues' = SlotValues
      <3>1. \A s \in Flows \ {p} : Used'[s] = Used[s] /\ SlotValues'[s] = SlotValues[s]
        BY <2>1, UnseenSchedule
      <3>2. Used'[p] = Used[p] /\ SlotValues'[p] = SlotValues[p]
        BY <1>1, <2>1, <2>2, <2>4 DEF Used, SlotValues
      <3> QED
        BY <1>U, <3>1, <3>2
    <2>6. RunningFlow' = RunningFlow
      BY <1>1, <1>R
    <2>7. Storage!Join(p)
      BY <1>O, <2>3, <2>5, <2>6 DEF Storage!Join, RunningFlow, Used, SlotValues, Member
    <2> QED
      BY <2>7 DEF Storage!Next
  <1>2. CASE SwitchUnlock(t)
    <2>1. /\ newf[t] \in Fids /\ Parked(newf[t]) /\ At(t)' = ctx[newf[t]]
          /\ \A u \in Threads \ {t} : At(u)' = At(u)
      BY <1>0, <1>2, UnlockPlaces
    <2>2. pc[t] = "sw_unlock"
      BY <1>2 DEF SwitchUnlock, Goto
    <2>3. home' = home
      BY <1>0, <2>2, RecordStorage DEF ConvertActivate, CreateContext
    <2>4. PICK s \in Flows : s = ctx[newf[t]].flow
      BY <1>0, <2>1 DEF TypeOK, Points
    <2>5. s \in Member
      BY <1>0, <2>1, <2>4, ConstantsAssumption DEF HomePlace, Member, Fids, NO_FIBERS
    <2>6. RunningFlow[t] \in Member
      <3>1. OwnHome(t) = oldf[t] /\ oldf[t] \in Fids /\ oldf[t] # NO_FIBERS
        BY <1>0, <2>2, ConstantsAssumption DEF OwnHome, HasOldf, LocalsOK, Fids, NO_FIBERS
      <3>2. home[At(t).flow] = oldf[t] /\ At(t).flow \in Flows
        BY <1>0, <2>2, <3>1 DEF HomePlace, At, TypeOK, Points
      <3> QED
        BY <1>R, <3>1, <3>2 DEF Member
    <2>7. \A u \in Threads : RunningFlow[u] # s
      BY <1>0, <1>R, <2>1, <2>4 DEF OnePlace
    <2>8. RunningFlow' = [RunningFlow EXCEPT ![t] = s]
      <3>1. \A u \in Threads : RunningFlow'[u] = IF u = t THEN s ELSE RunningFlow[u]
        BY <1>R, <2>1, <2>4
      <3> QED
        BY <1>R, <3>1
    <2>9. Used' = Used /\ SlotValues' = SlotValues /\ Member' = Member
      <3>1. \A p \in Flows : Used'[p] = Used[p] /\ SlotValues'[p] = SlotValues[p]
        BY <2>3, UnseenSchedule
      <3> QED
        BY <1>U, <2>3, <3>1 DEF Member
    <2>10. Storage!Move(t, s)
      BY <1>O, <2>5, <2>6, <2>7, <2>8, <2>9
      DEF Storage!Move, RunningFlow, Used, SlotValues, Member
    <2> QED
      BY <2>10 DEF Storage!Next
  <1>3. CASE ~SwitchUnlock(t) /\ ~Idle(t)
    <2>1. ThreadStep(t) /\ Enters(t)
      BY <1>3 DEF Schedule, Enters, ThreadStep
    <2>2. (pc'[t] # "sw_load" /\ regs'[t] = regs[t] /\ pc[t] # "sw_load") \/ SwitchLoad(t)
      BY <1>0, <2>1, <1>3
      DEF Enters, Kernel, Convert, Create, Switch, ConvertGroup, CreateFind,
          SwitchFind, ConvertFind, GenerateThread, AddThread, GenerateFiber, ReadFirst, AddFiber,
          ConvertLock, ConvertActivate, CreateContext, SwitchLock, SwitchActivate, SwitchSave,
          SwitchClear, Goto, Return, TypeOK, cpu_vars
    <2>3. \A u \in Threads : At(u)' = At(u)
      BY <1>0, <2>1, <2>2, StaysAt
    <2>4. CASE ConvertActivate(t)
      <3>1. pc[t] = "cv_act"
        BY <2>4 DEF ConvertActivate
      <3>2. newf[t] \in Fids /\ newf[t] \notin known /\ regs[t].flow \in Flows
        BY <1>0, <3>1 DEF LocalsOK, HasNewf, GivenOut, Making, TypeOK, Points
      <3>3. curFid[rec[t]] = NO_FIBERS /\ rec[t] = OwnRec(t) /\ nrec[t] = 1
        BY <1>0, <3>1, RecIsOwn DEF LocalsOK, Converting, HasRec
      <3>4. home[regs[t].flow] = NO_FIBERS
        BY <1>0, <3>1, <3>3 DEF HomePlace, OwnHome, HasOldf, At
      <3> QED
        BY <1>0, <1>1, <2>3, <2>4, <3>2, <3>4, RecordStorage
    <2>5. CASE CreateContext(t)
      <3>1. pc[t] = "cr_ctx"
        BY <2>5 DEF CreateContext
      <3>2. newf[t] \in Fids /\ newf[t] \notin known /\ newf[t] \in Flows
        BY <1>0, <3>1 DEF LocalsOK, HasNewf, GivenOut, Making, Flows
      <3>3. home[newf[t]] = NO_FIBERS
        BY <1>0, <3>2 DEF HomeOwn, GivenOut
      <3> QED
        BY <1>0, <1>1, <2>3, <2>5, <3>2, <3>3, RecordStorage
    <2>6. CASE ~ConvertActivate(t) /\ ~CreateContext(t)
      BY <1>0, <1>Q, <2>3, <2>6, RecordStorage
    <2> QED
      BY <2>4, <2>5, <2>6
  <1>4. CASE Idle(t)
    <2>1. UNCHANGED vars
      BY <1>4 DEF Idle
    <2>2. UNCHANGED home
      BY <2>1 DEF Schedule, RecordHome, vars
    <2>3. \A u \in Threads : At(u)' = At(u)
      BY <2>1 DEF At, vars, local_vars, cpu_vars
    <2> QED
      BY <1>Q, <2>2, <2>3
  <1> QED
    BY <1>2, <1>3, <1>4

(* A storage call leaves the flows where they are; one that changes no     *)
(* slot and answers nothing is not seen.                                   *)
LEMMA StorageStill ==
  ASSUME UNCHANGED vars, UNCHANGED home
  PROVE  /\ RunningFlow' = RunningFlow /\ Member' = Member
         /\ UNCHANGED bmp => Used' = Used
         /\ UNCHANGED data => SlotValues' = SlotValues
  BY DEF vars, local_vars, cpu_vars, RunningFlow, Member, Used, SlotValues

(* The operations on a slot are steps of the slots.                        *)
LEMMA SlotSteps ==
  ASSUME NEW t \in Threads, NEW i \in Storage!Indices
  PROVE  /\ Storage!Free(t, i) => Storage!Next
         /\ Storage!Get(t, i) => Storage!Next
         /\ \A v \in Values : Storage!Set(t, i, v) => Storage!Next
  BY DEF Storage!Next

(* A call that is refused at once: the slot does not exist or the caller's *)
(* flow is no fiber.  A flow that is a fiber is always found.              *)
LEMMA FlowFindStep ==
  ASSUME Based, Findable, HomeInv, NEW t \in Threads, NEW op \in Ops,
         NEW i \in -1 .. FLS_MAX_SIZE, NEW v \in Int,
         op = "set" => v \in Values, FlsFind(t, op, i, v)
  PROVE  [Storage!Next]_(Storage!vars)
  <1>0. /\ TypeOK /\ OneRecord /\ EntersKnown /\ HomePlace /\ HomeOwn /\ GroupFirst /\ FlsTypes
    BY DEF Based, FlsInv, IInv, FlowInv, HomeInv
  <1>1. pc[t] = "user" /\ UNCHANGED <<vars, bmp, data, home>>
    BY DEF FlsFind
  <1>2. /\ RunningFlow' = RunningFlow /\ Member' = Member
        /\ Used' = Used /\ SlotValues' = SlotValues
    BY <1>1, StorageStill
  <1> DEFINE s == regs[t].flow
  <1>3. RunningFlow[t] = s /\ s \in Flows /\ home[s] = OwnHome(t)
    BY <1>0, <1>1 DEF RunningFlow, TypeOK, Points, HomePlace, At
  <1>4. CASE UNCHANGED out
    BY <1>2, <1>4 DEF Storage!vars, RunningFlow, Member, Used, SlotValues
  <1>5. CASE /\ (op # "alloc" /\ i \notin Slots) \/ s \notin Member
             /\ out' = [out EXCEPT ![t] = IF op = "get" THEN ESRCH ELSE EAGAIN]
    <2>1. CASE s \notin Member
      <3>1. Storage!NoFiber(t)
        BY <1>2, <1>3, <1>5, <2>1
        DEF Storage!NoFiber, Storage!Answer, Storage!AGAIN, Storage!SRCH, EAGAIN, ESRCH,
            RunningFlow, Member, Used, SlotValues
      <3> QED
        BY <3>1 DEF Storage!Next
    <2>2. CASE s \in Member /\ op # "alloc" /\ i \notin Slots
      <3>1. Used[s] \subseteq Slots
        BY <1>0, <1>3, <2>2 DEF Used, Member, HomeOwn, FlsTypes
      <3>2. i \notin Used[s] /\ i \in Storage!Indices
        BY <2>2, <3>1 DEF Storage!Indices
      <3>3. CASE op = "get"
        <4>1. Storage!Get(t, i)
          BY <1>2, <1>3, <1>5, <2>2, <3>3
          DEF Storage!Get, Storage!Answer, Storage!SRCH, Storage!Slots, Slots, ESRCH,
              RunningFlow, Member, Used, SlotValues
        <4> QED
          BY <3>2, <4>1, SlotSteps
      <3>4. CASE op = "free"
        <4>1. Storage!Free(t, i)
          BY <1>2, <1>3, <1>5, <2>2, <3>2, <3>4
          DEF Storage!Free, Storage!Answer, Storage!AGAIN, EAGAIN,
              RunningFlow, Member, Used, SlotValues
        <4> QED
          BY <3>2, <4>1, SlotSteps
      <3>5. CASE op = "set"
        <4>1. Storage!Set(t, i, v)
          BY <1>2, <1>3, <1>5, <2>2, <3>2, <3>5
          DEF Storage!Set, Storage!Answer, Storage!AGAIN, EAGAIN,
              RunningFlow, Member, Used, SlotValues
        <4> QED
          BY <3>2, <3>5, <4>1, SlotSteps
      <3> QED
        BY <2>2, <3>3, <3>4, <3>5 DEF Ops
    <2> QED
      BY <1>5, <2>1, <2>2
  <1> DEFINE found == {r \in get_thread(t) : group /\ get_fiber(curFid[r])}
  <1>6. found = {} => s \notin Member
    <2> SUFFICES ASSUME s \in Member PROVE found # {}
      OBVIOUS
    <2>1. nrec[t] # 0 /\ curFid[OwnRec(t)] = home[s] /\ home[s] # NO_FIBERS
      BY <1>1, <1>3 DEF OwnHome, HasOldf, Member
    <2>2. get_thread(t) = {OwnRec(t)}
      BY <1>0, <1>1, <2>1, FindsRecord
    <2>3. home[s] \in known
      BY <1>0, <1>3, <2>1 DEF HomeOwn
    <2>4. group /\ get_fiber(home[s])
      BY <1>0, <2>1, <2>3 DEF GroupFirst, Findable
    <2> QED
      BY <2>1, <2>2, <2>4
  <1>7. CASE (op # "alloc" /\ i \notin Slots) \/ found = {}
    BY <1>5, <1>6, <1>7 DEF FlsFind, FlsFail, FlsReturn
  <1>8. CASE ~((op # "alloc" /\ i \notin Slots) \/ found = {})
    BY <1>4, <1>8 DEF FlsFind
  <1> QED
    BY <1>7, <1>8

(* The later steps of a call: the one that answers is the operation on the *)
(* slots of the caller's flow.                                             *)
LEMMA FlowCallStep ==
  ASSUME Based, HomeInv, NEW t \in Threads, Fls(t)
  PROVE  [Storage!Next]_(Storage!vars)
  <1> DEFINE c == fls[t]
             s == regs[t].flow
  <1>0. /\ TypeOK /\ HomeOwn /\ Untouched /\ FlsTypes /\ TestStillHolds /\ CallOK
    BY DEF Based, FlsInv, IInv, HomeInv
  <1>1. c.at # "none" /\ UNCHANGED <<vars, home>>
    BY DEF Fls, FlsTest, FlsFirstZero, FlsChange, FlsRead, FlsWrite
  <1>2. pc[t] = "user" /\ c.fib \in Fids /\ s \in Flows /\ home[s] = c.fib /\ c.fib # NO_FIBERS
    BY <1>1, CallHome, ConstantsAssumption DEF Fids, NO_FIBERS
  <1>3. /\ RunningFlow' = RunningFlow /\ Member' = Member
        /\ UNCHANGED bmp => Used' = Used
        /\ UNCHANGED data => SlotValues' = SlotValues
    BY <1>1, StorageStill
  <1>4. /\ RunningFlow[t] = s /\ s \in Member
        /\ Used[s] = bmp[c.fib] /\ SlotValues[s] = data[c.fib]
    BY <1>2 DEF RunningFlow, Member, Used, SlotValues
  <1>5. c.op \in Ops /\ c.idx \in Int
    <2>1. c \in [at : {"none", "test", "do"}, op : Ops,
                 fib : Fids \cup {NO_FIBERS}, idx : Int, val : Int]
      BY <1>0 DEF FlsTypes
    <2> QED
      BY <2>1
  <1>6. c.op # "alloc" \/ c.at = "do" => c.idx \in Slots /\ c.idx \in Storage!Indices
    <2>1. c.op # "alloc" \/ c.at = "do" => c.idx \in Slots
      <3>1. c.at \in {"none", "test", "do"}
        BY <1>0 DEF FlsTypes
      <3> QED
        BY <1>0, <1>1, <3>1 DEF FlsTypes
    <2> QED
      BY <2>1, FlsAssumption DEF Slots, Storage!Indices
  <1>7. \A p \in Flows \ {s} : home[p] # c.fib
    BY <1>0, <1>2 DEF HomeOwn
  <1>S. CASE UNCHANGED <<bmp, data, out>>
    BY <1>1, <1>3, <1>S DEF Storage!vars, RunningFlow, Member, Used, SlotValues
  <1> USE DEF FlsFail, FlsReturn
  <1>8. CASE FlsTest(t)
    <2>1. CASE c.idx \in bmp[c.fib]
      BY <1>S, <1>8, <2>1 DEF FlsTest
    <2>2. CASE c.idx \notin bmp[c.fib]
      <3>1. /\ UNCHANGED <<bmp, data>> /\ c.op # "alloc"
            /\ out' = [out EXCEPT ![t] = IF c.op = "get" THEN EACCES ELSE EAGAIN]
        BY <1>8, <2>2 DEF FlsTest
      <3>2. c.idx \in Slots /\ c.idx \in Storage!Indices /\ c.idx \notin Used[s]
        BY <1>4, <1>6, <2>2, <3>1
      <3>3. CASE c.op = "get"
        <4>1. Storage!Get(t, c.idx)
          BY <1>3, <1>4, <3>1, <3>2, <3>3
          DEF Storage!Get, Storage!Answer, Storage!ACCES, Storage!Slots, Slots, EACCES,
              RunningFlow, Member, Used, SlotValues
        <4> QED
          BY <3>2, <4>1, SlotSteps
      <3>K. PICK k \in Storage!Indices : k = c.idx
        BY <3>2
      <3>4. CASE c.op = "free"
        <4>1. Storage!Free(t, k)
          BY <1>3, <1>4, <3>1, <3>2, <3>4, <3>K
          DEF Storage!Free, Storage!Answer, Storage!AGAIN, EAGAIN,
              RunningFlow, Member, Used, SlotValues
        <4> QED
          BY <4>1, SlotSteps
      <3>5. CASE c.op = "set"
        <4>1. PICK v \in Values : v = c.val
          BY <1>0, <1>1, <3>5 DEF CallOK
        <4>2. Storage!Set(t, k, v)
          BY <1>3, <1>4, <3>1, <3>2, <3>5, <3>K
          DEF Storage!Set, Storage!Answer, Storage!AGAIN, EAGAIN,
              RunningFlow, Member, Used, SlotValues
        <4> QED
          BY <4>2, SlotSteps
      <3> QED
        BY <1>5, <3>1, <3>3, <3>4, <3>5 DEF Ops
    <2> QED
      BY <2>1, <2>2
  <1>9. CASE FlsFirstZero(t)
    <2>1. CASE Slots \ bmp[c.fib] # {}
      BY <1>S, <1>9, <2>1 DEF FlsFirstZero
    <2>2. CASE Slots \ bmp[c.fib] = {}
      <3>1. UNCHANGED <<bmp, data>> /\ out' = [out EXCEPT ![t] = EAGAIN]
        BY <1>9, <2>2 DEF FlsFirstZero
      <3>2. Storage!Slots \ Used[s] = {}
        BY <1>4, <2>2 DEF Storage!Slots, Slots
      <3>3. Storage!Alloc(t)
        BY <1>3, <1>4, <3>1, <3>2
        DEF Storage!Alloc, Storage!Answer, Storage!AGAIN, EAGAIN,
            RunningFlow, Member, Used, SlotValues
      <3> QED
        BY <3>3 DEF Storage!Next
    <2> QED
      BY <2>1, <2>2
  <1>10. CASE FlsChange(t)
    <2>1. /\ c.at = "do" /\ c.op \in {"alloc", "free"} /\ UNCHANGED data
          /\ bmp' = [bmp EXCEPT ![c.fib] = IF c.idx \in @ THEN @ \ {c.idx} ELSE @ \cup {c.idx}]
          /\ out' = [out EXCEPT ![t] = IF c.op = "alloc" THEN c.idx ELSE 0]
      BY <1>10 DEF FlsChange, ChangeBit
    <2>2. c.idx \in Slots /\ c.idx \in Storage!Indices
      BY <1>6, <2>1
    <2>3. \A p \in Flows : Used'[p] = IF p = s THEN bmp'[c.fib] ELSE Used[p]
      BY <1>0, <1>1, <1>2, <1>7, <2>1 DEF Used, HomeOwn, FlsTypes
    <2>4. Used' = [Used EXCEPT ![s] = bmp'[c.fib]]
      BY <1>2, <2>3 DEF Used
    <2>5. CASE c.op = "alloc"
      <3>1. c.idx \notin Used[s] /\ bmp'[c.fib] = Used[s] \cup {c.idx}
        BY <1>0, <1>2, <1>4, <2>1, <2>5 DEF TestStillHolds, FlsTypes
      <3>2. \A j \in Slots \ Used[s] : c.idx <= j
        BY <1>0, <1>4, <2>1, <2>5 DEF CallOK
      <3>3. Used' = [Used EXCEPT ![s] = @ \cup {c.idx}]
        BY <2>4, <3>1
      <3>4. out' = [out EXCEPT ![t] = c.idx]
        BY <2>1, <2>5
      <3>5. Storage!Slots = Slots
        BY DEF Storage!Slots, Slots
      <3> HIDE DEF c, s
      <3>6. Storage!Alloc(t)
        BY <1>3, <1>4, <2>1, <2>2, <3>1, <3>2, <3>3, <3>4, <3>5
        DEF Storage!Alloc, Storage!Answer, RunningFlow, Member, Used, SlotValues
      <3> QED
        BY <3>6 DEF Storage!Next
    <2>6. CASE c.op = "free"
      <3>1. c.idx \in Used[s] /\ bmp'[c.fib] = Used[s] \ {c.idx}
        BY <1>0, <1>2, <1>4, <2>1, <2>6 DEF TestStillHolds, FlsTypes
      <3>2. Used' = [Used EXCEPT ![s] = @ \ {c.idx}]
        BY <2>4, <3>1
      <3>3. out' = [out EXCEPT ![t] = 0]
        BY <2>1, <2>6
      <3>4. PICK k \in Storage!Indices : k = c.idx
        BY <2>2
      <3> HIDE DEF c, s
      <3>5. Storage!Free(t, k)
        BY <1>3, <1>4, <2>1, <3>1, <3>2, <3>3, <3>4
        DEF Storage!Free, Storage!Answer, RunningFlow, Member, Used, SlotValues
      <3> QED
        BY <3>5, SlotSteps
    <2> QED
      BY <2>1, <2>5, <2>6
  <1>11. CASE FlsRead(t)
    <2>1. /\ c.at = "do" /\ c.op = "get" /\ UNCHANGED <<bmp, data>>
          /\ out' = [out EXCEPT ![t] = data[c.fib][c.idx]]
      BY <1>11 DEF FlsRead
    <2>2. c.idx \in Slots /\ c.idx \in Storage!Indices /\ c.idx \in Used[s]
      BY <1>0, <1>4, <1>6, <2>1 DEF TestStillHolds
    <2>3. Storage!Get(t, c.idx)
      BY <1>3, <1>4, <2>1, <2>2
      DEF Storage!Get, Storage!Answer, Storage!Slots, Slots, RunningFlow, Member, Used, SlotValues
    <2> QED
      BY <2>2, <2>3, SlotSteps
  <1>12. CASE FlsWrite(t)
    <2>1. /\ c.at = "do" /\ c.op = "set" /\ UNCHANGED bmp
          /\ data' = [data EXCEPT ![c.fib][c.idx] = c.val]
          /\ out' = [out EXCEPT ![t] = c.idx]
      BY <1>12 DEF FlsWrite
    <2>2. c.idx \in Slots /\ c.idx \in Storage!Indices /\ c.idx \in Used[s]
      BY <1>0, <1>4, <1>6, <2>1 DEF TestStillHolds
    <2>3. c.val \in Values
      BY <1>0, <1>1, <2>1 DEF CallOK
    <2>4. \A p \in Flows : SlotValues'[p] = IF p = s THEN data'[c.fib] ELSE SlotValues[p]
      BY <1>0, <1>1, <1>2, <1>7, <2>1 DEF SlotValues, HomeOwn, Untouched
    <2>5. data'[c.fib] = [SlotValues[s] EXCEPT ![c.idx] = c.val]
      BY <1>0, <1>2, <1>4, <2>1 DEF Untouched
    <2> HIDE DEF c, s
    <2>6. SlotValues' = [SlotValues EXCEPT ![s][c.idx] = c.val]
      <3>1. /\ SlotValues = [p \in Flows |-> SlotValues[p]]
            /\ SlotValues' = [p \in Flows |-> SlotValues'[p]]
        BY DEF SlotValues
      <3> QED
        BY <1>2, <2>4, <2>5, <3>1
    <2>7. PICK k \in Storage!Indices, v \in Values : k = c.idx /\ v = c.val
      BY <2>2, <2>3
    <2>8. Storage!Set(t, k, v)
      BY <1>3, <1>4, <2>1, <2>2, <2>6, <2>7
      DEF Storage!Set, Storage!Answer, RunningFlow, Member, Used, SlotValues
    <2> QED
      BY <2>8, SlotSteps
  <1> QED
    BY <1>8, <1>9, <1>10, <1>11, <1>12 DEF Fls

-----------------------------------------------------------------------------
(* Before the first call no flow is a fiber.                               *)
LEMMA InitHomeInv == FlsInit => HomeInv
  <1> SUFFICES ASSUME FlsInit PROVE HomeInv
    OBVIOUS
  <1>1. HomePlace
    <2>1. \A t \in Threads : At(t).flow = t /\ OwnHome(t) = NO_FIBERS
      BY DEF FlsInit, Init, At, OwnHome, HasOldf
    <2>2. \A f \in Fids : ~Parked(f)
      BY DEF FlsInit, Init, Parked
    <2> QED
      BY <2>1, <2>2 DEF FlsInit, HomePlace, Flows
  <1>2. HomeOwn
    BY DEF FlsInit, HomeOwn, Flows
  <1>3. Untouched /\ GroupFirst /\ CallOK
    BY DEF FlsInit, Init, Untouched, GroupFirst, CallOK, NoCall
  <1> QED
    BY <1>1, <1>2, <1>3 DEF HomeInv

(* The invariants of the scheduler and of the calls hold with storage too. *)
LEMMA StorageBase ==
  ASSUME ~AnyFid
  PROVE  FlsSpec /\ []NoOverlap => []Based
  <1>1. FlsSpec => []FlsInv
    BY InitFlsInv, FlsInvInductive, PTL DEF FlsSpec
  <1>2. FlsSpec /\ []NoOverlap => []GivenOut /\ []FlowInv /\ []OneRecord
    BY StorageKeepsKernel, GivenOutHolds, FlowHolds, OneRecordHolds, PTL
  <1> QED
    BY <1>1, <1>2, PTL DEF Based

(* A flow of control has one fiber of its own, which it keeps, and while   *)
(* it runs the record of its thread names that fiber: what do_fls_* find   *)
(* through current_fid is the storage of the flow that called.             *)
THEOREM HomeHolds ==
  ASSUME ~AnyFid
  PROVE  FlsSpec /\ []NoOverlap => []HomeInv
  <1>1. Based /\ HomeInv /\ [FlsNext]_<<vars, fls_vars>> => HomeInv'
    <2> SUFFICES ASSUME Based, HomeInv, [FlsNext]_<<vars, fls_vars>> PROVE HomeInv'
      OBVIOUS
    <2>1. CASE UNCHANGED <<vars, fls_vars>>
      <3>1. UNCHANGED <<vars, home>> /\ Untouched' /\ CallOK'
        BY <2>1 DEF HomeInv, Untouched, CallOK, vars, fls_vars
      <3> QED
        BY <3>1, HomeKept
    <2>2. ASSUME NEW t \in Threads, Schedule(t) PROVE HomeInv'
      BY <2>2, HomeScheduleStep
    <2>3. ASSUME NEW t \in Threads, Fls(t) PROVE HomeInv'
      BY <2>3, HomeStorageStep
    <2>4. ASSUME NEW t \in Threads, NEW op, NEW i, NEW v, op = "set" => v \in Values,
                 FlsFind(t, op, i, v)
          PROVE  HomeInv'
      BY <2>4, HomeFindStep
    <2> QED
      BY <2>1, <2>2, <2>3, <2>4 DEF FlsNext
  <1> QED
    BY <1>1, InitHomeInv, StorageBase, PTL DEF FlsSpec

(* Fiber local storage of fiber.c implements slots that belong to the      *)
(* flow of control, follow it from thread to thread and change atomically, *)
(* for any number of threads, fibers and slots, although do_fls_* take no  *)
(* lock: callers name only fids they were given, and no two calls of       *)
(* hash_add_rcu overlap in a bucket, because a lost record or fiber would  *)
(* make the calls of a fiber fail.                                         *)
THEOREM FlsImplementsFlowStorage ==
  ASSUME ~AnyFid
  PROVE  FlsSpec /\ []NoOverlap => ImplementsFlowStorage
  <1>1. FlsInit => Storage!Init
    <2> SUFFICES ASSUME FlsInit PROVE Storage!Init
      OBVIOUS
    <2>1. \A s \in Flows : home[s] = NO_FIBERS
      BY DEF FlsInit
    <2>2. \A t \in Threads : pc[t] # "sw_load" /\ regs[t].flow = t
      BY DEF FlsInit, Init
    <2>3. RunningFlow = [t \in Threads |-> t]
      BY <2>2 DEF RunningFlow
    <2>4. Member = {}
      BY <2>1 DEF Member
    <2>5. Used = [s \in Flows |-> {}] /\ SlotValues = [s \in Flows |-> [i \in Slots |-> 0]]
      BY <2>1 DEF Used, SlotValues
    <2> QED
      BY <2>3, <2>4, <2>5
      DEF FlsInit, Storage!Init, Storage!Slots, Slots, RunningFlow, Member, Used, SlotValues
  <1>2. Based /\ Findable /\ HomeInv /\ [FlsNext]_<<vars, fls_vars>>
          => [Storage!Next]_(Storage!vars)
    <2> SUFFICES ASSUME Based, Findable, HomeInv, [FlsNext]_<<vars, fls_vars>>
                 PROVE  [Storage!Next]_(Storage!vars)
      OBVIOUS
    <2>1. CASE UNCHANGED <<vars, fls_vars>>
      BY <2>1 DEF Storage!vars, vars, fls_vars, local_vars, cpu_vars
    <2>2. ASSUME NEW t \in Threads, Schedule(t) PROVE [Storage!Next]_(Storage!vars)
      BY <2>2, FlowScheduleStep
    <2>3. ASSUME NEW t \in Threads, Fls(t) PROVE [Storage!Next]_(Storage!vars)
      BY <2>3, FlowCallStep
    <2>4. ASSUME NEW t \in Threads, NEW op \in Ops, NEW i \in -1 .. FLS_MAX_SIZE, NEW v \in Int,
                 op = "set" => v \in Values, FlsFind(t, op, i, v)
          PROVE  [Storage!Next]_(Storage!vars)
      BY <2>4, FlowFindStep
    <2>5. 0 \in -1 .. FLS_MAX_SIZE /\ 0 \in Int
          /\ Values \subseteq Int /\ {"alloc", "get", "free", "set"} \subseteq Ops
      BY FlsAssumption DEF Ops
    <2> QED
      BY <2>1, <2>2, <2>3, <2>4, <2>5 DEF FlsNext
  <1>3. FlsSpec /\ []NoOverlap => []Findable
    BY StorageKeepsKernel, FindableHolds, PTL
  <1> QED
    BY <1>1, <1>2, <1>3, StorageBase, HomeHolds, PTL
    DEF FlsSpec, ImplementsFlowStorage, Storage!Spec
=============================================================================
