----------------------- MODULE DeviceLifecycleProofs -----------------------
(***************************************************************************)
(* Proofs about DeviceLifecycle, for any processes, threads, finite number *)
(* of open files and number of times a pid is used again.                  *)
(***************************************************************************)
EXTENDS DeviceLifecycle, FiniteSetTheorems, TLAPS

-----------------------------------------------------------------------------
(* The inductive invariant                                                 *)

OpenFiles == {f \in Files : holders[f] # {}}

(* The references of every open file, and none without the module.         *)
Referenced ==
  /\ refs = 3 * Cardinality(OpenFiles)
  /\ OpenFiles # {} => loaded

(* Who is in a call, or about to make the first, has an open file; only a  *)
(* living process is about to make one, and a dead one has no file.        *)
CallersHold ==
  \A p \in Procs :
    /\ \A t \in Threads :
         call[p][t] \in {"opened", "using"} => \E f \in Files : p \in holders[f]
    /\ \A t \in Threads : call[p][t] = "opened" => proc[p] = "alive"
    /\ proc[p] = "none" => \A f \in Files : p \notin holders[f]

LifecycleInv == LifecycleTypeOK /\ Referenced /\ CallersHold /\ NoUseAfterFree

(* The open files are finitely many, so that they can be counted.          *)
LEMMA OpenFilesFinite == IsFiniteSet(OpenFiles) /\ IsFiniteSet(OpenFiles')
  <1>1. OpenFiles \subseteq Files /\ OpenFiles' \subseteq Files
    BY DEF OpenFiles
  <1> QED
    BY <1>1, LifecycleAssumption, FS_Subset

(* They are counted by a natural number, 0 when no file is open.           *)
LEMMA OpenFilesCounted ==
  /\ Cardinality(OpenFiles) \in Nat
  /\ Cardinality(OpenFiles) = 0 <=> OpenFiles = {}
  BY OpenFilesFinite, FS_CardinalityType, FS_EmptySet

(* A call is only in progress while the module is referenced, so an        *)
(* unreferenced module has no file open and no caller.                     *)
LEMMA CallersReference ==
  ASSUME LifecycleInv, NEW p \in Procs, NEW t \in Threads, call[p][t] = "using"
  PROVE  loaded /\ refs > 0
  <1> USE DEF LifecycleInv
  <1>1. OpenFiles # {}
    BY DEF CallersHold, OpenFiles
  <1>2. Cardinality(OpenFiles) \in Nat /\ Cardinality(OpenFiles) # 0
    BY <1>1, OpenFilesCounted
  <1> QED
    BY <1>1, <1>2 DEF Referenced

-----------------------------------------------------------------------------
(* Types                                                                   *)

(* Freeing groups keeps the types and, when no call uses one of them, the  *)
(* calls.                                                                  *)
LEMMA FreeTypes ==
  ASSUME LifecycleTypeOK, NEW ps, Free(ps)
  PROVE  /\ group' \in [Procs -> 0 .. MaxLives]
         /\ call' \in [Procs -> [Threads -> {"idle", "opened", "using", "dangling"}]]
         /\ (\A p \in ps \cap Procs, t \in Threads : call[p][t] # "using") => call' = call
  <1> USE LifecycleAssumption DEF LifecycleTypeOK, Free
  <1>1. group' \in [Procs -> 0 .. MaxLives]
    OBVIOUS
  <1>2. call' \in [Procs -> [Threads -> {"idle", "opened", "using", "dangling"}]]
    OBVIOUS
  <1>3. ASSUME \A p \in ps \cap Procs, t \in Threads : call[p][t] # "using"
        PROVE  call' = call
    <2>1. \A p \in Procs, t \in Threads : call'[p][t] = call[p][t]
      BY <1>3
    <2> QED
      BY <1>2, <2>1
  <1> QED
    BY <1>1, <1>2, <1>3

(* Every step preserves the invariant.                                     *)
LEMMA LifecycleStep == LifecycleInv /\ [Next]_vars => LifecycleInv'
  <1> SUFFICES ASSUME LifecycleInv, [Next]_vars PROVE LifecycleInv'
    OBVIOUS
  <1> USE LifecycleAssumption DEF LifecycleInv, LifecycleTypeOK, Doing, module_vars, proc_vars
  <1>1. CASE UNCHANGED vars
    BY <1>1 DEF vars, Referenced, OpenFiles, CallersHold, NoUseAfterFree
  <1>2. CASE fibers_init_module
    <2>1. OpenFiles = {}
      BY <1>2 DEF fibers_init_module, Referenced
    <2>2. OpenFiles' = {} /\ Cardinality({}) = 0
      BY <1>2, <2>1, FS_EmptySet DEF fibers_init_module, OpenFiles
    <2>3. Referenced'
      BY <1>2, <2>2 DEF fibers_init_module, Referenced
    <2> QED
      BY <1>2, <2>3 DEF fibers_init_module, CallersHold, NoUseAfterFree
  <1>3. CASE fibers_exit_module
    <2>1. \A p \in Procs, t \in Threads : call[p][t] # "using"
      BY <1>3, CallersReference DEF fibers_exit_module
    <2>2. call' = call /\ LifecycleTypeOK'
      BY <1>3, <2>1, FreeTypes DEF fibers_exit_module, cleanup_all
    <2>3. OpenFiles = {}
      <3>1. 0 = 3 * Cardinality(OpenFiles)
        BY <1>3 DEF fibers_exit_module, Referenced
      <3> QED
        BY <3>1, OpenFilesCounted
    <2> QED
      BY <1>3, <2>2, <2>3
         DEF fibers_exit_module, Referenced, OpenFiles, CallersHold, NoUseAfterFree
  <1>4. ASSUME NEW p \in Procs, NEW t \in Threads, Open(p, t) PROVE LifecycleInv'
    <2>1. PICK f \in Files : holders[f] = {} /\ holders' = [holders EXCEPT ![f] = {p}]
      BY <1>4 DEF Open, fibers_open
    <2>2. OpenFiles' = OpenFiles \cup {f} /\ f \notin OpenFiles
      BY <2>1 DEF OpenFiles
    <2>3. Referenced'
      <3>1. Cardinality(OpenFiles') = Cardinality(OpenFiles) + 1
        BY <2>2, OpenFilesFinite, FS_AddElement
      <3>2. refs' = 3 * Cardinality(OpenFiles) + 3
        BY <1>4, OpenFilesCounted DEF Open, fibers_open, Referenced, VfsRefs
      <3>3. refs' = 3 * Cardinality(OpenFiles')
        BY <3>1, <3>2, OpenFilesCounted
      <3> QED
        BY <1>4, <3>3 DEF Open, Referenced
    <2>4. CallersHold'
      BY <1>4, <2>1 DEF Open, CallersHold
    <2> QED
      BY <1>4, <2>1, <2>3, <2>4 DEF Open, fibers_open, NoUseAfterFree, VfsRefs
  <1>5. ASSUME NEW p \in Procs, NEW t \in Threads, Convert(p, t) PROVE LifecycleInv'
    BY <1>5 DEF Convert, Referenced, OpenFiles, CallersHold, NoUseAfterFree
  <1>6. ASSUME NEW p \in Procs, NEW t \in Threads, Enter(p, t) PROVE LifecycleInv'
    BY <1>6 DEF Enter, Referenced, OpenFiles, CallersHold, NoUseAfterFree
  <1>7. ASSUME NEW p \in Procs, NEW t \in Threads, Return(p, t) PROVE LifecycleInv'
    BY <1>7 DEF Return, Referenced, OpenFiles, CallersHold, NoUseAfterFree
  <1>8. ASSUME NEW p \in Procs, Start(p) PROVE LifecycleInv'
    BY <1>8 DEF Start, Referenced, OpenFiles, CallersHold, NoUseAfterFree
  <1>9. ASSUME NEW p \in Procs, NEW c \in Procs, Fork(p, c) PROVE LifecycleInv'
    <2>1. OpenFiles' = OpenFiles
      BY <1>9 DEF Fork, OpenFiles
    <2>2. CallersHold'
      BY <1>9 DEF Fork, CallersHold
    <2> QED
      BY <1>9, <2>1, <2>2 DEF Fork, Referenced, NoUseAfterFree
  <1>10. ASSUME NEW p \in Procs, Exit(p) PROVE LifecycleInv'
    BY <1>10 DEF Exit, Referenced, OpenFiles, CallersHold, NoUseAfterFree
  <1>11. ASSUME NEW p \in Procs, NEW f \in Files, Close(p, f) PROVE LifecycleInv'
    <2>1. \A t \in Threads : call[p][t] \notin {"using", "opened"}
      BY <1>11 DEF Close, Busy, CallersHold
    <2>2. call' = call /\ group' \in [Procs -> 0 .. MaxLives]
      BY <1>11, <2>1, FreeTypes DEF Close, fibers_release, cleanup_process
    <2>3. refs' \in Nat /\ Referenced'
      <3>1. CASE holders[f] = {p}
        <4>1. OpenFiles' = OpenFiles \ {f} /\ f \in OpenFiles
          BY <1>11, <3>1 DEF Close, OpenFiles
        <4>2. Cardinality(OpenFiles') = Cardinality(OpenFiles) - 1
          BY <4>1, OpenFilesFinite, FS_RemoveElement
        <4>3. Cardinality(OpenFiles') \in Nat
          BY OpenFilesFinite, FS_CardinalityType
        <4>4. refs' = 3 * Cardinality(OpenFiles) - 3
          BY <1>11, <3>1, OpenFilesCounted
             DEF Close, fibers_release, Referenced, VfsRefs
        <4>5. refs' = 3 * Cardinality(OpenFiles')
          BY <4>2, <4>4, OpenFilesCounted
        <4> QED
          BY <1>11, <4>1, <4>3, <4>5 DEF Close, Referenced
      <3>2. CASE holders[f] # {p}
        <4>1. OpenFiles' = OpenFiles
          BY <1>11, <3>2 DEF Close, OpenFiles
        <4> QED
          BY <1>11, <3>2, <4>1 DEF Close, Referenced
      <3> QED
        BY <3>1, <3>2
    <2>4. CallersHold'
      BY <1>11, <2>1, <2>2 DEF Close, CallersHold
    <2> QED
      BY <1>11, <2>2, <2>3, <2>4 DEF Close, NoUseAfterFree
  <1>12. ASSUME NEW p \in Procs, Reap(p) PROVE LifecycleInv'
    BY <1>12 DEF Reap, Referenced, OpenFiles, CallersHold, NoUseAfterFree, Busy
  <1> QED
    BY <1>1, <1>2, <1>3, <1>4, <1>5, <1>6, <1>7, <1>8, <1>9, <1>10, <1>11, <1>12 DEF Next

(* Nothing is loaded, open or running at the start.                        *)
LEMMA InitLifecycleInv == Init => LifecycleInv
  <1> SUFFICES ASSUME Init PROVE LifecycleInv
    OBVIOUS
  <1>1. LifecycleTypeOK
    <2> USE LifecycleAssumption DEF Init
    <2>1. loaded \in BOOLEAN /\ dev \in BOOLEAN /\ refs \in Nat
      OBVIOUS
    <2>2. /\ proc \in [Procs -> {"none", "alive", "exiting"}]
          /\ holders \in [Files -> SUBSET Procs]
      OBVIOUS
    <2>3. life \in [Procs -> 0 .. MaxLives] /\ group \in [Procs -> 0 .. MaxLives]
      OBVIOUS
    <2>4. call \in [Procs -> [Threads -> {"idle", "opened", "using", "dangling"}]]
      OBVIOUS
    <2> QED
      BY <2>1, <2>2, <2>3, <2>4 DEF LifecycleTypeOK
  <1>2. OpenFiles = {}
    BY DEF Init, OpenFiles
  <1>3. Referenced
    BY <1>2, FS_EmptySet DEF Init, Referenced
  <1>4. CallersHold /\ NoUseAfterFree
    BY DEF Init, CallersHold, NoUseAfterFree
  <1> QED
    BY <1>1, <1>3, <1>4 DEF LifecycleInv

(* The invariant holds of every state, whatever is forked.                 *)
THEOREM LifecycleInductive == Spec => []LifecycleInv
  BY InitLifecycleInv, LifecycleStep, PTL DEF Spec

(* The variables keep their types: module_put never takes a reference that *)
(* try_module_get has not given.                                           *)
THEOREM LifecycleTyped == Spec => []LifecycleTypeOK
  <1>1. LifecycleInv => LifecycleTypeOK
    BY DEF LifecycleInv
  <1> QED
    BY <1>1, LifecycleInductive, PTL

(* cleanup_process and cleanup_all never free a group under a call.        *)
THEOREM NoUseAfterFreeHolds == Spec => []NoUseAfterFree
  <1>1. LifecycleInv => NoUseAfterFree
    BY DEF LifecycleInv
  <1> QED
    BY <1>1, LifecycleInductive, PTL

(* The module is never unloaded under a call.                              *)
THEOREM CallsKeepModuleHolds == Spec => []CallsKeepModule
  <1>1. LifecycleInv => CallsKeepModule
    BY CallersReference DEF CallsKeepModule
  <1> QED
    BY <1>1, LifecycleInductive, PTL

(* fibers_open and fibers_release balance.                                 *)
THEOREM RefsReturnedHolds == Spec => []RefsReturned
  <1>1. LifecycleInv => RefsReturned
    <2> SUFFICES ASSUME LifecycleInv, \A p \in Procs : proc[p] = "none" PROVE refs = 0
      BY DEF RefsReturned
    <2>1. OpenFiles = {}
      BY DEF LifecycleInv, LifecycleTypeOK, CallersHold, OpenFiles
    <2> QED
      BY <2>1, FS_EmptySet DEF LifecycleInv, Referenced
  <1> QED
    BY <1>1, LifecycleInductive, PTL

-----------------------------------------------------------------------------
(* Processes that share no descriptor                                      *)

(* A process that neither forked nor was forked is the only holder of its  *)
(* files, and if it has a group it has a file, whose release will free the *)
(* group.                                                                  *)
GroupsHeld ==
  /\ \A f \in Files, p \in Procs \ kin : p \in holders[f] => holders[f] = {p}
  /\ \A p \in Procs \ kin :
       group[p] # 0 => group[p] = life[p] /\ \E f \in Files : p \in holders[f]

(* Every step keeps the groups held.                                       *)
LEMMA GroupsStep ==
  ASSUME LifecycleInv, GroupsHeld, [Next]_vars
  PROVE  GroupsHeld'
  <1> USE LifecycleAssumption DEF LifecycleInv, LifecycleTypeOK, GroupsHeld, Doing,
          module_vars, proc_vars
  <1>1. CASE UNCHANGED vars
    BY <1>1 DEF vars
  <1>2. CASE fibers_init_module
    BY <1>2 DEF fibers_init_module
  <1>3. CASE fibers_exit_module
    BY <1>3 DEF fibers_exit_module, cleanup_all, Free
  <1>4. ASSUME NEW p \in Procs, NEW t \in Threads, Open(p, t) PROVE GroupsHeld'
    BY <1>4 DEF Open, fibers_open
  <1>5. ASSUME NEW p \in Procs, NEW t \in Threads, Convert(p, t) PROVE GroupsHeld'
    BY <1>5 DEF Convert, CallersHold
  <1>6. ASSUME NEW p \in Procs, NEW t \in Threads, Enter(p, t) \/ Return(p, t)
        PROVE  GroupsHeld'
    BY <1>6 DEF Enter, Return
  <1>7. ASSUME NEW p \in Procs, Start(p) PROVE GroupsHeld'
    BY <1>7 DEF Start, CallersHold
  <1>8. ASSUME NEW p \in Procs, Exit(p) \/ Reap(p) PROVE GroupsHeld'
    BY <1>8 DEF Exit, Reap
  <1>9. ASSUME NEW p \in Procs, NEW f \in Files, Close(p, f) PROVE GroupsHeld'
    <2>1. \A q \in Procs \ kin : q # p => q \notin holders[f] \/ holders[f] # {p}
      OBVIOUS
    <2> QED
      BY <1>9, <2>1 DEF Close, fibers_release, cleanup_process, Free
  <1>10. ASSUME NEW p \in Procs, NEW c \in Procs, Fork(p, c) PROVE GroupsHeld'
    BY <1>10 DEF Fork
  <1> QED
    BY <1>1, <1>2, <1>3, <1>4, <1>5, <1>6, <1>7, <1>8, <1>9, <1>10 DEF Next

(* No group outlives a process that shared no descriptor: the release of   *)
(* the last file the process had freed it.                                 *)
THEOREM NoInheritedGroupHolds == Spec => []NoInheritedGroup
  <1>1. Init => GroupsHeld
    BY DEF Init, GroupsHeld
  <1>2. LifecycleInv /\ GroupsHeld => NoInheritedGroup
    BY DEF LifecycleInv, GroupsHeld, CallersHold, NoInheritedGroup
  <1>3. LifecycleInv /\ GroupsHeld /\ [Next]_vars => GroupsHeld'
    BY GroupsStep
  <1> QED
    BY <1>1, <1>2, <1>3, InitLifecycleInv, LifecycleStep, PTL DEF Spec
=============================================================================
