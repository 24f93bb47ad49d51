---------------------------- MODULE FiberKernel ----------------------------
(***************************************************************************)
(* The fiber scheduler of the kernel module (fibers/fiber.c and the macros *)
(* of fibers/include/fiber.h) for the threads of one process: conversion   *)
(* of a thread, creation of a fiber and the switch from one fiber to       *)
(* another.  Nothing but the creation of the thread group (plock) and the  *)
(* try-lock of a fiber (flock) is synchronised, so every access to shared  *)
(* memory that another thread can observe is a step of its own.            *)
(*                                                                         *)
(* A register image (struct pt_regs and struct fpu) is abstracted to a     *)
(* point of a flow of control: which stack it runs on and how far it got.  *)
(* A hash bucket is the set of the nodes on its chain.                     *)
(***************************************************************************)
EXTENDS Integers, FiniteSets, Functions

CONSTANTS
  Threads,      \* the pids of the process' threads
  NoThread,     \* info.state = 0: no thread runs the fiber
  MaxFid,       \* bound: fids are 0 .. MaxFid
  MaxConverts,  \* bound: struct thread records one pid may get
  MaxTries,     \* bound: thread -> try-locks it may attempt
  MaxSteps,     \* bound: user-mode steps of one flow
  AnyFid,       \* may a caller name a fid it was never given?
  Mortal,       \* the threads that may exit, or oops on a failed kmalloc
  TBucket,      \* the bucket of tg->threads a pid hashes to
  FBucket       \* the bucket of tg->fibers a fid hashes to

NO_FIBERS == -1
Fids == 0 .. MaxFid
Recs == Threads \X (1 .. MaxConverts)
NoRec == <<NoThread, 0>>
Flows == Threads \cup Fids
Points == [flow : Flows, at : Nat]

ASSUME ConstantsAssumption ==
  /\ NoThread \notin Threads
  /\ Threads \cap Fids = {}
  /\ MaxFid \in Nat /\ MaxConverts \in Nat
  /\ MaxTries \in [Threads -> Nat] /\ MaxSteps \in Nat
  /\ AnyFid \in BOOLEAN
  /\ Mortal \subseteq Threads
  /\ DOMAIN TBucket = Threads /\ DOMAIN FBucket = Fids

TBuckets == {TBucket[t] : t \in Threads}
FBuckets == {FBucket[f] : f \in Fids}

VARIABLES
  group,     \* is the thread_group of the process in the groups table?
  fidCount,  \* tg->fid_count
  thrTab,    \* tg->threads: bucket -> records on its chain
  fibTab,    \* tg->fibers: bucket -> fids on its chain
  nrec,      \* pid -> struct thread records generated for it
  curFid,    \* t->current_fid of every record
  flock,     \* f->flock: held or not
  state,     \* f->info.state
  ctx,       \* f->context
  succ,      \* f->info.successful_activations
  failed,    \* f->info.failed_activations
  lastAct,   \* f->info.last_activation_time
  total,     \* f->info.total_running_time
  pc,        \* where in the module each thread is
  rec,       \* local "t": the caller's record
  newf,      \* local "f" / "new_f"
  oldf,      \* local "old_f"
  tsnap,     \* hash_add_rcu: the chain of tg->threads read as "first"
  fsnap,     \* hash_add_rcu: the chain of tg->fibers read as "first"
  ret,       \* result of the thread's last ioctl
  regs,      \* user registers of the thread
  utime,     \* task->utime
  pos,       \* history: how far each flow of control has got
  known,     \* history: fids handed to user space
  born,      \* history: fids whose flow do_create_fiber has made
  tries      \* history: try-locks attempted by each thread

group_vars == <<group, thrTab, nrec>>
fiber_vars == <<fidCount, fibTab>>
lock_vars  == <<flock, state>>
info_vars  == <<succ, failed, lastAct, total>>
local_vars == <<rec, newf, oldf, tsnap, fsnap>>
cpu_vars   == <<regs, utime, pos>>
vars == <<group_vars, fiber_vars, curFid, lock_vars, ctx, info_vars,
          pc, local_vars, ret, cpu_vars, known, born, tries>>

Labels == {"user", "dead",
           "cv_find", "cv_snapt", "cv_addt", "cv_new", "cv_snapf", "cv_addf",
           "cv_lock", "cv_act",
           "cr_new", "cr_snapf", "cr_addf", "cr_ctx",
           "sw_lock", "sw_old", "sw_save", "sw_clear", "sw_unlock", "sw_load"}
Codes == {"none", "OK", "EEXIST", "ESRCH", "EAGAIN"}

-----------------------------------------------------------------------------
Init ==
  /\ group = FALSE
  /\ fidCount = NO_FIBERS
  /\ thrTab = [b \in TBuckets |-> {}]
  /\ fibTab = [b \in FBuckets |-> {}]
  /\ nrec = [t \in Threads |-> 0]
  /\ curFid = [r \in Recs |-> NO_FIBERS]
  /\ flock = [f \in Fids |-> FALSE]
  /\ state = [f \in Fids |-> NoThread]
  /\ ctx = [f \in Fids |-> [flow |-> f, at |-> 0]]
  /\ succ = [f \in Fids |-> 0]
  /\ failed = [f \in Fids |-> 0]
  /\ lastAct = [f \in Fids |-> 0]
  /\ total = [f \in Fids |-> 0]
  /\ pc = [t \in Threads |-> "user"]
  /\ rec = [t \in Threads |-> NoRec]
  /\ newf = [t \in Threads |-> NO_FIBERS]
  /\ oldf = [t \in Threads |-> NO_FIBERS]
  /\ tsnap = [t \in Threads |-> {}]
  /\ fsnap = [t \in Threads |-> {}]
  /\ ret = [t \in Threads |-> "none"]
  /\ regs = [t \in Threads |-> [flow |-> t, at |-> 0]]
  /\ utime = [t \in Threads |-> 0]
  /\ pos = [s \in Flows |-> 0]
  /\ known = {}
  /\ born = {}
  /\ tries = [t \in Threads |-> 0]

Goto(t, from, to) == pc[t] = from /\ pc' = [pc EXCEPT ![t] = to]

(* The ioctl returns: the handler's locals are gone.                       *)
Return(t, code) ==
  /\ pc' = [pc EXCEPT ![t] = "user"]
  /\ ret' = [ret EXCEPT ![t] = code]
  /\ rec' = [rec EXCEPT ![t] = NoRec]
  /\ newf' = [newf EXCEPT ![t] = NO_FIBERS]
  /\ oldf' = [oldf EXCEPT ![t] = NO_FIBERS]
  /\ UNCHANGED <<tsnap, fsnap>>

(* get_thread: the record of pid t the walk of its chain meets first, as a *)
(* set that is empty for NULL.  A node goes in at the head of the chain,   *)
(* so that is the youngest one.                                            *)
get_thread(t) ==
  {r \in thrTab[TBucket[t]] :
     r[1] = t /\ \A q \in thrTab[TBucket[t]] : q[1] = t => q[2] <= r[2]}

(* get_fiber(f) # NULL                                                     *)
get_fiber(f) == f \in Fids /\ f \in fibTab[FBucket[f]]

(* The bound on fids, in the guard of the calls that draw one.             *)
FidLeft ==
  fidCount + Cardinality({t \in Threads :
      pc[t] \in {"cv_find", "cv_snapt", "cv_addt", "cv_new", "cr_new"}}) < MaxFid

-----------------------------------------------------------------------------
(* do_convert_thread_to_fiber                                              *)

(* The critical section of plock: the group is looked up and, the first    *)
(* time, generated with an empty fid counter.                              *)
ConvertGroup(t) ==
  /\ FidLeft /\ nrec[t] < MaxConverts /\ tries[t] < MaxTries[t]
  /\ Goto(t, "user", "cv_find")
  /\ group' = TRUE
  /\ UNCHANGED <<thrTab, nrec, fiber_vars, curFid, lock_vars, ctx, info_vars,
                 local_vars, ret, cpu_vars, known, born, tries>>

(* get_thread: a thread that already has a record is refused.              *)
ConvertFind(t) ==
  /\ pc[t] = "cv_find"
  /\ IF get_thread(t) # {}
       THEN Return(t, "EEXIST")
       ELSE pc' = [pc EXCEPT ![t] = "cv_snapt"] /\ UNCHANGED <<local_vars, ret>>
  /\ UNCHANGED <<group_vars, fiber_vars, curFid, lock_vars, ctx, info_vars,
                 cpu_vars, known, born, tries>>

(* generate_thread up to hash_add_rcu's read of the bucket's first node.   *)
GenerateThread(t) ==
  /\ Goto(t, "cv_snapt", "cv_addt")
  /\ nrec' = [nrec EXCEPT ![t] = @ + 1]
  /\ rec' = [rec EXCEPT ![t] = <<t, nrec[t] + 1>>]
  /\ curFid' = [curFid EXCEPT ![<<t, nrec[t] + 1>>] = NO_FIBERS]
  /\ tsnap' = [tsnap EXCEPT ![t] = thrTab[TBucket[t]]]
  /\ UNCHANGED <<group, thrTab, fiber_vars, lock_vars, ctx, info_vars,
                 newf, oldf, fsnap, ret, cpu_vars, known, born, tries>>

(* hash_add_rcu's store: the new node, chained to what was read as first,  *)
(* becomes the bucket's head whatever was added in between.                *)
AddThread(t) ==
  /\ Goto(t, "cv_addt", "cv_new")
  /\ thrTab' = [thrTab EXCEPT ![TBucket[t]] = tsnap[t] \cup {rec[t]}]
  /\ tsnap' = [tsnap EXCEPT ![t] = {}]
  /\ UNCHANGED <<group, nrec, fiber_vars, curFid, lock_vars, ctx, info_vars,
                 rec, newf, oldf, fsnap, ret, cpu_vars, known, born, tries>>

(* Seeded fault: the result of spin_trylock is ignored, only state tested. *)
FaultCanActivate(f) == state[f] = NoThread

(* The two tests of the activation: the fiber is taken when spin_trylock   *)
(* succeeds and info.state is 0.                                           *)
CanActivate(f) == ~flock[f] /\ state[f] = NoThread

(* spin_trylock leaves the lock held whether or not it was free; a failure *)
(* is counted.                                                             *)
TryActivate(t, f) ==
  /\ flock' = [flock EXCEPT ![f] = TRUE]
  /\ tries' = [tries EXCEPT ![t] = @ + 1]
  /\ failed' = [failed EXCEPT ![f] = IF CanActivate(f) THEN @ ELSE @ + 1]

(* Seeded fault: the pid is stored where the fid belongs.                  *)
FaultActivatePid(t, f) ==
  /\ state' = [state EXCEPT ![f] = t]
  /\ succ' = [succ EXCEPT ![f] = @ + 1]
  /\ lastAct' = [lastAct EXCEPT ![f] = utime[t]]
  /\ curFid' = [curFid EXCEPT ![rec[t]] = t]

(* Seeded fault: last_activation_time is not refreshed.                    *)
FaultActivateTime(t, f) ==
  /\ state' = [state EXCEPT ![f] = t]
  /\ succ' = [succ EXCEPT ![f] = @ + 1]
  /\ UNCHANGED lastAct
  /\ curFid' = [curFid EXCEPT ![rec[t]] = f]

(* ACTIVATE_FIBER_FROM_THREAD(f, t)                                        *)
Activate(t, f) ==
  /\ state' = [state EXCEPT ![f] = t]
  /\ succ' = [succ EXCEPT ![f] = @ + 1]
  /\ lastAct' = [lastAct EXCEPT ![f] = utime[t]]
  /\ curFid' = [curFid EXCEPT ![rec[t]] = f]

ConvertLock(t) ==
  /\ pc[t] = "cv_lock"
  /\ TryActivate(t, newf[t])
  /\ IF CanActivate(newf[t])
       THEN pc' = [pc EXCEPT ![t] = "cv_act"] /\ UNCHANGED <<local_vars, ret>>
       ELSE Return(t, "EAGAIN")
  /\ UNCHANGED <<group_vars, fiber_vars, curFid, state, ctx,
                 succ, lastAct, total, cpu_vars, known, born>>

ConvertActivate(t) ==
  /\ pc[t] = "cv_act"
  /\ Activate(t, newf[t])
  /\ known' = known \cup {newf[t]}
  /\ Return(t, "OK")
  /\ UNCHANGED <<group_vars, fiber_vars, flock, ctx, failed, total,
                 cpu_vars, born, tries>>

-----------------------------------------------------------------------------
(* generate_fiber, called by do_convert_thread_to_fiber and by             *)
(* do_create_fiber                                                         *)

(* The fid is drawn from the atomic counter and every field is set; the    *)
(* context is a copy of the caller's registers.                            *)
GenerateFiber(t, from, to) ==
  LET f == fidCount + 1 IN
  /\ Goto(t, from, to)
  /\ f <= MaxFid
  /\ fidCount' = f
  /\ newf' = [newf EXCEPT ![t] = f]
  /\ flock' = [flock EXCEPT ![f] = FALSE]
  /\ state' = [state EXCEPT ![f] = NoThread]
  /\ ctx' = [ctx EXCEPT ![f] = regs[t]]
  /\ succ' = [succ EXCEPT ![f] = 0]
  /\ failed' = [failed EXCEPT ![f] = 0]
  /\ lastAct' = [lastAct EXCEPT ![f] = 0]
  /\ total' = [total EXCEPT ![f] = 0]
  /\ UNCHANGED <<group_vars, fibTab, curFid, rec, oldf, tsnap, fsnap, ret,
                 cpu_vars, known, born, tries>>

(* hash_add_rcu reads the first node of the fiber's bucket ...             *)
ReadFirst(t, from, to) ==
  /\ Goto(t, from, to)
  /\ fsnap' = [fsnap EXCEPT ![t] = fibTab[FBucket[newf[t]]]]
  /\ UNCHANGED <<group_vars, fiber_vars, curFid, lock_vars, ctx, info_vars,
                 rec, newf, oldf, tsnap, ret, cpu_vars, known, born, tries>>

(* Seeded fault: the new node is not chained to the old ones.              *)
FaultAddFiber(t, from, to) ==
  /\ Goto(t, from, to)
  /\ fibTab' = [fibTab EXCEPT ![FBucket[newf[t]]] = {newf[t]}]
  /\ fsnap' = [fsnap EXCEPT ![t] = {}]
  /\ UNCHANGED <<group_vars, fidCount, curFid, lock_vars, ctx, info_vars,
                 rec, newf, oldf, tsnap, ret, cpu_vars, known, born, tries>>

(* ... and stores the new head.                                            *)
AddFiber(t, from, to) ==
  /\ Goto(t, from, to)
  /\ fibTab' = [fibTab EXCEPT ![FBucket[newf[t]]] = fsnap[t] \cup {newf[t]}]
  /\ fsnap' = [fsnap EXCEPT ![t] = {}]
  /\ UNCHANGED <<group_vars, fidCount, curFid, lock_vars, ctx, info_vars,
                 rec, newf, oldf, tsnap, ret, cpu_vars, known, born, tries>>

-----------------------------------------------------------------------------
(* do_create_fiber                                                         *)

(* get_group and get_thread: only a converted thread may create.           *)
CreateFind(t) ==
  /\ pc[t] = "user"
  /\ FidLeft
  /\ IF group /\ get_thread(t) # {}
       THEN /\ pc' = [pc EXCEPT ![t] = "cr_new"]
            /\ \E r \in get_thread(t) : rec' = [rec EXCEPT ![t] = r]
            /\ UNCHANGED <<newf, oldf, tsnap, fsnap, ret>>
       ELSE Return(t, "ESRCH")
  /\ UNCHANGED <<group_vars, fiber_vars, curFid, lock_vars, ctx, info_vars,
                 cpu_vars, known, born, tries>>

(* Seeded fault: ALLOC_CONTEXT is forgotten.                               *)
FaultCreateContext(t) ==
  /\ pc[t] = "cr_ctx"
  /\ known' = known \cup {newf[t]}
  /\ born' = born \cup {newf[t]}
  /\ Return(t, "OK")
  /\ UNCHANGED <<group_vars, fiber_vars, curFid, lock_vars, ctx, info_vars,
                 cpu_vars, tries>>

(* ALLOC_STACK and ALLOC_CONTEXT: the fiber, which other threads can       *)
(* already look up, gets its own stack and its entry point.                *)
CreateContext(t) ==
  /\ pc[t] = "cr_ctx"
  /\ ctx' = [ctx EXCEPT ![newf[t]] = [flow |-> newf[t], at |-> 0]]
  /\ known' = known \cup {newf[t]}
  /\ born' = born \cup {newf[t]}
  /\ Return(t, "OK")
  /\ UNCHANGED <<group_vars, fiber_vars, curFid, lock_vars, info_vars,
                 cpu_vars, tries>>

-----------------------------------------------------------------------------
(* do_switch_to_fiber                                                      *)

(* get_group, get_thread and get_fiber of the requested fid.               *)
SwitchFind(t, f) ==
  /\ pc[t] = "user"
  /\ tries[t] < MaxTries[t]
  /\ AnyFid \/ f \in known
  /\ IF group /\ get_thread(t) # {} /\ get_fiber(f)
       THEN /\ pc' = [pc EXCEPT ![t] = "sw_lock"]
            /\ \E r \in get_thread(t) : rec' = [rec EXCEPT ![t] = r]
            /\ newf' = [newf EXCEPT ![t] = f]
            /\ UNCHANGED <<oldf, tsnap, fsnap, ret>>
       ELSE Return(t, "ESRCH")
  /\ UNCHANGED <<group_vars, fiber_vars, curFid, lock_vars, ctx, info_vars,
                 cpu_vars, known, born, tries>>

(* Seeded fault: spin_lock instead of spin_trylock.                        *)
FaultSwitchLock(t) ==
  /\ Goto(t, "sw_lock", "sw_old")
  /\ CanActivate(newf[t])
  /\ TryActivate(t, newf[t])
  /\ UNCHANGED <<group_vars, fiber_vars, curFid, state, ctx, local_vars, ret,
                 succ, lastAct, total, cpu_vars, known, born>>

SwitchLock(t) ==
  /\ pc[t] = "sw_lock"
  /\ TryActivate(t, newf[t])
  /\ IF CanActivate(newf[t])
       THEN pc' = [pc EXCEPT ![t] = "sw_old"] /\ UNCHANGED <<local_vars, ret>>
       ELSE Return(t, "EAGAIN")
  /\ UNCHANGED <<group_vars, fiber_vars, curFid, state, ctx,
                 succ, lastAct, total, cpu_vars, known, born>>

(* The fiber the thread leaves is looked up after the new one is locked;   *)
(* when it is missing the call fails with that lock still held.            *)
SwitchActivate(t) ==
  /\ pc[t] = "sw_old"
  /\ IF get_fiber(curFid[rec[t]])
       THEN /\ oldf' = [oldf EXCEPT ![t] = curFid[rec[t]]]
            /\ Activate(t, newf[t])
            /\ pc' = [pc EXCEPT ![t] = "sw_save"]
            /\ UNCHANGED <<rec, newf, tsnap, fsnap, ret>>
       ELSE Return(t, "ESRCH") /\ UNCHANGED <<curFid, state, succ, lastAct>>
  /\ UNCHANGED <<group_vars, fiber_vars, flock, ctx, failed, total,
                 cpu_vars, known, born, tries>>

(* Seeded fault: the registers are saved in the fiber that is entered.     *)
FaultSwitchSave(t) ==
  /\ Goto(t, "sw_save", "sw_clear")
  /\ ctx' = [ctx EXCEPT ![newf[t]] = regs[t]]
  /\ total' = [total EXCEPT ![oldf[t]] = @ + (utime[t] - lastAct[oldf[t]])]
  /\ UNCHANGED <<group_vars, fiber_vars, curFid, lock_vars, succ, failed,
                 lastAct, local_vars, ret, cpu_vars, known, born, tries>>

(* The registers go into the old fiber's context and the time it ran is    *)
(* added to its total.                                                     *)
SwitchSave(t) ==
  LET o == oldf[t] IN
  /\ Goto(t, "sw_save", "sw_clear")
  /\ ctx' = [ctx EXCEPT ![o] = regs[t]]
  /\ total' = [total EXCEPT ![o] = @ + (utime[t] - lastAct[o])]
  /\ UNCHANGED <<group_vars, fiber_vars, curFid, lock_vars, succ, failed,
                 lastAct, local_vars, ret, cpu_vars, known, born, tries>>

(* Seeded fault: info.state is left as it was.                             *)
FaultSwitchClear(t) ==
  /\ Goto(t, "sw_clear", "sw_unlock")
  /\ UNCHANGED <<group_vars, fiber_vars, curFid, lock_vars, ctx, info_vars,
                 local_vars, ret, cpu_vars, known, born, tries>>

(* atomic_set(&old_f->info.state, 0)                                       *)
SwitchClear(t) ==
  /\ Goto(t, "sw_clear", "sw_unlock")
  /\ state' = [state EXCEPT ![oldf[t]] = NoThread]
  /\ UNCHANGED <<group_vars, fiber_vars, curFid, flock, ctx, info_vars,
                 local_vars, ret, cpu_vars, known, born, tries>>

(* Seeded fault: the old fiber stays locked.                               *)
FaultSwitchUnlock(t) ==
  /\ Goto(t, "sw_unlock", "sw_load")
  /\ UNCHANGED <<group_vars, fiber_vars, curFid, lock_vars, ctx, info_vars,
                 local_vars, ret, cpu_vars, known, born, tries>>

(* spin_unlock(&(old_f->flock)): from here on anyone may run the old fiber *)
SwitchUnlock(t) ==
  /\ Goto(t, "sw_unlock", "sw_load")
  /\ flock' = [flock EXCEPT ![oldf[t]] = FALSE]
  /\ UNCHANGED <<group_vars, fiber_vars, curFid, state, ctx, info_vars,
                 local_vars, ret, cpu_vars, known, born, tries>>

(* The new fiber's context replaces the thread's registers.                *)
SwitchLoad(t) ==
  /\ pc[t] = "sw_load"
  /\ regs' = [regs EXCEPT ![t] = ctx[newf[t]]]
  /\ Return(t, "OK")
  /\ UNCHANGED <<group_vars, fiber_vars, curFid, lock_vars, ctx, info_vars,
                 utime, pos, known, born, tries>>

-----------------------------------------------------------------------------
(* The environment                                                         *)

(* User code runs for one unit of time and gets one step further.          *)
Run(t) ==
  LET p == regs[t] IN
  /\ pc[t] = "user"
  /\ p.at < MaxSteps
  /\ regs' = [regs EXCEPT ![t].at = @ + 1]
  /\ pos' = [pos EXCEPT ![p.flow] = p.at + 1]
  /\ utime' = [utime EXCEPT ![t] = @ + 1]
  /\ UNCHANGED <<group_vars, fiber_vars, curFid, lock_vars, ctx, info_vars,
                 pc, local_vars, ret, known, born, tries>>

(* User code that is past the bounds goes on without being observed.       *)
Idle(t) == pc[t] = "user" /\ UNCHANGED vars

(* The thread exits in user mode: the module has no hook for that.         *)
Exit(t) ==
  /\ t \in Mortal
  /\ Goto(t, "user", "dead")
  /\ UNCHANGED <<group_vars, fiber_vars, curFid, lock_vars, ctx, info_vars,
                 local_vars, ret, cpu_vars, known, born, tries>>

(* kmalloc returns NULL in one of the generate functions: the caller goes  *)
(* on with -ESRCH as a pointer and faults on it.  A missing struct thread  *)
(* is noticed in PREPARE_INFO, when the fid is already drawn, unless the   *)
(* struct fiber could not be allocated either.                             *)
KmallocFails(t) ==
  /\ t \in Mortal
  /\ \/ pc[t] = "user" /\ ~group /\ UNCHANGED fidCount
     \/ pc[t] = "cv_snapt" /\ fidCount' \in {fidCount, fidCount + 1} \cap (-1 .. MaxFid)
     \/ pc[t] \in {"cv_new", "cr_new"} /\ UNCHANGED fidCount
  /\ pc' = [pc EXCEPT ![t] = "dead"]
  /\ UNCHANGED <<group_vars, fibTab, curFid, lock_vars, ctx, info_vars,
                 local_vars, ret, cpu_vars, known, born, tries>>

-----------------------------------------------------------------------------
Convert(t) ==
  \/ ConvertFind(t)
  \/ GenerateThread(t)
  \/ AddThread(t)
  \/ GenerateFiber(t, "cv_new", "cv_snapf")
  \/ ReadFirst(t, "cv_snapf", "cv_addf")
  \/ AddFiber(t, "cv_addf", "cv_lock")
  \/ ConvertLock(t)
  \/ ConvertActivate(t)

Create(t) ==
  \/ GenerateFiber(t, "cr_new", "cr_snapf")
  \/ ReadFirst(t, "cr_snapf", "cr_addf")
  \/ AddFiber(t, "cr_addf", "cr_ctx")
  \/ CreateContext(t)

(* Seeded fault: the old fiber is unlocked before its context is saved.    *)
FaultSwitch(t) ==
  \/ SwitchLock(t)
  \/ SwitchActivate(t)
  \/ /\ Goto(t, "sw_save", "sw_unlock")
     /\ state' = [state EXCEPT ![oldf[t]] = NoThread]
     /\ flock' = [flock EXCEPT ![oldf[t]] = FALSE]
     /\ UNCHANGED <<group_vars, fiber_vars, curFid, ctx, info_vars,
                    local_vars, ret, cpu_vars, known, born, tries>>
  \/ /\ Goto(t, "sw_unlock", "sw_load")
     /\ ctx' = [ctx EXCEPT ![oldf[t]] = regs[t]]
     /\ total' = [total EXCEPT ![oldf[t]] = @ + (utime[t] - lastAct[oldf[t]])]
     /\ UNCHANGED <<group_vars, fiber_vars, curFid, lock_vars, succ, failed,
                    lastAct, local_vars, ret, cpu_vars, known, born, tries>>
  \/ SwitchLoad(t)

Switch(t) ==
  \/ SwitchLock(t)
  \/ SwitchActivate(t)
  \/ SwitchSave(t)
  \/ SwitchClear(t)
  \/ SwitchUnlock(t)
  \/ SwitchLoad(t)

(* What the thread does inside the module, once it has entered it.         *)
Kernel(t) == Convert(t) \/ Create(t) \/ Switch(t)

Next ==
  \E t \in Threads :
    \/ ConvertGroup(t)
    \/ CreateFind(t)
    \/ \E f \in Fids : SwitchFind(t, f)
    \/ Kernel(t)
    \/ Run(t)
    \/ Idle(t)
    \/ Exit(t)
    \/ KmallocFails(t)

Spec == Init /\ [][Next]_vars

(* A thread in the module is not preempted for ever, and it waits for no   *)
(* other thread: past the critical section of plock it only try-locks.     *)
Fairness == \A t \in Threads : WF_vars(Kernel(t))
FairSpec == Spec /\ Fairness

-----------------------------------------------------------------------------
(* Properties                                                              *)

(* Every field of struct thread_group, thread and fiber keeps its type, and *)
(* fid_count never names a fiber that was not generated.                   *)
TypeOK ==
  /\ group \in BOOLEAN
  /\ fidCount \in -1 .. MaxFid
  /\ thrTab \in [TBuckets -> SUBSET Recs]
  /\ fibTab \in [FBuckets -> SUBSET Fids]
  /\ nrec \in [Threads -> 0 .. MaxConverts]
  /\ curFid \in [Recs -> Fids \cup {NO_FIBERS}]
  /\ flock \in [Fids -> BOOLEAN]
  /\ state \in [Fids -> Threads \cup {NoThread}]
  /\ ctx \in [Fids -> Points]
  /\ succ \in [Fids -> Nat] /\ failed \in [Fids -> Nat]
  /\ lastAct \in [Fids -> Nat] /\ total \in [Fids -> Int]
  /\ pc \in [Threads -> Labels]
  /\ rec \in [Threads -> Recs \cup {NoRec}]
  /\ newf \in [Threads -> Fids \cup {NO_FIBERS}]
  /\ oldf \in [Threads -> Fids \cup {NO_FIBERS}]
  /\ tsnap \in [Threads -> SUBSET Recs]
  /\ fsnap \in [Threads -> SUBSET Fids]
  /\ ret \in [Threads -> Codes]
  /\ regs \in [Threads -> Points]
  /\ utime \in [Threads -> Nat] /\ tries \in [Threads -> Nat]
  /\ pos \in [Flows -> Nat]
  /\ known \subseteq Fids /\ born \subseteq Fids

(* Who has a claim on the lock of fiber f: a record that runs it, a thread *)
(* that took the lock and has not activated the fiber yet, a thread that   *)
(* is leaving the fiber and has not released it yet.                       *)
Active(r, f)  == curFid[r] = f
Pending(t, f) == pc[t] \in {"cv_act", "sw_old"} /\ newf[t] = f
Leaving(t, f) == pc[t] \in {"sw_save", "sw_clear", "sw_unlock"} /\ oldf[t] = f

(* Mutual exclusion, whatever fids the callers guess and whatever the      *)
(* unsynchronised tables lose: a fiber that is run, being taken or being   *)
(* left is locked, and never by two threads at once.  This is what the     *)
(* trylock in do_switch_to_fiber and do_convert_thread_to_fiber is for.    *)
MutualExclusion ==
  \A f \in Fids :
    /\ \A r \in Recs : Active(r, f) => flock[f]
    /\ \A t \in Threads : Pending(t, f) \/ Leaving(t, f) => flock[f]
    /\ \A r, q \in Recs : Active(r, f) /\ Active(q, f) => r = q
    /\ \A t, u \in Threads :
         (Pending(t, f) \/ Leaving(t, f)) /\ (Pending(u, f) \/ Leaving(u, f)) => t = u
    /\ \A r \in Recs, t \in Threads : Active(r, f) => ~Pending(t, f) /\ ~Leaving(t, f)

(* info.state, which /proc shows as "Currently used by Thread", names the  *)
(* thread that runs the fiber, and a fiber nobody holds is marked free.    *)
(* The second half makes the state test after a successful spin_trylock    *)
(* redundant: were it ever to fail, the lock just taken would be lost.     *)
StateNamesRunner ==
  \A f \in Fids :
    /\ ~flock[f] => state[f] = NoThread
    /\ \A r \in Recs : Active(r, f) => state[f] = r[1]
    /\ state[f] # NoThread =>
         \/ \E r \in Recs : Active(r, f) /\ r[1] = state[f]
         \/ \E t \in Threads : Leaving(t, f) /\ t = state[f]

(* A flow of control is never lost, duplicated or rewound: no two threads  *)
(* run in user mode on the same stack, and each is at the latest point of  *)
(* its flow.  This is what saving the context before spin_unlock, and      *)
(* loading it only under the new fiber's lock, is for.                     *)
OneThreadPerFlow ==
  \A t \in Threads :
    pc[t] = "user" =>
      /\ regs[t].at = pos[regs[t].flow]
      /\ \A u \in Threads \ {t} : pc[u] = "user" => regs[u].flow # regs[t].flow

(* total_running_time is the time the fiber really ran: for a fiber that   *)
(* is not running, the number of user steps its flow has made (a converted *)
(* thread may have run before its conversion).  It holds because the same  *)
(* thread, hence the same utime clock, starts and ends an activation.      *)
TimeAccounted ==
  \A f \in known :
    ~flock[f] =>
      /\ ctx[f].flow = f => total[f] = ctx[f].at
      /\ ctx[f].flow # f => total[f] \in 0 .. ctx[f].at

(* Every lock taken is accounted for, whatever the tables lose, the        *)
(* callers guess and the threads leave behind when they die: a try-lock    *)
(* is counted once, as a success or as a failure of the fiber it named,    *)
(* although successful_activations++ is not atomic, or its thread has      *)
(* still to activate the fiber, or it is one lock that nobody can release  *)
(* any more.  So do_switch_to_fiber's return for a missing old fiber is    *)
(* the only way a lock is lost, and /proc shows how many are.              *)
Claimants == {t \in Threads : \E f \in Fids : Pending(t, f)}
Leaked ==
  {f \in Fids : /\ flock[f]
                /\ \A r \in Recs : ~Active(r, f)
                /\ \A t \in Threads : ~Pending(t, f) /\ ~Leaving(t, f)}
ActivationLedger ==
  SumFunction(succ) + SumFunction(failed) + Cardinality(Claimants) + Cardinality(Leaked)
    = SumFunction(tries)

(* Every fid and every thread record handed out can be looked up.          *)
NothingLost ==
  /\ \A f \in known : get_fiber(f)
  /\ \A t \in Threads : pc[t] = "user" /\ nrec[t] > 0 => get_thread(t) # {}

(* No two threads are inside hash_add_rcu on the same chain.               *)
NoOverlap ==
  \A t, u \in Threads : t # u =>
    /\ pc[t] = "cv_addt" /\ pc[u] = "cv_addt" => TBucket[t] # TBucket[u]
    /\ pc[t] \in {"cv_addf", "cr_addf"} /\ pc[u] \in {"cv_addf", "cr_addf"} =>
         FBucket[newf[t]] # FBucket[newf[u]]

(* The tables lose a fiber or a thread record in one way only: two threads *)
(* were at once between the read and the store of the unlocked             *)
(* hash_add_rcu, in the same bucket.  Sharing a bucket does no harm, and   *)
(* neither does a death or a lookup in between.                            *)
LossNeedsOverlap == []NoOverlap => []NothingLost

(* A fiber's context is only written by the thread that is leaving it or   *)
(* before its fid is given out.                                            *)
ContextWrites ==
  [][\A f \in Fids :
       ctx'[f] # ctx[f] =>
         f \notin known \/ \E t \in Threads : pc[t] = "sw_save" /\ oldf[t] = f]_vars

(* The scheduler implements coroutines: the switch takes effect when the   *)
(* old fiber is unlocked, the flow of a created fiber exists from the      *)
(* moment its fid is returned.                                             *)
Abstract ==
  INSTANCE Coroutines WITH
    Fibers  <- Fids,
    running <- [t \in Threads |-> IF pc[t] = "sw_load" THEN ctx[newf[t]].flow
                                                       ELSE regs[t].flow]
ImplementsCoroutines == Abstract!Spec

(* Every ioctl returns, so that a thread is outside the module again and   *)
(* again: the module only ever try-locks, and two threads that switch to   *)
(* each other's fibers cannot wait for one another.                        *)
EveryCallReturns == \A t \in Threads : []<>(pc[t] \in {"user", "dead"})
=============================================================================
