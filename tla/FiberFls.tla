------------------------------ MODULE FiberFls ------------------------------
(***************************************************************************)
(* Fiber local storage (do_fls_alloc, do_fls_get_value, do_fls_free and    *)
(* do_fls_set_value of fibers/fiber.c), on top of the scheduler of         *)
(* FiberKernel.  A call looks its fiber up, tests a bit of the fiber's     *)
(* bitmap and then acts on it, in three steps and under no lock: that no   *)
(* other thread gets in between rests on the scheduler.  The results are   *)
(* those of the wrappers in libfibers/fiberlib.c.                          *)
(***************************************************************************)
EXTENDS FiberKernel

CONSTANTS
  FLS_MAX_SIZE,  \* slots of a fiber
  Values,        \* what user code stores in a slot
  MaxFls         \* bound: storage calls of the process

ASSUME FlsAssumption ==
  /\ FLS_MAX_SIZE \in Nat \ {0} /\ MaxFls \in Nat
  /\ Values \subseteq Int

Slots == 0 .. FLS_MAX_SIZE - 1
EAGAIN == -11
ESRCH  == -3
EACCES == -13

VARIABLES
  bmp,    \* f->fls.bmp: the bits that are set
  data,   \* f->fls.data
  fls,    \* the storage call each thread is in: step, fiber, arguments
  out,    \* what the thread's last storage call returned
  home,   \* history: the fiber of each flow of control
  calls   \* history: storage calls made

fls_vars == <<bmp, data, fls, out, home, calls>>
Ops == {"alloc", "get", "free", "set"}
NoCall == [at |-> "none", op |-> "alloc", fib |-> NO_FIBERS, idx |-> 0, val |-> 0]

FlsInit ==
  /\ Init
  /\ bmp = [f \in Fids |-> {}]
  /\ data = [f \in Fids |-> [i \in Slots |-> 0]]
  /\ fls = [t \in Threads |-> NoCall]
  /\ out = [t \in Threads |-> 0]
  /\ home = [s \in Flows |-> NO_FIBERS]
  /\ calls = 0

-----------------------------------------------------------------------------
(* The scheduler's steps, and what they do to the storage                  *)

(* PREPARE_FLS, in generate_fiber, empties the storage of the new fiber.   *)
PrepareFls(t) ==
  LET new == IF pc[t] \in {"cv_new", "cr_new"} /\ newf'[t] # newf[t] THEN {newf'[t]} ELSE {}
  IN  /\ bmp' = [f \in Fids |-> IF f \in new THEN {} ELSE bmp[f]]
      /\ data' = [f \in Fids |-> IF f \in new THEN [i \in Slots |-> 0] ELSE data[f]]

(* A conversion gives the caller's flow a fiber, a creation gives the new  *)
(* fiber a flow.                                                           *)
RecordHome(t) ==
  home' = IF known' = known THEN home
          ELSE [home EXCEPT ![IF pc[t] = "cr_ctx" THEN newf[t] ELSE regs[t].flow] = newf[t]]

Schedule(t) ==
  /\ fls[t].at = "none"
  /\ \/ ConvertGroup(t)
     \/ CreateFind(t)
     \/ \E f \in Fids : SwitchFind(t, f)
     \/ Kernel(t)
     \/ Idle(t)
  /\ PrepareFls(t)
  /\ RecordHome(t)
  /\ UNCHANGED <<fls, out, calls>>

-----------------------------------------------------------------------------
(* The storage calls                                                       *)

FlsReturn(t, x) ==
  /\ fls' = [fls EXCEPT ![t] = NoCall]
  /\ out' = [out EXCEPT ![t] = x]

(* A call that fails: the wrappers turn every error into -EAGAIN, except   *)
(* that of do_fls_get_value, which travels as the value read.              *)
FlsFail(t, op, code) == FlsReturn(t, IF op = "get" THEN code ELSE EAGAIN)

(* The index is checked, then the caller's current fiber is looked up.     *)
FlsFind(t, op, i, v) ==
  /\ pc[t] = "user" /\ fls[t].at = "none" /\ calls < MaxFls
  /\ calls' = calls + 1
  /\ LET found == {r \in get_thread(t) : group /\ get_fiber(curFid[r])} IN
     IF (op # "alloc" /\ i \notin Slots) \/ found = {}
       THEN FlsFail(t, op, ESRCH)
       ELSE \E r \in found :
              /\ fls' = [fls EXCEPT ![t] = [at |-> "test", op |-> op, fib |-> curFid[r],
                                            idx |-> i, val |-> v]]
              /\ UNCHANGED out
  /\ UNCHANGED <<vars, bmp, data, home>>

(* Seeded fault: do_fls_free does not look at the bit it flips.            *)
FaultFlsTest(t) ==
  LET c == fls[t] IN
  /\ c.at = "test" /\ c.op # "alloc"
  /\ IF c.idx \in bmp[c.fib] \/ c.op = "free"
       THEN fls' = [fls EXCEPT ![t].at = "do"] /\ UNCHANGED out
       ELSE FlsFail(t, c.op, EACCES)
  /\ UNCHANGED <<vars, bmp, data, home, calls>>

(* test_bit: a slot that is not allocated cannot be used.                  *)
FlsTest(t) ==
  LET c == fls[t] IN
  /\ c.at = "test" /\ c.op # "alloc"
  /\ IF c.idx \in bmp[c.fib]
       THEN fls' = [fls EXCEPT ![t].at = "do"] /\ UNCHANGED out
       ELSE FlsFail(t, c.op, EACCES)
  /\ UNCHANGED <<vars, bmp, data, home, calls>>

(* find_first_zero_bit: the lowest free slot, if there is one.             *)
FlsFirstZero(t) ==
  LET c == fls[t]
      zero == Slots \ bmp[c.fib] IN
  /\ c.at = "test" /\ c.op = "alloc"
  /\ IF zero = {}
       THEN FlsFail(t, c.op, EAGAIN)
       ELSE \E i \in zero : /\ \A j \in zero : i <= j
                            /\ fls' = [fls EXCEPT ![t].at = "do", ![t].idx = i]
                            /\ UNCHANGED out
  /\ UNCHANGED <<vars, bmp, data, home, calls>>

(* change_bit, a read-modify-write of one bit: it flips what it finds.     *)
ChangeBit(f, i) ==
  bmp' = [bmp EXCEPT ![f] = IF i \in @ THEN @ \ {i} ELSE @ \cup {i}]

FlsChange(t) ==
  LET c == fls[t] IN
  /\ c.at = "do" /\ c.op \in {"alloc", "free"}
  /\ ChangeBit(c.fib, c.idx)
  /\ FlsReturn(t, IF c.op = "alloc" THEN c.idx ELSE 0)
  /\ UNCHANGED <<vars, data, home, calls>>

FlsRead(t) ==
  LET c == fls[t] IN
  /\ c.at = "do" /\ c.op = "get"
  /\ FlsReturn(t, data[c.fib][c.idx])
  /\ UNCHANGED <<vars, bmp, data, home, calls>>

FlsWrite(t) ==
  LET c == fls[t] IN
  /\ c.at = "do" /\ c.op = "set"
  /\ data' = [data EXCEPT ![c.fib][c.idx] = c.val]
  /\ FlsReturn(t, c.idx)
  /\ UNCHANGED <<vars, bmp, home, calls>>

Fls(t) == FlsTest(t) \/ FlsFirstZero(t) \/ FlsChange(t) \/ FlsRead(t) \/ FlsWrite(t)

FlsNext ==
  \E t \in Threads :
    \/ Schedule(t)
    \/ FlsFind(t, "alloc", 0, 0)
    \/ \E i \in -1 .. FLS_MAX_SIZE : \E op \in {"get", "free"} : FlsFind(t, op, i, 0)
    \/ \E i \in -1 .. FLS_MAX_SIZE, v \in Values : FlsFind(t, "set", i, v)
    \/ Fls(t)

FlsSpec == FlsInit /\ [][FlsNext]_<<vars, fls_vars>>

-----------------------------------------------------------------------------
(* Properties                                                              *)

(* The bit a call has tested is still as it was when the call acts on it,  *)
(* although no lock is held in between and whatever fids the callers       *)
(* guess: find_first_zero_bit followed by change_bit never hands out an    *)
(* allocated slot, free never sets the bit it means to clear, and nobody   *)
(* reads or writes a slot freed meanwhile.                                 *)
TestStillHolds ==
  \A t \in Threads :
    fls[t].at = "do" =>
      (fls[t].idx \in bmp[fls[t].fib]) = (fls[t].op # "alloc")

(* Storage belongs to the flow of control, not to the thread: do_fls_*     *)
(* implement slots that follow a flow from thread to thread and that       *)
(* change atomically, with every operation answered from the slots of the  *)
(* flow that asked.                                                        *)
Storage ==
  INSTANCE FlowStorage WITH
    Size    <- FLS_MAX_SIZE,
    running <- [t \in Threads |-> IF pc[t] = "sw_load" THEN ctx[newf[t]].flow
                                                       ELSE regs[t].flow],
    member  <- {s \in Flows : home[s] # NO_FIBERS},
    used    <- [s \in Flows |-> IF home[s] = NO_FIBERS THEN {} ELSE bmp[home[s]]],
    value   <- [s \in Flows |-> IF home[s] = NO_FIBERS THEN [i \in Slots |-> 0]
                                                       ELSE data[home[s]]],
    result  <- out
ImplementsFlowStorage == Storage!Spec
=============================================================================
