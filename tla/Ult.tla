-------------------------------- MODULE Ult --------------------------------
(***************************************************************************)
(* The user-space fibers of the testbed (libfibers/testbed/src/ult.c with  *)
(* the macros of ult.h and jmp.h and the assembly of jmp.S): conversion,   *)
(* creation through a signal stack, and the switch, which nothing but a    *)
(* test-and-set flag per fiber protects.  All of it is user code, so the   *)
(* alarm of the testbed can interrupt it anywhere.                         *)
(*                                                                         *)
(* A register image is abstracted to a point of a flow of control: which   *)
(* stack it runs on, how far its user code got and which handlers it is    *)
(* in.  A fiber is its id.                                                 *)
(***************************************************************************)
EXTENDS Integers, Sequences

CONSTANTS
  Threads,
  NoFiber,        \* the null pointer
  MaxId,          \* bound: the last id of a fiber
  MaxSteps,       \* bound: user-mode steps of one flow
  MaxFrames,      \* bound: signal frames on one stack
  NumFibers,      \* completed_fibers when the run begins
  MaxDone,        \* bound: how many fibers may complete
  Others          \* the threads that may be in thread_initialization

Fibers == 0 .. MaxId
Flows == Threads \cup Fibers

ASSUME UltAssumption ==
  /\ NoFiber \notin Fibers
  /\ Threads \cap Fibers = {}
  /\ MaxId \in Nat /\ MaxSteps \in Nat /\ MaxFrames \in Nat
  /\ NumFibers \in Nat /\ MaxDone \in 0 .. NumFibers
  /\ Others \subseteq Threads

VARIABLES
  ult_id,            \* the next id
  running,           \* ult_t.running, the lock of each fiber
  ctx,               \* ult_t.context
  current,           \* the thread-local pointer
  pc,                \* where in the library each thread is
  from,              \* local "from", context_old
  to,                \* local "to", context_new
  cont,              \* the flow the thread executes: stack, progress, signal frames
  mask,              \* is SIGALRM blocked in the thread?
  init_complete,     \* has main created its fibers and set the alarm?
  completed_fibers,  \* how many fibers still work, a global of the testbed
  abandoned,         \* the threads in thread_initialization, whose fiber nobody names
  interrupted,       \* history: has an alarm arrived inside ult_switch_to?
  known,             \* the fibers a program can name
  born,              \* history: created fibers
  pos                \* history: how far each flow has got

local_vars == <<pc, from, to>>
main_vars == <<init_complete, completed_fibers, abandoned, interrupted>>
vars == <<ult_id, running, ctx, current, local_vars, cont, mask, main_vars, known, born, pos>>

InSwitch == {"sw_cur", "sw_save", "sw_unlock", "sw_jump"}
Labels == InSwitch \cup {"user", "cr_unlock", "boot"}

(* What set_jmp stores.  A flow that is resumed returns from the macro     *)
(* unless the value set_jmp then returns is 0: it takes the branch that    *)
(* unlocks and jumps a second time.  "new" is what ult_creat returns.      *)
Image(c, zero, f, g, new) ==
  [c |-> c, zero |-> zero, from |-> f, to |-> g, new |-> new]

Fresh(s) == [flow |-> s, at |-> 0, frames |-> <<>>]

Init ==
  /\ ult_id = 0
  /\ running = [f \in Fibers |-> FALSE]
  /\ ctx = [f \in Fibers |-> Image(Fresh(f), FALSE, NoFiber, NoFiber, {})]
  /\ current = [t \in Threads |-> NoFiber]
  /\ pc = [t \in Threads |-> "user"]
  /\ from = [t \in Threads |-> NoFiber]
  /\ to = [t \in Threads |-> NoFiber]
  /\ cont = [t \in Threads |-> Fresh(t)]
  /\ mask = [t \in Threads |-> FALSE]
  /\ init_complete = FALSE
  /\ completed_fibers = NumFibers
  /\ abandoned \in SUBSET Others
  /\ interrupted = FALSE
  /\ known = {}
  /\ born = {}
  /\ pos = [s \in Flows |-> 0]

Goto(t, a, b) == pc[t] = a /\ pc' = [pc EXCEPT ![t] = b]

(* User code of a fiber, outside every signal handler.                     *)
InUser(t) == pc[t] = "user" /\ cont[t].frames = <<>>

(* A test-and-set that found the flag clear.                               *)
ult_trylock(f) == ~running[f] /\ running' = [running EXCEPT ![f] = TRUE]

(* The loop around it: it ends when the test-and-set succeeds.             *)
ult_lock(f) == ult_trylock(f)

-----------------------------------------------------------------------------
(* Seeded fault: every thread lists its own fiber, as main does.           *)
FaultConvert(t) ==
  LET n == ult_id IN
  /\ InUser(t) /\ current[t] = NoFiber /\ n \in Fibers
  /\ ult_id' = n + 1
  /\ running' = [running EXCEPT ![n] = TRUE]
  /\ ctx' = [ctx EXCEPT ![n] = Image(cont[t], FALSE, NoFiber, NoFiber, {})]
  /\ current' = [current EXCEPT ![t] = n]
  /\ known' = known \cup {n}
  /\ UNCHANGED <<local_vars, cont, mask, main_vars, born, pos>>

(* The fiber of a thread is born locked, with a context nobody can read    *)
(* before the first switch has saved a newer one.                          *)
ult_convert(t) ==
  LET n == ult_id IN
  /\ InUser(t) /\ current[t] = NoFiber /\ n \in Fibers
  /\ ult_id' = n + 1
  /\ running' = [running EXCEPT ![n] = TRUE]
  /\ ctx' = [ctx EXCEPT ![n] = Image(cont[t], FALSE, NoFiber, NoFiber, {})]
  /\ current' = [current EXCEPT ![t] = n]
  /\ known' = IF t \in abandoned THEN known ELSE known \cup {n}
  /\ UNCHANGED <<local_vars, cont, mask, main_vars, born, pos>>

(* context_create up to the save in context_switch_create: the trampoline  *)
(* has left a context on the new stack, the new fiber is locked and the    *)
(* context of the creator saved.  No other thread sees any of this before  *)
(* the creator is unlocked.                                                *)
context_create(t, x, n) ==
  /\ running' = [running EXCEPT ![n] = TRUE]
  /\ ctx' = [ctx EXCEPT ![n] = Image(Fresh(n), FALSE, NoFiber, NoFiber, {}),
                        ![x] = Image(cont[t], FALSE, NoFiber, NoFiber, {n})]
  /\ from' = [from EXCEPT ![t] = x]
  /\ to' = [to EXCEPT ![t] = n]
  /\ pc' = [pc EXCEPT ![t] = "cr_unlock"]

ult_creat(t) ==
  LET n == ult_id
      x == current[t]
  IN
  /\ InUser(t) /\ x # NoFiber /\ n \in Fibers
  /\ cont[t].flow \notin abandoned /\ ~init_complete
  /\ ult_id' = n + 1
  /\ context_create(t, x, n)
  /\ born' = born \cup {n}
  /\ UNCHANGED <<current, cont, mask, main_vars, known, pos>>

(* The rest of context_switch_create: from here on another thread may run  *)
(* the creator, and this one is in the trampoline of the new fiber.        *)
CreatUnlock(t) ==
  /\ Goto(t, "cr_unlock", "boot")
  /\ running' = [running EXCEPT ![from[t]] = FALSE]
  /\ cont' = [cont EXCEPT ![t] = Fresh(to[t])]
  /\ UNCHANGED <<ult_id, ctx, current, from, to, mask, main_vars, known, born, pos>>

(* Seeded fault: the creator is entered without taking its lock again.     *)
FaultBoot(t) ==
  /\ Goto(t, "boot", "sw_unlock")
  /\ ctx' = [ctx EXCEPT ![to[t]] = Image(cont[t], FALSE, NoFiber, NoFiber, {})]
  /\ from' = [from EXCEPT ![t] = to[t]]
  /\ to' = [to EXCEPT ![t] = current[t]]
  /\ UNCHANGED <<ult_id, running, current, cont, mask, main_vars, known, born, pos>>

(* context_create_boot: the creator's lock is taken back, waiting if       *)
(* another thread runs the creator, the new fiber saved at its entry.      *)
context_create_boot(t) ==
  /\ Goto(t, "boot", "sw_unlock")
  /\ ult_lock(current[t])
  /\ ctx' = [ctx EXCEPT ![to[t]] = Image(cont[t], FALSE, NoFiber, NoFiber, {})]
  /\ from' = [from EXCEPT ![t] = to[t]]
  /\ to' = [to EXCEPT ![t] = current[t]]
  /\ UNCHANGED <<ult_id, current, cont, mask, main_vars, known, born, pos>>

-----------------------------------------------------------------------------
(* ult_switch_to up to ult_trylock; when that fails the call has no effect.*)
(* A thread without a fiber is not caught by the code and must not call.   *)
Trylock(t, f) ==
  /\ f \in known
  /\ current[t] # NoFiber
  /\ ult_trylock(f)
  /\ from' = [from EXCEPT ![t] = current[t]]
  /\ to' = [to EXCEPT ![t] = f]
  /\ pc' = [pc EXCEPT ![t] = "sw_cur"]

ult_switch_to(t, f) ==
  /\ InUser(t)
  /\ cont[t].flow \in abandoned => init_complete
  /\ Trylock(t, f)
  /\ UNCHANGED <<ult_id, ctx, current, cont, mask, main_vars, known, born, pos>>

(* current = to, before the context of "from" is saved.                    *)
SetCurrent(t) ==
  /\ Goto(t, "sw_cur", "sw_save")
  /\ current' = [current EXCEPT ![t] = to[t]]
  /\ UNCHANGED <<ult_id, running, ctx, from, to, cont, mask, main_vars,
                 known, born, pos>>

(* Seeded fault: the context is saved in the fiber that is entered.        *)
FaultSave(t) ==
  /\ Goto(t, "sw_save", "sw_unlock")
  /\ ctx' = [ctx EXCEPT ![to[t]] = Image(cont[t], FALSE, from[t], to[t], {})]
  /\ UNCHANGED <<ult_id, running, current, from, to, cont, mask, main_vars,
                 known, born, pos>>

(* set_jmp of context_switch stores rax as it is at the call: in the       *)
(* compiled ult_switch_to it holds completed_fibers, just tested, when     *)
(* that is 0, and otherwise what puts returned.                            *)
Save(t) ==
  /\ Goto(t, "sw_save", "sw_unlock")
  /\ ctx' = [ctx EXCEPT ![from[t]] =
               Image(cont[t], completed_fibers = 0, from[t], to[t], {})]
  /\ UNCHANGED <<ult_id, running, current, from, to, cont, mask, main_vars,
                 known, born, pos>>

ult_unlock(t) ==
  /\ Goto(t, "sw_unlock", "sw_jump")
  /\ running' = [running EXCEPT ![from[t]] = FALSE]
  /\ UNCHANGED <<ult_id, ctx, current, from, to, cont, mask, main_vars,
                 known, born, pos>>

(* long_jmp with the saved rax.                                            *)
long_jmp(t) ==
  LET i == ctx[to[t]] IN
  /\ pc[t] = "sw_jump"
  /\ cont' = [cont EXCEPT ![t] = i.c]
  /\ pc' = [pc EXCEPT ![t] = IF i.zero THEN "sw_unlock" ELSE "user"]
  /\ from' = [from EXCEPT ![t] = IF i.zero THEN i.from ELSE NoFiber]
  /\ to' = [to EXCEPT ![t] = IF i.zero THEN i.to ELSE NoFiber]
  /\ known' = known \cup i.new
  /\ UNCHANGED <<ult_id, running, ctx, current, mask, main_vars, born, pos>>

-----------------------------------------------------------------------------
(* The testbed                                                             *)

(* main sets the alarm and lets the other threads go.                      *)
InitComplete(t) ==
  /\ InUser(t) /\ cont[t].flow \notin abandoned
  /\ ~init_complete /\ init_complete' = TRUE
  /\ UNCHANGED <<ult_id, running, ctx, current, local_vars, cont, mask, completed_fibers,
                 abandoned, interrupted, known, born, pos>>

(* SIGALRM: what is interrupted, which may be ult_switch_to itself when    *)
(* main_loop or thread_initialization called it, goes on the stack and     *)
(* schedule switches to some fiber.  When that fiber is taken the handler  *)
(* just returns.                                                           *)
Alarm(t, f) ==
  /\ init_complete
  /\ pc[t] \in InSwitch \cup {"user"}
  /\ interrupted' = (interrupted \/ pc[t] \in InSwitch)
  /\ ~mask[t] /\ Len(cont[t].frames) < MaxFrames
  /\ mask' = [mask EXCEPT ![t] = TRUE]
  /\ cont' = [cont EXCEPT ![t].frames =
                <<[pc |-> pc[t], from |-> from[t], to |-> to[t]]>> \o @]
  /\ Trylock(t, f)
  /\ UNCHANGED <<ult_id, ctx, current, init_complete, completed_fibers, abandoned,
                 known, born, pos>>

(* The flow that schedule left is resumed, and the handler returns: the    *)
(* mask is the one it was interrupted with.                                *)
HandlerReturn(t) ==
  LET fr == Head(cont[t].frames) IN
  /\ pc[t] = "user" /\ cont[t].frames # <<>>
  /\ pc' = [pc EXCEPT ![t] = fr.pc]
  /\ from' = [from EXCEPT ![t] = fr.from]
  /\ to' = [to EXCEPT ![t] = fr.to]
  /\ cont' = [cont EXCEPT ![t].frames = Tail(@)]
  /\ mask' = [mask EXCEPT ![t] = FALSE]
  /\ UNCHANGED <<ult_id, running, ctx, current, main_vars, known, born, pos>>

Run(t) ==
  /\ InUser(t)
  /\ cont[t].at < MaxSteps
  /\ cont' = [cont EXCEPT ![t].at = @ + 1]
  /\ pos' = [pos EXCEPT ![cont[t].flow] = cont[t].at + 1]
  /\ UNCHANGED <<ult_id, running, ctx, current, local_vars, mask, main_vars,
                 known, born>>

(* A fiber has done its work.                                              *)
Complete(t) ==
  /\ InUser(t) /\ init_complete /\ cont[t].flow \notin abandoned
  /\ completed_fibers > NumFibers - MaxDone
  /\ completed_fibers' = completed_fibers - 1
  /\ UNCHANGED <<ult_id, running, ctx, current, local_vars, cont, mask, init_complete,
                 abandoned, interrupted, known, born, pos>>

(* User code past the bounds, and switches that fail.                      *)
Idle(t) == pc[t] = "user" /\ UNCHANGED vars

Next ==
  \E t \in Threads :
    \/ ult_convert(t)
    \/ ult_creat(t)
    \/ CreatUnlock(t)
    \/ context_create_boot(t)
    \/ \E f \in Fibers : ult_switch_to(t, f)
    \/ SetCurrent(t)
    \/ Save(t)
    \/ ult_unlock(t)
    \/ long_jmp(t)
    \/ InitComplete(t)
    \/ \E f \in Fibers : Alarm(t, f)
    \/ HandlerReturn(t)
    \/ Run(t)
    \/ Complete(t)
    \/ Idle(t)

Spec == Init /\ [][Next]_vars

-----------------------------------------------------------------------------
(* Properties                                                              *)

Frame == [pc : Labels, from : Fibers \cup {NoFiber}, to : Fibers \cup {NoFiber}]
Conts == [flow : Flows, at : Nat, frames : Seq(Frame)]
Images == [c : Conts, zero : BOOLEAN, from : Fibers \cup {NoFiber},
           to : Fibers \cup {NoFiber}, new : SUBSET Fibers]

(* The fields of ult_t, current and the globals of main.c keep their       *)
(* types: completed_fibers never goes below 0.                             *)
UltTypeOK ==
  /\ ult_id \in Nat
  /\ running \in [Fibers -> BOOLEAN]
  /\ ctx \in [Fibers -> Images]
  /\ current \in [Threads -> Fibers \cup {NoFiber}]
  /\ pc \in [Threads -> Labels]
  /\ from \in [Threads -> Fibers \cup {NoFiber}]
  /\ to \in [Threads -> Fibers \cup {NoFiber}]
  /\ cont \in [Threads -> Conts]
  /\ mask \in [Threads -> BOOLEAN]
  /\ init_complete \in BOOLEAN /\ completed_fibers \in Nat
  /\ abandoned \subseteq Threads /\ interrupted \in BOOLEAN
  /\ known \subseteq Fibers /\ born \subseteq Fibers
  /\ pos \in [Flows -> Nat]

(* Whose lock the thread has to account for: the fiber it runs, the one it *)
(* enters and the one it has not left yet.                                 *)
Holds(t, f) ==
  CASE pc[t] = "user" -> current[t] = f
    [] pc[t] \in {"sw_jump", "boot"} -> to[t] = f
    [] OTHER -> f \in {from[t], to[t]}

(* What the testbed breaks: an alarm inside ult_switch_to, after which the *)
(* handler may save its context in the fiber that is entered, and the end  *)
(* of the last fiber, after which a context is saved with rax = 0.         *)
Undisturbed == ~interrupted /\ completed_fibers > 0

(* The flag of a fiber is set exactly when one thread, and one only, runs  *)
(* it, enters it or leaves it, also while ult_creat lends the creator out  *)
(* and takes it back and when the alarm preempts user code: ult_trylock    *)
(* and ult_lock admit two threads, or lose a fiber, only after an alarm    *)
(* inside ult_switch_to or after the end of the last fiber.                *)
LockedByOne ==
  Undisturbed =>
    \A f \in Fibers :
      /\ running[f] <=> \E t \in Threads : Holds(t, f)
      /\ \A t, u \in Threads : Holds(t, f) /\ Holds(u, f) => t = u

(* A switch enters the stack of a thread in thread_initialization.         *)
GetsBack(t) == cont'[t].flow # cont[t].flow /\ cont'[t].flow \in abandoned'

(* "This function lives in an abandoned fiber: no-one will ever get back   *)
(* here!" says main.c of thread_initialization.                            *)
NoOneGetsBack == [][\A t \in Threads : ~GetsBack(t)]_vars

(* Somebody gets back into thread_initialization only after an alarm has   *)
(* arrived inside ult_switch_to; preemption of user code by the alarm, the *)
(* lending of the creator and the end of the last fiber cannot do it.      *)
BackNeedsInterruption == [][\A t \in Threads : GetsBack(t) => interrupted]_vars

(* The user-space fibers are coroutines: a switch takes effect when the    *)
(* fiber that is left is unlocked, and creation is a visit to the new flow.*)
(* The steps of the library stop being theirs only after an alarm inside   *)
(* ult_switch_to or the end of the last fiber.                             *)
Abstract ==
  INSTANCE Coroutines WITH
    running <- [t \in Threads |-> IF pc[t] = "sw_jump" THEN ctx[to[t]].c.flow
                                                       ELSE cont[t].flow]
ImplementsCoroutines ==
  Abstract!Init /\ [][Undisturbed' => [Abstract!Next]_(Abstract!vars)]_vars
=============================================================================
