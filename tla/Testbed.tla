------------------------------ MODULE Testbed ------------------------------
(***************************************************************************)
(* The driver of the testbed (libfibers/testbed/src/main.c and thread.c)   *)
(* on the fibers of the kernel module: one thread per processor, an alarm  *)
(* whose handler switches to a random fiber, and the end of the run.       *)
(*                                                                         *)
(* A switch is one step, as Coroutines has it: it is refused when another  *)
(* thread runs the fiber.  It swaps the registers and the stack but not    *)
(* the signal mask, which belongs to the thread, so a fiber may go on in a *)
(* thread that blocks SIGALRM.                                             *)
(***************************************************************************)
EXTENDS Integers, FiniteSets

CONSTANTS
  Threads,     \* one per processor
  Main,        \* the initial thread
  NumFibers,   \* num_fibers; fiber 1 is that of the initial thread
  Work,        \* events a fiber processes before it is done
  MaxFrames    \* bound: signal frames on one stack

(* main refuses to run with no more fibers than processors.                *)
ASSUME TestbedAssumption ==
  /\ IsFiniteSet(Threads) /\ Main \in Threads
  /\ NumFibers \in Nat /\ NumFibers > Cardinality(Threads)
  /\ Threads \cap (0 .. NumFibers) = {}
  /\ Work \in Nat \ {0} /\ MaxFrames \in Nat

Fibers == 1 .. NumFibers
Others == Threads \ {Main}      \* they run thread_initialization
Flows == Fibers \cup Others
NoFlow == 0

VARIABLES
  setup,             \* main: fibers made, then the alarm set, then init_complete
  tid,               \* thread.c: the number each thread gave itself
  on,                \* the flow each thread executes
  todo,              \* fiber -> events it has yet to process, -1 once it is done
  init,              \* other thread -> "start", "wait" or "loop"
  heap,              \* the flow that holds the lock of a thread's malloc arena
  rand,              \* the flow that holds the lock of random()
  frames,            \* flow -> signal frames on its stack
  handling,          \* thread -> in the handler, before schedule's switch
  mask,              \* thread -> is SIGALRM blocked?
  timer,             \* alarm: 0 off, 2 just set, 1 about to expire
  pending,           \* SIGALRM is pending for the process
  completed_fibers,
  exited

main_vars   == <<setup, tid, init>>
work_vars   == <<todo, heap, rand, completed_fibers>>
signal_vars == <<frames, handling, mask, timer, pending>>
vars == <<main_vars, on, work_vars, signal_vars, exited>>

ALARM_SET == NumFibers + 1
INIT_COMPLETE == NumFibers + 2

Init ==
  /\ setup = 1
  /\ tid = [t \in Threads |-> 0]
  /\ on = [t \in Threads |-> IF t = Main THEN 1 ELSE t]
  /\ todo = [f \in Fibers |-> Work]
  /\ init = [t \in Others |-> "start"]
  /\ heap = [t \in Threads |-> NoFlow]
  /\ rand = NoFlow
  /\ frames = [s \in Flows |-> 0]
  /\ handling = [t \in Threads |-> FALSE]
  /\ mask = [t \in Threads |-> FALSE]
  /\ timer = 0
  /\ pending = FALSE
  /\ completed_fibers = NumFibers
  /\ exited = FALSE

(* The thread executes the code of flow s, outside every handler.          *)
Executes(t, s) == ~exited /\ on[t] = s /\ ~handling[t] /\ frames[s] = 0

Free(f) == \A u \in Threads : on[u] # f

(* SwitchToFiber(fibers[f]); a thread that is not converted is refused.    *)
SwitchToFiber(t, f) ==
  on' = IF Free(f) /\ (t \in Others => init[t] # "start") THEN [on EXCEPT ![t] = f] ELSE on

-----------------------------------------------------------------------------
(* main, after its own conversion: the fibers are created one by one, the  *)
(* handler is installed and the alarm set, and the other threads let go.   *)
CreateFiber ==
  /\ \E t \in Threads : Executes(t, 1)
  /\ setup < NumFibers
  /\ setup' = setup + 1
  /\ UNCHANGED <<tid, init, on, work_vars, signal_vars, exited>>

SetAlarm ==
  /\ \E t \in Threads : Executes(t, 1)
  /\ setup = NumFibers
  /\ setup' = ALARM_SET
  /\ timer' = 2
  /\ UNCHANGED <<tid, init, on, work_vars, frames, handling, mask, pending, exited>>

InitComplete ==
  /\ \E t \in Threads : Executes(t, 1)
  /\ setup = ALARM_SET
  /\ setup' = INIT_COMPLETE
  /\ UNCHANGED <<tid, init, on, work_vars, signal_vars, exited>>

(* __helper_create_thread: the thread draws the next number, by            *)
(* compare-and-swap.                                                       *)
helper_create_thread(t) ==
  \E n \in 1 .. NumFibers :
    /\ \A u \in Threads : tid[u] < n
    /\ n = 1 \/ \E u \in Threads : tid[u] = n - 1
    /\ tid' = [tid EXCEPT ![t] = n]

(* It then enters thread_initialization, which converts it ...             *)
thread_initialization(t) ==
  /\ Executes(t, t) /\ init[t] = "start"
  /\ helper_create_thread(t)
  /\ init' = [init EXCEPT ![t] = "wait"]
  /\ UNCHANGED <<setup, on, work_vars, signal_vars, exited>>

(* ... waits for main ...                                                  *)
AwaitInit(t) ==
  /\ Executes(t, t) /\ init[t] = "wait"
  /\ setup = INIT_COMPLETE
  /\ init' = [init EXCEPT ![t] = "loop"]
  /\ UNCHANGED <<setup, tid, on, work_vars, signal_vars, exited>>

(* ... and tries random fibers until it gets one.                          *)
InitLoop(t) == t \in Others /\ Executes(t, t) /\ init[t] = "loop"

(* A fiber that is done calls schedule(0) for ever, except fiber 1.        *)
DoneLoop(t) == \E f \in Fibers \ {1} : Executes(t, f) /\ todo[f] = -1

(* get_random_fiber: random() works under a lock, which the thread takes   *)
(* here and releases as it goes on to switch.                              *)
get_random_fiber(t) ==
  /\ InitLoop(t) \/ DoneLoop(t)
  /\ rand = NoFlow
  /\ rand' = on[t]
  /\ UNCHANGED <<main_vars, on, todo, heap, completed_fibers, signal_vars, exited>>

InitSwitch(t, f) ==
  /\ InitLoop(t) /\ rand = t
  /\ rand' = NoFlow
  /\ SwitchToFiber(t, f)
  /\ UNCHANGED <<main_vars, todo, heap, completed_fibers, signal_vars, exited>>

-----------------------------------------------------------------------------
(* main_loop                                                               *)

Working(t, f) == Executes(t, f) /\ todo[f] >= 0 /\ (f = 1 => setup = INIT_COMPLETE)

(* The malloc arenas the flow is inside of.                                *)
InHeap(s) == {a \in Threads : heap[a] = s}

(* ProcessEvent allocates and frees: it takes the lock of the arena of the *)
(* thread it happens to run on ...                                         *)
Malloc(t, f) ==
  /\ Working(t, f) /\ todo[f] > 0 /\ InHeap(f) = {}
  /\ heap[t] = NoFlow
  /\ heap' = [heap EXCEPT ![t] = f]
  /\ UNCHANGED <<main_vars, on, todo, rand, completed_fibers, signal_vars, exited>>

(* ... releases it, and the event is done.                                 *)
ProcessEvent(t, f) ==
  /\ Working(t, f) /\ InHeap(f) # {}
  /\ heap' = [a \in Threads |-> IF heap[a] = f THEN NoFlow ELSE heap[a]]
  /\ todo' = [todo EXCEPT ![f] = @ - 1]
  /\ UNCHANGED <<main_vars, on, rand, completed_fibers, signal_vars, exited>>

(* Seeded fault: the fiber stays in its loop and is counted again.         *)
FaultCountTwice(t, f) ==
  /\ Working(t, f) /\ todo[f] = 0
  /\ completed_fibers' = completed_fibers - 1
  /\ UNCHANGED <<main_vars, on, todo, heap, rand, signal_vars, exited>>

(* __sync_fetch_and_sub(&completed_fibers, 1)                              *)
Complete(t, f) ==
  /\ Working(t, f) /\ todo[f] = 0
  /\ todo' = [todo EXCEPT ![f] = -1]
  /\ completed_fibers' = completed_fibers - 1
  /\ UNCHANGED <<main_vars, on, heap, rand, signal_vars, exited>>

(* Seeded fault: the alarm is set after the switch, so by whoever resumes  *)
(* this fiber.                                                             *)
FaultSchedule(t, f) ==
  /\ SwitchToFiber(t, f)
  /\ timer' = IF on' = on THEN 2 ELSE timer

schedule(t, f) ==
  /\ timer' = 2
  /\ SwitchToFiber(t, f)

LoopSchedule(t, f) ==
  /\ DoneLoop(t) /\ rand = on[t]
  /\ rand' = NoFlow
  /\ schedule(t, f)
  /\ UNCHANGED <<main_vars, todo, heap, completed_fibers, frames, handling, mask, pending, exited>>

(* Fiber 1 spins until every fiber is done, then ends the process.         *)
ExitSuccess(t) ==
  /\ Executes(t, 1) /\ todo[1] = -1
  /\ completed_fibers = 0
  /\ exited' = TRUE
  /\ UNCHANGED <<main_vars, on, work_vars, signal_vars>>

-----------------------------------------------------------------------------
(* Signals, as signal() and alarm() of the C library and the kernel        *)
(* provide them                                                            *)

Tick ==
  /\ ~exited /\ timer = 2 /\ timer' = 1
  /\ UNCHANGED <<main_vars, on, work_vars, frames, handling, mask, pending, exited>>

Expire ==
  /\ ~exited /\ timer = 1 /\ timer' = 0
  /\ pending' = TRUE
  /\ UNCHANGED <<main_vars, on, work_vars, frames, handling, mask, exited>>

(* A thread that does not block SIGALRM gets it, also inside malloc, free  *)
(* or random: a frame on the stack of the flow it executes, and the signal *)
(* blocked while the handler runs.                                         *)
Deliver(t) ==
  /\ ~exited /\ pending /\ ~mask[t] /\ ~handling[t]
  /\ frames[on[t]] < MaxFrames
  /\ pending' = FALSE
  /\ frames' = [frames EXCEPT ![on[t]] = @ + 1]
  /\ mask' = [mask EXCEPT ![t] = TRUE]
  /\ handling' = [handling EXCEPT ![t] = TRUE]
  /\ UNCHANGED <<main_vars, on, work_vars, timer, exited>>

(* schedule as the handler: it draws once the lock of random() is free,    *)
(* and leaves the frame on the stack of the flow that is left, and the     *)
(* signal blocked in the thread.                                           *)
HandlerSchedule(t, f) ==
  /\ ~exited /\ handling[t] /\ rand = NoFlow
  /\ handling' = [handling EXCEPT ![t] = FALSE]
  /\ schedule(t, f)
  /\ UNCHANGED <<main_vars, work_vars, frames, mask, pending, exited>>

(* Seeded fault: the mask is not restored.                                 *)
FaultHandlerReturn(t) ==
  /\ ~exited /\ ~handling[t] /\ frames[on[t]] > 0
  /\ frames' = [frames EXCEPT ![on[t]] = @ - 1]
  /\ UNCHANGED <<main_vars, on, work_vars, handling, mask, timer, pending, exited>>

(* sigreturn: the mask of the frame, in which SIGALRM was not blocked,     *)
(* becomes that of the thread that executes the flow now.                  *)
HandlerReturn(t) ==
  /\ ~exited /\ ~handling[t] /\ frames[on[t]] > 0
  /\ frames' = [frames EXCEPT ![on[t]] = @ - 1]
  /\ mask' = [mask EXCEPT ![t] = FALSE]
  /\ UNCHANGED <<main_vars, on, work_vars, handling, timer, pending, exited>>

-----------------------------------------------------------------------------
(* The flow s gets on with its own code, whichever thread executes it.     *)
Progress(s) ==
  \/ s \in Others /\ (thread_initialization(s) \/ AwaitInit(s))
  \/ \E t \in Threads : s \in Fibers /\ (Malloc(t, s) \/ ProcessEvent(t, s) \/ Complete(t, s))
  \/ s = 1 /\ (CreateFiber \/ SetAlarm \/ InitComplete \/ \E t \in Threads : ExitSuccess(t))

Next ==
  \/ \E s \in Flows : Progress(s)
  \/ \E t \in Threads : get_random_fiber(t) \/ HandlerReturn(t) \/ Deliver(t)
  \/ \E t \in Threads, f \in Fibers :
       InitSwitch(t, f) \/ LoopSchedule(t, f) \/ HandlerSchedule(t, f)
  \/ Tick \/ Expire
  \/ exited /\ UNCHANGED vars

Spec == Init /\ [][Next]_vars

-----------------------------------------------------------------------------
(* Properties                                                              *)

(* The globals of main.c keep their types: completed_fibers counts down    *)
(* from num_fibers and never below 0.                                      *)
TestbedTypeOK ==
  /\ setup \in 1 .. INIT_COMPLETE
  /\ tid \in [Threads -> Nat]
  /\ on \in [Threads -> Flows]
  /\ todo \in [Fibers -> -1 .. Work]
  /\ init \in [Others -> {"start", "wait", "loop"}]
  /\ heap \in [Threads -> Fibers \cup {NoFlow}]
  /\ rand \in Flows \cup {NoFlow}
  /\ frames \in [Flows -> Nat]
  /\ handling \in [Threads -> BOOLEAN] /\ mask \in [Threads -> BOOLEAN]
  /\ timer \in 0 .. 2 /\ pending \in BOOLEAN
  /\ completed_fibers \in 0 .. NumFibers
  /\ exited \in BOOLEAN

(* Fiber 1, which waits for the others without ever calling schedule, is   *)
(* always on a thread that takes the alarm, although switches out of the   *)
(* handler leave SIGALRM blocked in threads: it is only left and resumed   *)
(* inside a handler, whose return unblocks the signal.                     *)
WaiterTakesAlarm ==
  \A t \in Threads : Executes(t, 1) => ~mask[t]

(* The alarm never dies out: once set, it is running, pending or about to  *)
(* be set again by a handler.  Without it a fiber that waits or works      *)
(* would keep its thread for ever.                                         *)
AlarmGoesOn ==
  setup >= ALARM_SET => timer > 0 \/ pending \/ \E t \in Threads : handling[t]

(* Every thread waits for the lock of a malloc arena that a fiber took and *)
(* nobody executes: the handler left that fiber inside malloc or free, and *)
(* the fiber resumed in its place runs with SIGALRM blocked.               *)
HeapStuck ==
  \A t \in Threads :
    \E f \in Fibers, h \in Fibers :
      /\ Executes(t, f) /\ mask[t] /\ todo[f] > 0
      /\ heap[t] = h /\ Free(h)

(* The handler interrupted random() and waits in it for the lock that the  *)
(* flow below it holds.                                                    *)
RandomStuck == \E t \in Threads : handling[t] /\ rand = on[t]

=============================================================================
