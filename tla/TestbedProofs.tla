--------------------------- MODULE TestbedProofs ---------------------------
(***************************************************************************)
(* Theorems about the driver of the testbed, for any number of threads,    *)
(* fibers and events, wherever the alarm arrives.                          *)
(***************************************************************************)
EXTENDS Testbed, FiniteSetTheorems, TLAPS

(* A fiber is inside malloc only while it has an event to process.         *)
HeapOK == \A a \in Threads : heap[a] # NoFlow => todo[heap[a]] > 0

(* No two threads execute one flow.                                        *)
OneThread == \A t, u \in Threads : on[t] = on[u] => t = u

(* A thread is in the handler only on top of the frame of its signal, and  *)
(* nobody leaves fiber 1 but inside a handler.                             *)
InHandler == \A t \in Threads : handling[t] => frames[on[t]] > 0
WaiterLeft == Free(1) => frames[1] > 0

Unfinished == {f \in Fibers : todo[f] >= 0}

(* The counter counts the fibers that still work.                          *)
CountOK == completed_fibers = Cardinality(Unfinished)

(* The process ends when no fiber works any more.                          *)
ExitOK == exited => completed_fibers = 0

Inv ==
  /\ TestbedTypeOK /\ HeapOK /\ OneThread /\ InHandler /\ WaiterLeft
  /\ CountOK /\ ExitOK
  /\ WaiterTakesAlarm /\ AlarmGoesOn

-----------------------------------------------------------------------------
LEMMA FibersFinite == IsFiniteSet(Fibers) /\ Cardinality(Fibers) = NumFibers
  BY FS_Interval, TestbedAssumption DEF Fibers

(* The number of unfinished fibers is one of 0 .. num_fibers.              *)
LEMMA UnfinishedCount ==
  IsFiniteSet(Unfinished) /\ Cardinality(Unfinished) \in 0 .. NumFibers
<1>1. Unfinished \subseteq Fibers
  BY DEF Unfinished
<1>2. IsFiniteSet(Unfinished) /\ Cardinality(Unfinished) <= Cardinality(Fibers)
  BY <1>1, FibersFinite, FS_Subset
<1>3. Cardinality(Unfinished) \in Nat
  BY <1>2, FS_CardinalityType
<1> QED
  BY <1>2, <1>3, FibersFinite, TestbedAssumption

LEMMA InitInv == Init => Inv
<1> SUFFICES ASSUME Init PROVE Inv
  OBVIOUS
<1> USE TestbedAssumption DEF Init
<1>1. 1 \in Fibers /\ NumFibers > 0
  BY FS_CardinalityType DEF Fibers
<1>2. CountOK
  <2>1. Unfinished = Fibers
    BY DEF Unfinished
  <2> QED BY <2>1, FibersFinite DEF CountOK
<1>3. TestbedTypeOK
  <2>1. on \in [Threads -> Flows]
    BY <1>1 DEF Flows, Others
  <2>2. /\ todo \in [Fibers -> -1 .. Work] /\ heap \in [Threads -> Fibers \cup {NoFlow}]
        /\ rand \in Flows \cup {NoFlow}
    OBVIOUS
  <2>3. setup \in 1 .. INIT_COMPLETE /\ timer \in 0 .. 2 /\ completed_fibers \in 0 .. NumFibers
    BY <1>1 DEF INIT_COMPLETE
  <2>4. frames \in [Flows -> Nat] /\ tid \in [Threads -> Nat]
    OBVIOUS
  <2> QED BY <2>1, <2>2, <2>3, <2>4 DEF TestbedTypeOK
<1>4. OneThread /\ InHandler
  BY <1>1 DEF OneThread, InHandler, Fibers
<1>5. ~Free(1)
  BY DEF Free
<1>6. HeapOK /\ WaiterTakesAlarm /\ AlarmGoesOn /\ ExitOK
  BY <1>1 DEF HeapOK, WaiterTakesAlarm, AlarmGoesOn, ExitOK, NoFlow, Executes, ALARM_SET
<1> QED
  BY <1>2, <1>3, <1>4, <1>5, <1>6 DEF Inv, WaiterLeft

(* The counter goes down with the set it counts.                           *)
LEMMA CompleteCount ==
  ASSUME Inv, NEW f \in Fibers, todo[f] = 0,
         todo' = [todo EXCEPT ![f] = -1],
         completed_fibers' = completed_fibers - 1
  PROVE  CountOK' /\ completed_fibers' \in 0 .. NumFibers
<1>1. f \in Unfinished /\ Unfinished' = Unfinished \ {f}
  BY DEF Inv, TestbedTypeOK, Unfinished
<1>2. Cardinality(Unfinished') = Cardinality(Unfinished) - 1
  BY <1>1, UnfinishedCount, FS_RemoveElement
<1>3. CountOK'
  BY <1>2 DEF CountOK, Inv
<1>4. Cardinality(Unfinished) # 0
  BY <1>1, UnfinishedCount, FS_EmptySet
<1> QED
  BY <1>2, <1>3, <1>4, UnfinishedCount, TestbedAssumption DEF CountOK, Inv

-----------------------------------------------------------------------------
(* A step that leaves the flows, their work and their frames alone: the    *)
(* steps of main and of thread_initialization, and those of the timer.     *)
LEMMA QuietStep ==
  ASSUME Inv, UNCHANGED <<on, todo, heap, completed_fibers, frames, handling, mask, exited>>,
         rand' \in Flows \cup {NoFlow},
         setup' \in 1 .. INIT_COMPLETE, tid' \in [Threads -> Nat],
         init' \in [Others -> {"start", "wait", "loop"}],
         timer' \in 0 .. 2, pending' \in BOOLEAN,
         AlarmGoesOn'
  PROVE  Inv'
<1> USE DEF Inv
<1>1. TestbedTypeOK'
  BY DEF TestbedTypeOK
<1>2. HeapOK' /\ CountOK' /\ ExitOK'
  BY DEF HeapOK, CountOK, ExitOK, Unfinished
<1>3. OneThread' /\ InHandler' /\ WaiterLeft' /\ WaiterTakesAlarm'
  BY DEF OneThread, InHandler, WaiterLeft, WaiterTakesAlarm, Free, Executes
<1> QED
  BY <1>1, <1>2, <1>3

(* A step of a fiber's own code.                                           *)
LEMMA WorkStep ==
  ASSUME Inv, UNCHANGED <<main_vars, on, rand, signal_vars>>,
         todo' \in [Fibers -> -1 .. Work],
         heap' \in [Threads -> Fibers \cup {NoFlow}],
         completed_fibers' \in 0 .. NumFibers, exited' \in BOOLEAN,
         HeapOK', CountOK', ExitOK', exited => exited'
  PROVE  Inv'
<1> USE DEF Inv
<1>1. TestbedTypeOK'
  BY DEF TestbedTypeOK, main_vars, signal_vars
<1>2. OneThread' /\ InHandler' /\ WaiterLeft' /\ AlarmGoesOn'
  BY DEF OneThread, InHandler, WaiterLeft, AlarmGoesOn, Free, main_vars, signal_vars
<1>3. WaiterTakesAlarm'
  BY DEF WaiterTakesAlarm, Executes, TestbedTypeOK, main_vars, signal_vars
<1> QED
  BY <1>1, <1>2, <1>3

(* A switch that starts in a handler, or in a flow other than fiber 1.     *)
LEMMA SwitchStep ==
  ASSUME Inv, UNCHANGED <<main_vars, todo, heap, completed_fibers, frames, mask, pending, exited>>,
         rand' \in Flows \cup {NoFlow},
         NEW t \in Threads, NEW f \in Fibers, SwitchToFiber(t, f),
         on[t] # 1 \/ handling[t],
         handling' = [handling EXCEPT ![t] = FALSE],
         timer' = 2 \/ (UNCHANGED timer /\ ~handling[t])
  PROVE  Inv'
<1> USE DEF Inv
<1>1. on' \in [Threads -> Flows]
  BY DEF TestbedTypeOK, SwitchToFiber, Flows
<1>2. TestbedTypeOK'
  <2>1. handling' \in [Threads -> BOOLEAN]
    BY DEF TestbedTypeOK
  <2>2. timer' \in 0 .. 2
    BY DEF TestbedTypeOK
  <2> QED BY <1>1, <2>1, <2>2 DEF TestbedTypeOK, main_vars
<1>3. HeapOK' /\ CountOK' /\ ExitOK'
  BY DEF HeapOK, CountOK, ExitOK, Unfinished
<1>4. OneThread'
  BY DEF OneThread, SwitchToFiber, Free, TestbedTypeOK
<1>5. InHandler'
  BY DEF InHandler, SwitchToFiber, TestbedTypeOK
<1>6. WaiterLeft' /\ WaiterTakesAlarm'
  BY DEF WaiterLeft, WaiterTakesAlarm, Executes, InHandler, SwitchToFiber, Free, TestbedTypeOK
<1>7. AlarmGoesOn'
  BY DEF AlarmGoesOn, TestbedTypeOK, main_vars
<1> QED
  BY <1>2, <1>3, <1>4, <1>5, <1>6, <1>7

LEMMA DeliverStep ==
  ASSUME Inv, NEW t \in Threads, Deliver(t)
  PROVE  Inv'
<1> USE DEF Inv, Deliver
<1>1. TestbedTypeOK'
  <2>1. frames' \in [Flows -> Nat]
    BY DEF TestbedTypeOK
  <2>2. handling' \in [Threads -> BOOLEAN] /\ mask' \in [Threads -> BOOLEAN]
    BY DEF TestbedTypeOK
  <2> QED BY <2>1, <2>2 DEF TestbedTypeOK, main_vars, work_vars
<1>2. HeapOK' /\ CountOK' /\ ExitOK'
  BY DEF HeapOK, CountOK, ExitOK, Unfinished, work_vars
<1>3. OneThread' /\ InHandler' /\ WaiterLeft' /\ WaiterTakesAlarm' /\ AlarmGoesOn'
  BY DEF OneThread, InHandler, WaiterLeft, WaiterTakesAlarm, AlarmGoesOn,
         Executes, Free, TestbedTypeOK
<1> QED
  BY <1>1, <1>2, <1>3

LEMMA ReturnStep ==
  ASSUME Inv, NEW t \in Threads, HandlerReturn(t)
  PROVE  Inv'
<1> USE DEF Inv, HandlerReturn
<1>1. TestbedTypeOK'
  <2>1. frames' \in [Flows -> Nat]
    BY DEF TestbedTypeOK
  <2>2. handling' \in [Threads -> BOOLEAN] /\ mask' \in [Threads -> BOOLEAN]
    BY DEF TestbedTypeOK
  <2> QED BY <2>1, <2>2 DEF TestbedTypeOK, main_vars, work_vars
<1>2. HeapOK' /\ CountOK' /\ ExitOK'
  BY DEF HeapOK, CountOK, ExitOK, Unfinished, work_vars
<1>3. OneThread' /\ InHandler' /\ WaiterLeft' /\ WaiterTakesAlarm' /\ AlarmGoesOn'
  BY DEF OneThread, InHandler, WaiterLeft, WaiterTakesAlarm, AlarmGoesOn,
         Executes, Free, TestbedTypeOK, main_vars
<1> QED
  BY <1>1, <1>2, <1>3

-----------------------------------------------------------------------------
(* Every step of Next preserves the invariant.                             *)
LEMMA ProgressStep ==
  ASSUME Inv, NEW s \in Flows, Progress(s)
  PROVE  Inv'
<1> USE TestbedAssumption DEF Inv, TestbedTypeOK
<1>0. NumFibers > 0
  BY FS_CardinalityType
<1>1. ASSUME s \in Others, thread_initialization(s) PROVE Inv'
  <2>1. init' \in [Others -> {"start", "wait", "loop"}] /\ tid' \in [Threads -> Nat]
    <3>1. PICK n \in 1 .. NumFibers : tid' = [tid EXCEPT ![s] = n]
      BY <1>1 DEF thread_initialization, helper_create_thread
    <3>2. init' = [init EXCEPT ![s] = "wait"]
      BY <1>1 DEF thread_initialization
    <3> QED BY <1>1, <3>1, <3>2 DEF Others
  <2> QED
    BY <1>1, <2>1, QuietStep DEF thread_initialization, signal_vars, work_vars, AlarmGoesOn
<1>2. ASSUME s \in Others, AwaitInit(s) PROVE Inv'
  BY <1>2, QuietStep DEF AwaitInit, signal_vars, work_vars, AlarmGoesOn
<1>3. ASSUME NEW t \in Threads, s \in Fibers, Malloc(t, s) PROVE Inv'
  BY <1>3, WorkStep DEF Malloc, HeapOK, CountOK, ExitOK, Unfinished, NoFlow
<1>4. ASSUME NEW t \in Threads, s \in Fibers, ProcessEvent(t, s) PROVE Inv'
  <2>1. todo[s] > 0
    <3>1. PICK a \in Threads : heap[a] = s
      BY <1>4 DEF ProcessEvent, InHeap
    <3> QED BY <1>4, <3>1 DEF HeapOK, Fibers, NoFlow
  <2>2. todo' \in [Fibers -> -1 .. Work] /\ heap' \in [Threads -> Fibers \cup {NoFlow}]
    BY <1>4, <2>1 DEF ProcessEvent
  <2>3. HeapOK'
    BY <1>4 DEF ProcessEvent, HeapOK, NoFlow
  <2>4. Unfinished' = Unfinished
    BY <1>4, <2>1 DEF ProcessEvent, Unfinished
  <2> QED
    BY <1>4, <2>2, <2>3, <2>4, WorkStep DEF ProcessEvent, CountOK, ExitOK
<1>5. ASSUME NEW t \in Threads, s \in Fibers, Complete(t, s) PROVE Inv'
  <2>1. CountOK' /\ completed_fibers' \in 0 .. NumFibers
    BY <1>5, CompleteCount DEF Complete
  <2>2. HeapOK' /\ todo' \in [Fibers -> -1 .. Work]
    BY <1>5 DEF Complete, HeapOK
  <2>3. ~exited /\ UNCHANGED <<exited, heap>>
    BY <1>5 DEF Complete, Working, Executes
  <2> QED
    BY <1>5, <2>1, <2>2, <2>3, WorkStep DEF Complete, ExitOK
<1>6. ASSUME s = 1, CreateFiber PROVE Inv'
  BY <1>0, <1>6, QuietStep DEF CreateFiber, signal_vars, work_vars, INIT_COMPLETE, ALARM_SET, AlarmGoesOn
<1>7. ASSUME s = 1, SetAlarm PROVE Inv'
  BY <1>0, <1>7, QuietStep DEF SetAlarm, work_vars, INIT_COMPLETE, ALARM_SET, AlarmGoesOn
<1>8. ASSUME s = 1, InitComplete PROVE Inv'
  BY <1>0, <1>8, QuietStep DEF InitComplete, signal_vars, work_vars, INIT_COMPLETE, ALARM_SET, AlarmGoesOn
<1>9. ASSUME NEW t \in Threads, ExitSuccess(t) PROVE Inv'
  BY <1>9, WorkStep DEF ExitSuccess, work_vars, HeapOK, CountOK, ExitOK, Unfinished
<1> QED
  BY <1>1, <1>2, <1>3, <1>4, <1>5, <1>6, <1>7, <1>8, <1>9 DEF Progress

LEMMA NextInv == Inv /\ [Next]_vars => Inv'
<1> SUFFICES ASSUME Inv, [Next]_vars PROVE Inv'
  OBVIOUS
<1> USE TestbedAssumption
<1>1. ASSUME NEW s \in Flows, Progress(s) PROVE Inv'
  BY <1>1, ProgressStep
<1>2. ASSUME NEW t \in Threads, NEW f \in Fibers, InitSwitch(t, f) PROVE Inv'
  <2>1. on[t] # 1 /\ ~handling[t]
    BY <1>2, FS_CardinalityType DEF InitSwitch, InitLoop, Executes, Others
  <2> QED
    BY <1>2, <2>1, SwitchStep DEF InitSwitch, signal_vars, Inv, TestbedTypeOK
<1>3. ASSUME NEW t \in Threads, NEW f \in Fibers, LoopSchedule(t, f) PROVE Inv'
  <2>1. on[t] # 1 /\ ~handling[t]
    BY <1>3 DEF LoopSchedule, DoneLoop, Executes
  <2> QED
    BY <1>3, <2>1, SwitchStep DEF LoopSchedule, schedule, Inv, TestbedTypeOK
<1>4. ASSUME NEW t \in Threads, NEW f \in Fibers, HandlerSchedule(t, f) PROVE Inv'
  <2>1. handling[t] /\ handling' = [handling EXCEPT ![t] = FALSE] /\ timer' = 2
    BY <1>4 DEF HandlerSchedule, schedule
  <2>2. /\ SwitchToFiber(t, f)
        /\ UNCHANGED <<main_vars, todo, heap, completed_fibers, frames, mask, pending, exited>>
    BY <1>4 DEF HandlerSchedule, schedule, work_vars
  <2>3. rand' \in Flows \cup {NoFlow}
    BY <1>4 DEF HandlerSchedule, work_vars, Inv, TestbedTypeOK
  <2>4. /\ on[t] # 1 \/ handling[t]
        /\ timer' = 2 \/ (UNCHANGED timer /\ ~handling[t])
    BY <2>1
  <2> QED BY <2>1, <2>2, <2>3, <2>4, SwitchStep, Zenon
<1>5. ASSUME NEW t \in Threads, HandlerReturn(t) \/ Deliver(t) PROVE Inv'
  BY <1>5, DeliverStep, ReturnStep
<1>6. ASSUME Tick \/ Expire PROVE Inv'
  <2>1. UNCHANGED <<main_vars, on, work_vars, frames, handling, mask, exited>>
    BY <1>6 DEF Tick, Expire
  <2>2. timer' \in 0 .. 2 /\ pending' \in BOOLEAN
    <3>1. timer' \in 0 .. 2
      BY <1>6 DEF Tick, Expire
    <3>2. pending' = pending \/ pending' = TRUE
      BY <1>6 DEF Tick, Expire
    <3> QED BY <3>1, <3>2 DEF Inv, TestbedTypeOK
  <2>3. AlarmGoesOn'
    BY <1>6 DEF Tick, Expire, AlarmGoesOn
  <2> QED
    BY <2>1, <2>2, <2>3, QuietStep DEF main_vars, work_vars, Inv, TestbedTypeOK
<1>7. ASSUME UNCHANGED vars PROVE Inv'
  BY <1>7, QuietStep DEF vars, main_vars, work_vars, signal_vars, Inv, TestbedTypeOK, AlarmGoesOn
<1>8. ASSUME NEW t \in Threads, get_random_fiber(t) PROVE Inv'
  <2>1. rand' \in Flows
    BY <1>8 DEF get_random_fiber, Inv, TestbedTypeOK
  <2> QED
    BY <1>8, <2>1, QuietStep
    DEF get_random_fiber, main_vars, signal_vars, AlarmGoesOn, Inv, TestbedTypeOK
<1> QED
  BY <1>1, <1>2, <1>3, <1>4, <1>5, <1>6, <1>7, <1>8 DEF Next

(* The invariant of the driver: main.c and thread.c keep it, whichever     *)
(* thread the alarm reaches and whichever fiber schedule draws.            *)
THEOREM TestbedInvariant == Spec => []Inv
<1> QED
  BY InitInv, NextInv, PTL DEF Spec

(* The globals of main.c keep their types; in particular the counter of    *)
(* fibers that work never goes below 0, so no fiber is counted twice.      *)
THEOREM TestbedTyped == Spec => []TestbedTypeOK
<1>1. Inv => TestbedTypeOK
  BY DEF Inv
<1> QED
  BY <1>1, TestbedInvariant, PTL

(* Fiber 1, in the loop of main.c that waits for completed_fibers, is on a *)
(* thread that takes the alarm.                                            *)
THEOREM WaiterInterrupted == Spec => []WaiterTakesAlarm
<1>1. Inv => WaiterTakesAlarm
  BY DEF Inv
<1> QED
  BY <1>1, TestbedInvariant, PTL

(* The alarm that schedule sets again and again never dies out.            *)
THEOREM AlarmSurvives == Spec => []AlarmGoesOn
<1>1. Inv => AlarmGoesOn
  BY DEF Inv
<1> QED
  BY <1>1, TestbedInvariant, PTL

(* exit is called in main only when every fiber has processed all of its   *)
(* events: the test of the shared counter by fiber 1 tells it so.          *)
THEOREM ExitsWhenDone == Spec => [](exited => \A f \in Fibers : todo[f] = -1)
<1>1. Inv => (exited => \A f \in Fibers : todo[f] = -1)
  <2> SUFFICES ASSUME Inv, exited, NEW f \in Fibers PROVE todo[f] = -1
    OBVIOUS
  <2>1. Cardinality(Unfinished) = 0
    BY DEF Inv, ExitOK, CountOK
  <2>2. Unfinished = {}
    BY <2>1, UnfinishedCount, FS_EmptySet
  <2>3. ~(todo[f] >= 0)
    BY <2>2 DEF Unfinished
  <2> QED
    BY <2>3, TestbedAssumption DEF Inv, TestbedTypeOK
<1> QED
  BY <1>1, TestbedInvariant, PTL
=============================================================================
