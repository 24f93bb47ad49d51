----------------------------- MODULE Coroutines -----------------------------
(***************************************************************************)
(* What the fiber scheduler promises its users: flows of control that the  *)
(* threads hand to one another.  A flow runs on one thread at a time, is   *)
(* resumed exactly where it was left, and a switch is a single step.  A    *)
(* switch may be refused at any time, which is a stuttering step.          *)
(***************************************************************************)
EXTENDS Integers

CONSTANTS
  Threads,  \* the threads, each of which starts in a flow of its own
  Fibers    \* the flows that can be created

VARIABLES
  running,  \* the flow each thread executes
  pos,      \* how far each flow has got
  born      \* the created flows

vars == <<running, pos, born>>
Flows == Threads \cup Fibers

Init ==
  /\ running = [t \in Threads |-> t]
  /\ pos = [s \in Flows |-> 0]
  /\ born = {}

(* The thread executes one step of the flow it is in.                      *)
Step(t) ==
  /\ pos' = [pos EXCEPT ![running[t]] = @ + 1]
  /\ UNCHANGED <<running, born>>

(* A fresh flow starts to exist, at its entry point and on no thread.      *)
Create(f) ==
  /\ f \notin born
  /\ pos[f] = 0
  /\ born' = born \cup {f}
  /\ UNCHANGED <<running, pos>>

(* The thread leaves its flow and continues one that no thread executes.   *)
SwitchTo(t, s) ==
  /\ s \in Threads \cup born
  /\ \A u \in Threads : running[u] # s
  /\ running' = [running EXCEPT ![t] = s]
  /\ UNCHANGED <<pos, born>>

Next ==
  \/ \E t \in Threads : Step(t)
  \/ \E f \in Fibers : Create(f)
  \/ \E t \in Threads, s \in Flows : SwitchTo(t, s)

Spec == Init /\ [][Next]_vars
=============================================================================
