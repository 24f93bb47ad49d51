---------------------------- MODULE FlowStorage ----------------------------
(***************************************************************************)
(* What fiber local storage promises: every flow of control has slots of   *)
(* its own, which follow it from thread to thread.  An operation is one    *)
(* step, whatever the other threads do meanwhile.                          *)
(***************************************************************************)
EXTENDS Integers

CONSTANTS
  Threads,  \* the threads, each of which starts in a flow of its own
  Flows,    \* all flows of control
  Size,     \* slots of a flow: 0 .. Size - 1
  Values    \* what a slot can hold

VARIABLES
  running,  \* the flow each thread executes
  member,   \* the flows that are fibers, and so have slots
  used,     \* the allocated slots of each flow
  value,    \* what each slot holds, allocated or not
  result    \* what each thread's last operation returned

vars == <<running, member, used, value, result>>
Slots == 0 .. Size - 1
Indices == -1 .. Size  \* what a caller may name: the slots and one beyond
AGAIN == -11
SRCH  == -3
ACCES == -13

Init ==
  /\ running = [t \in Threads |-> t]
  /\ member = {}
  /\ used = [s \in Flows |-> {}]
  /\ value = [s \in Flows |-> [i \in Slots |-> 0]]
  /\ result = [t \in Threads |-> 0]

Answer(t, x) == result' = [result EXCEPT ![t] = x]

(* A flow becomes a fiber, with no slot allocated.                         *)
Join(s) ==
  /\ s \notin member
  /\ member' = member \cup {s}
  /\ UNCHANGED <<running, used, value, result>>

(* A thread leaves its flow for one that no thread executes.               *)
Move(t, s) ==
  /\ {s, running[t]} \subseteq member
  /\ \A u \in Threads : running[u] # s
  /\ running' = [running EXCEPT ![t] = s]
  /\ UNCHANGED <<member, used, value, result>>

(* The lowest free slot is handed out; what it held is still there.        *)
Alloc(t) ==
  LET s == running[t]
      free == Slots \ used[s] IN
  /\ s \in member
  /\ IF free = {}
       THEN Answer(t, AGAIN) /\ UNCHANGED used
       ELSE \E i \in free : /\ \A j \in free : i <= j
                            /\ used' = [used EXCEPT ![s] = @ \cup {i}]
                            /\ Answer(t, i)
  /\ UNCHANGED <<running, member, value>>

Free(t, i) ==
  LET s == running[t] IN
  /\ s \in member
  /\ IF i \in used[s]
       THEN used' = [used EXCEPT ![s] = @ \ {i}] /\ Answer(t, 0)
       ELSE Answer(t, AGAIN) /\ UNCHANGED used
  /\ UNCHANGED <<running, member, value>>

Set(t, i, v) ==
  LET s == running[t] IN
  /\ s \in member
  /\ IF i \in used[s]
       THEN value' = [value EXCEPT ![s][i] = v] /\ Answer(t, i)
       ELSE Answer(t, AGAIN) /\ UNCHANGED value
  /\ UNCHANGED <<running, member, used>>

(* The answer to a read of a slot that is not allocated is in band.        *)
Get(t, i) ==
  LET s == running[t] IN
  /\ s \in member
  /\ Answer(t, IF i \notin Slots THEN SRCH
               ELSE IF i \in used[s] THEN value[s][i] ELSE ACCES)
  /\ UNCHANGED <<running, member, used, value>>

(* A flow that is not a fiber has no slots.                                *)
NoFiber(t) ==
  /\ running[t] \notin member
  /\ \E x \in {AGAIN, SRCH} : Answer(t, x)
  /\ UNCHANGED <<running, member, used, value>>

Next ==
  \/ \E s \in Flows : Join(s)
  \/ \E t \in Threads :
       \/ \E s \in Flows : Move(t, s)
       \/ Alloc(t)
       \/ \E i \in Indices :
            Free(t, i) \/ Get(t, i) \/ (\E v \in Values : Set(t, i, v))
       \/ NoFiber(t)

Spec == Init /\ [][Next]_vars
=============================================================================
