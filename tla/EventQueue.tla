----------------------------- MODULE EventQueue -----------------------------
(***************************************************************************)
(* What an event queue promises a simulation: what is put in comes out     *)
(* once, earliest timestamp first.                                         *)
(***************************************************************************)
EXTENDS Integers

CONSTANT Prios  \* the timestamps

VARIABLES
  events,  \* how many events are pending at each timestamp
  got      \* the timestamp of the last event taken

vars == <<events, got>>

Init ==
  /\ events = [p \in Prios |-> 0]
  /\ got = 0

Put(p) ==
  /\ events' = [events EXCEPT ![p] = @ + 1]
  /\ UNCHANGED got

Get(p) ==
  /\ events[p] > 0
  /\ \A x \in Prios : events[x] > 0 => p <= x
  /\ events' = [events EXCEPT ![p] = @ - 1]
  /\ got' = p

Next == \E p \in Prios : Put(p) \/ Get(p)

Spec == Init /\ [][Next]_vars
=============================================================================
