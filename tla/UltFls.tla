------------------------------- MODULE UltFls -------------------------------
(***************************************************************************)
(* Fiber local storage of the user-space fibers (fls_alloc, fls_get,       *)
(* fls_set and fls_free of libfibers/testbed/src/ult.c), as main_loop of   *)
(* main.c uses it.  There is one array and one counter for all fibers, and *)
(* no lock: a slot is private only because no index is handed out twice.   *)
(* CellFibers are preempted by the alarm and moved between threads anywhere,   *)
(* so their calls interleave freely.                                       *)
(***************************************************************************)
EXTENDS Integers

CONSTANTS
  CellFibers,  \* the fibers in main_loop, one for each cell
  MAX_FLS,     \* length of the array
  Values       \* what is stored

ASSUME UltFlsAssumption == MAX_FLS \in Nat /\ 0 \in Values

VARIABLES
  fls_idx,   \* the next index, also past the end of the array
  fls,       \* the array
  at,        \* where in main_loop each fiber is
  q_idx,     \* local: index of the queue
  state_idx, \* local: index of the cell's state
  got,       \* what the fiber's last fls_get returned
  wrote      \* history: what each fiber last stored for its queue and its state

flsVars == <<fls_idx, fls, at, q_idx, state_idx, got, wrote>>
Slots == 0 .. MAX_FLS - 1

FlsInit ==
  /\ fls_idx = 0
  /\ fls = [i \in Slots |-> 0]
  /\ at = [f \in CellFibers |-> "alloc_q"]
  /\ q_idx = [f \in CellFibers |-> -1]
  /\ state_idx = [f \in CellFibers |-> -1]
  /\ got = [f \in CellFibers |-> 0]
  /\ wrote = [f \in CellFibers |-> [q |-> 0, state |-> 0]]

GoOn(f, a, b) == at[f] = a /\ at' = [at EXCEPT ![f] = b]

(* Seeded fault: the last slot is never handed out.                        *)
FaultAllocLast(i) == IF i >= MAX_FLS - 1 THEN -1 ELSE i

(* What fls_alloc returns for the old value of the counter, which it moves *)
(* on with an atomic __sync_fetch_and_add.                                 *)
fls_alloc(i) == IF i >= MAX_FLS THEN -1 ELSE i

AllocQueue(f) ==
  /\ GoOn(f, "alloc_q", "alloc_s")
  /\ fls_idx' = fls_idx + 1
  /\ q_idx' = [q_idx EXCEPT ![f] = fls_alloc(fls_idx)]
  /\ UNCHANGED <<fls, state_idx, got, wrote>>

(* Seeded fault: the increment is lost, as it can be when not atomic.      *)
FaultAllocState(f) ==
  /\ at[f] = "alloc_s"
  /\ fls_idx' = fls_idx
  /\ state_idx' = [state_idx EXCEPT ![f] = fls_alloc(fls_idx)]
  /\ at' = [at EXCEPT ![f] = IF -1 \in {q_idx[f], state_idx'[f]} THEN "exit" ELSE "loop"]
  /\ UNCHANGED <<fls, q_idx, got, wrote>>

(* A fiber that misses an index ends the process.                          *)
AllocState(f) ==
  /\ at[f] = "alloc_s"
  /\ fls_idx' = fls_idx + 1
  /\ state_idx' = [state_idx EXCEPT ![f] = fls_alloc(fls_idx)]
  /\ at' = [at EXCEPT ![f] = IF -1 \in {q_idx[f], state_idx'[f]} THEN "exit" ELSE "loop"]
  /\ UNCHANGED <<fls, q_idx, got, wrote>>

fls_set(i, v) == fls' = [fls EXCEPT ![i] = v]

SetQueue(f, v) ==
  /\ at[f] = "loop"
  /\ fls_set(q_idx[f], v)
  /\ wrote' = [wrote EXCEPT ![f].q = v]
  /\ UNCHANGED <<fls_idx, at, q_idx, state_idx, got>>

SetState(f, v) ==
  /\ at[f] = "loop"
  /\ fls_set(state_idx[f], v)
  /\ wrote' = [wrote EXCEPT ![f].state = v]
  /\ UNCHANGED <<fls_idx, at, q_idx, state_idx, got>>

fls_get(i) == fls[i]

GetQueue(f) ==
  /\ GoOn(f, "loop", "read_q")
  /\ got' = [got EXCEPT ![f] = fls_get(q_idx[f])]
  /\ UNCHANGED <<fls_idx, fls, q_idx, state_idx, wrote>>

GetState(f) ==
  /\ GoOn(f, "loop", "read_s")
  /\ got' = [got EXCEPT ![f] = fls_get(state_idx[f])]
  /\ UNCHANGED <<fls_idx, fls, q_idx, state_idx, wrote>>

(* The value is used.                                                      *)
Use(f) ==
  /\ at[f] \in {"read_q", "read_s"}
  /\ at' = [at EXCEPT ![f] = "loop"]
  /\ UNCHANGED <<fls_idx, fls, q_idx, state_idx, got, wrote>>

(* exit() ends every fiber; fls_free, which nobody calls, changes nothing. *)
FlsNext ==
  /\ \A f \in CellFibers : at[f] # "exit"
  /\ \E f \in CellFibers :
       \/ AllocQueue(f) \/ AllocState(f)
       \/ \E v \in Values : SetQueue(f, v) \/ SetState(f, v)
       \/ GetQueue(f) \/ GetState(f) \/ Use(f)

FlsSpec == FlsInit /\ [][FlsNext]_flsVars

-----------------------------------------------------------------------------
(* Properties                                                              *)

Places == {"alloc_q", "alloc_s", "loop", "read_q", "read_s", "exit"}

(* The indexes that main_loop keeps are slots of the array fls or the -1 of *)
(* a failed fls_alloc, and the array holds values that were stored.        *)
UltFlsTypeOK ==
  /\ fls_idx \in Nat
  /\ fls \in [Slots -> Values]
  /\ at \in [CellFibers -> Places]
  /\ q_idx \in [CellFibers -> Slots \cup {-1}] /\ state_idx \in [CellFibers -> Slots \cup {-1}]
  /\ got \in [CellFibers -> Values]
  /\ wrote \in [CellFibers -> [q : Values, state : Values]]

(* What a fiber reads from the shared array is what it stored itself,      *)
(* however the allocations and accesses of the other fibers interleave,    *)
(* and main_loop never indexes the array out of its bounds.                *)
SlotsPrivate ==
  \A f \in CellFibers :
    /\ at[f] \in {"loop", "read_q", "read_s"} => {q_idx[f], state_idx[f]} \subseteq Slots
    /\ at[f] = "read_q" => got[f] = wrote[f].q
    /\ at[f] = "read_s" => got[f] = wrote[f].state

(* The process ends with "No more FLS storage available" only when every   *)
(* slot has been handed out.                                               *)
ExitOnlyWhenFull ==
  (\E f \in CellFibers : at[f] = "exit") => fls_idx > MAX_FLS
=============================================================================
