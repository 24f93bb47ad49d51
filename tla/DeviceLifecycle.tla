-------------------------- MODULE DeviceLifecycle --------------------------
(***************************************************************************)
(* The life of the kernel module, of the open files of its device and of   *)
(* the thread groups of all processes (fibers/device.c, fibers/module.c,   *)
(* cleanup_process and cleanup_all of fibers/fiber.c), used through the    *)
(* library: Convert_thread_to_fiber opens the device every time and        *)
(* nothing is closed before the process exits.                             *)
(*                                                                         *)
(* What a call does with its thread group is the matter of FiberKernel;    *)
(* here a call is using the group from its lookup to its return.  Every    *)
(* group is alone in its bucket of the groups table.                       *)
(***************************************************************************)
EXTENDS Integers, FiniteSets

CONSTANTS
  Procs,     \* the pids a process can have
  Threads,   \* the threads of a process
  Files,     \* bound: the open file descriptions of the device
  MaxLives   \* bound: how many processes in turn get one pid

ASSUME LifecycleAssumption ==
  IsFiniteSet(Files) /\ MaxLives \in Nat

VARIABLES
  loaded,   \* is the module loaded?
  dev,      \* did fibers_register_device succeed?
  refs,     \* references to the module, its own and those of the VFS
  proc,     \* what has become of the process with a pid
  life,     \* how many processes have had the pid
  holders,  \* the processes with a descriptor for an open file description
  group,    \* the thread_group in groups: 0 or the life that generated it
  call,     \* what each thread is doing
  kin       \* history: the pids of processes that forked or were forked

vars == <<loaded, dev, refs, proc, life, holders, group, call, kin>>
proc_vars == <<proc, life, kin>>
module_vars == <<loaded, dev, refs>>

Init ==
  /\ loaded = FALSE
  /\ dev = FALSE
  /\ refs = 0
  /\ proc = [p \in Procs |-> "none"]
  /\ life = [p \in Procs |-> 0]
  /\ holders = [f \in Files |-> {}]
  /\ group = [p \in Procs |-> 0]
  /\ call = [p \in Procs |-> [t \in Threads |-> "idle"]]
  /\ kin = {}

Busy(p) == \E t \in Threads : call[p][t] \in {"using", "dangling"}
Doing(p, t, from, to) ==
  call[p][t] = from /\ call' = [call EXCEPT ![p][t] = to]

(* The groups of ps are freed: a call that still uses one is left with a   *)
(* dangling pointer.  The loops over the records of a group, and that of   *)
(* cleanup_all over the groups, free a node and then read its next pointer *)
(* from the freed memory; here the memory still holds it.                  *)
Free(ps) ==
  /\ group' = [p \in Procs |-> IF p \in ps THEN 0 ELSE group[p]]
  /\ call' = [p \in Procs |-> [t \in Threads |->
       IF p \in ps /\ group[p] # 0 /\ call[p][t] = "using" THEN "dangling" ELSE call[p][t]]]

cleanup_process(p) == Free({p})
cleanup_all == Free(Procs)

-----------------------------------------------------------------------------
(* The module                                                              *)

(* fibers_init_module does not look at the result of the registration: the *)
(* module is loaded even if there is no device.                            *)
fibers_init_module ==
  /\ ~loaded
  /\ loaded' = TRUE
  /\ dev' \in BOOLEAN
  /\ refs' = 0
  /\ UNCHANGED <<proc_vars, holders, group, call>>

(* The kernel unloads a module that is not referenced.                     *)
fibers_exit_module ==
  /\ loaded /\ refs = 0
  /\ cleanup_all
  /\ loaded' = FALSE
  /\ dev' = FALSE
  /\ UNCHANGED <<refs, proc_vars, holders>>

-----------------------------------------------------------------------------
(* The device                                                              *)

(* The references that the VFS takes to the owner of a character device    *)
(* for every open file: one for the device and one for its operations      *)
(* (.owner), from before fibers_open to after fibers_release.              *)
VfsRefs == 2

(* Seeded fault: try_module_get is forgotten.                              *)
FaultOpen(p) ==
  /\ \E f \in Files : holders[f] = {} /\ holders' = [holders EXCEPT ![f] = {p}]
  /\ refs' = refs + VfsRefs

(* The new description takes a reference to the module, beside those of    *)
(* the VFS.                                                                *)
fibers_open(p) ==
  /\ \E f \in Files : holders[f] = {} /\ holders' = [holders EXCEPT ![f] = {p}]
  /\ refs' = refs + VfsRefs + 1

(* Seeded fault: every process' group is freed.                            *)
FaultReleaseAll(p) == cleanup_all /\ refs' = refs - VfsRefs - 1

(* Seeded fault: the group is kept.                                        *)
FaultReleaseNone(p) == refs' = refs - VfsRefs - 1 /\ UNCHANGED <<group, call>>

(* Seeded fault: the reference is kept when the process has no group.      *)
FaultReleaseRef(p) ==
  cleanup_process(p) /\ refs' = refs - VfsRefs - (IF group[p] = 0 THEN 0 ELSE 1)

(* The last descriptor is gone: the group of the process that closed it,   *)
(* not of the one that opened the file, is freed.                          *)
fibers_release(p) == cleanup_process(p) /\ refs' = refs - VfsRefs - 1

(* open in Convert_thread_to_fiber.  When it fails the program exits, as   *)
(* it may at any time (Exit).                                              *)
Open(p, t) ==
  /\ proc[p] = "alive"
  /\ loaded /\ dev
  /\ fibers_open(p)
  /\ Doing(p, t, "idle", "opened")
  /\ UNCHANGED <<loaded, dev, proc_vars, group>>

(* ... and its ioctl: the group is looked up and, if need be, generated.   *)
Convert(p, t) ==
  /\ proc[p] = "alive"
  /\ Doing(p, t, "opened", "using")
  /\ group' = [group EXCEPT ![p] = IF @ = 0 THEN life[p] ELSE @]
  /\ UNCHANGED <<module_vars, proc_vars, holders>>

(* Any other ioctl, on a descriptor the process has; with no group it      *)
(* returns at once.                                                        *)
Enter(p, t) ==
  /\ proc[p] = "alive"
  /\ \E f \in Files : p \in holders[f]
  /\ group[p] # 0
  /\ Doing(p, t, "idle", "using")
  /\ UNCHANGED <<module_vars, proc_vars, holders, group>>

Return(p, t) ==
  /\ Doing(p, t, "using", "idle")
  /\ UNCHANGED <<module_vars, proc_vars, holders, group>>

-----------------------------------------------------------------------------
(* The processes                                                           *)

Start(p) ==
  /\ proc[p] = "none" /\ life[p] < MaxLives
  /\ proc' = [proc EXCEPT ![p] = "alive"]
  /\ life' = [life EXCEPT ![p] = @ + 1]
  /\ UNCHANGED <<module_vars, holders, group, call, kin>>

(* The child has its parent's descriptors, and no other thread.            *)
Fork(p, c) ==
  /\ proc[p] = "alive" /\ proc[c] = "none" /\ life[c] < MaxLives
  /\ proc' = [proc EXCEPT ![c] = "alive"]
  /\ life' = [life EXCEPT ![c] = @ + 1]
  /\ holders' = [f \in Files |-> IF p \in holders[f] THEN holders[f] \cup {c} ELSE holders[f]]
  /\ kin' = kin \cup {p, c}
  /\ UNCHANGED <<module_vars, group, call>>

(* No thread starts another call; those inside the module get out first.   *)
Exit(p) ==
  /\ proc[p] = "alive"
  /\ proc' = [proc EXCEPT ![p] = "exiting"]
  /\ call' = [call EXCEPT ![p] = [t \in Threads |-> IF @[t] = "opened" THEN "idle" ELSE @[t]]]
  /\ UNCHANGED <<module_vars, life, holders, group, kin>>

(* The last thread to exit closes the descriptors one by one.              *)
Close(p, f) ==
  /\ proc[p] = "exiting" /\ ~Busy(p)
  /\ p \in holders[f]
  /\ holders' = [holders EXCEPT ![f] = @ \ {p}]
  /\ IF holders[f] = {p} THEN fibers_release(p) ELSE UNCHANGED <<refs, group, call>>
  /\ UNCHANGED <<loaded, dev, proc_vars>>

(* The pid can be used again.                                              *)
Reap(p) ==
  /\ proc[p] = "exiting" /\ ~Busy(p)
  /\ \A f \in Files : p \notin holders[f]
  /\ proc' = [proc EXCEPT ![p] = "none"]
  /\ UNCHANGED <<module_vars, life, holders, group, call, kin>>

-----------------------------------------------------------------------------
Next ==
  \/ fibers_init_module
  \/ fibers_exit_module
  \/ \E p \in Procs :
       \/ \E t \in Threads : Open(p, t) \/ Convert(p, t) \/ Enter(p, t) \/ Return(p, t)
       \/ Start(p)
       \/ \E c \in Procs : Fork(p, c)
       \/ Exit(p)
       \/ \E f \in Files : Close(p, f)
       \/ Reap(p)

Spec == Init /\ [][Next]_vars

-----------------------------------------------------------------------------
(* Properties                                                              *)

(* The device's state keeps its types; module_put is never called without  *)
(* a reference, so that refs is never negative.                            *)
LifecycleTypeOK ==
  /\ loaded \in BOOLEAN /\ dev \in BOOLEAN
  /\ refs \in Nat
  /\ proc \in [Procs -> {"none", "alive", "exiting"}]
  /\ life \in [Procs -> 0 .. MaxLives]
  /\ holders \in [Files -> SUBSET Procs]
  /\ group \in [Procs -> 0 .. MaxLives]
  /\ call \in [Procs -> [Threads -> {"idle", "opened", "using", "dangling"}]]
  /\ kin \subseteq Procs

(* cleanup_process and cleanup_all, which take no lock, never free a group *)
(* that a call is using: a release only frees the group of the process     *)
(* whose threads are all gone, even when descriptors are inherited.        *)
NoUseAfterFree ==
  \A p \in Procs, t \in Threads : call[p][t] # "dangling"

(* No thread is inside the module when it is unloaded: module_put in       *)
(* fibers_release gives back no more than fibers_open took, so that every  *)
(* open file keeps the references the VFS has for it, however files are    *)
(* opened, inherited and closed.                                           *)
CallsKeepModule ==
  \A p \in Procs, t \in Threads :
    call[p][t] = "using" => loaded /\ refs > 0

(* fibers_open and fibers_release balance: when every process is gone the  *)
(* module can be unloaded.                                                 *)
RefsReturned ==
  (\A p \in Procs : proc[p] = "none") => refs = 0

(* Where no descriptor was inherited, the groups table holds no group of a *)
(* dead process: a new process with an old pid never finds the fibers of   *)
(* its predecessor, whatever other processes fork.                         *)
NoInheritedGroup ==
  \A p \in Procs \ kin : group[p] # 0 => proc[p] # "none" /\ group[p] = life[p]
=============================================================================
