------------------------------ MODULE ProcBase ------------------------------
(***************************************************************************)
(* How the module adds the directory "fibers" to /proc/<pid>               *)
(* (fibers/probes.c): return probes on proc_tgid_base_readdir and          *)
(* proc_tgid_base_lookup call the kernel's own helper a second time, with  *)
(* a table whose only real entry lies where the kernel's table ends.       *)
(* Where that is, the module learns from the first reader it meets.        *)
(*                                                                         *)
(* A reader is an open /proc/<pid>; it reads until a call returns nothing. *)
(* The entries at positions 0 and 1 are "." and "..".                      *)
(***************************************************************************)
EXTENDS Integers, Sequences

CONSTANTS
  Readers,    \* open directories, each of a process of its own
  NumBase,    \* entries of the kernel's table
  Rooms,      \* how many entries fit in the buffer of a call
  MaxRewinds  \* bound: how often directories are read again

(* The C library's buffer holds all the kernel's entries of /proc/<pid>.   *)
ASSUME ProcBaseAssumption ==
  /\ NumBase \in Nat /\ MaxRewinds \in Nat
  /\ Rooms \subseteq Nat /\ \A n \in Rooms : n >= NumBase + 2

VARIABLES
  nents,    \* 0, or the position behind the kernel's entries
  group,    \* the readers whose process has a thread_group
  fpos,     \* ctx->pos of each directory
  room,     \* room left in the buffer of the call
  begun,    \* how much had been returned when the call began
  at,       \* "user", the probe's steps "check", "lock" and "emit", "end"
  seen,     \* what the reads since the last rewind returned
  dcache,   \* the readers whose "fibers" is in the dentry cache
  fails,    \* failed lookups of "fibers" since they could have succeeded
  stuck,    \* the readers whose lookup of "fibers" faulted in the probe
  had,      \* history: did the process have fibers when the read began?
  rewinds

reader_vars == <<fpos, room, begun, at, seen, had, rewinds>>
vars == <<nents, group, reader_vars, dcache, fails, stuck>>

FIBERS == -1    \* the entry fibers_dir[0]
OUTSIDE == -2   \* whatever lies before or behind it in memory

Init ==
  /\ nents = 0
  /\ group \in SUBSET Readers
  /\ fpos = [r \in Readers |-> 0]
  /\ room = [r \in Readers |-> 0]
  /\ begun = [r \in Readers |-> 0]
  /\ at = [r \in Readers |-> "user"]
  /\ seen = [r \in Readers |-> <<>>]
  /\ dcache = {}
  /\ fails = [r \in Readers |-> 0]
  /\ stuck = {}
  /\ had = [r \in Readers |-> r \in group]
  /\ rewinds = 0

Lesser(a, b) == IF a < b THEN a ELSE b

(* proc_pident_readdir of the kernel, for a table of n entries of which    *)
(* the one for position p is Entry(p): how many it returns, and the effect *)
Count(r, n, space) == IF fpos[r] >= n + 2 THEN 0 ELSE Lesser(n + 2 - fpos[r], space)
proc_pident_readdir(r, n, space, Entry(_)) ==
  LET c == Count(r, n, space) IN
  /\ seen' = [seen EXCEPT ![r] = @ \o [i \in 1 .. c |-> Entry(fpos[r] + i - 1)]]
  /\ fpos' = [fpos EXCEPT ![r] = @ + c]
  /\ room' = [room EXCEPT ![r] = space - c]

-----------------------------------------------------------------------------
(* The process of the reader gets fibers.                                  *)
Convert(r) ==
  /\ r \notin group
  /\ group' = group \cup {r}
  /\ UNCHANGED <<nents, reader_vars, dcache, fails, stuck>>

(* getdents: the kernel's proc_tgid_base_readdir, whose return is probed.  *)
proc_tgid_base_readdir(r, space) ==
  LET Own(p) == p IN
  /\ at[r] = "user" /\ at' = [at EXCEPT ![r] = "check"]
  /\ begun' = [begun EXCEPT ![r] = Len(seen[r])]
  /\ proc_pident_readdir(r, NumBase, space, Own)
  /\ UNCHANGED <<nents, group, dcache, fails, stuck, had, rewinds>>

(* handler_readdir looks at nents without the lock ...                     *)
CheckNents(r) ==
  /\ at[r] = "check"
  /\ at' = [at EXCEPT ![r] = IF nents = 0 THEN "lock" ELSE "emit"]
  /\ UNCHANGED <<nents, group, fpos, room, begun, seen, had, rewinds, dcache, fails, stuck>>

(* ... and again with it.                                                  *)
SetNents(r) ==
  /\ at[r] = "lock" /\ at' = [at EXCEPT ![r] = "emit"]
  /\ nents' = IF nents = 0 THEN fpos[r] ELSE nents
  /\ UNCHANGED <<group, fpos, room, begun, seen, had, rewinds, dcache, fails, stuck>>

(* Seeded fault: the table is placed one entry too far back.               *)
FaultEntry(p) == IF p = nents - 1 THEN FIBERS ELSE OUTSIDE

(* The table fibers_dir - (nents - 2) has fibers_dir[0] at position nents. *)
Entry(p) == IF p = nents THEN FIBERS ELSE OUTSIDE

(* The rest of handler_readdir, for a process with fibers.  A call that    *)
(* has returned nothing is the reader's last.                              *)
handler_readdir(r) ==
  /\ at[r] = "emit"
  /\ IF r \in group
       THEN /\ proc_pident_readdir(r, nents - 1, room[r], Entry)
            /\ dcache' = IF fpos'[r] > fpos[r] THEN dcache \cup {r} ELSE dcache
       ELSE UNCHANGED <<seen, fpos, room, dcache>>
  /\ at' = [at EXCEPT ![r] = IF Len(seen'[r]) = begun[r] THEN "end" ELSE "user"]
  /\ UNCHANGED <<nents, group, begun, had, rewinds, fails, stuck>>

Rewind(r) ==
  /\ at[r] = "end" /\ rewinds < MaxRewinds
  /\ rewinds' = rewinds + 1
  /\ at' = [at EXCEPT ![r] = "user"]
  /\ fpos' = [fpos EXCEPT ![r] = 0]
  /\ seen' = [seen EXCEPT ![r] = <<>>]
  /\ had' = [had EXCEPT ![r] = r \in group]
  /\ UNCHANGED <<nents, group, room, begun, dcache, fails, stuck>>

(* Seeded fault: the length passed is that of the kernel's table.          *)
FaultLookup(r) == r \in group /\ nents # 0 /\ \E p \in 2 .. nents - 1 : Entry(p) = FIBERS

(* handler_lookup finds "fibers" in its table, at positions 2 .. nents,    *)
(* when it gets there (LookupFaults).                                      *)
handler_lookup(r) == r \in group /\ nents # 0 /\ \E p \in 2 .. nents : Entry(p) = FIBERS

(* A lookup of "fibers": the cache, or else the kernel's table, which does *)
(* not have it; the probe adds the dentry when the error is already        *)
(* decided.                                                                *)
proc_tgid_base_lookup(r) ==
  /\ r \notin stuck
  /\ IF r \in dcache
       THEN fails' = [fails EXCEPT ![r] = 0] /\ UNCHANGED dcache
       ELSE /\ fails' = [fails EXCEPT ![r] = IF r \in group /\ nents # 0 THEN Lesser(@ + 1, 2) ELSE 0]
            /\ dcache' = IF handler_lookup(r) THEN dcache \cup {r} ELSE dcache
  /\ UNCHANGED <<nents, group, reader_vars, stuck>>

(* The positions before nents lie in front of fibers_dir: where what is    *)
(* there has the length of the name, the name is compared through a wild   *)
(* pointer.  Either it differs, or the lookup faults: it never returns,    *)
(* and every later one waits for it.                                       *)
LookupFaults(r) ==
  /\ r \notin stuck \cup dcache
  /\ r \in group /\ nents > 2
  /\ stuck' = stuck \cup {r}
  /\ UNCHANGED <<nents, group, reader_vars, dcache, fails>>

(* Memory pressure.                                                        *)
Forget(r) ==
  /\ r \in dcache
  /\ dcache' = dcache \ {r}
  /\ fails' = [fails EXCEPT ![r] = 0]
  /\ UNCHANGED <<nents, group, reader_vars, stuck>>

Next ==
  \E r \in Readers :
    \/ Convert(r)
    \/ \E n \in Rooms : proc_tgid_base_readdir(r, n)
    \/ CheckNents(r)
    \/ SetNents(r)
    \/ handler_readdir(r)
    \/ Rewind(r)
    \/ proc_tgid_base_lookup(r)
    \/ LookupFaults(r)
    \/ Forget(r)

Spec == Init /\ [][Next]_vars

-----------------------------------------------------------------------------
(* Properties                                                              *)

(* A reader that got to the end has seen every entry of the kernel once    *)
(* and in order, and then "fibers" at most once, exactly once when its     *)
(* process had fibers from the start; and nothing else, although the place *)
(* of "fibers" was learnt from another reader's position, by a race.       *)
ListingExact ==
  \A r \in Readers :
    at[r] = "end" =>
      LET own == [i \in 1 .. NumBase + 2 |-> i - 1] IN
      \/ seen[r] = own \o <<FIBERS>>
      \/ seen[r] = own /\ ~had[r]

(* Where "fibers" is known to be, the probe of a failed lookup that        *)
(* returns makes the next one succeed.                                     *)
SecondLookup == \A r \in Readers : fails[r] <= 1
=============================================================================
