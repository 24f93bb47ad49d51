-------------------------- MODULE ProcBaseProofs --------------------------
(***************************************************************************)
(* For any number of readers, entries of the kernel and rewinds, and for   *)
(* any buffers that hold the kernel's entries, every listing of            *)
(* /proc/<pid> is complete and exact, and a failed lookup of "fibers" is   *)
(* followed by one that succeeds, if it returns.                           *)
(***************************************************************************)
EXTENDS ProcBase, SequenceTheorems, TLAPS

Behind == NumBase + 2
BaseEntries == [i \in 1 .. Behind |-> i - 1]

-----------------------------------------------------------------------------
(* The invariant                                                           *)

(* What a reader has seen is what its position says: nothing, the kernel's *)
(* entries, or these and "fibers", for which nents had to be known.        *)
Position(r) ==
  \/ fpos[r] = 0 /\ seen[r] = <<>>
  \/ fpos[r] = Behind /\ seen[r] = BaseEntries
  \/ fpos[r] = Behind + 1 /\ seen[r] = BaseEntries \o <<FIBERS>> /\ nents = Behind

(* Between the kernel's helper and the probe's the kernel's entries have   *)
(* been returned, and a call that has returned nothing has room for one.   *)
InCall(r) ==
  /\ fpos[r] # 0
  /\ room[r] \in Nat /\ begun[r] \in 0 .. Len(seen[r])
  /\ begun[r] = Len(seen[r]) => room[r] > 0

ReaderInv(r) ==
  /\ Position(r)
  /\ at[r] \in {"user", "check", "lock", "emit", "end"}
  /\ at[r] \in {"check", "lock", "emit"} => InCall(r)
  /\ at[r] = "emit" => nents = Behind
  /\ at[r] = "end" => fpos[r] # 0 /\ (had[r] => fpos[r] = Behind + 1)
  /\ had[r] => r \in group

BaseInv ==
  /\ nents \in {0, Behind}
  /\ fpos \in [Readers -> Nat] /\ DOMAIN seen = Readers /\ DOMAIN at = Readers
  /\ DOMAIN room = Readers /\ DOMAIN begun = Readers /\ DOMAIN had = Readers
  /\ \A r \in Readers : ReaderInv(r)

(* A lookup that failed although it could have succeeded left the dentry.  *)
LookupInv ==
  /\ fails \in [Readers -> 0 .. 1]
  /\ \A r \in Readers : fails[r] = 1 => r \in dcache

-----------------------------------------------------------------------------
(* The kernel's helper                                                     *)

(* Appending nothing, the kernel's entries or "fibers" to what was seen.   *)
LEMMA Lengths ==
  /\ Behind \in Nat /\ Behind >= 2
  /\ Len(BaseEntries) = Behind /\ BaseEntries \in Seq(Int)
  /\ Len(BaseEntries \o <<FIBERS>>) = Behind + 1 /\ BaseEntries \o <<FIBERS>> \in Seq(Int)
<1>1. Behind \in Nat /\ Behind >= 2
  BY ProcBaseAssumption DEF Behind
<1>2. Len(BaseEntries) = Behind /\ BaseEntries \in Seq(Int)
  BY <1>1 DEF BaseEntries
<1>3. <<FIBERS>> \in Seq(Int) /\ Len(<<FIBERS>>) = 1
  BY DEF FIBERS
<1> QED BY <1>1, <1>2, <1>3, ConcatProperties

(* proc_pident_readdir of the kernel's own table: the first call returns   *)
(* all of it, every later one nothing.                                     *)
LEMMA KernelEntries ==
  ASSUME NEW r \in Readers, NEW space \in Rooms, Position(r), fpos[r] \in Nat
  PROVE  /\ Count(r, NumBase, space) = IF fpos[r] = 0 THEN Behind ELSE 0
         /\ seen[r] \o [i \in 1 .. Count(r, NumBase, space) |-> fpos[r] + i - 1]
              = IF fpos[r] = 0 THEN BaseEntries ELSE seen[r]
<1>1. space \in Nat /\ space >= Behind /\ NumBase \in Nat /\ Behind = NumBase + 2
  BY ProcBaseAssumption DEF Behind
<1>2. Count(r, NumBase, space) = IF fpos[r] = 0 THEN Behind ELSE 0
  BY <1>1 DEF Count, Lesser, Position
<1>3. CASE fpos[r] = 0
  <2>1. seen[r] = <<>>
    BY <1>1, <1>3 DEF Position
  <2>2. [i \in 1 .. Behind |-> fpos[r] + i - 1] = BaseEntries
    BY <1>1, <1>3 DEF BaseEntries
  <2>3. <<>> \o BaseEntries = BaseEntries
    BY Lengths, ConcatEmptySeq
  <2> QED BY <1>2, <1>3, <2>1, <2>2, <2>3
<1>4. CASE fpos[r] # 0
  <2>1. seen[r] \in Seq(Int)
    BY <1>4, Lengths DEF Position
  <2>2. [i \in 1 .. 0 |-> fpos[r] + i - 1] = <<>>
    OBVIOUS
  <2>3. seen[r] \o <<>> = seen[r]
    BY <2>1, ConcatEmptySeq
  <2> QED BY <1>2, <1>4, <2>2, <2>3
<1> QED BY <1>2, <1>3, <1>4

(* The same helper with the probe's table: it returns "fibers" to a reader *)
(* that has not seen it, when there is room, and nothing else to anyone.   *)
LEMMA FibersEntry ==
  ASSUME NEW r \in Readers, Position(r), fpos[r] # 0, nents = Behind, room[r] \in Nat
  PROVE  LET more == fpos[r] = Behind /\ room[r] > 0 IN
         /\ Count(r, nents - 1, room[r]) = IF more THEN 1 ELSE 0
         /\ seen[r] \o [i \in 1 .. Count(r, nents - 1, room[r]) |-> Entry(fpos[r] + i - 1)]
              = IF more THEN BaseEntries \o <<FIBERS>> ELSE seen[r]
<1> DEFINE more == fpos[r] = Behind /\ room[r] > 0
<1>1. Behind \in Nat /\ Behind >= 2 /\ fpos[r] \in {Behind, Behind + 1}
  BY Lengths DEF Position
<1>2. Count(r, nents - 1, room[r]) = IF more THEN 1 ELSE 0
  BY <1>1 DEF Count, Lesser
<1>3. CASE more
  <2>1. seen[r] = BaseEntries
    BY <1>1, <1>3 DEF Position
  <2>2. [i \in 1 .. 1 |-> Entry(fpos[r] + i - 1)] = <<FIBERS>>
    BY <1>1, <1>3 DEF Entry
  <2> QED BY <1>2, <1>3, <2>1, <2>2
<1>4. CASE ~more
  <2>1. seen[r] \in Seq(Int)
    BY Lengths DEF Position
  <2>2. [i \in 1 .. 0 |-> Entry(fpos[r] + i - 1)] = <<>>
    OBVIOUS
  <2>3. seen[r] \o <<>> = seen[r]
    BY <2>1, ConcatEmptySeq
  <2> QED BY <1>2, <1>4, <2>2, <2>3
<1> QED BY <1>2, <1>3, <1>4

-----------------------------------------------------------------------------
(* The steps                                                               *)

(* Before anyone has read a directory nothing has been seen.               *)
LEMMA InitBase == Init => BaseInv /\ LookupInv
<1> SUFFICES ASSUME Init PROVE BaseInv /\ LookupInv
  OBVIOUS
<1>1. \A r \in Readers : ReaderInv(r)
  BY Lengths DEF Init, ReaderInv, Position
<1>2. BaseInv
  BY <1>1 DEF Init, BaseInv
<1>3. LookupInv
  BY DEF Init, LookupInv
<1> QED BY <1>2, <1>3

(* A reader keeps its part of the invariant while others go on: a process  *)
(* keeps its fibers, and nents, once set, its value.                       *)
LEMMA OthersKeep ==
  ASSUME BaseInv, NEW q \in Readers,
         UNCHANGED <<fpos[q], seen[q], at[q], room[q], begun[q], had[q]>>,
         group \subseteq group', nents' \in {nents, Behind}, nents = Behind => nents' = Behind
  PROVE  ReaderInv(q)'
<1>1. ReaderInv(q)
  BY DEF BaseInv
<1>2. Position(q)'
  BY <1>1 DEF ReaderInv, Position
<1> QED BY <1>1, <1>2 DEF ReaderInv, InCall

(* Every step keeps the invariant.                                         *)
LEMMA BaseStep ==
  ASSUME BaseInv, [Next]_vars
  PROVE  BaseInv'
<1>1. CASE UNCHANGED vars
  <2>1. \A q \in Readers : ReaderInv(q)'
    BY <1>1, OthersKeep DEF vars, reader_vars
  <2> QED BY <1>1, <2>1 DEF BaseInv, vars, reader_vars
<1>2. ASSUME NEW r \in Readers, UNCHANGED <<nents, reader_vars>>, group \subseteq group'
      PROVE  BaseInv'
  <2>1. \A q \in Readers : ReaderInv(q)'
    BY <1>2, OthersKeep DEF reader_vars
  <2> QED BY <1>2, <2>1 DEF BaseInv, reader_vars
<1>3. ASSUME NEW r \in Readers, NEW space \in Rooms, proc_tgid_base_readdir(r, space)
      PROVE  BaseInv'
  <2>0. ReaderInv(r) /\ fpos[r] \in Nat
    BY DEF BaseInv
  <2>1. /\ at[r] = "user" /\ at' = [at EXCEPT ![r] = "check"]
        /\ begun' = [begun EXCEPT ![r] = Len(seen[r])]
        /\ UNCHANGED <<nents, group, had>>
    BY <1>3 DEF proc_tgid_base_readdir
  <2>2. LET c == IF fpos[r] = 0 THEN Behind ELSE 0 IN
        /\ seen' = [seen EXCEPT ![r] = IF fpos[r] = 0 THEN BaseEntries ELSE @]
        /\ fpos' = [fpos EXCEPT ![r] = @ + c]
        /\ room' = [room EXCEPT ![r] = space - c]
    <3>1. /\ Count(r, NumBase, space) = IF fpos[r] = 0 THEN Behind ELSE 0
          /\ seen[r] \o [i \in 1 .. Count(r, NumBase, space) |-> fpos[r] + i - 1]
               = IF fpos[r] = 0 THEN BaseEntries ELSE seen[r]
      BY <2>0, KernelEntries DEF ReaderInv
    <3> QED BY <1>3, <3>1 DEF proc_tgid_base_readdir, proc_pident_readdir
  <2>3. space \in Nat /\ space >= Behind /\ Behind \in Nat /\ Behind >= 2
    BY Lengths, ProcBaseAssumption DEF Behind
  <2>4. \A q \in Readers : q # r => ReaderInv(q)'
    BY <2>1, <2>2, OthersKeep DEF BaseInv
  <2>5. Position(r)' /\ fpos'[r] # 0 /\ Len(seen'[r]) \in Nat /\ Len(seen[r]) \in Nat
    <3>1. CASE fpos[r] = 0
      <4>1. fpos'[r] = Behind /\ seen'[r] = BaseEntries /\ seen[r] = <<>>
        BY <2>0, <2>2, <2>3, <3>1 DEF BaseInv, ReaderInv, Position
      <4> QED BY <2>3, <4>1, Lengths DEF Position
    <3>2. CASE fpos[r] # 0
      <4>1. fpos'[r] = fpos[r] /\ seen'[r] = seen[r] /\ nents' = nents
        BY <2>0, <2>1, <2>2, <3>2 DEF BaseInv
      <4> QED BY <2>0, <3>2, <4>1, Lengths DEF ReaderInv, Position
    <3> QED BY <3>1, <3>2
  <2>6. InCall(r)'
    <3>1. CASE fpos[r] = 0
      <4>1. /\ seen'[r] = BaseEntries /\ seen[r] = <<>> /\ room'[r] = space - Behind
            /\ begun'[r] = 0
        BY <2>0, <2>1, <2>2, <2>3, <3>1 DEF BaseInv, ReaderInv, Position
      <4> QED BY <2>3, <2>5, <4>1, Lengths DEF InCall
    <3>2. CASE fpos[r] # 0
      <4>1. seen'[r] = seen[r] /\ room'[r] = space /\ begun'[r] = Len(seen[r])
        BY <2>1, <2>2, <2>3, <3>2 DEF BaseInv
      <4> QED BY <2>3, <2>5, <4>1 DEF InCall
    <3> QED BY <3>1, <3>2
  <2>7. ReaderInv(r)'
    BY <2>0, <2>1, <2>5, <2>6 DEF ReaderInv, BaseInv
  <2>8. fpos' \in [Readers -> Nat]
    BY <2>0, <2>2, <2>3 DEF BaseInv
  <2> QED BY <2>1, <2>2, <2>4, <2>7, <2>8 DEF BaseInv
<1>4. ASSUME NEW r \in Readers, CheckNents(r) PROVE BaseInv'
  <2>1. /\ at[r] = "check" /\ at' = [at EXCEPT ![r] = IF nents = 0 THEN "lock" ELSE "emit"]
        /\ UNCHANGED <<nents, group, fpos, room, begun, seen, had>>
    BY <1>4 DEF CheckNents
  <2>2. \A q \in Readers : q # r => ReaderInv(q)'
    BY <2>1, OthersKeep DEF BaseInv
  <2>3. ReaderInv(r)'
    <3>1. ReaderInv(r) /\ at'[r] = IF nents = 0 THEN "lock" ELSE "emit"
      BY <2>1 DEF BaseInv
    <3>2. InCall(r)' /\ Position(r)'
      BY <2>1, <3>1 DEF ReaderInv, InCall, Position
    <3> QED BY <2>1, <3>1, <3>2 DEF ReaderInv, BaseInv
  <2> QED BY <2>1, <2>2, <2>3 DEF BaseInv
<1>5. ASSUME NEW r \in Readers, SetNents(r) PROVE BaseInv'
  <2>1. /\ at[r] = "lock" /\ at' = [at EXCEPT ![r] = "emit"]
        /\ nents' = IF nents = 0 THEN fpos[r] ELSE nents
        /\ UNCHANGED <<group, fpos, room, begun, seen, had>>
    BY <1>5 DEF SetNents
  <2>2. nents' = Behind
    <3>1. fpos[r] # 0 /\ Position(r) /\ nents \in {0, Behind} /\ Behind # 0
      BY <2>1, Lengths DEF BaseInv, ReaderInv, InCall
    <3> QED BY <2>1, <3>1 DEF Position
  <2>3. \A q \in Readers : q # r => ReaderInv(q)'
    BY <2>1, <2>2, OthersKeep DEF BaseInv
  <2>4. ReaderInv(r)'
    <3>1. ReaderInv(r) /\ at'[r] = "emit"
      BY <2>1 DEF BaseInv
    <3>2. InCall(r)' /\ Position(r)'
      BY <2>1, <2>2, <3>1 DEF ReaderInv, InCall, Position
    <3> QED BY <2>1, <2>2, <3>1, <3>2 DEF ReaderInv
  <2> QED BY <2>1, <2>2, <2>3, <2>4 DEF BaseInv
<1>6. ASSUME NEW r \in Readers, handler_readdir(r) PROVE BaseInv'
  <2> DEFINE more == r \in group /\ fpos[r] = Behind /\ room[r] > 0
  <2>0. ReaderInv(r) /\ at[r] = "emit" /\ InCall(r) /\ nents = Behind /\ Position(r)
    BY <1>6 DEF BaseInv, ReaderInv, handler_readdir
  <2>1. /\ at' = [at EXCEPT ![r] = IF Len(seen'[r]) = begun[r] THEN "end" ELSE "user"]
        /\ UNCHANGED <<nents, group, begun, had>>
    BY <1>6 DEF handler_readdir
  <2>2. /\ seen'[r] = IF more THEN BaseEntries \o <<FIBERS>> ELSE seen[r]
        /\ fpos'[r] = IF more THEN fpos[r] + 1 ELSE fpos[r]
        /\ fpos' \in [Readers -> Nat] /\ DOMAIN seen' = Readers /\ DOMAIN room' = Readers
        /\ \A q \in Readers : q # r => UNCHANGED <<seen[q], fpos[q], room[q]>>
    <3>1. CASE r \in group
      <4>1. /\ Count(r, nents - 1, room[r]) = IF more THEN 1 ELSE 0
            /\ seen[r] \o [i \in 1 .. Count(r, nents - 1, room[r]) |-> Entry(fpos[r] + i - 1)]
                 = IF more THEN BaseEntries \o <<FIBERS>> ELSE seen[r]
        BY <2>0, <3>1, FibersEntry DEF InCall
      <4>2. /\ seen' = [seen EXCEPT ![r] = @ \o [i \in 1 .. Count(r, nents - 1, room[r])
                                                   |-> Entry(fpos[r] + i - 1)]]
            /\ fpos' = [fpos EXCEPT ![r] = @ + Count(r, nents - 1, room[r])]
            /\ room' = [room EXCEPT ![r] = room[r] - Count(r, nents - 1, room[r])]
        BY <1>6, <3>1 DEF handler_readdir, proc_pident_readdir
      <4>3. seen'[r] = IF more THEN BaseEntries \o <<FIBERS>> ELSE seen[r]
        BY <4>1, <4>2 DEF BaseInv
      <4>4. fpos'[r] = (IF more THEN fpos[r] + 1 ELSE fpos[r]) /\ fpos' \in [Readers -> Nat]
        <5>1. fpos[r] \in Nat /\ fpos \in [Readers -> Nat]
          BY DEF BaseInv
        <5>2. Count(r, nents - 1, room[r]) \in Nat
          BY <4>1
        <5>3. fpos'[r] = fpos[r] + Count(r, nents - 1, room[r]) /\ fpos' \in [Readers -> Nat]
          BY <4>2, <5>1, <5>2
        <5> QED BY <4>1, <5>1, <5>3
      <4> QED BY <4>2, <4>3, <4>4 DEF BaseInv
    <3>2. CASE r \notin group
      BY <1>6, <3>2 DEF handler_readdir, BaseInv
    <3> QED BY <3>1, <3>2
  <2>3. \A q \in Readers : q # r => ReaderInv(q)'
    BY <2>1, <2>2, OthersKeep DEF BaseInv
  <2>4. Behind \in Nat /\ Behind >= 2 /\ Len(BaseEntries) = Behind /\ fpos[r] \in Nat
    BY Lengths DEF BaseInv
  <2>5. CASE more
    <3>1. /\ seen'[r] = BaseEntries \o <<FIBERS>> /\ fpos'[r] = Behind + 1
          /\ seen[r] = BaseEntries /\ begun[r] <= Behind /\ begun[r] \in Nat
      BY <2>0, <2>2, <2>4, <2>5 DEF BaseInv, Position, InCall
    <3>2. at'[r] = "user"
      BY <2>1, <2>4, <3>1, Lengths DEF BaseInv
    <3>3. ReaderInv(r)'
      BY <2>0, <2>1, <3>1, <3>2 DEF ReaderInv, Position
    <3> QED BY <2>1, <2>2, <2>3, <3>3 DEF BaseInv
  <2>6. CASE ~more
    <3>1. seen'[r] = seen[r] /\ fpos'[r] = fpos[r] /\ fpos' \in [Readers -> Nat]
      BY <2>2, <2>6 DEF BaseInv
    <3>2. Position(r)'
      BY <2>0, <2>1, <3>1 DEF Position
    <3>3. at'[r] = "end" => (had[r] => fpos[r] = Behind + 1)
      <4> SUFFICES ASSUME at'[r] = "end", had[r] PROVE fpos[r] = Behind + 1
        OBVIOUS
      <4>1. Len(seen[r]) = begun[r]
        BY <2>1, <3>1 DEF BaseInv
      <4>2. room[r] > 0 /\ r \in group
        BY <2>0, <4>1 DEF InCall, ReaderInv
      <4> QED BY <2>0, <2>6, <4>2 DEF Position, InCall
    <3>4. at'[r] \in {"end", "user"} /\ fpos[r] # 0
      BY <2>0, <2>1 DEF BaseInv, InCall
    <3>5. ReaderInv(r)'
      BY <2>0, <2>1, <3>1, <3>2, <3>3, <3>4 DEF ReaderInv
    <3> QED BY <2>1, <2>2, <2>3, <3>1, <3>5 DEF BaseInv
  <2> QED BY <2>5, <2>6
<1>7. ASSUME NEW r \in Readers, Rewind(r) PROVE BaseInv'
  <2>1. /\ at' = [at EXCEPT ![r] = "user"] /\ fpos' = [fpos EXCEPT ![r] = 0]
        /\ seen' = [seen EXCEPT ![r] = <<>>] /\ had' = [had EXCEPT ![r] = r \in group]
        /\ UNCHANGED <<nents, group, room, begun>>
    BY <1>7 DEF Rewind
  <2>2. \A q \in Readers : q # r => ReaderInv(q)'
    BY <2>1, OthersKeep DEF BaseInv
  <2>3. ReaderInv(r)'
    BY <2>1 DEF ReaderInv, Position, BaseInv
  <2> QED BY <2>1, <2>2, <2>3 DEF BaseInv
<1>8. ASSUME NEW r \in Readers, Convert(r) PROVE BaseInv'
  BY <1>2, <1>8 DEF Convert
<1>9. ASSUME NEW r \in Readers, proc_tgid_base_lookup(r) PROVE BaseInv'
  BY <1>2, <1>9 DEF proc_tgid_base_lookup
<1>10. ASSUME NEW r \in Readers, LookupFaults(r) \/ Forget(r) PROVE BaseInv'
  BY <1>2, <1>10 DEF LookupFaults, Forget
<1> QED BY <1>1, <1>3, <1>4, <1>5, <1>6, <1>7, <1>8, <1>9, <1>10 DEF Next

(* A lookup that fails for the last time enters the dentry, at the place   *)
(* in the probe's table where "fibers" lies.                               *)
LEMMA LookupStep ==
  ASSUME BaseInv, LookupInv, [Next]_vars
  PROVE  LookupInv'
<1>1. CASE UNCHANGED <<dcache, fails>>
  BY <1>1 DEF LookupInv
<1>2. ASSUME NEW r \in Readers, handler_readdir(r) PROVE LookupInv'
  <2>1. dcache \subseteq dcache' /\ fails' = fails
    BY <1>2 DEF handler_readdir
  <2> QED BY <2>1 DEF LookupInv
<1>3. ASSUME NEW r \in Readers, proc_tgid_base_lookup(r) PROVE LookupInv'
  <2>1. CASE r \in dcache
    BY <1>3, <2>1 DEF proc_tgid_base_lookup, LookupInv
  <2>2. CASE r \notin dcache
    <3>1. /\ fails' = [fails EXCEPT ![r] = IF r \in group /\ nents # 0 THEN Lesser(@ + 1, 2) ELSE 0]
          /\ dcache' = IF handler_lookup(r) THEN dcache \cup {r} ELSE dcache
          /\ fails[r] = 0
      BY <1>3, <2>2 DEF proc_tgid_base_lookup, LookupInv
    <3>2. CASE r \in group /\ nents # 0
      <4>1. nents \in 2 .. nents /\ Entry(nents) = FIBERS
        BY <3>2, Lengths DEF BaseInv, Entry
      <4>2. r \in dcache' /\ dcache \subseteq dcache'
        BY <3>1, <3>2, <4>1 DEF handler_lookup
      <4>3. fails' = [fails EXCEPT ![r] = 1]
        BY <3>1, <3>2 DEF Lesser
      <4> QED BY <4>2, <4>3 DEF LookupInv
    <3>3. CASE ~(r \in group /\ nents # 0)
      <4>1. fails' = [fails EXCEPT ![r] = 0] /\ dcache \subseteq dcache'
        BY <3>1, <3>3
      <4> QED BY <4>1 DEF LookupInv
    <3> QED BY <3>2, <3>3
  <2> QED BY <2>1, <2>2
<1>4. ASSUME NEW r \in Readers, Forget(r) PROVE LookupInv'
  BY <1>4 DEF Forget, LookupInv
<1>5. CASE UNCHANGED vars
  BY <1>1, <1>5 DEF vars
<1> QED BY <1>1, <1>2, <1>3, <1>4, <1>5
        DEF Next, Convert, proc_tgid_base_readdir, CheckNents, SetNents, Rewind, LookupFaults

-----------------------------------------------------------------------------
(* The theorems                                                            *)

(* In every state the positions of the readers, what they have seen and    *)
(* what the module has learnt of the table's length agree.                 *)
THEOREM BaseInductive == Spec => [](BaseInv /\ LookupInv)
<1>1. BaseInv /\ LookupInv /\ [Next]_vars => (BaseInv /\ LookupInv)'
  BY BaseStep, LookupStep
<1> QED BY <1>1, InitBase, PTL DEF Spec

(* Every listing that handler_readdir completes holds each entry of the    *)
(* kernel once and in order and then "fibers", which only a process that   *)
(* had no fibers when the listing began may miss.                          *)
THEOREM ListingHolds == Spec => []ListingExact
<1>1. BaseInv => ListingExact
  <2> SUFFICES ASSUME BaseInv, NEW r \in Readers, at[r] = "end"
               PROVE  \/ seen[r] = BaseEntries \o <<FIBERS>>
                      \/ seen[r] = BaseEntries /\ ~had[r]
    BY DEF ListingExact, BaseEntries, Behind
  <2> QED BY Lengths DEF BaseInv, ReaderInv, Position
<1> QED BY <1>1, BaseInductive, PTL

(* No lookup of "fibers" that handler_lookup could have made succeed and   *)
(* that returns fails twice in a row.                                      *)
THEOREM SecondLookupHolds == Spec => []SecondLookup
<1>1. LookupInv => SecondLookup
  <2> SUFFICES ASSUME LookupInv, NEW r \in Readers PROVE fails[r] <= 1
    BY DEF SecondLookup
  <2>1. fails[r] \in 0 .. 1
    BY DEF LookupInv
  <2> QED BY <2>1
<1> QED BY <1>1, BaseInductive, PTL
=============================================================================
