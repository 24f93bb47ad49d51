----------------------------- MODULE ProcFibers -----------------------------
(***************************************************************************)
(* The directory /proc/<pid>/fibers (fibers/proc.c): fibers_readdir and    *)
(* fibers_lookup build a table of the process's fibers, size it with       *)
(* fid_count and walk the hash table while threads of the process create   *)
(* fibers; fibers_read formats the data of one fiber anew at every read.   *)
(*                                                                         *)
(* The table has one entry less than there are numbers.  A table of no     *)
(* entries is what kmalloc(0) returns, and the first write to it faults;   *)
(* to longer tables the code writes past the end, into memory that is      *)
(* taken not to matter here.  The group of the process exists.             *)
(***************************************************************************)
EXTENDS Integers, Sequences, FiniteSets

CONSTANTS
  Creators,   \* threads that create fibers
  Readers,    \* processes that look at the directory
  MaxFid,     \* bound: the last fid
  NumBuckets, \* buckets of tg->fibers
  FBucket,    \* fid -> bucket
  INFO_SIZE,  \* the text of a fiber is shorter than this
  MaxSize     \* bound: bytes a reader asks for

Fids == 0 .. MaxFid
NoFid == -1
Gone == -2

ASSUME ProcFibersAssumption ==
  /\ MaxFid \in Nat \ {0} /\ NumBuckets \in Nat \ {0}
  /\ FBucket \in [Fids -> 0 .. NumBuckets - 1]
  /\ INFO_SIZE \in Nat \ {0} /\ MaxSize \in Nat \ {0}

VARIABLES
  fid_count,  \* the last fid handed out
  fibers,     \* bucket -> the chain of fids, newest first
  newf,       \* creator -> the fiber it has numbered but not hashed
  rest,       \* creator -> the chain it read, to be put behind its fiber
  at,         \* reader -> "user", "walk", "call", "read" or "oops"
  name,       \* reader -> the name looked up, or NoFid for a listing
  nents,      \* reader -> length of its table
  bkt,        \* reader -> the bucket it walks next
  ents,       \* reader -> the fids entered, in order
  offset,     \* reader -> position in the open file
  before      \* history: the fibers hashed since the call began

creator_vars == <<fid_count, fibers, newf, rest>>
reader_vars == <<at, name, nents, bkt, ents, offset>>
vars == <<creator_vars, reader_vars, before>>

RangeOf(s) == {s[i] : i \in 1 .. Len(s)}
Hashed == UNION {RangeOf(fibers[b]) : b \in DOMAIN fibers}

NotRead == <<NoFid>>      \* no chain

Init ==
  /\ fid_count = -1
  /\ fibers = [b \in 0 .. NumBuckets - 1 |-> <<>>]
  /\ newf = [c \in Creators |-> NoFid]
  /\ rest = [c \in Creators |-> NotRead]
  /\ at = [r \in Readers |-> "user"]
  /\ name = [r \in Readers |-> NoFid]
  /\ nents = [r \in Readers |-> 0]
  /\ bkt = [r \in Readers |-> 0]
  /\ ents = [r \in Readers |-> <<>>]
  /\ offset = [r \in Readers |-> 0]
  /\ before = [r \in Readers |-> {}]

-----------------------------------------------------------------------------
(* PREPARE_GENERICS numbers the fiber.  A conversion that generate_thread  *)
(* had no memory for faults on its error code after that: the number is    *)
(* drawn and the thread is gone.                                           *)
NewFid(c) ==
  /\ newf[c] = NoFid /\ fid_count < MaxFid
  /\ fid_count' = fid_count + 1
  /\ \E f \in {fid_count', Gone} : newf' = [newf EXCEPT ![c] = f]
  /\ UNCHANGED <<fibers, rest, reader_vars, before>>

(* hash_add_rcu of generate_fiber, under no lock: the creator reads the    *)
(* chain ...                                                               *)
HashRead(c) ==
  /\ newf[c] \in Fids /\ rest[c] = NotRead
  /\ rest' = [rest EXCEPT ![c] = fibers[FBucket[newf[c]]]]
  /\ UNCHANGED <<fid_count, fibers, newf, reader_vars, before>>

(* ... and stores the new head; a fiber stored in between is lost.         *)
HashStore(c) ==
  /\ newf[c] \in Fids /\ rest[c] # NotRead
  /\ fibers' = [fibers EXCEPT ![FBucket[newf[c]]] = <<newf[c]>> \o rest[c]]
  /\ newf' = [newf EXCEPT ![c] = NoFid]
  /\ rest' = [rest EXCEPT ![c] = NotRead]
  /\ before' = [r \in Readers |-> before[r] \cap Hashed']
  /\ UNCHANGED <<fid_count, reader_vars>>

(* fibers_readdir and fibers_lookup up to the table's allocation.  Before  *)
(* the first number is drawn the length wraps, kmalloc returns NULL, and   *)
(* memset writes through it.                                               *)
Begin(r, n) ==
  /\ at[r] = "user" /\ at' = [at EXCEPT ![r] = IF fid_count < 0 THEN "oops" ELSE "walk"]
  /\ name' = [name EXCEPT ![r] = n]
  /\ nents' = [nents EXCEPT ![r] = fid_count]
  /\ bkt' = [bkt EXCEPT ![r] = 0]
  /\ ents' = [ents EXCEPT ![r] = <<>>]
  /\ before' = [before EXCEPT ![r] = Hashed]
  /\ UNCHANGED <<creator_vars, offset>>

fibers_readdir(r) == Begin(r, NoFid)
fibers_lookup(r) == \E n \in Fids : Begin(r, n)

(* Seeded fault: the walk ends before the last bucket.                     *)
FaultWalk(r) ==
  /\ at[r] = "walk"
  /\ ents' = [ents EXCEPT ![r] = @ \o fibers[bkt[r]]]
  /\ bkt' = [bkt EXCEPT ![r] = @ + 1]
  /\ at' = [at EXCEPT ![r] = IF bkt[r] + 2 >= NumBuckets THEN "call" ELSE "walk"]
  /\ UNCHANGED <<creator_vars, name, nents, offset, before>>

(* hash_for_each_rcu, one bucket at a time.                                *)
Walk(r) ==
  /\ at[r] = "walk"
  /\ nents[r] = 0 => fibers[bkt[r]] = <<>>
  /\ ents' = [ents EXCEPT ![r] = @ \o fibers[bkt[r]]]
  /\ bkt' = [bkt EXCEPT ![r] = @ + 1]
  /\ at' = [at EXCEPT ![r] = IF bkt[r] + 1 = NumBuckets THEN "call" ELSE "walk"]
  /\ UNCHANGED <<creator_vars, name, nents, offset, before>>

(* An entry is written to a table of none.                                 *)
WalkFaults(r) ==
  /\ at[r] = "walk" /\ nents[r] = 0 /\ fibers[bkt[r]] # <<>>
  /\ at' = [at EXCEPT ![r] = "oops"]
  /\ UNCHANGED <<creator_vars, name, nents, bkt, ents, offset, before>>

(* Seeded fault: the last entry is taken for a terminator.                 *)
FaultHanded(r) == RangeOf(SubSeq(ents[r], 1, nents[r] - 1))

(* The entries the kernel's helper gets to see.                            *)
Handed(r) == RangeOf(SubSeq(ents[r], 1, IF Len(ents[r]) < nents[r] THEN Len(ents[r]) ELSE nents[r]))

(* The kernel's helper: it lists the entries or finds the name among them, *)
(* and the file of that name is opened.                                    *)
Call(r) ==
  /\ at[r] = "call"
  /\ at' = [at EXCEPT ![r] = IF name[r] \in Handed(r) THEN "read" ELSE "user"]
  /\ offset' = [offset EXCEPT ![r] = 0]
  /\ UNCHANGED <<creator_vars, name, nents, bkt, ents, before>>

(* Seeded fault: *offset = read_bytes instead of +=.                       *)
FaultRead(r, size, length, copied) ==
  LET left == length - offset[r] - 1
      read_bytes == IF offset[r] >= length THEN 0 ELSE IF size < left THEN size ELSE left
  IN
  /\ at[r] = "read" /\ name[r] \in Hashed
  /\ offset' = [offset EXCEPT ![r] = IF copied THEN read_bytes ELSE @]
  /\ at' = [at EXCEPT ![r] = IF copied /\ read_bytes > 0 THEN "read" ELSE "user"]
  /\ UNCHANGED <<creator_vars, name, nents, bkt, ents, before>>

(* fibers_read: the text is made anew and may be longer or shorter than at *)
(* the last read.  A read that returns 0, or -1 because the buffer could   *)
(* not be written to, is the reader's last, and so is one that does not    *)
(* find the fiber.                                                         *)
fibers_read(r, size, length, copied) ==
  LET left == length - offset[r] - 1
      read_bytes == IF offset[r] >= length THEN 0 ELSE IF size < left THEN size ELSE left
  IN
  /\ at[r] = "read" /\ name[r] \in Hashed
  /\ offset' = [offset EXCEPT ![r] = IF copied THEN @ + read_bytes ELSE @]
  /\ at' = [at EXCEPT ![r] = IF copied /\ read_bytes > 0 THEN "read" ELSE "user"]
  /\ UNCHANGED <<creator_vars, name, nents, bkt, ents, before>>

ReadFindsNone(r) ==
  /\ at[r] = "read" /\ name[r] \notin Hashed
  /\ at' = [at EXCEPT ![r] = "user"]
  /\ UNCHANGED <<creator_vars, name, nents, bkt, ents, offset, before>>

Step(r) ==
  \/ Walk(r) \/ WalkFaults(r)
  \/ Call(r)
  \/ ReadFindsNone(r)
  \/ \E size \in 1 .. MaxSize, length \in 1 .. INFO_SIZE - 1, copied \in BOOLEAN :
       fibers_read(r, size, length, copied)

Next ==
  \/ \E c \in Creators : NewFid(c) \/ HashRead(c) \/ HashStore(c)
  \/ \E r \in Readers : fibers_readdir(r) \/ fibers_lookup(r) \/ Step(r)

Spec == Init /\ [][Next]_vars

(* A reader in the kernel goes on, and one that reads a file reads again   *)
(* until it gets nothing.                                                  *)
FairSpec == Spec /\ \A r \in Readers : WF_vars(Step(r))

-----------------------------------------------------------------------------
(* Properties                                                              *)

(* The numbers of the table's time that the table of the process did not   *)
(* hold throughout the call: of fibers that were not hashed yet, that a    *)
(* racing insertion lost, or whose creator died.                           *)
Absent(r) == (0 .. nents[r]) \ before[r]

(* The kernel's helper is handed an entry that nothing was written to only *)
(* where fid_count ran ahead of the hash table by two: the count that is   *)
(* one too small makes good for the first absent number.                   *)
EntriesFilled ==
  \A r \in Readers :
    at[r] = "call" /\ Len(ents[r]) < nents[r] =>
      nents[r] - Len(ents[r]) < Cardinality(Absent(r))

(* A call sees each fiber once, and of the fibers that were there from its *)
(* beginning to its end it misses one, the last in the hash table, and one *)
(* more for each number drawn since; nor does it write more entries than   *)
(* that past the end of its table.                                         *)
ListingBound ==
  \A r \in Readers :
    at[r] = "call" =>
      /\ Cardinality(RangeOf(ents[r])) = Len(ents[r])
      /\ Len(ents[r]) <= fid_count + 1
      /\ Cardinality(before[r] \ Handed(r)) <= 1 + (fid_count - nents[r])

(* Reading a fiber's file comes to an end, whatever the sizes of the reads *)
(* and though the text changes between them.                               *)
ReadEnds == \A r \in Readers : at[r] = "read" ~> at[r] = "user"
=============================================================================
