-------------------------- MODULE ProcFibersProofs --------------------------
(***************************************************************************)
(* For any number of readers and creators, any hash function and any       *)
(* bounds, and though racing insertions lose fibers and creators die: what *)
(* a listing of /proc/<pid>/fibers contains, what it misses, and how many  *)
(* entries nothing was written to.                                         *)
(***************************************************************************)
EXTENDS ProcFibers, SequenceTheorems, FiniteSetTheorems, TLAPS

Buckets == 0 .. NumBuckets - 1

(* No element of the sequence s occurs twice.                              *)
Distinct(s) == \A i, j \in 1 .. Len(s) : s[i] = s[j] => i = j

-----------------------------------------------------------------------------
(* The invariant                                                           *)

(* A chain of bucket b: fibers of the bucket up to n, each once.           *)
Chain(s, b, n) ==
  /\ s \in Seq(Fids) /\ Distinct(s)
  /\ \A f \in RangeOf(s) : f <= n /\ FBucket[f] = b

Chains ==
  /\ fid_count \in -1 .. MaxFid
  /\ DOMAIN fibers = Buckets
  /\ \A b \in Buckets : Chain(fibers[b], b, fid_count)

(* A fiber that is still to be hashed has one creator and is in no chain,  *)
(* not in one that a creator has read either.                              *)
Makers ==
  /\ newf \in [Creators -> Fids \cup {NoFid, Gone}]
  /\ DOMAIN rest = Creators
  /\ \A c \in Creators : newf[c] \notin Fids => rest[c] = NotRead
  /\ \A c \in Creators : newf[c] \in Fids => newf[c] <= fid_count /\ newf[c] \notin Hashed
  /\ \A c, d \in Creators : newf[c] = newf[d] /\ newf[c] \in Fids => c = d
  /\ \A c \in Creators : rest[c] # NotRead => Chain(rest[c], FBucket[newf[c]], fid_count)
  /\ \A c, d \in Creators : rest[c] # NotRead => newf[d] \notin RangeOf(rest[c])

(* What a call knows while it walks: the fibers it began with and that are *)
(* there ever since are, from the buckets it has been through, among its   *)
(* entries.                                                                *)
Listing(r) ==
  /\ nents[r] \in 0 .. fid_count /\ bkt[r] \in 0 .. NumBuckets
  /\ at[r] = "walk" => bkt[r] < NumBuckets
  /\ at[r] = "call" => bkt[r] = NumBuckets
  /\ before[r] \subseteq Hashed /\ before[r] \subseteq 0 .. nents[r]
  /\ ents[r] \in Seq(Fids) /\ Distinct(ents[r])
  /\ \A f \in RangeOf(ents[r]) : f <= fid_count /\ FBucket[f] < bkt[r]
  /\ \A f \in before[r] : FBucket[f] < bkt[r] => f \in RangeOf(ents[r])

DirInv ==
  /\ Chains /\ Makers
  /\ DOMAIN at = Readers /\ DOMAIN nents = Readers /\ DOMAIN bkt = Readers
  /\ DOMAIN ents = Readers /\ DOMAIN before = Readers
  /\ \A r \in Readers : at[r] \in {"walk", "call"} => Listing(r)

-----------------------------------------------------------------------------
(* Sequences                                                               *)

(* The elements of a concatenation are those of its parts.                 *)
LEMMA RangeConcat ==
  ASSUME NEW S, NEW s \in Seq(S), NEW t \in Seq(S)
  PROVE  RangeOf(s \o t) = RangeOf(s) \cup RangeOf(t)
<1>1. /\ Len(s \o t) = Len(s) + Len(t) /\ Len(s) \in Nat /\ Len(t) \in Nat
      /\ \A i \in 1 .. Len(s) + Len(t) :
           (s \o t)[i] = IF i <= Len(s) THEN s[i] ELSE t[i - Len(s)]
  BY ConcatProperties
<1>2. ASSUME NEW i \in 1 .. Len(s \o t) PROVE (s \o t)[i] \in RangeOf(s) \cup RangeOf(t)
  <2>1. CASE i <= Len(s)
    BY <1>1, <2>1 DEF RangeOf
  <2>2. CASE i > Len(s)
    <3>1. i - Len(s) \in 1 .. Len(t) /\ (s \o t)[i] = t[i - Len(s)]
      BY <1>1, <2>2
    <3> QED BY <3>1 DEF RangeOf
  <2> QED BY <1>1, <2>1, <2>2
<1>3. ASSUME NEW i \in 1 .. Len(s) PROVE s[i] \in RangeOf(s \o t)
  <2>1. i \in 1 .. Len(s \o t) /\ (s \o t)[i] = s[i]
    BY <1>1
  <2> QED BY <2>1 DEF RangeOf
<1>4. ASSUME NEW i \in 1 .. Len(t) PROVE t[i] \in RangeOf(s \o t)
  <2>1. i + Len(s) \in 1 .. Len(s \o t) /\ (s \o t)[i + Len(s)] = t[i]
    BY <1>1
  <2> QED BY <2>1 DEF RangeOf
<1> QED BY <1>2, <1>3, <1>4 DEF RangeOf

(* Two sequences with nothing in common can be joined.                     *)
LEMMA DistinctConcat ==
  ASSUME NEW S, NEW s \in Seq(S), NEW t \in Seq(S), Distinct(s), Distinct(t),
         RangeOf(s) \cap RangeOf(t) = {}
  PROVE  Distinct(s \o t)
<1>1. /\ Len(s \o t) = Len(s) + Len(t) /\ Len(s) \in Nat /\ Len(t) \in Nat
      /\ \A i \in 1 .. Len(s) + Len(t) :
           (s \o t)[i] = IF i <= Len(s) THEN s[i] ELSE t[i - Len(s)]
  BY ConcatProperties
<1>2. \A i \in 1 .. Len(s), j \in 1 .. Len(t) : s[i] # t[j]
  BY DEF RangeOf
<1> SUFFICES ASSUME NEW i \in 1 .. Len(s \o t), NEW j \in 1 .. Len(s \o t),
                    (s \o t)[i] = (s \o t)[j]
             PROVE  i = j
  BY DEF Distinct
<1>3. CASE i <= Len(s) /\ j <= Len(s)
  <2>1. i \in 1 .. Len(s) /\ j \in 1 .. Len(s) /\ s[i] = s[j]
    BY <1>1, <1>3
  <2> QED BY <2>1 DEF Distinct
<1>4. CASE i > Len(s) /\ j > Len(s)
  <2>1. i - Len(s) \in 1 .. Len(t) /\ j - Len(s) \in 1 .. Len(t) /\ t[i - Len(s)] = t[j - Len(s)]
    BY <1>1, <1>4
  <2>2. i - Len(s) = j - Len(s)
    BY <2>1 DEF Distinct
  <2> QED BY <1>1, <2>2
<1>5. CASE i <= Len(s) /\ j > Len(s)
  <2>1. i \in 1 .. Len(s) /\ j - Len(s) \in 1 .. Len(t) /\ s[i] = t[j - Len(s)]
    BY <1>1, <1>5
  <2> QED BY <1>2, <2>1
<1>6. CASE i > Len(s) /\ j <= Len(s)
  <2>1. j \in 1 .. Len(s) /\ i - Len(s) \in 1 .. Len(t) /\ s[j] = t[i - Len(s)]
    BY <1>1, <1>6
  <2> QED BY <1>2, <2>1
<1> QED BY <1>1, <1>3, <1>4, <1>5, <1>6

(* A sequence without repetitions has as many elements as its length says. *)
LEMMA DistinctCount ==
  ASSUME NEW S, NEW s \in Seq(S), Distinct(s), NEW n \in 0 .. Len(s)
  PROVE  /\ IsFiniteSet({s[i] : i \in 1 .. n})
         /\ Cardinality({s[i] : i \in 1 .. n}) = n
<1> DEFINE f == [i \in 1 .. n |-> s[i]]
           T == {s[i] : i \in 1 .. n}
<1>1. 1 .. n \subseteq 1 .. Len(s) /\ n \in Nat
  OBVIOUS
<1>2. f \in Bijection(1 .. n, T)
  <2>1. f \in [1 .. n -> T] /\ \A x \in T : \E i \in 1 .. n : f[i] = x
    OBVIOUS
  <2>2. \A i, j \in 1 .. n : f[i] = f[j] => i = j
    BY <1>1 DEF Distinct
  <2> HIDE DEF f, T
  <2> QED BY <2>1, <2>2 DEF Bijection, Injection, Surjection, IsInjective
<1>3. IsFiniteSet(1 .. n) /\ Cardinality(1 .. n) = n
  BY <1>1, FS_Interval
<1>4. IsFiniteSet(T) /\ Cardinality(T) = Cardinality(1 .. n)
  BY <1>2, <1>3, FS_Bijection DEF ExistsBijection
<1> QED BY <1>3, <1>4

(* The entries handed to the kernel: as many as the table is long, if so   *)
(* many were made.                                                         *)
LEMMA HandedAre ==
  ASSUME NEW r \in Readers, ents[r] \in Seq(Fids), nents[r] \in Nat
  PROVE  Handed(r) = {ents[r][i] : i \in 1 .. (IF Len(ents[r]) < nents[r] THEN Len(ents[r]) ELSE nents[r])}
<1> DEFINE n == IF Len(ents[r]) < nents[r] THEN Len(ents[r]) ELSE nents[r]
           s == SubSeq(ents[r], 1, n)
<1>1. n \in 0 .. Len(ents[r])
  OBVIOUS
<1> HIDE DEF n
<1>2. Len(s) = n /\ \A i \in 1 .. n : s[i] = ents[r][i]
  <2>1. \A i \in 1 .. n : ents[r][i] \in Fids
    BY <1>1
  <2>2. Len(s) = (IF 1 <= n THEN n - 1 + 1 ELSE 0) /\ \A i \in 1 .. n - 1 + 1 : s[i] = ents[r][1 + i - 1]
    BY <1>1, <2>1, SubSeqProperties
  <2> QED BY <1>1, <2>2
<1>3. Handed(r) = {s[i] : i \in 1 .. Len(s)}
  BY DEF Handed, RangeOf, n
<1> QED BY <1>2, <1>3 DEF n

-----------------------------------------------------------------------------
(* What the invariant says of a listing                                    *)

(* The fibers in the table are numbered.                                   *)
LEMMA HashedAre ==
  ASSUME Chains
  PROVE  /\ Hashed \subseteq Fids /\ \A f \in Hashed : f <= fid_count
         /\ \A f : f \in Hashed <=> \E b \in Buckets : f \in RangeOf(fibers[b])
<1>1. \A f : f \in Hashed <=> \E b \in Buckets : f \in RangeOf(fibers[b])
  BY DEF Hashed, Chains
<1>2. \A b \in Buckets : RangeOf(fibers[b]) \subseteq Fids /\ \A f \in RangeOf(fibers[b]) : f <= fid_count
  BY DEF Chains, Chain, RangeOf
<1> QED BY <1>1, <1>2

(* The numbers up to n can be counted.                                     *)
LEMMA NumbersCount ==
  ASSUME NEW n \in Nat, NEW T \in SUBSET (0 .. n)
  PROVE  /\ IsFiniteSet(0 .. n) /\ Cardinality(0 .. n) = n + 1
         /\ IsFiniteSet(T) /\ Cardinality(T) \in Nat /\ Cardinality(T) <= n + 1
<1>1. 0 \in Int /\ n \in Int /\ ~(0 > n)
  OBVIOUS
<1>2. IsFiniteSet(0 .. n) /\ Cardinality(0 .. n) = n - 0 + 1
  BY <1>1, FS_Interval
<1>3. IsFiniteSet(T) /\ Cardinality(T) <= Cardinality(0 .. n)
  BY <1>2, FS_Subset
<1>4. Cardinality(T) \in Nat
  BY <1>3, FS_CardinalityType
<1> QED BY <1>2, <1>3, <1>4

(* A finished walk has an entry for each fiber that was there throughout,  *)
(* and as many entries as different fibers.                                *)
LEMMA AllEntered ==
  ASSUME Chains, NEW r \in Readers, Listing(r), at[r] = "call"
  PROVE  LET R == RangeOf(ents[r]) IN
         /\ nents[r] \in Nat /\ fid_count \in Nat /\ nents[r] <= fid_count
         /\ ents[r] \in Seq(Fids) /\ Len(ents[r]) \in Nat /\ Distinct(ents[r])
         /\ R \subseteq 0 .. fid_count /\ IsFiniteSet(R) /\ Cardinality(R) = Len(ents[r])
         /\ before[r] \subseteq R /\ before[r] \subseteq 0 .. nents[r]
<1> DEFINE R == RangeOf(ents[r])
<1>1. /\ nents[r] \in Nat /\ fid_count \in Nat /\ nents[r] <= fid_count
      /\ ents[r] \in Seq(Fids) /\ Len(ents[r]) \in Nat /\ Distinct(ents[r])
      /\ before[r] \subseteq 0 .. nents[r]
  BY DEF Listing, Chains
<1>2. R \subseteq 0 .. fid_count
  <2>1. \A f \in R : f \in Fids /\ f <= fid_count
    BY <1>1 DEF Listing, RangeOf
  <2> QED BY <1>1, <2>1 DEF Fids
<1>3. IsFiniteSet(R) /\ Cardinality(R) = Len(ents[r])
  <2>1. Len(ents[r]) \in 0 .. Len(ents[r])
    BY <1>1
  <2> QED BY <1>1, <2>1, DistinctCount DEF RangeOf
<1>4. before[r] \subseteq R
  <2>1. before[r] \subseteq Fids /\ bkt[r] = NumBuckets
    BY HashedAre DEF Listing
  <2>2. \A f \in before[r] : FBucket[f] < bkt[r]
    BY <2>1, ProcFibersAssumption
  <2> QED BY <2>2 DEF Listing
<1> QED BY <1>1, <1>2, <1>3, <1>4

(* A listing misses few of the fibers it began with.                       *)
LEMMA FewMissed ==
  ASSUME Chains, NEW r \in Readers, Listing(r), at[r] = "call"
  PROVE  /\ Len(ents[r]) <= fid_count + 1
         /\ Cardinality(before[r] \ Handed(r)) <= 1 + (fid_count - nents[r])
<1> DEFINE R == RangeOf(ents[r])
           H == Handed(r)
           B == before[r]
<1>1. /\ nents[r] \in Nat /\ fid_count \in Nat /\ nents[r] <= fid_count
      /\ ents[r] \in Seq(Fids) /\ Len(ents[r]) \in Nat /\ Distinct(ents[r])
      /\ R \subseteq 0 .. fid_count /\ IsFiniteSet(R) /\ Cardinality(R) = Len(ents[r])
      /\ B \subseteq R /\ B \subseteq 0 .. nents[r]
  BY AllEntered
<1>2. Len(ents[r]) <= fid_count + 1
  BY <1>1, NumbersCount
<1>3. CASE Len(ents[r]) < nents[r]
  <2>1. H = R
    BY <1>1, <1>3, HandedAre DEF RangeOf
  <2>2. B \ H = {}
    BY <1>1, <2>1
  <2>3. Cardinality(B \ H) = 0
    BY <2>2, FS_EmptySet
  <2> HIDE DEF B, H
  <2>4. Cardinality(B \ H) <= 1 + (fid_count - nents[r])
    BY <1>1, <2>3
  <2> QED BY <1>2, <2>4 DEF B, H
<1>4. CASE ~(Len(ents[r]) < nents[r])
  <2>1. H = {ents[r][i] : i \in 1 .. nents[r]}
    BY <1>1, <1>4, HandedAre
  <2>2. nents[r] \in 0 .. Len(ents[r])
    BY <1>1, <1>4
  <2>3. Cardinality(H) = nents[r] /\ IsFiniteSet(H)
    <3> DEFINE first == {ents[r][i] : i \in 1 .. nents[r]}
    <3>1. Cardinality(first) = nents[r] /\ IsFiniteSet(first)
      BY <1>1, <2>2, DistinctCount
    <3> QED BY <2>1, <3>1
  <2>4. H \subseteq R
    BY <1>1, <2>1, <2>2 DEF RangeOf
  <2> HIDE DEF R, H, B
  <2>5. /\ Cardinality(R \ H) = Cardinality(R) - Cardinality(R \cap H)
        /\ IsFiniteSet(R \ H) /\ R \cap H = H
    BY <1>1, <2>3, <2>4, FS_Difference
  <2>6. IsFiniteSet(B \ H) /\ Cardinality(B \ H) <= Cardinality(R \ H)
    <3>1. B \ H \subseteq R \ H
      BY <1>1
    <3> QED BY <2>5, <3>1, FS_Subset
  <2>7. Cardinality(B \ H) \in Nat
    BY <2>6, FS_CardinalityType
  <2>8. Cardinality(R \ H) = Len(ents[r]) - nents[r]
    BY <1>1, <2>3, <2>5
  <2>9. Cardinality(B \ H) <= 1 + (fid_count - nents[r])
    BY <1>1, <1>2, <2>6, <2>7, <2>8
  <2> QED BY <1>2, <2>9 DEF B, H
<1> QED BY <1>3, <1>4

(* As many entries are unwritten as numbers are absent, less one.          *)
LEMMA FewUnwritten ==
  ASSUME Chains, NEW r \in Readers, Listing(r), at[r] = "call"
  PROVE  nents[r] - Len(ents[r]) < Cardinality(Absent(r))
<1> DEFINE R == RangeOf(ents[r])
           B == before[r]
           N == 0 .. nents[r]
<1>1. /\ nents[r] \in Nat /\ Len(ents[r]) \in Nat /\ IsFiniteSet(R)
      /\ Cardinality(R) = Len(ents[r]) /\ B \subseteq R /\ B \subseteq N
  BY AllEntered
<1>2. /\ IsFiniteSet(N) /\ Cardinality(N) = nents[r] + 1
      /\ IsFiniteSet(B) /\ Cardinality(B) \in Nat
  BY <1>1, NumbersCount
<1> HIDE DEF R, B, N
<1>3. Cardinality(B) <= Len(ents[r])
  BY <1>1, FS_Subset
<1>4. Cardinality(N \ B) = Cardinality(N) - Cardinality(N \cap B) /\ N \cap B = B
  BY <1>1, <1>2, FS_Difference
<1>5. Absent(r) = N \ B
  BY DEF Absent, N, B
<1>6. Cardinality(Absent(r)) = Cardinality(N) - Cardinality(B)
  BY <1>4, <1>5
<1> QED BY <1>1, <1>2, <1>3, <1>6

-----------------------------------------------------------------------------
(* The steps                                                               *)

(* At first there is no fiber and no listing.                              *)
LEMMA InitDir == Init => DirInv
<1> SUFFICES ASSUME Init PROVE DirInv
  OBVIOUS
<1>1. /\ fid_count = -1 /\ DOMAIN fibers = Buckets /\ \A b \in Buckets : fibers[b] = <<>>
      /\ \A c \in Creators : newf[c] = NoFid
      /\ newf \in [Creators -> {NoFid}] /\ DOMAIN rest = Creators
  BY DEF Init, Buckets
<1>2. NoFid \notin Fids
  BY DEF Fids, NoFid
<1>3. Chains
  <2>1. <<>> \in Seq(Fids) /\ Distinct(<<>>) /\ RangeOf(<<>>) = {}
    BY DEF Distinct, RangeOf
  <2>2. \A b \in Buckets : Chain(<<>>, b, fid_count)
    BY <2>1 DEF Chain
  <2>3. fid_count \in -1 .. MaxFid
    BY <1>1, ProcFibersAssumption
  <2> QED BY <1>1, <2>2, <2>3 DEF Chains
<1>4. Makers
  <2>1. \A c \in Creators : rest[c] = NotRead
    BY DEF Init
  <2> QED BY <1>1, <1>2, <2>1 DEF Makers
<1>5. \A r \in Readers : at[r] = "user"
  BY DEF Init
<1> QED BY <1>3, <1>4, <1>5 DEF DirInv, Init

(* The fids in a chain stay what they are as numbers are drawn.            *)
LEMMA ChainKeeps ==
  ASSUME NEW s, NEW b, NEW n \in Int, NEW m \in Int, n <= m, Chain(s, b, n)
  PROVE  Chain(s, b, m)
<1>1. \A f \in RangeOf(s) : f \in Int
  BY ProcFibersAssumption DEF Chain, RangeOf, Fids
<1> QED BY <1>1 DEF Chain

(* What a step that leaves the table alone must not touch.                 *)
LEMMA TableKeeps ==
  ASSUME UNCHANGED fibers
  PROVE  Hashed' = Hashed
  BY DEF Hashed, RangeOf

(* A reader's listing stands while numbers are drawn, and while the table  *)
(* keeps the fibers it began with.                                         *)
LEMMA ListingKeeps ==
  ASSUME NEW r \in Readers, Listing(r), fid_count \in Int, fid_count' \in Int, fid_count <= fid_count',
         UNCHANGED <<at[r], nents[r], bkt[r], ents[r]>>,
         before'[r] \subseteq before[r], before'[r] \subseteq Hashed'
  PROVE  Listing(r)'
<1>1. nents[r] \in 0 .. fid_count'
  BY DEF Listing
<1>2. \A f \in RangeOf(ents[r]) : f \in Int
  BY ProcFibersAssumption DEF Listing, RangeOf, Fids
<1>3. \A f \in RangeOf(ents[r]) : f <= fid_count' /\ FBucket[f] < bkt[r]
  BY <1>2 DEF Listing
<1>4. \A f \in before'[r] : FBucket[f] < bkt[r] => f \in RangeOf(ents[r])
  BY DEF Listing
<1>5. Distinct(ents[r])' = Distinct(ents[r]) /\ RangeOf(ents[r])' = RangeOf(ents[r])
  BY DEF Distinct, RangeOf
<1> QED BY <1>1, <1>3, <1>4, <1>5 DEF Listing

(* PREPARE_GENERICS: the new number is nobody's.                              *)
LEMMA NewFidStep ==
  ASSUME DirInv, NEW c \in Creators, NewFid(c)
  PROVE  DirInv'
<1>1. PICK x \in {fid_count + 1, Gone} : newf' = [newf EXCEPT ![c] = x]
  BY DEF NewFid
<1>2. /\ newf[c] = NoFid /\ fid_count < MaxFid /\ fid_count' = fid_count + 1
      /\ UNCHANGED <<fibers, rest, at, nents, bkt, ents, before>>
  BY DEF NewFid, reader_vars
<1>3. Chains /\ Makers /\ Hashed' = Hashed /\ fid_count \in Int /\ fid_count + 1 \in Fids
  BY <1>2, TableKeeps, ProcFibersAssumption DEF DirInv, Chains, Fids
<1>4. Chains'
  <2>1. \A b \in Buckets : Chain(fibers[b], b, fid_count')
    BY <1>2, <1>3, ChainKeeps DEF Chains
  <2> QED BY <1>2, <1>3, <2>1, ProcFibersAssumption DEF Chains, Fids
<1>5. /\ fid_count + 1 \notin Hashed
      /\ \A d \in Creators : newf[d] # fid_count + 1
      /\ \A d \in Creators : rest[d] # NotRead => fid_count + 1 \notin RangeOf(rest[d])
  <2>1. ~(fid_count + 1 <= fid_count)
    BY <1>3
  <2> QED BY <1>3, <2>1, HashedAre DEF Makers, Chain
<1>6. Makers'
  <2>1. /\ newf \in [Creators -> Fids \cup {NoFid, Gone}] /\ DOMAIN rest = Creators
        /\ NoFid \notin Fids /\ Gone \notin Fids
    BY <1>3 DEF Makers, Fids, NoFid, Gone
  <2>2. newf' \in [Creators -> Fids \cup {NoFid, Gone}]
    BY <1>1, <1>3, <2>1
  <2>3. newf'[c] = x /\ rest[c] = NotRead /\ \A d \in Creators : d # c => newf'[d] = newf[d]
    BY <1>1, <1>2, <1>3, <2>1 DEF Makers
  <2>4. \A d \in Creators : newf'[d] \notin Fids => rest[d] = NotRead
    BY <1>3, <2>3 DEF Makers
  <2>5. \A d \in Creators : newf'[d] \in Fids => newf'[d] <= fid_count' /\ newf'[d] \notin Hashed
    <3> TAKE d \in Creators
    <3> HAVE newf'[d] \in Fids
    <3>1. CASE d = c
      BY <1>2, <1>3, <1>5, <2>1, <2>3, <3>1
    <3>2. CASE d # c
      <4>1. newf[d] <= fid_count /\ newf[d] \notin Hashed /\ newf'[d] = newf[d] /\ newf[d] \in Int
        BY <1>3, <2>3, <3>2 DEF Makers, Fids
      <4> QED BY <1>2, <1>3, <4>1
    <3> QED BY <3>1, <3>2
  <2>6. \A d, e \in Creators : newf'[d] = newf'[e] /\ newf'[d] \in Fids => d = e
    BY <1>3, <1>5, <2>1, <2>3 DEF Makers
  <2>7. \A d \in Creators : rest[d] # NotRead => Chain(rest[d], FBucket[newf'[d]], fid_count')
    <3> TAKE d \in Creators
    <3> HAVE rest[d] # NotRead
    <3>1. newf'[d] = newf[d] /\ Chain(rest[d], FBucket[newf[d]], fid_count)
      BY <1>3, <2>3 DEF Makers
    <3>2. Chain(rest[d], FBucket[newf[d]], fid_count')
      BY <1>2, <1>3, <3>1, ChainKeeps
    <3> QED BY <3>1, <3>2
  <2>8. \A d, e \in Creators : rest[d] # NotRead => newf'[e] \notin RangeOf(rest[d])
    <3> TAKE d, e \in Creators
    <3> HAVE rest[d] # NotRead
    <3>1. RangeOf(rest[d]) \subseteq Fids /\ newf[e] \notin RangeOf(rest[d])
      BY <1>3 DEF Makers, Chain, RangeOf
    <3> QED BY <1>3, <1>5, <2>1, <2>3, <3>1
  <2> QED BY <1>2, <1>3, <2>1, <2>2, <2>4, <2>5, <2>6, <2>7, <2>8 DEF Makers, RangeOf
<1>7. ASSUME NEW r \in Readers, (at[r] \in {"walk", "call"})' PROVE Listing(r)'
  <2>1. Listing(r) /\ before'[r] = before[r] /\ before[r] \subseteq Hashed'
    BY <1>2, <1>3, <1>7 DEF DirInv, Listing
  <2> QED BY <1>2, <1>3, <2>1, ListingKeeps
<1> QED BY <1>2, <1>4, <1>6, <1>7 DEF DirInv

(* hash_add_rcu reads a chain: what it read holds none of the fibers that  *)
(* are still to be hashed.                                                 *)
LEMMA HashReadStep ==
  ASSUME DirInv, NEW c \in Creators, HashRead(c)
  PROVE  DirInv'
<1> DEFINE b == FBucket[newf[c]]
<1>1. /\ newf[c] \in Fids /\ rest' = [rest EXCEPT ![c] = fibers[b]]
      /\ UNCHANGED <<fid_count, fibers, newf, at, nents, bkt, ents, before>>
  BY DEF HashRead, reader_vars
<1>2. Chains /\ Makers /\ Hashed' = Hashed /\ b \in Buckets
  BY <1>1, TableKeeps, ProcFibersAssumption DEF DirInv, Buckets
<1>3. Chain(fibers[b], b, fid_count) /\ RangeOf(fibers[b]) \subseteq Hashed
  BY <1>2, HashedAre DEF Chains
<1>4. \A d \in Creators : rest'[d] = IF d = c THEN fibers[b] ELSE rest[d]
  BY <1>1, <1>2 DEF Makers
<1>5. Makers'
  <2>1. \A d \in Creators : newf[d] \notin RangeOf(fibers[b])
    BY <1>2, <1>3, HashedAre DEF Makers
  <2>2. \A d, e \in Creators : rest'[d] # NotRead => newf[e] \notin RangeOf(rest'[d])
    BY <1>2, <1>4, <2>1 DEF Makers
  <2>3. \A d \in Creators : rest'[d] # NotRead => Chain(rest'[d], FBucket[newf[d]], fid_count)
    BY <1>2, <1>3, <1>4 DEF Makers
  <2>4. \A d \in Creators : newf[d] \notin Fids => rest'[d] = NotRead
    BY <1>1, <1>2, <1>4 DEF Makers
  <2>5. DOMAIN rest' = Creators
    BY <1>1, <1>2 DEF Makers
  <2>6. \A d \in Creators : newf[d] \in Fids => newf[d] <= fid_count' /\ newf[d] \notin Hashed'
    BY <1>1, <1>2 DEF Makers
  <2>7. \A d, e \in Creators : rest'[d] # NotRead => newf'[e] \notin RangeOf(rest[d])'
    BY <1>1, <2>2 DEF RangeOf
  <2> HIDE DEF b
  <2> QED BY <1>1, <1>2, <2>3, <2>4, <2>5, <2>6, <2>7 DEF Makers
<1>6. Chains'
  BY <1>1, <1>2 DEF Chains
<1>7. ASSUME NEW r \in Readers, (at[r] \in {"walk", "call"})' PROVE Listing(r)'
  <2>1. Listing(r) /\ before'[r] = before[r] /\ before[r] \subseteq Hashed' /\ fid_count \in Int
    BY <1>1, <1>2, <1>7, ProcFibersAssumption DEF DirInv, Listing, Chains
  <2> QED BY <1>1, <2>1, ListingKeeps
<1> QED BY <1>1, <1>5, <1>6, <1>7 DEF DirInv

(* hash_add_rcu stores a head: whatever was stored since it read is lost,  *)
(* but the new chain holds each fiber once.                                *)
LEMMA HashStoreStep ==
  ASSUME DirInv, NEW c \in Creators, HashStore(c)
  PROVE  DirInv'
<1> DEFINE f == newf[c]
           b == FBucket[f]
           s == <<f>> \o rest[c]
<1>1. /\ f \in Fids /\ rest[c] # NotRead
      /\ fibers' = [fibers EXCEPT ![b] = s]
      /\ newf' = [newf EXCEPT ![c] = NoFid]
      /\ rest' = [rest EXCEPT ![c] = NotRead]
      /\ before' = [r \in Readers |-> before[r] \cap Hashed']
      /\ UNCHANGED <<fid_count, at, nents, bkt, ents>>
  BY DEF HashStore, reader_vars
<1>2. /\ Chains /\ Makers /\ b \in Buckets /\ f <= fid_count /\ f \notin Hashed
      /\ Chain(rest[c], b, fid_count) /\ fid_count \in Int
  BY <1>1, ProcFibersAssumption DEF DirInv, Buckets, Makers, Chains
<1>3. /\ rest[c] \in Seq(Fids) /\ Distinct(rest[c]) /\ f \notin RangeOf(rest[c])
      /\ <<f>> \in Seq(Fids) /\ Distinct(<<f>>) /\ RangeOf(<<f>>) = {f}
  BY <1>1, <1>2 DEF Chain, Makers, Distinct, RangeOf
<1>4. s \in Seq(Fids) /\ Distinct(s) /\ RangeOf(s) = {f} \cup RangeOf(rest[c])
  <2> HIDE DEF f
  <2>1. s \in Seq(Fids)
    BY <1>3, ConcatProperties
  <2>2. RangeOf(s) = RangeOf(<<f>>) \cup RangeOf(rest[c])
    <3>1. <<f>> \in Seq(Fids) /\ rest[c] \in Seq(Fids)
      BY <1>3
    <3> QED BY <3>1, RangeConcat, Zenon
  <2>3. RangeOf(<<f>>) \cap RangeOf(rest[c]) = {}
    BY <1>3
  <2>4. Distinct(s)
    BY <1>3, <2>3, DistinctConcat
  <2> QED BY <1>3, <2>1, <2>2, <2>4
<1>5. Chain(s, b, fid_count)
  BY <1>2, <1>4 DEF Chain
<1> HIDE DEF s, b
<1>6. DOMAIN fibers' = Buckets /\ \A d \in Buckets : fibers'[d] = IF d = b THEN s ELSE fibers[d]
  BY <1>1, <1>2 DEF Chains
<1>7. \A d \in Buckets : Chain(fibers'[d], d, fid_count)
  BY <1>2, <1>5, <1>6 DEF Chains
<1>8. Chains'
  BY <1>1, <1>2, <1>6, <1>7 DEF Chains
<1>9. Hashed' \subseteq Hashed \cup {f} \cup RangeOf(rest[c])
  <2>1. \A x : x \in Hashed' <=> \E d \in Buckets : x \in RangeOf(fibers'[d])
    BY <1>6 DEF Hashed, RangeOf
  <2> QED BY <1>2, <1>4, <1>6, <2>1, HashedAre
<1>10. Makers'
  <2>1. /\ newf' \in [Creators -> Fids \cup {NoFid, Gone}] /\ DOMAIN rest' = Creators
        /\ NoFid \notin Fids
    BY <1>1, <1>2 DEF Makers, Fids, NoFid
  <2>2. \A d \in Creators : /\ newf'[d] = IF d = c THEN NoFid ELSE newf[d]
                            /\ rest'[d] = IF d = c THEN NotRead ELSE rest[d]
    BY <1>1, <1>2 DEF Makers
  <2>3. \A d \in Creators : d # c => newf[d] # f
    BY <1>1, <1>2 DEF Makers
  <2>4. \A d \in Creators : newf'[d] \in Fids => newf'[d] <= fid_count /\ newf'[d] \notin Hashed'
    BY <1>1, <1>2, <1>9, <2>1, <2>2, <2>3 DEF Makers
  <2>5. \A d, e \in Creators : newf'[d] = newf'[e] /\ newf'[d] \in Fids => d = e
    BY <1>2, <2>1, <2>2 DEF Makers
  <2>6. \A d \in Creators : rest'[d] # NotRead => Chain(rest'[d], FBucket[newf'[d]], fid_count)
    BY <1>2, <2>2 DEF Makers
  <2>7. \A d, e \in Creators : rest'[d] # NotRead => newf'[e] \notin RangeOf(rest'[d])
    <3> TAKE d, e \in Creators
    <3> HAVE rest'[d] # NotRead
    <3>1. rest'[d] = rest[d] /\ rest[d] # NotRead /\ newf[e] \notin RangeOf(rest[d])
      BY <1>2, <2>2 DEF Makers
    <3>2. RangeOf(rest[d]) \subseteq Fids
      BY <1>2, <3>1 DEF Makers, Chain, RangeOf
    <3> QED BY <2>1, <2>2, <3>1, <3>2
  <2>8. \A d \in Creators : newf'[d] \notin Fids => rest'[d] = NotRead
    BY <1>2, <2>2 DEF Makers
  <2>9. \A d \in Creators : RangeOf(rest[d])' = RangeOf(rest'[d])
    BY DEF RangeOf
  <2> QED BY <1>1, <2>1, <2>4, <2>5, <2>6, <2>7, <2>8, <2>9 DEF Makers
<1>11. ASSUME NEW r \in Readers, (at[r] \in {"walk", "call"})' PROVE Listing(r)'
  <2>1. Listing(r) /\ before'[r] = before[r] \cap Hashed'
    BY <1>1, <1>11 DEF DirInv
  <2> QED BY <1>1, <1>2, <2>1, ListingKeeps
<1> QED BY <1>1, <1>8, <1>10, <1>11 DEF DirInv

(* A step that leaves the table and the creators alone.                    *)
LEMMA ReaderStep ==
  ASSUME DirInv, UNCHANGED creator_vars,
         DOMAIN at' = Readers, DOMAIN nents' = Readers, DOMAIN bkt' = Readers,
         DOMAIN ents' = Readers, DOMAIN before' = Readers,
         NEW r \in Readers, at'[r] \in {"walk", "call"} => Listing(r)',
         \A q \in Readers : q # r =>
           UNCHANGED <<at[q], nents[q], bkt[q], ents[q], before[q]>>
  PROVE  DirInv'
<1>1. Hashed' = Hashed /\ UNCHANGED <<fid_count, fibers, newf, rest>> /\ fid_count \in Int
  BY TableKeeps, ProcFibersAssumption DEF creator_vars, DirInv, Chains
<1>2. Chains' /\ Makers'
  BY <1>1 DEF DirInv, Chains, Makers, RangeOf
<1>3. ASSUME NEW q \in Readers, q # r, (at[q] \in {"walk", "call"})' PROVE Listing(q)'
  <2>1. Listing(q) /\ before'[q] = before[q] /\ before[q] \subseteq Hashed'
    BY <1>1, <1>3 DEF DirInv, Listing
  <2> QED BY <1>1, <1>3, <2>1, ListingKeeps
<1> QED BY <1>2, <1>3 DEF DirInv

(* A listing begins with the fibers that are in the table.                 *)
LEMMA BeginStep ==
  ASSUME DirInv, NEW r \in Readers, NEW n, Begin(r, n)
  PROVE  DirInv'
<1>1. /\ at' = [at EXCEPT ![r] = IF fid_count < 0 THEN "oops" ELSE "walk"]
      /\ nents' = [nents EXCEPT ![r] = fid_count]
      /\ bkt' = [bkt EXCEPT ![r] = 0]
      /\ ents' = [ents EXCEPT ![r] = <<>>]
      /\ before' = [before EXCEPT ![r] = Hashed]
      /\ UNCHANGED creator_vars
  BY DEF Begin
<1>2. /\ Hashed' = Hashed /\ fid_count' = fid_count /\ Hashed \subseteq Fids
      /\ fid_count \in Int /\ \A f \in Hashed : f <= fid_count
  BY <1>1, TableKeeps, HashedAre, ProcFibersAssumption DEF DirInv, creator_vars, Chains
<1>3. /\ at'[r] = (IF fid_count < 0 THEN "oops" ELSE "walk")
      /\ nents'[r] = fid_count /\ bkt'[r] = 0 /\ ents'[r] = <<>> /\ before'[r] = Hashed
  BY <1>1 DEF DirInv
<1>4. ASSUME at'[r] \in {"walk", "call"} PROVE Listing(r)'
  <2>1. /\ at'[r] = "walk" /\ fid_count \in 0 .. fid_count
        /\ 0 \in 0 .. NumBuckets /\ 0 < NumBuckets
    BY <1>2, <1>3, <1>4, ProcFibersAssumption
  <2>2. Hashed \subseteq 0 .. fid_count
    BY <1>2 DEF Fids
  <2>3. Distinct(ents[r])' /\ RangeOf(ents[r])' = {} /\ <<>> \in Seq(Fids)
    BY <1>3 DEF Distinct, RangeOf
  <2>4. \A f \in Hashed : ~(FBucket[f] < 0)
    BY <1>2, ProcFibersAssumption
  <2> QED BY <1>2, <1>3, <2>1, <2>2, <2>3, <2>4 DEF Listing
<1>5. \A q \in Readers : q # r => UNCHANGED <<at[q], nents[q], bkt[q], ents[q], before[q]>>
  BY <1>1 DEF DirInv
<1>6. /\ DOMAIN at' = Readers /\ DOMAIN nents' = Readers /\ DOMAIN bkt' = Readers
      /\ DOMAIN ents' = Readers /\ DOMAIN before' = Readers
  BY <1>1 DEF DirInv
<1> QED BY <1>1, <1>4, <1>5, <1>6, ReaderStep

(* A bucket more: its chain has nothing in common with the entries made.   *)
LEMMA WalkStep ==
  ASSUME DirInv, NEW r \in Readers, Walk(r)
  PROVE  DirInv'
<1> DEFINE b == bkt[r]
<1>1. /\ at[r] = "walk"
      /\ ents' = [ents EXCEPT ![r] = @ \o fibers[b]]
      /\ bkt' = [bkt EXCEPT ![r] = @ + 1]
      /\ at' = [at EXCEPT ![r] = IF b + 1 = NumBuckets THEN "call" ELSE "walk"]
      /\ UNCHANGED creator_vars /\ UNCHANGED <<nents, before>>
  BY DEF Walk
<1>2. Hashed' = Hashed /\ Chains /\ Hashed \subseteq Fids /\ fid_count' = fid_count
  BY <1>1, TableKeeps, HashedAre DEF DirInv, creator_vars
<1>3. /\ at'[r] = (IF b + 1 = NumBuckets THEN "call" ELSE "walk") /\ bkt'[r] = b + 1
      /\ ents'[r] = ents[r] \o fibers[b]
      /\ UNCHANGED <<nents[r], before[r]>>
  BY <1>1 DEF DirInv
<1>4. Listing(r) /\ b \in 0 .. NumBuckets /\ b < NumBuckets /\ b \in Buckets /\ NumBuckets \in Nat
  <2>1. Listing(r)
    BY <1>1 DEF DirInv
  <2>2. b \in 0 .. NumBuckets /\ b < NumBuckets
    BY <1>1, <2>1 DEF Listing
  <2> QED BY <2>1, <2>2, ProcFibersAssumption DEF Buckets
<1> HIDE DEF b
<1>5. /\ ents[r] \in Seq(Fids) /\ Distinct(ents[r])
      /\ \A f \in RangeOf(ents[r]) : f \in Fids /\ f <= fid_count /\ FBucket[f] < b
      /\ \A f \in before[r] : FBucket[f] < b => f \in RangeOf(ents[r])
      /\ before[r] \subseteq Hashed
  BY <1>4 DEF Listing, RangeOf, b
<1>6. /\ fibers[b] \in Seq(Fids) /\ Distinct(fibers[b])
      /\ \A f \in RangeOf(fibers[b]) : f \in Fids /\ FBucket[f] = b /\ f <= fid_count
      /\ \A f \in Hashed : FBucket[f] = b => f \in RangeOf(fibers[b])
  <2>1. Chain(fibers[b], b, fid_count) /\ \A d \in Buckets : Chain(fibers[d], d, fid_count)
    BY <1>2, <1>4 DEF Chains
  <2>2. \A f \in Hashed : \E d \in Buckets : f \in RangeOf(fibers[d])
    BY <1>2, HashedAre
  <2> QED BY <2>1, <2>2 DEF Chain, RangeOf
<1>7. RangeOf(ents[r]) \cap RangeOf(fibers[b]) = {}
  BY <1>4, <1>5, <1>6
<1>8. ents[r] \o fibers[b] \in Seq(Fids)
  BY <1>5, <1>6, ConcatProperties
<1>9. Distinct(ents[r] \o fibers[b])
  BY <1>5, <1>6, <1>7, DistinctConcat
<1>10. RangeOf(ents[r] \o fibers[b]) = RangeOf(ents[r]) \cup RangeOf(fibers[b])
  BY <1>5, <1>6, RangeConcat
<1>11. Listing(r)'
  <2>1. /\ (ents[r] \in Seq(Fids))' /\ Distinct(ents[r])'
        /\ RangeOf(ents[r])' = RangeOf(ents[r]) \cup RangeOf(fibers[b])
    <3>1. Distinct(ents[r])' = Distinct(ents'[r]) /\ RangeOf(ents[r])' = RangeOf(ents'[r])
      BY DEF Distinct, RangeOf
    <3> QED BY <1>3, <1>8, <1>9, <1>10, <3>1
  <2>2. \A f \in Fids : FBucket[f] \in Nat
    BY ProcFibersAssumption
  <2>3. \A f \in RangeOf(ents[r]) \cup RangeOf(fibers[b]) : f <= fid_count /\ FBucket[f] < b + 1
    BY <1>4, <1>5, <1>6, <2>2
  <2>4. \A f \in before[r] : FBucket[f] < b + 1 => f \in RangeOf(ents[r]) \cup RangeOf(fibers[b])
    BY <1>2, <1>4, <1>5, <1>6, <2>2
  <2>5. /\ b + 1 \in 0 .. NumBuckets
        /\ at'[r] = "walk" => b + 1 < NumBuckets
        /\ at'[r] = "call" => b + 1 = NumBuckets
    BY <1>3, <1>4
  <2> QED BY <1>2, <1>3, <1>4, <2>1, <2>3, <2>4, <2>5 DEF Listing
<1>12. \A q \in Readers : q # r => UNCHANGED <<at[q], nents[q], bkt[q], ents[q], before[q]>>
  BY <1>1 DEF DirInv
<1>13. /\ DOMAIN at' = Readers /\ DOMAIN nents' = Readers /\ DOMAIN bkt' = Readers
       /\ DOMAIN ents' = Readers /\ DOMAIN before' = Readers
  BY <1>1 DEF DirInv
<1> QED BY <1>1, <1>11, <1>12, <1>13, ReaderStep

(* Every other step of a reader ends a listing or belongs to none.         *)
LEMMA QuietStep ==
  ASSUME DirInv, UNCHANGED creator_vars, UNCHANGED <<nents, bkt, ents, before>>,
         NEW r \in Readers, NEW p, p \notin {"walk", "call"}, at' = [at EXCEPT ![r] = p]
  PROVE  DirInv'
<1>1. /\ DOMAIN at' = Readers /\ DOMAIN nents' = Readers /\ DOMAIN bkt' = Readers
      /\ DOMAIN ents' = Readers /\ DOMAIN before' = Readers
  BY DEF DirInv
<1>2. at'[r] \notin {"walk", "call"}
  BY DEF DirInv
<1>3. \A q \in Readers : q # r => UNCHANGED <<at[q], nents[q], bkt[q], ents[q], before[q]>>
  OBVIOUS
<1> QED BY <1>1, <1>2, <1>3, ReaderStep

(* No step of a creator or a reader breaks the invariant.                  *)
LEMMA DirStep == ASSUME DirInv, [Next]_vars PROVE DirInv'
<1>1. ASSUME NEW r \in Readers, Call(r) PROVE DirInv'
  <2>1. PICK p \in {"read", "user"} : at' = [at EXCEPT ![r] = p]
    BY <1>1 DEF Call
  <2> QED BY <1>1, <2>1, QuietStep DEF Call
<1>2. ASSUME NEW r \in Readers, NEW size, NEW length, NEW copied, fibers_read(r, size, length, copied)
      PROVE  DirInv'
  <2>1. PICK p \in {"read", "user"} : at' = [at EXCEPT ![r] = p]
    BY <1>2 DEF fibers_read
  <2> QED BY <1>2, <2>1, QuietStep DEF fibers_read
<1>3. ASSUME NEW r \in Readers, ReadFindsNone(r) PROVE DirInv'
  BY <1>3, QuietStep DEF ReadFindsNone
<1>4. ASSUME NEW r \in Readers, WalkFaults(r) PROVE DirInv'
  BY <1>4, QuietStep DEF WalkFaults
<1>5. CASE UNCHANGED vars
  <2>1. Hashed' = Hashed /\ UNCHANGED <<creator_vars, reader_vars, before>>
    BY <1>5, TableKeeps DEF vars, creator_vars
  <2>2. Chains' /\ Makers'
    BY <2>1 DEF DirInv, Chains, Makers, RangeOf, creator_vars
  <2>3. ASSUME NEW r \in Readers, (at[r] \in {"walk", "call"})' PROVE Listing(r)'
    <3>1. Listing(r) /\ before'[r] = before[r] /\ before[r] \subseteq Hashed' /\ fid_count \in Int
      BY <2>1, <2>3, ProcFibersAssumption DEF DirInv, Listing, reader_vars, Chains
    <3> QED BY <2>1, <3>1, ListingKeeps DEF creator_vars, reader_vars
  <2> QED BY <2>1, <2>2, <2>3 DEF DirInv, reader_vars
<1> QED BY <1>1, <1>2, <1>3, <1>4, <1>5, NewFidStep, HashReadStep, HashStoreStep, BeginStep, WalkStep
        DEF Next, Step, fibers_readdir, fibers_lookup

-----------------------------------------------------------------------------
(* The theorems                                                            *)

(* The chains, the fibers in the making and the listings in progress fit   *)
(* together in every state, however creations and walks interleave.        *)
THEOREM DirInductive == Spec => []DirInv
<1>1. DirInv /\ [Next]_vars => DirInv'
  BY DirStep
<1> QED BY <1>1, InitDir, PTL DEF Spec

(* fibers_readdir and fibers_lookup see no fiber twice, and of those that  *)
(* are there from start to end they miss at most one and one for each      *)
(* number drawn meanwhile, however many threads create fibers and though   *)
(* these may lose one another's fibers.                                    *)
THEOREM ListingBoundHolds == Spec => []ListingBound
<1>1. DirInv => ListingBound
  BY AllEntered, FewMissed DEF DirInv, ListingBound
<1> QED BY <1>1, DirInductive, PTL

(* fibers_readdir hands the kernel fewer unwritten entries than there are  *)
(* numbers that the table did not hold all the time, for any number of     *)
(* creating threads, some of which may die after drawing.                  *)
THEOREM EntriesFilledHolds == Spec => []EntriesFilled
<1>1. DirInv => EntriesFilled
  BY FewUnwritten DEF DirInv, EntriesFilled
<1> QED BY <1>1, DirInductive, PTL
=============================================================================
