--------------------------- MODULE CalQueueProofs ---------------------------
(***************************************************************************)
(* Proofs about the calendar queue, for every number of cells and buckets, *)
(* every length of a tick and every sequence of puts and gets.             *)
(***************************************************************************)
EXTENDS CalQueue, FiniteSetTheorems, WellFoundedInduction, SequenceTheorems, FunctionTheorems, TLAPS
-----------------------------------------------------------------------------
(* Arithmetic: the virtual bucket of a timestamp and the bucket of its day *)

(* A nonempty set of numbers has a least one: the form of induction that   *)
(* the proofs below use, on a counterexample that could not be least.      *)
LEMMA LeastNat ==
  ASSUME NEW T, T \subseteq Nat, T # {}
  PROVE  \E x \in T : \A y \in T : x <= y
<1>1. PICK x \in T : \A y \in T : ~ (<<y, x>> \in OpToRel(<, Nat))
  BY WFMin, NatLessThanWellFounded, Zenon
<1>2. \A y \in T : ~(y < x)
  BY <1>1 DEF OpToRel
<1> QED BY <1>2

(* Quotient and remainder of C's integers where both operands are          *)
(* positive.                                                               *)
LEMMA Division ==
  ASSUME NEW a \in Nat, NEW b \in Nat \ {0}
  PROVE  /\ a \div b \in Nat /\ a % b \in 0 .. b - 1
         /\ a = b * (a \div b) + (a % b)
  OBVIOUS

(* Multiplication keeps order; the provers do not find it by themselves.   *)
LEMMA TimesMonotone ==
  ASSUME NEW b \in Nat, NEW x \in Int, NEW y \in Int, x <= y
  PROVE  b * x <= b * y
<1> DEFINE d == y - x
<1>1. d \in Nat /\ y = x + d
  OBVIOUS
<1> HIDE DEF d
<1>2. b * y = b * x + b * d /\ b * d >= 0
  BY <1>1
<1> QED BY <1>2

(* There is one way to write a number as a multiple plus a remainder.      *)
LEMMA DivisionUnique ==
  ASSUME NEW b \in Nat \ {0}, NEW n \in Nat, NEW r \in 0 .. b - 1, NEW a \in Nat, a = b * n + r
  PROVE  a % b = r /\ a \div b = n
<1> DEFINE m == a \div b
           s == a % b
<1>1. m \in Nat /\ s \in 0 .. b - 1 /\ a = b * m + s
  BY Division
<1> HIDE DEF m, s
<1>2. ~(m < n)
  <2> SUFFICES ASSUME m < n PROVE FALSE
    OBVIOUS
  <2>1. b * (m + 1) <= b * n
    BY <1>1, TimesMonotone
  <2> QED BY <1>1, <2>1
<1>3. ~(n < m)
  <2> SUFFICES ASSUME n < m PROVE FALSE
    OBVIOUS
  <2>1. b * (n + 1) <= b * m
    BY <1>1, TimesMonotone
  <2> QED BY <1>1, <2>1
<1> QED BY <1>1, <1>2, <1>3 DEF m, s

(* Where nothing is negative, C's truncating division is the usual one.    *)
LEMMA QuotNat ==
  ASSUME NEW a \in Nat, NEW b \in Nat \ {0}
  PROVE  Quot(a, b) = a \div b /\ Rem(a, b) = a % b
<1>1. Quot(a, b) = a \div b
  BY Division DEF Quot, Abs
<1>2. Rem(a, b) = a - b * (a \div b)
  BY <1>1 DEF Rem
<1> QED BY <1>1, <1>2, Division

(* Two virtual buckets less than a year apart, in one bucket, are the      *)
(* same.                                                                   *)
LEMMA ModUnique ==
  ASSUME NEW m \in Nat \ {0}, NEW x \in Nat, NEW y \in Nat, x % m = y % m, x <= y, y < x + m
  PROVE  x = y
<1> DEFINE a == x \div m
           b == y \div m
<1>1. a \in Nat /\ b \in Nat /\ x = m * a + (x % m) /\ y = m * b + (x % m) /\ x % m \in 0 .. m - 1
  BY Division
<1> HIDE DEF a, b
<1>2. ~(a < b)
  <2> SUFFICES ASSUME a < b PROVE FALSE
    OBVIOUS
  <2>1. m * (a + 1) <= m * b
    BY <1>1, TimesMonotone
  <2> QED BY <1>1, <2>1
<1>3. ~(b < a)
  <2> SUFFICES ASSUME b < a PROVE FALSE
    OBVIOUS
  <2>1. m * (b + 1) <= m * a
    BY <1>1, TimesMonotone
  <2> QED BY <1>1, <2>1
<1> QED BY <1>1, <1>2, <1>3

(* k buckets on from the bucket of x is the bucket of x + k, which is what *)
(* the increment of i and its wrap in calqueue_deq amount to.              *)
LEMMA ModShift ==
  ASSUME NEW m \in Nat \ {0}, NEW x \in Nat, NEW k \in Nat
  PROVE  ((x % m) + k) % m = (x + k) % m
<1> DEFINE r == x % m
           a == x \div m
           b == (r + k) \div m
           s == (r + k) % m
<1>1. a \in Nat /\ r \in 0 .. m - 1 /\ x = m * a + r
  BY Division
<1>2. b \in Nat /\ s \in 0 .. m - 1 /\ r + k = m * b + s
  <2>1. r + k \in Nat
    BY <1>1
  <2> HIDE DEF r
  <2> QED BY <2>1, Division
<1> HIDE DEF r, a, b, s
<1>3. x + k = m * (a + b) + s /\ x + k \in Nat /\ a + b \in Nat
  BY <1>1, <1>2
<1>4. (x + k) % m = s
  <2> DEFINE y == x + k
             n == a + b
  <2> HIDE DEF y, n
  <2>1. y \in Nat /\ n \in Nat /\ y = m * n + s
    BY <1>3 DEF y, n
  <2>2. y % m = s
    BY <1>2, <2>1, DivisionUnique
  <2> QED BY <2>2 DEF y
<1> QED BY <1>4 DEF r, s

(* The fractions new_width returns: a width that is not 0 has a sample     *)
(* behind it, and 0 / 0 is the NaN.                                        *)
Widths == {w \in [num : Int, den : Nat] : w.num # 0 => w.den # 0}

(* The virtual bucket of p is the one whose span p lies in.                *)
LEMMA VirtualNat ==
  ASSUME NEW w \in Widths, w.num > 0, NEW p \in Nat
  PROVE  LET v == VirtualBucket(w, p)
         IN  v \in Nat /\ w.num * v <= p * w.den /\ p * w.den < w.num * v + w.num
<1>1. p * w.den \in Nat /\ w.num \in Nat \ {0}
  BY DEF Widths
<1>2. VirtualBucket(w, p) = (p * w.den) \div w.num
  BY <1>1, QuotNat DEF VirtualBucket
<1> DEFINE a == p * w.den
           b == w.num
<1>3. a \in Nat /\ b \in Nat \ {0}
  BY <1>1
<1> HIDE DEF a, b
<1>4. a \div b \in Nat /\ b * (a \div b) <= a /\ a < b * (a \div b) + b
  <2> DEFINE m == a \div b
             s == a % b
  <2>1. m \in Nat /\ s \in 0 .. b - 1 /\ a = b * m + s
    BY <1>3, Division
  <2> HIDE DEF m, s
  <2>2. b * m \in Int
    BY <1>3, <2>1
  <2>3. m \in Nat /\ b * m <= a /\ a < b * m + b
    BY <1>3, <2>1, <2>2
  <2> QED BY <2>3 DEF m
<1> QED BY <1>2, <1>4 DEF a, b

(* Later events have later virtual buckets.                                *)
LEMMA VirtualMonotone ==
  ASSUME NEW w \in Widths, w.num > 0, NEW p \in Nat, NEW r \in Nat, p <= r
  PROVE  VirtualBucket(w, p) <= VirtualBucket(w, r)
<1> DEFINE u == VirtualBucket(w, p)
           v == VirtualBucket(w, r)
<1>1. u \in Nat /\ v \in Nat /\ w.num * u <= p * w.den /\ r * w.den < w.num * v + w.num
  BY VirtualNat
<1>2. p * w.den <= r * w.den
  BY DEF Widths
<1> HIDE DEF u, v
<1>3. ~(v < u)
  <2> SUFFICES ASSUME v < u PROVE FALSE
    OBVIOUS
  <2>1. w.num * (v + 1) <= w.num * u
    BY <1>1, TimesMonotone DEF Widths
  <2>2. w.num * (v + 1) = w.num * v + w.num /\ p * w.den \in Int /\ r * w.den \in Int
    BY <1>1 DEF Widths
  <2> QED BY <1>1, <1>2, <2>1, <2>2 DEF Widths
<1> QED BY <1>1, <1>3 DEF u, v

(* The bucket calqueue_put chooses for timestamp p.                        *)
Index(w, n, p) == Rem(VirtualBucket(w, p), n)

(* With a width that is not negative the bucket is one of the calendar.    *)
LEMMA IndexNat ==
  ASSUME NEW w \in Widths, w.num >= 0, NEW n \in Nat \ {0}, NEW p \in Nat
  PROVE  /\ VirtualBucket(w, p) \in Nat
         /\ Index(w, n, p) = VirtualBucket(w, p) % n
         /\ Index(w, n, p) \in 0 .. n - 1
<1>1. VirtualBucket(w, p) \in Nat
  <2>1. CASE w.num = 0
    BY <2>1 DEF VirtualBucket
  <2>2. CASE w.num > 0
    BY <2>2, VirtualNat
  <2> QED BY <2>1, <2>2 DEF Widths
<1> QED BY <1>1, QuotNat, Division DEF Index

(* With any width the bucket is not past the calendar, though it may be    *)
(* before it.                                                              *)
LEMMA IndexInt ==
  ASSUME NEW w \in Widths, NEW n \in Nat \ {0}, NEW p \in Nat
  PROVE  Index(w, n, p) \in Int /\ Index(w, n, p) < n /\ VirtualBucket(w, p) \in Int
<1>1. CASE w.num >= 0
  BY <1>1, IndexNat
<1>2. CASE w.num < 0
  <2> DEFINE a == p * w.den
             b == -w.num
             v == VirtualBucket(w, p)
  <2>1. a \in Nat /\ b \in Nat \ {0} /\ w.num \in Int
    BY <1>2 DEF Widths
  <2>2. v = IF a = 0 THEN a \div b ELSE -(a \div b)
    BY <1>2, <2>1 DEF VirtualBucket, Quot, Abs
  <2>3. a \div b \in Nat
    BY <2>1, Division
  <2>4. v \in Int /\ v <= 0
    <3>1. CASE a = 0
      <4>1. 0 \div b = 0
        BY <2>1, DivisionUnique
      <4> QED BY <2>2, <3>1, <4>1
    <3>2. CASE a # 0
      BY <2>2, <2>3, <3>2
    <3> QED BY <3>1, <3>2
  <2> HIDE DEF v
  <2>5. CASE v = 0
    <3>1. 0 \div n = 0
      BY DivisionUnique
    <3>2. Rem(v, n) = 0 - n * 0
      BY <2>5, <3>1 DEF Rem, Quot, Abs
    <3> QED BY <2>5, <3>2 DEF Index, v
  <2>6. CASE v # 0
    <3> DEFINE u == -v
               m == u \div n
               s == u % n
    <3>0. u \in Nat
      BY <2>4
    <3> HIDE DEF u
    <3>1. m \in Nat /\ s \in 0 .. n - 1 /\ u = n * m + s
      BY <3>0, Division
    <3>2. Quot(v, n) = -m
      BY <2>4, <2>6 DEF Quot, Abs, u
    <3> HIDE DEF m, s
    <3>3. Rem(v, n) = -s
      <4>1. n * (-m) = -(n * m) /\ n * m \in Int
        BY <3>1
      <4> QED BY <2>4, <3>1, <3>2, <4>1 DEF Rem, u
    <3> QED BY <2>4, <3>1, <3>3 DEF Index, v
  <2> QED BY <2>5, <2>6
<1> QED BY <1>1, <1>2 DEF Widths

-----------------------------------------------------------------------------
(* Where the events are, and what an insertion and a removal do to it      *)

(* InsertAt shifts what is behind the new element and keeps the rest.      *)
LEMMA InsertAtFacts ==
  ASSUME NEW S, NEW s \in Seq(S), NEW e \in S, NEW i \in 1 .. Len(s) + 1
  PROVE  LET t == InsertAt(s, i, e)
         IN  /\ t \in Seq(S) /\ Len(t) = Len(s) + 1 /\ t[i] = e
             /\ \A j \in 1 .. i - 1 : t[j] = s[j]
             /\ \A j \in i + 1 .. Len(s) + 1 : t[j] = s[j - 1]
<1> DEFINE u == SubSeq(s, 1, i - 1)
           v == SubSeq(s, i, Len(s))
<1>0. Len(s) \in Nat
  OBVIOUS
<1>1. u \in Seq(S) /\ Len(u) = i - 1 /\ \A j \in 1 .. i - 1 : u[j] = s[j]
  BY <1>0
<1>2. v \in Seq(S) /\ Len(v) = Len(s) - i + 1 /\ \A j \in 1 .. Len(s) - i + 1 : v[j] = s[i + j - 1]
  BY <1>0
<1> HIDE DEF u, v
<1> DEFINE w == u \o <<e>>
<1>3. w \in Seq(S) /\ Len(w) = i /\ w[i] = e /\ \A j \in 1 .. i - 1 : w[j] = s[j]
  BY <1>1
<1> HIDE DEF w
<1> DEFINE t == w \o v
<1>4. t \in Seq(S) /\ Len(t) = Len(s) + 1 /\ t[i] = e
  BY <1>0, <1>2, <1>3
<1>5. \A j \in 1 .. i - 1 : t[j] = s[j]
  BY <1>0, <1>2, <1>3
<1>6. ASSUME NEW j \in i + 1 .. Len(s) + 1 PROVE t[j] = s[j - 1]
  <2>1. t[j] = v[j - i]
    BY <1>0, <1>2, <1>3
  <2>2. j - i \in 1 .. Len(s) - i + 1 /\ i + (j - i) - 1 = j - 1
    BY <1>0
  <2> HIDE DEF t
  <2> QED BY <1>2, <2>1, <2>2
<1>7. InsertAt(s, i, e) = t
  BY DEF InsertAt, t, w, u, v
<1> HIDE DEF t
<1> QED BY <1>4, <1>5, <1>6, <1>7

(* The same for an insertion at the front.                                 *)
LEMMA InsertFront ==
  ASSUME NEW S, NEW r \in Seq(S), NEW h \in S
  PROVE  LET y == InsertAt(r, 1, h)
         IN  /\ y \in Seq(S) /\ Len(y) = Len(r) + 1 /\ y[1] = h
             /\ \A j \in 2 .. Len(r) + 1 : y[j] = r[j - 1]
<1>1. PICK i \in 1 .. Len(r) + 1 : i = 1
  OBVIOUS
<1>2. LET y == InsertAt(r, i, h)
      IN  /\ y \in Seq(S) /\ Len(y) = Len(r) + 1 /\ y[i] = h
          /\ \A j \in i + 1 .. Len(r) + 1 : y[j] = r[j - 1]
  BY InsertAtFacts
<1> QED BY <1>1, <1>2

(* Head and Tail undo an insertion at the front.                           *)
LEMMA HeadTail ==
  ASSUME NEW S, NEW s \in Seq(S), s # <<>>
  PROVE  /\ Head(s) \in S /\ Tail(s) \in Seq(S) /\ Len(Tail(s)) = Len(s) - 1
         /\ Head(s) = s[1] /\ \A j \in 1 .. Len(s) - 1 : Tail(s)[j] = s[j + 1]
         /\ InsertAt(Tail(s), 1, Head(s)) = s
<1>1. Len(s) \in Nat /\ Len(s) # 0
  OBVIOUS
<1>2. /\ Head(s) \in S /\ Tail(s) \in Seq(S) /\ Len(Tail(s)) = Len(s) - 1
      /\ Head(s) = s[1] /\ \A j \in 1 .. Len(s) - 1 : Tail(s)[j] = s[j + 1]
  BY <1>1
<1> DEFINE t == InsertAt(Tail(s), 1, Head(s))
<1>3. t \in Seq(S) /\ Len(t) = Len(s) /\ t[1] = s[1] /\ \A j \in 2 .. Len(s) : t[j] = Tail(s)[j - 1]
  <2>1. Tail(s) \in Seq(S) /\ Head(s) \in S
    BY <1>2
  <2>2. /\ t \in Seq(S) /\ Len(t) = Len(Tail(s)) + 1 /\ t[1] = Head(s)
        /\ \A j \in 2 .. Len(Tail(s)) + 1 : t[j] = Tail(s)[j - 1]
    BY <2>1, InsertFront, Zenon
  <2> HIDE DEF t
  <2> QED BY <1>1, <1>2, <2>2
<1> HIDE DEF t
<1>4. \A j \in 1 .. Len(s) : t[j] = s[j]
  BY <1>1, <1>2, <1>3
<1>5. t = s
  BY <1>3, <1>4
<1> QED BY <1>2, <1>5 DEF t

(* The indexes of the array the calendars live in.                         *)
Cells == 0 .. CALQSPACE - 1

(* The places in cells C of array a of the events with a timestamp in P.   *)
At(a, C, P) == {x \in UNION {{i} \X DOMAIN a[i] : i \in C} : a[x[1]][x[2]] \in P}

(* What is in At, place by place.                                          *)
LEMMA AtPairs ==
  ASSUME NEW a, NEW C, NEW P
  PROVE  /\ \A i, j : <<i, j>> \in At(a, C, P) <=> i \in C /\ j \in DOMAIN a[i] /\ a[i][j] \in P
         /\ \A x \in At(a, C, P) : x = <<x[1], x[2]>>
<1>1. ASSUME NEW i, NEW j
      PROVE  <<i, j>> \in At(a, C, P) <=> i \in C /\ j \in DOMAIN a[i] /\ a[i][j] \in P
  <2>1. ASSUME <<i, j>> \in At(a, C, P) PROVE i \in C /\ j \in DOMAIN a[i] /\ a[i][j] \in P
    BY <2>1 DEF At
  <2>2. ASSUME i \in C, j \in DOMAIN a[i], a[i][j] \in P PROVE <<i, j>> \in At(a, C, P)
    <3>1. <<i, j>> \in {i} \X DOMAIN a[i]
      BY <2>2
    <3>2. <<i, j>> \in UNION {{k} \X DOMAIN a[k] : k \in C}
      BY <2>2, <3>1
    <3> QED BY <2>2, <3>2 DEF At
  <2> QED BY <2>1, <2>2
<1>2. ASSUME NEW x \in At(a, C, P) PROVE x = <<x[1], x[2]>>
  BY DEF At
<1> QED BY <1>1, <1>2

(* The sets of places A and B differ by one event e in cell k at most.     *)
OneMore(A, B, k, D, e, P) ==
  /\ IsFiniteSet(A) <=> IsFiniteSet(B)
  /\ IsFiniteSet(A) => Cardinality(B) = Cardinality(A) + (IF k \in D /\ e \in P THEN 1 ELSE 0)

(* Array b is a with e inserted in cell k at i, and without the head of k. *)
Inserted(a, b, k, i, e) ==
  /\ b \in [Cells -> Seq(Prios)]
  /\ b[k] = InsertAt(a[k], i, e) /\ \A m \in Cells \ {k} : b[m] = a[m]
(* Array b is a without the head of cell k.                                *)
Removed(a, b, k) ==
  /\ a[k] # <<>> /\ b \in [Cells -> Seq(Prios)]
  /\ b[k] = Tail(a[k]) /\ \A m \in Cells \ {k} : b[m] = a[m]

(* An insertion adds one event to its cell and none to the others.         *)
LEMMA AtInsert ==
  ASSUME NEW a \in [Cells -> Seq(Prios)], NEW k \in Cells, NEW e \in Prios,
         NEW i \in 1 .. Len(a[k]) + 1, NEW b, Inserted(a, b, k, i, e),
         NEW D \in SUBSET Cells, NEW P
  PROVE  OneMore(At(a, D, P), At(b, D, P), k, D, e, P)
<1> DEFINE t == InsertAt(a[k], i, e)
           A == At(a, D, P)
           B == At(b, D, P)
<1>1. a[k] \in Seq(Prios) /\ Len(a[k]) \in Nat /\ DOMAIN a[k] = 1 .. Len(a[k])
  OBVIOUS
<1>2. /\ DOMAIN t = 1 .. Len(a[k]) + 1 /\ t[i] = e
      /\ \A j \in 1 .. i - 1 : t[j] = a[k][j]
      /\ \A j \in i + 1 .. Len(a[k]) + 1 : t[j] = a[k][j - 1]
  BY <1>1, InsertAtFacts
<1> HIDE DEF t
<1>3. b[k] = t /\ \A m \in Cells \ {k} : b[m] = a[m]
  BY DEF t, Inserted
<1>4. CASE k \notin D
  <2>1. \A m \in D : b[m] = a[m]
    BY <1>3, <1>4
  <2>2. \A x : x \in A <=> x \in B
    BY <2>1, AtPairs
  <2>3. A = B
    BY <2>2
  <2> HIDE DEF A, B
  <2>4. IsFiniteSet(A) => Cardinality(A) \in Nat
    BY FS_CardinalityType
  <2> QED BY <1>4, <2>3, <2>4 DEF A, B, OneMore
<1>5. CASE k \in D
  <2> DEFINE f == [x \in A |-> IF x[1] = k /\ x[2] >= i THEN <<k, x[2] + 1>> ELSE x]
             T == B \ {<<k, i>>}
  <2>0. /\ \A m, j : <<m, j>> \in A <=> m \in D /\ j \in DOMAIN a[m] /\ a[m][j] \in P
        /\ \A m, j : <<m, j>> \in B <=> m \in D /\ j \in DOMAIN b[m] /\ b[m][j] \in P
        /\ \A x \in A : x = <<x[1], x[2]>>
        /\ \A x \in B : x = <<x[1], x[2]>>
    BY AtPairs
  <2> HIDE DEF A, B
  <2>1. ASSUME NEW x \in A PROVE f[x] \in T
    <3> DEFINE m == x[1]
               j == x[2]
    <3>1. x = <<m, j>> /\ m \in D /\ j \in DOMAIN a[m] /\ a[m][j] \in P
      BY <2>0
    <3>2. CASE m # k
      <4>1. f[x] = x /\ b[m] = a[m] /\ x # <<k, i>>
        BY <1>3, <3>1, <3>2
      <4> QED BY <2>0, <3>1, <4>1
    <3>3. CASE m = k /\ j < i
      <4>1. f[x] = x /\ x # <<k, i>>
        BY <1>1, <3>1, <3>3
      <4>2. j \in DOMAIN t /\ t[j] = a[k][j]
        BY <1>1, <1>2, <3>1, <3>3
      <4> QED BY <1>3, <2>0, <3>1, <3>3, <4>1, <4>2
    <3>4. CASE m = k /\ ~(j < i)
      <4>1. f[x] = <<k, j + 1>> /\ j + 1 # i /\ j \in 1 .. Len(a[k])
        BY <1>1, <3>1, <3>4
      <4>2. j + 1 \in i + 1 .. Len(a[k]) + 1 /\ (j + 1) - 1 = j /\ j + 1 \in 1 .. Len(a[k]) + 1
        BY <1>1, <3>4, <4>1
      <4>3. j + 1 \in DOMAIN t /\ t[j + 1] = a[k][j]
        BY <1>2, <4>2
      <4> HIDE DEF f
      <4> QED BY <1>3, <1>5, <2>0, <3>1, <3>4, <4>1, <4>3
    <3> QED BY <3>2, <3>3, <3>4
  <2>2. ASSUME NEW x \in A, NEW y \in A, f[x] = f[y] PROVE x = y
    <3>1. /\ x = <<x[1], x[2]>> /\ y = <<y[1], y[2]>>
          /\ x[1] = k => x[2] \in Int
          /\ y[1] = k => y[2] \in Int
      BY <1>1, <2>0
    <3>2. CASE (x[1] = k /\ x[2] >= i) /\ (y[1] = k /\ y[2] >= i)
      <4>1. <<k, x[2] + 1>> = <<k, y[2] + 1>>
        BY <2>2, <3>2
      <4> QED BY <3>1, <3>2, <4>1
    <3>3. CASE ~(x[1] = k /\ x[2] >= i) /\ ~(y[1] = k /\ y[2] >= i)
      BY <2>2, <3>3
    <3>4. CASE (x[1] = k /\ x[2] >= i) /\ ~(y[1] = k /\ y[2] >= i)
      <4>1. <<k, x[2] + 1>> = y
        BY <2>2, <3>4
      <4> QED BY <3>1, <3>4, <4>1
    <3>5. CASE ~(x[1] = k /\ x[2] >= i) /\ (y[1] = k /\ y[2] >= i)
      <4>1. <<k, y[2] + 1>> = x
        BY <2>2, <3>5
      <4> QED BY <3>1, <3>5, <4>1
    <3> QED BY <3>2, <3>3, <3>4, <3>5
  <2>3. ASSUME NEW y \in T PROVE \E x \in A : f[x] = y
    <3> DEFINE m == y[1]
               j == y[2]
    <3>1. y = <<m, j>> /\ m \in D /\ j \in DOMAIN b[m] /\ b[m][j] \in P /\ ~(m = k /\ j = i)
      BY <2>0
    <3>2. CASE m # k
      <4>1. y \in A /\ f[y] = y
        BY <1>3, <2>0, <3>1, <3>2
      <4> QED BY <4>1
    <3>3. CASE m = k /\ j < i
      <4>1. j \in 1 .. i - 1 /\ a[k][j] \in P /\ j \in DOMAIN a[k]
        BY <1>1, <1>2, <1>3, <3>1, <3>3
      <4>2. y \in A
        BY <2>0, <3>1, <3>3, <4>1
      <4>3. f[y] = y
        BY <3>3, <4>1, <4>2
      <4> QED BY <4>2, <4>3
    <3>4. CASE m = k /\ ~(j < i)
      <4>1. j \in i + 1 .. Len(a[k]) + 1
        BY <1>1, <1>2, <1>3, <3>1, <3>4
      <4>2. a[k][j - 1] \in P /\ j - 1 \in DOMAIN a[k] /\ j - 1 >= i /\ (j - 1) + 1 = j
        BY <1>1, <1>2, <1>3, <3>1, <3>4, <4>1
      <4>3. <<k, j - 1>> \in A
        BY <1>5, <2>0, <4>2
      <4>4. f[<<k, j - 1>>] = <<k, j>>
        BY <4>2, <4>3
      <4> HIDE DEF f
      <4> QED BY <3>1, <3>4, <4>3, <4>4
    <3> QED BY <3>2, <3>3, <3>4
  <2>4. f \in Bijection(A, T)
    <3>1. f \in [A -> T]
      BY <2>1
    <3> HIDE DEF f, T
    <3> QED BY <2>2, <2>3, <3>1 DEF Bijection, Injection, Surjection, IsInjective
  <2>5. ExistsBijection(A, T) /\ ExistsBijection(T, A)
    BY <2>4, Fun_ExistsBijSymmetric DEF ExistsBijection
  <2>6. <<k, i>> \in B <=> e \in P
    BY <1>1, <1>2, <1>3, <1>5, <2>0
  <2>7. IsFiniteSet(A) <=> IsFiniteSet(B)
    <3>1. IsFiniteSet(A) => IsFiniteSet(T)
      BY <2>5, FS_Bijection
    <3>2. IsFiniteSet(T) => IsFiniteSet(A)
      BY <2>5, FS_Bijection
    <3>3. IsFiniteSet(B) => IsFiniteSet(T)
      BY FS_RemoveElement
    <3>4. IsFiniteSet(T) => IsFiniteSet(T \cup {<<k, i>>})
      BY FS_AddElement
    <3>5. IsFiniteSet(T \cup {<<k, i>>}) => IsFiniteSet(B)
      BY FS_Subset
    <3> QED BY <3>1, <3>2, <3>3, <3>4, <3>5
  <2>8. ASSUME IsFiniteSet(A)
        PROVE  Cardinality(B) = Cardinality(A) + (IF k \in D /\ e \in P THEN 1 ELSE 0)
    <3>1. IsFiniteSet(B) /\ IsFiniteSet(T) /\ Cardinality(T) = Cardinality(A)
      BY <2>5, <2>7, <2>8, FS_Bijection, FS_RemoveElement
    <3>2. Cardinality(T) = IF <<k, i>> \in B THEN Cardinality(B) - 1 ELSE Cardinality(B)
      BY <3>1, FS_RemoveElement
    <3>3. Cardinality(A) \in Nat /\ Cardinality(B) \in Nat
      BY <2>8, <3>1, FS_CardinalityType
    <3> QED BY <1>5, <2>6, <3>1, <3>2, <3>3
  <2> QED BY <2>7, <2>8 DEF A, B, OneMore
<1> QED BY <1>4, <1>5

(* Taking the head of a bucket.                                            *)
LEMMA AtTail ==
  ASSUME NEW a \in [Cells -> Seq(Prios)], NEW k \in Cells, NEW b, Removed(a, b, k),
         NEW D \in SUBSET Cells, NEW P
  PROVE  OneMore(At(b, D, P), At(a, D, P), k, D, Head(a[k]), P)
<1> DEFINE e == Head(a[k])
<1>1. a[k] \in Seq(Prios) /\ a[k] # <<>>
  BY DEF Removed
<1>2. e \in Prios /\ Tail(a[k]) \in Seq(Prios) /\ InsertAt(Tail(a[k]), 1, e) = a[k]
  BY <1>1, HeadTail
<1> HIDE DEF e
<1>3. b \in [Cells -> Seq(Prios)] /\ 1 \in 1 .. Len(b[k]) + 1
  BY <1>2 DEF Removed
<1>i. PICK i \in 1 .. Len(b[k]) + 1 : i = 1
  BY <1>3
<1>4. Inserted(b, a, k, i, e)
  BY <1>2, <1>i DEF Inserted, Removed
<1>5. OneMore(At(b, D, P), At(a, D, P), k, D, e, P)
  <2>1. e \in Prios /\ b \in [Cells -> Seq(Prios)] /\ i \in 1 .. Len(b[k]) + 1
    BY <1>2, <1>3, <1>i
  <2> QED BY <2>1, <1>4, AtInsert
<1> QED BY <1>5 DEF e

-----------------------------------------------------------------------------
(* The shape of the queue, and what calqueue_put does without its resize   *)

(* The type of struct calqueue.                                            *)
Calqs ==
  [firstsub : Nat, nbuckets : Sizes, cwidth : Widths, qsize : Nat, calq : [Cells -> Seq(Prios)],
   lastprio : Prios, lastbucket : Int, buckettop : Int, stray : Nat]

(* What every list of a bucket is: sorted by timestamp.                    *)
SortedSeq(s) == \A j, k \in DOMAIN s : j <= k => s[j] <= s[k]
(* The calendar lies in the array, every bucket is sorted and holds only   *)
(* timestamps of its own, and only a negative width leaves events outside. *)
Shape(c) ==
  /\ c \in Calqs
  /\ c.firstsub + c.nbuckets <= CALQSPACE
  /\ \A i \in Cells : SortedSeq(c.calq[i])
  /\ \A i \in 0 .. c.nbuckets - 1, j \in Nat :
       j \in DOMAIN c.calq[c.firstsub + i] =>
         Index(c.cwidth, c.nbuckets, c.calq[c.firstsub + i][j]) = i
  /\ c.cwidth.num >= 0 => c.stray = 0

(* Two states of the queue with the same layout and search position.       *)
SameFrame(c, d) ==
  /\ d.firstsub = c.firstsub /\ d.nbuckets = c.nbuckets /\ d.cwidth = c.cwidth
  /\ d.lastprio = c.lastprio /\ d.lastbucket = c.lastbucket /\ d.buckettop = c.buckettop

(* A calendar has two buckets or more.                                     *)
LEMMA SizesNat == \A n \in Sizes : n \in Nat /\ n >= 2
  BY DEF Sizes

(* Timestamps are natural numbers.                                         *)
LEMMA PriosNat == Prios \subseteq Nat /\ MaxPrio \in Nat /\ CALQSPACE \in Nat
  BY CalQueueAssumption DEF Prios

(* The types of the fields, and the cells of the calendar.                 *)
LEMMA ShapeTypes ==
  ASSUME NEW c, Shape(c)
  PROVE  /\ c.firstsub \in Nat /\ c.nbuckets \in Nat \ {0} /\ c.nbuckets >= 2 /\ c.cwidth \in Widths
         /\ c.qsize \in Nat /\ c.calq \in [Cells -> Seq(Prios)] /\ c.lastprio \in Nat
         /\ c.lastprio \in Prios /\ c.lastbucket \in Int /\ c.buckettop \in Int /\ c.stray \in Nat
         /\ c.cwidth.num \in Int /\ c.cwidth.den \in Nat /\ c.nbuckets \in Sizes
         /\ Calendar(c) \subseteq Cells
         /\ \A i \in 0 .. c.nbuckets - 1 : c.firstsub + i \in Calendar(c) /\ c.firstsub + i \in Cells
         /\ \A x \in Calendar(c) : x - c.firstsub \in 0 .. c.nbuckets - 1
<1>1. c \in Calqs /\ c.firstsub + c.nbuckets <= CALQSPACE
  BY DEF Shape
<1>2. /\ c.firstsub \in Nat /\ c.nbuckets \in Sizes /\ c.cwidth \in Widths /\ c.qsize \in Nat
      /\ c.calq \in [Cells -> Seq(Prios)] /\ c.lastprio \in Prios /\ c.lastbucket \in Int
      /\ c.buckettop \in Int /\ c.stray \in Nat
  BY <1>1 DEF Calqs
<1>3. c.cwidth.num \in Int /\ c.cwidth.den \in Nat
  BY <1>2 DEF Widths
<1>4. c.nbuckets \in Nat /\ c.nbuckets >= 2 /\ c.lastprio \in Nat
  BY <1>2, SizesNat, PriosNat
<1>5. /\ Calendar(c) \subseteq Cells
      /\ \A i \in 0 .. c.nbuckets - 1 : c.firstsub + i \in Calendar(c) /\ c.firstsub + i \in Cells
      /\ \A x \in Calendar(c) : x - c.firstsub \in 0 .. c.nbuckets - 1
  <2> DEFINE f == c.firstsub
             n == c.nbuckets
  <2>1. f \in Nat /\ n \in Nat /\ f + n <= CALQSPACE /\ CALQSPACE \in Nat
    BY <1>1, <1>2, <1>4, PriosNat
  <2> HIDE DEF f, n
  <2>2. /\ f .. f + n - 1 \subseteq 0 .. CALQSPACE - 1
        /\ \A i \in 0 .. n - 1 : f + i \in f .. f + n - 1 /\ f + i \in 0 .. CALQSPACE - 1
        /\ \A x \in f .. f + n - 1 : x - f \in 0 .. n - 1
    BY <2>1
  <2> QED BY <2>2 DEF f, n, Calendar, Cells
<1> QED BY <1>2, <1>3, <1>4, <1>5

(* An event is put behind those of its bucket that are not later.          *)
LEMMA InsertSorted ==
  ASSUME NEW s \in Seq(Prios), SortedSeq(s), NEW p \in Prios
  PROVE  LET later == SelectInSeq(s, LAMBDA x : x > p)
             at == IF later = 0 THEN Len(s) + 1 ELSE later
         IN  /\ at \in 1 .. Len(s) + 1
             /\ SortedSeq(InsertAt(s, at, p))
<1> DEFINE I == {i \in 1 .. Len(s) : s[i] > p}
           later == SelectInSeq(s, LAMBDA x : x > p)
           at == IF later = 0 THEN Len(s) + 1 ELSE later
<1>0. Len(s) \in Nat /\ p \in Nat /\ \A i \in 1 .. Len(s) : s[i] \in Nat
  <2>1. Len(s) \in Nat /\ \A i \in 1 .. Len(s) : s[i] \in Prios
    OBVIOUS
  <2>2. p \in Nat
    BY PriosNat
  <2>3. \A i \in 1 .. Len(s) : s[i] \in Nat
    BY <2>1, PriosNat
  <2> QED BY <2>1, <2>2, <2>3
<1>1. later = IF I # {} THEN Min(I) ELSE 0
  BY DEF SelectInSeq
<1>2. I # {} => Min(I) \in I /\ \A i \in I : Min(I) <= i
  <2> SUFFICES ASSUME I # {} PROVE Min(I) \in I /\ \A i \in I : Min(I) <= i
    OBVIOUS
  <2>0. I \subseteq Nat
    OBVIOUS
  <2>1. \E x \in I : \A y \in I : x <= y
    <3> HIDE DEF I
    <3> QED BY <2>0, LeastNat
  <2> HIDE DEF I
  <2> QED BY <2>1 DEF Min
<1> HIDE DEF later
<1>3. /\ at \in 1 .. Len(s) + 1
      /\ \A i \in 1 .. at - 1 : s[i] <= p
      /\ \A i \in at .. Len(s) : p <= s[i]
  <2>1. CASE I = {}
    <3>1. at = Len(s) + 1
      BY <1>1, <2>1
    <3>2. \A i \in 1 .. Len(s) : ~(s[i] > p)
      BY <2>1
    <3> QED BY <1>0, <3>1, <3>2
  <2>2. CASE I # {}
    <3>1. at = Min(I) /\ at \in I /\ \A i \in I : at <= i
      <4>1. later = Min(I) /\ Min(I) \in 1 .. Len(s)
        BY <1>1, <1>2, <2>2
      <4>2. at = Min(I)
        BY <1>0, <4>1
      <4> HIDE DEF at, I
      <4> QED BY <1>2, <2>2, <4>2
    <3> HIDE DEF at
    <3>2. at \in 1 .. Len(s) /\ s[at] > p
      BY <3>1
    <3>3. \A i \in 1 .. at - 1 : ~(s[i] > p)
      <4> SUFFICES ASSUME NEW i \in 1 .. at - 1, s[i] > p PROVE FALSE
        OBVIOUS
      <4>1. i \in I
        BY <1>0, <3>2
      <4> QED BY <3>1, <3>2, <4>1
    <3>4. \A i \in at .. Len(s) : s[at] <= s[i]
      BY <1>0, <3>2 DEF SortedSeq
    <3> QED BY <1>0, <3>2, <3>3, <3>4
  <2> QED BY <2>1, <2>2
<1> HIDE DEF at
<1> DEFINE t == InsertAt(s, at, p)
<1>4. /\ t \in Seq(Prios) /\ Len(t) = Len(s) + 1 /\ t[at] = p
      /\ \A j \in 1 .. at - 1 : t[j] = s[j]
      /\ \A j \in at + 1 .. Len(s) + 1 : t[j] = s[j - 1]
  BY <1>3, InsertAtFacts
<1> HIDE DEF t
<1>5. ASSUME NEW j \in DOMAIN t, NEW k \in DOMAIN t, j <= k PROVE t[j] <= t[k]
  <2>0. j \in 1 .. Len(s) + 1 /\ k \in 1 .. Len(s) + 1 /\ at \in Int
    BY <1>3, <1>4
  <2>1. CASE j < at /\ k < at
    <3>1. j \in 1 .. Len(s) /\ k \in 1 .. Len(s) /\ t[j] = s[j] /\ t[k] = s[k]
      BY <1>0, <1>3, <1>4, <2>0, <2>1
    <3> QED BY <1>0, <1>5, <3>1 DEF SortedSeq
  <2>2. CASE j < at /\ k = at
    <3>1. t[j] = s[j] /\ s[j] <= p /\ t[k] = p
      BY <1>3, <1>4, <2>0, <2>2
    <3> QED BY <3>1
  <2>3. CASE j < at /\ k > at
    <3>1. t[j] = s[j] /\ s[j] <= p /\ t[k] = s[k - 1] /\ p <= s[k - 1] /\ j \in 1 .. Len(s)
          /\ k - 1 \in 1 .. Len(s)
      BY <1>0, <1>3, <1>4, <2>0, <2>3
    <3> QED BY <1>0, <3>1
  <2>4. CASE j = at /\ k = at
    BY <1>0, <1>4, <2>4
  <2>5. CASE j = at /\ k > at
    <3>1. t[k] = s[k - 1] /\ p <= s[k - 1]
      BY <1>0, <1>3, <1>4, <2>0, <2>5
    <3> QED BY <1>4, <2>5, <3>1
  <2>6. CASE j > at /\ k > at
    <3>1. /\ t[j] = s[j - 1] /\ t[k] = s[k - 1] /\ j - 1 <= k - 1
          /\ j - 1 \in 1 .. Len(s) /\ k - 1 \in 1 .. Len(s)
      BY <1>0, <1>3, <1>4, <1>5, <2>0, <2>6
    <3> QED BY <1>0, <3>1 DEF SortedSeq
  <2> QED BY <1>5, <2>0, <2>1, <2>2, <2>3, <2>4, <2>5, <2>6
<1>6. SortedSeq(t)
  BY <1>5 DEF SortedSeq
<1> QED BY <1>3, <1>6 DEF t, at, later

(* insert keeps the shape and the search position, counts the event, and   *)
(* puts it in one cell, or nowhere when the width is negative.             *)
LEMMA InsertDone ==
  ASSUME NEW c, Shape(c), NEW p \in Prios
  PROVE  LET d == insert(c, p)
             i == Index(c.cwidth, c.nbuckets, p)
         IN  /\ Shape(d) /\ SameFrame(c, d) /\ d.qsize = c.qsize + 1
             /\ i < 0 => d.calq = c.calq /\ d.stray = c.stray + 1
             /\ i >= 0 => /\ i \in 0 .. c.nbuckets - 1
                          /\ d.stray = c.stray
                          /\ \E at \in 1 .. Len(c.calq[c.firstsub + i]) + 1 :
                               Inserted(c.calq, d.calq, c.firstsub + i, at, p)
<1> DEFINE i == Index(c.cwidth, c.nbuckets, p)
           cell == c.firstsub + i
           s == c.calq[cell]
           later == SelectInSeq(s, LAMBDA x : x > p)
           at == IF later = 0 THEN Len(s) + 1 ELSE later
           d == insert(c, p)
<1>0. c.cwidth \in Widths /\ c.nbuckets \in Nat \ {0} /\ p \in Nat /\ c \in Calqs
  BY ShapeTypes, PriosNat DEF Shape
<1>1. i \in Int /\ i < c.nbuckets /\ (c.cwidth.num >= 0 => i >= 0)
  <2>1. i \in Int /\ i < c.nbuckets
    BY <1>0, IndexInt
  <2>2. c.cwidth.num >= 0 => i \in 0 .. c.nbuckets - 1
    BY <1>0, IndexNat
  <2> QED BY <1>0, <2>1, <2>2
<1>2. CASE i < 0
  <2>1. d = [c EXCEPT !.qsize = c.qsize + 1, !.stray = c.stray + 1]
    BY <1>2, ShapeTypes DEF insert, Index, Shape, Calqs
  <2>2. /\ d \in Calqs /\ SameFrame(c, d) /\ d.qsize = c.qsize + 1 /\ d.calq = c.calq
        /\ d.stray = c.stray + 1
    <3>1. c.qsize + 1 \in Nat /\ c.stray + 1 \in Nat
      BY ShapeTypes
    <3>2. d \in Calqs
      BY <1>0, <2>1, <3>1 DEF Calqs
    <3>3. SameFrame(c, d)
      BY <1>0, <2>1 DEF Calqs, SameFrame
    <3>4. d.qsize = c.qsize + 1 /\ d.calq = c.calq /\ d.stray = c.stray + 1
      BY <1>0, <2>1 DEF Calqs
    <3> QED BY <3>2, <3>3, <3>4
  <2>3. ~(c.cwidth.num >= 0)
    BY <1>1, <1>2
  <2>4. Shape(d)
    <3> HIDE DEF d
    <3> QED BY <2>2, <2>3 DEF Shape, SameFrame
  <2> QED BY <1>1, <1>2, <2>2, <2>4
<1>3. CASE i >= 0
  <2>1. i \in 0 .. c.nbuckets - 1 /\ cell \in Cells /\ s \in Seq(Prios) /\ SortedSeq(s)
    BY <1>1, <1>3, ShapeTypes DEF Shape
  <2> DEFINE t == InsertAt(s, at, p)
             a == [c.calq EXCEPT ![cell] = t]
  <2>2. at \in 1 .. Len(s) + 1 /\ SortedSeq(t)
    BY <2>1, InsertSorted
  <2>3. d = [c EXCEPT !.qsize = c.qsize + 1, !.calq = a]
    <3>1. d = [[c EXCEPT !.qsize = c.qsize + 1] EXCEPT !.calq[cell] = InsertAt(s, at, p)]
      BY <1>0, <1>1, <1>3 DEF insert, Index, Calqs
    <3> HIDE DEF d, at, later, i
    <3> QED BY <1>0, <3>1 DEF Calqs
  <2> HIDE DEF at, later
  <2>4. /\ t \in Seq(Prios) /\ Len(t) = Len(s) + 1 /\ t[at] = p
        /\ \A j \in 1 .. at - 1 : t[j] = s[j]
        /\ \A j \in at + 1 .. Len(s) + 1 : t[j] = s[j - 1]
    <3>1. ASSUME NEW r \in Seq(Prios), NEW m \in 1 .. Len(r) + 1
          PROVE  LET u == InsertAt(r, m, p)
                 IN  /\ u \in Seq(Prios) /\ Len(u) = Len(r) + 1 /\ u[m] = p
                     /\ \A j \in 1 .. m - 1 : u[j] = r[j]
                     /\ \A j \in m + 1 .. Len(r) + 1 : u[j] = r[j - 1]
      BY InsertAtFacts
    <3> HIDE DEF s
    <3> QED BY <2>1, <2>2, <3>1
  <2> HIDE DEF t, s
  <2>5. a \in [Cells -> Seq(Prios)] /\ a[cell] = t /\ \A x \in Cells \ {cell} : a[x] = c.calq[x]
    BY <2>1, <2>4, ShapeTypes
  <2> HIDE DEF a
  <2>6. /\ d \in Calqs /\ SameFrame(c, d) /\ d.qsize = c.qsize + 1 /\ d.calq = a
        /\ d.stray = c.stray
    <3>1. c.qsize + 1 \in Nat
      BY ShapeTypes
    <3>2. d \in Calqs
      BY <1>0, <2>3, <2>5, <3>1 DEF Calqs
    <3>3. SameFrame(c, d)
      BY <1>0, <2>3 DEF Calqs, SameFrame
    <3>4. d.qsize = c.qsize + 1 /\ d.calq = a /\ d.stray = c.stray
      BY <1>0, <2>3 DEF Calqs
    <3> QED BY <3>2, <3>3, <3>4
  <2> HIDE DEF d
  <2>7. \A x \in Cells : SortedSeq(d.calq[x])
    BY <2>2, <2>5, <2>6 DEF Shape
  <2>8. ASSUME NEW k \in 0 .. c.nbuckets - 1, NEW j \in Nat, j \in DOMAIN a[c.firstsub + k]
        PROVE  Index(c.cwidth, c.nbuckets, a[c.firstsub + k][j]) = k
    <3>1. c.firstsub + k \in Cells
      BY ShapeTypes
    <3>2. CASE k # i
      <4>1. c.firstsub + k # cell
        BY <1>1, <3>2, ShapeTypes
      <4> QED BY <2>5, <2>8, <3>1, <4>1 DEF Shape
    <3>3. CASE k = i
      <4>1. j \in 1 .. Len(s) + 1 /\ a[c.firstsub + k] = t /\ Len(s) \in Nat
        BY <2>1, <2>4, <2>5, <2>8, <3>3
      <4>2. \A m \in 1 .. Len(s) : Index(c.cwidth, c.nbuckets, s[m]) = i
        BY <2>1, <4>1 DEF Shape, s
      <4>3. CASE j < at
        BY <2>2, <2>4, <3>3, <4>1, <4>2, <4>3
      <4>4. CASE j = at
        BY <2>4, <3>3, <4>1, <4>4
      <4>5. CASE j > at
        <5>1. t[j] = s[j - 1] /\ j - 1 \in 1 .. Len(s)
          BY <2>2, <2>4, <4>1, <4>5
        <5> QED BY <3>3, <4>1, <4>2, <5>1
      <4> QED BY <2>2, <4>1, <4>3, <4>4, <4>5
    <3> QED BY <3>2, <3>3
  <2>9. Shape(d)
    BY <2>6, <2>7, <2>8 DEF Shape, SameFrame
  <2>10. Inserted(c.calq, d.calq, cell, at, p)
    BY <2>5, <2>6 DEF Inserted, t, s
  <2> QED BY <1>3, <2>1, <2>2, <2>6, <2>9, <2>10 DEF s, d
<1> QED BY <1>1, <1>2, <1>3

-----------------------------------------------------------------------------
(* What calqueue_deq does without its resize                               *)

(* The least element of a set of numbers exists.                           *)
LEMMA MinIn ==
  ASSUME NEW T, T \subseteq Nat, T # {}
  PROVE  Min(T) \in T /\ \A y \in T : Min(T) <= y
  BY LeastNat DEF Min

(* So does the greatest element of a bounded one.                          *)
LEMMA MaxIn ==
  ASSUME NEW n \in Nat, NEW T, T \subseteq 0 .. n, T # {}
  PROVE  Max(T) \in T
<1> DEFINE U == {x \in Nat : n - x \in T}
<1>1. U # {}
  <2>1. PICK x \in T : TRUE
    OBVIOUS
  <2>2. n - x \in Nat /\ n - (n - x) = x
    BY <2>1
  <2> QED BY <2>1, <2>2
<1>2. U \subseteq Nat
  OBVIOUS
<1> HIDE DEF U
<1>3. PICK u \in U : \A y \in U : u <= y
  BY <1>1, <1>2, LeastNat
<1>4. ASSUME NEW y \in T PROVE n - u >= y
  <2>1. n - y \in Nat /\ n - (n - y) = y /\ y \in Nat
    OBVIOUS
  <2>2. n - y \in U
    BY <2>1 DEF U
  <2> QED BY <1>2, <1>3, <2>1, <2>2
<1>5. \E x \in T : \A y \in T : x >= y
  BY <1>3, <1>4 DEF U
<1> QED BY <1>5 DEF Max

(* A bucket that is not empty has an event, and it is the first of them.   *)
LEMMA FirstOf ==
  ASSUME NEW c, Shape(c), NEW i \in Nonempty(c)
  PROVE  /\ i \in 0 .. c.nbuckets - 1 /\ i \in Nat /\ c.firstsub + i \in Cells
         /\ c.calq[c.firstsub + i] \in Seq(Prios) /\ c.calq[c.firstsub + i] # <<>>
         /\ First(c, i) \in Prios /\ First(c, i) \in Nat /\ First(c, i) = c.calq[c.firstsub + i][1]
         /\ \A j \in DOMAIN c.calq[c.firstsub + i] : First(c, i) <= c.calq[c.firstsub + i][j]
         /\ Index(c.cwidth, c.nbuckets, First(c, i)) = i
<1> DEFINE s == c.calq[c.firstsub + i]
<1>1. i \in 0 .. c.nbuckets - 1 /\ s # <<>>
  BY DEF Nonempty
<1>2. i \in Nat /\ c.firstsub + i \in Cells /\ s \in Seq(Prios)
  BY <1>1, ShapeTypes
<1>3. SortedSeq(s) /\ \A j \in Nat : j \in DOMAIN s => Index(c.cwidth, c.nbuckets, s[j]) = i
  BY <1>1, <1>2 DEF Shape
<1>4. First(c, i) = Head(s)
  BY DEF First
<1> HIDE DEF s
<1>5. Head(s) = s[1] /\ Head(s) \in Prios /\ 1 \in DOMAIN s /\ Len(s) \in Nat
  BY <1>1, <1>2
<1>6. \A j \in DOMAIN s : s[1] <= s[j]
  BY <1>2, <1>3, <1>5 DEF SortedSeq
<1> QED BY <1>1, <1>2, <1>3, <1>4, <1>5, <1>6, PriosNat DEF s

(* The direct search finds a bucket with a least first event.              *)
LEMMA DirectSearch ==
  ASSUME NEW c, Shape(c), Nonempty(c) # {}
  PROVE  /\ direct_search(c) \in Nonempty(c)
         /\ \A i \in Nonempty(c) : First(c, direct_search(c)) <= First(c, i)
<1> DEFINE F == {First(c, i) : i \in Nonempty(c)}
           I == {i \in Nonempty(c) : First(c, i) = Min(F)}
<1>1. F \subseteq Nat /\ F # {}
  BY FirstOf
<1>2. Min(F) \in F /\ \A y \in F : Min(F) <= y
  <2> HIDE DEF F
  <2> QED BY <1>1, MinIn
<1>3. I \subseteq Nat /\ I # {}
  BY <1>2, FirstOf
<1>4. Min(I) \in I
  <2> HIDE DEF I
  <2> QED BY <1>3, MinIn
<1>5. direct_search(c) = Min(I)
  BY DEF direct_search
<1> QED BY <1>2, <1>4, <1>5

(* Where the search of calqueue_deq ends.                                  *)
Steps(c) == IF Due(c) = {} THEN c.nbuckets ELSE Min(Due(c))
Bucket(c) == IF Due(c) = {} THEN direct_search(c) ELSE Day(c, Min(Due(c)))

(* When an event is left, either search ends at a bucket with one.         *)
LEMMA Searched ==
  ASSUME NEW c, Shape(c), Nonempty(c) # {}
  PROVE  Bucket(c) \in Nonempty(c) /\ Steps(c) \in Nat
<1>1. CASE Due(c) = {}
  BY <1>1, DirectSearch, ShapeTypes DEF Bucket, Steps
<1>2. CASE Due(c) # {}
  <2>1. Due(c) \subseteq Nat
    BY ShapeTypes DEF Due
  <2>2. Min(Due(c)) \in Due(c)
    BY <1>2, <2>1, MinIn
  <2> QED BY <1>2, <2>1, <2>2 DEF Bucket, Steps, Due
<1> QED BY <1>1, <1>2

(* take removes the head of the bucket where the search ended, and keeps   *)
(* the shape; the search position moves there.                             *)
LEMMA TakeDone ==
  ASSUME NEW c, Shape(c), Nonempty(c) # {}, c.qsize > 0
  PROVE  LET i == Bucket(c)
             e == take(c).event
             d == take(c).queue
         IN  /\ e = First(c, i) /\ Shape(d)
             /\ d.firstsub = c.firstsub /\ d.nbuckets = c.nbuckets /\ d.cwidth = c.cwidth
             /\ d.qsize = c.qsize - 1 /\ d.stray = c.stray
             /\ Removed(c.calq, d.calq, c.firstsub + i)
             /\ d.lastprio = e /\ d.lastbucket = i
             /\ d.buckettop = c.buckettop + 2 * Steps(c) * c.cwidth.num
<1> DEFINE i == Bucket(c)
           e == take(c).event
           d == take(c).queue
           k == Steps(c)
           s == c.calq[c.firstsub + i]
           a == [c.calq EXCEPT ![c.firstsub + i] = Tail(s)]
           top == c.buckettop + 2 * k * c.cwidth.num
<1>1. i \in Nonempty(c) /\ k \in Nat
  BY Searched
<1> HIDE DEF i, k
<1>2. /\ i \in 0 .. c.nbuckets - 1 /\ c.firstsub + i \in Cells /\ s \in Seq(Prios) /\ s # <<>>
      /\ First(c, i) \in Prios
  BY <1>1, FirstOf
<1>3. c \in Calqs
  BY DEF Shape
<1>4. e = First(c, i) /\ d = [c EXCEPT !.lastbucket = i, !.lastprio = First(c, i), !.qsize = @ - 1,
                                !.buckettop = @ + 2 * k * c.cwidth.num,
                                !.calq[c.firstsub + i] = Tail(@)]
  BY DEF take, Bucket, Steps, i, k
<1>5. top \in Int
  BY <1>1, ShapeTypes
<1>6. d = [c EXCEPT !.lastbucket = i, !.lastprio = First(c, i), !.qsize = c.qsize - 1,
             !.buckettop = top, !.calq = a]
  BY <1>3, <1>4 DEF Calqs
<1> HIDE DEF top
<1>7. /\ a \in [Cells -> Seq(Prios)] /\ a[c.firstsub + i] = Tail(s)
      /\ \A x \in Cells \ {c.firstsub + i} : a[x] = c.calq[x]
  <2>1. Tail(s) \in Seq(Prios)
    BY <1>2
  <2> QED BY <1>2, <2>1, ShapeTypes
<1> HIDE DEF a, d, e
<1>8. d \in Calqs
  <2>1. c.qsize - 1 \in Nat /\ i \in Int
    BY <1>2, ShapeTypes
  <2> QED BY <1>2, <1>3, <1>5, <1>6, <1>7, <2>1 DEF Calqs
<1>9. /\ d.firstsub = c.firstsub /\ d.nbuckets = c.nbuckets /\ d.cwidth = c.cwidth
      /\ d.qsize = c.qsize - 1 /\ d.stray = c.stray
      /\ d.calq = a /\ d.lastprio = First(c, i) /\ d.lastbucket = i /\ d.buckettop = top
  BY <1>3, <1>6 DEF Calqs
<1>10. Len(s) \in Nat /\ DOMAIN Tail(s) = 1 .. Len(s) - 1
       /\ \A j \in 1 .. Len(s) - 1 : Tail(s)[j] = s[j + 1]
  BY <1>2, HeadTail
<1>11. SortedSeq(s) /\ \A j \in Nat : j \in DOMAIN s => Index(c.cwidth, c.nbuckets, s[j]) = i
  BY <1>2 DEF Shape
<1>s. DOMAIN s = 1 .. Len(s)
  BY <1>2
<1>12. SortedSeq(Tail(s))
  <2> SUFFICES ASSUME NEW x \in 1 .. Len(s) - 1, NEW y \in 1 .. Len(s) - 1, x <= y
               PROVE  Tail(s)[x] <= Tail(s)[y]
    BY <1>10 DEF SortedSeq
  <2> HIDE DEF s
  <2>1. x + 1 \in DOMAIN s /\ y + 1 \in DOMAIN s /\ x + 1 <= y + 1
    BY <1>10, <1>s
  <2> QED BY <1>10, <1>11, <2>1 DEF SortedSeq
<1>13. \A x \in Cells : SortedSeq(a[x])
  BY <1>7, <1>12 DEF Shape
<1>14. ASSUME NEW m \in 0 .. c.nbuckets - 1, NEW j \in Nat, j \in DOMAIN a[c.firstsub + m]
       PROVE  Index(c.cwidth, c.nbuckets, a[c.firstsub + m][j]) = m
  <2>1. c.firstsub + m \in Cells /\ c.firstsub \in Nat
    BY ShapeTypes
  <2>2. CASE m # i
    <3>1. c.firstsub + m # c.firstsub + i
      BY <1>2, <2>1, <2>2
    <3> QED BY <1>7, <1>14, <2>1, <3>1 DEF Shape
  <2>3. CASE m = i
    <3> HIDE DEF s
    <3>1. j \in 1 .. Len(s) - 1 /\ a[c.firstsub + m][j] = s[j + 1]
      BY <1>7, <1>10, <1>14, <2>3
    <3>2. j + 1 \in DOMAIN s /\ j + 1 \in Nat
      BY <1>10, <1>s, <3>1
    <3> QED BY <1>11, <2>3, <3>1, <3>2
  <2> QED BY <2>2, <2>3
<1>15. Shape(d)
  BY <1>8, <1>9, <1>13, <1>14 DEF Shape
<1>16. Removed(c.calq, d.calq, c.firstsub + i)
  BY <1>2, <1>7, <1>9 DEF Removed
<1> QED BY <1>4, <1>9, <1>15, <1>16 DEF d, e, i, k, top

-----------------------------------------------------------------------------
(* Counting the events                                                     *)

(* How many events with a timestamp in P the whole array holds.            *)
Kept(c, P) == Cardinality(At(c.calq, Cells, P))
(* There are finitely many events.                                         *)
Finite(c) == IsFiniteSet(At(c.calq, Cells, Prios))

(* How many events there are in some cells.                                *)
LEMMA AtFinite ==
  ASSUME NEW c, Finite(c), NEW D, D \subseteq Cells, NEW P, P \subseteq Prios
  PROVE  /\ IsFiniteSet(At(c.calq, D, P)) /\ Cardinality(At(c.calq, D, P)) \in Nat
         /\ At(c.calq, D, P) \subseteq At(c.calq, Cells, Prios)
<1>1. At(c.calq, D, P) \subseteq At(c.calq, Cells, Prios)
  <2> SUFFICES ASSUME NEW x \in At(c.calq, D, P) PROVE x \in At(c.calq, Cells, Prios)
    OBVIOUS
  <2>1. x = <<x[1], x[2]>>
    BY AtPairs
  <2>2. x[1] \in D /\ x[2] \in DOMAIN c.calq[x[1]] /\ c.calq[x[1]][x[2]] \in P
    BY <2>1, AtPairs
  <2>3. <<x[1], x[2]>> \in At(c.calq, Cells, Prios)
    BY <2>2, AtPairs
  <2> QED BY <2>1, <2>3
<1> QED BY <1>1, FS_Subset, FS_CardinalityType DEF Finite

(* The events in D and no other cells.                                     *)
LEMMA AtOnly ==
  ASSUME NEW a, NEW D, NEW E, D \subseteq E, \A x \in E \ D : a[x] = <<>>, NEW P
  PROVE  At(a, D, P) = At(a, E, P)
<1>1. \A x : x \in At(a, D, P) <=> x \in At(a, E, P)
  <2>1. ASSUME NEW x \in At(a, D, P) PROVE x \in At(a, E, P)
    <3>1. x = <<x[1], x[2]>> /\ x[1] \in D /\ x[2] \in DOMAIN a[x[1]] /\ a[x[1]][x[2]] \in P
      BY AtPairs
    <3>2. <<x[1], x[2]>> \in At(a, E, P)
      BY <3>1, AtPairs
    <3> QED BY <3>1, <3>2
  <2>2. ASSUME NEW x \in At(a, E, P) PROVE x \in At(a, D, P)
    <3>1. x = <<x[1], x[2]>> /\ x[1] \in E /\ x[2] \in DOMAIN a[x[1]] /\ a[x[1]][x[2]] \in P
      BY AtPairs
    <3>2. x[1] \in D
      <4> SUFFICES ASSUME x[1] \notin D PROVE FALSE
        OBVIOUS
      <4>1. a[x[1]] = <<>>
        BY <3>1
      <4>2. x[2] \in DOMAIN <<>>
        BY <3>1, <4>1
      <4> QED BY <4>2
    <3>3. <<x[1], x[2]>> \in At(a, D, P)
      BY <3>1, <3>2, AtPairs
    <3> QED BY <3>1, <3>3
  <2> QED BY <2>1, <2>2
<1> QED BY <1>1

(* Cells without events are empty.                                         *)
LEMMA AtNone ==
  ASSUME NEW c, c.calq \in [Cells -> Seq(Prios)], Finite(c), NEW D, D \subseteq Cells
  PROVE  Cardinality(At(c.calq, D, Prios)) = 0 <=> \A x \in D : c.calq[x] = <<>>
<1>1. IsFiniteSet(At(c.calq, D, Prios))
  BY AtFinite
<1>2. Cardinality(At(c.calq, D, Prios)) = 0 <=> At(c.calq, D, Prios) = {}
  BY <1>1, FS_EmptySet
<1>3. ASSUME At(c.calq, D, Prios) = {}, NEW x \in D, c.calq[x] # <<>> PROVE FALSE
  <2>1. c.calq[x] \in Seq(Prios)
    OBVIOUS
  <2>2. 1 \in DOMAIN c.calq[x] /\ c.calq[x][1] \in Prios
    BY <1>3, <2>1
  <2>3. <<x, 1>> \in At(c.calq, D, Prios)
    BY <2>2, AtPairs
  <2> QED BY <1>3, <2>3
<1>4. ASSUME \A x \in D : c.calq[x] = <<>>, NEW y \in At(c.calq, D, Prios) PROVE FALSE
  <2>1. y = <<y[1], y[2]>>
    BY AtPairs
  <2>2. y[1] \in D /\ y[2] \in DOMAIN c.calq[y[1]]
    BY <2>1, AtPairs
  <2>3. y[2] \in DOMAIN <<>>
    BY <1>4, <2>2
  <2> QED BY <2>3
<1> QED BY <1>2, <1>3, <1>4

(* No event is before p.                                                   *)
Earlier(p) == {r \in Prios : r < p}
(* Nothing is before p when no event is counted as earlier.                *)
LEMMA NoneEarlier ==
  ASSUME NEW c, c.calq \in [Cells -> Seq(Prios)], Finite(c), NEW p \in Prios
  PROVE  Kept(c, Earlier(p)) = 0 <=>
           \A i \in Cells : \A j \in DOMAIN c.calq[i] : p <= c.calq[i][j]
<1> DEFINE A == At(c.calq, Cells, Earlier(p))
<1>1. Earlier(p) \subseteq Prios
  BY DEF Earlier
<1>2. IsFiniteSet(A)
  BY <1>1, AtFinite
<1>3. Kept(c, Earlier(p)) = 0 <=> A = {}
  BY <1>2, FS_EmptySet DEF Kept
<1>4. ASSUME NEW i \in Cells, NEW j \in DOMAIN c.calq[i]
      PROVE  c.calq[i][j] \in Prios
  <2>1. c.calq[i] \in Seq(Prios)
    OBVIOUS
  <2> QED BY <2>1
<1>5. ASSUME A = {}, NEW i \in Cells, NEW j \in DOMAIN c.calq[i] PROVE p <= c.calq[i][j]
  <2>1. <<i, j>> \notin A
    BY <1>5
  <2>2. c.calq[i][j] \notin Earlier(p)
    BY <2>1, AtPairs
  <2> DEFINE e == c.calq[i][j]
  <2>3. e \in Prios /\ ~(e < p)
    BY <1>4, <2>2 DEF Earlier
  <2> HIDE DEF e
  <2>4. e \in Nat /\ p \in Nat
    BY <2>3, PriosNat
  <2>5. p <= e
    BY <2>3, <2>4
  <2> QED BY <2>5 DEF e
<1>6. ASSUME \A i \in Cells : \A j \in DOMAIN c.calq[i] : p <= c.calq[i][j], NEW x \in A PROVE FALSE
  <2>1. x = <<x[1], x[2]>>
    BY AtPairs
  <2>2. x[1] \in Cells /\ x[2] \in DOMAIN c.calq[x[1]] /\ c.calq[x[1]][x[2]] \in Earlier(p)
    BY <2>1, AtPairs
  <2> DEFINE e == c.calq[x[1]][x[2]]
  <2>3. p <= e /\ e < p /\ e \in Prios
    BY <1>6, <2>2 DEF Earlier
  <2> HIDE DEF e
  <2>4. e \in Nat /\ p \in Nat
    BY <2>3, PriosNat
  <2> QED BY <2>3, <2>4
<1> QED BY <1>3, <1>5, <1>6

(* What insert does to the numbers of events.                              *)
LEMMA InsertCounts ==
  ASSUME NEW c, Shape(c), Finite(c), NEW p \in Prios
  PROVE  LET d == insert(c, p)
             i == Index(c.cwidth, c.nbuckets, p)
         IN  /\ Finite(d)
             /\ \A D \in SUBSET Cells, P \in SUBSET Prios :
                  Cardinality(At(d.calq, D, P)) =
                    Cardinality(At(c.calq, D, P))
                      + (IF i >= 0 /\ c.firstsub + i \in D /\ p \in P THEN 1 ELSE 0)
<1> DEFINE d == insert(c, p)
           i == Index(c.cwidth, c.nbuckets, p)
<1>0. c.calq \in [Cells -> Seq(Prios)] /\ i \in Int
  <2>1. c.cwidth \in Widths /\ c.nbuckets \in Nat \ {0} /\ p \in Nat
    BY ShapeTypes, PriosNat
  <2> QED BY <2>1, ShapeTypes, IndexInt
<1>1. CASE i < 0
  <2>1. d.calq = c.calq
    BY <1>1, InsertDone
  <2> HIDE DEF d, i
  <2>2. ASSUME NEW D \in SUBSET Cells, NEW P \in SUBSET Prios
        PROVE  Cardinality(At(d.calq, D, P)) = Cardinality(At(c.calq, D, P)) + 0
    <3>1. Cardinality(At(c.calq, D, P)) \in Nat
      BY AtFinite
    <3> QED BY <2>1, <3>1
  <2>3. Finite(d)
    BY <2>1 DEF Finite
  <2>4. ~(i >= 0)
    BY <1>0, <1>1
  <2>5. \A D \in SUBSET Cells, P \in SUBSET Prios :
          Cardinality(At(d.calq, D, P)) =
            Cardinality(At(c.calq, D, P))
              + (IF i >= 0 /\ c.firstsub + i \in D /\ p \in P THEN 1 ELSE 0)
    BY <2>2, <2>4
  <2> QED BY <2>3, <2>5 DEF d, i
<1>2. CASE i >= 0
  <2>1. i \in 0 .. c.nbuckets - 1 /\ c.firstsub + i \in Cells
    BY <1>2, InsertDone, ShapeTypes
  <2>2. PICK at \in 1 .. Len(c.calq[c.firstsub + i]) + 1 :
          Inserted(c.calq, d.calq, c.firstsub + i, at, p)
    BY <1>2, InsertDone
  <2> HIDE DEF d, i
  <2>3. ASSUME NEW D \in SUBSET Cells, NEW P
        PROVE  /\ IsFiniteSet(At(c.calq, D, P)) <=> IsFiniteSet(At(d.calq, D, P))
               /\ IsFiniteSet(At(c.calq, D, P)) =>
                    Cardinality(At(d.calq, D, P)) =
                      Cardinality(At(c.calq, D, P)) + (IF c.firstsub + i \in D /\ p \in P THEN 1 ELSE 0)
    <3>1. OneMore(At(c.calq, D, P), At(d.calq, D, P), c.firstsub + i, D, p, P)
      BY <1>0, <2>1, <2>2, AtInsert
    <3> QED BY <3>1 DEF OneMore
  <2>4. Finite(d)
    BY <2>3 DEF Finite
  <2>5. ASSUME NEW D \in SUBSET Cells, NEW P \in SUBSET Prios
        PROVE  Cardinality(At(d.calq, D, P)) =
                 Cardinality(At(c.calq, D, P)) + (IF c.firstsub + i \in D /\ p \in P THEN 1 ELSE 0)
    <3>1. IsFiniteSet(At(c.calq, D, P))
      BY AtFinite
    <3> QED BY <2>3, <3>1
  <2>6. \A D \in SUBSET Cells, P \in SUBSET Prios :
          Cardinality(At(d.calq, D, P)) =
            Cardinality(At(c.calq, D, P))
              + (IF i >= 0 /\ c.firstsub + i \in D /\ p \in P THEN 1 ELSE 0)
    BY <1>2, <2>5
  <2> QED BY <2>4, <2>6 DEF d, i
<1>3. i < 0 \/ i >= 0
  <2> HIDE DEF i
  <2> QED BY <1>0
<1> QED BY <1>1, <1>2, <1>3, Zenon

(* All the events are in the calendar, and counted.                        *)
Sound(c) ==
  /\ Shape(c)
  /\ Finite(c)
  /\ \A x \in Cells \ Calendar(c) : c.calq[x] = <<>>
  /\ c.qsize = Kept(c, Prios) + c.stray

(* An insertion keeps the count true and adds the one event.               *)
LEMMA InsertSound ==
  ASSUME NEW c, Sound(c), NEW p \in Prios
  PROVE  /\ Sound(insert(c, p))
         /\ c.cwidth.num >= 0 =>
              \A P \in SUBSET Prios :
                Kept(insert(c, p), P) = Kept(c, P) + (IF p \in P THEN 1 ELSE 0)
<1> DEFINE d == insert(c, p)
           i == Index(c.cwidth, c.nbuckets, p)
<1>1. Shape(c) /\ Finite(c)
  BY DEF Sound
<1>2. /\ Shape(d) /\ SameFrame(c, d) /\ d.qsize = c.qsize + 1 /\ Finite(d)
      /\ i < 0 => d.calq = c.calq /\ d.stray = c.stray + 1
      /\ i >= 0 => i \in 0 .. c.nbuckets - 1 /\ d.stray = c.stray
  BY <1>1, InsertDone, InsertCounts
<1>3. \A D \in SUBSET Cells, P \in SUBSET Prios :
        Cardinality(At(d.calq, D, P)) =
          Cardinality(At(c.calq, D, P)) + (IF i >= 0 /\ c.firstsub + i \in D /\ p \in P THEN 1 ELSE 0)
  BY <1>1, InsertCounts
<1>4. i \in Int /\ (c.cwidth.num >= 0 => i >= 0) /\ (i >= 0 => c.firstsub + i \in Calendar(c))
      /\ Calendar(c) \subseteq Cells
  <2>1. c.cwidth \in Widths /\ c.nbuckets \in Nat \ {0} /\ p \in Nat
    BY <1>1, ShapeTypes, PriosNat
  <2>2. i \in Int /\ (c.cwidth.num >= 0 => i \in 0 .. c.nbuckets - 1)
    BY <2>1, IndexInt, IndexNat
  <2>3. i >= 0 => c.firstsub + i \in Calendar(c)
    BY <1>1, <1>2, ShapeTypes
  <2>4. Calendar(c) \subseteq Cells
    BY <1>1, ShapeTypes
  <2> HIDE DEF i
  <2> QED BY <2>1, <2>2, <2>3, <2>4
<1> HIDE DEF d, i
<1>5. Calendar(d) = Calendar(c)
  BY <1>2 DEF Calendar, SameFrame
<1>6. ASSUME NEW P \in SUBSET Prios
      PROVE  Kept(d, P) = Kept(c, P) + (IF i >= 0 /\ p \in P THEN 1 ELSE 0)
  <2>1. Kept(d, P) = Kept(c, P) + (IF i >= 0 /\ c.firstsub + i \in Cells /\ p \in P THEN 1 ELSE 0)
    BY <1>3 DEF Kept
  <2>2. i >= 0 => c.firstsub + i \in Cells
    BY <1>4
  <2> QED BY <2>1, <2>2
<1>7. d.qsize = Kept(d, Prios) + d.stray
  <2>1. Kept(d, Prios) = Kept(c, Prios) + (IF i >= 0 THEN 1 ELSE 0)
    BY <1>6
  <2>2. c.qsize = Kept(c, Prios) + c.stray /\ Kept(c, Prios) \in Nat /\ c.stray \in Nat
    BY <1>1, AtFinite, ShapeTypes DEF Sound, Kept
  <2> QED BY <1>2, <1>4, <2>1, <2>2
<1>8. \A x \in Cells \ Calendar(c) : d.calq[x] = <<>>
  <2> DEFINE D == Cells \ Calendar(c)
  <2>1. c.calq \in [Cells -> Seq(Prios)] /\ d.calq \in [Cells -> Seq(Prios)]
    BY <1>1, <1>2, ShapeTypes
  <2>2. Cardinality(At(c.calq, D, Prios)) = 0
    BY <1>1, <2>1, AtNone DEF Sound
  <2>3. ~(i >= 0 /\ c.firstsub + i \in D)
    BY <1>4
  <2>4. D \in SUBSET Cells
    OBVIOUS
  <2> HIDE DEF D
  <2>5. Cardinality(At(d.calq, D, Prios)) = 0 + 0
    BY <1>3, <2>2, <2>3, <2>4
  <2>6. \A x \in D : d.calq[x] = <<>>
    BY <1>2, <2>1, <2>4, <2>5, AtNone
  <2> QED BY <2>6 DEF D
<1>9. Sound(d)
  BY <1>2, <1>5, <1>7, <1>8 DEF Sound
<1> QED BY <1>4, <1>6, <1>9 DEF d

(* A queue whose count exceeds what was put outside it has a bucket with   *)
(* an event: calqueue_deq returns NULL only when there is nothing to take. *)
LEMMA HeldNonempty ==
  ASSUME NEW c, Sound(c), c.qsize > c.stray
  PROVE  Nonempty(c) # {}
<1>1. Shape(c) /\ Finite(c) /\ c.calq \in [Cells -> Seq(Prios)]
  BY ShapeTypes DEF Sound
<1>2. Kept(c, Prios) # 0
  BY <1>1, AtFinite, ShapeTypes DEF Sound, Kept
<1>3. PICK x \in Cells : c.calq[x] # <<>>
  BY <1>1, <1>2, AtNone DEF Kept
<1>4. x \in Calendar(c)
  BY <1>3 DEF Sound
<1>5. x - c.firstsub \in 0 .. c.nbuckets - 1 /\ c.firstsub + (x - c.firstsub) = x
  <2>1. x - c.firstsub \in 0 .. c.nbuckets - 1 /\ c.firstsub \in Nat
    BY <1>1, <1>4, ShapeTypes
  <2> QED BY <2>1, <1>3 DEF Cells
<1>6. x - c.firstsub \in Nonempty(c)
  BY <1>3, <1>5 DEF Nonempty
<1> QED BY <1>6

(* A dequeue keeps the count true and removes the one event.               *)
LEMMA TakeSound ==
  ASSUME NEW c, Sound(c), c.qsize > 0, c.stray = 0
  PROVE  LET e == take(c).event
             d == take(c).queue
         IN  /\ Sound(d) /\ e \in Prios
             /\ \A P \in SUBSET Prios : Kept(c, P) = Kept(d, P) + (IF e \in P THEN 1 ELSE 0)
<1> DEFINE e == take(c).event
           d == take(c).queue
           i == Bucket(c)
           k == c.firstsub + i
<1>1. Shape(c) /\ Finite(c) /\ Nonempty(c) # {} /\ c.calq \in [Cells -> Seq(Prios)]
  BY HeldNonempty, ShapeTypes DEF Sound
<1>2. i \in Nonempty(c)
  BY <1>1, Searched
<1>3. /\ e = First(c, i) /\ Shape(d)
      /\ d.firstsub = c.firstsub /\ d.nbuckets = c.nbuckets /\ d.qsize = c.qsize - 1
      /\ d.stray = c.stray /\ Removed(c.calq, d.calq, k)
  BY <1>1, TakeDone
<1>4. k \in Cells /\ c.calq[k] # <<>> /\ e = Head(c.calq[k]) /\ e \in Prios
  BY <1>1, <1>2, <1>3, FirstOf DEF First
<1>k. k \in Calendar(c)
  BY <1>1, <1>2, ShapeTypes DEF Nonempty
<1> HIDE DEF d, e, i, k
<1>5. ASSUME NEW D \in SUBSET Cells, NEW P
      PROVE  /\ IsFiniteSet(At(c.calq, D, P)) <=> IsFiniteSet(At(d.calq, D, P))
             /\ IsFiniteSet(At(c.calq, D, P)) =>
                  Cardinality(At(c.calq, D, P)) =
                    Cardinality(At(d.calq, D, P)) + (IF k \in D /\ e \in P THEN 1 ELSE 0)
  <2>1. OneMore(At(d.calq, D, P), At(c.calq, D, P), k, D, Head(c.calq[k]), P)
    BY <1>1, <1>3, <1>4, AtTail
  <2> QED BY <1>4, <2>1 DEF OneMore
<1>6. Finite(d)
  BY <1>1, <1>5 DEF Finite
<1>7. ASSUME NEW P \in SUBSET Prios
      PROVE  Kept(c, P) = Kept(d, P) + (IF e \in P THEN 1 ELSE 0)
  <2>1. IsFiniteSet(At(c.calq, Cells, P))
    BY <1>1, AtFinite
  <2> QED BY <1>4, <1>5, <2>1 DEF Kept
<1>8. d.qsize = Kept(d, Prios) + d.stray
  <2>1. Kept(c, Prios) = Kept(d, Prios) + 1
    BY <1>4, <1>7
  <2>2. Kept(d, Prios) \in Nat
    BY <1>6, AtFinite DEF Kept
  <2>3. c.qsize = Kept(c, Prios) + c.stray
    BY DEF Sound
  <2> QED BY <1>3, <2>1, <2>2, <2>3
<1>9. ASSUME NEW x \in Cells \ Calendar(d) PROVE d.calq[x] = <<>>
  <2>1. x \notin Calendar(c)
    BY <1>3 DEF Calendar
  <2>2. d.calq[x] = c.calq[x]
    BY <1>1, <1>3, <1>k, <2>1 DEF Removed
  <2> QED BY <2>1, <2>2 DEF Sound
<1> QED BY <1>3, <1>4, <1>6, <1>7, <1>8, <1>9 DEF Sound, d, e

-----------------------------------------------------------------------------
(* The choice of the width: new_width and its sample                       *)

(* The states after each dequeue of new_width's sample exist, as a         *)
(* function; by induction on their number.                                 *)
LEMMA SampleExists ==
  ASSUME NEW c, NEW n \in Nat
  PROVE  \E g : g = [j \in 0 .. n |-> IF j = 0 THEN c ELSE take(g[j - 1]).queue]
<1> DEFINE Good(m) == \E g : g = [j \in 0 .. m |-> IF j = 0 THEN c ELSE take(g[j - 1]).queue]
           Bad == {m \in Nat : ~Good(m)}
<1>1. Good(0)
  <2> DEFINE h == [j \in 0 .. 0 |-> c]
  <2>1. h = [j \in 0 .. 0 |-> IF j = 0 THEN c ELSE take(h[j - 1]).queue]
    OBVIOUS
  <2> HIDE DEF h
  <2> QED BY <2>1
<1>2. ASSUME NEW m \in Nat, Good(m) PROVE Good(m + 1)
  <2>1. PICK g : g = [j \in 0 .. m |-> IF j = 0 THEN c ELSE take(g[j - 1]).queue]
    BY <1>2
  <2> DEFINE h == [j \in 0 .. m + 1 |-> IF j <= m THEN g[j] ELSE take(g[m]).queue]
             r == [j \in 0 .. m + 1 |-> IF j = 0 THEN c ELSE take(h[j - 1]).queue]
  <2>2. ASSUME NEW j \in 0 .. m + 1 PROVE h[j] = r[j]
    <3>1. CASE j = 0
      <4>1. h[j] = g[0] /\ r[j] = c
        BY <3>1
      <4> QED BY <2>1, <4>1
    <3>2. CASE j # 0 /\ j <= m
      <4>1. h[j] = g[j] /\ h[j - 1] = g[j - 1] /\ r[j] = take(h[j - 1]).queue
        BY <3>2
      <4>2. g[j] = take(g[j - 1]).queue
        BY <2>1, <3>2
      <4> HIDE DEF h, r
      <4> QED BY <4>1, <4>2
    <3>3. CASE j = m + 1
      <4>1. h[j] = take(g[m]).queue /\ h[j - 1] = g[m] /\ r[j] = take(h[j - 1]).queue
        BY <3>3
      <4> HIDE DEF h, r
      <4> QED BY <4>1
    <3> QED BY <3>1, <3>2, <3>3
  <2>3. h = r
    BY <2>2
  <2> HIDE DEF h
  <2> QED BY <2>3
<1>3. Bad = {}
  <2> SUFFICES ASSUME Bad # {} PROVE FALSE
    OBVIOUS
  <2>1. Bad \subseteq Nat
    OBVIOUS
  <2>2. PICK x \in Bad : \A y \in Bad : x <= y
    <3> HIDE DEF Bad
    <3> QED BY <2>1, LeastNat
  <2> HIDE DEF Good
  <2>3. x # 0
    BY <1>1, <2>2
  <2>4. x - 1 \in Nat /\ ~(x - 1 \in Bad)
    BY <2>1, <2>2, <2>3
  <2>5. Good(x - 1)
    BY <2>4
  <2>6. Good((x - 1) + 1)
    BY <1>2, <2>4, <2>5
  <2> QED BY <2>2, <2>6
<1> HIDE DEF Good
<1>4. Good(n)
  BY <1>3
<1> QED BY <1>4 DEF Good

(* Hence sample is what its recursive definition says.                     *)
LEMMA SampleDef ==
  ASSUME NEW c, NEW n \in Nat
  PROVE  sample(c, n) = [j \in 0 .. n |-> IF j = 0 THEN c ELSE take(sample(c, n)[j - 1]).queue]
  BY SampleExists DEF sample

(* The dequeues of a sample.                                               *)
LEMMA SampleSound ==
  ASSUME NEW c, Sound(c), c.stray = 0, NEW n \in Nat, n <= c.qsize
  PROVE  \A j \in 0 .. n : /\ Sound(sample(c, n)[j]) /\ sample(c, n)[j].qsize = c.qsize - j
                           /\ sample(c, n)[j].stray = 0
<1> DEFINE g == sample(c, n)
           Good(j) == Sound(g[j]) /\ g[j].qsize = c.qsize - j /\ g[j].stray = 0
           Bad == {j \in 0 .. n : ~Good(j)}
<1>0. c.qsize \in Nat
  BY ShapeTypes DEF Sound
<1>1. g[0] = c /\ \A j \in 1 .. n : g[j] = take(g[j - 1]).queue
  <2>1. g = [j \in 0 .. n |-> IF j = 0 THEN c ELSE take(g[j - 1]).queue]
    BY SampleDef
  <2> HIDE DEF g
  <2>2. 0 \in 0 .. n /\ \A j \in 1 .. n : j \in 0 .. n /\ j # 0
    OBVIOUS
  <2> QED BY <2>1, <2>2
<1> HIDE DEF g
<1>2. Good(0)
  BY <1>0, <1>1
<1>3. ASSUME NEW j \in 1 .. n, Good(j - 1) PROVE Good(j)
  <2> DEFINE b == g[j - 1]
  <2>1. Sound(b) /\ b.qsize = c.qsize - (j - 1) /\ b.stray = 0 /\ g[j] = take(b).queue
    BY <1>1, <1>3
  <2> HIDE DEF b
  <2>2. b.qsize > 0
    BY <1>0, <2>1
  <2>3. Sound(take(b).queue)
    BY <2>1, <2>2, TakeSound
  <2>4. Nonempty(b) # {} /\ Shape(b)
    BY <2>1, <2>2, HeldNonempty DEF Sound
  <2>5. take(b).queue.qsize = b.qsize - 1 /\ take(b).queue.stray = b.stray
    BY <2>2, <2>4, TakeDone
  <2> QED BY <1>0, <2>1, <2>3, <2>5
<1> HIDE DEF Good
<1>4. Bad = {}
  <2> SUFFICES ASSUME Bad # {} PROVE FALSE
    OBVIOUS
  <2>1. Bad \subseteq Nat
    OBVIOUS
  <2>2. PICK x \in Bad : \A y \in Bad : x <= y
    <3> HIDE DEF Bad
    <3> QED BY <2>1, LeastNat
  <2>3. x # 0 /\ x \in 0 .. n /\ ~Good(x)
    BY <1>2, <2>2
  <2>4. x \in 1 .. n /\ x - 1 \in 0 .. n /\ ~(x - 1 \in Bad)
    BY <2>1, <2>2, <2>3
  <2>5. Good(x - 1)
    BY <2>4
  <2> QED BY <1>3, <2>3, <2>4, <2>5
<1> QED BY <1>4 DEF Good, g

(* The sum of the distances.                                               *)
Gap(temp, j) == temp[j] - temp[j - 1]
Close(temp, n, j) == Gap(temp, j) * (n - 1) < 2 * (temp[n] - temp[1])
Add(temp, n, j, w) ==
  IF j = 1 THEN [num |-> 0, den |-> 0]
  ELSE IF Close(temp, n, j) THEN [num |-> w.num + 3 * Gap(temp, j), den |-> w.den + 1]
  ELSE w

(* g is the sum of the first n distances of the sample.                    *)
Summed(temp, N, n, g) == g = [j \in 1 .. n |-> Add(temp, N, j, g[j - 1])]

(* The sums exist, as a function; by induction on their number.            *)
LEMMA WidthsExist ==
  ASSUME NEW temp, NEW N, NEW n \in Nat
  PROVE  \E g : Summed(temp, N, n, g)
<1> DEFINE Good(m) == \E g : g = [j \in 1 .. m |-> Add(temp, N, j, g[j - 1])]
           Bad == {m \in Nat : ~Good(m)}
<1>1. Good(0)
  <2> DEFINE h == [j \in 1 .. 0 |-> Add(temp, N, j, 0)]
  <2>1. h = [j \in 1 .. 0 |-> Add(temp, N, j, h[j - 1])]
    OBVIOUS
  <2> HIDE DEF h
  <2> QED BY <2>1
<1>2. ASSUME NEW m \in Nat, Good(m) PROVE Good(m + 1)
  <2>1. PICK g : g = [j \in 1 .. m |-> Add(temp, N, j, g[j - 1])]
    BY <1>2
  <2> DEFINE h == [j \in 1 .. m + 1 |-> IF j <= m THEN g[j] ELSE Add(temp, N, j, g[m])]
             r == [j \in 1 .. m + 1 |-> Add(temp, N, j, h[j - 1])]
  <2>2. ASSUME NEW j \in 1 .. m + 1 PROVE h[j] = r[j]
    <3>1. CASE j = 1
      <4>0. \A u, v : Add(temp, N, 1, u) = Add(temp, N, 1, v)
        BY DEF Add
      <4>1. CASE m = 0
        <5>1. h[j] = Add(temp, N, 1, g[m]) /\ r[j] = Add(temp, N, 1, h[j - 1])
          BY <3>1, <4>1
        <5> HIDE DEF h, r
        <5> QED BY <4>0, <5>1
      <4>2. CASE m # 0
        <5>1. h[j] = g[1] /\ r[j] = Add(temp, N, 1, h[j - 1])
          BY <3>1, <4>2
        <5>2. g[1] = Add(temp, N, 1, g[1 - 1])
          BY <2>1, <4>2
        <5> HIDE DEF h, r
        <5> QED BY <4>0, <5>1, <5>2
      <4> QED BY <4>1, <4>2
    <3>2. CASE j # 1 /\ j <= m
      <4>1. h[j] = g[j] /\ h[j - 1] = g[j - 1] /\ r[j] = Add(temp, N, j, h[j - 1])
        BY <3>2
      <4>2. g[j] = Add(temp, N, j, g[j - 1])
        BY <2>1, <3>2
      <4> HIDE DEF h, r
      <4> QED BY <4>1, <4>2
    <3>3. CASE j = m + 1 /\ j # 1
      <4>1. h[j] = Add(temp, N, j, g[m]) /\ h[j - 1] = g[m] /\ r[j] = Add(temp, N, j, h[j - 1])
        BY <3>3
      <4> HIDE DEF h, r
      <4> QED BY <4>1
    <3> QED BY <3>1, <3>2, <3>3
  <2>3. h = r
    BY <2>2
  <2> HIDE DEF h
  <2> QED BY <2>3
<1>3. Bad = {}
  <2> SUFFICES ASSUME Bad # {} PROVE FALSE
    OBVIOUS
  <2>1. Bad \subseteq Nat
    OBVIOUS
  <2>2. PICK x \in Bad : \A y \in Bad : x <= y
    <3> HIDE DEF Bad
    <3> QED BY <2>1, LeastNat
  <2> HIDE DEF Good
  <2>3. x # 0
    BY <1>1, <2>2
  <2>4. x - 1 \in Nat /\ ~(x - 1 \in Bad)
    BY <2>1, <2>2, <2>3
  <2>5. Good(x - 1)
    BY <2>4
  <2>6. Good((x - 1) + 1)
    BY <1>2, <2>4, <2>5
  <2> QED BY <2>2, <2>6
<1> HIDE DEF Good
<1>4. Good(n)
  BY <1>3
<1> QED BY <1>4 DEF Good, Summed

(* Hence widths is what its recursive definition says.                     *)
LEMMA WidthsDef ==
  ASSUME NEW temp, NEW n \in Nat
  PROVE  widths(temp, n) = [j \in 1 .. n |-> Add(temp, n, j, widths(temp, n)[j - 1])]
<1> DEFINE E(g) ==
      [j \in 1 .. n |->
         IF j = 1 THEN [num |-> 0, den |-> 0]
         ELSE IF (temp[j] - temp[j - 1]) * (n - 1) < 2 * (temp[n] - temp[1])
           THEN [num |-> g[j - 1].num + 3 * (temp[j] - temp[j - 1]), den |-> g[j - 1].den + 1]
           ELSE g[j - 1]]
<1>1. \A g : E(g) = [j \in 1 .. n |-> Add(temp, n, j, g[j - 1])]
  BY DEF Add, Close, Gap
<1>2. widths(temp, n) = CHOOSE g : g = E(g)
  BY DEF widths
<1> HIDE DEF E
<1>3. \E g : g = E(g)
  <2>1. PICK g : Summed(temp, n, n, g)
    BY WidthsExist
  <2>2. E(g) = [j \in 1 .. n |-> Add(temp, n, j, g[j - 1])]
    BY <1>1
  <2> QED BY <2>1, <2>2, Zenon DEF Summed
<1>4. widths(temp, n) = E(widths(temp, n))
  BY <1>2, <1>3
<1> QED BY <1>1, <1>4

(* The sum of the distances that are kept is 0 when none is kept.          *)
LEMMA WidthsTyped ==
  ASSUME NEW n \in Nat, NEW temp \in [1 .. n -> Nat]
  PROVE  \A j \in 1 .. n : widths(temp, n)[j] \in Widths
<1> DEFINE g == widths(temp, n)
           Bad == {j \in 1 .. n : g[j] \notin Widths}
<1>1. \A j \in 1 .. n : g[j] = Add(temp, n, j, g[j - 1])
  <2>1. g = [j \in 1 .. n |-> Add(temp, n, j, g[j - 1])]
    BY WidthsDef
  <2> HIDE DEF g
  <2> QED BY <2>1
<1> HIDE DEF g
<1>2. ASSUME NEW j \in 1 .. n, j = 1 \/ g[j - 1] \in Widths PROVE g[j] \in Widths
  <2>1. CASE j = 1
    <3>1. g[j] = [num |-> 0, den |-> 0]
      BY <1>1, <2>1 DEF Add
    <3> QED BY <3>1 DEF Widths
  <2>2. CASE j # 1 /\ Close(temp, n, j)
    <3> DEFINE w == g[j - 1]
    <3>1. w \in Widths /\ g[j] = [num |-> w.num + 3 * Gap(temp, j), den |-> w.den + 1]
      BY <1>1, <1>2, <2>2 DEF Add
    <3>2. Gap(temp, j) \in Int
      <4>1. temp[j] \in Nat /\ temp[j - 1] \in Nat
        BY <2>2
      <4> QED BY <4>1 DEF Gap
    <3> HIDE DEF w
    <3>3. w.num + 3 * Gap(temp, j) \in Int /\ w.den + 1 \in Nat /\ w.den + 1 # 0
      BY <3>1, <3>2 DEF Widths
    <3> QED BY <3>1, <3>3 DEF Widths
  <2>3. CASE j # 1 /\ ~Close(temp, n, j)
    BY <1>1, <1>2, <2>3 DEF Add
  <2> QED BY <2>1, <2>2, <2>3
<1>3. Bad = {}
  <2> SUFFICES ASSUME Bad # {} PROVE FALSE
    OBVIOUS
  <2>1. Bad \subseteq Nat
    OBVIOUS
  <2>2. PICK x \in Bad : \A y \in Bad : x <= y
    <3> HIDE DEF Bad
    <3> QED BY <2>1, LeastNat
  <2>3. x \in 1 .. n /\ (x = 1 \/ (x - 1 \in 1 .. n /\ ~(x - 1 \in Bad)))
    BY <2>1, <2>2
  <2>4. x = 1 \/ g[x - 1] \in Widths
    BY <2>3
  <2>5. g[x] \in Widths
    BY <1>2, <2>3, <2>4
  <2> QED BY <2>2, <2>5
<1> QED BY <1>3 DEF g

(* new_width returns a fraction, which may be negative or 0 / 0.           *)
LEMMA NewWidth ==
  ASSUME NEW c, Sound(c), c.stray = 0
  PROVE  new_width(c) \in Widths
<1>0. c.qsize \in Nat /\ TICKS \in Nat \ {0}
  BY ShapeTypes, CalQueueAssumption DEF Sound
<1>1. CASE c.qsize < 2
  <2>1. new_width(c) = [num |-> TICKS, den |-> 1]
    BY <1>1 DEF new_width
  <2> QED BY <1>0, <2>1 DEF Widths
<1>2. CASE ~(c.qsize < 2)
  <2> DEFINE n == nsamples(c.qsize)
             left == sample(c, n)
             temp == [j \in 1 .. n |-> take(left[j - 1]).event]
  <2>1. n \in Nat /\ n >= 1 /\ n <= c.qsize
    <3> DEFINE z == c.qsize
               m == z \div 10
    <3>1. m \in Nat /\ 10 * m <= z
      BY <1>0
    <3>2. CASE z <= 5
      BY <1>0, <1>2, <3>2 DEF nsamples
    <3>3. CASE ~(z <= 5)
      <4>1. n = Min({25, 5 + m})
        BY <3>3 DEF nsamples
      <4> HIDE DEF m
      <4>2. {25, 5 + m} \subseteq Nat
        BY <3>1
      <4>3. n \in {25, 5 + m} /\ n <= 5 + m
        <5> HIDE DEF n
        <5> QED BY <4>1, <4>2, MinIn
      <4> HIDE DEF n, z
      <4>z. z \in Nat
        BY <1>0 DEF z
      <4> QED BY <3>1, <3>3, <4>3, <4>z DEF z
    <3> QED BY <3>2, <3>3
  <2> HIDE DEF n
  <2>2. \A j \in 0 .. n : Sound(left[j]) /\ left[j].qsize = c.qsize - j /\ left[j].stray = 0
    BY <2>1, SampleSound
  <2> HIDE DEF left
  <2>3. ASSUME NEW j \in 1 .. n PROVE take(left[j - 1]).event \in Nat
    <3> DEFINE b == left[j - 1]
    <3>1. j - 1 \in 0 .. n /\ c.qsize - (j - 1) > 0
      BY <1>0, <2>1
    <3>2. Sound(b) /\ b.qsize > 0 /\ b.stray = 0
      BY <2>2, <3>1
    <3> HIDE DEF b
    <3>3. take(b).event \in Prios
      BY <3>2, TakeSound
    <3> QED BY <3>3, PriosNat DEF b
  <2>4. temp \in [1 .. n -> Nat]
    BY <2>3
  <2> HIDE DEF temp
  <2>5. widths(temp, n)[n] \in Widths
    BY <2>1, <2>4, WidthsTyped
  <2> QED BY <1>2, <2>5 DEF new_width, n, left, temp
<1> QED BY <1>0, <1>1, <1>2

-----------------------------------------------------------------------------
(* localinit, and one step of the copy in resize                           *)

(* localinit, in a part of the array beside the calendar, touches no event *)
(* and puts the search position where lastprio is.                         *)
LEMMA LocalInit ==
  ASSUME NEW c, Sound(c), c.stray = 0, NEW size \in Sizes, NEW base \in Nat, base + size <= CALQSPACE,
         \A x \in Calendar(c) : x \notin base .. base + size - 1, NEW w \in Widths
  PROVE  LET d == localinit(c, base, size, w, c.lastprio)
         IN  /\ Shape(d) /\ d.firstsub = base /\ d.nbuckets = size /\ d.cwidth = w /\ d.qsize = 0
             /\ d.calq = c.calq /\ d.lastprio = c.lastprio /\ d.stray = 0
             /\ d.lastbucket = Index(w, size, c.lastprio)
             /\ d.buckettop = (2 * VirtualBucket(w, c.lastprio) + 3) * w.num
<1> DEFINE d == localinit(c, base, size, w, c.lastprio)
           n == VirtualBucket(w, c.lastprio)
           a == [i \in DOMAIN c.calq |-> IF i \in base .. base + size - 1 THEN <<>> ELSE c.calq[i]]
           top == (2 * n + 3) * w.num
<1>1. Shape(c) /\ c \in Calqs /\ c.calq \in [Cells -> Seq(Prios)] /\ c.lastprio \in Prios
      /\ c.lastprio \in Nat
  BY ShapeTypes DEF Sound, Shape
<1>2. size \in Nat \ {0}
  BY SizesNat
<1>3. n \in Int /\ Index(w, size, c.lastprio) \in Int
  BY <1>1, <1>2, IndexInt
<1>4. top \in Int
  <2>1. w.num \in Int
    BY DEF Widths
  <2> HIDE DEF n
  <2> QED BY <1>3, <2>1
<1>5. \A x \in base .. base + size - 1 : x \in Cells
  BY <1>2, PriosNat DEF Cells
<1>6. a = c.calq
  <2>1. \A x \in base .. base + size - 1 : c.calq[x] = <<>>
    BY <1>5 DEF Sound
  <2>2. \A x \in DOMAIN c.calq : a[x] = c.calq[x]
    BY <2>1
  <2>3. a = [x \in DOMAIN c.calq |-> a[x]] /\ c.calq = [x \in DOMAIN c.calq |-> c.calq[x]]
    BY <1>1
  <2> HIDE DEF a
  <2> QED BY <2>2, <2>3
<1>7. d = [c EXCEPT !.firstsub = base, !.nbuckets = size, !.cwidth = w, !.qsize = 0, !.calq = a,
             !.lastprio = c.lastprio, !.lastbucket = Rem(n, size), !.buckettop = top]
  BY DEF localinit
<1> HIDE DEF top, a, d
<1>8. d = [c EXCEPT !.firstsub = base, !.nbuckets = size, !.cwidth = w, !.qsize = 0,
             !.calq = c.calq, !.lastprio = c.lastprio, !.lastbucket = Index(w, size, c.lastprio),
             !.buckettop = top]
  BY <1>6, <1>7 DEF Index
<1>9. d \in Calqs
  BY <1>1, <1>3, <1>4, <1>8 DEF Calqs
<1>10. /\ d.firstsub = base /\ d.nbuckets = size /\ d.cwidth = w /\ d.qsize = 0
       /\ d.calq = c.calq /\ d.lastprio = c.lastprio /\ d.stray = 0
       /\ d.lastbucket = Index(w, size, c.lastprio) /\ d.buckettop = top
  BY <1>1, <1>8 DEF Calqs
<1>11. \A x \in Cells : SortedSeq(d.calq[x])
  BY <1>1, <1>10 DEF Shape
<1>12. ASSUME NEW i \in 0 .. size - 1 PROVE DOMAIN d.calq[base + i] = {}
  <2>1. base + i \in base .. base + size - 1
    BY <1>2
  <2>2. c.calq[base + i] = <<>>
    BY <1>5, <2>1 DEF Sound
  <2> QED BY <1>10, <2>2
<1>13. Shape(d)
  BY <1>9, <1>10, <1>11, <1>12 DEF Shape
<1> QED BY <1>10, <1>13 DEF d, top

(* The head of a cell outside the calendar is taken.                       *)
LEMMA TailShape ==
  ASSUME NEW b, Shape(b), NEW i \in Cells, i \notin Calendar(b), b.calq[i] # <<>>
  PROVE  LET d == [b EXCEPT !.calq[i] = Tail(@)]
         IN  Shape(d) /\ SameFrame(b, d) /\ d.qsize = b.qsize /\ d.stray = b.stray
             /\ Removed(b.calq, d.calq, i)
<1> DEFINE s == b.calq[i]
           a == [b.calq EXCEPT ![i] = Tail(s)]
           d == [b EXCEPT !.calq[i] = Tail(@)]
<1>1. b \in Calqs /\ b.calq \in [Cells -> Seq(Prios)] /\ s \in Seq(Prios) /\ SortedSeq(s) /\ s # <<>>
  BY ShapeTypes DEF Shape
<1>2. d = [b EXCEPT !.calq = a]
  BY <1>1 DEF Calqs
<1>3. a \in [Cells -> Seq(Prios)] /\ a[i] = Tail(s) /\ \A x \in Cells \ {i} : a[x] = b.calq[x]
  <2>1. Tail(s) \in Seq(Prios)
    BY <1>1
  <2> QED BY <1>1, <2>1
<1> HIDE DEF a, d
<1>4. /\ d \in Calqs /\ d.calq = a /\ SameFrame(b, d) /\ d.qsize = b.qsize /\ d.stray = b.stray
  <2>1. d \in Calqs
    BY <1>1, <1>2, <1>3 DEF Calqs
  <2>2. d.calq = a /\ d.qsize = b.qsize /\ d.stray = b.stray
    BY <1>1, <1>2 DEF Calqs
  <2>3. SameFrame(b, d)
    BY <1>1, <1>2 DEF Calqs, SameFrame
  <2> QED BY <2>1, <2>2, <2>3
<1>5. SortedSeq(Tail(s))
  <2>1. Len(s) \in Nat /\ DOMAIN Tail(s) = 1 .. Len(s) - 1 /\ DOMAIN s = 1 .. Len(s)
        /\ \A j \in 1 .. Len(s) - 1 : Tail(s)[j] = s[j + 1]
    BY <1>1, HeadTail
  <2> SUFFICES ASSUME NEW x \in 1 .. Len(s) - 1, NEW y \in 1 .. Len(s) - 1, x <= y
               PROVE  Tail(s)[x] <= Tail(s)[y]
    BY <2>1 DEF SortedSeq
  <2> HIDE DEF s
  <2>2. x + 1 \in DOMAIN s /\ y + 1 \in DOMAIN s /\ x + 1 <= y + 1
    BY <2>1
  <2> QED BY <1>1, <2>1, <2>2 DEF SortedSeq
<1>6. \A x \in Cells : SortedSeq(d.calq[x])
  BY <1>3, <1>4, <1>5 DEF Shape
<1>7. \A m \in 0 .. b.nbuckets - 1 : d.calq[b.firstsub + m] = b.calq[b.firstsub + m]
  <2>1. ASSUME NEW m \in 0 .. b.nbuckets - 1 PROVE b.firstsub + m \in Cells /\ b.firstsub + m # i
    BY ShapeTypes
  <2> QED BY <1>3, <1>4, <2>1
<1>8. Shape(d)
  BY <1>4, <1>6, <1>7 DEF Shape, SameFrame
<1>9. Removed(b.calq, d.calq, i)
  BY <1>1, <1>3, <1>4 DEF Removed
<1> QED BY <1>4, <1>8, <1>9 DEF d

(* One event of the old calendar is put into the new one: none is lost or  *)
(* duplicated, unless the width is negative.                               *)
LEMMA MoveDone ==
  ASSUME NEW b, Shape(b), Finite(b), NEW old \in SUBSET Cells, old \cap Calendar(b) = {},
         Cardinality(At(b.calq, old, Prios)) # 0
  PROVE  LET d == move(b, old)
         IN  /\ Shape(d) /\ Finite(d) /\ SameFrame(b, d) /\ d.qsize = b.qsize + 1
             /\ Cardinality(At(d.calq, old, Prios)) = Cardinality(At(b.calq, old, Prios)) - 1
             /\ Kept(d, Prios) + d.stray = Kept(b, Prios) + b.stray
             /\ b.cwidth.num >= 0 => \A P \in SUBSET Prios : Kept(d, P) = Kept(b, P)
             /\ Cardinality(At(d.calq, Cells \ (Calendar(b) \cup old), Prios)) =
                  Cardinality(At(b.calq, Cells \ (Calendar(b) \cup old), Prios))
<1> DEFINE T == {x \in old : b.calq[x] # <<>>}
           i == Max(T)
           a == [b EXCEPT !.calq[i] = Tail(@)]
           e == Head(b.calq[i])
           d == move(b, old)
           m == Index(b.cwidth, b.nbuckets, e)
           cell == b.firstsub + m
<1>0. b.calq \in [Cells -> Seq(Prios)] /\ Calendar(b) \subseteq Cells
  BY ShapeTypes
<1>1. i \in old /\ b.calq[i] # <<>> /\ i \in Cells /\ i \notin Calendar(b)
  <2>1. T # {}
    BY <1>0, AtNone
  <2>2. T \subseteq 0 .. CALQSPACE - 1
    BY DEF Cells
  <2>3. CALQSPACE - 1 \in Nat
    BY <2>1, <2>2, PriosNat
  <2> HIDE DEF T
  <2>4. i \in T
    BY <2>1, <2>2, <2>3, MaxIn
  <2> QED BY <2>4 DEF T
<1>2. d = insert(a, e)
  BY DEF move
<1> HIDE DEF i
<1>3. Shape(a) /\ SameFrame(b, a) /\ a.qsize = b.qsize /\ a.stray = b.stray /\ Removed(b.calq, a.calq, i)
  BY <1>1, TailShape
<1>4. e \in Prios /\ e \in Nat
  <2>1. b.calq[i] \in Seq(Prios)
    BY <1>0, <1>1
  <2>2. e \in Prios
    BY <1>1, <2>1, HeadTail
  <2> HIDE DEF e
  <2> QED BY <2>2, PriosNat
<1>5. ASSUME NEW D \in SUBSET Cells, NEW P
      PROVE  OneMore(At(a.calq, D, P), At(b.calq, D, P), i, D, e, P)
  BY <1>0, <1>1, <1>3, AtTail
<1> HIDE DEF a, e, d
<1>6. Finite(a)
  BY <1>5 DEF Finite, OneMore
<1>7. ASSUME NEW D \in SUBSET Cells, NEW P \in SUBSET Prios
      PROVE  Cardinality(At(b.calq, D, P)) =
               Cardinality(At(a.calq, D, P)) + (IF i \in D /\ e \in P THEN 1 ELSE 0)
  <2>1. IsFiniteSet(At(a.calq, D, P))
    BY <1>6, AtFinite
  <2> QED BY <1>5, <2>1 DEF OneMore
<1>8. a.cwidth = b.cwidth /\ a.nbuckets = b.nbuckets /\ a.firstsub = b.firstsub
  BY <1>3 DEF SameFrame
<1>9. /\ Shape(d) /\ SameFrame(a, d) /\ d.qsize = a.qsize + 1 /\ Finite(d)
      /\ m < 0 => d.stray = a.stray + 1
      /\ m >= 0 => m \in 0 .. b.nbuckets - 1 /\ d.stray = a.stray
  BY <1>2, <1>3, <1>4, <1>6, <1>8, InsertDone, InsertCounts
<1>10. ASSUME NEW D \in SUBSET Cells, NEW P \in SUBSET Prios
       PROVE  Cardinality(At(d.calq, D, P)) =
                Cardinality(At(a.calq, D, P)) + (IF m >= 0 /\ cell \in D /\ e \in P THEN 1 ELSE 0)
  BY <1>2, <1>3, <1>4, <1>6, <1>8, InsertCounts
<1>11. m \in Int /\ (m >= 0 => cell \in Calendar(b)) /\ (b.cwidth.num >= 0 => m >= 0)
  <2>1. b.cwidth \in Widths /\ b.nbuckets \in Nat \ {0}
    BY ShapeTypes
  <2>2. m \in Int /\ (b.cwidth.num >= 0 => m \in 0 .. b.nbuckets - 1)
    BY <1>4, <2>1, IndexInt, IndexNat
  <2>3. m >= 0 => cell \in Calendar(b)
    BY <1>9, ShapeTypes
  <2> HIDE DEF m
  <2> QED BY <2>1, <2>2, <2>3
<1> HIDE DEF m, cell
<1>12. ASSUME NEW D \in SUBSET Cells, NEW P \in SUBSET Prios
       PROVE  Cardinality(At(a.calq, D, P)) \in Nat /\ Cardinality(At(b.calq, D, P)) \in Nat
              /\ Cardinality(At(d.calq, D, P)) \in Nat
  BY <1>6, <1>9, AtFinite
<1>13. Cardinality(At(d.calq, old, Prios)) = Cardinality(At(b.calq, old, Prios)) - 1
  <2>1. ~(m >= 0 /\ cell \in old)
    BY <1>11
  <2>2. Cardinality(At(d.calq, old, Prios)) = Cardinality(At(a.calq, old, Prios)) + 0
    BY <1>10, <2>1
  <2>3. Cardinality(At(b.calq, old, Prios)) = Cardinality(At(a.calq, old, Prios)) + 1
    BY <1>1, <1>4, <1>7
  <2> QED BY <1>12, <2>2, <2>3
<1>14. ASSUME NEW P \in SUBSET Prios
       PROVE  Kept(d, P) = Kept(b, P) - (IF m < 0 /\ e \in P THEN 1 ELSE 0)
  <2>1. Kept(b, P) = Kept(a, P) + (IF e \in P THEN 1 ELSE 0)
    BY <1>1, <1>7 DEF Kept
  <2>2. Kept(d, P) = Kept(a, P) + (IF m >= 0 /\ e \in P THEN 1 ELSE 0)
    BY <1>0, <1>10, <1>11 DEF Kept
  <2>3. Kept(a, P) \in Nat
    BY <1>12 DEF Kept
  <2> QED BY <1>11, <2>1, <2>2, <2>3
<1>15. Kept(d, Prios) + d.stray = Kept(b, Prios) + b.stray
  <2>1. Kept(d, Prios) = Kept(b, Prios) - (IF m < 0 THEN 1 ELSE 0)
    BY <1>4, <1>14
  <2>2. Kept(b, Prios) \in Nat /\ b.stray \in Nat
    BY <1>12, ShapeTypes DEF Kept
  <2> QED BY <1>3, <1>9, <1>11, <2>1, <2>2
<1>16. b.cwidth.num >= 0 => \A P \in SUBSET Prios : Kept(d, P) = Kept(b, P)
  <2> SUFFICES ASSUME b.cwidth.num >= 0, NEW P \in SUBSET Prios PROVE Kept(d, P) = Kept(b, P)
    OBVIOUS
  <2>1. ~(m < 0)
    BY <1>11
  <2>2. Kept(b, P) \in Nat
    BY <1>12 DEF Kept
  <2> QED BY <1>14, <2>1, <2>2
<1>17. Cardinality(At(d.calq, Cells \ (Calendar(b) \cup old), Prios)) =
         Cardinality(At(b.calq, Cells \ (Calendar(b) \cup old), Prios))
  <2> DEFINE D == Cells \ (Calendar(b) \cup old)
  <2>1. D \in SUBSET Cells /\ i \notin D /\ ~(m >= 0 /\ cell \in D)
    BY <1>1, <1>11
  <2> HIDE DEF D
  <2>2. Cardinality(At(d.calq, D, Prios)) = Cardinality(At(a.calq, D, Prios)) + 0
    BY <1>10, <2>1
  <2>3. Cardinality(At(b.calq, D, Prios)) = Cardinality(At(a.calq, D, Prios)) + 0
    BY <1>7, <2>1
  <2>4. Cardinality(At(d.calq, D, Prios)) = Cardinality(At(b.calq, D, Prios))
    BY <2>2, <2>3
  <2> QED BY <2>4 DEF D
<1>18. SameFrame(b, d)
  BY <1>3, <1>9 DEF SameFrame
<1> QED BY <1>3, <1>9, <1>13, <1>15, <1>16, <1>17, <1>18 DEF d

-----------------------------------------------------------------------------
(* The copy of all events, and resize                                      *)

(* g holds the states of the queue after each of the n copied events.      *)
Copied(c, old, n, g) == g = [j \in 0 .. n |-> IF j = 0 THEN c ELSE move(g[j - 1], old)]

(* They exist, as a function; by induction on their number.                *)
LEMMA CopyExists ==
  ASSUME NEW c, NEW old, NEW n \in Nat
  PROVE  \E g : Copied(c, old, n, g)
<1> DEFINE Good(m) == \E g : g = [j \in 0 .. m |-> IF j = 0 THEN c ELSE move(g[j - 1], old)]
           Bad == {m \in Nat : ~Good(m)}
<1>1. Good(0)
  <2> DEFINE h == [j \in 0 .. 0 |-> c]
  <2>1. h = [j \in 0 .. 0 |-> IF j = 0 THEN c ELSE move(h[j - 1], old)]
    OBVIOUS
  <2> HIDE DEF h
  <2> QED BY <2>1
<1>2. ASSUME NEW m \in Nat, Good(m) PROVE Good(m + 1)
  <2>1. PICK g : g = [j \in 0 .. m |-> IF j = 0 THEN c ELSE move(g[j - 1], old)]
    BY <1>2
  <2> DEFINE h == [j \in 0 .. m + 1 |-> IF j <= m THEN g[j] ELSE move(g[m], old)]
             r == [j \in 0 .. m + 1 |-> IF j = 0 THEN c ELSE move(h[j - 1], old)]
  <2>2. ASSUME NEW j \in 0 .. m + 1 PROVE h[j] = r[j]
    <3>1. CASE j = 0
      <4>1. h[j] = g[0] /\ r[j] = c
        BY <3>1
      <4> QED BY <2>1, <4>1
    <3>2. CASE j # 0 /\ j <= m
      <4>1. h[j] = g[j] /\ h[j - 1] = g[j - 1] /\ r[j] = move(h[j - 1], old)
        BY <3>2
      <4>2. g[j] = move(g[j - 1], old)
        BY <2>1, <3>2
      <4> HIDE DEF h, r
      <4> QED BY <4>1, <4>2
    <3>3. CASE j = m + 1
      <4>1. h[j] = move(g[m], old) /\ h[j - 1] = g[m] /\ r[j] = move(h[j - 1], old)
        BY <3>3
      <4> HIDE DEF h, r
      <4> QED BY <4>1
    <3> QED BY <3>1, <3>2, <3>3
  <2>3. h = r
    BY <2>2
  <2> HIDE DEF h
  <2> QED BY <2>3
<1>3. Bad = {}
  <2> SUFFICES ASSUME Bad # {} PROVE FALSE
    OBVIOUS
  <2>1. Bad \subseteq Nat
    OBVIOUS
  <2>2. PICK x \in Bad : \A y \in Bad : x <= y
    <3> HIDE DEF Bad
    <3> QED BY <2>1, LeastNat
  <2> HIDE DEF Good
  <2>3. x # 0
    BY <1>1, <2>2
  <2>4. x - 1 \in Nat /\ ~(x - 1 \in Bad)
    BY <2>1, <2>2, <2>3
  <2>5. Good(x - 1)
    BY <2>4
  <2>6. Good((x - 1) + 1)
    BY <1>2, <2>4, <2>5
  <2> QED BY <2>2, <2>6
<1> HIDE DEF Good
<1>4. Good(n)
  BY <1>3
<1> QED BY <1>4 DEF Good, Copied

(* Hence copy is what its recursive definition says.                       *)
LEMMA CopyDef ==
  ASSUME NEW c, NEW old, NEW n \in Nat
  PROVE  copy(c, old, n)[0] = c /\ \A j \in 1 .. n : copy(c, old, n)[j] = move(copy(c, old, n)[j - 1], old)
<1> DEFINE g == copy(c, old, n)
<1>1. g = CHOOSE f : Copied(c, old, n, f)
  BY DEF copy, Copied
<1>2. Copied(c, old, n, g)
  BY <1>1, CopyExists
<1> HIDE DEF g
<1>3. 0 \in 0 .. n /\ \A j \in 1 .. n : j \in 0 .. n /\ j # 0
  OBVIOUS
<1>4. g[0] = c /\ \A j \in 1 .. n : g[j] = move(g[j - 1], old)
  BY <1>2, <1>3 DEF Copied
<1> QED BY <1>4 DEF g

(* After j events are copied.                                              *)
Copying(c, old, n, b, j) ==
  /\ Shape(b) /\ Finite(b) /\ SameFrame(c, b) /\ b.qsize = j
  /\ Cardinality(At(b.calq, old, Prios)) = n - j
  /\ Kept(b, Prios) + b.stray = n
  /\ c.cwidth.num >= 0 => \A P \in SUBSET Prios : Kept(b, P) = Kept(c, P)
  /\ Cardinality(At(b.calq, Cells \ (Calendar(c) \cup old), Prios)) = 0

(* After the copy of resize the old calendar is empty and every event is   *)
(* in the new one; by induction on the events copied.                      *)
LEMMA CopyDone ==
  ASSUME NEW c, NEW old \in SUBSET Cells, old \cap Calendar(c) = {}, NEW n \in Nat,
         Copying(c, old, n, c, 0)
  PROVE  Copying(c, old, n, copy(c, old, n)[n], n)
<1> DEFINE g == copy(c, old, n)
           Bad == {j \in 0 .. n : ~Copying(c, old, n, g[j], j)}
<1>1. g[0] = c /\ \A j \in 1 .. n : g[j] = move(g[j - 1], old)
  BY CopyDef
<1> HIDE DEF g
<1>2. Copying(c, old, n, g[0], 0)
  BY <1>1
<1>3. ASSUME NEW j \in 1 .. n, Copying(c, old, n, g[j - 1], j - 1) PROVE Copying(c, old, n, g[j], j)
  <2> DEFINE b == g[j - 1]
             d == g[j]
             R == Cells \ (Calendar(c) \cup old)
  <2>1. Copying(c, old, n, b, j - 1) /\ d = move(b, old)
    BY <1>1, <1>3
  <2> HIDE DEF b, d
  <2>2. /\ Shape(b) /\ Finite(b) /\ SameFrame(c, b) /\ b.qsize = j - 1
        /\ Cardinality(At(b.calq, old, Prios)) = n - (j - 1)
        /\ Kept(b, Prios) + b.stray = n
        /\ c.cwidth.num >= 0 => \A P \in SUBSET Prios : Kept(b, P) = Kept(c, P)
        /\ Cardinality(At(b.calq, R, Prios)) = 0
    BY <2>1 DEF Copying
  <2>3. Calendar(b) = Calendar(c) /\ b.cwidth = c.cwidth
    BY <2>2 DEF Calendar, SameFrame
  <2>4. old \cap Calendar(b) = {} /\ Cardinality(At(b.calq, old, Prios)) # 0
    BY <2>2, <2>3
  <2>5. /\ Shape(d) /\ Finite(d) /\ SameFrame(b, d) /\ d.qsize = b.qsize + 1
        /\ Cardinality(At(d.calq, old, Prios)) = Cardinality(At(b.calq, old, Prios)) - 1
        /\ Kept(d, Prios) + d.stray = Kept(b, Prios) + b.stray
        /\ b.cwidth.num >= 0 => \A P \in SUBSET Prios : Kept(d, P) = Kept(b, P)
        /\ Cardinality(At(d.calq, R, Prios)) = Cardinality(At(b.calq, R, Prios))
    BY <2>1, <2>2, <2>3, <2>4, MoveDone
  <2>6. SameFrame(c, d)
    BY <2>2, <2>5 DEF SameFrame
  <2>7. d.qsize = j /\ Cardinality(At(d.calq, old, Prios)) = n - j
    BY <2>2, <2>5
  <2>8. c.cwidth.num >= 0 => \A P \in SUBSET Prios : Kept(d, P) = Kept(c, P)
    BY <2>2, <2>3, <2>5
  <2>9. Kept(d, Prios) + d.stray = n /\ Cardinality(At(d.calq, R, Prios)) = 0
    BY <2>2, <2>5
  <2> QED BY <2>5, <2>6, <2>7, <2>8, <2>9 DEF Copying, d
<1>4. Bad = {}
  <2> SUFFICES ASSUME Bad # {} PROVE FALSE
    OBVIOUS
  <2>1. Bad \subseteq Nat
    OBVIOUS
  <2>2. PICK x \in Bad : \A y \in Bad : x <= y
    <3> HIDE DEF Bad
    <3> QED BY <2>1, LeastNat
  <2>3. x # 0 /\ x \in 0 .. n /\ ~Copying(c, old, n, g[x], x)
    BY <1>2, <2>2
  <2>4. x \in 1 .. n /\ x - 1 \in 0 .. n /\ ~(x - 1 \in Bad)
    BY <2>1, <2>2, <2>3
  <2>5. Copying(c, old, n, g[x - 1], x - 1)
    BY <2>4
  <2> QED BY <1>3, <2>3, <2>4, <2>5
<1>5. Copying(c, old, n, g[n], n)
  BY <1>4
<1> QED BY <1>5 DEF g

(* Where the calendar is.                                                  *)
Placed(c) == c.firstsub = 0 \/ c.firstsub = CALQSPACE - c.nbuckets
(* The search position is that of the last event handed out.               *)
InPosition(c) ==
  /\ c.lastbucket = Index(c.cwidth, c.nbuckets, c.lastprio)
  /\ c.buckettop = (2 * VirtualBucket(c.cwidth, c.lastprio) + 3) * c.cwidth.num

(* resize keeps every event, counts them again to the same number and puts *)
(* the search position where lastprio is.                                  *)
LEMMA ResizeDone ==
  ASSUME NEW c, Sound(c), Placed(c), c.stray = 0, NEW size \in Sizes,
         c.nbuckets + size <= CALQSPACE
  PROVE  LET d == resize(c, size)
         IN  /\ Sound(d) /\ Placed(d) /\ InPosition(d)
             /\ d.qsize = c.qsize /\ d.lastprio = c.lastprio /\ d.nbuckets = size
             /\ d.cwidth.num >= 0 => \A P \in SUBSET Prios : Kept(d, P) = Kept(c, P)
<1> DEFINE base == IF c.firstsub = 0 THEN CALQSPACE - size ELSE 0
           w == new_width(c)
           new == localinit(c, base, size, w, c.lastprio)
           n == Cardinality(Positions(c, Prios))
           old == Calendar(c)
           d == resize(c, size)
<1>0. d = copy(new, old, n)[n]
  BY DEF resize
<1>1. Shape(c) /\ Finite(c) /\ w \in Widths
  BY NewWidth DEF Sound
<1>2. /\ c.firstsub \in Nat /\ c.nbuckets \in Nat /\ c.nbuckets >= 2 /\ old \subseteq Cells
      /\ c.firstsub + c.nbuckets <= CALQSPACE /\ CALQSPACE \in Nat /\ size \in Nat /\ size >= 2
  BY <1>1, ShapeTypes, SizesNat, PriosNat DEF Shape
<1>3. /\ base \in Nat /\ base + size <= CALQSPACE
      /\ base = 0 \/ base = CALQSPACE - size
  BY <1>2
<1>4. \A x \in old : x \notin base .. base + size - 1
  <2>1. CASE c.firstsub = 0
    BY <1>2, <2>1 DEF Calendar
  <2>2. CASE c.firstsub # 0
    <3>1. c.firstsub = CALQSPACE - c.nbuckets /\ base = 0
      BY <2>2 DEF Placed
    <3> QED BY <1>2, <3>1 DEF Calendar
  <2> QED BY <2>1, <2>2
<1> HIDE DEF base, w
<1>5. /\ Shape(new) /\ new.firstsub = base /\ new.nbuckets = size /\ new.cwidth = w /\ new.qsize = 0
      /\ new.calq = c.calq /\ new.lastprio = c.lastprio /\ new.stray = 0
      /\ new.lastbucket = Index(w, size, c.lastprio)
      /\ new.buckettop = (2 * VirtualBucket(w, c.lastprio) + 3) * w.num
  BY <1>1, <1>3, <1>4, LocalInit
<1>6. Positions(c, Prios) = At(c.calq, old, Prios)
  BY DEF Positions, At
<1>7. \A x \in Cells \ old : c.calq[x] = <<>>
  BY DEF Sound
<1>8. At(c.calq, old, Prios) = At(c.calq, Cells, Prios)
  BY <1>2, <1>7, AtOnly
<1>9. n = Kept(c, Prios) /\ n \in Nat /\ n = c.qsize /\ n = Cardinality(At(c.calq, old, Prios))
  <2>1. n = Kept(c, Prios) /\ n = Cardinality(At(c.calq, old, Prios))
    BY <1>6, <1>8 DEF Kept
  <2>2. Kept(c, Prios) \in Nat
    BY <1>1, AtFinite DEF Kept
  <2>3. c.qsize = Kept(c, Prios) + 0
    BY DEF Sound
  <2>4. c.qsize = Kept(c, Prios)
    BY <2>2, <2>3
  <2> QED BY <2>1, <2>2, <2>4, Zenon
<1> HIDE DEF n, new, d
<1>10. Calendar(new) = base .. base + size - 1
  BY <1>5 DEF Calendar
<1>11. old \cap Calendar(new) = {} /\ old \in SUBSET Cells
  BY <1>2, <1>4, <1>10
<1> DEFINE R == Cells \ (Calendar(new) \cup old)
<1>12. Copying(new, old, n, new, 0)
  <2>1. Finite(new)
    BY <1>1, <1>5 DEF Finite
  <2>2. Cardinality(At(new.calq, R, Prios)) = 0
    <3>1. \A x \in R : new.calq[x] = <<>>
      BY <1>5, <1>7
    <3>2. new.calq \in [Cells -> Seq(Prios)] /\ R \subseteq Cells
      BY <1>5, ShapeTypes
    <3> HIDE DEF R
    <3> QED BY <2>1, <3>1, <3>2, AtNone
  <2>3. SameFrame(new, new)
    BY DEF SameFrame
  <2>4. Kept(new, Prios) = n
    BY <1>5, <1>9 DEF Kept
  <2>5. Cardinality(At(new.calq, old, Prios)) = n
    BY <1>5, <1>9
  <2> QED BY <1>5, <1>9, <2>1, <2>2, <2>3, <2>4, <2>5 DEF Copying
<1>13. Copying(new, old, n, d, n)
  BY <1>0, <1>9, <1>11, <1>12, CopyDone
<1>14. /\ Shape(d) /\ Finite(d) /\ SameFrame(new, d) /\ d.qsize = n
       /\ Cardinality(At(d.calq, old, Prios)) = n - n
       /\ Kept(d, Prios) + d.stray = n
       /\ new.cwidth.num >= 0 => \A P \in SUBSET Prios : Kept(d, P) = Kept(new, P)
       /\ Cardinality(At(d.calq, R, Prios)) = 0
  BY <1>13 DEF Copying
<1>15. /\ d.firstsub = base /\ d.nbuckets = size /\ d.cwidth = w /\ d.lastprio = c.lastprio
       /\ d.lastbucket = Index(w, size, c.lastprio)
       /\ d.buckettop = (2 * VirtualBucket(w, c.lastprio) + 3) * w.num
  BY <1>5, <1>14 DEF SameFrame
<1>16. Placed(d) /\ InPosition(d)
  BY <1>3, <1>15 DEF Placed, InPosition
<1>17. \A x \in Cells \ Calendar(d) : d.calq[x] = <<>>
  <2>1. d.calq \in [Cells -> Seq(Prios)] /\ R \subseteq Cells /\ Calendar(d) = Calendar(new)
    BY <1>5, <1>14, <1>15, ShapeTypes DEF Calendar
  <2>2. \A x \in R : d.calq[x] = <<>>
    <3> HIDE DEF R
    <3> QED BY <1>14, <2>1, AtNone
  <2>3. Cardinality(At(d.calq, old, Prios)) = 0
    BY <1>9, <1>14
  <2>4. \A x \in old : d.calq[x] = <<>>
    BY <1>11, <1>14, <2>1, <2>3, AtNone
  <2> QED BY <2>1, <2>2, <2>4
<1>18. Sound(d)
  <2>1. d.qsize = Kept(d, Prios) + d.stray
    BY <1>14
  <2> QED BY <1>14, <1>17, <2>1 DEF Sound
<1>19. d.cwidth.num >= 0 => \A P \in SUBSET Prios : Kept(d, P) = Kept(c, P)
  <2>1. \A P : Kept(new, P) = Kept(c, P)
    BY <1>5 DEF Kept
  <2> QED BY <1>5, <1>14, <1>15, <2>1
<1> QED BY <1>9, <1>14, <1>15, <1>16, <1>18, <1>19 DEF d

-----------------------------------------------------------------------------
(* The inductive invariant, through calqueue_put and calqueue_deq          *)

(* A calendar that shrinks has an even number of buckets to halve.         *)
LEMMA HalfSize ==
  ASSUME NEW n \in Sizes, n \div 2 - 2 > 0
  PROVE  n \div 2 \in Sizes /\ n = 2 * (n \div 2)
  BY DEF Sizes

(* A calendar that may grow can double.                                    *)
LEMMA TwiceSize ==
  ASSUME NEW n \in Sizes, NEW m \in Sizes, n < m
  PROVE  2 * n \in Sizes /\ 2 * n <= m
<1>2. n # 32768
  BY DEF Sizes
<1>3. 2 * n \in Sizes
  BY <1>2 DEF Sizes
<1>4. 2 * n <= m
  BY DEF Sizes
<1> QED BY <1>3, <1>4

(* The inductive invariant. The two conjuncts that are not about the       *)
(* events themselves say that the calendar has room for the puts of a copy *)
(* and that the search starts inside it.                                   *)
QueueInv(c) ==
  /\ Sound(c)
  /\ Placed(c)
  /\ c.nbuckets <= MAXNBUCKETS
  /\ c.qsize <= top_threshold(c) \/ c.nbuckets = MAXNBUCKETS
  /\ c.cwidth.num >= 0 => c.lastbucket \in 0 .. c.nbuckets - 1

(* The parts of the invariant that the steps below use.                    *)
LEMMA InvTypes ==
  ASSUME NEW c, QueueInv(c)
  PROVE  /\ Sound(c) /\ Shape(c) /\ Finite(c) /\ Placed(c) /\ c.nbuckets \in Sizes
         /\ c.nbuckets \in Nat /\ c.nbuckets >= 2 /\ c.nbuckets <= MAXNBUCKETS /\ MAXNBUCKETS \in Nat
         /\ MAXNBUCKETS \in Sizes
         /\ c.qsize \in Nat /\ c.lastprio \in Prios /\ c.lastprio \in Nat /\ 2 * MAXNBUCKETS <= CALQSPACE
         /\ CALQSPACE \in Nat
         /\ c.qsize <= 2 * c.nbuckets \/ c.nbuckets = MAXNBUCKETS
         /\ c.cwidth.num >= 0 => c.stray = 0 /\ c.lastbucket \in 0 .. c.nbuckets - 1
<1>1. Sound(c) /\ Shape(c) /\ Finite(c) /\ Placed(c)
  BY DEF QueueInv, Sound
<1>2. MAXNBUCKETS \in Sizes /\ MAXNBUCKETS \in Nat /\ 2 * MAXNBUCKETS <= CALQSPACE
  BY CalQueueAssumption, SizesNat
<1>3. /\ c.nbuckets \in Sizes /\ c.nbuckets \in Nat /\ c.nbuckets >= 2 /\ c.qsize \in Nat
      /\ c.lastprio \in Prios /\ c.lastprio \in Nat
  BY <1>1, ShapeTypes
<1>4. /\ c.nbuckets <= MAXNBUCKETS
      /\ c.qsize <= 2 * c.nbuckets \/ c.nbuckets = MAXNBUCKETS
      /\ c.cwidth.num >= 0 => c.lastbucket \in 0 .. c.nbuckets - 1
  BY DEF QueueInv, top_threshold
<1>5. c.cwidth.num >= 0 => c.stray = 0
  BY <1>1 DEF Shape
<1> QED BY <1>1, <1>2, <1>3, <1>4, <1>5, PriosNat

(* A resize gives a calendar with room for all.                            *)
LEMMA ResizeInv ==
  ASSUME NEW c, Sound(c), Placed(c), c.stray = 0, NEW size \in Sizes,
         c.nbuckets + size <= CALQSPACE, size <= MAXNBUCKETS, c.qsize <= 2 * size
  PROVE  QueueInv(resize(c, size))
<1> DEFINE d == resize(c, size)
<1>1. Sound(d) /\ Placed(d) /\ InPosition(d) /\ d.qsize = c.qsize /\ d.nbuckets = size
  BY ResizeDone
<1> HIDE DEF d
<1>2. d.cwidth \in Widths /\ d.nbuckets \in Nat \ {0} /\ d.lastprio \in Nat
  BY <1>1, ShapeTypes DEF Sound
<1>3. d.cwidth.num >= 0 => d.lastbucket \in 0 .. d.nbuckets - 1
  <2> SUFFICES ASSUME d.cwidth.num >= 0 PROVE d.lastbucket \in 0 .. d.nbuckets - 1
    OBVIOUS
  <2>1. Index(d.cwidth, d.nbuckets, d.lastprio) \in 0 .. d.nbuckets - 1
    BY <1>2, IndexNat
  <2> QED BY <1>1, <2>1 DEF InPosition
<1>4. d.nbuckets <= MAXNBUCKETS /\ d.qsize <= top_threshold(d)
  BY <1>1 DEF top_threshold
<1> QED BY <1>1, <1>3, <1>4 DEF QueueInv, d

(* calqueue_put, with its resize, keeps the invariant and adds the event,  *)
(* and leaves the search position alone or resets it.                      *)
LEMMA PutDone ==
  ASSUME NEW c, QueueInv(c), c.cwidth.num >= 0, NEW p \in Prios
  PROVE  LET d == calqueue_put(c, p)
         IN  /\ QueueInv(d) /\ d.qsize = c.qsize + 1 /\ d.lastprio = c.lastprio
             /\ d.cwidth.num >= 0 =>
                  \A P \in SUBSET Prios : Kept(d, P) = Kept(c, P) + (IF p \in P THEN 1 ELSE 0)
             /\ SameFrame(c, d) \/ InPosition(d)
<1> DEFINE r == insert(c, p)
           d == calqueue_put(c, p)
<1>1. /\ Sound(c) /\ Placed(c) /\ Shape(c) /\ c.nbuckets \in Sizes /\ c.nbuckets <= MAXNBUCKETS
      /\ MAXNBUCKETS \in Nat /\ c.qsize \in Nat /\ c.stray = 0
      /\ c.nbuckets \in Nat /\ c.nbuckets >= 2 /\ 2 * MAXNBUCKETS <= CALQSPACE /\ CALQSPACE \in Nat
      /\ c.qsize <= 2 * c.nbuckets \/ c.nbuckets = MAXNBUCKETS
      /\ MAXNBUCKETS \in Sizes /\ c.lastbucket \in 0 .. c.nbuckets - 1
  BY InvTypes
<1>2. Sound(r) /\ \A P \in SUBSET Prios : Kept(r, P) = Kept(c, P) + (IF p \in P THEN 1 ELSE 0)
  BY <1>1, InsertSound
<1>3. SameFrame(c, r) /\ r.qsize = c.qsize + 1 /\ Shape(r)
  BY <1>1, InsertDone
<1>4. d = IF r.qsize > 2 * r.nbuckets /\ r.nbuckets < MAXNBUCKETS THEN resize(r, 2 * r.nbuckets) ELSE r
  BY DEF calqueue_put, top_threshold
<1> HIDE DEF r, d
<1>5. /\ r.nbuckets = c.nbuckets /\ r.firstsub = c.firstsub /\ r.cwidth = c.cwidth
      /\ r.lastprio = c.lastprio /\ r.lastbucket = c.lastbucket
  BY <1>3 DEF SameFrame
<1>6. r.stray = 0 /\ Placed(r)
  BY <1>1, <1>3, <1>5 DEF Shape, Placed
<1>7. CASE ~(r.qsize > 2 * r.nbuckets /\ r.nbuckets < MAXNBUCKETS)
  <2>1. d = r
    BY <1>4, <1>7
  <2>2. r.qsize <= top_threshold(r) \/ r.nbuckets = MAXNBUCKETS
    BY <1>1, <1>3, <1>5, <1>7 DEF top_threshold
  <2>3. QueueInv(r)
    BY <1>1, <1>2, <1>5, <1>6, <2>2 DEF QueueInv
  <2> QED BY <1>2, <1>3, <1>5, <2>1, <2>3 DEF d
<1>8. CASE r.qsize > 2 * r.nbuckets /\ r.nbuckets < MAXNBUCKETS
  <2> DEFINE size == 2 * c.nbuckets
  <2>1. size \in Sizes /\ size <= MAXNBUCKETS
    BY <1>1, <1>5, <1>8, TwiceSize
  <2>2. r.nbuckets + size <= CALQSPACE /\ r.qsize <= 2 * size
    BY <1>1, <1>3, <1>5, <1>8, <2>1
  <2>3. d = resize(r, size)
    BY <1>4, <1>5, <1>8
  <2> HIDE DEF size
  <2>4. QueueInv(d)
    BY <1>2, <1>6, <2>1, <2>2, <2>3, ResizeInv
  <2>5. /\ InPosition(d) /\ d.qsize = r.qsize /\ d.lastprio = r.lastprio
        /\ d.cwidth.num >= 0 => \A P \in SUBSET Prios : Kept(d, P) = Kept(r, P)
    BY <1>2, <1>6, <2>1, <2>2, <2>3, ResizeDone
  <2>6. d.cwidth.num >= 0 =>
          \A P \in SUBSET Prios : Kept(d, P) = Kept(c, P) + (IF p \in P THEN 1 ELSE 0)
    BY <1>2, <2>5
  <2> QED BY <1>3, <1>5, <2>4, <2>5, <2>6 DEF d
<1> QED BY <1>7, <1>8

(* calqueue_deq, with its resize, keeps the invariant and removes the      *)
(* event its search found.                                                 *)
LEMMA DeqDone ==
  ASSUME NEW c, QueueInv(c), c.cwidth.num >= 0, c.qsize > 0
  PROVE  LET d == calqueue_deq(c).queue
             e == calqueue_deq(c).event
         IN  /\ e = take(c).event /\ e = First(c, Bucket(c)) /\ e \in Prios
             /\ QueueInv(d) /\ d.qsize = c.qsize - 1 /\ d.lastprio = e
             /\ d.cwidth.num >= 0 =>
                  \A P \in SUBSET Prios : Kept(c, P) = Kept(d, P) + (IF e \in P THEN 1 ELSE 0)
             /\ d = take(c).queue \/ InPosition(d)
<1> DEFINE t == take(c)
           r == take(c).queue
           e == take(c).event
           d == calqueue_deq(c).queue
<1>1. /\ Sound(c) /\ Placed(c) /\ Shape(c) /\ c.nbuckets \in Sizes /\ c.nbuckets <= MAXNBUCKETS
      /\ MAXNBUCKETS \in Nat /\ c.qsize \in Nat /\ c.stray = 0
      /\ c.nbuckets \in Nat /\ c.nbuckets >= 2 /\ 2 * MAXNBUCKETS <= CALQSPACE /\ CALQSPACE \in Nat
      /\ c.qsize <= 2 * c.nbuckets \/ c.nbuckets = MAXNBUCKETS
  BY InvTypes
<1>2. Nonempty(c) # {}
  BY <1>1, HeldNonempty
<1>3. /\ Sound(r) /\ e \in Prios
      /\ \A P \in SUBSET Prios : Kept(c, P) = Kept(r, P) + (IF e \in P THEN 1 ELSE 0)
  BY <1>1, TakeSound
<1>4. /\ e = First(c, Bucket(c)) /\ r.firstsub = c.firstsub /\ r.nbuckets = c.nbuckets
      /\ r.qsize = c.qsize - 1 /\ r.stray = c.stray /\ r.lastprio = e /\ r.lastbucket = Bucket(c)
  BY <1>1, <1>2, TakeDone
<1>5. Bucket(c) \in 0 .. c.nbuckets - 1
  BY <1>1, <1>2, Searched DEF Nonempty
<1>6. calqueue_deq(c).event = e
      /\ d = IF r.qsize < r.nbuckets \div 2 - 2 THEN resize(r, r.nbuckets \div 2) ELSE r
  <2>1. t = [event |-> t.event, queue |-> t.queue]
    BY DEF take
  <2>2. calqueue_deq(c) =
          [t EXCEPT !.queue = IF @.qsize < @.nbuckets \div 2 - 2 THEN resize(@, @.nbuckets \div 2) ELSE @]
    BY DEF calqueue_deq, bot_threshold
  <2> HIDE DEF t
  <2> DEFINE u == t.event
             v == t.queue
             z == IF v.qsize < v.nbuckets \div 2 - 2 THEN resize(v, v.nbuckets \div 2) ELSE v
  <2>3. t = [event |-> u, queue |-> v] /\ calqueue_deq(c) = [t EXCEPT !.queue = z]
    BY <2>1, <2>2
  <2> HIDE DEF u, v, z
  <2>4. calqueue_deq(c) = [event |-> u, queue |-> z]
    BY <2>3
  <2>5. calqueue_deq(c).event = u /\ calqueue_deq(c).queue = z
    BY <2>4
  <2> QED BY <2>5 DEF t, u, v, z
<1>7. r.stray = 0 /\ Placed(r) /\ r.qsize \in Nat
  BY <1>1, <1>4 DEF Placed
<1> HIDE DEF r, e, d
<1>8. CASE ~(r.qsize < r.nbuckets \div 2 - 2)
  <2>1. d = r
    BY <1>6, <1>8
  <2>2. QueueInv(r)
    BY <1>1, <1>3, <1>4, <1>5, <1>7 DEF QueueInv, top_threshold
  <2> QED BY <1>3, <1>4, <1>6, <2>1, <2>2 DEF r, d, e
<1>9. CASE r.qsize < r.nbuckets \div 2 - 2
  <2> DEFINE size == r.nbuckets \div 2
  <2>1. r.nbuckets \div 2 - 2 > 0
    BY <1>1, <1>4, <1>7, <1>9
  <2>2. size \in Sizes /\ r.nbuckets = 2 * size
    BY <1>1, <1>4, <2>1, HalfSize
  <2>3. d = resize(r, size)
    BY <1>6, <1>9
  <2>4. r.qsize < size - 2
    BY <1>9
  <2> HIDE DEF size
  <2>5. size \in Nat
    BY <2>2, SizesNat
  <2>6. r.nbuckets + size <= CALQSPACE /\ size <= MAXNBUCKETS /\ r.qsize <= 2 * size
    BY <1>1, <1>4, <1>7, <2>2, <2>4, <2>5
  <2>7. QueueInv(d)
    BY <1>3, <1>7, <2>2, <2>3, <2>6, ResizeInv
  <2>8. /\ InPosition(d) /\ d.qsize = r.qsize /\ d.lastprio = r.lastprio
        /\ d.cwidth.num >= 0 => \A P \in SUBSET Prios : Kept(d, P) = Kept(r, P)
    BY <1>3, <1>7, <2>2, <2>3, <2>6, ResizeDone
  <2>9. d.cwidth.num >= 0 =>
          \A P \in SUBSET Prios : Kept(c, P) = Kept(d, P) + (IF e \in P THEN 1 ELSE 0)
    BY <1>3, <2>8
  <2> QED BY <1>3, <1>4, <1>6, <2>7, <2>8, <2>9 DEF r, d, e
<1> QED BY <1>8, <1>9

-----------------------------------------------------------------------------
(* The search: when it is in step it finds an earliest event               *)

(* NothingBefore counts.                                                   *)
LEMMA NothingBeforeKept ==
  ASSUME NEW c, Sound(c), NEW p \in Prios
  PROVE  NothingBefore(c, p) <=> Kept(c, Earlier(p)) = 0
<1>1. Shape(c) /\ Finite(c) /\ c.calq \in [Cells -> Seq(Prios)] /\ Calendar(c) \subseteq Cells
  BY ShapeTypes DEF Sound
<1>2. Positions(c, Prios) = At(c.calq, Calendar(c), Prios)
  BY DEF Positions, At
<1>3. At(c.calq, Calendar(c), Prios) = At(c.calq, Cells, Prios)
  BY <1>1, AtOnly DEF Sound
<1>4. ASSUME NEW i \in Cells, NEW j \in DOMAIN c.calq[i] PROVE <<i, j>> \in Positions(c, Prios)
  <2>1. c.calq[i] \in Seq(Prios)
    BY <1>1
  <2>2. c.calq[i][j] \in Prios
    BY <2>1
  <2>3. <<i, j>> \in At(c.calq, Cells, Prios)
    BY <2>2, AtPairs
  <2> QED BY <1>2, <1>3, <2>3
<1>5. ASSUME NEW x \in Positions(c, Prios) PROVE x[1] \in Cells /\ x[2] \in DOMAIN c.calq[x[1]]
  <2>1. x \in At(c.calq, Cells, Prios)
    BY <1>2, <1>3
  <2>2. x = <<x[1], x[2]>>
    BY <2>1, AtPairs
  <2>3. <<x[1], x[2]>> \in At(c.calq, Cells, Prios)
    BY <2>1, <2>2
  <2> QED BY <2>3, AtPairs
<1>6. NothingBefore(c, p) <=> \A i \in Cells : \A j \in DOMAIN c.calq[i] : p <= c.calq[i][j]
  <2>1. ASSUME NothingBefore(c, p), NEW i \in Cells, NEW j \in DOMAIN c.calq[i] PROVE p <= c.calq[i][j]
    <3>1. <<i, j>> \in Positions(c, Prios)
      BY <1>4
    <3>2. p <= c.calq[<<i, j>>[1]][<<i, j>>[2]]
      BY <2>1, <3>1 DEF NothingBefore
    <3> QED BY <3>2
  <2>2. ASSUME \A i \in Cells : \A j \in DOMAIN c.calq[i] : p <= c.calq[i][j] PROVE NothingBefore(c, p)
    BY <1>5, <2>2 DEF NothingBefore
  <2> QED BY <2>1, <2>2
<1> QED BY <1>1, <1>6, NoneEarlier

(* Only the first events of the buckets matter.                            *)
LEMMA NothingBeforeFirst ==
  ASSUME NEW c, Sound(c), NEW p \in Prios
  PROVE  NothingBefore(c, p) <=> \A i \in Nonempty(c) : p <= First(c, i)
<1>1. Shape(c) /\ Finite(c) /\ c.calq \in [Cells -> Seq(Prios)]
  BY ShapeTypes DEF Sound
<1>2. NothingBefore(c, p) <=> \A i \in Cells : \A j \in DOMAIN c.calq[i] : p <= c.calq[i][j]
  BY <1>1, NothingBeforeKept, NoneEarlier
<1>3. ASSUME \A i \in Cells : \A j \in DOMAIN c.calq[i] : p <= c.calq[i][j], NEW i \in Nonempty(c)
      PROVE  p <= First(c, i)
  <2>1. c.firstsub + i \in Cells /\ First(c, i) = c.calq[c.firstsub + i][1]
        /\ c.calq[c.firstsub + i] \in Seq(Prios) /\ c.calq[c.firstsub + i] # <<>>
    BY <1>1, FirstOf
  <2>2. 1 \in DOMAIN c.calq[c.firstsub + i]
    BY <2>1
  <2> QED BY <1>3, <2>1, <2>2
<1>4. ASSUME \A i \in Nonempty(c) : p <= First(c, i), NEW x \in Cells, NEW j \in DOMAIN c.calq[x]
      PROVE  p <= c.calq[x][j]
  <2>1. c.calq[x] \in Seq(Prios)
    BY <1>1
  <2>2. c.calq[x] # <<>> /\ c.calq[x][j] \in Prios
    BY <2>1
  <2>3. x \in Calendar(c)
    BY <2>2 DEF Sound
  <2>4. x - c.firstsub \in 0 .. c.nbuckets - 1 /\ c.firstsub + (x - c.firstsub) = x
    <3>1. x - c.firstsub \in 0 .. c.nbuckets - 1 /\ c.firstsub \in Nat
      BY <1>1, <2>3, ShapeTypes
    <3> QED BY <3>1 DEF Cells
  <2> DEFINE i == x - c.firstsub
  <2>5. i \in Nonempty(c) /\ c.firstsub + i = x
    BY <2>2, <2>4 DEF Nonempty
  <2> HIDE DEF i
  <2>6. First(c, i) \in Nat /\ First(c, i) <= c.calq[x][j] /\ p <= First(c, i)
    BY <1>1, <1>4, <2>5, FirstOf
  <2> DEFINE f == First(c, i)
             e == c.calq[x][j]
  <2>7. f \in Nat /\ e \in Nat /\ p \in Nat /\ f <= e /\ p <= f
    BY <2>2, <2>6, PriosNat
  <2> HIDE DEF f, e
  <2>8. p <= e
    BY <2>7
  <2> QED BY <2>8 DEF e
<1> QED BY <1>2, <1>3, <1>4

(* The round of the search visits the bucket of a timestamp on its day.    *)
LEMMA BeforeTopBound ==
  ASSUME NEW w \in Widths, w.num > 0, NEW n \in Nat, NEW k \in Nat, NEW p \in Nat,
         2 * w.den * p < (2 * n + 3) * w.num + 2 * k * w.num
  PROVE  VirtualBucket(w, p) <= n + k + 1
<1> DEFINE v == VirtualBucket(w, p)
           N == w.num
           x == p * w.den
<1>1. v \in Nat /\ N * v <= x /\ N \in Nat /\ N > 0 /\ w.den \in Nat /\ x \in Nat
  <2>1. v \in Nat /\ N * v <= x
    BY VirtualNat
  <2>2. N \in Nat /\ N > 0 /\ w.den \in Nat
    BY DEF Widths
  <2>3. x \in Nat
    BY <2>2
  <2> QED BY <2>1, <2>2, <2>3
<1>2. 2 * x < (2 * n + 3) * N + 2 * k * N
  <2>1. 2 * w.den * p = 2 * x
    BY <1>1
  <2> QED BY <2>1
<1> HIDE DEF v, N, x
<1>3. (2 * n + 3) * N + 2 * k * N = 2 * (N * n) + 2 * (N * k) + 3 * N
  BY <1>1
<1>4. ~(v >= n + k + 2)
  <2> SUFFICES ASSUME v >= n + k + 2 PROVE FALSE
    OBVIOUS
  <2>1. N * (n + k + 2) <= N * v
    BY <1>1, TimesMonotone
  <2>2. N * (n + k + 2) = N * n + N * k + 2 * N
    BY <1>1
  <2> DEFINE a == N * n
             b == N * k
             d == N * v
  <2>3. a \in Int /\ b \in Int /\ d \in Int
    BY <1>1
  <2>4. a + b + 2 * N <= d /\ d <= x /\ 2 * x < 2 * a + 2 * b + 3 * N
    BY <1>1, <1>2, <1>3, <2>1, <2>2
  <2> HIDE DEF a, b, d
  <2> QED BY <1>1, <2>3, <2>4
<1> QED BY <1>1, <1>4 DEF v

(* On the day of its own virtual bucket an event is before the top.        *)
LEMMA OwnDay ==
  ASSUME NEW w \in Widths, w.num > 0, NEW n \in Nat, NEW k \in Nat, NEW p \in Nat,
         VirtualBucket(w, p) = n + k
  PROVE  2 * w.den * p < (2 * n + 3) * w.num + 2 * k * w.num
<1> DEFINE v == VirtualBucket(w, p)
           N == w.num
           x == p * w.den
<1>1. x < N * v + N /\ N \in Nat /\ N > 0 /\ w.den \in Nat /\ x \in Nat /\ v = n + k
  <2>1. x < N * v + N
    BY VirtualNat
  <2>2. N \in Nat /\ N > 0 /\ w.den \in Nat
    BY DEF Widths
  <2>3. x \in Nat
    BY <2>2
  <2> QED BY <2>1, <2>2, <2>3
<1>2. 2 * w.den * p = 2 * x
  BY <1>1
<1> HIDE DEF v, N, x
<1>3. (2 * n + 3) * N + 2 * k * N = 2 * (N * n) + 2 * (N * k) + 3 * N
  BY <1>1
<1>4. N * v = N * n + N * k
  BY <1>1
<1>5. N * n \in Int /\ N * k \in Int
  BY <1>1
<1>6. 2 * x < (2 * n + 3) * N + 2 * k * N
  BY <1>1, <1>3, <1>4, <1>5
<1> QED BY <1>2, <1>6 DEF N

(* calqueue_deq finds a first event in the calendar.                       *)
LEMMA SearchDone ==
  ASSUME NEW c, Sound(c), c.cwidth.num > 0, InStep(c), Due(c) # {}
  PROVE  LET n == VirtualBucket(c.cwidth, c.lastprio)
             e == First(c, Bucket(c))
         IN  /\ n \in Nat /\ Steps(c) \in Nat
             /\ VirtualBucket(c.cwidth, e) = n + Steps(c)
             /\ Bucket(c) = (n + Steps(c)) % c.nbuckets
             /\ \A i \in Nonempty(c) : e <= First(c, i)
<1> DEFINE w == c.cwidth
           m == c.nbuckets
           n == VirtualBucket(w, c.lastprio)
           k == Min(Due(c))
           i == Day(c, k)
           e == First(c, i)
           v == VirtualBucket(w, e)
<1>1. /\ Shape(c) /\ w \in Widths /\ m \in Nat \ {0} /\ m >= 2 /\ c.lastprio \in Prios
      /\ c.lastprio \in Nat /\ w.num >= 0 /\ w.num > 0
  BY ShapeTypes DEF Sound
<1>2. Steps(c) = k /\ Bucket(c) = i
  BY DEF Steps, Bucket
<1>3. k \in Due(c) /\ \A y \in Due(c) : k <= y
  <2>1. Due(c) \subseteq Nat
    BY <1>1 DEF Due
  <2> QED BY <2>1, MinIn
<1>4. k \in 0 .. m - 1 /\ k \in Nat /\ i \in Nonempty(c) /\ BeforeTop(c, e, k)
  BY <1>1, <1>3 DEF Due
<1>5. n \in Nat /\ c.lastbucket = n % m /\ c.buckettop = (2 * n + 3) * w.num
  <2>1. n \in Nat
    BY <1>1, VirtualNat
  <2>2. c.lastbucket = Rem(n, m) /\ c.buckettop = (2 * n + 3) * w.num
    BY <1>1 DEF InStep
  <2>3. Rem(n, m) = n % m
    <3> HIDE DEF n, m
    <3> QED BY <1>1, <2>1, QuotNat
  <2> QED BY <2>1, <2>2, <2>3
<1>6. ASSUME NEW j \in Nonempty(c)
      PROVE  /\ First(c, j) \in Nat /\ VirtualBucket(w, First(c, j)) \in Nat
             /\ VirtualBucket(w, First(c, j)) % m = j
             /\ n <= VirtualBucket(w, First(c, j))
  <2> DEFINE f == First(c, j)
  <2>1. f \in Nat /\ Index(w, m, f) = j
    BY <1>1, FirstOf
  <2>2. c.lastprio <= f
    BY <1>1, NothingBeforeFirst DEF InStep
  <2> HIDE DEF f
  <2>3. VirtualBucket(w, f) \in Nat /\ Index(w, m, f) = VirtualBucket(w, f) % m
    BY <1>1, <2>1, IndexNat
  <2>4. n <= VirtualBucket(w, f)
    BY <1>1, <2>1, <2>2, VirtualMonotone
  <2> QED BY <2>1, <2>3, <2>4 DEF f
<1>7. ASSUME NEW h \in Nat PROVE Day(c, h) = (n + h) % m
  <2>1. Day(c, h) = ((n % m) + h) % m
    BY <1>5 DEF Day
  <2> HIDE DEF n, m
  <2> QED BY <1>1, <1>5, <2>1, ModShift
<1> HIDE DEF k, i
<1>8. e \in Nat /\ v \in Nat /\ v % m = i /\ n <= v /\ i = (n + k) % m
  BY <1>4, <1>6, <1>7 DEF i
<1>9. v <= n + k + 1
  <2>1. 2 * w.den * e < (2 * n + 3) * w.num + 2 * k * w.num
    BY <1>4, <1>5 DEF BeforeTop
  <2> HIDE DEF n, w, e
  <2> QED BY <1>1, <1>4, <1>5, <1>8, <2>1, BeforeTopBound
<1> HIDE DEF n, w, m, e, v
<1>10. v = n + k
  <2>0. n + k \in Nat /\ v % m = (n + k) % m
    BY <1>4, <1>5, <1>8
  <2>1. CASE v >= n + k
    <3>1. n + k <= v /\ v < (n + k) + m
      BY <1>1, <1>4, <1>5, <1>8, <1>9, <2>1
    <3> DEFINE y == n + k
    <3> HIDE DEF y
    <3>2. y = v
      BY <1>1, <1>8, <2>0, <3>1, ModUnique DEF y
    <3> QED BY <3>2 DEF y
  <2>2. CASE v < n + k
    <3>1. v <= n + k /\ n + k < v + m
      BY <1>1, <1>4, <1>5, <1>8, <2>2
    <3> DEFINE y == n + k
    <3> HIDE DEF y
    <3>2. v = y
      BY <1>1, <1>8, <2>0, <3>1, ModUnique DEF y
    <3> QED BY <3>2 DEF y
  <2> QED BY <1>4, <1>5, <1>8, <2>1, <2>2
<1>11. ASSUME NEW j \in Nonempty(c) PROVE e <= First(c, j)
  <2> DEFINE f == First(c, j)
             u == VirtualBucket(w, f)
             h == u - n
  <2>1. f \in Nat /\ u \in Nat /\ u % m = j /\ n <= u
    BY <1>6 DEF w, m, n
  <2>2. h \in Nat /\ n + h = u
    BY <1>5, <2>1
  <2>3. SUFFICES ASSUME f < e PROVE FALSE
    BY <1>8, <2>1
  <2> HIDE DEF f
  <2>4. u <= v
    BY <1>1, <1>8, <2>1, <2>3, VirtualMonotone DEF v
  <2> HIDE DEF u
  <2>5. h <= k
    BY <1>4, <1>5, <1>8, <1>10, <2>1, <2>4
  <2> HIDE DEF h
  <2>6. Day(c, h) = j
    BY <1>7, <2>1, <2>2 DEF n, m
  <2>7. CASE h = k
    <3>1. j = i
      BY <2>6, <2>7 DEF i
    <3>2. f = e
      BY <3>1 DEF f, e
    <3> QED BY <1>8, <2>1, <2>3, <3>2
  <2>8. CASE h # k
    <3>1. h < k /\ h \in 0 .. m - 1
      BY <1>1, <1>4, <2>2, <2>5, <2>8
    <3>2. h \notin Due(c)
      BY <1>3, <1>4, <2>2, <3>1
    <3>3. ~BeforeTop(c, f, h)
      BY <2>6, <3>1, <3>2 DEF Due, f, m
    <3>4. 2 * w.den * f < (2 * n + 3) * w.num + 2 * h * w.num
      BY <1>1, <1>5, <2>1, <2>2, OwnDay DEF u
    <3>5. BeforeTop(c, f, h)
      BY <1>1, <1>5, <3>4 DEF BeforeTop, w
    <3> QED BY <3>3, <3>5
  <2> QED BY <2>7, <2>8
<1> QED BY <1>2, <1>4, <1>5, <1>8, <1>10, <1>11 DEF n, w, m, e, v, i, k

-----------------------------------------------------------------------------
(* The theorems about every state and step                                 *)

(* The invariant of the specification: the model's "now" is lastprio.      *)
Inv == QueueInv(q) /\ got = q.lastprio

(* calqueue_init gives an empty queue whose search position is 0.          *)
LEMMA InitQueue == QueueInv(calqueue_init) /\ calqueue_init.lastprio = 0
                   /\ (\A i \in Cells : calqueue_init.calq[i] = <<>>)
                   /\ InPosition(calqueue_init)
<1> DEFINE a == [i \in Cells |-> <<>>]
           w == [num |-> TICKS, den |-> 1]
           c == [firstsub |-> 0, nbuckets |-> 2, cwidth |-> w, qsize |-> 0, calq |-> a,
                 lastprio |-> 0, lastbucket |-> 0, buckettop |-> 3 * TICKS, stray |-> 0]
<1>1. TICKS \in Nat \ {0} /\ CALQSPACE \in Nat /\ CALQSPACE >= 4 /\ 2 \in Sizes /\ MAXNBUCKETS >= 2
      /\ 0 \in Prios
  BY CalQueueAssumption, SizesNat DEF Sizes, Prios
<1>2. w \in Widths /\ w.num = TICKS /\ w.den = 1 /\ VirtualBucket(w, 0) = 0 /\ Rem(0, 2) = 0
  <2>1. w \in Widths /\ w.num = TICKS /\ w.den = 1
    BY <1>1 DEF Widths
  <2>2. 0 \div TICKS = 0
    BY <1>1, DivisionUnique
  <2>3. VirtualBucket(w, 0) = 0
    BY <1>1, <2>1, <2>2 DEF VirtualBucket, Quot, Abs
  <2>4. Rem(0, 2) = 0
    BY DEF Rem, Quot, Abs
  <2> QED BY <2>1, <2>3, <2>4
<1>3. a \in [Cells -> Seq(Prios)]
  OBVIOUS
<1>4. calqueue_init = c
  <2>1. [i \in DOMAIN a |-> IF i \in 0 .. 0 + 2 - 1 THEN <<>> ELSE a[i]] = a
    OBVIOUS
  <2>2. (2 * VirtualBucket(w, 0) + 3) * w.num = 3 * TICKS
    BY <1>1, <1>2
  <2> DEFINE r == [firstsub |-> 0, nbuckets |-> 0, cwidth |-> [num |-> 0, den |-> 0], qsize |-> 0,
                   calq |-> a, lastprio |-> 0, lastbucket |-> 0, buckettop |-> 0, stray |-> 0]
  <2>3. calqueue_init = localinit(r, 0, 2, w, 0)
    BY DEF calqueue_init, Cells
  <2> HIDE DEF w, a
  <2>4. r.calq = a
    OBVIOUS
  <2> HIDE DEF r
  <2>5. localinit(r, 0, 2, w, 0) =
          [r EXCEPT !.firstsub = 0, !.nbuckets = 2, !.cwidth = w, !.qsize = 0, !.calq = a,
                    !.lastprio = 0, !.lastbucket = 0, !.buckettop = 3 * TICKS]
    BY <1>2, <2>1, <2>2, <2>4 DEF localinit
  <2> QED BY <2>3, <2>5 DEF r
<1> HIDE DEF w, a
<1>5. c \in Calqs
  <2>1. 3 * TICKS \in Int
    BY <1>1
  <2> QED BY <1>1, <1>2, <1>3, <2>1 DEF Calqs
<1>6. \A i \in Cells : a[i] = <<>> /\ DOMAIN a[i] = {}
  BY DEF a
<1>7. \A i \in 0 .. 1 : i \in Cells
  BY <1>1 DEF Cells
<1>8. Shape(c)
  <2>1. \A i \in Cells : SortedSeq(c.calq[i])
    BY <1>6 DEF SortedSeq
  <2>2. \A i \in 0 .. c.nbuckets - 1, j \in Nat : j \notin DOMAIN c.calq[c.firstsub + i]
    BY <1>6, <1>7
  <2> QED BY <1>1, <1>5, <2>1, <2>2 DEF Shape
<1>9. At(a, Cells, Prios) = {}
  <2>1. ASSUME NEW x \in At(a, Cells, Prios) PROVE FALSE
    <3>1. x = <<x[1], x[2]>>
      BY AtPairs
    <3>2. x[1] \in Cells /\ x[2] \in DOMAIN a[x[1]]
      BY <3>1, AtPairs
    <3> QED BY <1>6, <3>2
  <2> QED BY <2>1
<1>10. Finite(c) /\ Kept(c, Prios) = 0
  BY <1>9, FS_EmptySet DEF Finite, Kept
<1>11. Sound(c)
  BY <1>6, <1>8, <1>10 DEF Sound
<1>12. QueueInv(c)
  BY <1>1, <1>11 DEF QueueInv, Placed, top_threshold
<1>13. InPosition(c)
  BY <1>1, <1>2 DEF InPosition, Index
<1> QED BY <1>4, <1>6, <1>12, <1>13

(* The invariant holds of the initial queue.                               *)
LEMMA InvInit == Init => Inv
  BY InitQueue DEF Init, Inv

(* Every put and every get keeps it.                                       *)
LEMMA InvNext == Inv /\ [Next]_<<q, got>> => Inv'
<1> SUFFICES ASSUME Inv, [Next]_<<q, got>> PROVE Inv'
  OBVIOUS
<1>1. QueueInv(q) /\ got = q.lastprio
  BY DEF Inv
<1>2. ASSUME NEW p \in Prios, Put(p) PROVE Inv'
  <2>1. q.cwidth.num >= 0 /\ q' = calqueue_put(q, p) /\ got' = got
    BY <1>2 DEF Put, Defined
  <2>2. QueueInv(q') /\ q'.lastprio = q.lastprio
    BY <1>1, <2>1, PutDone
  <2> QED BY <1>1, <2>1, <2>2 DEF Inv
<1>3. CASE Get
  <2>1. q.cwidth.num >= 0 /\ q.qsize > 0 /\ q' = calqueue_deq(q).queue /\ got' = calqueue_deq(q).event
    BY <1>3 DEF Get, Defined
  <2>2. QueueInv(q') /\ q'.lastprio = got'
    BY <1>1, <2>1, DeqDone
  <2> QED BY <2>2 DEF Inv
<1>4. CASE UNCHANGED <<q, got>>
  BY <1>1, <1>4 DEF Inv
<1> QED BY <1>2, <1>3, <1>4 DEF Next

(* It holds of every state.                                                *)
LEMMA InvHolds == Spec => []Inv
  BY InvInit, InvNext, PTL DEF Spec

(* qsize, from which calqueue_deq tells an empty queue and both thresholds *)
(* are tested, is the number of events in the array and of those a         *)
(* negative width put outside it, whatever calqueue_put, calqueue_get and  *)
(* their resizes have done before.                                         *)
THEOREM CountedHolds == Spec => []Counted
<1>1. Inv => Counted
  <2> SUFFICES ASSUME Inv PROVE Counted
    OBVIOUS
  <2>1. Sound(q) /\ Shape(q)
    BY DEF Inv, QueueInv, Sound
  <2>2. Positions(q, Prios) = At(q.calq, Calendar(q), Prios)
    BY DEF Positions, At
  <2>3. At(q.calq, Calendar(q), Prios) = At(q.calq, Cells, Prios)
    <3>1. Calendar(q) \subseteq Cells
      BY <2>1, ShapeTypes
    <3> QED BY <2>1, <3>1, AtOnly DEF Sound
  <2> QED BY <2>1, <2>2, <2>3 DEF Counted, Sound, Kept
<1> QED BY <1>1, InvHolds, PTL

(* While a calendar can still grow it holds at most two events to a        *)
(* bucket; so the puts of the copy in resize never start another resize,   *)
(* which would run on the half-copied calendar.                            *)
THEOREM FitsHolds == Spec => []Fits
<1>1. Inv => Fits
  BY DEF Inv, QueueInv, Fits
<1> QED BY <1>1, InvHolds, PTL

(* A step that leaves fewer events is a calqueue_get.                      *)
LEMMA GetStep ==
  ASSUME Inv, [Next]_<<q, got>>, q'.qsize < q.qsize
  PROVE  q.cwidth.num >= 0 /\ q.qsize > 0 /\ q' = calqueue_deq(q).queue /\ got' = calqueue_deq(q).event
<1>0. QueueInv(q) /\ q.qsize \in Nat
  BY InvTypes DEF Inv
<1>1. ASSUME NEW p \in Prios, Put(p) PROVE FALSE
  <2>1. q.cwidth.num >= 0 /\ q' = calqueue_put(q, p)
    BY <1>1 DEF Put, Defined
  <2>2. q'.qsize = q.qsize + 1
    BY <1>0, <2>1, PutDone
  <2> QED BY <1>0, <2>2
<1>2. ~UNCHANGED <<q, got>>
  BY <1>0
<1>3. Get
  BY <1>1, <1>2 DEF Next
<1> QED BY <1>3 DEF Get, Defined

(* In step, or by a direct search, calqueue_deq takes an earliest event.   *)
LEMMA EarliestTaken ==
  ASSUME NEW c, QueueInv(c), c.cwidth.num >= 0, c.qsize > 0, InStep(c) \/ Due(c) = {}
  PROVE  NothingBefore(c, calqueue_deq(c).event)
<1> DEFINE e == calqueue_deq(c).event
<1>1. e = First(c, Bucket(c)) /\ e \in Prios
  BY DeqDone
<1>2. Sound(c) /\ Shape(c) /\ c.stray = 0 /\ c.cwidth.num \in Int
  BY InvTypes, ShapeTypes
<1>3. \A i \in Nonempty(c) : First(c, Bucket(c)) <= First(c, i)
  <2>1. CASE Due(c) = {}
    <3>1. Nonempty(c) # {}
      BY <1>2, HeldNonempty
    <3> QED BY <1>2, <2>1, <3>1, DirectSearch DEF Bucket
  <2>2. CASE Due(c) # {}
    <3>1. c.cwidth.num # 0
      BY <2>2 DEF Due, BeforeTop
    <3>2. c.cwidth.num > 0
      BY <1>2, <3>1
    <3> QED BY <1>2, <2>2, <3>2, SearchDone
  <2> QED BY <2>1, <2>2
<1> HIDE DEF e
<1>4. NothingBefore(c, e)
  BY <1>1, <1>2, <1>3, NothingBeforeFirst
<1> QED BY <1>4 DEF e

(* calqueue_get hands out an earliest event whenever the search is in step *)
(* and whenever it searches directly, for any widths, sizes and            *)
(* timestamps.                                                             *)
THEOREM EarliestHolds == Spec => EarliestInStep
<1>1. Inv /\ [Next]_<<q, got>> =>
        [q'.qsize < q.qsize /\ (InStep(q) \/ Due(q) = {}) => NothingBefore(q, got')]_<<q, got>>
  <2> SUFFICES ASSUME Inv, [Next]_<<q, got>>, q'.qsize < q.qsize, InStep(q) \/ Due(q) = {}
               PROVE  NothingBefore(q, got')
    OBVIOUS
  <2>1. q.cwidth.num >= 0 /\ q.qsize > 0 /\ got' = calqueue_deq(q).event
    BY GetStep
  <2>2. QueueInv(q)
    BY DEF Inv
  <2> QED BY <2>1, <2>2, EarliestTaken
<1> QED BY <1>1, InvHolds, PTL DEF Spec, EarliestInStep

(* A search that finds a bucket that is due moves its position along.      *)
LEMMA DueMoves ==
  ASSUME NEW c, QueueInv(c), c.cwidth.num >= 0, c.qsize > 0, InStep(c),
         ~(Due(c) = {} /\ c.cwidth.num > 0), take(c).queue.cwidth.num > 0
  PROVE  InPosition(take(c).queue)
<1> DEFINE d == take(c).queue
           w == c.cwidth
           n == VirtualBucket(w, c.lastprio)
           k == Steps(c)
           e == First(c, Bucket(c))
<1>1. Sound(c) /\ Shape(c) /\ c.stray = 0 /\ Nonempty(c) # {} /\ w \in Widths /\ c.nbuckets \in Nat \ {0}
  BY InvTypes, ShapeTypes, HeldNonempty
<1>2. /\ take(c).event = e /\ d.cwidth = w /\ d.nbuckets = c.nbuckets /\ d.lastprio = e
      /\ d.lastbucket = Bucket(c) /\ d.buckettop = c.buckettop + 2 * k * w.num
  BY <1>1, TakeDone
<1>3. w.num > 0 /\ Due(c) # {}
  BY <1>2
<1>4. /\ n \in Nat /\ k \in Nat /\ VirtualBucket(w, e) = n + k /\ Bucket(c) = (n + k) % c.nbuckets
  BY <1>1, <1>3, SearchDone
<1>5. c.buckettop = (2 * n + 3) * w.num
  BY <1>3 DEF InStep
<1> HIDE DEF d, n, k, e
<1>6. d.lastbucket = Index(w, c.nbuckets, e)
  <2>1. n + k \in Nat
    BY <1>4
  <2>2. Rem(n + k, c.nbuckets) = (n + k) % c.nbuckets
    BY <1>1, <2>1, QuotNat
  <2> QED BY <1>2, <1>4, <2>2 DEF Index
<1>7. d.buckettop = (2 * (n + k) + 3) * w.num
  <2> DEFINE N == w.num
  <2>1. N \in Int
    BY <1>1 DEF Widths
  <2> HIDE DEF N
  <2>2. (2 * n + 3) * N + 2 * k * N = (2 * (n + k) + 3) * N
    BY <1>4, <2>1
  <2> QED BY <1>2, <1>5, <2>2 DEF N
<1>8. InPosition(d)
  BY <1>2, <1>4, <1>6, <1>7 DEF InPosition
<1> QED BY <1>8 DEF d

(* In step, in terms of the counts.                                        *)
LEMMA InStepKept ==
  ASSUME NEW c, Sound(c), c.cwidth.num >= 0
  PROVE  InStep(c) <=> Kept(c, Earlier(c.lastprio)) = 0 /\ (c.cwidth.num > 0 => InPosition(c))
<1>1. c.lastprio \in Prios
  BY ShapeTypes DEF Sound
<1> QED BY <1>1, NothingBeforeKept DEF InStep, InPosition, Index

(* What happens when a step loses the position.                            *)
LEMMA StepLost ==
  ASSUME Inv, [Next]_<<q, got>>, InStep(q), ~InStep(q'), ~(q'.cwidth.num < 0)
  PROVE  q'.qsize < q.qsize /\ Due(q) = {} /\ q.cwidth.num > 0
<1>0. QueueInv(q) /\ got = q.lastprio /\ Sound(q) /\ q.lastprio \in Prios /\ q.qsize \in Nat
  BY InvTypes DEF Inv
<1>1. Inv' /\ Sound(q') /\ q'.cwidth.num >= 0
  <2>1. Inv'
    BY InvNext
  <2>2. QueueInv(q')
    BY <2>1 DEF Inv
  <2>3. Sound(q') /\ Shape(q')
    BY <2>2, InvTypes
  <2>4. q'.cwidth.num \in Int
    BY <2>3, ShapeTypes
  <2> QED BY <2>1, <2>3, <2>4
<1>2. ASSUME NEW p \in Prios, Put(p) PROVE FALSE
  <2>1. q.cwidth.num >= 0 /\ q' = calqueue_put(q, p) /\ p >= got
    BY <1>2 DEF Put, Defined
  <2>2. /\ q'.lastprio = q.lastprio
        /\ \A P \in SUBSET Prios : Kept(q', P) = Kept(q, P) + (IF p \in P THEN 1 ELSE 0)
        /\ SameFrame(q, q') \/ InPosition(q')
    BY <1>0, <1>1, <2>1, PutDone
  <2>3. Kept(q, Earlier(q.lastprio)) = 0 /\ (q.cwidth.num > 0 => InPosition(q))
    BY <1>0, <2>1, InStepKept
  <2>4. p \notin Earlier(q.lastprio) /\ Earlier(q.lastprio) \in SUBSET Prios
    <3>1. p \in Nat /\ q.lastprio \in Nat /\ p >= q.lastprio
      BY <1>0, <2>1, PriosNat
    <3> QED BY <3>1 DEF Earlier
  <2>5. Kept(q', Earlier(q'.lastprio)) = 0
    BY <2>2, <2>3, <2>4
  <2>6. q'.cwidth.num > 0 => InPosition(q')
    BY <2>2, <2>3 DEF InPosition, SameFrame
  <2> QED BY <1>1, <2>5, <2>6, InStepKept
<1>3. CASE UNCHANGED <<q, got>>
  BY <1>3
<1>4. CASE Get
  <2> DEFINE e == calqueue_deq(q).event
  <2>1. q.cwidth.num >= 0 /\ q.qsize > 0 /\ q' = calqueue_deq(q).queue
    BY <1>4 DEF Get, Defined
  <2>2. /\ e \in Prios /\ q'.lastprio = e /\ q'.qsize = q.qsize - 1
        /\ \A P \in SUBSET Prios : Kept(q, P) = Kept(q', P) + (IF e \in P THEN 1 ELSE 0)
        /\ q' = take(q).queue \/ InPosition(q')
    BY <1>0, <1>1, <2>1, DeqDone
  <2>3. q'.qsize < q.qsize
    BY <1>0, <2>2
  <2>4. SUFFICES ASSUME ~(Due(q) = {} /\ q.cwidth.num > 0) PROVE FALSE
    BY <2>3
  <2>5. NothingBefore(q, e)
    BY <1>0, <2>1, EarliestTaken
  <2> HIDE DEF e
  <2>6. Kept(q, Earlier(e)) = 0
    BY <1>0, <2>2, <2>5, NothingBeforeKept
  <2>7. e \notin Earlier(e) /\ Earlier(e) \in SUBSET Prios
    BY <2>2, PriosNat DEF Earlier
  <2>8. Kept(q', Earlier(e)) \in Nat
    BY <1>1, <2>7, AtFinite DEF Kept, Sound
  <2>9. Kept(q', Earlier(q'.lastprio)) = 0
    BY <2>2, <2>6, <2>7, <2>8
  <2>10. q'.cwidth.num > 0 => InPosition(q')
    BY <1>0, <2>1, <2>2, <2>4, DueMoves
  <2> QED BY <1>1, <2>9, <2>10, InStepKept
<1> QED BY <1>2, <1>3, <1>4 DEF Next

(* Of all that calqueue_put and calqueue_get do, only a direct search in a *)
(* calendar whose buckets have a width can put the search position out of  *)
(* step, and with it the order: puts, resizes and ordinary searches keep   *)
(* it.                                                                     *)
THEOREM StepKept == Spec => SearchKeepsStep
<1>1. Inv /\ [Next]_<<q, got>> =>
        [InStep(q) /\ ~InStep(q') =>
           \/ q'.cwidth.num < 0
           \/ q'.qsize < q.qsize /\ Due(q) = {} /\ q.cwidth.num > 0]_<<q, got>>
  BY StepLost
<1> QED BY <1>1, InvHolds, PTL DEF Spec, SearchKeepsStep

(* An event is at most a year ahead.                                       *)
WithinAYear ==
  q.qsize > 0 /\ q.cwidth.num > 0 =>
    \E i \in Nonempty(q) :
      VirtualBucket(q.cwidth, First(q, i)) < VirtualBucket(q.cwidth, q.lastprio) + q.nbuckets

(* In step, a round of the calendar reaches an event of this year.         *)
LEMMA YearDue ==
  ASSUME NEW c, Sound(c), c.cwidth.num > 0, InStep(c), NEW i \in Nonempty(c),
         VirtualBucket(c.cwidth, First(c, i)) < VirtualBucket(c.cwidth, c.lastprio) + c.nbuckets
  PROVE  Due(c) # {}
<1> DEFINE w == c.cwidth
           m == c.nbuckets
           n == VirtualBucket(w, c.lastprio)
           f == First(c, i)
           u == VirtualBucket(w, f)
           k == u - n
<1>1. /\ Shape(c) /\ w \in Widths /\ m \in Nat \ {0} /\ c.lastprio \in Prios
      /\ c.lastprio \in Nat /\ w.num >= 0 /\ w.num > 0
  BY ShapeTypes DEF Sound
<1>2. f \in Nat /\ Index(w, m, f) = i /\ c.lastprio <= f
  BY <1>1, FirstOf, NothingBeforeFirst DEF InStep
<1>3. c.lastbucket = Rem(n, m) /\ c.buckettop = (2 * n + 3) * w.num /\ u < n + m
  BY DEF InStep
<1> HIDE DEF f, w, m
<1>4. n \in Nat /\ u \in Nat /\ n <= u /\ Index(w, m, f) = u % m
  BY <1>1, <1>2, VirtualMonotone, IndexNat
<1> HIDE DEF n, u
<1>5. k \in Nat /\ k \in 0 .. m - 1 /\ n + k = u
  BY <1>1, <1>3, <1>4
<1>6. Rem(n, m) = n % m
  BY <1>1, <1>4, QuotNat
<1> HIDE DEF k
<1>7. Day(c, k) = i
  <2>1. Day(c, k) = ((n % m) + k) % m
    BY <1>3, <1>6 DEF Day, m
  <2>2. Day(c, k) = (n + k) % m
    BY <1>1, <1>4, <1>5, <2>1, ModShift
  <2> QED BY <1>2, <1>4, <1>5, <2>2
<1>8. 2 * w.den * f < (2 * n + 3) * w.num + 2 * k * w.num
  BY <1>1, <1>2, <1>4, <1>5, OwnDay DEF u
<1>9. BeforeTop(c, f, k)
  BY <1>1, <1>3, <1>8 DEF BeforeTop, w
<1>10. k \in Due(c)
  BY <1>5, <1>7, <1>9 DEF Due, f, m
<1> QED BY <1>10

(* While some event lies within a year (nbuckets times the width) of the   *)
(* last one taken, and no width is negative, the direct search never       *)
(* replaces an ordinary one and the search of calqueue_deq stays sound.    *)
THEOREM SoundWithinAYear == Spec /\ [](Defined /\ WithinAYear) => []SearchSound
<1>1. Init => InStep(q)
  <2> SUFFICES ASSUME Init PROVE InStep(q)
    OBVIOUS
  <2>1. QueueInv(q) /\ InPosition(q) /\ \A i \in Cells : q.calq[i] = <<>>
    BY InitQueue DEF Init
  <2>2. Sound(q) /\ Shape(q) /\ q.lastprio \in Prios
    BY <2>1, InvTypes
  <2>3. Nonempty(q) = {}
    BY <2>1, <2>2, ShapeTypes DEF Nonempty
  <2>4. NothingBefore(q, q.lastprio)
    BY <2>2, <2>3, NothingBeforeFirst
  <2> QED BY <2>1, <2>4 DEF InStep, InPosition, Index
<1>2. Inv /\ InStep(q) /\ (Defined /\ WithinAYear) /\ (Defined /\ WithinAYear)' /\ [Next]_<<q, got>>
        => InStep(q)'
  <2> SUFFICES ASSUME Inv, InStep(q), Defined, WithinAYear, Defined', [Next]_<<q, got>>, ~InStep(q')
               PROVE  FALSE
    OBVIOUS
  <2>1. QueueInv(q') /\ QueueInv(q)
    BY InvNext DEF Inv
  <2>2. q'.cwidth.num \in Int /\ Sound(q) /\ q.qsize \in Nat
    BY <2>1, InvTypes, ShapeTypes
  <2>3. ~(q'.cwidth.num < 0)
    BY <2>2 DEF Defined
  <2>4. q'.qsize < q.qsize /\ Due(q) = {} /\ q.cwidth.num > 0
    BY <2>3, StepLost
  <2>5. q.qsize > 0
    BY <2>4, GetStep
  <2>6. PICK i \in Nonempty(q) :
          VirtualBucket(q.cwidth, First(q, i)) < VirtualBucket(q.cwidth, q.lastprio) + q.nbuckets
    BY <2>4, <2>5 DEF WithinAYear
  <2> QED BY <2>2, <2>4, <2>6, YearDue
<1>3. InStep(q) /\ (Defined /\ WithinAYear) => SearchSound
  BY DEF SearchSound
<1> QED BY <1>1, <1>2, <1>3, InvHolds, PTL DEF Spec

-----------------------------------------------------------------------------
(* The refinement of EventQueue                                            *)

(* The events counted by the refinement mapping.                           *)
LEMMA HeldKept ==
  ASSUME NEW c, QueueInv(c), NEW p \in Prios
  PROVE  Cardinality(Positions(c, {p})) = Kept(c, {p}) /\ Kept(c, {p}) \in Nat
<1>1. Sound(c) /\ Shape(c) /\ Finite(c) /\ Calendar(c) \subseteq Cells
  BY InvTypes, ShapeTypes
<1>2. Positions(c, {p}) = At(c.calq, Calendar(c), {p})
  BY DEF Positions, At
<1>3. At(c.calq, Calendar(c), {p}) = At(c.calq, Cells, {p})
  BY <1>1, AtOnly DEF Sound
<1>4. Kept(c, {p}) \in Nat
  BY <1>1, AtFinite DEF Kept
<1> QED BY <1>2, <1>3, <1>4 DEF Kept

(* A timestamp of which there is an event.                                 *)
LEMMA HeldNotBefore ==
  ASSUME NEW c, QueueInv(c), NEW p \in Prios, NothingBefore(c, p), NEW x \in Prios, Kept(c, {x}) > 0
  PROVE  p <= x
<1>1. Sound(c) /\ Shape(c) /\ Finite(c) /\ c.calq \in [Cells -> Seq(Prios)]
  BY InvTypes, ShapeTypes
<1>2. \A i \in Cells : \A j \in DOMAIN c.calq[i] : p <= c.calq[i][j]
  BY <1>1, NothingBeforeKept, NoneEarlier
<1>3. At(c.calq, Cells, {x}) # {}
  <2>1. Cardinality({}) = 0
    BY FS_EmptySet
  <2> QED BY <2>1 DEF Kept
<1>4. PICK y \in At(c.calq, Cells, {x}) : TRUE
  BY <1>3
<1>5. y = <<y[1], y[2]>>
  BY AtPairs
<1>6. y[1] \in Cells /\ y[2] \in DOMAIN c.calq[y[1]] /\ c.calq[y[1]][y[2]] = x
  BY <1>5, AtPairs
<1> QED BY <1>2, <1>6

(* A put adds one event and a get removes an earliest one.                 *)
LEMMA QueueStep ==
  ASSUME Inv, SearchSound, Defined', [Next]_<<q, got>>
  PROVE  [Order!Next]_(Order!vars)
<1> DEFINE ev == [p \in Prios |-> Held(p)]
<1>0. QueueInv(q) /\ QueueInv(q') /\ got = q.lastprio /\ q'.cwidth.num >= 0 /\ q.cwidth.num >= 0
  <2>1. Inv'
    BY InvNext
  <2> QED BY <2>1 DEF Inv, Defined, SearchSound
<1>1. \A p \in Prios : Held(p) = Kept(q, {p}) /\ Held(p) \in Nat
  BY <1>0, HeldKept DEF Held
<1>2. \A p \in Prios : Held(p)' = Kept(q', {p})
  BY <1>0, HeldKept DEF Held
<1>3. ASSUME NEW p \in Prios, Put(p) PROVE Order!Next
  <2>1. q' = calqueue_put(q, p) /\ got' = got
    BY <1>3 DEF Put
  <2>2. \A P \in SUBSET Prios : Kept(q', P) = Kept(q, P) + (IF p \in P THEN 1 ELSE 0)
    BY <1>0, <2>1, PutDone
  <2>3. ASSUME NEW x \in Prios PROVE Held(x)' = (IF x = p THEN Held(x) + 1 ELSE Held(x))
    <3>1. {x} \in SUBSET Prios /\ (p \in {x} <=> x = p)
      OBVIOUS
    <3>2. Kept(q', {x}) = Kept(q, {x}) + (IF p \in {x} THEN 1 ELSE 0)
      BY <2>2, <3>1
    <3> QED BY <1>1, <1>2, <3>1, <3>2
  <2>4. ev' = [ev EXCEPT ![p] = @ + 1]
    BY <2>3
  <2>5. Order!Put(p)
    BY <2>1, <2>4 DEF Order!Put
  <2> QED BY <2>5 DEF Order!Next
<1>4. CASE Get
  <2> DEFINE e == calqueue_deq(q).event
  <2>1. q.qsize > 0 /\ q' = calqueue_deq(q).queue /\ got' = e
    BY <1>4 DEF Get
  <2>2. e \in Prios /\ \A P \in SUBSET Prios : Kept(q, P) = Kept(q', P) + (IF e \in P THEN 1 ELSE 0)
    BY <1>0, <2>1, DeqDone
  <2>3. InStep(q) \/ Due(q) = {}
    <3>1. q.qsize # 0
      BY <1>0, <2>1, InvTypes
    <3> QED BY <3>1 DEF SearchSound
  <2>4. NothingBefore(q, e)
    BY <1>0, <2>1, <2>3, EarliestTaken
  <2> HIDE DEF e
  <2>5. ASSUME NEW x \in Prios
        PROVE  /\ Held(x)' = (IF x = e THEN Held(x) - 1 ELSE Held(x))
               /\ x = e => Held(x) > 0
    <3>1. {x} \in SUBSET Prios /\ (e \in {x} <=> x = e)
      OBVIOUS
    <3>2. Kept(q, {x}) = Kept(q', {x}) + (IF e \in {x} THEN 1 ELSE 0)
      BY <2>2, <3>1
    <3>3. Kept(q', {x}) \in Nat
      BY <1>0, HeldKept
    <3> QED BY <1>1, <1>2, <3>1, <3>2, <3>3
  <2>6. ev' = [ev EXCEPT ![e] = @ - 1]
    BY <2>5
  <2>7. ev[e] > 0
    BY <2>2, <2>5
  <2>8. \A x \in Prios : ev[x] > 0 => e <= x
    BY <1>0, <1>1, <2>2, <2>4, HeldNotBefore
  <2>9. Order!Get(e)
    BY <2>1, <2>6, <2>7, <2>8 DEF Order!Get
  <2> QED BY <2>2, <2>9 DEF Order!Next
<1>5. CASE UNCHANGED <<q, got>>
  BY <1>5 DEF Order!vars, Held, Positions, Calendar
<1> QED BY <1>3, <1>4, <1>5 DEF Next

(* The queue of calqueue_init is the empty priority queue.                 *)
LEMMA QueueStart == Init => Order!Init
<1> SUFFICES ASSUME Init PROVE Order!Init
  OBVIOUS
<1>1. QueueInv(q) /\ \A i \in Cells : q.calq[i] = <<>>
  BY InitQueue DEF Init
<1>2. ASSUME NEW p \in Prios PROVE Held(p) = 0
  <2>1. At(q.calq, Cells, {p}) = {}
    <3>1. ASSUME NEW x \in At(q.calq, Cells, {p}) PROVE FALSE
      <4>1. x = <<x[1], x[2]>>
        BY AtPairs
      <4>2. x[1] \in Cells /\ x[2] \in DOMAIN q.calq[x[1]]
        BY <4>1, AtPairs
      <4>3. x[2] \in DOMAIN <<>>
        BY <1>1, <4>2
      <4> QED BY <4>3
    <3> QED BY <3>1
  <2>2. Kept(q, {p}) = 0
    BY <2>1, FS_EmptySet DEF Kept
  <2> QED BY <1>1, <2>2, HeldKept DEF Held
<1> QED BY <1>2 DEF Init, Order!Init

(* As long as the search is sound, calqueue_put and calqueue_get, with all *)
(* their resizes and widths, implement a priority queue: no event is lost, *)
(* duplicated or handed out before an earlier one.                         *)
THEOREM CalQueueImplementsEventQueue == Spec /\ []SearchSound => ImplementsEventQueue
<1>1. Inv /\ SearchSound /\ SearchSound' /\ [Next]_<<q, got>> => [Order!Next]_(Order!vars)
  BY QueueStep DEF SearchSound
<1> QED BY <1>1, QueueStart, InvHolds, PTL DEF Spec, ImplementsEventQueue, Order!Spec

(* The two together: a program that always keeps some event within a year  *)
(* of the last one, with no negative width, gets its events in order.      *)
THEOREM OrderWithinAYear == Spec /\ [](Defined /\ WithinAYear) => ImplementsEventQueue
BY SoundWithinAYear, CalQueueImplementsEventQueue, PTL
=============================================================================
