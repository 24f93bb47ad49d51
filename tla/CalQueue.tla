------------------------------ MODULE CalQueue ------------------------------
(***************************************************************************)
(* The calendar queue of the testbed (libfibers/testbed/src/calqueue.c),   *)
(* one per fiber: an array of buckets, each a list of events sorted by     *)
(* timestamp, that is searched like a calendar, one bucket per "day".      *)
(*                                                                         *)
(* A timestamp is a number of ticks, TICKS of them to 1.0, and an event is *)
(* its timestamp.  The width of a bucket is the exact fraction num / den   *)
(* of ticks, so that the rounding of doubles is left out; 0 / 0 is NaN,    *)
(* and a NaN or infinite quotient converts to INT_MIN as on x86.           *)
(***************************************************************************)
EXTENDS Integers, Sequences, SequencesExt, FiniteSetsExt

CONSTANTS
  TICKS,        \* ticks in one unit of time, the initial bucket width
  CALQSPACE,    \* cells of the array the calendars live in
  MAXNBUCKETS,  \* buckets of the largest calendar
  MaxPrio,      \* bound: the last timestamp
  MaxAhead,     \* bound: how far in the future an event may be put
  MaxSize       \* bound: events in the queue

Sizes == {2, 4, 8, 16, 32, 64, 128, 256, 512, 1024, 2048, 4096, 8192, 16384, 32768}

ASSUME CalQueueAssumption ==
  /\ TICKS \in Nat \ {0}
  /\ MAXNBUCKETS \in Sizes
  /\ CALQSPACE \in Nat /\ 2 * MAXNBUCKETS <= CALQSPACE
  /\ MaxPrio \in Nat /\ MaxAhead \in Nat /\ MaxSize \in Nat

VARIABLES
  q,    \* the struct calqueue
  got   \* the timestamp of the last event handed out, "now" in the model

Prios == 0 .. MaxPrio
Calendar(c) == c.firstsub .. c.firstsub + c.nbuckets - 1

(* C's division and remainder truncate.                                    *)
Abs(a) == IF a < 0 THEN -a ELSE a
Quot(a, b) == IF (a < 0) = (b < 0) \/ a = 0 THEN Abs(a) \div Abs(b) ELSE -(Abs(a) \div Abs(b))
Rem(a, b) == a - b * Quot(a, b)

(* The virtual bucket of timestamp p; it is a multiple of nbuckets, a      *)
(* power of two, when p / cwidth is not a number or infinite.              *)
VirtualBucket(w, p) == IF w.num = 0 THEN 0 ELSE Quot(p * w.den, w.num)

(* Seeded fault: the top of the bucket is not looked at.                   *)
FaultBeforeTop(c, p, k) == c.cwidth.num # 0

(* priority < buckettop, k buckets further on.  The numerator of buckettop *)
(* over 2 * den is kept; a NaN or 0 width makes the test false.            *)
BeforeTop(c, p, k) ==
  c.cwidth.num # 0 /\ 2 * c.cwidth.den * p < c.buckettop + 2 * k * c.cwidth.num

bot_threshold(c) == c.nbuckets \div 2 - 2
top_threshold(c) == 2 * c.nbuckets

(* localinit: the calendar is moved to a cleared part of the array and the *)
(* search position set to startprio.                                       *)
localinit(c, qbase, nbucks, bwidth, startprio) ==
  LET n == VirtualBucket(bwidth, startprio)
  IN  [c EXCEPT !.firstsub = qbase, !.nbuckets = nbucks, !.cwidth = bwidth, !.qsize = 0,
         !.calq = [i \in DOMAIN c.calq |-> IF i \in qbase .. qbase + nbucks - 1 THEN <<>>
                                                                               ELSE c.calq[i]],
         !.lastprio = startprio, !.lastbucket = Rem(n, nbucks),
         !.buckettop = (2 * n + 3) * bwidth.num]

(* Seeded fault: the virtual bucket is not reduced to an actual one.       *)
Faultinsert(c, p) ==
  LET cell == c.firstsub + VirtualBucket(c.cwidth, p)
      later == SelectInSeq(c.calq[cell], LAMBDA x : x > p)
      at == IF later = 0 THEN Len(c.calq[cell]) + 1 ELSE later
  IN  [c EXCEPT !.qsize = @ + 1, !.calq[cell] = InsertAt(@, at, p)]

(* The event goes behind those of its bucket that are not later.  An index *)
(* outside the calendar puts it where no search looks.                     *)
insert(c, p) ==
  LET i == Rem(VirtualBucket(c.cwidth, p), c.nbuckets)
      cell == c.firstsub + i
      later == SelectInSeq(c.calq[cell], LAMBDA x : x > p)
      at == IF later = 0 THEN Len(c.calq[cell]) + 1 ELSE later
      in == [c EXCEPT !.qsize = @ + 1]
  IN  IF i < 0 THEN [in EXCEPT !.stray = @ + 1]
               ELSE [in EXCEPT !.calq[cell] = InsertAt(@, at, p)]

(* The search of calqueue_deq: the first bucket, in calendar order from    *)
(* the last one used, whose first event is before the bucket's top; after  *)
(* a fruitless round the bucket with the least first event, and the top    *)
(* stays where the round left it.                                          *)
Nonempty(c) == {i \in 0 .. c.nbuckets - 1 : c.calq[c.firstsub + i] # <<>>}
First(c, i) == Head(c.calq[c.firstsub + i])
Day(c, k) == (c.lastbucket + k) % c.nbuckets
Due(c) == {k \in 0 .. c.nbuckets - 1 :
             Day(c, k) \in Nonempty(c) /\ BeforeTop(c, First(c, Day(c, k)), k)}

(* The direct search: the first of the buckets with a least first event.   *)
direct_search(c) ==
  LET least == Min({First(c, i) : i \in Nonempty(c)})
  IN  Min({i \in Nonempty(c) : First(c, i) = least})

(* Seeded fault: buckettop does not move on with the buckets.              *)
Faulttake(c) ==
  LET k == IF Due(c) = {} THEN c.nbuckets ELSE Min(Due(c))
      i == IF Due(c) = {} THEN direct_search(c) ELSE Day(c, k)
  IN  [event |-> First(c, i),
       queue |-> [c EXCEPT !.lastbucket = i, !.lastprio = First(c, i), !.qsize = @ - 1,
                           !.calq[c.firstsub + i] = Tail(@)]]

(* calqueue_deq without its resize, which new_width has disabled.          *)
take(c) ==
  LET k == IF Due(c) = {} THEN c.nbuckets ELSE Min(Due(c))
      i == IF Due(c) = {} THEN direct_search(c) ELSE Day(c, k)
  IN  [event |-> First(c, i),
       queue |-> [c EXCEPT !.lastbucket = i, !.lastprio = First(c, i), !.qsize = @ - 1,
                           !.buckettop = @ + 2 * k * c.cwidth.num,
                           !.calq[c.firstsub + i] = Tail(@)]]

nsamples(size) == IF size <= 5 THEN size ELSE Min({25, 5 + size \div 10})

(* The queue after each of n dequeues.                                     *)
sample(c, n) ==
  LET left[j \in 0 .. n] == IF j = 0 THEN c ELSE take(left[j - 1]).queue
  IN  left

(* The distances between neighbours that are less than twice the average   *)
(* are summed up: three times their average is num / den.                  *)
widths(temp, n) ==
  LET gap(j) == temp[j] - temp[j - 1]
      close(j) == gap(j) * (n - 1) < 2 * (temp[n] - temp[1])
      kept[j \in 1 .. n] ==
        IF j = 1 THEN [num |-> 0, den |-> 0]
        ELSE IF close(j) THEN [num |-> kept[j - 1].num + 3 * gap(j), den |-> kept[j - 1].den + 1]
        ELSE kept[j - 1]
  IN  kept

(* new_width dequeues a sample of the events, computes the width from it   *)
(* and puts everything back as it was.                                     *)
new_width(c) ==
  LET n == nsamples(c.qsize)
      left == sample(c, n)
      temp == [j \in 1 .. n |-> take(left[j - 1]).event]
  IN  IF c.qsize < 2 THEN [num |-> TICKS, den |-> 1] ELSE widths(temp, n)[n]

(* Where the events with a timestamp in P are.                             *)
Positions(c, P) ==
  {x \in UNION {{i} \X DOMAIN c.calq[i] : i \in Calendar(c)} : c.calq[x[1]][x[2]] \in P}

(* The copy of resize, event by event: the old buckets in descending order,*)
(* each from its head.  calqueue_put does not resize again here: the new   *)
(* calendar has room for all (Fits).                                       *)
move(c, old) ==
  LET i == Max({x \in old : c.calq[x] # <<>>})
  IN  insert([c EXCEPT !.calq[i] = Tail(@)], Head(c.calq[i]))
copy(c, old, n) ==
  LET put[j \in 0 .. n] == IF j = 0 THEN c ELSE move(put[j - 1], old)
  IN  put

(* resize: the events move to a calendar of newsize buckets at the other   *)
(* end of the array.                                                       *)
resize(c, newsize) ==
  LET qbase == IF c.firstsub = 0 THEN CALQSPACE - newsize ELSE 0
      new == localinit(c, qbase, newsize, new_width(c), c.lastprio)
      n == Cardinality(Positions(c, Prios))
  IN  copy(new, Calendar(c), n)[n]

calqueue_put(c, p) ==
  LET r == insert(c, p)
  IN  IF r.qsize > top_threshold(r) /\ r.nbuckets < MAXNBUCKETS
        THEN resize(r, 2 * r.nbuckets) ELSE r

calqueue_deq(c) ==
  LET r == take(c)
  IN  [r EXCEPT !.queue = IF @.qsize < bot_threshold(@) THEN resize(@, @.nbuckets \div 2) ELSE @]

-----------------------------------------------------------------------------
calqueue_init ==
  localinit([firstsub |-> 0, nbuckets |-> 0, cwidth |-> [num |-> 0, den |-> 0], qsize |-> 0,
             calq |-> [i \in 0 .. CALQSPACE - 1 |-> <<>>], lastprio |-> 0, lastbucket |-> 0,
             buckettop |-> 0, stray |-> 0],
            0, 2, [num |-> TICKS, den |-> 1], 0)

Init == q = calqueue_init /\ got = 0

(* A negative width makes the code index before its arrays: what it does   *)
(* after that is not defined, and a behaviour of the model ends there.     *)
Defined == q.cwidth.num >= 0

(* ProcessEvent schedules an event now or later.                           *)
Put(p) ==
  /\ Defined
  /\ p \in got .. got + MaxAhead
  /\ q.qsize < MaxSize
  /\ q' = calqueue_put(q, p)
  /\ UNCHANGED got

(* main_loop takes the next event; with none left it aborts.               *)
Get ==
  /\ Defined
  /\ q.qsize > 0
  /\ LET d == calqueue_deq(q) IN q' = d.queue /\ got' = d.event

Next == Get \/ \E p \in Prios : Put(p)

Spec == Init /\ [][Next]_<<q, got>>

-----------------------------------------------------------------------------
(* Properties                                                              *)

(* How many events with timestamp p the calendar holds.                    *)
Held(p) == Cardinality(Positions(q, {p}))

(* The calendar queue is a priority queue: calqueue_get takes the earliest *)
(* pending event, through any growth and shrinking of the calendar, and    *)
(* nothing is lost or duplicated.                                          *)
Order == INSTANCE EventQueue WITH events <- [p \in Prios |-> Held(p)]
ImplementsEventQueue == Order!Spec

(* qsize, on which calqueue_deq decides that there is nothing to take and  *)
(* both thresholds depend, is the number of events in the calendar and of  *)
(* those that were put outside it: the copy in resize, which counts again  *)
(* from zero, misses none and counts none twice.                           *)
Counted == q.qsize = Cardinality(Positions(q, Prios)) + q.stray

(* There are at most two events to a bucket while the calendar can grow.   *)
(* Hence the puts of the copy in resize never start another resize.        *)
Fits == q.qsize <= top_threshold(q) \/ q.nbuckets = MAXNBUCKETS

(* The position of the search agrees with the last event handed out, and   *)
(* no event is behind it.                                                  *)
NothingBefore(c, p) == \A x \in Positions(c, Prios) : p <= c.calq[x[1]][x[2]]
InStep(c) ==
  LET n == VirtualBucket(c.cwidth, c.lastprio)
  IN  /\ NothingBefore(c, c.lastprio)
      /\ c.cwidth.num > 0 => /\ c.lastbucket = Rem(n, c.nbuckets)
                             /\ c.buckettop = (2 * n + 3) * c.cwidth.num

(* Whichever of its two searches finds it, and however long ago the        *)
(* calendar was laid out, calqueue_deq takes an earliest event as long as  *)
(* the position is in step; a direct search does so in any case.           *)
EarliestInStep ==
  [][q'.qsize < q.qsize /\ (InStep(q) \/ Due(q) = {}) => NothingBefore(q, got')]_<<q, got>>

(* Puts, searches that find a bucket that is due, and resizes keep the     *)
(* position in step.  Only a direct search in a calendar whose buckets     *)
(* have a width, and a negative new width, may lose it.                    *)
SearchKeepsStep ==
  [][InStep(q) /\ ~InStep(q') =>
       \/ q'.cwidth.num < 0
       \/ q'.qsize < q.qsize /\ Due(q) = {} /\ q.cwidth.num > 0]_<<q, got>>

(* The next event is found: the position is in step or will not be used.   *)
SearchSound == Defined /\ (q.qsize = 0 \/ InStep(q) \/ Due(q) = {})
=============================================================================
