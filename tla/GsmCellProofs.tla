--------------------------- MODULE GsmCellProofs ---------------------------
(***************************************************************************)
(* For any number of channels, any word size and any width of the          *)
(* counters, the counter, the bitmap, the nodes and the pending END_CALL   *)
(* events of a cell agree on the channels in use, its nodes form a doubly  *)
(* linked list in which every walk ends, so neither the search for a free  *)
(* channel nor the one for a busy channel's node ever fails, and the       *)
(* counters of calls and events stay in balance while they turn over.      *)
(***************************************************************************)
EXTENDS GsmCell, FiniteSetTheorems, WellFoundedInduction, TLAPS

-----------------------------------------------------------------------------
(* Division                                                                *)

(* The quotient and the remainder of a division.                           *)
LEMMA DivMod ==
  ASSUME NEW n \in Nat, NEW b \in Nat \ {0}
  PROVE  n \div b \in Nat /\ n % b \in 0 .. b - 1 /\ n = b * (n \div b) + (n % b)
  BY SMT

(* A number below the modulus is its own remainder.                        *)
LEMMA ModSmall ==
  ASSUME NEW n \in Nat, NEW b \in Nat \ {0}, n < b
  PROVE  n % b = n
  BY SMT

(* Multiplication by a positive number is strictly monotone.               *)
LEMMA MulMono ==
  ASSUME NEW b \in Nat, NEW x \in Nat, NEW y \in Nat, x >= y + 1
  PROVE  b * x >= b * y + b
  BY SMT

(* Division by a positive number is monotone.                              *)
LEMMA DivMono ==
  ASSUME NEW n \in Nat, NEW m \in Nat, n <= m, NEW b \in Nat \ {0}
  PROVE  n \div b <= m \div b
<1> SUFFICES ASSUME n \div b >= m \div b + 1 PROVE FALSE
  BY DivMod
<1>1. b * (n \div b) >= b * (m \div b) + b
  BY DivMod, MulMono
<1> QED BY <1>1, DivMod

(* No two channels share a bit of the bitmap.                              *)
LEMMA BitUnique ==
  ASSUME NEW i \in Channels, NEW j \in Channels, i \div BITS = j \div BITS, i % BITS = j % BITS
  PROVE  i = j
<1>1. i = BITS * (i \div BITS) + (i % BITS)
  BY DivMod, GsmAssumption DEF Channels
<1>2. j = BITS * (j \div BITS) + (j % BITS)
  BY DivMod, GsmAssumption DEF Channels
<1> QED BY <1>1, <1>2

(* The bit of a channel lies in a word that INIT clears.                   *)
LEMMA BitPlace ==
  ASSUME NEW i \in Channels
  PROVE  /\ i \div BITS \in Words /\ i \div BITS < CHANNELS_PER_CELL \div BITS + 1
         /\ i % BITS \in Bits
<1>1. i \in Nat /\ i <= CHANNELS_PER_CELL /\ CHANNELS_PER_CELL \in Nat /\ BITS \in Nat \ {0}
  BY GsmAssumption DEF Channels
<1>2. i \div BITS \in Nat /\ CHANNELS_PER_CELL \div BITS \in Nat /\ i % BITS \in Bits
  BY <1>1, DivMod DEF Bits
<1>3. i \div BITS <= CHANNELS_PER_CELL \div BITS
  BY <1>1, DivMono
<1> QED BY <1>2, <1>3 DEF Words

(* An unsigned counter that is moved on keeps its range.                   *)
LEMMA IncType == ASSUME NEW x \in 0 .. W - 1 PROVE Inc(x) \in 0 .. W - 1
<1>1. x + 1 \in Nat /\ W \in Nat \ {0}
  BY GsmAssumption
<1> QED BY <1>1, DivMod DEF Inc

(* The channels, and the channels in use, can be counted.                  *)
LEMMA ChannelsFinite ==
  /\ IsFiniteSet(Channels) /\ Cardinality(Channels) = CHANNELS_PER_CELL
  /\ \A S \in SUBSET Channels :
       IsFiniteSet(S) /\ Cardinality(S) \in Nat /\ Cardinality(S) <= CHANNELS_PER_CELL
<1>1. IsFiniteSet(Channels) /\ Cardinality(Channels) = CHANNELS_PER_CELL
  BY FS_Interval, GsmAssumption DEF Channels
<1> QED BY <1>1, FS_Subset, FS_CardinalityType

-----------------------------------------------------------------------------
(* The invariant                                                           *)

(* What the run maintains: one START_CALL is pending, and the four views   *)
(* of the channels in use agree.                                           *)
Agreement ==
  /\ starts = 1
  /\ Busy = ends
  /\ live = ends
  /\ channel_counter = CHANNELS_PER_CELL - Cardinality(ends)

GsmInv ==
  /\ GsmTypeOK
  /\ phase # "unable_to_allocate"
  /\ phase = "init" => ends = {} /\ live = {}
  /\ phase \in {"run", "done"} => Agreement

(* The invariant holds before the INIT event.                              *)
LEMMA InitInv == Init => GsmInv
  BY GsmAssumption DEF Init, GsmInv, GsmTypeOK, Failures, Nodes

(* INIT establishes the agreement: the words of all channels are cleared.  *)
LEMMA ProcessInitInv ==
  ASSUME GsmInv, NEW junk \in SUBSET Bits, ProcessInit(junk)
  PROVE  GsmInv'
<1> USE DEF GsmInv, ProcessInit, list_vars, count_vars
<1>1. GsmTypeOK'
  BY GsmAssumption DEF GsmTypeOK, Failures
<1>2. Agreement'
  <2>1. Busy' = {}
    BY BitPlace DEF Busy, CHECK_CHANNEL
  <2>2. ends' = {} /\ live' = {}
    OBVIOUS
  <2>3. Cardinality(ends') = 0 /\ CHANNELS_PER_CELL \in Nat
    BY <2>2, FS_EmptySet, GsmAssumption
  <2>4. channel_counter' = CHANNELS_PER_CELL - Cardinality(ends')
    BY <2>3
  <2> QED BY <2>1, <2>2, <2>4 DEF Agreement
<1> QED BY <1>1, <1>2

(* A channel that was found free joins every view.                         *)
LEMMA AllocationInv ==
  ASSUME GsmInv, phase = "run", channel_counter # 0,
         channel_counter' = channel_counter - 1, allocation, UNCHANGED starts,
         (arriving_calls \in 0 .. W - 1)', (complete_calls \in 0 .. W - 1)',
         (blocked_on_setup \in 0 .. W - 1)', (executed_events \in 0 .. W - 1)'
  PROVE  GsmInv'
<1>1. PICK i \in Search :
        /\ SET_CHANNEL(i)
        /\ next' = [c \in Channels |-> IF c = i THEN NULL
                                       ELSE IF c = channels THEN i ELSE next[c]]
        /\ prev' = [prev EXCEPT ![i] = channels]
        /\ channels' = i
        /\ live' = live \cup {i}
        /\ ends' = ends \cup {i}
        /\ UNCHANGED phase
  <2>1. Search # {}
    <3> SUFFICES ASSUME Search = {} PROVE FALSE
      OBVIOUS
    <3>1. Busy = Channels
      BY DEF Search, Busy
    <3>2. ends = Channels
      BY <3>1 DEF GsmInv, Agreement
    <3> QED BY <3>2, ChannelsFinite, GsmAssumption DEF GsmInv, Agreement
  <2> QED BY <2>1 DEF allocation
<1>2. i \in Channels /\ i \notin Busy /\ i \notin ends
  BY DEF Search, Busy, GsmInv, Agreement
<1>3. GsmTypeOK'
  <2>1. channel_state' \in [Words -> SUBSET Bits]
    BY <1>1, <1>2, BitPlace DEF SET_CHANNEL, GsmInv, GsmTypeOK
  <2>2. next' \in [Channels -> Nodes] /\ prev' \in [Channels -> Nodes] /\ channels' \in Nodes
    BY <1>1, <1>2 DEF GsmInv, GsmTypeOK, Nodes
  <2>3. channel_counter' \in 0 .. W - 1
    BY GsmAssumption DEF GsmInv, GsmTypeOK
  <2> QED BY <1>1, <1>2, <2>1, <2>2, <2>3 DEF GsmInv, GsmTypeOK
<1>4. Busy' = Busy \cup {i}
  <2> SUFFICES ASSUME NEW c \in Channels PROVE CHECK_CHANNEL(c)' <=> CHECK_CHANNEL(c) \/ c = i
    BY <1>2 DEF Busy
  <2>1. c \div BITS \in Words /\ i \div BITS \in Words
    BY <1>2, BitPlace
  <2>2. CHECK_CHANNEL(c)' <=> \/ CHECK_CHANNEL(c)
                              \/ c \div BITS = i \div BITS /\ c % BITS = i % BITS
    BY <1>1, <2>1 DEF CHECK_CHANNEL, SET_CHANNEL, GsmInv, GsmTypeOK
  <2> QED BY <1>2, <2>2, BitUnique
<1>5. channel_counter' = CHANNELS_PER_CELL - Cardinality(ends')
  <2>1. IsFiniteSet(ends) /\ Cardinality(ends) \in Nat
    BY ChannelsFinite DEF GsmInv, GsmTypeOK
  <2>2. Cardinality(ends') = Cardinality(ends) + 1
    BY <1>1, <1>2, <2>1, FS_AddElement
  <2> QED BY <2>1, <2>2, GsmAssumption DEF GsmInv, Agreement
<1> QED BY <1>1, <1>3, <1>4, <1>5 DEF GsmInv, Agreement

(* START_CALL preserves it: a free channel is found and entered in every   *)
(* view, or the call is blocked.                                           *)
LEMMA StartCallInv ==
  ASSUME GsmInv, StartCall
  PROVE  GsmInv'
<1>1. /\ (arriving_calls \in 0 .. W - 1)' /\ (complete_calls \in 0 .. W - 1)'
      /\ (blocked_on_setup \in 0 .. W - 1)' /\ (executed_events \in 0 .. W - 1)'
  BY IncType DEF StartCall, GsmInv, GsmTypeOK
<1>2. CASE channel_counter = 0
  <2>1. UNCHANGED <<phase, starts, ends, channel_counter, channel_state, list_vars>>
    BY <1>2 DEF StartCall
  <2>2. Busy' = Busy
    BY <2>1 DEF Busy, CHECK_CHANNEL
  <2> QED BY <1>1, <2>1, <2>2 DEF GsmInv, GsmTypeOK, Agreement, list_vars
<1>3. CASE channel_counter # 0
  BY <1>1, <1>3, AllocationInv DEF StartCall
<1> QED BY <1>2, <1>3

(* A channel whose call has ended leaves every view, or the walk did not   *)
(* find it and the program has aborted.                                    *)
LEMMA EndCallInv ==
  ASSUME GsmInv, NEW c \in Channels, EndCall(c)
  PROVE  GsmInv'
<1>1. /\ (arriving_calls \in 0 .. W - 1)' /\ (complete_calls \in 0 .. W - 1)'
      /\ (blocked_on_setup \in 0 .. W - 1)' /\ (executed_events \in 0 .. W - 1)'
  BY IncType DEF EndCall, GsmInv, GsmTypeOK
<1>2. /\ phase = "run" /\ Agreement /\ c \in ends /\ ends' = ends \ {c} /\ starts' = starts
      /\ channel_counter' = (channel_counter + 1) % W /\ deallocation(c)
  BY DEF EndCall, GsmInv
<1>3. /\ channel_counter' \in 0 .. W - 1
      /\ channel_counter' = CHANNELS_PER_CELL - Cardinality(ends')
  <2>1. IsFiniteSet(ends) /\ Cardinality(ends) \in Nat /\ Cardinality(ends') \in Nat
    BY <1>2, ChannelsFinite DEF GsmInv, GsmTypeOK
  <2>2. Cardinality(ends') = Cardinality(ends) - 1
    BY <1>2, <2>1, FS_RemoveElement
  <2>3. channel_counter + 1 \in Nat /\ channel_counter + 1 < W /\ W \in Nat \ {0}
    BY <1>2, <2>1, <2>2, GsmAssumption DEF GsmInv, GsmTypeOK, Agreement
  <2>4. channel_counter' = channel_counter + 1
    BY <1>2, <2>3, ModSmall
  <2> QED BY <1>2, <2>1, <2>2, <2>3, <2>4, GsmAssumption DEF Agreement
<1>4. CASE c \notin Listed
  <2>1. phase' = "unable_to_deallocate" /\ UNCHANGED <<channel_state, list_vars>>
    BY <1>2, <1>4 DEF deallocation
  <2> QED BY <1>1, <1>2, <1>3, <2>1 DEF GsmInv, GsmTypeOK, list_vars, Failures
<1>5. CASE c \in Listed
  <2>1. Unlink(c) /\ RESET_CHANNEL(c) /\ live' = live \ {c} /\ phase' \in {"run", "done"}
    BY <1>2, <1>5 DEF deallocation
  <2>2. channels' \in Nodes /\ prev' \in [Channels -> Nodes] /\ next' \in [Channels -> Nodes]
    BY <2>1 DEF Unlink, GsmInv, GsmTypeOK, Nodes
  <2>3. channel_state' \in [Words -> SUBSET Bits]
    BY <2>1, BitPlace DEF RESET_CHANNEL, GsmInv, GsmTypeOK
  <2>4. GsmTypeOK'
    BY <1>1, <1>2, <1>3, <2>1, <2>2, <2>3 DEF GsmInv, GsmTypeOK
  <2>5. Busy' = Busy \ {c}
    <3> SUFFICES ASSUME NEW d \in Channels PROVE CHECK_CHANNEL(d)' <=> CHECK_CHANNEL(d) /\ d # c
      BY DEF Busy
    <3>1. d \div BITS \in Words /\ c \div BITS \in Words
      BY BitPlace
    <3>2. CHECK_CHANNEL(d)' <=> /\ CHECK_CHANNEL(d)
                                /\ ~(d \div BITS = c \div BITS /\ d % BITS = c % BITS)
      BY <2>1, <3>1 DEF CHECK_CHANNEL, RESET_CHANNEL, GsmInv, GsmTypeOK
    <3> QED BY <3>2, BitUnique
  <2>6. Agreement'
    BY <1>2, <1>3, <2>1, <2>5 DEF Agreement
  <2> QED BY <2>1, <2>4, <2>6 DEF GsmInv
<1> QED BY <1>4, <1>5

(* A step outside the cell preserves it.                                   *)
LEMMA StutterInv == GsmInv /\ UNCHANGED vars => GsmInv'
  BY DEF GsmInv, GsmTypeOK, Agreement, Busy, CHECK_CHANNEL, vars, list_vars, count_vars

(* The invariant holds of every state of the cell, whatever the order of   *)
(* the events.                                                             *)
THEOREM GsmInductive == Spec => []GsmInv
<1>1. GsmInv /\ [Next]_vars => GsmInv'
  BY ProcessInitInv, StartCallInv, EndCallInv, StutterInv DEF Next, Done
<1> QED BY <1>1, InitInv, PTL DEF Spec

(* Whatever the order of START_CALL and END_CALL, the counter, bitmap,     *)
(* nodes and pending events of ProcessEvent agree.                         *)
THEOREM GsmViews == Spec => []ViewsAgree
<1>1. GsmInv => ViewsAgree
  BY DEF GsmInv, Agreement, ViewsAgree
<1> QED BY <1>1, GsmInductive, PTL

(* allocation never prints "Unable to allocate channel", and main_loop     *)
(* never runs out of events.                                               *)
THEOREM GsmAllocates == Spec => [](/\ phase # "unable_to_allocate"
                                   /\ phase = "run" => starts = 1)
<1>1. GsmInv => /\ phase # "unable_to_allocate"
                /\ phase = "run" => starts = 1
  BY DEF GsmInv, Agreement
<1> QED BY <1>1, GsmInductive, PTL

(* The fields of lp_state_type keep their ranges.                          *)
THEOREM GsmTyped == Spec => []GsmTypeOK
<1>1. GsmInv => GsmTypeOK
  BY DEF GsmInv
<1> QED BY <1>1, GsmInductive, PTL

-----------------------------------------------------------------------------
(* The list of the channels in use                                         *)

(* A set of natural numbers that is not empty has a least member: the form *)
(* in which the inductions below are made.                                 *)
LEMMA LeastMember ==
  ASSUME NEW T, T \subseteq Nat, T # {}
  PROVE  \E x \in T : \A y \in T : x <= y
<1>1. \E x \in T : \A y \in T : ~ (<<y, x>> \in OpToRel(<, Nat))
  BY WFMin, NatLessThanWellFounded, Zenon
<1>2. PICK x \in T : \A y \in T : ~ (<<y, x>> \in OpToRel(<, Nat))
  BY <1>1, Zenon
<1>3. \A y \in T : ~(y < x)
  BY <1>2 DEF OpToRel
<1> QED BY <1>3

(* The nodes in use in the order of the list, newest first: s[k] is the    *)
(* k-th of the n nodes and NULL behind them; prev leads from a node to the *)
(* one behind it, next to the one before.  The invariant needs the whole   *)
(* order: unlinking a node is right only when both of its neighbours know  *)
(* of it.                                                                  *)
IsList(s, n) ==
  /\ s \in [Nat -> Nodes] /\ n = Cardinality(live)
  /\ \A k \in Nat : s[k] # NULL <=> k < n
  /\ \A j, k \in Nat : j < n /\ s[j] = s[k] => j = k
  /\ \A c \in Channels : c \in live <=> \E k \in Nat : s[k] = c
  /\ s[0] = channels
  /\ \A k \in Nat : k < n => prev[s[k]] = s[k + 1]
  /\ \A k \in Nat : k + 1 < n => next[s[k + 1]] = s[k]
  /\ n > 0 => next[s[0]] = NULL

(* The walk along prev from "channels" meets the nodes in the list's       *)
(* order.  Walk is recursive, so the step before the least k at which it   *)
(* strays would stray, too.                                                *)
LEMMA WalkIsList ==
  ASSUME live \subseteq Channels, NEW s, NEW n, IsList(s, n)
  PROVE  \A k \in 0 .. CHANNELS_PER_CELL : Walk[k] = s[k]
<1>0. n \in Nat /\ 0 .. CHANNELS_PER_CELL \subseteq Nat
  BY ChannelsFinite, GsmAssumption DEF IsList
<1> DEFINE Step(f, k) == IF k = 0 THEN channels
                         ELSE IF f[k - 1] = NULL THEN NULL ELSE prev[f[k - 1]]
           F == [k \in 0 .. CHANNELS_PER_CELL |-> s[k]]
<1>1. F = [k \in 0 .. CHANNELS_PER_CELL |-> Step(F, k)]
  <2> SUFFICES ASSUME NEW k \in 0 .. CHANNELS_PER_CELL PROVE s[k] = Step(F, k)
    OBVIOUS
  <2>1. CASE k = 0
    BY <2>1 DEF IsList
  <2>2. CASE k # 0
    <3>1. k - 1 \in Nat /\ k - 1 \in 0 .. CHANNELS_PER_CELL /\ k = (k - 1) + 1 /\ k \in Nat
      BY <2>2, GsmAssumption
    <3>2. F[k - 1] = s[k - 1]
      BY <3>1
    <3>3. CASE s[k - 1] = NULL
      BY <1>0, <2>2, <3>1, <3>2, <3>3 DEF IsList
    <3>4. CASE s[k - 1] # NULL
      <4>1. prev[s[k - 1]] = s[k]
        BY <1>0, <3>1, <3>4 DEF IsList
      <4> QED BY <2>2, <3>2, <3>4, <4>1
    <3> QED BY <3>3, <3>4
  <2> QED BY <2>1, <2>2
<1>2. Walk = [k \in 0 .. CHANNELS_PER_CELL |-> Step(Walk, k)]
  <2>1. \E f : f = [k \in 0 .. CHANNELS_PER_CELL |-> Step(f, k)]
    BY <1>1
  <2> QED BY <2>1, Zenon DEF Walk
<1>3. SUFFICES ASSUME NEW j \in 0 .. CHANNELS_PER_CELL, Walk[j] # s[j] PROVE FALSE
  OBVIOUS
<1>4. PICK m \in {k \in 0 .. CHANNELS_PER_CELL : Walk[k] # s[k]} :
         \A k \in {k \in 0 .. CHANNELS_PER_CELL : Walk[k] # s[k]} : m <= k
  <2> DEFINE T == {k \in 0 .. CHANNELS_PER_CELL : Walk[k] # s[k]}
  <2>1. T \subseteq Nat /\ T # {}
    BY <1>3
  <2> HIDE DEF T
  <2>2. \E x \in T : \A y \in T : x <= y
    BY <2>1, LeastMember
  <2> QED BY <2>2 DEF T
<1>5. Walk[m] = Step(Walk, m) /\ s[m] = Step(F, m) /\ m \in Nat
  <2> HIDE DEF Step
  <2>1. m \in 0 .. CHANNELS_PER_CELL
    BY <1>4
  <2>2. Walk[m] = Step(Walk, m)
    BY <1>2, <2>1, Zenon
  <2>3. F[m] = Step(F, m) /\ F[m] = s[m]
    BY <1>1, <2>1, Zenon
  <2> QED BY <2>1, <2>2, <2>3
<1>6. CASE m = 0
  BY <1>4, <1>5, <1>6
<1>7. CASE m # 0
  <2>1. m - 1 \in 0 .. CHANNELS_PER_CELL /\ m - 1 < m
    BY <1>4, <1>7, GsmAssumption
  <2>2. Walk[m - 1] = s[m - 1] /\ F[m - 1] = s[m - 1]
    BY <1>4, <2>1
  <2> QED BY <1>4, <1>5, <2>2
<1> QED BY <1>6, <1>7

(* So a walk meets the nodes in use, all of them, and then it ends.        *)
LEMMA ListedIsLive ==
  ASSUME GsmTypeOK, NEW s, NEW n, IsList(s, n)
  PROVE  Listed = live /\ Walk[CHANNELS_PER_CELL] = NULL
<1>1. n \in Nat /\ n <= CHANNELS_PER_CELL /\ CHANNELS_PER_CELL \in Nat /\ live \subseteq Channels
  BY ChannelsFinite, GsmAssumption DEF IsList, GsmTypeOK
<1>2. \A k \in 0 .. CHANNELS_PER_CELL : Walk[k] = s[k]
  BY <1>1, WalkIsList
<1>3. ASSUME NEW c \in Listed PROVE c \in live
  <2>1. PICK k \in 0 .. CHANNELS_PER_CELL : c = s[k] /\ c # NULL
    BY <1>2, <1>3 DEF Listed
  <2> QED BY <2>1 DEF IsList, Nodes
<1>4. ASSUME NEW c \in live PROVE c \in Listed
  <2>1. c \in Channels /\ c # NULL
    BY <1>1, <1>4, GsmAssumption DEF Channels
  <2>2. PICK k \in Nat : s[k] = c
    BY <1>4, <2>1 DEF IsList
  <2>3. k \in 0 .. CHANNELS_PER_CELL
    BY <1>1, <2>1, <2>2 DEF IsList
  <2> QED BY <1>2, <2>1, <2>2, <2>3 DEF Listed
<1>5. s[CHANNELS_PER_CELL] = NULL
  BY <1>1 DEF IsList
<1> QED BY <1>1, <1>2, <1>3, <1>4, <1>5

(* The cell has not failed, and its nodes form a list.                     *)
ListInv ==
  /\ phase \notin Failures
  /\ \E s, n : IsList(s, n)

(* Before the INIT event the list is empty.                                *)
LEMMA InitList == Init => ListInv
<1> SUFFICES ASSUME Init PROVE ListInv
  OBVIOUS
<1> DEFINE s == [k \in Nat |-> NULL]
<1>1. Cardinality(live) = 0
  BY FS_EmptySet DEF Init
<1>2. \A c \in Channels : c # NULL
  BY GsmAssumption DEF Channels
<1>3. IsList(s, 0)
  BY <1>1, <1>2 DEF Init, IsList, Nodes
<1> QED BY <1>3 DEF ListInv, Init, Failures

(* allocation puts a node before all others: its links turn a list into a  *)
(* list.                                                                   *)
LEMMA ConsList ==
  ASSUME GsmTypeOK, NEW s, NEW n, IsList(s, n), NEW i \in Channels, i \notin live,
         next' = [c \in Channels |-> IF c = i THEN NULL
                                     ELSE IF c = channels THEN i ELSE next[c]],
         prev' = [prev EXCEPT ![i] = channels], channels' = i, live' = live \cup {i}
  PROVE  \E t, m : IsList(t, m)'
<1> DEFINE t == [k \in Nat |-> IF k = 0 THEN i ELSE s[k - 1]]
<1>1. n \in Nat /\ Cardinality(live') = n + 1 /\ i # NULL /\ i \in Nodes
  <2>1. IsFiniteSet(live) /\ n = Cardinality(live) /\ n \in Nat
    BY ChannelsFinite DEF GsmTypeOK, IsList
  <2>2. Cardinality(live \cup {i}) = Cardinality(live) + 1
    BY <2>1, FS_AddElement
  <2>3. i # NULL /\ i \in Nodes
    BY GsmAssumption DEF Channels, Nodes
  <2> QED BY <2>1, <2>2, <2>3
<1>2. s \in [Nat -> Nodes] /\ \A k \in Nat : s[k] # i
  BY <1>1 DEF IsList
<1>3. t[0] = i /\ \A k \in Nat : t[k + 1] = s[k]
  OBVIOUS
<1>4. \A k \in Nat : k # 0 => k - 1 \in Nat /\ t[k] = s[k - 1]
  OBVIOUS
<1>5. t \in [Nat -> Nodes]
  BY <1>1, <1>2
<1> HIDE DEF t
<1>6. \A k \in Nat : t[k] # NULL <=> k < n + 1
  BY <1>1, <1>3, <1>4 DEF IsList
<1>7. ASSUME NEW j \in Nat, NEW k \in Nat, j < n + 1, t[j] = t[k] PROVE j = k
  <2>1. CASE j = 0 \/ k = 0
    BY <1>2, <1>3, <1>4, <1>7, <2>1
  <2>2. CASE j # 0 /\ k # 0
    BY <1>1, <1>4, <1>7, <2>2 DEF IsList
  <2> QED BY <2>1, <2>2
<1>8. ASSUME NEW c \in Channels PROVE c \in live' <=> \E k \in Nat : t[k] = c
  <2>1. ASSUME c \in live PROVE \E k \in Nat : t[k] = c
    <3>1. PICK k \in Nat : s[k] = c
      BY <2>1 DEF IsList
    <3> QED BY <1>3, <3>1
  <2>2. ASSUME NEW k \in Nat, t[k] = c PROVE c \in live'
    BY <1>3, <1>4, <2>2 DEF IsList
  <2> QED BY <1>3, <2>1, <2>2
<1>9. ASSUME NEW k \in Nat, k < n + 1 PROVE prev'[t[k]] = t[k + 1]
  <2>1. CASE k = 0
    BY <1>3, <2>1 DEF IsList, GsmTypeOK
  <2>2. CASE k # 0
    <3>1. k - 1 \in Nat /\ k - 1 < n /\ k = (k - 1) + 1 /\ t[k] = s[k - 1]
      BY <1>1, <1>4, <1>9, <2>2
    <3>2. s[k - 1] \in Channels /\ s[k - 1] # i /\ prev[s[k - 1]] = s[k]
      BY <1>2, <3>1 DEF IsList, Nodes
    <3> QED BY <1>3, <3>1, <3>2 DEF GsmTypeOK
  <2> QED BY <2>1, <2>2
<1>10. ASSUME NEW k \in Nat, k + 1 < n + 1 PROVE next'[t[k + 1]] = t[k]
  <2>1. t[k + 1] = s[k] /\ k < n /\ s[k] \in Channels /\ s[k] # i
    BY <1>1, <1>2, <1>3, <1>10 DEF IsList, Nodes
  <2>2. CASE k = 0
    BY <1>3, <2>1, <2>2 DEF IsList
  <2>3. CASE k # 0
    <3>1. k - 1 \in Nat /\ (k - 1) + 1 = k /\ t[k] = s[k - 1] /\ s[k] # s[0]
      BY <1>1, <1>4, <2>1, <2>3 DEF IsList
    <3>2. next[s[k]] = s[k - 1]
      BY <2>1, <3>1 DEF IsList
    <3>3. s[k] # channels
      BY <3>1 DEF IsList
    <3> QED BY <2>1, <3>1, <3>2, <3>3
  <2> QED BY <2>2, <2>3
<1>11. next'[t[0]] = NULL
  BY <1>3
<1>12. IsList(t, n + 1)'
  BY <1>1, <1>3, <1>5, <1>6, <1>7, <1>8, <1>9, <1>10, <1>11 DEF IsList
<1> QED BY <1>12

(* deallocation takes a node out, be it the first, the last or one         *)
(* between: the links of its neighbours close the gap.                     *)
LEMMA UnlinkList ==
  ASSUME GsmTypeOK, NEW s, NEW n, IsList(s, n), NEW c \in live, Unlink(c), live' = live \ {c}
  PROVE  \E t, m : IsList(t, m)'
<1>0. /\ n \in Nat /\ Cardinality(live') = n - 1 /\ n - 1 \in Nat /\ c \in Channels /\ c # NULL
  <2>1. IsFiniteSet(live) /\ n = Cardinality(live) /\ n \in Nat
    BY ChannelsFinite DEF GsmTypeOK, IsList
  <2>2. IsFiniteSet(live \ {c}) /\ Cardinality(live \ {c}) = Cardinality(live) - 1
    BY <2>1, FS_RemoveElement
  <2>3. Cardinality(live \ {c}) \in Nat
    BY <2>2, FS_CardinalityType
  <2>4. c # NULL /\ c \in Channels
    BY GsmAssumption DEF Channels, GsmTypeOK
  <2> QED BY <2>1, <2>2, <2>3, <2>4
<1>1. PICK m \in Nat : s[m] = c /\ m < n
  BY <1>0 DEF IsList
<1>2. /\ s \in [Nat -> Nodes] /\ s[0] = channels
      /\ prev \in [Channels -> Nodes] /\ next \in [Channels -> Nodes]
      /\ \A k \in Nat : s[k] # NULL => s[k] \in Channels
  BY DEF IsList, GsmTypeOK, Nodes
<1> DEFINE t == [k \in Nat |-> IF k < m THEN s[k] ELSE s[k + 1]]
<1>3. /\ \A k \in Nat : k < m => t[k] = s[k]
      /\ \A k \in Nat : k >= m => t[k] = s[k + 1]
      /\ t \in [Nat -> Nodes]
  BY <1>1, <1>2
<1> HIDE DEF t
<1>4. \A k \in Nat : t[k] # NULL <=> k < n - 1
  <2> TAKE k \in Nat
  <2>1. CASE k < m
    BY <1>0, <1>1, <1>3, <2>1 DEF IsList
  <2>2. CASE k >= m
    BY <1>0, <1>1, <1>3, <2>2 DEF IsList
  <2> QED BY <1>1, <2>1, <2>2
<1>5. \A k \in Nat : t[k] # c
  <2> TAKE k \in Nat
  <2>1. CASE k < m
    BY <1>0, <1>1, <1>3, <2>1 DEF IsList
  <2>2. CASE k >= m
    BY <1>0, <1>1, <1>3, <2>2 DEF IsList
  <2> QED BY <1>1, <2>1, <2>2
<1>6. ASSUME NEW j \in Nat, NEW k \in Nat, j < n - 1, t[j] = t[k] PROVE j = k
  <2>1. CASE j < m /\ k < m
    BY <1>0, <1>1, <1>3, <1>6, <2>1 DEF IsList
  <2>2. CASE j < m /\ k >= m
    BY <1>0, <1>1, <1>3, <1>6, <2>2 DEF IsList
  <2>3. CASE j >= m /\ k < m
    BY <1>0, <1>1, <1>3, <1>6, <2>3 DEF IsList
  <2>4. CASE j >= m /\ k >= m
    BY <1>0, <1>1, <1>3, <1>6, <2>4 DEF IsList
  <2> QED BY <1>1, <2>1, <2>2, <2>3, <2>4
<1>7. ASSUME NEW d \in Channels PROVE d \in live' <=> \E k \in Nat : t[k] = d
  <2>1. ASSUME d \in live, d # c PROVE \E k \in Nat : t[k] = d
    <3>1. PICK k \in Nat : s[k] = d
      BY <2>1 DEF IsList
    <3>2. CASE k < m
      BY <1>3, <3>1, <3>2
    <3>3. CASE k > m
      <4>1. k - 1 \in Nat /\ k - 1 >= m /\ (k - 1) + 1 = k
        BY <1>1, <3>3
      <4>2. t[k - 1] = d
        BY <1>3, <3>1, <4>1
      <4> QED BY <4>1, <4>2
    <3> QED BY <1>1, <2>1, <3>1, <3>2, <3>3
  <2>2. ASSUME NEW k \in Nat, t[k] = d PROVE d \in live /\ d # c
    BY <1>3, <1>5, <2>2 DEF IsList
  <2> QED BY <2>1, <2>2
<1>8. prev[c] = s[m + 1]
  BY <1>1 DEF IsList
<1>9. CASE m = 0
  <2>1. /\ c = channels /\ channels' = s[1] /\ prev[c] = s[1] /\ 1 \in Nat
        /\ next' = [d \in Channels |-> IF d \in {c, s[1]} THEN NULL ELSE next[d]]
        /\ prev' = [prev EXCEPT ![c] = NULL]
    BY <1>1, <1>2, <1>8, <1>9 DEF Unlink
  <2>2. \A k \in Nat : t[k] = s[k + 1]
    BY <1>3, <1>9
  <2>3. t[0] = channels'
    BY <2>1, <2>2
  <2>4. ASSUME NEW k \in Nat, k < n - 1 PROVE prev'[t[k]] = t[k + 1]
    <3>1. t[k] = s[k + 1] /\ t[k + 1] = s[(k + 1) + 1] /\ k + 1 \in Nat /\ k + 1 < n
      BY <1>0, <2>2, <2>4
    <3>2. t[k] \in Channels /\ t[k] # c /\ prev[t[k]] = t[k + 1]
      BY <1>0, <1>2, <1>5, <3>1 DEF IsList
    <3> QED BY <1>2, <2>1, <3>2
  <2>5. ASSUME NEW k \in Nat, k + 1 < n - 1 PROVE next'[t[k + 1]] = t[k]
    <3>1. t[k] = s[k + 1] /\ t[k + 1] = s[(k + 1) + 1] /\ k + 1 \in Nat /\ (k + 1) + 1 \in Nat
          /\ (k + 1) + 1 < n /\ (k + 1) + 1 # 1
      BY <1>0, <2>2, <2>5
    <3>2. t[k + 1] \in Channels /\ t[k + 1] # c /\ next[t[k + 1]] = t[k] /\ t[k + 1] # s[1]
      BY <1>0, <1>2, <1>5, <2>1, <3>1 DEF IsList
    <3> QED BY <1>2, <2>1, <3>2
  <2>6. n - 1 > 0 => next'[t[0]] = NULL
    <3>1. n - 1 > 0 => t[0] \in Channels /\ t[0] = s[1]
      BY <1>0, <1>2, <2>1, <2>2 DEF IsList
    <3> QED BY <2>1, <3>1
  <2>7. IsList(t, n - 1)'
    BY <1>0, <1>3, <1>4, <1>6, <1>7, <2>3, <2>4, <2>5, <2>6 DEF IsList
  <2> QED BY <2>7
<1>10. CASE m # 0
  <2>0. m - 1 \in Nat /\ (m - 1) + 1 = m /\ m - 1 < n /\ m - 1 < m /\ m + 1 \in Nat
    BY <1>0, <1>1, <1>10
  <2>1. /\ c # channels /\ channels' = channels
        /\ next[c] = s[m - 1]
        /\ prev' = [d \in Channels |-> IF d = c THEN NULL
                                       ELSE IF d = s[m - 1] THEN s[m + 1] ELSE prev[d]]
        /\ next' = [d \in Channels |-> IF d = c THEN NULL
                                       ELSE IF d = s[m + 1] THEN s[m - 1] ELSE next[d]]
    <3>1. c # channels
      BY <1>0, <1>1, <1>2, <1>10 DEF IsList
    <3>2. next[c] = s[m - 1]
      BY <1>1, <2>0 DEF IsList
    <3> QED BY <1>8, <3>1, <3>2 DEF Unlink
  <2>3. t[0] = channels' /\ t[0] = s[0]
    BY <1>1, <1>2, <1>3, <1>10, <2>1
  <2>4. ASSUME NEW k \in Nat, k < n - 1 PROVE prev'[t[k]] = t[k + 1]
    <3>1. t[k] \in Channels /\ t[k] # c /\ k + 1 \in Nat
      BY <1>2, <1>3, <1>4, <1>5, <2>4, GsmAssumption DEF Nodes
    <3>2. CASE k = m - 1
      BY <1>2, <1>3, <2>0, <2>1, <3>1, <3>2
    <3>3. CASE k + 1 < m
      <4>1. t[k] = s[k] /\ t[k + 1] = s[k + 1] /\ k < n /\ k # m - 1
        BY <1>0, <1>1, <1>3, <2>0, <3>1, <3>3
      <4>2. prev[s[k]] = s[k + 1] /\ s[k] # s[m - 1]
        BY <2>0, <4>1 DEF IsList
      <4> QED BY <2>1, <3>1, <4>1, <4>2
    <3>4. CASE k >= m
      <4>1. t[k] = s[k + 1] /\ t[k + 1] = s[(k + 1) + 1] /\ k + 1 < n /\ k + 1 # m - 1
        BY <1>0, <1>1, <1>3, <2>0, <2>4, <3>1, <3>4
      <4>2. prev[s[k + 1]] = s[(k + 1) + 1] /\ s[k + 1] # s[m - 1]
        BY <2>0, <3>1, <4>1 DEF IsList
      <4> QED BY <2>1, <3>1, <4>1, <4>2
    <3> QED BY <1>1, <3>2, <3>3, <3>4
  <2>5. ASSUME NEW k \in Nat, k + 1 < n - 1 PROVE next'[t[k + 1]] = t[k]
    <3>1. t[k + 1] \in Channels /\ t[k + 1] # c /\ k + 1 \in Nat
      BY <1>2, <1>3, <1>4, <1>5, <2>5, GsmAssumption DEF Nodes
    <3>2. CASE k = m - 1
      <4>1. t[k + 1] = s[m + 1] /\ t[k] = s[m - 1]
        BY <1>1, <1>3, <2>0, <3>1, <3>2
      <4> QED BY <2>1, <3>1, <4>1
    <3>3. CASE k + 1 < m
      <4>1. t[k] = s[k] /\ t[k + 1] = s[k + 1] /\ k + 1 < n /\ k + 1 # m + 1
        BY <1>0, <1>1, <1>3, <2>0, <3>1, <3>3
      <4>2. next[s[k + 1]] = s[k] /\ s[k + 1] # s[m + 1]
        BY <2>0, <3>1, <4>1 DEF IsList
      <4> QED BY <2>1, <3>1, <4>1, <4>2
    <3>4. CASE k >= m
      <4>1. t[k] = s[k + 1] /\ t[k + 1] = s[(k + 1) + 1] /\ (k + 1) + 1 < n /\ (k + 1) + 1 # m + 1
            /\ (k + 1) + 1 \in Nat
        BY <1>0, <1>1, <1>3, <2>0, <2>5, <3>1, <3>4
      <4>2. next[s[(k + 1) + 1]] = s[k + 1] /\ s[(k + 1) + 1] # s[m + 1]
        BY <2>0, <3>1, <4>1 DEF IsList
      <4> QED BY <2>1, <3>1, <4>1, <4>2
    <3> QED BY <1>1, <3>2, <3>3, <3>4
  <2>6. n - 1 > 0 => next'[t[0]] = NULL
    <3> SUFFICES ASSUME n - 1 > 0 PROVE next'[t[0]] = NULL
      OBVIOUS
    <3>1. t[0] \in Channels /\ t[0] = s[0] /\ s[0] # c /\ next[s[0]] = NULL
      BY <1>0, <1>2, <1>5, <2>1, <2>3 DEF IsList
    <3>2. s[0] # s[m + 1]
      BY <1>0, <2>0, <3>1 DEF IsList
    <3> QED BY <2>1, <3>1, <3>2
  <2>7. IsList(t, n - 1)'
    BY <1>0, <1>3, <1>4, <1>6, <1>7, <2>3, <2>4, <2>5, <2>6 DEF IsList
  <2> QED BY <2>7
<1> QED BY <1>9, <1>10

(* No event breaks the list, so the walk of deallocation finds its         *)
(* channel.                                                                *)
LEMMA ListStep == ASSUME GsmInv, ListInv, [Next]_vars PROVE ListInv'
<1> USE DEF ListInv
<1>1. PICK s, n : IsList(s, n)
  OBVIOUS
<1>Q. ASSUME UNCHANGED list_vars, (phase \notin Failures)' PROVE ListInv'
  <2>1. IsList(s, n)'
    BY <1>1, <1>Q DEF IsList, list_vars
  <2> QED BY <1>Q, <2>1
<1>2. ASSUME NEW junk \in SUBSET Bits, ProcessInit(junk) PROVE ListInv'
  BY <1>2, <1>Q DEF ProcessInit, Failures
<1>3. CASE StartCall
  <2>1. CASE channel_counter = 0
    BY <1>3, <1>Q, <2>1 DEF StartCall
  <2>2. CASE channel_counter # 0
    <3>1. phase = "run" /\ allocation /\ Agreement /\ GsmTypeOK
      BY <1>3, <2>2 DEF StartCall, GsmInv
    <3>2. GsmInv'
      BY <1>3, StartCallInv
    <3>3. Search # {}
      BY <3>1, <3>2 DEF allocation, GsmInv
    <3>4. PICK i \in Search :
            /\ next' = [c \in Channels |-> IF c = i THEN NULL
                                           ELSE IF c = channels THEN i ELSE next[c]]
            /\ prev' = [prev EXCEPT ![i] = channels]
            /\ channels' = i
            /\ live' = live \cup {i}
            /\ UNCHANGED phase
      BY <3>1, <3>3 DEF allocation
    <3>5. i \in Channels /\ i \notin live
      BY <3>1 DEF Search, Busy, Agreement
    <3>6. \E t, m : IsList(t, m)'
      BY <1>1, <3>1, <3>4, <3>5, ConsList
    <3> QED BY <3>4, <3>6
  <2> QED BY <2>1, <2>2
<1>4. ASSUME NEW c \in Channels, EndCall(c) PROVE ListInv'
  <2>1. phase = "run" /\ deallocation(c) /\ c \in live /\ GsmTypeOK
    BY <1>4 DEF EndCall, GsmInv, Agreement
  <2>2. c \in Listed
    BY <1>1, <2>1, ListedIsLive
  <2>3. Unlink(c) /\ live' = live \ {c} /\ phase' \in {"run", "done"}
    BY <2>1, <2>2 DEF deallocation
  <2>4. \E t, m : IsList(t, m)'
    BY <1>1, <2>1, <2>3, UnlinkList
  <2> QED BY <2>3, <2>4 DEF Failures
<1>5. CASE UNCHANGED vars
  BY <1>5, <1>Q DEF vars
<1> QED BY <1>2, <1>3, <1>4, <1>5 DEF Next, Done

(* The nodes in use form a list in every state, whatever the order in      *)
(* which the calls end.                                                    *)
THEOREM GsmListInductive == Spec => []ListInv
<1>1. GsmInv /\ ListInv /\ [Next]_vars => ListInv'
  BY ListStep
<1> QED BY <1>1, InitList, GsmInductive, PTL DEF Spec

(* The walks of fading_recheck, allocation and deallocation visit every    *)
(* allocated node once, end, and can be retraced along next.               *)
THEOREM GsmList == Spec => []ListExact
<1>1. GsmInv /\ ListInv => ListExact
  <2> SUFFICES ASSUME GsmTypeOK, NEW s, NEW n, IsList(s, n) PROVE ListExact
    BY DEF GsmInv, ListInv
  <2>1. Listed = live /\ Walk[CHANNELS_PER_CELL] = NULL
    BY ListedIsLive
  <2>2. n \in Nat
    BY ChannelsFinite DEF GsmTypeOK, IsList
  <2>3. ASSUME NEW c \in live, prev[c] # NULL PROVE next[prev[c]] = c
    <3>1. c \in Channels /\ c # NULL
      BY GsmAssumption DEF GsmTypeOK, Channels
    <3>2. PICK k \in Nat : s[k] = c /\ k < n
      BY <3>1 DEF IsList
    <3>3. k + 1 \in Nat /\ prev[c] = s[k + 1]
      BY <3>2 DEF IsList
    <3>4. k + 1 < n
      BY <2>3, <3>3 DEF IsList
    <3> QED BY <3>2, <3>3, <3>4 DEF IsList
  <2>4. channels # NULL => next[channels] = NULL
    BY <2>2 DEF IsList
  <2> QED BY <2>1, <2>3, <2>4 DEF ListExact
<1> QED BY <1>1, GsmInductive, GsmListInductive, PTL

(* The program prints none of its messages of despair: "Unable to allocate *)
(* channel", "Unable to deallocate", "No events to process!".              *)
THEOREM GsmNeverFails == Spec => []NoFailure
<1>1. GsmInv /\ ListInv => NoFailure
  BY DEF GsmInv, ListInv, Agreement, NoFailure
<1> QED BY <1>1, GsmInductive, GsmListInductive, PTL

-----------------------------------------------------------------------------
(* The counters of calls and events                                        *)

(* A counter is moved on, or turns over.                                   *)
LEMMA IncCases ==
  ASSUME NEW x \in 0 .. W - 1
  PROVE  Inc(x) = IF x + 1 = W THEN 0 ELSE x + 1
<1>1. W \in Nat \ {0} /\ x + 1 \in Nat
  BY GsmAssumption
<1>2. CASE x + 1 = W
  BY <1>1, <1>2, SMT DEF Inc
<1>3. CASE x + 1 # W
  BY <1>1, <1>3, ModSmall DEF Inc
<1> QED BY <1>2, <1>3

(* Whole turns of a counter are nothing modulo its width.                  *)
LEMMA WholeTurns ==
  /\ 0 % W = 0
  /\ (0 - W) % W = 0
  /\ (0 - 2 * W) % W = 0
<1>1. W \in Nat \ {0}
  BY GsmAssumption
<1> QED BY <1>1, SMT

(* The arrivals a are the x complete, b blocked and n pending calls, and   *)
(* the events e are the arrivals and completions, up to whole turns of the *)
(* counters.                                                               *)
Balance(a, x, b, n) == a - x - b - n \in {0, 0 - W, 0 - 2 * W}
EventBalance(e, a, x) == e - a - x \in {0, 0 - W}

Ledger ==
  /\ Balance(arriving_calls, complete_calls, blocked_on_setup, Cardinality(ends))
  /\ EventBalance(executed_events, arriving_calls, complete_calls)

(* A blocked, an accepted and a completed call keep the balance, whichever *)
(* of the counters turns over.                                             *)
LEMMA LedgerArith ==
  ASSUME NEW a \in 0 .. W - 1, NEW b \in 0 .. W - 1, NEW x \in 0 .. W - 1, NEW e \in 0 .. W - 1,
         NEW n \in 0 .. W - 1, Balance(a, x, b, n), EventBalance(e, a, x)
  PROVE  /\ Balance(Inc(a), x, Inc(b), n)
         /\ n + 1 < W => Balance(Inc(a), x, b, n + 1)
         /\ n > 0 => Balance(a, Inc(x), b, n - 1)
         /\ EventBalance(Inc(e), Inc(a), x)
         /\ EventBalance(Inc(e), a, Inc(x))
<1> USE DEF Balance, EventBalance
<1>1. W \in Nat \ {0}
  BY GsmAssumption
<1>2. \A y \in 0 .. W - 1 : \/ y + 1 = W /\ Inc(y) = 0
                            \/ y + 1 < W /\ Inc(y) = y + 1
  BY <1>1, IncCases
<1>3. Balance(Inc(a), x, Inc(b), n)
  BY <1>1, <1>2
<1>4. n + 1 < W => Balance(Inc(a), x, b, n + 1)
  BY <1>1, <1>2
<1>5. n > 0 => Balance(a, Inc(x), b, n - 1)
  BY <1>1, <1>2
<1>6. EventBalance(Inc(e), Inc(a), x)
  BY <1>1, <1>2
<1>7. EventBalance(Inc(e), a, Inc(x))
  BY <1>1, <1>2
<1> QED BY <1>3, <1>4, <1>5, <1>6, <1>7

(* Every event keeps the ledger balanced.                                  *)
LEMMA LedgerStep == ASSUME GsmInv, Ledger, [Next]_vars PROVE Ledger'
<1>0. /\ W \in Nat \ {0} /\ CHANNELS_PER_CELL \in Nat /\ CHANNELS_PER_CELL < W
      /\ arriving_calls \in 0 .. W - 1 /\ complete_calls \in 0 .. W - 1
      /\ blocked_on_setup \in 0 .. W - 1 /\ executed_events \in 0 .. W - 1
      /\ IsFiniteSet(ends) /\ Cardinality(ends) \in 0 .. W - 1
  BY ChannelsFinite, GsmAssumption DEF GsmInv, GsmTypeOK
<1>1. /\ Balance(Inc(arriving_calls), complete_calls, Inc(blocked_on_setup), Cardinality(ends))
      /\ Cardinality(ends) + 1 < W =>
           Balance(Inc(arriving_calls), complete_calls, blocked_on_setup, Cardinality(ends) + 1)
      /\ Cardinality(ends) > 0 =>
           Balance(arriving_calls, Inc(complete_calls), blocked_on_setup, Cardinality(ends) - 1)
      /\ EventBalance(Inc(executed_events), Inc(arriving_calls), complete_calls)
      /\ EventBalance(Inc(executed_events), arriving_calls, Inc(complete_calls))
  BY <1>0, LedgerArith DEF Ledger
<1>Q. CASE UNCHANGED <<ends, count_vars>>
  BY <1>Q DEF Ledger, count_vars
<1>2. ASSUME NEW junk \in SUBSET Bits, ProcessInit(junk) PROVE Ledger'
  BY <1>2, <1>Q DEF ProcessInit
<1>3. CASE StartCall
  <2>1. /\ arriving_calls' = Inc(arriving_calls) /\ executed_events' = Inc(executed_events)
        /\ complete_calls' = complete_calls
    BY <1>3 DEF StartCall
  <2>2. \/ blocked_on_setup' = Inc(blocked_on_setup) /\ ends' = ends
        \/ blocked_on_setup' = blocked_on_setup /\ Cardinality(ends') = Cardinality(ends) + 1
    <3>1. CASE channel_counter = 0
      BY <1>3, <3>1 DEF StartCall
    <3>2. CASE channel_counter # 0
      <4>1. GsmInv'
        BY <1>3, StartCallInv
      <4>2. PICK i \in Search : ends' = ends \cup {i}
        BY <1>3, <3>2, <4>1 DEF StartCall, allocation, GsmInv
      <4>3. i \notin ends
        BY <1>3 DEF StartCall, Search, Busy, GsmInv, Agreement
      <4>4. Cardinality(ends') = Cardinality(ends) + 1
        BY <1>0, <4>2, <4>3, FS_AddElement
      <4> QED BY <1>3, <3>2, <4>4 DEF StartCall
    <3> QED BY <3>1, <3>2
  <2>3. Cardinality(ends') < W /\ Cardinality(ends') \in Nat
    BY <1>0, <1>3, StartCallInv, ChannelsFinite DEF GsmInv, GsmTypeOK
  <2>4. CASE blocked_on_setup' = Inc(blocked_on_setup) /\ ends' = ends
    BY <1>1, <2>1, <2>4, Zenon DEF Ledger
  <2>5. CASE blocked_on_setup' = blocked_on_setup /\ Cardinality(ends') = Cardinality(ends) + 1
    <3>1. Cardinality(ends) + 1 < W
      BY <2>3, <2>5
    <3> QED BY <1>1, <2>1, <2>5, <3>1, Zenon DEF Ledger
  <2> QED BY <2>2, <2>4, <2>5
<1>4. ASSUME NEW c \in Channels, EndCall(c) PROVE Ledger'
  <2>1. /\ executed_events' = Inc(executed_events) /\ complete_calls' = Inc(complete_calls)
        /\ UNCHANGED <<arriving_calls, blocked_on_setup>> /\ c \in ends /\ ends' = ends \ {c}
    BY <1>4 DEF EndCall
  <2>2. Cardinality(ends') = Cardinality(ends) - 1
    BY <1>0, <2>1, FS_RemoveElement
  <2>3. Cardinality(ends') < W /\ Cardinality(ends') \in Nat
    BY <1>0, <1>4, EndCallInv, ChannelsFinite DEF GsmInv, GsmTypeOK
  <2>4. Cardinality(ends) > 0
    BY <1>0, <2>2, <2>3
  <2> QED BY <1>1, <2>1, <2>2, <2>4, Zenon DEF Ledger
<1>5. CASE UNCHANGED vars
  BY <1>5, <1>Q DEF vars
<1> QED BY <1>2, <1>3, <1>4, <1>5 DEF Next, Done

(* Every call is completed, blocked or in progress and every event is      *)
(* counted once, though each of the counters turns over on its own.        *)
THEOREM GsmLedger == Spec => []CallsConserved
<1>1. Init => Ledger
  <2>1. Init => Cardinality(ends) = 0
    BY FS_EmptySet DEF Init
  <2> QED BY <2>1 DEF Init, Ledger, Balance, EventBalance
<1>2. GsmInv /\ Ledger /\ [Next]_vars => Ledger'
  BY LedgerStep
<1>3. Ledger => CallsConserved
  BY WholeTurns DEF Ledger, Balance, EventBalance, CallsConserved
<1> QED BY <1>1, <1>2, <1>3, GsmInductive, PTL DEF Spec
=============================================================================
