------------------------------ MODULE GsmCell ------------------------------
(***************************************************************************)
(* One cell of the GSM simulation (libfibers/testbed/src/model.c and       *)
(* channel.c), driven by the loop of one fiber (main_loop in main.c).  The *)
(* cell keeps three views of its busy channels: a counter of free ones, a  *)
(* bitmap and a doubly linked list; and the event queue holds one END_CALL *)
(* for each call in progress.                                              *)
(*                                                                         *)
(* Times are random, so pending events happen in any order.  Signal power  *)
(* and fading decide nothing and are left out; a node of the list is its   *)
(* channel_id.                                                             *)
(***************************************************************************)
EXTENDS Integers, FiniteSets

CONSTANTS
  CHANNELS_PER_CELL,
  BITS,             \* bits of a word of the bitmap
  COMPLETE_CALLS,   \* completed calls that end the simulation
  W,                \* values of an unsigned counter, 2^32 in the code
  NULL

ASSUME GsmAssumption ==
  /\ CHANNELS_PER_CELL \in Nat \ {0} /\ BITS \in Nat \ {0}
  /\ W \in Nat \ {0} /\ COMPLETE_CALLS \in 1 .. W - 1
  /\ CHANNELS_PER_CELL < W
  /\ NULL \notin Int

Channels == 0 .. CHANNELS_PER_CELL - 1
Words == 0 .. 2 * (CHANNELS_PER_CELL \div BITS + 1) - 1
Bits == 0 .. BITS - 1
Nodes == Channels \cup {NULL}

VARIABLES
  phase,            \* main_loop: "init", "run", "done" or how it failed
  starts,           \* START_CALL events in the queue
  ends,             \* channels with an END_CALL event in the queue
  channel_counter,  \* how many channels are free
  channel_state,    \* the bitmap: word -> bits that are set
  channels,         \* the newest node of the list
  prev, next,       \* node -> its older and its newer neighbour
  live,             \* the nodes that are allocated
  arriving_calls, complete_calls, blocked_on_setup, executed_events

count_vars == <<arriving_calls, complete_calls, blocked_on_setup, executed_events>>
list_vars == <<channels, prev, next, live>>
vars == <<phase, starts, ends, channel_counter, channel_state, list_vars, count_vars>>

Init ==
  /\ phase = "init"
  /\ starts = 0 /\ ends = {}
  /\ channel_counter = 0
  /\ channel_state = [w \in Words |-> {}]
  /\ channels = NULL
  /\ prev = [c \in Channels |-> NULL] /\ next = [c \in Channels |-> NULL]
  /\ live = {}
  /\ arriving_calls = 0 /\ complete_calls = 0
  /\ blocked_on_setup = 0 /\ executed_events = 0

Inc(x) == (x + 1) % W

CHECK_CHANNEL(i) == i % BITS \in channel_state[i \div BITS]
SET_CHANNEL(i) ==
  channel_state' = [channel_state EXCEPT ![i \div BITS] = @ \cup {i % BITS}]
RESET_CHANNEL(i) ==
  channel_state' = [channel_state EXCEPT ![i \div BITS] = @ \ {i % BITS}]

-----------------------------------------------------------------------------
(* Seeded fault: one word too few is cleared.                              *)
FaultProcessInit(junk) ==
  /\ phase = "init" /\ phase' = "run"
  /\ channel_counter' = CHANNELS_PER_CELL
  /\ channel_state' = [w \in Words |-> IF w < CHANNELS_PER_CELL \div BITS THEN {} ELSE junk]
  /\ starts' = 1
  /\ UNCHANGED <<ends, list_vars, count_vars>>

(* The INIT event, the first of every fiber: the bitmap is in fresh memory *)
(* with some junk in it, of which the first words are cleared.             *)
ProcessInit(junk) ==
  /\ phase = "init" /\ phase' = "run"
  /\ channel_counter' = CHANNELS_PER_CELL
  /\ channel_state' = [w \in Words |-> IF w < CHANNELS_PER_CELL \div BITS + 1 THEN {} ELSE junk]
  /\ starts' = 1
  /\ UNCHANGED <<ends, list_vars, count_vars>>

(* The nodes that a walk along prev meets, in k steps from the newest.     *)
Walk[k \in 0 .. CHANNELS_PER_CELL] ==
  IF k = 0 THEN channels
  ELSE IF Walk[k - 1] = NULL THEN NULL ELSE prev[Walk[k - 1]]

Listed == {Walk[k] : k \in 0 .. CHANNELS_PER_CELL} \ {NULL}

(* Seeded fault: the search for a channel stops before the last one.       *)
FaultSearch == {i \in Channels : i < CHANNELS_PER_CELL - 1 /\ ~CHECK_CHANNEL(i)}

(* The channels whose bit is clear.                                        *)
Search == {i \in Channels : ~CHECK_CHANNEL(i)}

(* The lowest free channel gets a node at the head of the list, and the    *)
(* call an END_CALL event; without one the program aborts.                 *)
allocation ==
  IF Search = {}
    THEN phase' = "unable_to_allocate" /\ UNCHANGED <<ends, channel_state, list_vars>>
    ELSE \E i \in Search :
           /\ \A j \in Search : i <= j
           /\ SET_CHANNEL(i)
           /\ next' = [c \in Channels |-> IF c = i THEN NULL
                                          ELSE IF c = channels THEN i ELSE next[c]]
           /\ prev' = [prev EXCEPT ![i] = channels]
           /\ channels' = i
           /\ live' = live \cup {i}
           /\ ends' = ends \cup {i}
           /\ UNCHANGED phase

(* START_CALL: the call gets a channel or is lost, and the next START_CALL *)
(* replaces this one.                                                      *)
StartCall ==
  /\ phase = "run" /\ starts > 0
  /\ arriving_calls' = Inc(arriving_calls)
  /\ executed_events' = Inc(executed_events)
  /\ IF channel_counter = 0
       THEN /\ blocked_on_setup' = Inc(blocked_on_setup)
            /\ UNCHANGED <<phase, ends, channel_counter, channel_state, list_vars>>
       ELSE /\ channel_counter' = channel_counter - 1
            /\ allocation
            /\ UNCHANGED blocked_on_setup
  /\ UNCHANGED <<starts, complete_calls>>

(* Seeded fault: the older neighbour is not told who is newer than it now. *)
FaultUnlink(c) ==
  IF c = channels
    THEN /\ channels' = prev[c]
         /\ next' = [n \in Channels |-> IF n \in {c, prev[c]} THEN NULL ELSE next[n]]
         /\ prev' = [prev EXCEPT ![c] = NULL]
    ELSE /\ prev' = [n \in Channels |-> IF n = c THEN NULL
                                        ELSE IF n = next[c] THEN prev[c] ELSE prev[n]]
         /\ next' = [next EXCEPT ![c] = NULL]
         /\ UNCHANGED channels

(* The node is taken out of the list; nothing is left in its fields.       *)
Unlink(c) ==
  IF c = channels
    THEN /\ channels' = prev[c]
         /\ next' = [n \in Channels |-> IF n \in {c, prev[c]} THEN NULL ELSE next[n]]
         /\ prev' = [prev EXCEPT ![c] = NULL]
    ELSE /\ prev' = [n \in Channels |-> IF n = c THEN NULL
                                        ELSE IF n = next[c] THEN prev[c] ELSE prev[n]]
         /\ next' = [n \in Channels |-> IF n = c THEN NULL
                                        ELSE IF n = prev[c] THEN next[c] ELSE next[n]]
         /\ UNCHANGED channels

(* Seeded fault: main_loop clears ret after every event.                   *)
FaultFinished == FALSE

(* ProcessEvent returns 1, and main_loop ends.                             *)
Finished == complete_calls' = COMPLETE_CALLS

(* deallocation aborts when the walk does not meet the channel.            *)
deallocation(c) ==
  IF c \in Listed
    THEN /\ Unlink(c)
         /\ RESET_CHANNEL(c)
         /\ live' = live \ {c}
         /\ phase' = IF Finished THEN "done" ELSE phase
    ELSE /\ phase' = "unable_to_deallocate"
         /\ UNCHANGED <<channel_state, list_vars>>

(* Seeded fault: the completed call is not counted.                        *)
FaultEndCall(c) ==
  /\ phase = "run" /\ c \in ends
  /\ ends' = ends \ {c}
  /\ executed_events' = Inc(executed_events)
  /\ complete_calls' = complete_calls
  /\ channel_counter' = (channel_counter + 1) % W
  /\ deallocation(c)
  /\ UNCHANGED <<starts, arriving_calls, blocked_on_setup>>

(* END_CALL: the channel is free again.                                    *)
EndCall(c) ==
  /\ phase = "run" /\ c \in ends
  /\ ends' = ends \ {c}
  /\ executed_events' = Inc(executed_events)
  /\ complete_calls' = Inc(complete_calls)
  /\ channel_counter' = (channel_counter + 1) % W
  /\ deallocation(c)
  /\ UNCHANGED <<starts, arriving_calls, blocked_on_setup>>

(* The fiber has left its loop.                                            *)
Done == phase = "done" /\ UNCHANGED vars

Next ==
  \/ \E junk \in SUBSET Bits : ProcessInit(junk)
  \/ StartCall
  \/ \E c \in Channels : EndCall(c)
  \/ Done

(* The fiber goes on, and since every new event lies in the future, an     *)
(* event in the queue has its turn.                                        *)
Spec == Init /\ [][Next]_vars
FairSpec ==
  /\ Spec
  /\ WF_vars(\E junk \in SUBSET Bits : ProcessInit(junk))
  /\ WF_vars(StartCall)
  /\ \A c \in Channels : WF_vars(EndCall(c))

-----------------------------------------------------------------------------
(* Properties                                                              *)

Failures == {"unable_to_allocate", "unable_to_deallocate"}

(* The fields of lp_state_type keep their types: in particular every link  *)
(* of the list is a channel or NULL, and the counters are as wide as in C. *)
GsmTypeOK ==
  /\ phase \in {"init", "run", "done"} \cup Failures
  /\ starts \in Nat /\ ends \subseteq Channels
  /\ channel_counter \in 0 .. W - 1
  /\ channel_state \in [Words -> SUBSET Bits]
  /\ channels \in Nodes
  /\ prev \in [Channels -> Nodes] /\ next \in [Channels -> Nodes]
  /\ live \subseteq Channels
  /\ {arriving_calls, complete_calls, blocked_on_setup, executed_events} \subseteq 0 .. W - 1

Busy == {c \in Channels : CHECK_CHANNEL(c)}

(* The counter, the bitmap, the list's nodes and the pending END_CALL      *)
(* events agree on the channels in use, though START_CALL and END_CALL     *)
(* change them one by one and in any order.                                *)
ViewsAgree ==
  phase \in {"run", "done"} =>
    /\ Busy = ends
    /\ live = ends
    /\ channel_counter = CHANNELS_PER_CELL - Cardinality(ends)

(* The list from "channels" along prev visits every allocated node once    *)
(* and ends, and next leads back: no walk of fading_recheck, allocation or *)
(* deallocation runs into freed memory or round in circles.                *)
ListExact ==
  phase \in {"run", "done"} =>
    /\ Listed = live
    /\ Walk[CHANNELS_PER_CELL] = NULL
    /\ \A c \in live : prev[c] # NULL => next[prev[c]] = c
    /\ channels # NULL => next[channels] = NULL

(* Neither "Unable to allocate channel, but the counter says I have ...",  *)
(* nor "Unable to deallocate", nor "No events to process!".                *)
NoFailure ==
  /\ phase \notin Failures
  /\ phase = "run" => starts > 0 \/ ends # {}

(* Every call is completed, blocked or in progress, up to the width of the *)
(* counters.                                                               *)
CallsConserved ==
  phase \in {"run", "done"} =>
    /\ (arriving_calls - complete_calls - blocked_on_setup - Cardinality(ends)) % W = 0
    /\ (executed_events - arriving_calls - complete_calls) % W = 0

(* The fiber of the cell completes its calls and leaves the loop.          *)
Completes == <>(phase = "done")
=============================================================================
