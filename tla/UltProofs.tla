----------------------------- MODULE UltProofs -----------------------------
(***************************************************************************)
(* Theorems about the user-space fibers, for any number of threads and     *)
(* fibers.  The alarm may arrive anywhere and every fiber may complete.    *)
(* Types always hold; what the library promises holds until an alarm has   *)
(* arrived inside ult_switch_to or the last fiber has completed.           *)
(***************************************************************************)
EXTENDS Ult, UltFls, SequenceTheorems, TLAPS

-----------------------------------------------------------------------------
(* What is interrupted by the alarm: user code, or the body of a switch.   *)
FrameKinds ==
  {fr \in Frame :
     \/ fr.pc = "user" /\ fr.from = NoFiber /\ fr.to = NoFiber
     \/ fr.pc \in InSwitch /\ fr.from \in Fibers /\ fr.to \in Fibers}

GoodConts == [flow : Flows, at : Nat, frames : Seq(FrameKinds)]
GoodImages ==
  {i \in [c : GoodConts, zero : BOOLEAN, from : Fibers \cup {NoFiber},
          to : Fibers \cup {NoFiber}, new : SUBSET Fibers] :
     i.zero => i.from \in Fibers /\ i.to \in Fibers}

(* Inside the library the locals point to fibers, and the thread has one.  *)
LocalsOK ==
  \A t \in Threads :
    /\ pc[t] = "user" => from[t] = NoFiber /\ to[t] = NoFiber
    /\ pc[t] # "user" => from[t] \in Fibers /\ to[t] \in Fibers
    /\ pc[t] # "user" \/ cont[t].frames # <<>> => current[t] \in Fibers

ThreadTypes ==
  /\ pc \in [Threads -> Labels] /\ cont \in [Threads -> GoodConts]
  /\ from \in [Threads -> Fibers \cup {NoFiber}] /\ to \in [Threads -> Fibers \cup {NoFiber}]
  /\ current \in [Threads -> Fibers \cup {NoFiber}]

GlobalTypes ==
  /\ ult_id \in Nat /\ running \in [Fibers -> BOOLEAN] /\ ctx \in [Fibers -> GoodImages]
  /\ mask \in [Threads -> BOOLEAN] /\ init_complete \in BOOLEAN /\ completed_fibers \in Nat
  /\ abandoned \subseteq Threads /\ interrupted \in BOOLEAN /\ known \subseteq Fibers /\ born \subseteq Fibers
  /\ pos \in [Flows -> Nat]

TypeInv == ThreadTypes /\ GlobalTypes /\ LocalsOK

(* Until ult_switch_to is interrupted every handler interrupts user code.  *)
UserFrames == {fr \in FrameKinds : fr.pc = "user"}
Calm ==
  /\ \A t \in Threads : cont[t].frames \in Seq(UserFrames)
  /\ \A f \in Fibers : ctx[f].c.frames \in Seq(UserFrames)

-----------------------------------------------------------------------------
(* Every fiber that anything names has been made.                          *)
Made == {f \in Fibers : f < ult_id}

FreshOK ==
  /\ known \subseteq Made /\ born \subseteq Made
  /\ \A f \in Fibers : running[f] => f \in Made
  /\ \A t \in Threads : {current[t], from[t], to[t]} \subseteq Made \cup {NoFiber}
  /\ \A f \in Fibers : /\ ctx[f].new \subseteq Made
                       /\ {ctx[f].from, ctx[f].to} \subseteq Made \cup {NoFiber}

(* Which fiber "current" is in the course of a switch.                     *)
CurrentOK ==
  \A t \in Threads :
    /\ pc[t] \in {"sw_cur", "cr_unlock"} => current[t] = from[t]
    /\ pc[t] \in {"sw_save", "sw_unlock", "sw_jump"} => current[t] = to[t]
    /\ pc[t] \notin {"user", "sw_jump", "boot"} => from[t] # to[t]

(* Until the last fiber completes no context is saved with rax = 0.        *)
NoZero == \A f \in Fibers : ~ctx[f].zero

Locks ==
  \A f \in Fibers :
    /\ running[f] <=> \E t \in Threads : Holds(t, f)
    /\ \A t, u \in Threads : Holds(t, f) /\ Holds(u, f) => t = u

LockInv ==
  ~interrupted => /\ Calm /\ FreshOK
                  /\ completed_fibers > 0 => CurrentOK /\ NoZero /\ Locks

-----------------------------------------------------------------------------
(* The fibers whose context leads into thread_initialization.              *)
Abandoned == {f \in Fibers : ctx[f].c.flow \in abandoned}

(* They are the fibers of the threads that are still there, nobody enters  *)
(* one, and no other context names one.                                    *)
ThreadBack(t) ==
  /\ to[t] \notin Abandoned
  /\ current[t] = NoFiber => cont[t].flow = t
  /\ pc[t] \notin {"user", "sw_cur"} => current[t] \notin Abandoned
  /\ cont[t].flow \notin abandoned => current[t] \notin Abandoned /\ from[t] \notin Abandoned
  /\ cont[t].flow \in abandoned =>
       /\ pc[t] \in {"user", "sw_cur", "sw_save", "sw_unlock", "sw_jump"}
       /\ pc[t] = "user" => current[t] \in Abandoned \cup {NoFiber}
       /\ pc[t] \in {"sw_cur", "sw_save"} => from[t] \in Abandoned

ImageBack(f) ==
  f \notin Abandoned => /\ ctx[f].new \cap Abandoned = {}
                       /\ ctx[f].from \notin Abandoned /\ ctx[f].to \notin Abandoned

BackInv ==
  /\ known \cap Abandoned = {}
  /\ \A t \in Threads : ThreadBack(t)
  /\ \A f \in Fibers : ImageBack(f)

-----------------------------------------------------------------------------
(* The fiber whose flow the thread executes.                               *)
Active(t) == CASE pc[t] = "user" -> current[t]
               [] pc[t] \in {"sw_jump", "boot"} -> to[t]
               [] OTHER -> from[t]

(* A fiber has one flow for its life, and no other fiber has it.           *)
OwnFlow(f) == ctx[f].c.flow
FibersOwn ==
  /\ \A f \in Made : OwnFlow(f) \in Threads \cup born
  /\ \A f, g \in Made : OwnFlow(f) = OwnFlow(g) => f = g

(* A thread executes the flow of its fiber, where that flow was left.      *)
ThreadFlow(t) ==
  /\ Active(t) = NoFiber => cont[t].flow = t /\ \A f \in Made : OwnFlow(f) # t
  /\ Active(t) # NoFiber /\ pc[t] # "sw_jump" => cont[t].flow = OwnFlow(Active(t))
  /\ pc[t] = "cr_unlock" => OwnFlow(to[t]) = to[t] /\ pos[to[t]] = 0
  /\ pc[t] # "sw_jump" => cont[t].at = pos[cont[t].flow]

(* The context of the fiber is older than what its thread does.            *)
StaleBy(t, f) == Active(t) = f /\ pc[t] \in {"user", "sw_cur", "sw_save"}

SavedAt(f) == (\A t \in Threads : ~StaleBy(t, f)) => ctx[f].c.at = pos[OwnFlow(f)]

FlowInv ==
  /\ FibersOwn
  /\ \A t \in Threads : ThreadFlow(t)
  /\ \A f \in Made : SavedAt(f)
  /\ \A f \in Fibers \ Made : pos[f] = 0

-----------------------------------------------------------------------------
(* Types                                                                   *)

LEMMA FrameType == GoodConts \subseteq Conts /\ GoodImages \subseteq Images
<1>1. FrameKinds \subseteq Frame
  BY DEF FrameKinds
<1>2. Seq(FrameKinds) \subseteq Seq(Frame)
  BY <1>1, SeqMonotonic
<1>3. GoodConts \subseteq Conts
  BY <1>2 DEF GoodConts, Conts
<1> QED BY <1>3 DEF GoodImages, Images

LEMMA FreshType ==
  ASSUME NEW s \in Flows
  PROVE  Fresh(s) \in GoodConts
  BY EmptySeq DEF Fresh, GoodConts

LEMMA ImageType ==
  ASSUME NEW c \in GoodConts, NEW z \in BOOLEAN, NEW f \in Fibers \cup {NoFiber},
         NEW g \in Fibers \cup {NoFiber}, NEW n \in SUBSET Fibers,
         z => f \in Fibers /\ g \in Fibers
  PROVE  /\ Image(c, z, f, g, n) \in GoodImages
         /\ Image(c, z, f, g, n).c = c /\ Image(c, z, f, g, n).zero = z
         /\ Image(c, z, f, g, n).from = f /\ Image(c, z, f, g, n).to = g
         /\ Image(c, z, f, g, n).new = n
  BY DEF Image, GoodImages

LEMMA TypeInit == Init => TypeInv
<1> SUFFICES ASSUME Init PROVE TypeInv
  OBVIOUS
<1> USE UltAssumption DEF Init
<1>1. \A t \in Threads : cont[t] = Fresh(t) /\ cont[t] \in GoodConts
  BY FreshType DEF Flows
<1>2. ASSUME NEW f \in Fibers PROVE ctx[f] \in GoodImages
  <2>1. Fresh(f) \in GoodConts
    BY FreshType DEF Flows
  <2> QED
    BY <2>1, ImageType
<1>3. ThreadTypes
  BY <1>1 DEF ThreadTypes, Labels
<1>4. GlobalTypes
  BY <1>2 DEF GlobalTypes
<1>5. LocalsOK
  BY <1>1 DEF LocalsOK, Fresh
<1> QED
  BY <1>3, <1>4, <1>5 DEF TypeInv

(* Every step keeps the types.                                             *)
LEMMA TypeStep == TypeInv /\ [Next]_vars => TypeInv'
<1> SUFFICES ASSUME TypeInv, [Next]_vars PROVE TypeInv'
  OBVIOUS
<1> USE UltAssumption DEF TypeInv
<1>1. ASSUME NEW t \in Threads, ult_convert(t) PROVE TypeInv'
  <2> DEFINE n == ult_id
  <2>1. /\ pc[t] = "user" /\ n \in Fibers
        /\ ult_id' = n + 1 /\ running' = [running EXCEPT ![n] = TRUE]
        /\ ctx' = [ctx EXCEPT ![n] = Image(cont[t], FALSE, NoFiber, NoFiber, {})]
        /\ current' = [current EXCEPT ![t] = n]
        /\ known' \in {known, known \cup {n}}
        /\ UNCHANGED <<pc, from, to, cont, mask, main_vars, born, pos>>
    BY <1>1 DEF ult_convert, InUser, local_vars
  <2>2. Image(cont[t], FALSE, NoFiber, NoFiber, {}) \in GoodImages
    BY ImageType DEF ThreadTypes
  <2> HIDE DEF n
  <2>3. ThreadTypes'
    BY <2>1 DEF ThreadTypes
  <2>4. GlobalTypes'
    <3>1. ctx' \in [Fibers -> GoodImages]
      BY <2>1, <2>2 DEF GlobalTypes
    <3>2. ult_id' \in Nat /\ known' \subseteq Fibers
      BY <2>1 DEF GlobalTypes, n
    <3>3. running' \in [Fibers -> BOOLEAN]
      BY <2>1 DEF GlobalTypes
    <3> QED BY <2>1, <3>1, <3>2, <3>3 DEF GlobalTypes, main_vars
  <2>5. LocalsOK'
    BY <2>1 DEF LocalsOK, ThreadTypes
  <2> QED
    BY <2>3, <2>4, <2>5
<1>2. ASSUME NEW t \in Threads, ult_creat(t) PROVE TypeInv'
  <2> DEFINE n == ult_id
             x == current[t]
  <2>1. /\ n \in Fibers /\ x \in Fibers /\ ult_id' = n + 1
        /\ running' = [running EXCEPT ![n] = TRUE]
        /\ ctx' = [ctx EXCEPT ![n] = Image(Fresh(n), FALSE, NoFiber, NoFiber, {}),
                              ![x] = Image(cont[t], FALSE, NoFiber, NoFiber, {n})]
        /\ from' = [from EXCEPT ![t] = x] /\ to' = [to EXCEPT ![t] = n]
        /\ pc' = [pc EXCEPT ![t] = "cr_unlock"] /\ born' = born \cup {n}
        /\ UNCHANGED <<current, cont, mask, main_vars, known, pos>>
    BY <1>2 DEF ult_creat, context_create, ThreadTypes
  <2>2. /\ Image(Fresh(n), FALSE, NoFiber, NoFiber, {}) \in GoodImages
        /\ Image(cont[t], FALSE, NoFiber, NoFiber, {n}) \in GoodImages
    <3>1. Fresh(n) \in GoodConts
      BY <2>1, FreshType DEF Flows
    <3>2. cont[t] \in GoodConts /\ {n} \in SUBSET Fibers
      BY <2>1 DEF ThreadTypes
    <3> HIDE DEF n
    <3> QED BY <3>1, <3>2, ImageType
  <2>3. ThreadTypes'
    BY <2>1 DEF ThreadTypes, Labels
  <2>4. GlobalTypes'
    <3>1. ctx' \in [Fibers -> GoodImages]
      BY <2>1, <2>2 DEF GlobalTypes
    <3>2. ult_id' \in Nat /\ born' \subseteq Fibers
      BY <2>1 DEF GlobalTypes
    <3>3. running' \in [Fibers -> BOOLEAN]
      BY <2>1 DEF GlobalTypes
    <3> QED BY <2>1, <3>1, <3>2, <3>3 DEF GlobalTypes, main_vars
  <2>5. LocalsOK'
    BY <2>1 DEF LocalsOK, ThreadTypes
  <2> QED
    BY <2>3, <2>4, <2>5
<1>3. ASSUME NEW t \in Threads, CreatUnlock(t) PROVE TypeInv'
  <2>1. pc[t] = "cr_unlock" /\ from[t] \in Fibers /\ to[t] \in Fibers /\ current[t] \in Fibers
    BY <1>3 DEF CreatUnlock, Goto, LocalsOK
  <2>2. Fresh(to[t]) \in GoodConts
    BY <2>1, FreshType DEF Flows
  <2>3. ThreadTypes'
    BY <1>3, <2>2 DEF CreatUnlock, Goto, ThreadTypes, Labels
  <2>4. GlobalTypes'
    BY <1>3 DEF CreatUnlock, GlobalTypes, main_vars
  <2>5. LocalsOK'
    BY <1>3, <2>1 DEF CreatUnlock, Goto, LocalsOK, ThreadTypes
  <2> QED
    BY <2>3, <2>4, <2>5
<1>4. ASSUME NEW t \in Threads, context_create_boot(t) PROVE TypeInv'
  <2>1. pc[t] = "boot" /\ from[t] \in Fibers /\ to[t] \in Fibers /\ current[t] \in Fibers
    BY <1>4 DEF context_create_boot, Goto, LocalsOK
  <2>2. Image(cont[t], FALSE, NoFiber, NoFiber, {}) \in GoodImages
    BY ImageType DEF ThreadTypes
  <2>3. ThreadTypes'
    BY <1>4 DEF context_create_boot, Goto, ThreadTypes, Labels, InSwitch
  <2>4. GlobalTypes'
    BY <1>4, <2>2 DEF context_create_boot, ult_lock, ult_trylock, GlobalTypes, main_vars
  <2>5. LocalsOK'
    BY <1>4, <2>1 DEF context_create_boot, Goto, LocalsOK, ThreadTypes
  <2> QED
    BY <2>3, <2>4, <2>5
<1>5. ASSUME NEW t \in Threads, NEW f \in Fibers, ult_switch_to(t, f) PROVE TypeInv'
  <2>1. current[t] \in Fibers
    BY <1>5 DEF ult_switch_to, Trylock, ThreadTypes
  <2>3. ThreadTypes'
    BY <1>5 DEF ult_switch_to, Trylock, ThreadTypes, Labels, InSwitch
  <2>4. GlobalTypes'
    BY <1>5 DEF ult_switch_to, Trylock, ult_trylock, GlobalTypes, main_vars
  <2>5. LocalsOK'
    BY <1>5, <2>1 DEF ult_switch_to, Trylock, LocalsOK, ThreadTypes
  <2> QED
    BY <2>3, <2>4, <2>5
<1>6. ASSUME NEW t \in Threads, SetCurrent(t) PROVE TypeInv'
  <2>1. pc[t] = "sw_cur" /\ from[t] \in Fibers /\ to[t] \in Fibers
    BY <1>6 DEF SetCurrent, Goto, LocalsOK
  <2>3. ThreadTypes'
    BY <1>6 DEF SetCurrent, Goto, ThreadTypes, Labels, InSwitch
  <2>4. GlobalTypes'
    BY <1>6 DEF SetCurrent, GlobalTypes, main_vars
  <2>5. LocalsOK'
    BY <1>6, <2>1 DEF SetCurrent, Goto, LocalsOK, ThreadTypes
  <2> QED
    BY <2>3, <2>4, <2>5
<1>7. ASSUME NEW t \in Threads, Save(t) PROVE TypeInv'
  <2>1. pc[t] = "sw_save" /\ from[t] \in Fibers /\ to[t] \in Fibers
    BY <1>7 DEF Save, Goto, LocalsOK
  <2>2. Image(cont[t], completed_fibers = 0, from[t], to[t], {}) \in GoodImages
    BY <2>1, ImageType DEF ThreadTypes
  <2>3. ThreadTypes'
    BY <1>7 DEF Save, Goto, ThreadTypes, Labels, InSwitch
  <2>4. GlobalTypes'
    BY <1>7, <2>2 DEF Save, GlobalTypes, main_vars
  <2>5. LocalsOK'
    BY <1>7, <2>1 DEF Save, Goto, LocalsOK, ThreadTypes
  <2> QED
    BY <2>3, <2>4, <2>5
<1>8. ASSUME NEW t \in Threads, ult_unlock(t) PROVE TypeInv'
  <2>1. pc[t] = "sw_unlock" /\ from[t] \in Fibers /\ to[t] \in Fibers
    BY <1>8 DEF ult_unlock, Goto, LocalsOK
  <2>3. ThreadTypes'
    BY <1>8 DEF ult_unlock, Goto, ThreadTypes, Labels, InSwitch
  <2>4. GlobalTypes'
    BY <1>8 DEF ult_unlock, GlobalTypes, main_vars
  <2>5. LocalsOK'
    BY <1>8, <2>1 DEF ult_unlock, Goto, LocalsOK, ThreadTypes
  <2> QED
    BY <2>3, <2>4, <2>5
<1>9. ASSUME NEW t \in Threads, long_jmp(t) PROVE TypeInv'
  <2> DEFINE i == ctx[to[t]]
             p == IF i.zero THEN "sw_unlock" ELSE "user"
             a == IF i.zero THEN i.from ELSE NoFiber
             b == IF i.zero THEN i.to ELSE NoFiber
  <2>1. to[t] \in Fibers /\ current[t] \in Fibers
    BY <1>9 DEF long_jmp, LocalsOK
  <2>2. i \in GoodImages
    BY <2>1 DEF GlobalTypes
  <2>3. /\ i.c \in GoodConts /\ i.new \subseteq Fibers
        /\ p \in Labels /\ a \in Fibers \cup {NoFiber} /\ b \in Fibers \cup {NoFiber}
        /\ p = "user" => a = NoFiber /\ b = NoFiber
        /\ p # "user" => a \in Fibers /\ b \in Fibers
    BY <2>2 DEF GoodImages, Labels, InSwitch
  <2>4. /\ pc' = [pc EXCEPT ![t] = p] /\ from' = [from EXCEPT ![t] = a]
        /\ to' = [to EXCEPT ![t] = b] /\ cont' = [cont EXCEPT ![t] = i.c]
        /\ known' = known \cup i.new
        /\ UNCHANGED <<ult_id, running, ctx, current, mask, main_vars, born, pos>>
    BY <1>9 DEF long_jmp
  <2> HIDE DEF i, p, a, b
  <2>5. ThreadTypes'
    BY <2>3, <2>4 DEF ThreadTypes
  <2>6. GlobalTypes'
    BY <2>3, <2>4 DEF GlobalTypes, main_vars
  <2>7. LocalsOK'
    BY <2>1, <2>3, <2>4 DEF LocalsOK, ThreadTypes
  <2> QED
    BY <2>5, <2>6, <2>7
<1>10. ASSUME NEW t \in Threads, InitComplete(t) PROVE TypeInv'
  BY <1>10 DEF InitComplete, local_vars, LocalsOK, ThreadTypes, GlobalTypes
<1>11. ASSUME NEW t \in Threads, NEW f \in Fibers, Alarm(t, f) PROVE TypeInv'
  <2> DEFINE fr == [pc |-> pc[t], from |-> from[t], to |-> to[t]]
             c == [cont[t] EXCEPT !.frames = <<fr>> \o @]
  <2>1. current[t] \in Fibers
    BY <1>11 DEF Alarm, Trylock, ThreadTypes
  <2>2. cont[t] \in GoodConts
    BY DEF ThreadTypes
  <2>3. fr \in FrameKinds
    BY <1>11 DEF Alarm, ThreadTypes, LocalsOK, FrameKinds, Frame, InSwitch
  <2>4. c \in GoodConts
    <3>1. <<fr>> \o cont[t].frames \in Seq(FrameKinds)
      BY <2>2, <2>3, ConcatProperties DEF GoodConts
    <3> QED BY <2>2, <3>1 DEF GoodConts
  <2>5. /\ cont' = [cont EXCEPT ![t] = c] /\ mask' = [mask EXCEPT ![t] = TRUE]
        /\ running' = [running EXCEPT ![f] = TRUE]
        /\ from' = [from EXCEPT ![t] = current[t]] /\ to' = [to EXCEPT ![t] = f]
        /\ pc' = [pc EXCEPT ![t] = "sw_cur"]
        /\ UNCHANGED <<ult_id, ctx, current, init_complete, completed_fibers, abandoned,
                       known, born, pos>>
    BY <1>11 DEF Alarm, Trylock, ult_trylock
  <2>T. interrupted' \in BOOLEAN
    <3>1. interrupted' = (interrupted \/ pc[t] \in InSwitch)
      BY <1>11 DEF Alarm
    <3> QED BY <3>1, Zenon
  <2> HIDE DEF c
  <2>6. ThreadTypes'
    BY <2>4, <2>5 DEF ThreadTypes, Labels, InSwitch
  <2>7. GlobalTypes'
    BY <2>5, <2>T DEF GlobalTypes
  <2>8. LocalsOK'
    BY <2>1, <2>5 DEF LocalsOK, ThreadTypes
  <2> QED
    BY <2>6, <2>7, <2>8
<1>12. ASSUME NEW t \in Threads, HandlerReturn(t) PROVE TypeInv'
  <2> DEFINE fr == Head(cont[t].frames)
             c == [cont[t] EXCEPT !.frames = Tail(@)]
  <2>1. current[t] \in Fibers /\ cont[t].frames # <<>>
    BY <1>12 DEF HandlerReturn, LocalsOK
  <2>2. cont[t] \in GoodConts /\ cont[t].frames \in Seq(FrameKinds)
    BY DEF ThreadTypes, GoodConts
  <2>3. fr \in FrameKinds /\ Tail(cont[t].frames) \in Seq(FrameKinds)
    BY <2>1, <2>2, HeadTailProperties
  <2>4. c \in GoodConts
    BY <2>2, <2>3 DEF GoodConts
  <2>5. /\ cont' = [cont EXCEPT ![t] = c] /\ pc' = [pc EXCEPT ![t] = fr.pc]
        /\ from' = [from EXCEPT ![t] = fr.from] /\ to' = [to EXCEPT ![t] = fr.to]
        /\ mask' = [mask EXCEPT ![t] = FALSE]
        /\ UNCHANGED <<ult_id, running, ctx, current, main_vars, known, born, pos>>
    BY <1>12 DEF HandlerReturn
  <2> HIDE DEF c, fr
  <2>6. /\ fr.pc \in Labels
        /\ fr.from \in Fibers \cup {NoFiber} /\ fr.to \in Fibers \cup {NoFiber}
        /\ fr.pc = "user" => fr.from = NoFiber /\ fr.to = NoFiber
        /\ fr.pc # "user" => fr.from \in Fibers /\ fr.to \in Fibers
    BY <2>3 DEF FrameKinds, Frame, InSwitch
  <2>7. ThreadTypes'
    BY <2>4, <2>5, <2>6 DEF ThreadTypes
  <2>8. GlobalTypes'
    BY <2>5 DEF GlobalTypes, main_vars
  <2>9. LocalsOK'
    BY <2>1, <2>5, <2>6 DEF LocalsOK, ThreadTypes
  <2> QED
    BY <2>7, <2>8, <2>9
<1>13. ASSUME NEW t \in Threads, Run(t) PROVE TypeInv'
  <2> DEFINE c == [cont[t] EXCEPT !.at = @ + 1]
  <2>1. /\ pc[t] = "user" /\ cont[t].frames = <<>>
        /\ cont' = [cont EXCEPT ![t] = c]
        /\ pos' = [pos EXCEPT ![cont[t].flow] = cont[t].at + 1]
        /\ UNCHANGED <<ult_id, running, ctx, current, pc, from, to, mask, main_vars, known, born>>
    BY <1>13 DEF Run, InUser, local_vars
  <2>2. cont[t] \in GoodConts
    BY DEF ThreadTypes
  <2>3. c \in GoodConts /\ c.frames = cont[t].frames /\ cont[t].at + 1 \in Nat /\ cont[t].flow \in Flows
    BY <2>2 DEF GoodConts
  <2> HIDE DEF c
  <2>4. ThreadTypes'
    BY <2>1, <2>3 DEF ThreadTypes
  <2>5. GlobalTypes'
    BY <2>1, <2>3 DEF GlobalTypes, main_vars
  <2>6. LocalsOK'
    BY <2>1, <2>3 DEF LocalsOK, ThreadTypes
  <2> QED
    BY <2>4, <2>5, <2>6
<1>14. ASSUME NEW t \in Threads, Complete(t) PROVE TypeInv'
  <2>1. completed_fibers' \in Nat
    BY <1>14 DEF Complete, GlobalTypes
  <2> QED
    BY <1>14, <2>1 DEF Complete, local_vars, LocalsOK, ThreadTypes, GlobalTypes
<1>15. ASSUME UNCHANGED vars PROVE TypeInv'
  BY <1>15 DEF vars, local_vars, main_vars, LocalsOK, ThreadTypes, GlobalTypes
<1> QED
  BY <1>1, <1>2, <1>3, <1>4, <1>5, <1>6, <1>7, <1>8, <1>9, <1>10, <1>11, <1>12, <1>13,
     <1>14, <1>15 DEF Next, Idle

LEMMA TypeHolds == Spec => []TypeInv
<1> QED
  BY TypeInit, TypeStep, PTL DEF Spec

(* The fields of ult_t, the thread-local "current" and the globals of      *)
(* main.c keep their types, also when the alarm interrupts ult_switch_to   *)
(* and when a context is resumed with rax = 0.                             *)
THEOREM UltTyped == Spec => []UltTypeOK
<1>1. TypeInv => UltTypeOK
  BY FrameType DEF TypeInv, ThreadTypes, GlobalTypes, UltTypeOK
<1> QED
  BY <1>1, TypeHolds, PTL

-----------------------------------------------------------------------------
(* Mutual exclusion                                                        *)

(* No step interrupts a switch unless it is the alarm that does.           *)
LEMMA CalmStep ==
  ASSUME TypeInv, Calm, ~interrupted', [Next]_vars
  PROVE  Calm'
<1> USE UltAssumption DEF TypeInv, ThreadTypes, GlobalTypes
<1>0. <<>> \in Seq(UserFrames)
  OBVIOUS
<1>1. ASSUME NEW t \in Threads, NEW c, c.frames \in Seq(UserFrames),
             cont' = [cont EXCEPT ![t] = c], UNCHANGED ctx
      PROVE  Calm'
  BY <1>1 DEF Calm
<1>2. ASSUME NEW f \in Fibers, NEW i, i.c.frames \in Seq(UserFrames),
             ctx' = [ctx EXCEPT ![f] = i], UNCHANGED cont
      PROVE  Calm'
  BY <1>2 DEF Calm
<1>3. ASSUME NEW t \in Threads, NEW f \in Fibers, NEW z, NEW a, NEW b, NEW n,
             ctx' = [ctx EXCEPT ![f] = Image(cont[t], z, a, b, n)], UNCHANGED cont
      PROVE  Calm'
  <2>1. Image(cont[t], z, a, b, n).c.frames \in Seq(UserFrames)
    BY DEF Image, Calm
  <2> QED BY <1>2, <1>3, <2>1
<1>4. ASSUME UNCHANGED <<cont, ctx>> PROVE Calm'
  BY <1>4 DEF Calm
<1>5. ASSUME NEW t \in Threads, ult_convert(t) PROVE Calm'
  BY <1>3, <1>5 DEF ult_convert
<1>6. ASSUME NEW t \in Threads, ult_creat(t) PROVE Calm'
  <2> DEFINE n == ult_id
             x == current[t]
  <2>1. /\ ctx' = [ctx EXCEPT ![n] = Image(Fresh(n), FALSE, NoFiber, NoFiber, {}),
                              ![x] = Image(cont[t], FALSE, NoFiber, NoFiber, {n})]
        /\ UNCHANGED cont /\ n \in Fibers /\ x \in Fibers
    BY <1>6 DEF ult_creat, context_create
  <2> HIDE DEF n, x
  <2>2. /\ Image(Fresh(n), FALSE, NoFiber, NoFiber, {}).c.frames = <<>>
        /\ Image(cont[t], FALSE, NoFiber, NoFiber, {n}).c.frames = cont[t].frames
    BY DEF Image, Fresh
  <2> QED BY <1>0, <2>1, <2>2 DEF Calm
<1>7. ASSUME NEW t \in Threads, CreatUnlock(t) PROVE Calm'
  <2>1. Fresh(to[t]).frames = <<>>
    BY DEF Fresh
  <2> QED BY <1>0, <1>1, <1>7, <2>1 DEF CreatUnlock
<1>8. ASSUME NEW t \in Threads, context_create_boot(t) \/ Save(t) PROVE Calm'
  <2>1. from[t] \in Fibers /\ to[t] \in Fibers
    BY <1>8 DEF context_create_boot, Save, Goto, LocalsOK
  <2>2. CASE context_create_boot(t)
    BY <1>3, <2>1, <2>2 DEF context_create_boot
  <2>3. CASE Save(t)
    BY <1>3, <2>1, <2>3 DEF Save
  <2> QED BY <1>8, <2>2, <2>3
<1>9. ASSUME NEW t \in Threads, long_jmp(t) PROVE Calm'
  <2>1. to[t] \in Fibers
    BY <1>9 DEF long_jmp, LocalsOK
  <2> QED BY <1>1, <1>9, <2>1 DEF long_jmp, Calm
<1>10. ASSUME NEW t \in Threads, NEW f \in Fibers, Alarm(t, f) PROVE Calm'
  <2> DEFINE fr == [pc |-> pc[t], from |-> from[t], to |-> to[t]]
             c == [cont[t] EXCEPT !.frames = <<fr>> \o @]
  <2>1. pc[t] = "user" /\ cont' = [cont EXCEPT ![t] = c] /\ UNCHANGED ctx
    BY <1>10 DEF Alarm
  <2>2. fr \in UserFrames
    BY <2>1 DEF UserFrames, FrameKinds, Frame, Labels, LocalsOK
  <2>3. cont[t].frames \in Seq(UserFrames)
    BY DEF Calm
  <2> HIDE DEF fr
  <2>4. <<fr>> \o cont[t].frames \in Seq(UserFrames)
    BY <2>2, <2>3
  <2>5. c.frames \in Seq(UserFrames)
    BY <2>4 DEF GoodConts
  <2> HIDE DEF c
  <2> QED BY <1>1, <2>1, <2>5
<1>11. ASSUME NEW t \in Threads, HandlerReturn(t) PROVE Calm'
  <2> DEFINE c == [cont[t] EXCEPT !.frames = Tail(@)]
  <2>1. cont' = [cont EXCEPT ![t] = c] /\ UNCHANGED ctx /\ cont[t].frames # <<>>
    BY <1>11 DEF HandlerReturn
  <2>2. Tail(cont[t].frames) \in Seq(UserFrames)
    BY <2>1, HeadTailProperties DEF Calm
  <2>3. c.frames \in Seq(UserFrames)
    BY <2>2 DEF GoodConts
  <2> HIDE DEF c
  <2> QED BY <1>1, <2>1, <2>3
<1>12. ASSUME NEW t \in Threads, Run(t) PROVE Calm'
  <2> DEFINE c == [cont[t] EXCEPT !.at = @ + 1]
  <2>1. cont' = [cont EXCEPT ![t] = c] /\ UNCHANGED ctx
    BY <1>12 DEF Run
  <2>2. c.frames \in Seq(UserFrames)
    BY DEF GoodConts, Calm
  <2> HIDE DEF c
  <2> QED BY <1>1, <2>1, <2>2
<1> QED
  BY <1>4, <1>5, <1>6, <1>7, <1>8, <1>9, <1>10, <1>11, <1>12
     DEF Next, Idle, vars, ult_switch_to, SetCurrent, ult_unlock, InitComplete, Complete

(* Outside a switch the handler returns to user code.                      *)
LEMMA ReturnToUser ==
  ASSUME TypeInv, Calm, NEW t \in Threads, HandlerReturn(t)
  PROVE  UNCHANGED <<pc, from, to>>
<1> DEFINE fr == Head(cont[t].frames)
<1>1. cont[t].frames \in Seq(UserFrames) /\ cont[t].frames # <<>> /\ pc[t] = "user"
  BY DEF HandlerReturn, Calm
<1>2. fr \in UserFrames
  BY <1>1, HeadTailProperties
<1>3. from[t] = NoFiber /\ to[t] = NoFiber
  BY <1>1 DEF TypeInv, LocalsOK
<1>4. pc' = [pc EXCEPT ![t] = fr.pc] /\ from' = [from EXCEPT ![t] = fr.from] /\ to' = [to EXCEPT ![t] = fr.to]
  BY DEF HandlerReturn
<1> HIDE DEF fr
<1>5. fr.pc = pc[t] /\ fr.from = from[t] /\ fr.to = to[t]
  BY <1>1, <1>2, <1>3 DEF UserFrames, FrameKinds, InSwitch
<1> QED
  BY <1>4, <1>5 DEF TypeInv, ThreadTypes

(* Ids are handed out in order, so a new fiber is one nobody refers to.    *)
LEMMA FreshStep ==
  ASSUME TypeInv, Calm, ~interrupted', FreshOK, [Next]_vars
  PROVE  FreshOK'
<1> USE UltAssumption DEF TypeInv, GlobalTypes, FreshOK, Made
<1>1. ASSUME NEW t \in Threads, ult_convert(t) PROVE FreshOK'
  <2>1. Made' = Made \cup {ult_id}
    BY <1>1 DEF ult_convert, Fibers
  <2>2. /\ running' = [running EXCEPT ![ult_id] = TRUE]
        /\ ctx' = [ctx EXCEPT ![ult_id] = Image(cont[t], FALSE, NoFiber, NoFiber, {})]
        /\ current' = [current EXCEPT ![t] = ult_id]
        /\ known' \subseteq known \cup {ult_id} /\ UNCHANGED <<from, to, born>>
    BY <1>1 DEF ult_convert, local_vars
  <2> HIDE DEF Made
  <2> QED
    BY <2>1, <2>2 DEF Image, ThreadTypes
<1>2. ASSUME NEW t \in Threads, ult_creat(t) PROVE FreshOK'
  <2>1. Made' = Made \cup {ult_id} /\ ult_id \in Fibers
    BY <1>2 DEF ult_creat, Fibers
  <2>2. /\ running' = [running EXCEPT ![ult_id] = TRUE]
        /\ ctx' = [ctx EXCEPT ![ult_id] = Image(Fresh(ult_id), FALSE, NoFiber, NoFiber, {}),
                              ![current[t]] = Image(cont[t], FALSE, NoFiber, NoFiber, {ult_id})]
        /\ from' = [from EXCEPT ![t] = current[t]] /\ to' = [to EXCEPT ![t] = ult_id]
        /\ born' = born \cup {ult_id} /\ UNCHANGED <<current, known>>
    BY <1>2 DEF ult_creat, context_create
  <2> HIDE DEF Made
  <2>3. \A f \in Fibers : /\ ctx'[f].new \subseteq Made'
                          /\ {ctx'[f].from, ctx'[f].to} \subseteq Made' \cup {NoFiber}
    BY <2>1, <2>2 DEF Image
  <2>4. \A u \in Threads : {current'[u], from'[u], to'[u]} \subseteq Made' \cup {NoFiber}
    BY <2>1, <2>2 DEF ThreadTypes
  <2>5. known' \subseteq Made' /\ born' \subseteq Made' /\ \A f \in Fibers : running'[f] => f \in Made'
    BY <2>1, <2>2
  <2> QED
    BY <2>3, <2>4, <2>5
<1>3. ASSUME NEW t \in Threads, CreatUnlock(t) PROVE FreshOK'
  BY <1>3 DEF CreatUnlock
<1>4. ASSUME NEW t \in Threads, context_create_boot(t) PROVE FreshOK'
  BY <1>4 DEF context_create_boot, ult_lock, ult_trylock, Image, ThreadTypes
<1>5. ASSUME NEW t \in Threads, NEW f \in Fibers, ult_switch_to(t, f) PROVE FreshOK'
  BY <1>5 DEF ult_switch_to, Trylock, ult_trylock, ThreadTypes
<1>6. ASSUME NEW t \in Threads, SetCurrent(t) PROVE FreshOK'
  BY <1>6 DEF SetCurrent, ThreadTypes
<1>7. ASSUME NEW t \in Threads, Save(t) PROVE FreshOK'
  BY <1>7 DEF Save, Image
<1>8. ASSUME NEW t \in Threads, ult_unlock(t) PROVE FreshOK'
  BY <1>8 DEF ult_unlock
<1>9. ASSUME NEW t \in Threads, long_jmp(t) PROVE FreshOK'
  <2>1. to[t] \in Fibers
    BY <1>9 DEF long_jmp, LocalsOK
  <2> QED
    BY <1>9, <2>1 DEF long_jmp, ThreadTypes
<1>10. ASSUME NEW t \in Threads, InitComplete(t) PROVE FreshOK'
  BY <1>10 DEF InitComplete, local_vars
<1>11. ASSUME NEW t \in Threads, NEW f \in Fibers, Alarm(t, f) PROVE FreshOK'
  <2>1. /\ f \in known /\ running' = [running EXCEPT ![f] = TRUE]
        /\ from' = [from EXCEPT ![t] = current[t]] /\ to' = [to EXCEPT ![t] = f]
        /\ UNCHANGED <<ult_id, ctx, current, known, born>>
    BY <1>11 DEF Alarm, Trylock, ult_trylock
  <2> QED
    BY <2>1 DEF ThreadTypes
<1>12. ASSUME NEW t \in Threads, HandlerReturn(t) PROVE FreshOK'
  <2>1. UNCHANGED <<ult_id, running, ctx, current, from, to, known, born>>
    BY <1>12, ReturnToUser DEF HandlerReturn
  <2> QED BY <2>1
<1>13. ASSUME NEW t \in Threads, Run(t) PROVE FreshOK'
  BY <1>13 DEF Run, local_vars
<1>14. ASSUME NEW t \in Threads, Complete(t) PROVE FreshOK'
  BY <1>14 DEF Complete, local_vars
<1>15. ASSUME UNCHANGED vars PROVE FreshOK'
  BY <1>15 DEF vars, local_vars
<1> QED
  BY <1>1, <1>2, <1>3, <1>4, <1>5, <1>6, <1>7, <1>8, <1>9, <1>10, <1>11, <1>12, <1>13,
     <1>14, <1>15 DEF Next, Idle

(* A thread takes what is free and gives back what it holds.               *)
LEMMA LockFrame ==
  ASSUME Locks, NEW t \in Threads,
         \A u \in Threads \ {t}, f \in Fibers : Holds(u, f)' <=> Holds(u, f),
         \A f \in Fibers : Holds(t, f)' => running'[f] /\ (Holds(t, f) \/ ~running[f]),
         \A f \in Fibers : ~Holds(t, f)' => (running'[f] <=> (running[f] /\ ~Holds(t, f)))
  PROVE  Locks'
  BY DEF Locks

(* The thread t does the step, and the other threads keep their locals.    *)
Kept(t) ==
  \A u \in Threads \ {t} :
    pc'[u] = pc[u] /\ from'[u] = from[u] /\ to'[u] = to[u] /\ current'[u] = current[u]

LEMMA KeptHolds ==
  ASSUME NEW t \in Threads, Kept(t)
  PROVE  \A u \in Threads \ {t}, f \in Fibers : Holds(u, f)' <=> Holds(u, f)
  BY DEF Kept, Holds

(* Taking one more fiber, from user code.                                  *)
LEMMA LockTake ==
  ASSUME TypeInv, CurrentOK, Locks, NEW t \in Threads, NEW f \in Fibers,
         pc[t] = "user", current[t] \in Fibers, ~running[f],
         running' = [running EXCEPT ![f] = TRUE],
         from' = [from EXCEPT ![t] = current[t]], to' = [to EXCEPT ![t] = f],
         pc' = [pc EXCEPT ![t] = "sw_cur"] \/ pc' = [pc EXCEPT ![t] = "cr_unlock"],
         UNCHANGED current
  PROVE  CurrentOK' /\ Locks'
<1> USE DEF TypeInv, ThreadTypes, GlobalTypes
<1>1. CurrentOK'
  <2>1. current[t] # f
    BY DEF Locks, Holds
  <2> QED BY <2>1 DEF CurrentOK
<1>2. Kept(t)
  BY DEF Kept
<1>3. \A g \in Fibers : (Holds(t, g) <=> g = current[t]) /\ (Holds(t, g)' <=> g \in {current[t], f})
  BY DEF Holds
<1>4. running[current[t]]
  BY <1>3 DEF Locks
<1>5. Locks'
  BY <1>2, <1>3, <1>4, KeptHolds, LockFrame
<1> QED
  BY <1>1, <1>5

(* The steps that leave locks and locals alone.                            *)
LEMMA LockQuiet ==
  ASSUME UNCHANGED <<running, pc, from, to, current>>
  PROVE  (CurrentOK => CurrentOK') /\ (Locks => Locks')
  BY DEF CurrentOK, Locks, Holds

LEMMA LockStep ==
  ASSUME TypeInv, Calm, ~interrupted', FreshOK, CurrentOK, NoZero, Locks,
         completed_fibers > 0, [Next]_vars
  PROVE  CurrentOK' /\ NoZero' /\ Locks'
<1> USE UltAssumption DEF TypeInv
<1>1. ASSUME NEW t \in Threads, ult_convert(t) PROVE CurrentOK' /\ NoZero' /\ Locks'
  <2> DEFINE n == ult_id
  <2>1. /\ pc[t] = "user" /\ n \in Fibers /\ current[t] = NoFiber
        /\ running' = [running EXCEPT ![n] = TRUE]
        /\ ctx' = [ctx EXCEPT ![n] = Image(cont[t], FALSE, NoFiber, NoFiber, {})]
        /\ current' = [current EXCEPT ![t] = n]
        /\ UNCHANGED <<pc, from, to>>
    BY <1>1 DEF ult_convert, InUser, local_vars
  <2>2. ~running[n]
    BY <2>1 DEF FreshOK, Made, Fibers
  <2> HIDE DEF n
  <2>3. CurrentOK' /\ NoZero'
    BY <2>1 DEF CurrentOK, NoZero, ThreadTypes, GlobalTypes, Image
  <2>4. Kept(t)
    BY <2>1 DEF Kept, ThreadTypes
  <2>5. \A g \in Fibers : ~Holds(t, g) /\ (Holds(t, g)' <=> g = n)
    BY <2>1 DEF Holds, ThreadTypes
  <2>6. Locks'
    BY <2>1, <2>2, <2>4, <2>5, KeptHolds, LockFrame DEF GlobalTypes
  <2> QED
    BY <2>3, <2>6
<1>2. ASSUME NEW t \in Threads, ult_creat(t) PROVE CurrentOK' /\ NoZero' /\ Locks'
  <2> DEFINE n == ult_id
             x == current[t]
  <2>1. /\ pc[t] = "user" /\ n \in Fibers /\ x \in Fibers
        /\ running' = [running EXCEPT ![n] = TRUE]
        /\ ctx' = [ctx EXCEPT ![n] = Image(Fresh(n), FALSE, NoFiber, NoFiber, {}),
                              ![x] = Image(cont[t], FALSE, NoFiber, NoFiber, {n})]
        /\ from' = [from EXCEPT ![t] = x] /\ to' = [to EXCEPT ![t] = n]
        /\ pc' = [pc EXCEPT ![t] = "cr_unlock"] /\ UNCHANGED current
    BY <1>2 DEF ult_creat, context_create, InUser, ThreadTypes
  <2>2. ~running[n]
    BY <2>1 DEF FreshOK, Made, Fibers
  <2> HIDE DEF n
  <2>3. NoZero'
    BY <2>1 DEF NoZero, GlobalTypes, Image
  <2> QED
    BY <2>1, <2>2, <2>3, LockTake
<1>3. ASSUME NEW t \in Threads, CreatUnlock(t) PROVE CurrentOK' /\ NoZero' /\ Locks'
  <2>1. /\ pc[t] = "cr_unlock" /\ pc' = [pc EXCEPT ![t] = "boot"]
        /\ running' = [running EXCEPT ![from[t]] = FALSE]
        /\ UNCHANGED <<ctx, current, from, to>>
    BY <1>3 DEF CreatUnlock, Goto
  <2>2. CurrentOK' /\ NoZero' /\ Kept(t)
    BY <2>1 DEF CurrentOK, NoZero, ThreadTypes, Kept
  <2>3. \A g \in Fibers : (Holds(t, g) <=> g \in {from[t], to[t]}) /\ (Holds(t, g)' <=> g = to[t])
    BY <2>1 DEF Holds, ThreadTypes
  <2>4. from[t] \in Fibers /\ to[t] \in Fibers
    BY <2>1 DEF LocalsOK
  <2> QED
    <3>1. from[t] # to[t] /\ running[to[t]]
      BY <2>1, <2>3, <2>4 DEF CurrentOK, Locks
    <3>2. Locks'
      BY <2>1, <2>2, <2>3, <2>4, <3>1, KeptHolds, LockFrame DEF GlobalTypes
    <3> QED
      BY <2>2, <3>2
<1>4. ASSUME NEW t \in Threads, context_create_boot(t) PROVE CurrentOK' /\ NoZero' /\ Locks'
  <2> DEFINE x == current[t]
             n == to[t]
  <2>1. /\ pc[t] = "boot" /\ pc' = [pc EXCEPT ![t] = "sw_unlock"]
        /\ ~running[x] /\ running' = [running EXCEPT ![x] = TRUE]
        /\ ctx' = [ctx EXCEPT ![n] = Image(cont[t], FALSE, NoFiber, NoFiber, {})]
        /\ from' = [from EXCEPT ![t] = n] /\ to' = [to EXCEPT ![t] = x] /\ UNCHANGED current
    BY <1>4 DEF context_create_boot, Goto, ult_lock, ult_trylock
  <2>2. x \in Fibers /\ n \in Fibers
    BY <2>1 DEF LocalsOK
  <2>3. running[n] /\ n # x
    BY <2>1, <2>2 DEF Locks, Holds
  <2>4. CurrentOK' /\ NoZero' /\ Kept(t)
    BY <2>1, <2>2, <2>3 DEF CurrentOK, NoZero, ThreadTypes, GlobalTypes, Kept, Image
  <2>5. \A g \in Fibers : (Holds(t, g) <=> g = n) /\ (Holds(t, g)' <=> g \in {n, x})
    BY <2>1 DEF Holds, ThreadTypes
  <2>6. Locks'
    BY <2>1, <2>2, <2>3, <2>4, <2>5, KeptHolds, LockFrame DEF GlobalTypes
  <2> QED
    BY <2>4, <2>6
<1>5. ASSUME NEW t \in Threads, NEW f \in Fibers, ult_switch_to(t, f)
      PROVE  CurrentOK' /\ NoZero' /\ Locks'
  <2>1. /\ pc[t] = "user" /\ current[t] \in Fibers /\ ~running[f]
        /\ running' = [running EXCEPT ![f] = TRUE]
        /\ from' = [from EXCEPT ![t] = current[t]] /\ to' = [to EXCEPT ![t] = f]
        /\ pc' = [pc EXCEPT ![t] = "sw_cur"] /\ UNCHANGED <<current, ctx>>
    BY <1>5 DEF ult_switch_to, Trylock, ult_trylock, InUser, ThreadTypes
  <2> QED
    BY <2>1, LockTake DEF NoZero
<1>6. ASSUME NEW t \in Threads, SetCurrent(t) PROVE CurrentOK' /\ NoZero' /\ Locks'
  <2>1. /\ pc[t] = "sw_cur" /\ pc' = [pc EXCEPT ![t] = "sw_save"]
        /\ current' = [current EXCEPT ![t] = to[t]] /\ UNCHANGED <<running, ctx, from, to>>
    BY <1>6 DEF SetCurrent, Goto
  <2>2. CurrentOK' /\ NoZero' /\ Kept(t)
    BY <2>1 DEF CurrentOK, NoZero, ThreadTypes, Kept
  <2>3. \A g \in Fibers : Holds(t, g)' <=> Holds(t, g)
    BY <2>1 DEF Holds, ThreadTypes
  <2>4. Locks'
    BY <2>1, <2>2, <2>3, KeptHolds DEF Locks
  <2> QED
    BY <2>2, <2>4
<1>7. ASSUME NEW t \in Threads, Save(t) PROVE CurrentOK' /\ NoZero' /\ Locks'
  <2>1. /\ pc[t] = "sw_save" /\ pc' = [pc EXCEPT ![t] = "sw_unlock"]
        /\ ctx' = [ctx EXCEPT ![from[t]] = Image(cont[t], completed_fibers = 0, from[t], to[t], {})]
        /\ UNCHANGED <<running, current, from, to>>
    BY <1>7 DEF Save, Goto
  <2>2. CurrentOK' /\ Kept(t)
    BY <2>1 DEF CurrentOK, ThreadTypes, Kept
  <2>3. NoZero'
    <3> DEFINE i == Image(cont[t], completed_fibers = 0, from[t], to[t], {})
    <3>1. i.zero = (completed_fibers = 0)
      BY DEF Image
    <3>2. completed_fibers # 0
      OBVIOUS
    <3>3. ctx' = [ctx EXCEPT ![from[t]] = i] /\ ctx \in [Fibers -> GoodImages]
      BY <2>1 DEF GlobalTypes
    <3> HIDE DEF i
    <3> QED BY <3>1, <3>2, <3>3 DEF NoZero
  <2>4. \A g \in Fibers : Holds(t, g)' <=> Holds(t, g)
    BY <2>1 DEF Holds, ThreadTypes
  <2>5. Locks'
    BY <2>1, <2>2, <2>4, KeptHolds DEF Locks
  <2> QED
    BY <2>2, <2>3, <2>5
<1>8. ASSUME NEW t \in Threads, ult_unlock(t) PROVE CurrentOK' /\ NoZero' /\ Locks'
  <2>1. /\ pc[t] = "sw_unlock" /\ pc' = [pc EXCEPT ![t] = "sw_jump"]
        /\ running' = [running EXCEPT ![from[t]] = FALSE] /\ UNCHANGED <<ctx, current, from, to>>
    BY <1>8 DEF ult_unlock, Goto
  <2>2. CurrentOK' /\ NoZero' /\ Kept(t)
    BY <2>1 DEF CurrentOK, NoZero, ThreadTypes, Kept
  <2>3. \A g \in Fibers : (Holds(t, g) <=> g \in {from[t], to[t]}) /\ (Holds(t, g)' <=> g = to[t])
    BY <2>1 DEF Holds, ThreadTypes
  <2>4. from[t] \in Fibers /\ to[t] \in Fibers
    BY <2>1 DEF LocalsOK
  <2>5. from[t] # to[t] /\ running[to[t]]
    BY <2>1, <2>3, <2>4 DEF CurrentOK, Locks
  <2>6. Locks'
    BY <2>1, <2>2, <2>3, <2>4, <2>5, KeptHolds, LockFrame DEF GlobalTypes
  <2> QED
    BY <2>2, <2>6
<1>9. ASSUME NEW t \in Threads, long_jmp(t) PROVE CurrentOK' /\ NoZero' /\ Locks'
  <2>1. pc[t] = "sw_jump" /\ to[t] \in Fibers /\ current[t] = to[t] /\ ~ctx[to[t]].zero
    BY <1>9 DEF long_jmp, LocalsOK, CurrentOK, NoZero
  <2>2. /\ pc' = [pc EXCEPT ![t] = "user"] /\ from' = [from EXCEPT ![t] = NoFiber]
        /\ to' = [to EXCEPT ![t] = NoFiber] /\ UNCHANGED <<running, ctx, current>>
    BY <1>9, <2>1 DEF long_jmp
  <2>3. CurrentOK' /\ NoZero' /\ Kept(t)
    BY <2>2 DEF CurrentOK, NoZero, ThreadTypes, Kept
  <2>4. \A g \in Fibers : Holds(t, g)' <=> Holds(t, g)
    BY <2>1, <2>2 DEF Holds, ThreadTypes
  <2>5. Locks'
    BY <2>2, <2>3, <2>4, KeptHolds DEF Locks
  <2> QED
    BY <2>3, <2>5
<1>10. ASSUME NEW t \in Threads, InitComplete(t) \/ Run(t) \/ Complete(t)
       PROVE CurrentOK' /\ NoZero' /\ Locks'
  <2>1. UNCHANGED <<running, ctx, pc, from, to, current>>
    BY <1>10 DEF InitComplete, Run, Complete, local_vars
  <2> QED
    BY <2>1, LockQuiet DEF NoZero
<1>11. ASSUME NEW t \in Threads, NEW f \in Fibers, Alarm(t, f)
       PROVE  CurrentOK' /\ NoZero' /\ Locks'
  <2>1. /\ pc[t] = "user" /\ current[t] \in Fibers /\ ~running[f]
        /\ running' = [running EXCEPT ![f] = TRUE]
        /\ from' = [from EXCEPT ![t] = current[t]] /\ to' = [to EXCEPT ![t] = f]
        /\ pc' = [pc EXCEPT ![t] = "sw_cur"] /\ UNCHANGED <<current, ctx>>
    BY <1>11 DEF Alarm, Trylock, ult_trylock, ThreadTypes
  <2> QED
    BY <2>1, LockTake DEF NoZero
<1>12. ASSUME NEW t \in Threads, HandlerReturn(t) PROVE CurrentOK' /\ NoZero' /\ Locks'
  <2>1. UNCHANGED <<running, ctx, pc, from, to, current>>
    BY <1>12, ReturnToUser DEF HandlerReturn
  <2> QED
    BY <2>1, LockQuiet DEF NoZero
<1>13. ASSUME UNCHANGED vars PROVE CurrentOK' /\ NoZero' /\ Locks'
  BY <1>13, LockQuiet DEF vars, local_vars, NoZero
<1> QED
  BY <1>1, <1>2, <1>3, <1>4, <1>5, <1>6, <1>7, <1>8, <1>9, <1>10, <1>11, <1>12, <1>13
     DEF Next, Idle

(* What has been disturbed stays so.                                       *)
LEMMA OnlyDisturbed ==
  ASSUME TypeInv, [Next]_vars
  PROVE  /\ ~interrupted' => ~interrupted
         /\ completed_fibers' > 0 => completed_fibers > 0
<1>1. UNCHANGED completed_fibers \/ \E t \in Threads : Complete(t)
  BY DEF Next, vars, main_vars, ult_convert, ult_creat, CreatUnlock, context_create_boot,
         ult_switch_to, SetCurrent, Save, ult_unlock, long_jmp, InitComplete, Alarm,
         HandlerReturn, Run, Idle
<1>2. UNCHANGED interrupted \/ \E t \in Threads, f \in Fibers : Alarm(t, f)
  BY DEF Next, vars, main_vars, ult_convert, ult_creat, CreatUnlock, context_create_boot,
         ult_switch_to, SetCurrent, Save, ult_unlock, long_jmp, InitComplete, Complete,
         HandlerReturn, Run, Idle
<1>3. completed_fibers' > 0 => completed_fibers > 0
  BY <1>1 DEF Complete, TypeInv, GlobalTypes
<1>4. interrupted => interrupted'
  <2>1. ASSUME NEW t \in Threads, interrupted' = (interrupted \/ pc[t] \in InSwitch), interrupted
        PROVE  interrupted'
    BY <2>1, Zenon
  <2> QED BY <1>2, <2>1 DEF Alarm
<1> QED
  BY <1>3, <1>4

LEMMA LockInit == Init => LockInv
<1> SUFFICES ASSUME Init PROVE LockInv
  OBVIOUS
<1>1. TypeInv
  BY TypeInit
<1> USE UltAssumption DEF Init
<1>2. \A f \in Fibers : /\ ~ctx[f].zero /\ ctx[f].new = {}
                        /\ ctx[f].from = NoFiber /\ ctx[f].to = NoFiber
  BY DEF Image
<1>3. FreshOK /\ NoZero
  BY <1>2 DEF FreshOK, NoZero
<1>4. CurrentOK /\ Locks
  BY DEF CurrentOK, Locks, Holds
<1>5. Calm
  <2>1. \A t \in Threads : cont[t].frames = <<>>
    BY DEF Fresh
  <2>2. \A f \in Fibers : ctx[f].c.frames = <<>>
    BY DEF Fresh, Image
  <2>3. <<>> \in Seq(UserFrames)
    OBVIOUS
  <2> HIDE DEF Init
  <2> QED BY <2>1, <2>2, <2>3 DEF Calm
<1> QED
  BY <1>3, <1>4, <1>5 DEF LockInv

LEMMA LockHolds == Spec => [](TypeInv /\ LockInv)
<1>1. TypeInv /\ LockInv /\ [Next]_vars => LockInv'
  BY CalmStep, FreshStep, LockStep, OnlyDisturbed DEF LockInv
<1> QED
  BY <1>1, LockInit, TypeInit, TypeStep, PTL DEF Spec

(* Wherever the alarm arrives and however many fibers complete, for any    *)
(* number of threads and fibers: the test-and-set of ult_trylock and the   *)
(* lending of the creator in context_create let two threads run, enter or  *)
(* leave one fiber, or lose one, only after an alarm inside ult_switch_to  *)
(* or after the end of the last fiber.                                     *)
THEOREM LockedByOneHolds == Spec => []LockedByOne
<1>1. LockInv => LockedByOne
  BY DEF LockInv, Locks, LockedByOne, Undisturbed
<1> QED
  BY <1>1, LockHolds, PTL

-----------------------------------------------------------------------------
(* The abandoned fibers                                                    *)

(* The alarm, the return from it and user code stay on the stack they are. *)
LEMMA FlowKept ==
  ASSUME TypeInv, NEW t \in Threads, NEW f \in Fibers,
         Alarm(t, f) \/ HandlerReturn(t) \/ Run(t)
  PROVE  \A u \in Threads : cont'[u].flow = cont[u].flow
<1>1. cont \in [Threads -> GoodConts] /\ cont[t] \in GoodConts
  BY DEF TypeInv, ThreadTypes
<1>2. ASSUME NEW x, cont' = [cont EXCEPT ![t] = [cont[t] EXCEPT !.frames = x]]
      PROVE  \A u \in Threads : cont'[u].flow = cont[u].flow
  BY <1>1, <1>2 DEF GoodConts
<1>3. ASSUME NEW x, cont' = [cont EXCEPT ![t] = [cont[t] EXCEPT !.at = x]]
      PROVE  \A u \in Threads : cont'[u].flow = cont[u].flow
  BY <1>1, <1>3 DEF GoodConts
<1>4. CASE Alarm(t, f)
  <2>1. cont' = [cont EXCEPT ![t] = [cont[t] EXCEPT !.frames =
                   <<[pc |-> pc[t], from |-> from[t], to |-> to[t]]>> \o cont[t].frames]]
    BY <1>4 DEF Alarm
  <2> QED BY <1>2, <2>1
<1>5. CASE HandlerReturn(t)
  <2>1. cont' = [cont EXCEPT ![t] = [cont[t] EXCEPT !.frames = Tail(cont[t].frames)]]
    BY <1>5 DEF HandlerReturn
  <2> QED BY <1>2, <2>1
<1>6. CASE Run(t)
  <2>1. cont' = [cont EXCEPT ![t] = [cont[t] EXCEPT !.at = cont[t].at + 1]]
    BY <1>6 DEF Run
  <2> QED BY <1>3, <2>1
<1> QED BY <1>4, <1>5, <1>6

(* A step that writes no context.                                          *)
LEMMA BackQuiet ==
  ASSUME BackInv, UNCHANGED <<ctx, abandoned>>, known' \cap Abandoned = {},
         \A t \in Threads : ThreadBack(t)'
  PROVE  BackInv'
<1>1. Abandoned' = Abandoned
  BY DEF Abandoned
<1> QED
  BY <1>1 DEF BackInv, ImageBack

LEMMA BackStep ==
  ASSUME TypeInv, Calm, ~interrupted', FreshOK, BackInv, [Next]_vars
  PROVE  BackInv'
<1> USE UltAssumption
<1>0. /\ NoFiber \notin Abandoned /\ NoFiber \notin Abandoned'
      /\ abandoned \subseteq Threads /\ \A f \in Fibers : f \notin abandoned
  BY DEF Abandoned, TypeInv, GlobalTypes
<1>1. ASSUME NEW t \in Threads, ult_convert(t) PROVE BackInv'
  <2> DEFINE n == ult_id
  <2>1. /\ pc[t] = "user" /\ n \in Fibers /\ current[t] = NoFiber
        /\ ctx' = [ctx EXCEPT ![n] = Image(cont[t], FALSE, NoFiber, NoFiber, {})]
        /\ current' = [current EXCEPT ![t] = n]
        /\ known' = IF t \in abandoned THEN known ELSE known \cup {n}
        /\ UNCHANGED <<pc, from, to, cont, abandoned>>
    BY <1>1 DEF ult_convert, InUser, local_vars, main_vars
  <2>2. cont[t].flow = t /\ from[t] = NoFiber /\ to[t] = NoFiber
    BY <2>1 DEF BackInv, ThreadBack, TypeInv, LocalsOK
  <2>3. /\ \A f \in Fibers \ {n} : ctx'[f] = ctx[f] /\ (f \in Abandoned' <=> f \in Abandoned)
        /\ n \in Abandoned' <=> t \in abandoned
        /\ ctx'[n].new = {} /\ ctx'[n].from = NoFiber /\ ctx'[n].to = NoFiber
    BY <2>1, <2>2 DEF Abandoned, Image, TypeInv, GlobalTypes
  <2>4. n \notin Made
    BY <2>1 DEF Made, Fibers
  <2> HIDE DEF n
  <2>5. known' \cap Abandoned' = {}
    BY <2>1, <2>3, <2>4 DEF BackInv, FreshOK, TypeInv, GlobalTypes
  <2>6. ASSUME NEW u \in Threads PROVE ThreadBack(u)'
    <3>1. n \notin {current[u], from[u], to[u]}
      BY <2>1, <2>4 DEF FreshOK
    <3>2. ThreadBack(u)
      BY DEF BackInv
    <3>3. CASE u = t
      <4>1. current'[t] = n /\ pc'[t] = "user" /\ cont'[t].flow = t
        BY <2>1, <2>2 DEF TypeInv, ThreadTypes
      <4>2. n # NoFiber
        BY <2>1
      <4> QED
        BY <1>0, <2>1, <2>2, <2>3, <3>3, <4>1, <4>2 DEF ThreadBack
    <3>4. CASE u # t
      <4>1. /\ pc'[u] = pc[u] /\ from'[u] = from[u] /\ to'[u] = to[u] /\ cont'[u] = cont[u]
            /\ current'[u] = current[u] /\ abandoned' = abandoned
        BY <2>1, <3>4 DEF TypeInv, ThreadTypes
      <4>2. \A f \in {current[u], from[u], to[u]} : f \in Abandoned' <=> f \in Abandoned
        BY <1>0, <2>3, <3>1 DEF TypeInv, ThreadTypes
      <4> QED
        BY <1>0, <3>2, <4>1, <4>2 DEF ThreadBack
    <3> QED BY <3>3, <3>4
  <2>7. ASSUME NEW f \in Fibers PROVE ImageBack(f)'
    <3>1. ImageBack(f) /\ n \notin ctx[f].new /\ n # ctx[f].from /\ n # ctx[f].to
      BY <2>1, <2>4 DEF BackInv, FreshOK
    <3>2. ctx[f].new \subseteq Fibers
      BY DEF FreshOK, Made
    <3> QED
      BY <1>0, <2>3, <3>1, <3>2 DEF ImageBack, Abandoned
  <2> QED
    BY <2>5, <2>6, <2>7 DEF BackInv
<1>2. ASSUME NEW t \in Threads, ult_creat(t) PROVE BackInv'
  <2> DEFINE n == ult_id
             x == current[t]
  <2>1. /\ pc[t] = "user" /\ n \in Fibers /\ x \in Fibers /\ cont[t].flow \notin abandoned
        /\ ctx' = [ctx EXCEPT ![n] = Image(Fresh(n), FALSE, NoFiber, NoFiber, {}),
                              ![x] = Image(cont[t], FALSE, NoFiber, NoFiber, {n})]
        /\ from' = [from EXCEPT ![t] = x] /\ to' = [to EXCEPT ![t] = n]
        /\ pc' = [pc EXCEPT ![t] = "cr_unlock"]
        /\ UNCHANGED <<current, cont, abandoned, known>>
    BY <1>2 DEF ult_creat, context_create, InUser, TypeInv, ThreadTypes, main_vars
  <2>2. x \notin Abandoned /\ n \notin Made /\ n # x
    BY <2>1 DEF BackInv, ThreadBack, Made, Fibers, FreshOK
  <2> HIDE DEF n
  <2>3. /\ \A f \in Fibers \ {n, x} : ctx'[f] = ctx[f]
        /\ ctx'[n] = Image(Fresh(n), FALSE, NoFiber, NoFiber, {})
        /\ ctx'[x] = Image(cont[t], FALSE, NoFiber, NoFiber, {n})
    BY <2>1, <2>2 DEF TypeInv, GlobalTypes
  <2>4. /\ \A f \in Fibers \ {n} : f \in Abandoned' <=> f \in Abandoned
        /\ n \notin Abandoned'
    <3>0. abandoned' = abandoned /\ x \in Fibers /\ n \in Fibers /\ cont[t].flow \notin abandoned
      BY <2>1
    <3>1. ctx'[n].c.flow = n /\ ctx'[x].c.flow = cont[t].flow
      BY <2>3 DEF Image, Fresh
    <3>2. x \notin Abandoned' /\ n \notin Abandoned'
      BY <1>0, <3>0, <3>1 DEF Abandoned
    <3>3. \A f \in Fibers \ {n, x} : f \in Abandoned' <=> f \in Abandoned
      BY <2>3, <3>0 DEF Abandoned
    <3> QED BY <2>2, <3>2, <3>3
  <2>5. known' \cap Abandoned' = {}
    BY <2>1, <2>2, <2>4 DEF BackInv, FreshOK, Made
  <2>6. ASSUME NEW u \in Threads PROVE ThreadBack(u)'
    <3>1. n \notin {current[u], from[u], to[u]}
      BY <2>1, <2>2 DEF FreshOK
    <3>2. ThreadBack(u)
      BY DEF BackInv
    <3>3. CASE u = t
      BY <1>0, <2>1, <2>2, <2>4, <3>3 DEF ThreadBack, TypeInv, ThreadTypes
    <3>4. CASE u # t
      BY <1>0, <2>1, <2>4, <3>1, <3>2, <3>4 DEF ThreadBack, TypeInv, ThreadTypes, Abandoned
    <3> QED BY <3>3, <3>4
  <2>7. ASSUME NEW f \in Fibers PROVE ImageBack(f)'
    <3>1. ImageBack(f) /\ n \notin ctx[f].new /\ n # ctx[f].from /\ n # ctx[f].to
      BY <2>1, <2>2 DEF BackInv, FreshOK
    <3>2. ctx[f].new \subseteq Fibers
      BY DEF FreshOK, Made
    <3>3. CASE f \in {n, x}
      BY <1>0, <2>3, <2>4, <3>3 DEF ImageBack, Image
    <3>4. CASE f \notin {n, x}
      BY <1>0, <2>3, <2>4, <3>1, <3>2, <3>4 DEF ImageBack, Abandoned
    <3> QED BY <3>3, <3>4
  <2> QED
    BY <2>5, <2>6, <2>7 DEF BackInv
<1>3. ASSUME NEW t \in Threads, CreatUnlock(t) PROVE BackInv'
  <2>1. /\ pc[t] = "cr_unlock" /\ pc' = [pc EXCEPT ![t] = "boot"]
        /\ cont' = [cont EXCEPT ![t] = Fresh(to[t])]
        /\ UNCHANGED <<ctx, current, from, to, abandoned, known>>
    BY <1>3 DEF CreatUnlock, Goto, main_vars
  <2>2. to[t] \in Fibers /\ cont[t].flow \notin abandoned /\ current[t] \in Fibers
    BY <2>1 DEF TypeInv, LocalsOK, BackInv, ThreadBack
  <2>3. Abandoned' = Abandoned
    BY <2>1 DEF Abandoned
  <2>4. \A u \in Threads : ThreadBack(u)'
    BY <1>0, <2>1, <2>2, <2>3 DEF BackInv, ThreadBack, TypeInv, ThreadTypes, Fresh
  <2> QED
    BY <2>1, <2>4, BackQuiet DEF BackInv
<1>4. ASSUME NEW t \in Threads, context_create_boot(t) PROVE BackInv'
  <2> DEFINE n == to[t]
  <2>1. /\ pc[t] = "boot" /\ pc' = [pc EXCEPT ![t] = "sw_unlock"]
        /\ ctx' = [ctx EXCEPT ![n] = Image(cont[t], FALSE, NoFiber, NoFiber, {})]
        /\ from' = [from EXCEPT ![t] = n] /\ to' = [to EXCEPT ![t] = current[t]]
        /\ UNCHANGED <<current, cont, abandoned, known>>
    BY <1>4 DEF context_create_boot, Goto, main_vars
  <2>2. /\ n \in Fibers /\ n \notin Abandoned /\ cont[t].flow \notin abandoned
        /\ current[t] \notin Abandoned
    BY <2>1 DEF TypeInv, LocalsOK, BackInv, ThreadBack
  <2> HIDE DEF n
  <2>3. Abandoned' = Abandoned
    BY <2>1, <2>2 DEF Abandoned, Image, TypeInv, GlobalTypes
  <2>4. \A u \in Threads : ThreadBack(u)'
    BY <1>0, <2>1, <2>2, <2>3 DEF BackInv, ThreadBack, TypeInv, ThreadTypes
  <2>5. \A f \in Fibers : ImageBack(f)'
    BY <1>0, <2>1, <2>3 DEF BackInv, ImageBack, Image, TypeInv, GlobalTypes
  <2> QED
    BY <2>1, <2>3, <2>4, <2>5 DEF BackInv
<1>5. ASSUME NEW t \in Threads, NEW f \in Fibers, ult_switch_to(t, f) \/ Alarm(t, f)
      PROVE  BackInv'
  <2>1. /\ pc[t] = "user" /\ current[t] \in Fibers /\ f \in known
        /\ from' = [from EXCEPT ![t] = current[t]] /\ to' = [to EXCEPT ![t] = f]
        /\ pc' = [pc EXCEPT ![t] = "sw_cur"]
        /\ UNCHANGED <<ctx, current, abandoned, known>>
    BY <1>5 DEF ult_switch_to, Alarm, Trylock, InUser, TypeInv, ThreadTypes, main_vars
  <2>2. \A u \in Threads : cont'[u].flow = cont[u].flow
    BY <1>5, FlowKept DEF ult_switch_to
  <2>3. Abandoned' = Abandoned
    BY <2>1 DEF Abandoned
  <2>4. \A u \in Threads : ThreadBack(u)'
    BY <1>0, <2>1, <2>2, <2>3 DEF BackInv, ThreadBack, TypeInv, ThreadTypes
  <2> QED
    BY <2>1, <2>4, BackQuiet DEF BackInv
<1>6. ASSUME NEW t \in Threads, SetCurrent(t) PROVE BackInv'
  <2>1. /\ pc[t] = "sw_cur" /\ pc' = [pc EXCEPT ![t] = "sw_save"]
        /\ current' = [current EXCEPT ![t] = to[t]]
        /\ UNCHANGED <<ctx, from, to, cont, abandoned, known>>
    BY <1>6 DEF SetCurrent, Goto, main_vars
  <2>2. to[t] \in Fibers /\ to[t] \notin Abandoned /\ Abandoned' = Abandoned
    BY <2>1 DEF TypeInv, LocalsOK, BackInv, ThreadBack, Abandoned
  <2>3. \A u \in Threads : ThreadBack(u)'
    BY <1>0, <2>1, <2>2 DEF BackInv, ThreadBack, TypeInv, ThreadTypes
  <2> QED
    BY <2>1, <2>3, BackQuiet DEF BackInv
<1>7. ASSUME NEW t \in Threads, Save(t) PROVE BackInv'
  <2> DEFINE x == from[t]
  <2>1. /\ pc[t] = "sw_save" /\ pc' = [pc EXCEPT ![t] = "sw_unlock"]
        /\ ctx' = [ctx EXCEPT ![x] = Image(cont[t], completed_fibers = 0, from[t], to[t], {})]
        /\ UNCHANGED <<current, from, to, cont, abandoned, known>>
    BY <1>7 DEF Save, Goto, main_vars
  <2>2. x \in Fibers /\ (x \in Abandoned <=> cont[t].flow \in abandoned) /\ to[t] \notin Abandoned
    BY <2>1 DEF TypeInv, LocalsOK, BackInv, ThreadBack
  <2>3. Abandoned' = Abandoned
    BY <2>1, <2>2 DEF Abandoned, Image, TypeInv, GlobalTypes
  <2>4. \A u \in Threads : ThreadBack(u)'
    BY <1>0, <2>1, <2>2, <2>3 DEF BackInv, ThreadBack, TypeInv, ThreadTypes
  <2>5. \A f \in Fibers : ImageBack(f)'
    BY <1>0, <2>1, <2>2, <2>3 DEF BackInv, ImageBack, Image, TypeInv, GlobalTypes
  <2> QED
    BY <2>1, <2>3, <2>4, <2>5 DEF BackInv
<1>8. ASSUME NEW t \in Threads, ult_unlock(t) PROVE BackInv'
  <2>1. /\ pc[t] = "sw_unlock" /\ pc' = [pc EXCEPT ![t] = "sw_jump"]
        /\ UNCHANGED <<ctx, current, from, to, cont, abandoned, known>>
    BY <1>8 DEF ult_unlock, Goto, main_vars
  <2>2. Abandoned' = Abandoned
    BY <2>1 DEF Abandoned
  <2>3. \A u \in Threads : ThreadBack(u)'
    BY <1>0, <2>1, <2>2 DEF BackInv, ThreadBack, TypeInv, ThreadTypes
  <2> QED
    BY <2>1, <2>3, BackQuiet DEF BackInv
<1>9. ASSUME NEW t \in Threads, long_jmp(t) PROVE BackInv'
  <2> DEFINE i == ctx[to[t]]
  <2>1. /\ pc[t] = "sw_jump" /\ cont' = [cont EXCEPT ![t] = i.c]
        /\ pc' = [pc EXCEPT ![t] = IF i.zero THEN "sw_unlock" ELSE "user"]
        /\ from' = [from EXCEPT ![t] = IF i.zero THEN i.from ELSE NoFiber]
        /\ to' = [to EXCEPT ![t] = IF i.zero THEN i.to ELSE NoFiber]
        /\ known' = known \cup i.new
        /\ UNCHANGED <<ctx, current, abandoned>>
    BY <1>9 DEF long_jmp, main_vars
  <2>2. /\ to[t] \in Fibers /\ to[t] \notin Abandoned /\ current[t] \in Fibers
        /\ current[t] \notin Abandoned
    BY <2>1 DEF TypeInv, LocalsOK, BackInv, ThreadBack
  <2>3. /\ i.c.flow \notin abandoned /\ i.new \cap Abandoned = {}
        /\ i.from \notin Abandoned /\ i.to \notin Abandoned
    BY <2>2 DEF Abandoned, BackInv, ImageBack
  <2>4. Abandoned' = Abandoned
    BY <2>1 DEF Abandoned
  <2> HIDE DEF i
  <2>5. ASSUME NEW u \in Threads PROVE ThreadBack(u)'
    <3>1. ThreadBack(u)
      BY DEF BackInv
    <3>2. CASE u = t
      BY <1>0, <2>1, <2>2, <2>3, <2>4, <3>2 DEF ThreadBack, TypeInv, ThreadTypes
    <3>3. CASE u # t
      BY <2>1, <2>4, <3>1, <3>3 DEF ThreadBack, TypeInv, ThreadTypes
    <3> QED BY <3>2, <3>3
  <2>6. known' \cap Abandoned = {}
    BY <2>1, <2>3 DEF BackInv
  <2> QED
    BY <2>1, <2>5, <2>6, BackQuiet
<1>10. ASSUME NEW t \in Threads, InitComplete(t) \/ Run(t) \/ Complete(t) \/ HandlerReturn(t)
       PROVE BackInv'
  <2>1. UNCHANGED <<ctx, pc, from, to, current, abandoned, known>>
    BY <1>10, ReturnToUser DEF InitComplete, Run, Complete, HandlerReturn, local_vars, main_vars
  <2>2. \A u \in Threads : cont'[u].flow = cont[u].flow
    <3>1. 0 \in Fibers
      BY DEF Fibers
    <3> QED BY <1>10, <3>1, FlowKept DEF InitComplete, Complete
  <2>3. \A u \in Threads : ThreadBack(u)'
    BY <2>1, <2>2 DEF BackInv, ThreadBack, Abandoned
  <2> QED
    BY <2>1, <2>3, BackQuiet DEF BackInv
<1>11. ASSUME UNCHANGED vars PROVE BackInv'
  BY <1>11 DEF vars, local_vars, main_vars, BackInv, ThreadBack, ImageBack, Abandoned
<1> QED
  BY <1>1, <1>2, <1>3, <1>4, <1>5, <1>6, <1>7, <1>8, <1>9, <1>10, <1>11 DEF Next, Idle

LEMMA BackInit == Init => BackInv
<1> SUFFICES ASSUME Init PROVE BackInv
  OBVIOUS
<1> USE UltAssumption DEF Init
<1>1. Abandoned = {}
  BY DEF Abandoned, Image, Fresh
<1>2. \A t \in Threads : cont[t].flow = t
  BY DEF Fresh
<1> QED
  BY <1>1, <1>2 DEF BackInv, ThreadBack, ImageBack

(* "no-one will ever get back here!": a thread resumes the stack of one    *)
(* that left thread_initialization only after an alarm has arrived inside  *)
(* ult_switch_to, before and after the last fiber completed.               *)
THEOREM BackNeedsInterruptionHolds == Spec => BackNeedsInterruption
<1> DEFINE J == ~interrupted => Calm /\ FreshOK /\ BackInv
           Gone == \A t \in Threads : ~GetsBack(t)
<1>1. TypeInv /\ J /\ [Next]_vars => [~interrupted => Gone]_vars
  <2> SUFFICES ASSUME TypeInv, BackInv, Next PROVE Gone
    OBVIOUS
  <2> USE DEF GetsBack
  <2>1. abandoned' = abandoned /\ \A f \in Fibers : f \notin abandoned
    BY UltAssumption
       DEF TypeInv, GlobalTypes, Next, vars, main_vars, ult_convert, ult_creat, CreatUnlock,
           context_create_boot, ult_switch_to, SetCurrent, Save, ult_unlock, long_jmp,
           InitComplete, Alarm, HandlerReturn, Run, Complete, Idle
  <2>2. ASSUME NEW t \in Threads, CreatUnlock(t) PROVE Gone
    <3>1. to[t] \in Fibers
      BY <2>2 DEF CreatUnlock, Goto, TypeInv, LocalsOK
    <3> QED
      BY <2>1, <2>2, <3>1 DEF CreatUnlock, Fresh, TypeInv, ThreadTypes
  <2>3. ASSUME NEW t \in Threads, long_jmp(t) PROVE Gone
    <3>1. to[t] \in Fibers /\ to[t] \notin Abandoned
      BY <2>3 DEF long_jmp, TypeInv, LocalsOK, BackInv, ThreadBack
    <3>2. ctx[to[t]].c.flow \notin abandoned
      BY <3>1 DEF Abandoned
    <3> QED
      BY <2>1, <2>3, <3>2 DEF long_jmp, TypeInv, ThreadTypes
  <2>4. ASSUME NEW t \in Threads, NEW f \in Fibers,
               Alarm(t, f) \/ HandlerReturn(t) \/ Run(t)
        PROVE  Gone
    BY <2>4, FlowKept
  <2>5. ASSUME UNCHANGED cont PROVE Gone
    BY <2>5
  <2>6. 0 \in Fibers
    BY UltAssumption DEF Fibers
  <2> HIDE DEF Gone
  <2> QED
    BY <2>2, <2>3, <2>4, <2>5, <2>6
       DEF Next, vars, ult_convert, ult_creat, context_create_boot, ult_switch_to, SetCurrent,
           Save, ult_unlock, InitComplete, Complete, Idle
<1>2. TypeInv /\ J /\ [Next]_vars => J'
  BY CalmStep, FreshStep, BackStep, OnlyDisturbed
<1>3. Init => J
  BY LockInit, BackInit DEF LockInv, Init
<1>4. (~interrupted => Gone) <=> \A t \in Threads : GetsBack(t) => interrupted
  OBVIOUS
<1> HIDE DEF Gone, J
<1> QED
  BY <1>1, <1>2, <1>3, <1>4, TypeHolds, PTL DEF Spec, BackNeedsInterruption

-----------------------------------------------------------------------------
(* The user-space fibers implement Coroutines                              *)

(* The flow of the refinement mapping.                                     *)
Flow(t) == IF pc[t] = "sw_jump" THEN ctx[to[t]].c.flow ELSE cont[t].flow

KeptAll(t) == Kept(t) /\ \A u \in Threads \ {t} : cont'[u] = cont[u]

LEMMA FlowIs ==
  ASSUME TypeInv, FlowInv, NEW t \in Threads
  PROVE  Flow(t) = IF Active(t) = NoFiber THEN t ELSE OwnFlow(Active(t))
<1>1. CASE pc[t] = "sw_jump"
  <2>1. Active(t) = to[t]
    BY <1>1 DEF Active
  <2>2. Flow(t) = OwnFlow(to[t])
    BY <1>1 DEF Flow, OwnFlow
  <2>3. to[t] # NoFiber
    BY <1>1, UltAssumption DEF TypeInv, LocalsOK
  <2> QED BY <2>1, <2>2, <2>3
<1>2. CASE pc[t] # "sw_jump"
  BY <1>2 DEF Flow, FlowInv, ThreadFlow
<1> QED BY <1>1, <1>2

(* What a thread works on it holds.                                        *)
LEMMA ActiveHeld ==
  ASSUME TypeInv, FreshOK, NEW t \in Threads
  PROVE  /\ Active(t) \in Made \cup {NoFiber}
         /\ \A f \in Fibers : Active(t) = f => Holds(t, f)
         /\ Active(t) = NoFiber <=> pc[t] = "user" /\ current[t] = NoFiber
<1> USE UltAssumption DEF TypeInv, ThreadTypes
<1>1. Active(t) \in {current[t], from[t], to[t]}
  BY DEF Active
<1>2. \A f \in Fibers : Active(t) = f => Holds(t, f)
  BY DEF Active, Holds
<1>3. Active(t) = NoFiber <=> pc[t] = "user" /\ current[t] = NoFiber
  BY DEF Active, LocalsOK
<1> QED
  BY <1>1, <1>2, <1>3 DEF FreshOK

(* A fiber that a thread holds but does not work on is in nobody's flow.   *)
LEMMA HeldIsIdle ==
  ASSUME TypeInv, FreshOK, Locks, FlowInv, NEW t \in Threads, NEW f \in Fibers,
         Holds(t, f), Active(t) # f
  PROVE  f \in Made /\ \A u \in Threads : Active(u) # f /\ Flow(u) # OwnFlow(f)
<1>1. f \in Made
  BY DEF Locks, FreshOK
<1>2. ASSUME NEW u \in Threads PROVE Active(u) # f
  BY <1>2, ActiveHeld DEF Locks
<1>3. ASSUME NEW u \in Threads PROVE Flow(u) # OwnFlow(f)
  <2>1. CASE Active(u) = NoFiber
    BY <1>1, <2>1, FlowIs DEF FlowInv, ThreadFlow
  <2>2. CASE Active(u) # NoFiber
    BY <1>1, <1>2, <2>2, FlowIs, ActiveHeld DEF FlowInv, FibersOwn
  <2> QED BY <2>1, <2>2
<1> QED
  BY <1>1, <1>2, <1>3

(* No two threads are in one flow.                                         *)
LEMMA FlowsApart ==
  ASSUME TypeInv, FreshOK, Locks, FlowInv, NEW t \in Threads, NEW u \in Threads, t # u
  PROVE  Flow(t) # Flow(u)
<1>1. CASE Active(t) = NoFiber
  BY <1>1, FlowIs, ActiveHeld DEF FlowInv, ThreadFlow
<1>2. CASE Active(u) = NoFiber
  BY <1>2, FlowIs, ActiveHeld DEF FlowInv, ThreadFlow
<1>3. CASE Active(t) # NoFiber /\ Active(u) # NoFiber
  <2>1. Active(t) # Active(u)
    BY <1>3, ActiveHeld DEF Locks, Made
  <2> QED
    BY <1>3, <2>1, FlowIs, ActiveHeld DEF FlowInv, FibersOwn
<1> QED BY <1>1, <1>2, <1>3

(* A step of thread t that makes no fiber and no progress of a flow.       *)
LEMMA FlowFrame ==
  ASSUME FlowInv, NEW t \in Threads, KeptAll(t),
         UNCHANGED <<ult_id, pos, born>>,
         \A f \in Made : OwnFlow(f)' = OwnFlow(f),
         \A u \in Threads : {Active(u), to[u]} \subseteq Made \cup {NoFiber},
         \A u \in Threads : pc[u] = "cr_unlock" => to[u] \in Made,
         ThreadFlow(t)',
         \A f \in Made : \/ ctx'[f].c.at = ctx[f].c.at /\ (StaleBy(t, f) => StaleBy(t, f)')
                         \/ ctx'[f].c.at = pos[OwnFlow(f)]
  PROVE  FlowInv'
<1>1. Made' = Made
  BY DEF Made
<1>2. FibersOwn'
  BY <1>1 DEF FlowInv, FibersOwn
<1>3. ASSUME NEW u \in Threads, u # t
      PROVE  Active(u)' = Active(u) /\ \A f \in Made : StaleBy(u, f)' <=> StaleBy(u, f)
  BY <1>3 DEF KeptAll, Kept, Active, StaleBy
<1>4. ASSUME NEW u \in Threads PROVE ThreadFlow(u)'
  <2>1. CASE u # t
    <3>1. ThreadFlow(u) /\ Active(u)' = Active(u)
      BY <1>3, <2>1 DEF FlowInv
    <3>2. pc'[u] = pc[u] /\ to'[u] = to[u] /\ cont'[u] = cont[u]
      BY <2>1 DEF KeptAll, Kept
    <3> QED
      BY <1>1, <3>1, <3>2 DEF ThreadFlow
  <2> QED BY <2>1
<1>5. ASSUME NEW f \in Made PROVE SavedAt(f)'
  BY <1>3 DEF FlowInv, SavedAt
<1> QED
  BY <1>1, <1>2, <1>4, <1>5 DEF FlowInv

(* Steps that are invisible: every thread stays in its flow.               *)
LEMMA Stutter ==
  ASSUME \A t \in Threads : Flow(t)' = Flow(t), UNCHANGED <<pos, born>>
  PROVE  [Abstract!Next]_(Abstract!vars)
<1>1. UNCHANGED Abstract!vars
  BY DEF Abstract!vars, Flow
<1> QED BY <1>1

(* A thread leaves its flow for one that nobody executes.                  *)
LEMMA AbstractSwitch ==
  ASSUME NEW t \in Threads, NEW s \in Threads \cup born, s \in Flows,
         \A u \in Threads : Flow(u) # s,
         Flow(t)' = s, \A u \in Threads \ {t} : Flow(u)' = Flow(u), UNCHANGED <<pos, born>>
  PROVE  Abstract!Next
<1>1. [u \in Threads |-> Flow(u)'] = [[u \in Threads |-> Flow(u)] EXCEPT ![t] = s]
  OBVIOUS
<1>2. Abstract!SwitchTo(t, s)
  BY <1>1 DEF Abstract!SwitchTo, Flow
<1> QED
  BY <1>2 DEF Abstract!Next, Abstract!Flows, Flows

LEMMA KeptFlow ==
  ASSUME TypeInv, NEW t \in Threads, KeptAll(t), UNCHANGED ult_id,
         FreshOK, \A f \in Made : OwnFlow(f)' = OwnFlow(f)
  PROVE  \A u \in Threads \ {t} : Flow(u)' = Flow(u)
<1> SUFFICES ASSUME NEW u \in Threads \ {t} PROVE Flow(u)' = Flow(u)
  OBVIOUS
<1>1. pc'[u] = pc[u] /\ to'[u] = to[u] /\ cont'[u] = cont[u]
  BY DEF KeptAll, Kept
<1>2. CASE pc[u] = "sw_jump"
  <2>1. to[u] \in Made
    BY <1>2, UltAssumption DEF TypeInv, LocalsOK, FreshOK
  <2> QED
    BY <1>1, <1>2, <2>1 DEF Flow, OwnFlow
<1>3. CASE pc[u] # "sw_jump"
  BY <1>1, <1>3 DEF Flow
<1> QED BY <1>2, <1>3

LEMMA RefStep ==
  ASSUME TypeInv, Calm, ~interrupted', FreshOK, CurrentOK, NoZero, Locks, FlowInv, Next
  PROVE  FlowInv' /\ [Abstract!Next]_(Abstract!vars)
<1> DEFINE Goal == FlowInv' /\ [Abstract!Next]_(Abstract!vars)
<1> USE UltAssumption
<1>0. /\ \A u \in Threads : {Active(u), to[u]} \subseteq Made \cup {NoFiber}
      /\ \A u \in Threads : pc[u] # "user" => {current[u], from[u], to[u]} \subseteq Made
  BY ActiveHeld DEF FreshOK, TypeInv, LocalsOK, ThreadTypes
<1>1. ASSUME NEW t \in Threads, CreatUnlock(t) PROVE Goal
  <2> DEFINE n == to[t]
  <2>1. /\ pc[t] = "cr_unlock" /\ pc' = [pc EXCEPT ![t] = "boot"]
        /\ cont' = [cont EXCEPT ![t] = Fresh(n)]
        /\ UNCHANGED <<ult_id, ctx, current, from, to, born, pos>>
    BY <1>1 DEF CreatUnlock, Goto
  <2>2. n \in Made /\ n \in Fibers /\ Active(t) = from[t] /\ Holds(t, n) /\ n # from[t]
    BY <1>0, <2>1 DEF Active, Holds, CurrentOK, Made
  <2>3. OwnFlow(n) = n /\ pos[n] = 0 /\ n \in Threads \cup born
    BY <2>1, <2>2 DEF FlowInv, ThreadFlow, FibersOwn
  <2>4. KeptAll(t) /\ \A f \in Made : OwnFlow(f)' = OwnFlow(f)
    BY <2>1 DEF KeptAll, Kept, OwnFlow, TypeInv, ThreadTypes
  <2>5. Active(t)' = n /\ pc'[t] = "boot" /\ cont'[t] = Fresh(n)
    BY <2>1 DEF Active, TypeInv, ThreadTypes
  <2>6. ThreadFlow(t)'
    BY <2>1, <2>2, <2>3, <2>4, <2>5 DEF ThreadFlow, Fresh
  <2>7. \A f \in Made : ctx'[f].c.at = ctx[f].c.at /\ ~StaleBy(t, f)
    BY <2>1 DEF StaleBy
  <2>8. FlowInv'
    BY <1>0, <2>1, <2>4, <2>6, <2>7, FlowFrame
  <2>9. \A u \in Threads : Flow(u) # n
    BY <2>2, <2>3, HeldIsIdle
  <2>10. Flow(t)' = n /\ \A u \in Threads \ {t} : Flow(u)' = Flow(u)
    BY <2>1, <2>4, <2>5, KeptFlow DEF Flow, Fresh
  <2>11. Abstract!Next
    BY <2>1, <2>2, <2>3, <2>9, <2>10, AbstractSwitch DEF Flows
  <2> QED BY <2>8, <2>11
<1>2. ASSUME NEW t \in Threads, context_create_boot(t) PROVE Goal
  <2> DEFINE n == to[t]
  <2>1. /\ pc[t] = "boot" /\ pc' = [pc EXCEPT ![t] = "sw_unlock"]
        /\ ctx' = [ctx EXCEPT ![n] = Image(cont[t], FALSE, NoFiber, NoFiber, {})]
        /\ from' = [from EXCEPT ![t] = n] /\ to' = [to EXCEPT ![t] = current[t]]
        /\ UNCHANGED <<ult_id, current, cont, born, pos>>
    BY <1>2 DEF context_create_boot, Goto
  <2>2. n \in Made /\ n \in Fibers /\ n # NoFiber /\ Active(t) = n
    BY <1>0, <2>1 DEF Active, Made
  <2>3. cont[t].flow = OwnFlow(n) /\ cont[t].at = pos[cont[t].flow]
    BY <2>1, <2>2 DEF FlowInv, ThreadFlow
  <2>4. /\ \A f \in Fibers \ {n} : ctx'[f] = ctx[f]
        /\ ctx'[n].c = cont[t]
    BY <2>1, <2>2 DEF TypeInv, GlobalTypes, Image
  <2>5. KeptAll(t) /\ \A f \in Made : OwnFlow(f)' = OwnFlow(f)
    BY <2>1, <2>3, <2>4 DEF KeptAll, Kept, OwnFlow, TypeInv, ThreadTypes, Made
  <2>6. Active(t)' = n /\ pc'[t] = "sw_unlock" /\ cont'[t] = cont[t]
    BY <2>1 DEF Active, TypeInv, ThreadTypes
  <2>7. ThreadFlow(t)'
    BY <2>1, <2>2, <2>3, <2>5, <2>6 DEF ThreadFlow
  <2>8. \A f \in Made : \/ ctx'[f].c.at = ctx[f].c.at /\ ~StaleBy(t, f)
                        \/ ctx'[f].c.at = pos[OwnFlow(f)]
    BY <2>1, <2>3, <2>4 DEF StaleBy, Made
  <2>9. FlowInv'
    BY <1>0, <2>1, <2>5, <2>7, <2>8, FlowFrame
  <2>10. \A u \in Threads : Flow(u)' = Flow(u)
    BY <2>1, <2>5, <2>6, KeptFlow DEF Flow
  <2> QED BY <2>1, <2>9, <2>10, Stutter
<1>3. ASSUME NEW t \in Threads, NEW f \in Fibers, ult_switch_to(t, f) \/ Alarm(t, f) PROVE Goal
  <2>1. /\ pc[t] = "user" /\ current[t] \in Fibers /\ f \in known
        /\ from' = [from EXCEPT ![t] = current[t]] /\ to' = [to EXCEPT ![t] = f]
        /\ pc' = [pc EXCEPT ![t] = "sw_cur"]
        /\ UNCHANGED <<ult_id, ctx, current, born, pos>>
    BY <1>3 DEF ult_switch_to, Alarm, Trylock, InUser, TypeInv, ThreadTypes
  <2>2. cont'[t].flow = cont[t].flow /\ cont'[t].at = cont[t].at /\ \A u \in Threads \ {t} : cont'[u] = cont[u]
    <3>1. cont[t] \in GoodConts
      BY DEF TypeInv, ThreadTypes
    <3>2. CASE ult_switch_to(t, f)
      BY <3>2 DEF ult_switch_to
    <3>3. CASE Alarm(t, f)
      <4> DEFINE x == <<[pc |-> pc[t], from |-> from[t], to |-> to[t]]>> \o cont[t].frames
      <4>1. cont' = [cont EXCEPT ![t] = [cont[t] EXCEPT !.frames = x]]
        BY <3>3 DEF Alarm
      <4> HIDE DEF x
      <4> QED BY <3>1, <4>1 DEF TypeInv, ThreadTypes, GoodConts
    <3> QED BY <1>3, <3>2, <3>3
  <2>3. KeptAll(t) /\ \A g \in Made : OwnFlow(g)' = OwnFlow(g)
    BY <2>1, <2>2 DEF KeptAll, Kept, OwnFlow, TypeInv, ThreadTypes
  <2>4. Active(t) = current[t] /\ Active(t)' = current[t] /\ pc'[t] = "sw_cur" /\ current[t] \in Made
    BY <1>0, <2>1 DEF Active, TypeInv, ThreadTypes
  <2>5. ThreadFlow(t)'
    <3>1. ThreadFlow(t)
      BY DEF FlowInv
    <3> QED BY <2>1, <2>2, <2>3, <2>4, <3>1 DEF ThreadFlow
  <2>6. \A g \in Made : ctx'[g].c.at = ctx[g].c.at /\ (StaleBy(t, g) => StaleBy(t, g)')
    BY <2>1, <2>4 DEF StaleBy
  <2>7. FlowInv'
    BY <1>0, <2>1, <2>3, <2>5, <2>6, FlowFrame
  <2>8. \A u \in Threads : Flow(u)' = Flow(u)
    BY <2>1, <2>2, <2>3, <2>4, KeptFlow DEF Flow
  <2> QED BY <2>1, <2>7, <2>8, Stutter
<1>4. ASSUME NEW t \in Threads, SetCurrent(t) PROVE Goal
  <2>1. /\ pc[t] = "sw_cur" /\ pc' = [pc EXCEPT ![t] = "sw_save"]
        /\ current' = [current EXCEPT ![t] = to[t]]
        /\ UNCHANGED <<ult_id, ctx, from, to, cont, born, pos>>
    BY <1>4 DEF SetCurrent, Goto
  <2>2. KeptAll(t) /\ \A g \in Made : OwnFlow(g)' = OwnFlow(g)
    BY <2>1 DEF KeptAll, Kept, OwnFlow, TypeInv, ThreadTypes
  <2>3. Active(t) = from[t] /\ Active(t)' = from[t] /\ pc'[t] = "sw_save" /\ from[t] \in Made
    BY <1>0, <2>1 DEF Active, TypeInv, ThreadTypes
  <2>4. ThreadFlow(t)'
    <3>1. ThreadFlow(t)
      BY DEF FlowInv
    <3> QED BY <2>1, <2>2, <2>3, <3>1 DEF ThreadFlow, Made
  <2>5. \A g \in Made : ctx'[g].c.at = ctx[g].c.at /\ (StaleBy(t, g) => StaleBy(t, g)')
    BY <2>1, <2>3 DEF StaleBy
  <2>6. FlowInv'
    BY <1>0, <2>1, <2>2, <2>4, <2>5, FlowFrame
  <2>7. \A u \in Threads : Flow(u)' = Flow(u)
    BY <2>1, <2>2, <2>3, KeptFlow DEF Flow
  <2> QED BY <2>1, <2>6, <2>7, Stutter
<1>5. ASSUME NEW t \in Threads, Save(t) PROVE Goal
  <2> DEFINE x == from[t]
  <2>1. /\ pc[t] = "sw_save" /\ pc' = [pc EXCEPT ![t] = "sw_unlock"]
        /\ ctx' = [ctx EXCEPT ![x] = Image(cont[t], completed_fibers = 0, from[t], to[t], {})]
        /\ UNCHANGED <<ult_id, current, from, to, cont, born, pos>>
    BY <1>5 DEF Save, Goto
  <2>2. x \in Made /\ x \in Fibers /\ x # NoFiber /\ Active(t) = x
    BY <1>0, <2>1 DEF Active, Made
  <2>3. cont[t].flow = OwnFlow(x) /\ cont[t].at = pos[cont[t].flow]
    BY <2>1, <2>2 DEF FlowInv, ThreadFlow
  <2>4. /\ \A f \in Fibers \ {x} : ctx'[f] = ctx[f]
        /\ ctx'[x].c = cont[t]
    BY <2>1, <2>2 DEF TypeInv, GlobalTypes, Image
  <2>5. KeptAll(t) /\ \A f \in Made : OwnFlow(f)' = OwnFlow(f)
    BY <2>1, <2>3, <2>4 DEF KeptAll, Kept, OwnFlow, TypeInv, ThreadTypes, Made
  <2>6. Active(t)' = x /\ pc'[t] = "sw_unlock" /\ cont'[t] = cont[t]
    BY <2>1 DEF Active, TypeInv, ThreadTypes
  <2>7. ThreadFlow(t)'
    BY <2>1, <2>2, <2>3, <2>5, <2>6 DEF ThreadFlow
  <2>8. \A f \in Made : \/ ctx'[f].c.at = ctx[f].c.at /\ ~StaleBy(t, f)
                        \/ ctx'[f].c.at = pos[OwnFlow(f)]
    BY <2>2, <2>3, <2>4 DEF StaleBy, Made
  <2>9. FlowInv'
    BY <1>0, <2>1, <2>5, <2>7, <2>8, FlowFrame
  <2>10. \A u \in Threads : Flow(u)' = Flow(u)
    BY <2>1, <2>5, <2>6, KeptFlow DEF Flow
  <2> QED BY <2>1, <2>9, <2>10, Stutter
<1>6. ASSUME NEW t \in Threads, ult_unlock(t) PROVE Goal
  <2> DEFINE n == to[t]
  <2>1. /\ pc[t] = "sw_unlock" /\ pc' = [pc EXCEPT ![t] = "sw_jump"]
        /\ UNCHANGED <<ult_id, ctx, current, from, to, cont, born, pos>>
    BY <1>6 DEF ult_unlock, Goto
  <2>2. n \in Made /\ n \in Fibers /\ Active(t) = from[t] /\ Holds(t, n) /\ n # from[t]
    BY <1>0, <2>1 DEF Active, Holds, CurrentOK, Made
  <2>3. OwnFlow(n) \in Threads \cup born
    BY <2>2 DEF FlowInv, FibersOwn
  <2>4. KeptAll(t) /\ \A f \in Made : OwnFlow(f)' = OwnFlow(f)
    BY <2>1 DEF KeptAll, Kept, OwnFlow, TypeInv, ThreadTypes
  <2>5. Active(t)' = n /\ pc'[t] = "sw_jump"
    BY <2>1 DEF Active, TypeInv, ThreadTypes
  <2>6. ThreadFlow(t)'
    BY <2>2, <2>5 DEF ThreadFlow
  <2>7. \A f \in Made : ctx'[f].c.at = ctx[f].c.at /\ ~StaleBy(t, f)
    BY <2>1 DEF StaleBy
  <2>8. FlowInv'
    BY <1>0, <2>1, <2>4, <2>6, <2>7, FlowFrame
  <2>9. \A u \in Threads : Flow(u) # OwnFlow(n)
    BY <2>2, HeldIsIdle
  <2>10. Flow(t)' = OwnFlow(n) /\ \A u \in Threads \ {t} : Flow(u)' = Flow(u)
    BY <2>1, <2>4, <2>5, KeptFlow DEF Flow, OwnFlow
  <2>11. Abstract!Next
    <3>1. OwnFlow(n) \in Flows
      BY <2>3 DEF Flows, TypeInv, GlobalTypes
    <3> QED BY <2>1, <2>3, <2>9, <2>10, <3>1, AbstractSwitch
  <2> QED BY <2>8, <2>11
<1>7. ASSUME NEW t \in Threads, long_jmp(t) PROVE Goal
  <2> DEFINE n == to[t]
  <2>1. pc[t] = "sw_jump" /\ n \in Made /\ n \in Fibers /\ current[t] = n /\ ~ctx[n].zero
    BY <1>0, <1>7 DEF long_jmp, CurrentOK, NoZero, Made
  <2>2. /\ pc' = [pc EXCEPT ![t] = "user"] /\ cont' = [cont EXCEPT ![t] = ctx[n].c]
        /\ from' = [from EXCEPT ![t] = NoFiber] /\ to' = [to EXCEPT ![t] = NoFiber]
        /\ UNCHANGED <<ult_id, ctx, current, born, pos>>
    BY <1>7, <2>1 DEF long_jmp
  <2>3. KeptAll(t) /\ \A f \in Made : OwnFlow(f)' = OwnFlow(f)
    BY <2>2 DEF KeptAll, Kept, OwnFlow, TypeInv, ThreadTypes
  <2>4. /\ Active(t) = n /\ Active(t)' = n /\ pc'[t] = "user" /\ cont'[t] = ctx[n].c
        /\ n # NoFiber
    BY <2>1, <2>2 DEF Active, TypeInv, ThreadTypes
  <2>5. ctx[n].c.at = pos[OwnFlow(n)]
    <3>1. \A u \in Threads : ~StaleBy(u, n)
      BY <2>1, <2>4, ActiveHeld DEF StaleBy, Locks
    <3> QED BY <2>1, <3>1 DEF FlowInv, SavedAt
  <2>6. ThreadFlow(t)'
    BY <2>1, <2>2, <2>3, <2>4, <2>5 DEF ThreadFlow, OwnFlow
  <2>7. \A f \in Made : ctx'[f].c.at = ctx[f].c.at /\ ~StaleBy(t, f)
    BY <2>1, <2>2 DEF StaleBy
  <2>8. FlowInv'
    BY <1>0, <2>2, <2>3, <2>6, <2>7, FlowFrame
  <2>9. \A u \in Threads : Flow(u)' = Flow(u)
    BY <2>1, <2>2, <2>3, <2>4, KeptFlow DEF Flow
  <2> QED BY <2>2, <2>8, <2>9, Stutter
<1>8. ASSUME NEW t \in Threads, ult_convert(t) PROVE Goal
  <2>0. PICK n \in Fibers : n = ult_id
    BY <1>8 DEF ult_convert
  <2>1. /\ pc[t] = "user" /\ n \in Fibers /\ current[t] = NoFiber /\ ult_id' = n + 1
        /\ ctx' = [ctx EXCEPT ![n] = Image(cont[t], FALSE, NoFiber, NoFiber, {})]
        /\ current' = [current EXCEPT ![t] = n]
        /\ UNCHANGED <<pc, from, to, cont, born, pos>>
    BY <1>8, <2>0 DEF ult_convert, InUser, local_vars
  <2>2. Made' = Made \cup {n} /\ n \notin Made /\ n # NoFiber
    BY <2>0, <2>1 DEF Made, Fibers
  <2>3. /\ Active(t) = NoFiber /\ Active(t)' = n /\ StaleBy(t, n)'
        /\ \A u \in Threads \ {t} : Active(u)' = Active(u) /\ \A f : StaleBy(u, f)' <=> StaleBy(u, f)
        /\ \A f : ~StaleBy(t, f) \/ f = NoFiber
    BY <2>1 DEF Active, StaleBy, TypeInv, ThreadTypes
  <2>4. ThreadFlow(t) /\ cont[t].flow = t /\ \A f \in Made : OwnFlow(f) # t
    BY <2>3 DEF FlowInv, ThreadFlow
  <2>5. OwnFlow(n)' = t /\ \A f \in Made : OwnFlow(f)' = OwnFlow(f) /\ ctx'[f] = ctx[f]
    BY <2>1, <2>2, <2>4 DEF OwnFlow, Image, TypeInv, GlobalTypes, Made
  <2>6. FibersOwn'
    <3>1. \A f \in Made' : OwnFlow(f)' \in Threads \cup born'
      BY <2>1, <2>2, <2>5 DEF FlowInv, FibersOwn
    <3>2. \A f, g \in Made' : OwnFlow(f)' = OwnFlow(g)' => f = g
      BY <2>2, <2>4, <2>5 DEF FlowInv, FibersOwn
    <3> QED BY <3>1, <3>2 DEF FibersOwn
  <2>7. ASSUME NEW u \in Threads PROVE ThreadFlow(u)'
    <3>1. ThreadFlow(u)
      BY DEF FlowInv
    <3>2. CASE u = t
      BY <2>1, <2>2, <2>3, <2>4, <2>5, <3>2 DEF ThreadFlow
    <3>3. CASE u # t
      <4>1. /\ Active(u)' = Active(u) /\ pc'[u] = pc[u] /\ to'[u] = to[u] /\ cont'[u] = cont[u]
            /\ pos' = pos
        BY <2>1, <2>3, <3>3
      <4>2. Active(u) # NoFiber => OwnFlow(Active(u))' = OwnFlow(Active(u))
        BY <1>0, <2>5, <4>1
      <4>3. pc[u] = "cr_unlock" => OwnFlow(to[u])' = OwnFlow(to[u])
        BY <1>0, <2>5, <4>1
      <4>4. OwnFlow(n)' # u
        BY <2>5, <3>3
      <4> QED
        BY <2>2, <2>5, <3>1, <4>1, <4>2, <4>3, <4>4 DEF ThreadFlow
    <3> QED BY <3>2, <3>3
  <2>8. ASSUME NEW f \in Made' PROVE SavedAt(f)'
    <3>1. CASE f = n
      BY <2>3, <3>1 DEF SavedAt
    <3>2. CASE f # n
      <4>1. f \in Made /\ f # NoFiber
        BY <2>2, <3>2 DEF Made
      <4>2. SavedAt(f) /\ ctx'[f] = ctx[f] /\ OwnFlow(f)' = OwnFlow(f) /\ pos' = pos
        BY <2>1, <2>5, <4>1 DEF FlowInv
      <4> QED BY <2>3, <4>1, <4>2 DEF SavedAt
    <3> QED BY <3>1, <3>2
  <2>9. FlowInv'
    BY <2>1, <2>2, <2>6, <2>7, <2>8 DEF FlowInv
  <2>10. \A u \in Threads : Flow(u)' = Flow(u)
    <3> TAKE u \in Threads
    <3>1. pc[u] = "sw_jump" => to[u] \in Made
      BY <1>0
    <3> QED BY <2>1, <2>5, <3>1 DEF Flow, OwnFlow
  <2> QED BY <2>1, <2>9, <2>10, Stutter
<1>9. ASSUME NEW t \in Threads, ult_creat(t) PROVE Goal
  <2>0. PICK n \in Fibers, x \in Fibers : n = ult_id /\ x = current[t]
    BY <1>9 DEF ult_creat, TypeInv, ThreadTypes
  <2>1. /\ pc[t] = "user" /\ n \in Fibers /\ x \in Fibers /\ ult_id' = n + 1
        /\ ctx' = [ctx EXCEPT ![n] = Image(Fresh(n), FALSE, NoFiber, NoFiber, {}),
                              ![x] = Image(cont[t], FALSE, NoFiber, NoFiber, {n})]
        /\ from' = [from EXCEPT ![t] = x] /\ to' = [to EXCEPT ![t] = n]
        /\ pc' = [pc EXCEPT ![t] = "cr_unlock"] /\ born' = born \cup {n}
        /\ UNCHANGED <<current, cont, pos>>
    BY <1>9, <2>0 DEF ult_creat, context_create, InUser
  <2>2. Made' = Made \cup {n} /\ n \notin Made /\ n # NoFiber /\ x \in Made /\ n # x
    BY <2>0, <2>1 DEF Made, Fibers, FreshOK
  <2>3. /\ Active(t) = x /\ Active(t)' = x /\ pc'[t] = "cr_unlock" /\ to'[t] = n
        /\ \A u \in Threads \ {t} : /\ Active(u)' = Active(u) /\ pc'[u] = pc[u] /\ to'[u] = to[u]
                                    /\ \A f : StaleBy(u, f)' <=> StaleBy(u, f)
        /\ \A f : StaleBy(t, f) => f = x
    BY <2>0, <2>1 DEF Active, StaleBy, TypeInv, ThreadTypes
  <2>4. ThreadFlow(t) /\ cont[t].flow = OwnFlow(x) /\ cont[t].at = pos[OwnFlow(x)]
    BY <2>1, <2>2, <2>3 DEF FlowInv, ThreadFlow
  <2>5. /\ ctx'[n].c = Fresh(n) /\ ctx'[x].c = cont[t]
        /\ \A f \in Made \ {x} : ctx'[f] = ctx[f]
    BY <2>1, <2>2 DEF Image, TypeInv, GlobalTypes, Made
  <2>6. /\ OwnFlow(n)' = n /\ ctx'[n].c.at = 0 /\ pos[n] = 0
        /\ \A f \in Made : OwnFlow(f)' = OwnFlow(f)
    <3>1. OwnFlow(n)' = n /\ ctx'[n].c.at = 0
      BY <2>5 DEF OwnFlow, Fresh
    <3>2. pos[n] = 0
      BY <2>2 DEF FlowInv
    <3>3. OwnFlow(x)' = OwnFlow(x)
      BY <2>4, <2>5 DEF OwnFlow
    <3>4. \A f \in Made \ {x} : OwnFlow(f)' = OwnFlow(f)
      BY <2>5 DEF OwnFlow
    <3> QED BY <3>1, <3>2, <3>3, <3>4
  <2>7. n \notin born /\ n \notin Threads
    BY <2>1, <2>2 DEF FreshOK
  <2>8. FibersOwn'
    BY <2>1, <2>2, <2>6, <2>7 DEF FlowInv, FibersOwn
  <2>9. ASSUME NEW u \in Threads PROVE ThreadFlow(u)'
    <3>1. ThreadFlow(u)
      BY DEF FlowInv
    <3>2. CASE u = t
      BY <2>1, <2>2, <2>3, <2>4, <2>6, <3>2 DEF ThreadFlow
    <3>3. CASE u # t
      <4>1. /\ Active(u)' = Active(u) /\ pc'[u] = pc[u] /\ to'[u] = to[u] /\ cont'[u] = cont[u]
            /\ pos' = pos
        BY <2>1, <2>3, <3>3
      <4>2. Active(u) # NoFiber => OwnFlow(Active(u))' = OwnFlow(Active(u))
        BY <1>0, <2>6, <4>1
      <4>3. pc[u] = "cr_unlock" => OwnFlow(to[u])' = OwnFlow(to[u])
        BY <1>0, <2>6, <4>1
      <4>4. OwnFlow(n)' # u
        BY <2>6, <2>7
      <4> QED
        BY <2>2, <2>6, <3>1, <4>1, <4>2, <4>3, <4>4 DEF ThreadFlow
    <3> QED BY <3>2, <3>3
  <2>10. ASSUME NEW f \in Made' PROVE SavedAt(f)'
    <3>1. CASE f = n
      BY <2>1, <2>6, <3>1 DEF SavedAt
    <3>2. CASE f = x
      BY <2>1, <2>2, <2>4, <2>5, <2>6, <3>2 DEF SavedAt
    <3>3. CASE f # n /\ f # x
      <4>1. f \in Made
        BY <2>2, <3>3
      <4>2. SavedAt(f) /\ ctx'[f] = ctx[f] /\ OwnFlow(f)' = OwnFlow(f) /\ pos' = pos
        BY <2>1, <2>5, <2>6, <3>3, <4>1 DEF FlowInv
      <4> QED BY <2>3, <3>3, <4>2 DEF SavedAt
    <3> QED BY <3>1, <3>2, <3>3
  <2>11. FlowInv'
    BY <2>1, <2>2, <2>8, <2>9, <2>10 DEF FlowInv
  <2>12. \A u \in Threads : Flow(u)' = Flow(u)
    <3> TAKE u \in Threads
    <3>1. pc[u] = "sw_jump" => to[u] \in Made
      BY <1>0
    <3>2. CASE u = t
      BY <2>1, <2>3, <3>2 DEF Flow
    <3>3. CASE u # t
      BY <2>1, <2>3, <2>6, <3>1, <3>3 DEF Flow, OwnFlow
    <3> QED BY <3>2, <3>3
  <2>13. Abstract!Create(n)
    <3>1. [u \in Threads |-> Flow(u)]' = [u \in Threads |-> Flow(u)]
      BY <2>12
    <3>2. pos[n] = 0 /\ n \notin born /\ born' = born \cup {n} /\ pos' = pos
      BY <2>1, <2>6, <2>7
    <3> QED BY <3>1, <3>2 DEF Abstract!Create, Flow
  <2> QED BY <2>1, <2>11, <2>13 DEF Abstract!Next
<1>10. ASSUME NEW t \in Threads, Run(t) PROVE Goal
  <2> DEFINE s == cont[t].flow
  <2>1. /\ pc[t] = "user"
        /\ cont' = [cont EXCEPT ![t] = [cont[t] EXCEPT !.at = cont[t].at + 1]]
        /\ pos' = [pos EXCEPT ![s] = cont[t].at + 1]
        /\ UNCHANGED <<ult_id, ctx, current, pc, from, to, born>>
    BY <1>10 DEF Run, InUser, local_vars
  <2>2. cont[t] \in GoodConts /\ s \in Flows
    BY DEF TypeInv, ThreadTypes, GoodConts
  <2>3. /\ cont'[t].flow = s /\ cont'[t].at = cont[t].at + 1
        /\ \A u \in Threads \ {t} : cont'[u] = cont[u]
    BY <2>1, <2>2 DEF TypeInv, ThreadTypes, GoodConts
  <2>4. /\ Made' = Made /\ \A f : OwnFlow(f)' = OwnFlow(f)
        /\ \A u \in Threads : Active(u)' = Active(u) /\ \A f : StaleBy(u, f)' <=> StaleBy(u, f)
    BY <2>1 DEF Made, OwnFlow, Active, StaleBy
  <2>5. ThreadFlow(t) /\ cont[t].at = pos[s] /\ Flow(t) = s
    BY <2>1 DEF FlowInv, ThreadFlow, Flow
  <2>6. pos'[s] = pos[s] + 1 /\ \A r \in Flows \ {s} : pos'[r] = pos[r]
    BY <2>1, <2>2, <2>5 DEF TypeInv, GlobalTypes
  <2>7. ASSUME NEW f \in Made, Active(t) # f PROVE OwnFlow(f) # s
    <3>1. CASE Active(t) = NoFiber
      BY <2>5, <2>7, <3>1 DEF ThreadFlow
    <3>2. CASE Active(t) # NoFiber
      BY <2>5, <2>7, <3>2, ActiveHeld, FlowIs DEF FlowInv, FibersOwn
    <3> QED BY <3>1, <3>2
  <2>8. ASSUME NEW u \in Threads PROVE ThreadFlow(u)'
    <3>1. ThreadFlow(u)
      BY DEF FlowInv
    <3>2. CASE u = t
      BY <2>1, <2>3, <2>4, <2>5, <2>6, <3>1, <3>2 DEF ThreadFlow
    <3>3. CASE u # t
      <4>1. pc[u] # "sw_jump" => cont[u].flow # s /\ cont[u].flow \in Flows
        BY <2>5, <3>3, FlowsApart DEF Flow, TypeInv, ThreadTypes, GoodConts
      <4>2. pc[u] = "cr_unlock" => to[u] # s /\ to[u] \in Flows
        <5> SUFFICES ASSUME pc[u] = "cr_unlock" PROVE to[u] # s /\ to[u] \in Flows
          OBVIOUS
        <5>1. to[u] \in Made /\ to[u] \in Fibers /\ Holds(u, to[u])
          BY <1>0 DEF Holds, Made
        <5>2. OwnFlow(to[u]) = to[u]
          BY <3>1 DEF ThreadFlow
        <5>3. Active(t) # to[u]
          BY <3>3, <5>1, ActiveHeld DEF Locks
        <5> QED BY <2>7, <5>1, <5>2, <5>3 DEF Flows
      <4> QED
        BY <2>1, <2>3, <2>4, <2>6, <3>1, <3>3, <4>1, <4>2 DEF ThreadFlow
    <3> QED BY <3>2, <3>3
  <2>9. ASSUME NEW f \in Made PROVE SavedAt(f)'
    <3>1. SavedAt(f) /\ ctx' = ctx
      BY <2>1 DEF FlowInv
    <3>2. CASE Active(t) = f
      BY <2>1, <2>4, <3>2 DEF SavedAt, StaleBy
    <3>3. CASE Active(t) # f
      <4>1. OwnFlow(f) # s /\ OwnFlow(f) \in Flows
        BY <2>7, <3>3 DEF FlowInv, FibersOwn, Flows, TypeInv, GlobalTypes
      <4> QED BY <2>4, <2>6, <3>1, <4>1 DEF SavedAt
    <3> QED BY <3>2, <3>3
  <2>10. \A f \in Fibers \ Made : pos'[f] = 0
    <3>1. s \in Threads \cup Made
      BY <2>5, ActiveHeld, FlowIs DEF FlowInv, FibersOwn, FreshOK
    <3> QED BY <2>6, <3>1 DEF FlowInv, Flows
  <2>11. FlowInv'
    BY <2>1, <2>4, <2>8, <2>9, <2>10 DEF FlowInv, FibersOwn
  <2>12. \A u \in Threads : Flow(u)' = Flow(u)
    BY <2>1, <2>3 DEF Flow
  <2>13. Abstract!Step(t)
    <3>1. [u \in Threads |-> Flow(u)'] = [u \in Threads |-> Flow(u)]
      BY <2>12
    <3>2. pos' = [pos EXCEPT ![[u \in Threads |-> Flow(u)][t]] = @ + 1]
      BY <2>1, <2>5
    <3> QED BY <2>1, <3>1, <3>2 DEF Abstract!Step, Flow
  <2> QED BY <2>11, <2>13 DEF Abstract!Next
<1>11. ASSUME NEW t \in Threads, HandlerReturn(t) PROVE Goal
  <2>1. UNCHANGED <<ult_id, ctx, pc, from, to, current, born, pos>>
    BY <1>11, ReturnToUser DEF HandlerReturn
  <2>2. \A u \in Threads : cont'[u].flow = cont[u].flow /\ cont'[u].at = cont[u].at
    <3>1. cont[t] \in GoodConts
      BY DEF TypeInv, ThreadTypes
    <3>2. cont' = [cont EXCEPT ![t] = [cont[t] EXCEPT !.frames = Tail(cont[t].frames)]]
      BY <1>11 DEF HandlerReturn
    <3> QED BY <3>1, <3>2 DEF TypeInv, ThreadTypes, GoodConts
  <2>3. FlowInv'
    BY <2>1, <2>2 DEF FlowInv, FibersOwn, ThreadFlow, SavedAt, StaleBy, Active, OwnFlow, Made
  <2>4. \A u \in Threads : Flow(u)' = Flow(u)
    BY <2>1, <2>2 DEF Flow
  <2> QED BY <2>1, <2>3, <2>4, Stutter
<1>12. ASSUME UNCHANGED <<ult_id, ctx, pc, from, to, current, cont, born, pos>> PROVE Goal
  <2>1. FlowInv'
    BY <1>12 DEF FlowInv, FibersOwn, ThreadFlow, SavedAt, StaleBy, Active, OwnFlow, Made
  <2>2. \A u \in Threads : Flow(u)' = Flow(u)
    BY <1>12 DEF Flow
  <2> QED BY <1>12, <2>1, <2>2, Stutter
<1>13. ASSUME NEW t \in Threads, InitComplete(t) \/ Complete(t) \/ Idle(t) PROVE Goal
  BY <1>12, <1>13 DEF InitComplete, Complete, Idle, vars, local_vars
<1> HIDE DEF Goal
<1>14. Goal
  BY <1>1, <1>2, <1>3, <1>4, <1>5, <1>6, <1>7, <1>8, <1>9, <1>10, <1>11, <1>13 DEF Next
<1> QED
  BY <1>14 DEF Goal

LEMMA FlowInit == Init => FlowInv /\ Abstract!Init
<1> SUFFICES ASSUME Init PROVE FlowInv /\ Abstract!Init
  OBVIOUS
<1> USE UltAssumption DEF Init
<1>1. Made = {} /\ \A t \in Threads : cont[t] = Fresh(t) /\ Active(t) = NoFiber
  BY DEF Made, Active, Fibers
<1>2. FlowInv
  BY <1>1 DEF FlowInv, FibersOwn, ThreadFlow, Fresh, Flows
<1>3. Abstract!Init
  BY <1>1 DEF Abstract!Init, Abstract!Flows, Flows, Fresh
<1> QED BY <1>2, <1>3

(* For any number of threads and fibers, the user-space fibers of ult.c    *)
(* are coroutines: every step of the library, the alarm and the testbed is *)
(* a step of a flow, the creation of one, a switch to one that no thread   *)
(* executes and that goes on exactly where it was left, or invisible.      *)
(* A step that is not comes after an alarm inside ult_switch_to or after   *)
(* the end of the last fiber.                                              *)
THEOREM UltImplementsCoroutines == Spec => ImplementsCoroutines
<1> DEFINE J == Undisturbed => FlowInv
           Steps == [Abstract!Next]_(Abstract!vars)
<1>1. TypeInv /\ LockInv /\ J /\ [Next]_vars => J' /\ [Undisturbed' => Steps]_vars
  <2> SUFFICES ASSUME TypeInv, LockInv, J, [Next]_vars, Undisturbed'
               PROVE  FlowInv' /\ Steps
    OBVIOUS
  <2>0. /\ ~interrupted /\ ~interrupted' /\ completed_fibers > 0
        /\ Calm /\ FreshOK /\ CurrentOK /\ NoZero /\ Locks /\ FlowInv
    BY OnlyDisturbed DEF Undisturbed, LockInv
  <2>1. CASE Next
    BY <2>0, <2>1, RefStep
  <2>2. CASE UNCHANGED vars
    <3>1. UNCHANGED <<ult_id, ctx, pc, from, to, current, cont, born, pos>>
      BY <2>2 DEF vars, local_vars
    <3>2. FlowInv'
      BY <2>0, <3>1 DEF FlowInv, FibersOwn, ThreadFlow, SavedAt, StaleBy, Active, OwnFlow, Made
    <3>3. \A u \in Threads : Flow(u)' = Flow(u)
      BY <3>1 DEF Flow
    <3> QED BY <3>1, <3>2, <3>3, Stutter
  <2> QED BY <2>1, <2>2
<1>2. Init => J /\ Abstract!Init
  BY FlowInit
<1> HIDE DEF J
<1> QED
  BY <1>1, <1>2, LockHolds, PTL DEF Spec, ImplementsCoroutines

-----------------------------------------------------------------------------
(* Fiber local storage (UltFls): for any number of fibers and any length   *)
(* of the array, a fiber reads from the shared array what it stored        *)
(* itself, and the run gives up only when every slot is handed out.        *)

(* Where the indices of a fiber come from: below the counter, of the       *)
(* array, and missing only once the counter has passed the end.            *)
Indexed(f) ==
  /\ q_idx[f] < fls_idx /\ state_idx[f] < fls_idx
  /\ at[f] = "alloc_q" => q_idx[f] = -1
  /\ at[f] \in {"alloc_q", "alloc_s"} => state_idx[f] = -1 /\ wrote[f] = [q |-> 0, state |-> 0]
  /\ at[f] = "alloc_s" /\ q_idx[f] = -1 => fls_idx > MAX_FLS
  /\ at[f] = "exit" => fls_idx > MAX_FLS
  /\ at[f] \in {"loop", "read_q", "read_s"} => q_idx[f] # -1 /\ state_idx[f] # -1

(* No index has two owners.                                                *)
Distinct ==
  \A f, g \in CellFibers :
    /\ q_idx[f] # -1 => q_idx[f] # state_idx[g]
    /\ q_idx[f] # -1 /\ f # g => q_idx[f] # q_idx[g]
    /\ state_idx[f] # -1 /\ f # g => state_idx[f] # state_idx[g]

(* A slot holds what its owner stored, and 0 while it has none.            *)
Stored(f) ==
  /\ q_idx[f] # -1 => fls[q_idx[f]] = wrote[f].q
  /\ state_idx[f] # -1 => fls[state_idx[f]] = wrote[f].state
Unwritten == \A i \in Slots : i >= fls_idx => fls[i] = 0

Read(f) ==
  /\ at[f] = "read_q" => got[f] = wrote[f].q
  /\ at[f] = "read_s" => got[f] = wrote[f].state

UltFlsInv ==
  /\ UltFlsTypeOK
  /\ Distinct
  /\ Unwritten
  /\ \A f \in CellFibers : Indexed(f) /\ Stored(f) /\ Read(f)

(* The invariant holds before any fiber has allocated a slot.              *)
LEMMA FlsInitInv == FlsInit => UltFlsInv
  BY UltFlsAssumption
  DEF FlsInit, UltFlsInv, UltFlsTypeOK, Distinct, Unwritten, Indexed, Stored, Read, Places, Slots

(* Both allocations move the counter and hand out its old value.           *)
LEMMA AllocQueueInv ==
  ASSUME UltFlsInv, NEW f \in CellFibers, AllocQueue(f)
  PROVE  UltFlsInv'
<1> USE UltFlsAssumption DEF UltFlsInv, AllocQueue, GoOn, fls_alloc, Slots
<1>1. UltFlsTypeOK'
  BY DEF UltFlsTypeOK, Places
<1>2. Distinct'
  BY DEF UltFlsTypeOK, Distinct, Indexed
<1>3. Unwritten'
  BY DEF UltFlsTypeOK, Unwritten
<1>4. ASSUME NEW g \in CellFibers PROVE (Indexed(g) /\ Stored(g) /\ Read(g))'
  <2>1. Indexed(g)'
    BY DEF UltFlsTypeOK, Indexed
  <2>2. Stored(g)'
    BY DEF UltFlsTypeOK, Indexed, Stored, Unwritten
  <2>3. Read(g)'
    BY DEF UltFlsTypeOK, Read
  <2> QED BY <2>1, <2>2, <2>3
<1> QED BY <1>1, <1>2, <1>3, <1>4

(* The second fls_alloc of a fiber preserves it.                           *)
LEMMA AllocStateInv ==
  ASSUME UltFlsInv, NEW f \in CellFibers, AllocState(f)
  PROVE  UltFlsInv'
<1> USE UltFlsAssumption DEF UltFlsInv, AllocState, fls_alloc, Slots
<1>1. UltFlsTypeOK'
  BY DEF UltFlsTypeOK, Places
<1>2. Distinct'
  BY DEF UltFlsTypeOK, Distinct, Indexed
<1>3. Unwritten'
  BY DEF UltFlsTypeOK, Unwritten
<1>4. ASSUME NEW g \in CellFibers PROVE (Indexed(g) /\ Stored(g) /\ Read(g))'
  <2>1. Indexed(g)'
    BY DEF UltFlsTypeOK, Indexed
  <2>2. Stored(g)'
    BY DEF UltFlsTypeOK, Indexed, Stored, Unwritten
  <2>3. Read(g)'
    BY DEF UltFlsTypeOK, Read
  <2> QED BY <2>1, <2>2, <2>3
<1> QED BY <1>1, <1>2, <1>3, <1>4

(* A store changes the slot of its fiber and of no other.                  *)
LEMMA SetInv ==
  ASSUME UltFlsInv, NEW f \in CellFibers, NEW v \in Values, SetQueue(f, v) \/ SetState(f, v)
  PROVE  UltFlsInv'
<1> USE UltFlsAssumption DEF UltFlsInv, SetQueue, SetState, fls_set, Slots
<1>1. UltFlsTypeOK'
  BY DEF UltFlsTypeOK
<1>2. Distinct'
  BY DEF Distinct
<1>3. Unwritten'
  BY DEF UltFlsTypeOK, Unwritten, Indexed
<1>4. ASSUME NEW g \in CellFibers PROVE (Indexed(g) /\ Stored(g) /\ Read(g))'
  <2>1. Indexed(g)'
    BY DEF UltFlsTypeOK, Indexed
  <2>2. Stored(g)'
    <3>1. {q_idx[f], state_idx[f]} \subseteq Slots
      BY DEF UltFlsTypeOK, Indexed
    <3>2. CASE SetQueue(f, v)
      BY <3>1, <3>2 DEF UltFlsTypeOK, Stored, Distinct
    <3>3. CASE SetState(f, v)
      BY <3>1, <3>3 DEF UltFlsTypeOK, Stored, Distinct
    <3> QED BY <3>2, <3>3
  <2>3. Read(g)'
    BY DEF UltFlsTypeOK, Read
  <2> QED BY <2>1, <2>2, <2>3
<1> QED BY <1>1, <1>2, <1>3, <1>4

(* fls_get, and the use of its result, preserve it.                        *)
LEMMA GetInv ==
  ASSUME UltFlsInv, NEW f \in CellFibers, GetQueue(f) \/ GetState(f) \/ Use(f)
  PROVE  UltFlsInv'
<1> USE UltFlsAssumption DEF UltFlsInv, GetQueue, GetState, Use, GoOn, fls_get, Slots
<1>1. UltFlsTypeOK'
  BY DEF UltFlsTypeOK, Places, Indexed
<1>2. Distinct' /\ Unwritten'
  BY DEF Distinct, Unwritten
<1>3. ASSUME NEW g \in CellFibers PROVE (Indexed(g) /\ Stored(g) /\ Read(g))'
  <2>1. Indexed(g)'
    BY DEF UltFlsTypeOK, Indexed
  <2>2. Stored(g)'
    BY DEF Stored
  <2>3. Read(g)'
    BY DEF UltFlsTypeOK, Indexed, Stored, Read
  <2> QED BY <2>1, <2>2, <2>3
<1> QED BY <1>1, <1>2, <1>3

(* A step that leaves the storage alone preserves it.                      *)
LEMMA FlsStutterInv == UltFlsInv /\ UNCHANGED flsVars => UltFlsInv'
  BY DEF UltFlsInv, UltFlsTypeOK, Distinct, Unwritten, Indexed, Stored, Read, flsVars

(* The invariant holds of every state of the storage, however the calls of *)
(* main_loop interleave.                                                   *)
THEOREM UltFlsInductive == FlsSpec => []UltFlsInv
<1>1. UltFlsInv /\ [FlsNext]_flsVars => UltFlsInv'
  BY AllocQueueInv, AllocStateInv, SetInv, GetInv, FlsStutterInv DEF FlsNext
<1> QED BY <1>1, FlsInitInv, PTL DEF FlsSpec

(* No fiber of the user-space implementation reads a value another fiber   *)
(* stored, and none indexes fls outside its bounds.                        *)
THEOREM UltFlsPrivate == FlsSpec => []SlotsPrivate
<1>1. UltFlsInv => SlotsPrivate
  BY DEF UltFlsInv, UltFlsTypeOK, SlotsPrivate, Indexed, Read
<1> QED BY <1>1, UltFlsInductive, PTL

(* fls_alloc fails, and main_loop ends the process, only when the array is *)
(* used up.                                                                *)
THEOREM UltFlsFull == FlsSpec => []ExitOnlyWhenFull
<1>1. UltFlsInv => ExitOnlyWhenFull
  BY DEF UltFlsInv, ExitOnlyWhenFull, Indexed
<1> QED BY <1>1, UltFlsInductive, PTL

(* What main_loop keeps as an index is a slot of fls or the -1 of a failed *)
(* allocation, whatever the number of fibers.                              *)
THEOREM UltFlsTyped == FlsSpec => []UltFlsTypeOK
<1>1. UltFlsInv => UltFlsTypeOK
  BY DEF UltFlsInv
<1> QED BY <1>1, UltFlsInductive, PTL
=============================================================================
