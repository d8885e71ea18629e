---------------------------- MODULE RateGateProof ----------------------------
(***************************************************************************)
(* Proofs about the shared limiter, for any number of callers, any weights,*)
(* rates and cooldowns, and any order of grants, 429s and restarts.        *)
(***************************************************************************)
EXTENDS RateGate, TLAPS

(* What is left in the bucket and what was granted never exceed the budget.*)
BudgetInv == spent + tokens <= Burst + Rate * elapsed

(* A late caller is behind the gate: it is not about to send again.        *)
LateInv == \A c \in late : gate > 0 /\ pc[c] # "granted"

GateInv == GateTypeOK /\ BudgetInv /\ GateCoversResets /\ LateInv

USE GateConstantsOK DEF GateConstantsOK, Callers

-----------------------------------------------------------------------------
LEMMA RefillBounds ==
  ASSUME tokens \in Nat
  PROVE  Refilled \in Nat /\ Refilled <= tokens + Rate
BY DEF Refilled, Smaller

LEMMA LeftBounds ==
  ASSUME NEW x \in Nat, NEW y \in Nat, y <= x
  PROVE  Left(x) \in Nat /\ Left(x) <= x /\ Left(y) <= Left(x)
BY DEF Left

LEMMA InitGate == Init => GateInv
BY DEF Init, GateInv, GateTypeOK, BudgetInv, GateCoversResets, LateInv, Places

LEMMA TickGate == ASSUME GateInv, Tick PROVE GateInv'
<1> USE DEF GateInv, GateTypeOK
<1>1. tokens' \in Nat /\ tokens' <= tokens + Rate
  BY RefillBounds DEF Tick
<1>2. gate' \in Nat /\ told' \in Nat /\ gate' >= told' /\ gate' <= gate
  BY LeftBounds DEF Tick, GateCoversResets
<1>3. wait' \in [Callers -> Nat] /\ reset' \in [Callers -> Nat]
  BY LeftBounds DEF Tick
<1>4. spent' \in Nat /\ elapsed' \in Nat
  BY DEF Tick
<1>5. GateTypeOK'
  BY <1>1, <1>2, <1>3, <1>4 DEF Tick
<1>6. BudgetInv'
  <2>1. PICK budget \in Nat, t \in Nat, s \in Nat :
          budget = Rate * elapsed /\ t = tokens' /\ s = spent'
    BY <1>1, <1>4
  <2>2. CASE elapsed' = elapsed + 1 /\ spent' = spent
    <3>1. Rate * elapsed' = budget + Rate
      BY <2>1, <2>2
    <3>2. s + tokens <= Burst + budget /\ t <= tokens + Rate
      BY <1>1, <2>1, <2>2 DEF BudgetInv
    <3>3. s + t <= Burst + (budget + Rate)
      BY <3>2
    <3> QED BY <2>1, <3>1, <3>3 DEF BudgetInv
  <2>3. CASE elapsed' = 0 /\ spent' = 0
    <3>1. t <= Burst /\ s = 0
      BY <2>1, <2>3 DEF Tick, Refilled, Smaller
    <3>2. Rate * elapsed' = 0
      BY <2>3
    <3>3. s + t <= Burst + 0
      BY <3>1
    <3> QED BY <2>1, <3>2, <3>3 DEF BudgetInv
  <2> QED BY <2>2, <2>3 DEF Tick
<1>7. LateInv'
  BY <1>2 DEF Tick, LateInv
<1> QED BY <1>2, <1>5, <1>6, <1>7 DEF GateCoversResets

LEMMA RestartGate == ASSUME GateInv, Restart PROVE GateInv'
BY DEF Restart, GateInv, GateTypeOK, BudgetInv, GateCoversResets, LateInv, Places

(* Steps inside Take.                                                      *)
LEMMA TakeGate ==
  ASSUME GateInv, NEW c \in Callers,
         Begin(c) \/ Wake(c) \/ GateShut(c) \/ BucketShort(c) \/ Grant(c)
  PROVE  GateInv'
<1> USE DEF GateInv, GateTypeOK
<1>1. CASE Begin(c) \/ Wake(c)
  BY <1>1 DEF Begin, Wake, Goto, BudgetInv, GateCoversResets, LateInv, Places, history
<1>2. CASE GateShut(c) \/ BucketShort(c)
  <2>1. PICK time \in Nat : Sleep(c, time)
    <3>1. CASE GateShut(c)
      BY <3>1 DEF GateShut
    <3>2. CASE BucketShort(c)
      <4>1. tokens < Weight[c] /\ Weight[c] \in Nat /\ tokens \in Nat
        BY <3>2 DEF BucketShort, Affords
      <4>2. (Weight[c] - tokens + Rate - 1) \div Rate \in Nat
        BY <4>1
      <4> QED BY <3>2, <4>2 DEF BucketShort
    <3> QED BY <1>2, <3>1, <3>2
  <2> QED BY <2>1 DEF Sleep, Goto, BudgetInv, GateCoversResets, LateInv, Places, history
<1>3. CASE Grant(c)
  <2>1. gate = 0 /\ tokens >= Weight[c] /\ Weight[c] \in Nat
    BY <1>3 DEF Grant, Affords
  <2>2. tokens' \in Nat /\ spent' \in Nat /\ spent' + tokens' = spent + tokens
    BY <1>3, <2>1 DEF Grant
  <2>3. LateInv'
    BY <1>3, <2>1 DEF Grant, LateInv
  <2> QED BY <1>3, <2>2, <2>3 DEF Grant, Goto, Places, BudgetInv, GateCoversResets
<1> QED BY <1>1, <1>2, <1>3

(* Sending, and every answer but a 429.                                    *)
LEMMA RequestGate ==
  ASSUME GateInv, NEW c \in Callers,
         Send(c) \/ PollDone(c) \/ PollFailed(c) \/ KlineDone(c) \/ Reject(c)
  PROVE  GateInv'
<1> USE DEF GateInv, GateTypeOK
<1>1. CASE Send(c)
  BY <1>1 DEF Send, Goto, Places, BudgetInv, GateCoversResets, LateInv
<1>2. CASE PollDone(c)
  BY <1>2 DEF PollDone, Pause, Goto, Places, BudgetInv, GateCoversResets, LateInv, history
<1>3. CASE PollFailed(c)
  BY <1>3 DEF PollFailed, Pause, BackOff, Smaller, Goto, Places, BudgetInv,
              GateCoversResets, LateInv, history
<1>4. CASE KlineDone(c)
  BY <1>4 DEF KlineDone, Pause, Goto, Places, BudgetInv, GateCoversResets, LateInv, history
<1>5. CASE Reject(c)
  BY <1>5 DEF Reject, Goto, Places, BudgetInv, GateCoversResets, LateInv, history
<1> QED BY <1>1, <1>2, <1>3, <1>4, <1>5

LEMMA LimitedGate ==
  ASSUME GateInv, NEW c \in Callers, PollLimited(c) \/ KlineLimited(c)
  PROVE  GateInv'
<1> USE DEF GateInv, GateTypeOK
<1>1. reset[c] \in Nat /\ MarkCooldown(c) /\ pc' = [pc EXCEPT ![c] = "idle"]
  BY DEF PollLimited, KlineLimited, Pause, Goto
<1>2. gate' \in Nat /\ gate' >= gate /\ gate' >= reset[c] /\ told' \in Nat /\ gate' >= told'
  BY <1>1 DEF MarkCooldown, Cooldown, Larger, GateCoversResets
<1>3. GateTypeOK'
  <2>1. CASE PollLimited(c)
    BY <1>1, <1>2, <2>1 DEF PollLimited, MarkCooldown, Pause, BackOff, Smaller, Places
  <2>2. CASE KlineLimited(c)
    BY <1>1, <1>2, <2>2 DEF KlineLimited, MarkCooldown, Pause, Places
  <2> QED BY <2>1, <2>2
<1>4. BudgetInv' /\ LateInv'
  BY <1>1, <1>2 DEF MarkCooldown, BudgetInv, LateInv
<1> QED BY <1>2, <1>3, <1>4 DEF GateCoversResets

LEMMA StepGate == GateInv /\ [Next]_gateVars => GateInv'
<1> SUFFICES ASSUME GateInv, [Next]_gateVars PROVE GateInv'
  OBVIOUS
<1>1. CASE Tick
  BY <1>1, TickGate
<1>2. CASE Restart
  BY <1>2, RestartGate
<1>3. CASE \E c \in Callers : Step(c)
  BY <1>3, TakeGate, RequestGate, LimitedGate DEF Step
<1>4. CASE UNCHANGED gateVars
  BY <1>4 DEF gateVars, history, GateInv, GateTypeOK, BudgetInv, GateCoversResets, LateInv
<1> QED BY <1>1, <1>2, <1>3, <1>4 DEF Next

THEOREM GateInvariant == Spec => []GateInv
BY InitGate, StepGate, PTL DEF Spec

(* Over any stretch of time, all callers together are granted at most a    *)
(* full bucket plus what the rate yields.                                  *)
THEOREM BudgetIsKept == Spec => []BudgetKept
<1>1. GateInv => BudgetKept
  <2> SUFFICES ASSUME GateInv PROVE BudgetKept
    OBVIOUS
  <2>1. Rate * elapsed \in Nat
    BY DEF GateInv, GateTypeOK
  <2> QED BY <2>1 DEF GateInv, GateTypeOK, BudgetInv, BudgetKept
<1> QED BY <1>1, GateInvariant, PTL

(* The gate never opens before the latest reset any caller was told.       *)
THEOREM ResetsAreCovered == Spec => []GateCoversResets
<1>1. GateInv => GateCoversResets
  BY DEF GateInv
<1> QED BY <1>1, GateInvariant, PTL

(* Once the gate is shut, a caller sends at most one more request.         *)
THEOREM LateRequestsBounded == Spec => AtMostOneLateRequest
<1> DEFINE Bounded == \A c \in Callers :
             pc[c] # "sent" /\ pc'[c] = "sent" /\ gate > 0 => c \notin late
<1>1. GateInv /\ [Next]_gateVars => [Bounded]_gateVars
  <2> SUFFICES ASSUME GateInv, Next, NEW c \in Callers,
                      pc[c] # "sent", pc'[c] = "sent", gate > 0
               PROVE  c \notin late
    OBVIOUS
  <2>1. pc[c] = "granted"
    <3>1. pc \in [Callers -> Places]
      BY DEF GateInv, GateTypeOK
    <3>2. ~Tick /\ ~Restart
      BY DEF Tick, Restart
    <3>3. PICK d \in Callers : Step(d)
      BY <3>2 DEF Next
    <3> QED BY <3>1, <3>3 DEF Step, Begin, Wake, GateShut, BucketShort, Sleep, Grant, Send,
              PollDone, PollFailed, KlineDone, Reject, PollLimited, KlineLimited, Pause, Goto
  <2> QED BY <2>1 DEF GateInv, LateInv
<1> QED BY <1>1, GateInvariant, PTL DEF Spec, AtMostOneLateRequest

(* Bucket, gate, timers and places keep their ranges (limiter.go:14-80).   *)
THEOREM GateIsTyped == Spec => []GateTypeOK
<1>1. GateInv => GateTypeOK BY DEF GateInv
<1> QED BY <1>1, GateInvariant, PTL
=============================================================================
