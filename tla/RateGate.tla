------------------------------- MODULE RateGate -------------------------------
(***************************************************************************)
(* internal/collector/limiter.go and its callers: the two feed pollers     *)
(* (Collector.Run) and the markout worker share one token bucket and one   *)
(* cooldown gate.                                                          *)
(*                                                                         *)
(* Time is kept as countdowns: gate is what is left of cooldownUntil, a    *)
(* sleeping caller counts down its timer.  The lazy refill of Take is done *)
(* at every tick, which amounts to the same: capping at once or later      *)
(* gives the same number of tokens.  A tick need not wait for anybody:     *)
(* callers may be arbitrarily late.                                        *)
(***************************************************************************)
EXTENDS Integers, FiniteSets

CONSTANTS
  Pollers, Samplers,        \* collector goroutines; the markout worker
  Weight,                   \* limiter cost of a caller's request
  Burst, Rate,              \* bucket capacity; tokens per tick
  MinCooldown,              \* 30 seconds
  RetryPause, LongReset,    \* 5 seconds; 5 minutes
  BackoffMin, BackoffMax,   \* 1 second; 30 seconds
  Interval,                 \* poll interval of a poller, tick of a sampler
  MaxTokens,                \* requests in one pass of a sampler (25)
  Resets,                   \* external: reset delays a 429 may announce, 0 if none
  MaxRejections,            \* bound: how many 429s and errors the server returns
  Window                    \* bound: length of the observed budget window

Callers == Pollers \cup Samplers

ASSUME GateConstantsOK ==
  /\ Pollers \cap Samplers = {}
  /\ Weight \in [Callers -> Nat \ {0}]
  /\ Burst \in Nat /\ Rate \in Nat \ {0}
  /\ MinCooldown \in Nat /\ RetryPause \in Nat /\ LongReset \in Nat
  /\ BackoffMin \in Nat /\ BackoffMax \in Nat
  /\ Interval \in [Callers -> Nat \ {0}]
  /\ MaxTokens \in Nat \ {0}
  /\ Resets \subseteq Nat
  /\ MaxRejections \in Nat /\ Window \in Nat

VARIABLES
  tokens,      \* tokens in the bucket
  gate,        \* time left until cooldownUntil, 0 when the gate is open
  pc,          \* caller -> where it is
  wait,        \* caller -> time left of its timer
  backoff,     \* poller -> its next error pause
  left,        \* sampler -> requests left in this pass
  reset,       \* caller -> time left until the reset its 429 announced
  rejections,  \* 429s and errors still to come
  late,        \* history: callers that sent a request since the gate shut
  told,        \* history: time left until the latest reset any caller marked
  spent,       \* history: weight granted in the observed window ...
  elapsed      \* ... and its length so far

history == <<late, told, spent, elapsed>>
gateVars == <<tokens, gate, pc, wait, backoff, left, reset, rejections, history>>

Places == {"idle", "take", "asleep", "granted", "sent", "limited"}

Larger(a, b) == IF a >= b THEN a ELSE b

Smaller(a, b) == IF a <= b THEN a ELSE b

Left(timer) == IF timer > 0 THEN timer - 1 ELSE 0

Goto(c, place) == pc' = [pc EXCEPT ![c] = place]

Init ==
  /\ tokens = Burst /\ gate = 0
  /\ pc = [c \in Callers |-> "idle"]
  /\ wait = [c \in Callers |-> 0]
  /\ backoff = [c \in Pollers |-> BackoffMin]
  /\ left = [c \in Samplers |-> MaxTokens]
  /\ reset = [c \in Callers |-> 0]
  /\ rejections = MaxRejections
  /\ late = {} /\ told = 0 /\ spent = 0 /\ elapsed = 0

-----------------------------------------------------------------------------
(* Mutated forms: an idle bucket fills without bound; capacity and rate are*)
(* mistaken for one another.                                               *)
RefilledUncapped == tokens + Rate

RefilledToRate == Smaller(Rate, tokens + Rate)

Refilled == Smaller(Burst, tokens + Rate)

(* Another observation window may begin at any tick.                       *)
Tick ==
  /\ tokens' = Refilled
  /\ gate' = Left(gate) /\ told' = Left(told)
  /\ wait' = [c \in Callers |-> Left(wait[c])]
  /\ reset' = [c \in Callers |-> Left(reset[c])]
  /\ late' = IF gate' = 0 THEN {} ELSE late
  /\ \/ elapsed < Window /\ elapsed' = elapsed + 1 /\ UNCHANGED spent
     \/ elapsed' = 0 /\ spent' = 0
  /\ UNCHANGED <<pc, backoff, left, rejections>>

(* A restarted process has a full bucket and knows of no cooldown.         *)
Restart ==
  /\ tokens' = Burst /\ gate' = 0
  /\ pc' = [c \in Callers |-> "idle"]
  /\ wait' = [c \in Callers |-> 0]
  /\ backoff' = [c \in Pollers |-> BackoffMin]
  /\ left' = [c \in Samplers |-> MaxTokens]
  /\ reset' = [c \in Callers |-> 0]
  /\ late' = {} /\ told' = 0 /\ spent' = 0 /\ elapsed' = 0
  /\ UNCHANGED rejections

-----------------------------------------------------------------------------
(* Limiter.Take.                                                           *)

(* The pause between two requests is over.                                 *)
Begin(c) ==
  /\ pc[c] = "idle" /\ wait[c] = 0
  /\ Goto(c, "take")
  /\ UNCHANGED <<tokens, gate, wait, backoff, left, reset, rejections, history>>

(* sleepCtx, then around the loop again: nothing is taken for granted.     *)
Sleep(c, time) ==
  /\ Goto(c, "asleep")
  /\ wait' = [wait EXCEPT ![c] = time]
  /\ UNCHANGED <<tokens, gate, backoff, left, reset, rejections, history>>

Wake(c) ==
  /\ pc[c] = "asleep" /\ wait[c] = 0
  /\ Goto(c, "take")
  /\ UNCHANGED <<tokens, gate, wait, backoff, left, reset, rejections, history>>

GateShut(c) ==
  /\ pc[c] = "take" /\ gate > 0
  /\ Sleep(c, gate)

(* Mutated forms: the bucket is not looked at; the gate is not looked at.  *)
AffordsAlways(c) == gate = 0

AffordsThroughGate(c) == tokens >= Weight[c]

Affords(c) == gate = 0 /\ tokens >= Weight[c]

BucketShort(c) ==
  /\ pc[c] = "take" /\ gate = 0 /\ ~Affords(c)
  /\ Sleep(c, (Weight[c] - tokens + Rate - 1) \div Rate)

Grant(c) ==
  /\ pc[c] = "take" /\ Affords(c)
  /\ tokens' = tokens - Weight[c]
  /\ spent' = spent + Weight[c]
  /\ Goto(c, "granted")
  /\ UNCHANGED <<gate, wait, backoff, left, reset, rejections, late, told, elapsed>>

-----------------------------------------------------------------------------
(* The request, and what its caller does with the answer.                  *)

Send(c) ==
  /\ pc[c] = "granted"
  /\ Goto(c, "sent")
  /\ late' = IF gate > 0 THEN late \cup {c} ELSE late
  /\ UNCHANGED <<tokens, gate, wait, backoff, left, reset, rejections, told, spent, elapsed>>

Pause(c, time) ==
  /\ Goto(c, "idle")
  /\ wait' = [wait EXCEPT ![c] = time]

(* A poller waits for what is left of its interval, at least a little.     *)
PollDone(c) ==
  /\ c \in Pollers /\ pc[c] = "sent"
  /\ \E time \in 1 .. Interval[c] : Pause(c, time)
  /\ backoff' = [backoff EXCEPT ![c] = BackoffMin]
  /\ UNCHANGED <<tokens, gate, left, reset, rejections, history>>

BackOff(c) == backoff' = [backoff EXCEPT ![c] = Smaller(2 * backoff[c], BackoffMax)]

PollFailed(c) ==
  /\ c \in Pollers /\ pc[c] = "sent"
  /\ rejections > 0 /\ rejections' = rejections - 1
  /\ Pause(c, backoff[c])
  /\ BackOff(c)
  /\ UNCHANGED <<tokens, gate, left, reset, history>>

(* Any answer but a 429: on to the next token, or the pass is over.        *)
KlineDone(c) ==
  /\ c \in Samplers /\ pc[c] = "sent"
  /\ IF left[c] > 1
     THEN /\ Goto(c, "take") /\ UNCHANGED wait
          /\ left' = [left EXCEPT ![c] = @ - 1]
     ELSE /\ Pause(c, Interval[c])
          /\ left' = [left EXCEPT ![c] = MaxTokens]
  /\ UNCHANGED <<tokens, gate, backoff, reset, rejections, history>>

(* The server answers 429; the caller has yet to read the answer.          *)
Reject(c) ==
  /\ pc[c] = "sent"
  /\ rejections > 0 /\ rejections' = rejections - 1
  /\ \E delay \in Resets : reset' = [reset EXCEPT ![c] = delay]
  /\ Goto(c, "limited")
  /\ UNCHANGED <<tokens, gate, wait, backoff, left, history>>

(* Mutated form: the last 429 read decides, whatever the gate was.         *)
CooldownOverwritten(announced) == Larger(announced, MinCooldown)

(* MarkCooldown: the gate only ever moves further away.                    *)
Cooldown(announced) == Larger(gate, Larger(announced, MinCooldown))

MarkCooldown(c) ==
  /\ gate' = Cooldown(reset[c])
  /\ told' = Larger(told, reset[c])
  /\ UNCHANGED <<tokens, reset, rejections, late, spent, elapsed>>

PollLimited(c) ==
  /\ c \in Pollers /\ pc[c] = "limited"
  /\ MarkCooldown(c)
  /\ Pause(c, IF reset[c] > 0 /\ reset[c] < LongReset THEN reset[c] ELSE RetryPause)
  /\ BackOff(c)
  /\ UNCHANGED left

(* The worker gives up the rest of its pass.                               *)
KlineLimited(c) ==
  /\ c \in Samplers /\ pc[c] = "limited"
  /\ MarkCooldown(c)
  /\ Pause(c, Interval[c])
  /\ left' = [left EXCEPT ![c] = MaxTokens]
  /\ UNCHANGED backoff

-----------------------------------------------------------------------------
Step(c) ==
  \/ Begin(c) \/ Wake(c) \/ GateShut(c) \/ BucketShort(c) \/ Grant(c) \/ Send(c)
  \/ PollDone(c) \/ PollFailed(c) \/ KlineDone(c)
  \/ Reject(c) \/ PollLimited(c) \/ KlineLimited(c)

Next == Tick \/ Restart \/ \E c \in Callers : Step(c)

Spec == Init /\ [][Next]_gateVars

(* A tick is a second: a runnable goroutine gets the CPU within it.  Only a*)
(* request may take longer.                                                *)
Runnable(c) ==
  \/ pc[c] \in {"take", "granted", "limited"}
  \/ pc[c] \in {"idle", "asleep"} /\ wait[c] = 0

PromptNext ==
  \/ Tick /\ \A c \in Callers : ~Runnable(c)
  \/ Restart \/ \E c \in Callers : Step(c)

(* No request is never answered (its timeout is 10s).                      *)
FairSpec ==
  /\ Init /\ [][PromptNext]_gateVars
  /\ WF_gateVars(PromptNext)
  /\ \A c \in Callers : WF_gateVars(Step(c))

-----------------------------------------------------------------------------
GateTypeOK ==
  /\ tokens \in Nat /\ gate \in Nat
  /\ pc \in [Callers -> Places]
  /\ wait \in [Callers -> Nat]
  /\ backoff \in [Pollers -> Nat]
  /\ left \in [Samplers -> Nat]
  /\ reset \in [Callers -> Nat]
  /\ rejections \in Nat
  /\ late \subseteq Callers
  /\ told \in Nat /\ spent \in Nat /\ elapsed \in Nat

(* The budget of the whole process, whoever spends it: over any stretch of *)
(* time the three goroutines together are granted at most a full bucket    *)
(* plus what the rate yields ("rate 20/capacity 20", architecture.md:58).  *)
BudgetKept == spent <= Burst + Rate * elapsed

(* The gate covers every reset a caller has read, in whatever order the    *)
(* 429s are read (limiter.go:35-45).                                       *)
GateCoversResets == gate >= told

(* What the gate does promise: once it is shut, a caller sends at most the *)
(* one request it had already been granted, however often the others are   *)
(* rejected while it is shut.                                              *)
AtMostOneLateRequest ==
  [][ \A c \in Callers :
        pc[c] # "sent" /\ pc'[c] = "sent" /\ gate > 0 => c \notin late ]_gateVars

(* Every caller that asks for tokens gets them once the 429s stop, also    *)
(* the heavy one among light ones, unless the process restarts.            *)
EveryCallerServed ==
  \A c \in Callers : pc[c] \in {"take", "asleep"} ~> pc[c] \in {"granted", "idle"}

(* architecture.md:67: every caller blocks until the gate opens, the       *)
(* pipeline is structurally incapable of requesting inside a ban window.   *)
NoRequestWhileShut ==
  [][ \A c \in Callers : pc[c] # "sent" /\ pc'[c] = "sent" => gate = 0 ]_gateVars
=============================================================================
