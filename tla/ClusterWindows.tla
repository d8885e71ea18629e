---------------------------- MODULE ClusterWindows ----------------------------
(***************************************************************************)
(* internal/cluster/engine.go and internal/storage/clusters.go: the rolling*)
(* windows of distinct wallets, recomputed from the database for every     *)
(* event the pollers store, and what analyze clusters reads of them.       *)
(*                                                                         *)
(* The engine keeps no state: OnEvent takes the time, reads the token's    *)
(* events back, and appends one sample per window.  A sample is modelled   *)
(* by the set of events it counts; its row is computed from that set.      *)
(* Amounts of money are left out.                                          *)
(***************************************************************************)
EXTENDS Integers, FiniteSets, FiniteSetsExt

CONSTANTS
  Feeds,        \* smartmoney and kol, one poller goroutine each
  Events,       \* events that may be fetched
  Token,        \* event -> token_address
  Wallet,       \* event -> wallet
  Lane,         \* event -> wallet_type and side
  TradeTime,    \* event -> trade_time, in seconds
  Windows,      \* the configured window lengths, in seconds
  MaxTime,      \* bound on the wall clock
  MaxFaults,    \* bound on database errors and restarts
  NULL

Lanes == {"smart_buy", "smart_sell", "kol_buy", "kol_sell"}

Calls == [of : Events, stage : {"pipeline", "read", "write"}, at : Nat,
          recent : SUBSET Events, left : SUBSET Windows]

ASSUME ClusterConstantsOK ==
  /\ Lane \in [Events -> Lanes]
  /\ TradeTime \in [Events -> Nat \ {0}]
  /\ Windows \subseteq Nat /\ \E w \in Windows : \A v \in Windows : w >= v
  /\ MaxTime \in Nat /\ MaxFaults \in Nat
  /\ NULL \notin Calls

VARIABLES
  now,         \* the wall clock
  faultsLeft,  \* faults still to come
  stored,      \* trade_events
  call,        \* feed -> the OnEvent call its poller is in, or NULL
  samples      \* cluster_samples, append-only

clusterVars == <<now, faultsLeft, stored, call, samples>>

(* Mutated form: the slice is not sorted.                                  *)
WidestUnsorted == Min(Windows)

(* NewEngine sorts the windows; the last one bounds the query.             *)
Widest == Max(Windows)

(* What RecentEvents returns.                                              *)
Recent(token, since) ==
  {e \in stored : Token[e] = token /\ TradeTime[e] >= since}

Fault == faultsLeft > 0 /\ faultsLeft' = faultsLeft - 1

Return(f) == call' = [call EXCEPT ![f] = NULL]

Init ==
  /\ now = 0 /\ faultsLeft = MaxFaults
  /\ stored = {} /\ samples = {}
  /\ call = [f \in Feeds |-> NULL]

-----------------------------------------------------------------------------
Tick ==
  /\ now < MaxTime /\ now' = now + 1
  /\ UNCHANGED <<faultsLeft, stored, call, samples>>

(* The process stops: calls are lost, the tables stay.                     *)
Restart ==
  /\ Fault
  /\ call' = [f \in Feeds |-> NULL]
  /\ UNCHANGED <<now, stored, samples>>

(* The poller inserts an event and, if it is new, runs the pipeline on it; *)
(* the pipeline may take its time before it comes to the cluster engine.   *)
StoreEvent(f) ==
  /\ call[f] = NULL
  /\ \E e \in Events \ stored :
       /\ TradeTime[e] <= now
       /\ stored' = stored \cup {e}
       /\ call' = [call EXCEPT ![f] = [of |-> e, stage |-> "pipeline", at |-> 0,
                                       recent |-> {}, left |-> Windows]]
  /\ UNCHANGED <<now, faultsLeft, samples>>

(* now := time.Now()                                                       *)
OnEvent(f) ==
  /\ call[f] # NULL /\ call[f].stage = "pipeline"
  /\ call' = [call EXCEPT ![f] = [@ EXCEPT !.stage = "read", !.at = now]]
  /\ UNCHANGED <<now, faultsLeft, stored, samples>>

(* Mutated form: windows are kept in memory, an event joins them when the  *)
(* engine is done with it.                                                 *)
VisibleWhenDone(f) ==
  {e \in Recent(Token[call[f].of], call[f].at - Widest) :
     e = call[f].of \/ \E s \in samples : s.of = e}

(* One query for the widest window.                                        *)
Visible(f) == Recent(Token[call[f].of], call[f].at - Widest)

ReadRecent(f) ==
  /\ call[f] # NULL /\ call[f].stage = "read"
  /\ call' = [call EXCEPT ![f] = [@ EXCEPT !.stage = "write", !.recent = Visible(f)]]
  /\ UNCHANGED <<now, faultsLeft, stored, samples>>

(* OnEvent returns the query's error; the pipeline logs it.                *)
ReadFails(f) ==
  /\ call[f] # NULL /\ call[f].stage = "read"
  /\ Fault /\ Return(f)
  /\ UNCHANGED <<now, stored, samples>>

(* Mutated form: the scan meets the oldest event first.                    *)
ScannedOldestFirst(recent, cutoff) ==
  {e \in recent : \A d \in recent : TradeTime[d] <= TradeTime[e] => TradeTime[d] >= cutoff}

(* The loop goes from the newest event on and ends at the first before the *)
(* cutoff.                                                                 *)
Scanned(recent, cutoff) ==
  {e \in recent : \A d \in recent : TradeTime[d] >= TradeTime[e] => TradeTime[d] >= cutoff}

(* Mutated form: two columns of the insert are bound in the wrong order.   *)
SampleSwapped(c, w) ==
  [of |-> c.of, window |-> c.at, at |-> w, counted |-> Scanned(c.recent, c.at - w)]

Sample(c, w) ==
  [of |-> c.of, window |-> w, at |-> c.at, counted |-> Scanned(c.recent, c.at - w)]

(* The next window's row; a failed insert is logged and the loop goes on.  *)
InsertClusterSample(f) ==
  /\ call[f] # NULL /\ call[f].stage = "write"
  /\ \E w \in call[f].left :
       /\ \A v \in call[f].left : w <= v
       /\ \/ samples' = samples \cup {Sample(call[f], w)} /\ UNCHANGED faultsLeft
          \/ Fault /\ UNCHANGED samples
       /\ call' = [call EXCEPT ![f].left = @ \ {w}]
  /\ UNCHANGED <<now, stored>>

OnEventReturns(f) ==
  /\ call[f] # NULL /\ call[f].left = {}
  /\ Return(f)
  /\ UNCHANGED <<now, faultsLeft, stored, samples>>

PollerStep(f) ==
  \/ StoreEvent(f) \/ OnEvent(f) \/ ReadRecent(f) \/ ReadFails(f)
  \/ InsertClusterSample(f) \/ OnEventReturns(f)

Next == Tick \/ Restart \/ \E f \in Feeds : PollerStep(f)

Spec == Init /\ [][Next]_clusterVars

-----------------------------------------------------------------------------
(* The row of a sample: distinct wallets per lane, and LastEventAt, which  *)
(* is 1970 when nothing is counted.                                        *)
Wallets(s, lane) == Cardinality({Wallet[e] : e \in {d \in s.counted : Lane[d] = lane}})

(* Mutated form: the row carries FirstEventAt.                             *)
FirstEventAt(s) == IF s.counted = {} THEN 0 ELSE Min({TradeTime[e] : e \in s.counted})

LastEventAt(s) == IF s.counted = {} THEN 0 ELSE Max({TradeTime[e] : e \in s.counted})

(* ClusterSamples: the rows analyze clusters gets for one window.          *)
ClusterSamples(w, since) == {s \in samples : s.window = w /\ LastEventAt(s) >= since}

(* The report's max_smart of a token.                                      *)
MaxSmart(token, w, since) ==
  Max({0} \cup {Wallets(s, "smart_buy") :
                  s \in {r \in ClusterSamples(w, since) : Token[r.of] = token}})

-----------------------------------------------------------------------------
ClusterTypeOK ==
  /\ now \in 0 .. MaxTime /\ faultsLeft \in 0 .. MaxFaults
  /\ stored \subseteq Events
  /\ call \in [Feeds -> Calls \cup {NULL}]
  /\ samples \subseteq [of : Events, window : Windows, at : Nat, counted : SUBSET Events]

(* Of two events of a token that two pollers store at the same time, each  *)
(* still inside the window when the other is processed, at least one call  *)
(* counts both: insert comes before the query, and the query asks the      *)
(* database (engine.go:16-18, 36-47, collector.go:91-102).                 *)
ConvergenceIsCounted ==
  \A s, t \in samples :
    /\ s.window = t.window /\ Token[s.of] = Token[t.of]
    /\ TradeTime[t.of] >= s.at - s.window
    /\ TradeTime[s.of] >= t.at - t.window
    => t.of \in s.counted \/ s.of \in t.counted

(* What is converged in a window is converged in every wider one: as long  *)
(* as no write failed and no call is under way, the report's maximum never *)
(* falls when the window grows, whatever "since" cuts off                  *)
(* (engine.go:42-83, storage/clusters.go:43-53, analyze/clusters.go:26-38).*)
ReportGrowsWithWindow ==
  (faultsLeft = MaxFaults /\ \A f \in Feeds : call[f] = NULL) =>
    \A w, v \in Windows, e \in Events, since \in 0 .. MaxTime :
      w <= v => MaxSmart(Token[e], w, since) <= MaxSmart(Token[e], v, since)

-----------------------------------------------------------------------------
(* Claims the code does not keep; MCClusterClaims refutes them.            *)

(* architecture.md:80: out-of-order events are harmless, for windows are   *)
(* keyed on trade_time: an older trade that comes after a newer one was    *)
(* counted, and that would have been counted with it had it come first, is *)
(* counted with it all the same.                                           *)
OutOfOrderIsHarmless ==
  \A s, t \in samples :
    /\ s.window = t.window /\ Token[s.of] = Token[t.of]
    /\ t.of \in t.counted /\ TradeTime[s.of] <= TradeTime[t.of]
    /\ TradeTime[s.of] >= t.at - t.window
    => \E r \in samples : r.window = s.window /\ {s.of, t.of} \subseteq r.counted

(* storage/clusters.go:38: ClusterSamples returns the most recent snapshot *)
(* per token.                                                              *)
OneSnapshotPerToken ==
  \A w \in Windows, e \in Events :
    Cardinality({s \in ClusterSamples(w, 0) : Token[s.of] = Token[e]}) <= 1
=============================================================================
