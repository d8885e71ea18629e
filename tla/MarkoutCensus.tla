---------------------------- MODULE MarkoutCensus ----------------------------
(***************************************************************************)
(* What the reports count of the follower rows, while the engine is at     *)
(* work: LatencyEV (analyze/latencyev.go over MarkoutCensus), the          *)
(* replication census of an actor (ReplicationCensus, analyze/actors.go)   *)
(* and the coverage table (MarkoutStatusCounts, analyze/coverage.go).      *)
(*                                                                         *)
(* A count is modelled by the set of rows it counts.                       *)
(***************************************************************************)
EXTENDS MarkoutProperties

ASSUME NullIsNoRow == NULL \notin Rows

Classes == {"filled", "marketLoss", "measLoss", "unresolved"}

(* Rows with a price to be had by now: all three queries ask for it.       *)
DueFollowers(h) ==
  {r \in Rows : /\ r.kind = "follower" /\ r.horizon = h /\ status[r] # "absent"
                /\ Due(r) <= clock - Grace}

WithStatus(S, statuses) == {r \in S : status[r] \in statuses}

HasReturn(r) == outcome[r] # NULL /\ entry[r] # NULL

MarketStatuses == {"no_candle", "token_inactive", "stale_outcome"}
MeasStatuses == {"api_error", "rate_limited", "lookback_miss", "price_parse_error", "no_kline_data"}

(* Mutated form: a row of an empty kline is dead to the market.            *)
LatencyEVCountsEmptyAsLoss(h) ==
  LET due == DueFollowers(h)
      filled == {r \in WithStatus(due, {"filled"}) : HasReturn(r)}
      judged == WithStatus(due, {"filled", "no_kline_data"} \cup MarketStatuses)
  IN  [filled |-> filled, marketLoss |-> judged \ filled,
       unresolved |-> WithStatus(due, {"pending"}),
       measLoss |-> due \ (judged \cup WithStatus(due, {"pending"}))]

LatencyEV(h) ==
  LET due == DueFollowers(h)
      filled == {r \in WithStatus(due, {"filled"}) : HasReturn(r)}
      judged == WithStatus(due, {"filled"} \cup MarketStatuses)
  IN  [filled |-> filled, marketLoss |-> judged \ filled,
       unresolved |-> WithStatus(due, {"pending"}),
       measLoss |-> due \ (judged \cup WithStatus(due, {"pending"}))]

ReplicationCensus(h) ==
  LET due == DueFollowers(h)
  IN  [filled |-> {r \in due : HasReturn(r)},
       marketLoss |-> WithStatus(due, MarketStatuses),
       measLoss |-> WithStatus(due, MeasStatuses),
       unresolved |-> WithStatus(due, {"pending"})]

Coverage(h) ==
  LET due == DueFollowers(h)
  IN  [filled |-> WithStatus(due, {"filled"}),
       marketLoss |-> WithStatus(due, MarketStatuses),
       measLoss |-> WithStatus(due, MeasStatuses),
       unresolved |-> WithStatus(due, {"pending"})]

-----------------------------------------------------------------------------
(* A row whose outcome is stored and whose entry is not: the pass prices a *)
(* row with the entry it read, also when the entry could not be written.   *)
LostEntries == {r \in Rows : status[r] = "filled" /\ entry[r] = NULL}

(* Every due row is in exactly one class, and the three reports put it in  *)
(* the same one although each has its own rule: one goes by the prices,    *)
(* one by the statuses it knows, one by those it does not.  The exception  *)
(* are rows whose entry was lost (markouts.go:374-386,                     *)
(* latencyev.go:89-110, coverage.go:62-69).                                *)
CensusesAgree ==
  \A h \in Horizons : \A r \in DueFollowers(h) \ LostEntries :
    \E c \in Classes :
      /\ r \in ReplicationCensus(h)[c] /\ r \in LatencyEV(h)[c] /\ r \in Coverage(h)[c]
      /\ \A d \in Classes \ {c} :
           r \notin ReplicationCensus(h)[d] /\ r \notin LatencyEV(h)[d] /\ r \notin Coverage(h)[d]

(* A lost write of an entry costs the reports one row and no more: the     *)
(* entry is written to all rows of the event by the next of them, and rows *)
(* of a token are not all priced from a response whose entry was lost      *)
(* (engine.go:228-243).                                                    *)
LostWriteCostsOneRow == Cardinality(LostEntries) <= MaxFaults - faultsLeft
=============================================================================
