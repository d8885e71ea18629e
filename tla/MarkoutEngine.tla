---------------------------- MODULE MarkoutEngine ----------------------------
(***************************************************************************)
(* internal/markout/engine.go and the markout queries of                   *)
(* internal/storage/markouts.go: the goroutine that prices every due       *)
(* markout row from klines, one token per request.                         *)
(*                                                                         *)
(* A pass (SampleDue) lists the due rows once, then walks their tokens:    *)
(* request, response, one write per row.  Between any two of these steps   *)
(* the clock moves, the collectors reserve rows of new events, and the     *)
(* process may die; the pass works on what it listed.  The shared rate     *)
(* limiter only delays a request (the TakeToken step may come late) and is *)
(* the subject of module RateGate.                                         *)
(*                                                                         *)
(* Prices are abstracted to the instant they represent, candles to their   *)
(* open time.  market[t] is the set of candles token t ever prints.        *)
(***************************************************************************)
EXTENDS Integers, FiniteSets

CONSTANTS
  Events, Tokens, TokenOf,  \* trade events and the token each one trades
  Horizons, Res, Grace,     \* config: markout.horizons, resolution, grace
  FeedLag,                  \* external: delay until a closed candle is served
  Slots,                    \* external: candle open times
  ListLimit,                \* LIMIT of DueMarkouts (5000)
  MaxTokens,                \* maxTokensPerTick (25)
  BackoffUnit, BackoffMax,  \* 15 minutes and its cap of 1 hour
  Faults, MaxFaults,        \* fault kinds that may occur, and how many in all
  Start, MaxCreate, MaxTime,\* bounds on the clock and on event creation
  MaxDelay,                 \* bound on base time's distance from the clock
  NULL                      \* SQL NULL

FaultKinds == {"ratelimit", "apierror", "empty", "garbage", "write", "restart"}

ASSUME ConstantsOK ==
  /\ TokenOf \in [Events -> Tokens]
  /\ Horizons \subseteq Nat
  /\ Res \in Nat \ {0} /\ Grace \in Nat /\ FeedLag \in Nat
  /\ Slots \subseteq Int
  /\ \A o, p \in Slots : o < p => o + Res <= p   \* candles do not overlap
  /\ ListLimit \in Nat /\ MaxTokens \in Nat
  /\ BackoffUnit \in Nat /\ BackoffMax \in Nat
  /\ Faults \subseteq FaultKinds /\ MaxFaults \in Nat
  /\ Start \in Nat /\ MaxCreate \in Nat /\ MaxTime \in Nat /\ MaxDelay \in Nat
  /\ NULL \notin Int

Kinds == {"leader", "follower"}

Rows == [event : Events, kind : Kinds, horizon : Horizons]

Tok(r) == TokenOf[r.event]

RowsOf(e, k) == {r \in Rows : r.event = e /\ r.kind = k}

(* Statuses a later pass may still overwrite: the IN list of DueMarkouts   *)
(* and of SetMarkoutStatus.                                                *)
Retryable == {"pending", "lookback_miss", "api_error", "rate_limited",
              "price_parse_error", "no_kline_data"}

(* token_inactive is reserved: no code path assigns it.                    *)
Terminal == {"no_candle", "stale_outcome"}

Statuses == {"absent", "filled"} \cup Retryable \cup Terminal

Instants == (Start - MaxDelay) .. MaxTime

VARIABLES
  clock,        \* wall clock
  market,       \* token -> candles it prints (external, fixed)
  faultsLeft,   \* faults still to come
  base,         \* <<event, kind>> -> base_ms
  status,       \* row -> markouts.status
  entry,        \* row -> instant base_price represents, or NULL
  outcome,      \* row -> outcome_observed_at, or NULL
  skipUntil,    \* token -> end of its empty-kline backoff (memory)
  emptyStreak,  \* token -> consecutive empty klines (memory)
  pc,           \* where the pass is
  now,          \* the pass's start time
  attempted,    \* tokens requested by this pass
  batch,        \* listed rows whose token is still to be requested
  token,        \* token being requested
  targets,      \* its listed rows still to be classified
  from,         \* left edge of the requested kline window
  candles,      \* the response: open times ...
  garbage,      \* ... and those whose close does not parse
  row           \* follower row whose entry was just looked up, or NULL

store == <<base, status, entry, outcome>>
memory == <<skipUntil, emptyStreak>>
pass == <<pc, now, attempted, batch, token, targets, from, candles, garbage, row>>
vars == <<clock, market, faultsLeft, store, memory, pass>>

Due(r) == base[<<r.event, r.kind>>] + r.horizon

MayFault(kind) == kind \in Faults /\ faultsLeft > 0

Fault(kind) == MayFault(kind) /\ faultsLeft' = faultsLeft - 1

(* A logged-and-ignored write error costs one fault.                       *)
WriteSucceeds == UNCHANGED faultsLeft

-----------------------------------------------------------------------------
NoPass ==
  /\ pc = "idle" /\ now = Start /\ attempted = 0 /\ batch = {}
  /\ token = NULL /\ targets = {} /\ from = Start
  /\ candles = {} /\ garbage = {} /\ row = NULL

EndOfPass ==
  /\ pc' = "idle" /\ now' = Start /\ attempted' = 0 /\ batch' = {}
  /\ token' = NULL /\ targets' = {} /\ from' = Start
  /\ candles' = {} /\ garbage' = {} /\ row' = NULL

(* Mutated form: the parse results of the last token survive it.           *)
EndOfTokenKeepsGarbage ==
  /\ pc' = "next" /\ token' = NULL /\ targets' = {} /\ from' = Start
  /\ candles' = {} /\ row' = NULL
  /\ UNCHANGED <<now, attempted, batch, garbage>>

EndOfToken ==
  /\ pc' = "next" /\ token' = NULL /\ targets' = {} /\ from' = Start
  /\ candles' = {} /\ garbage' = {} /\ row' = NULL
  /\ UNCHANGED <<now, attempted, batch>>

Init ==
  /\ clock = Start
  /\ market \in [Tokens -> SUBSET Slots]
  /\ faultsLeft = MaxFaults
  /\ base = [ek \in Events \X Kinds |-> NULL]
  /\ status = [r \in Rows |-> "absent"]
  /\ entry = [r \in Rows |-> NULL]
  /\ outcome = [r \in Rows |-> NULL]
  /\ skipUntil = [t \in Tokens |-> Start]
  /\ emptyStreak = [t \in Tokens |-> 0]
  /\ NoPass

-----------------------------------------------------------------------------
(* The environment: time, collectors, and the process dying.               *)

Tick ==
  /\ clock < MaxTime
  /\ clock' = clock + 1
  /\ UNCHANGED <<market, faultsLeft, store, memory, pass>>

(* Mutated form: INSERT OR REPLACE resets rows that are already resolved.  *)
CreateMarkoutsReplacing(e, k, b) ==
  /\ clock <= MaxCreate
  /\ clock - MaxDelay <= b /\ b <= clock
  /\ base' = [base EXCEPT ![<<e, k>>] = b]
  /\ status' = [r \in Rows |-> IF r \in RowsOf(e, k) THEN "pending" ELSE status[r]]
  /\ UNCHANGED <<clock, market, faultsLeft, entry, outcome, memory, pass>>

(* One transaction of the pipeline: all horizons of one kind.  The leader's*)
(* price comes with the event; the follower's stays NULL.  Only events     *)
(* with a positive price reach this call.                                  *)
CreateMarkouts(e, k, b) ==
  /\ clock <= MaxCreate
  /\ base[<<e, k>>] = NULL
  /\ clock - MaxDelay <= b /\ b <= clock
  /\ base' = [base EXCEPT ![<<e, k>>] = b]
  /\ status' = [r \in Rows |-> IF r \in RowsOf(e, k) THEN "pending" ELSE status[r]]
  /\ entry' = [r \in Rows |-> IF r \in RowsOf(e, k) /\ k = "leader"
                              THEN b ELSE entry[r]]
  /\ UNCHANGED <<clock, market, faultsLeft, outcome, memory, pass>>

(* Restart keeps the database and loses everything in memory.              *)
Restart ==
  /\ Fault("restart")
  /\ skipUntil' = [t \in Tokens |-> Start]
  /\ emptyStreak' = [t \in Tokens |-> 0]
  /\ EndOfPass
  /\ UNCHANGED <<clock, market, store>>

-----------------------------------------------------------------------------
(* DueMarkouts.                                                            *)

(* Mutated form: rows are listed at their due time, without the grace.     *)
DueRowsWithoutGrace ==
  {r \in Rows : /\ outcome[r] = NULL
                /\ status[r] \in Retryable
                /\ Due(r) <= clock
                /\ clock >= skipUntil[Tok(r)]}

DueRows ==
  {r \in Rows : /\ outcome[r] = NULL
                /\ status[r] \in Retryable
                /\ Due(r) <= clock - Grace
                /\ clock >= skipUntil[Tok(r)]}

(* Mutated form: the ORDER BY without its status column.                   *)
BeforeByDue(r, s) ==
  \/ r.kind = "follower" /\ s.kind = "leader"
  \/ r.kind = s.kind /\ Due(r) > Due(s)

(* ORDER BY (kind = 'follower') DESC, (status = 'pending') DESC, due DESC. *)
Before(r, s) ==
  \/ r.kind = "follower" /\ s.kind = "leader"
  \/ /\ r.kind = s.kind
     /\ \/ status[r] = "pending" /\ status[s] # "pending"
        \/ /\ status[r] = "pending" <=> status[s] = "pending"
           /\ Due(r) > Due(s)

(* The rows of S no row of S is ordered before.                            *)
Foremost(S) == {r \in S : \A s \in S : ~Before(s, r)}

(* LIMIT: a full page, and nothing left out is ordered before what is in.  *)
IsPage(S) ==
  /\ S = DueRows \/ Cardinality(S) = ListLimit
  /\ Cardinality(S) <= ListLimit
  /\ \A r \in S, s \in DueRows \ S : ~Before(s, r)

SampleDue ==
  /\ pc = "idle"
  /\ \E S \in SUBSET DueRows :
       /\ IsPage(S)
       /\ IF S = {}
          THEN UNCHANGED pass
          ELSE /\ pc' = "next" /\ now' = clock /\ batch' = S
               /\ UNCHANGED <<attempted, token, targets, from, candles, garbage, row>>
  /\ UNCHANGED <<clock, market, faultsLeft, store, memory>>

-----------------------------------------------------------------------------
(* The token loop.  Statuses of unrequested tokens do not change during a  *)
(* pass, so the order of the listing is the order of what is left of it.   *)

(* The window reaches back for the entry candle of the shortest horizon.   *)
WindowStart(due) == due - 2 * Res

TakeToken ==
  /\ pc = "next" /\ attempted < MaxTokens
  /\ \E r \in Foremost(batch) :
       LET mine == {s \in batch : Tok(s) = Tok(r)} IN
       /\ token' = Tok(r)
       /\ targets' = mine
       /\ batch' = batch \ mine
       /\ \E s \in mine : /\ \A u \in mine : Due(s) <= Due(u)
                          /\ from' = WindowStart(Due(s))
  /\ attempted' = attempted + 1
  /\ pc' = "sent"
  /\ UNCHANGED <<now, candles, garbage, row>>
  /\ UNCHANGED <<clock, market, faultsLeft, store, memory>>

EndPass ==
  /\ pc = "next"
  /\ batch = {} \/ attempted >= MaxTokens
  /\ EndOfPass
  /\ UNCHANGED <<clock, market, faultsLeft, store, memory>>

(* SetMarkoutStatus on every row of S; a terminal status is kept.          *)
Marked(S, st) ==
  [r \in Rows |-> IF r \in S /\ status[r] \in Retryable THEN st ELSE status[r]]

(* markStatus: a failed write is logged and leaves its row as it was.      *)
MarkSome(S, st) == \E W \in SUBSET S : status' = Marked(W, st)

MarkStatus(S, st) ==
  \/ WriteSucceeds /\ status' = Marked(S, st)
  \/ Fault("write") /\ MarkSome(S, st)

(* A request fault; the writes that follow it may fail as well.            *)
FaultThenMark(kind, st) ==
  /\ Fault(kind)
  /\ IF "write" \in Faults THEN MarkSome(targets, st) ELSE status' = Marked(targets, st)

(* 429: mark the token's rows and give up the rest of the pass.            *)
RateLimited ==
  /\ pc = "sent"
  /\ FaultThenMark("ratelimit", "rate_limited")
  /\ EndOfPass
  /\ UNCHANGED <<clock, market, base, entry, outcome, memory>>

(* Any other request error: mark the token's rows, go on with the next.    *)
APIError ==
  /\ pc = "sent"
  /\ FaultThenMark("apierror", "api_error")
  /\ EndOfToken
  /\ UNCHANGED <<clock, market, base, entry, outcome, memory>>

-----------------------------------------------------------------------------
(* The kline endpoint (external): every candle of the window that closed   *)
(* FeedLag ago is served; one that is still open, that closed more         *)
(* recently, or that straddles the left edge may or may not be.            *)

Servable == {o \in market[token] : from < o + Res /\ o <= now}

Served == {o \in Servable : from <= o /\ o + Res + FeedLag <= clock}

EmptyKline ==
  /\ pc = "sent"
  /\ \/ Served = {} /\ MarkStatus(targets, "no_kline_data")
     \/ Served # {} /\ FaultThenMark("empty", "no_kline_data")
  /\ LET streak == emptyStreak[token] + 1
         backoff == IF streak * BackoffUnit > BackoffMax
                    THEN BackoffMax ELSE streak * BackoffUnit
     IN /\ emptyStreak' = [emptyStreak EXCEPT ![token] = streak]
        /\ skipUntil' = [skipUntil EXCEPT ![token] = now + backoff]
  /\ EndOfToken
  /\ UNCHANGED <<clock, market, base, entry, outcome>>

KlineReply ==
  /\ pc = "sent"
  /\ \E S \in SUBSET Servable :
       /\ Served \subseteq S /\ S # {}
       /\ candles' = S
       /\ \/ garbage' = {} /\ UNCHANGED faultsLeft
          \/ Fault("garbage") /\ garbage' \in SUBSET S \ {{}}
  /\ emptyStreak' = [emptyStreak EXCEPT ![token] = 0]
  /\ pc' = "apply"
  /\ UNCHANGED <<now, attempted, batch, token, targets, from, row>>
  /\ UNCHANGED <<clock, market, store, skipUntil>>

-----------------------------------------------------------------------------
(* Classifying one row of the response.                                    *)

(* Mutated form: the search looks at open times.                           *)
FirstOpening(ts) ==
  {o \in candles : o >= ts /\ \A p \in candles : p >= ts => o <= p}

OpeningBy(ts) == {o \in candles : o <= ts}

ClosingFrom(ts) == {o \in candles : o >= ts - Res}

(* lastCloseAtOrBefore: the newest candle opening at or before ts.         *)
LastOpening(ts) == {o \in OpeningBy(ts) : \A p \in OpeningBy(ts) : p <= o}

(* firstCandleClosingAtOrAfter: the oldest candle closing at or after ts.  *)
FirstClosing(ts) == {o \in ClosingFrom(ts) : \A p \in ClosingFrom(ts) : o <= p}

NeedsEntry(r) == r.kind = "follower" /\ entry[r] = NULL /\ row # r

(* The row being worked on: the one whose entry was just looked up, else   *)
(* the next one in listing order.                                          *)
Current(r) ==
  /\ pc = "apply"
  /\ IF row = NULL THEN r \in Foremost(targets) ELSE r = row

(* Row r is done; the token is done with its last row.                     *)
DoneWith(r) ==
  IF targets = {r}
  THEN EndOfToken
  ELSE /\ targets' = targets \ {r} /\ row' = NULL
       /\ UNCHANGED <<pc, now, attempted, batch, token, from, candles, garbage>>

Classify(r, st) ==
  /\ MarkStatus({r}, st)
  /\ DoneWith(r)
  /\ UNCHANGED <<clock, market, base, entry, outcome, memory>>

(* Mutated form: the candle in progress at the base time counts as closed. *)
EntryBoundInProgress(r) == base[<<r.event, r.kind>>]

(* The newest open time an entry candle may have: it must have closed when *)
(* the event was received.                                                 *)
EntryBound(r) == base[<<r.event, r.kind>>] - Res

LookbackMiss(r) ==
  /\ Current(r) /\ NeedsEntry(r)
  /\ OpeningBy(EntryBound(r)) = {}
  /\ Classify(r, "lookback_miss")

EntryParseError(r) ==
  /\ Current(r) /\ NeedsEntry(r)
  /\ LastOpening(EntryBound(r)) \cap garbage # {}
  /\ Classify(r, "price_parse_error")

(* Mutated forms: the entry reaches the looked-up row only; no row at all. *)
EntryTargetsOneRow(r) == {r}

EntryTargetsWrongKind(r) == {s \in RowsOf(r.event, "leader") : entry[s] = NULL}

EntryTargets(r) == {s \in RowsOf(r.event, "follower") : entry[s] = NULL}

(* SetFollowerEntry writes every row of the event that has no entry yet.   *)
(* The pass goes on with the price it read even when the write failed.     *)
SetFollowerEntry(r) ==
  /\ Current(r) /\ NeedsEntry(r)
  /\ \E o \in LastOpening(EntryBound(r)) \ garbage :
       \/ /\ WriteSucceeds
          /\ entry' = [s \in Rows |-> IF s \in EntryTargets(r) THEN o + Res
                                                           ELSE entry[s]]
       \/ Fault("write") /\ UNCHANGED entry
  /\ row' = r
  /\ UNCHANGED <<pc, now, attempted, batch, token, targets, from, candles, garbage>>
  /\ UNCHANGED <<clock, market, base, status, outcome, memory>>

NoCandle(r) ==
  /\ Current(r) /\ ~NeedsEntry(r)
  /\ ClosingFrom(Due(r)) = {}
  /\ Classify(r, "no_candle")

OutcomeParseError(r) ==
  /\ Current(r) /\ ~NeedsEntry(r)
  /\ FirstClosing(Due(r)) \cap garbage # {}
  /\ Classify(r, "price_parse_error")

StaleOutcome(r) ==
  /\ Current(r) /\ ~NeedsEntry(r)
  /\ \E o \in FirstClosing(Due(r)) \ garbage : o + Res > Due(r) + Res
  /\ Classify(r, "stale_outcome")

FillMarkout(r) ==
  /\ Current(r) /\ ~NeedsEntry(r)
  /\ \E o \in FirstClosing(Due(r)) \ garbage :
       /\ o + Res <= Due(r) + Res
       /\ \/ /\ WriteSucceeds
             /\ outcome' = [outcome EXCEPT ![r] = IF @ = NULL THEN o + Res ELSE @]
             /\ status' = [status EXCEPT ![r] = IF outcome[r] = NULL THEN "filled" ELSE @]
          \/ Fault("write") /\ UNCHANGED <<outcome, status>>
  /\ DoneWith(r)
  /\ UNCHANGED <<clock, market, base, entry, memory>>

-----------------------------------------------------------------------------
ApplyRow(r) ==
  \/ LookbackMiss(r) \/ EntryParseError(r) \/ SetFollowerEntry(r)
  \/ NoCandle(r) \/ OutcomeParseError(r) \/ StaleOutcome(r) \/ FillMarkout(r)

EngineStep ==
  \/ SampleDue \/ TakeToken \/ EndPass
  \/ RateLimited \/ APIError \/ EmptyKline \/ KlineReply
  \/ \E r \in Rows : ApplyRow(r)

Create == \E e \in Events, k \in Kinds, b \in Instants : CreateMarkouts(e, k, b)

Next == Tick \/ Create \/ Restart \/ EngineStep

Spec == Init /\ [][Next]_vars

(* Time passes and the sampling goroutine ticks forever; collectors,       *)
(* restarts and faults are never obliged to happen.                        *)
FairSpec == Spec /\ WF_vars(Tick) /\ WF_vars(EngineStep)

-----------------------------------------------------------------------------
TypeOK ==
  /\ clock \in Int
  /\ market \in [Tokens -> SUBSET Slots]
  /\ faultsLeft \in Nat
  /\ base \in [Events \X Kinds -> Int \cup {NULL}]
  /\ status \in [Rows -> Statuses]
  /\ entry \in [Rows -> Int \cup {NULL}]
  /\ outcome \in [Rows -> Int \cup {NULL}]
  /\ skipUntil \in [Tokens -> Int]
  /\ emptyStreak \in [Tokens -> Nat]
  /\ pc \in {"idle", "next", "sent", "apply"}
  /\ now \in Int /\ attempted \in Nat /\ from \in Int
  /\ batch \subseteq Rows /\ targets \subseteq Rows
  /\ token \in Tokens \cup {NULL}
  /\ candles \subseteq Slots /\ garbage \subseteq candles
  /\ row \in Rows \cup {NULL}
=============================================================================
