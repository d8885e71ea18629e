---------------------------- MODULE MarkoutLedger ----------------------------
(***************************************************************************)
(* What the markout sampler promises, without saying how: every reserved   *)
(* row stays open until its due time and is then resolved at most once,    *)
(* either with the close of the FIRST candle that closes at or after the   *)
(* due time, or with the verdict that no such candle exists.  A follower   *)
(* event learns one entry price, the LAST close known at its base time.    *)
(*                                                                         *)
(* A candle is named by its open time; it closes Res later.  market[t] is  *)
(* the set of candles the token really prints, over all time: quiet slots  *)
(* have no candle.  A price is abstracted to the instant it represents.    *)
(***************************************************************************)
EXTENDS Integers

CONSTANTS
  Events,     \* trade events
  Tokens,     \* tokens
  TokenOf,    \* the token each event trades
  Horizons,   \* markout horizons
  Res,        \* kline resolution
  Slots,      \* open times a candle may have
  Times,      \* base times an event may have
  NULL        \* SQL NULL

Kinds == {"leader", "follower"}

(* One markout row per (event, kind, horizon): the table's primary key.    *)
Rows == [event : Events, kind : Kinds, horizon : Horizons]

Tok(r) == TokenOf[r.event]

RowsOf(e, k) == {r \in Rows : r.event = e /\ r.kind = k}

VARIABLES
  clock,      \* wall clock
  market,     \* token -> candles it prints
  base,       \* <<event, kind>> -> base_ms, NULL until reserved
  verdict,    \* row -> absent, open, filled or unpriced
  entry,      \* row -> instant base_price represents
  outcome     \* row -> instant observed_price represents

ledgerVars == <<clock, market, base, verdict, entry, outcome>>

DueAt(b, r) == b[<<r.event, r.kind>>] + r.horizon

(* Candles of S that close in the closed interval [lo, hi].                *)
ClosingIn(S, lo, hi) == {o \in S : lo <= o + Res /\ o + Res <= hi}

(* The close at instant "at" is the last one known at instant b.           *)
IsLastClose(S, b, at) ==
  /\ at - Res \in S
  /\ at <= b
  /\ ClosingIn(S, at + 1, b) = {}

(* The close at instant "at" is the first one at or after due, and lags it *)
(* by at most one resolution.                                              *)
IsFirstClose(S, due, at) ==
  /\ at - Res \in S
  /\ due <= at /\ at <= due + Res
  /\ ClosingIn(S, due, at - 1) = {}

-----------------------------------------------------------------------------
Init ==
  /\ clock \in Int
  /\ market \in [Tokens -> SUBSET Slots]
  /\ base = [ek \in Events \X Kinds |-> NULL]
  /\ verdict = [r \in Rows |-> "absent"]
  /\ entry = [r \in Rows |-> NULL]
  /\ outcome = [r \in Rows |-> NULL]

Tick ==
  /\ clock' = clock + 1
  /\ UNCHANGED <<market, base, verdict, entry, outcome>>

(* The leader's price is known with the event, the follower's is not.      *)
Reserve(e, k, b) ==
  /\ base[<<e, k>>] = NULL
  /\ b <= clock
  /\ base' = [base EXCEPT ![<<e, k>>] = b]
  /\ verdict' = [r \in Rows |-> IF r \in RowsOf(e, k) THEN "open" ELSE verdict[r]]
  /\ entry' = [r \in Rows |-> IF r \in RowsOf(e, k) /\ k = "leader"
                              THEN b ELSE entry[r]]
  /\ UNCHANGED <<clock, market, outcome>>

LearnEntry(e, at) ==
  /\ base[<<e, "follower">>] # NULL
  /\ IsLastClose(market[TokenOf[e]], base[<<e, "follower">>], at)
  /\ entry' = [r \in Rows |-> IF r \in RowsOf(e, "follower") /\ entry[r] = NULL
                              THEN at ELSE entry[r]]
  /\ UNCHANGED <<clock, market, base, verdict, outcome>>

Fill(r, at) ==
  /\ verdict[r] = "open"
  /\ at <= clock
  /\ IsFirstClose(market[Tok(r)], DueAt(base, r), at)
  /\ verdict' = [verdict EXCEPT ![r] = "filled"]
  /\ outcome' = [outcome EXCEPT ![r] = at]
  /\ UNCHANGED <<clock, market, base, entry>>

GiveUp(r) ==
  /\ verdict[r] = "open"
  /\ DueAt(base, r) + Res <= clock
  /\ ClosingIn(market[Tok(r)], DueAt(base, r), DueAt(base, r) + Res) = {}
  /\ verdict' = [verdict EXCEPT ![r] = "unpriced"]
  /\ UNCHANGED <<clock, market, base, entry, outcome>>

Next ==
  \/ Tick
  \/ \E e \in Events, k \in Kinds, b \in Times : Reserve(e, k, b)
  \/ \E e \in Events, o \in Slots : LearnEntry(e, o + Res)
  \/ \E r \in Rows, o \in Slots : Fill(r, o + Res)
  \/ \E r \in Rows : GiveUp(r)

Spec == Init /\ [][Next]_ledgerVars
=============================================================================
