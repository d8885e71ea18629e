------------------------------ MODULE Collection ------------------------------
(***************************************************************************)
(* cmdCollect of cmd/followedge/main.go: the pollers and the markout       *)
(* engine, goroutines of one process over one database.                    *)
(*                                                                         *)
(* The pollers are module Intake, the engine is module MarkoutEngine.  They*)
(* meet in the markouts table: the pipeline's two markout stages are the   *)
(* engine's CreateMarkouts, and what Intake keeps as the sets of events    *)
(* with leader and follower rows is what that table holds.  They also share*)
(* the process: a restart takes both down.                                 *)
(***************************************************************************)
EXTENDS Integers, FiniteSets

CONSTANTS
  Feeds, MaxEvents, CarriedBy, PageSize, Priced,      \* see Intake
  Tokens, TokenOf, Horizons, Res, Grace, FeedLag,     \* see MarkoutEngine
  Slots, ListLimit, MaxTokens, BackoffUnit, BackoffMax,
  FeedFaults, MaxFeedFaults, EngineFaults, MaxEngineFaults,
  Start, MaxTime,
  NULL

Events == 1 .. MaxEvents

ASSUME CollectionConstantsOK ==
  /\ MaxEvents \in Nat /\ Start \in Nat /\ MaxTime \in Nat /\ Start <= MaxTime
  /\ CarriedBy \in [Feeds -> SUBSET Events]
  /\ NULL \notin Int

VARIABLES
  traded, feedFaults, cut, seen, place, stamp, page, cur,   \* of Intake
  received, counted, sampled,
  clock, market, engineFaults, base, status, entry, outcome,  \* of MarkoutEngine
  skipUntil, emptyStreak, pc, now, attempted, batch, token, targets, from,
  candles, garbage, row,
  tradedAt,    \* event -> its trade_time on the clock
  polledAt,    \* feed -> receivedAt of the poll under way, on the clock
  receivedAt   \* trade_events: event -> its received_at on the clock, or NULL

(* Nothing but the clock bounds the base time of a row or its creation.    *)
Engine == INSTANCE MarkoutCensus WITH
            Faults <- EngineFaults, MaxFaults <- MaxEngineFaults, faultsLeft <- engineFaults,
            MaxCreate <- MaxTime, MaxDelay <- MaxTime

RowsExist(kind) == {e \in Events : base[<<e, kind>>] # NULL}

Pollers == INSTANCE Intake WITH
             Faults <- FeedFaults, MaxFaults <- MaxFeedFaults, faultsLeft <- feedFaults,
             pc <- place, batch <- page,
             leader <- RowsExist("leader"), follower <- RowsExist("follower")

feedVars == <<traded, feedFaults, cut, seen, place, stamp, page, cur, received, counted, sampled>>
engineVars == <<clock, market, engineFaults, base, status, entry, outcome, skipUntil, emptyStreak,
                pc, now, attempted, batch, token, targets, from, candles, garbage, row>>
times == <<tradedAt, polledAt, receivedAt>>
collectVars == <<feedVars, engineVars, times>>

Init ==
  /\ Engine!Init /\ Pollers!Init
  /\ tradedAt = [e \in Events |-> NULL]
  /\ polledAt = [f \in Feeds |-> Start]
  /\ receivedAt = [e \in Events |-> NULL]

-----------------------------------------------------------------------------
Tick == Engine!Tick /\ UNCHANGED <<feedVars, times>>

EngineStep == Engine!EngineStep /\ UNCHANGED <<feedVars, times>>

Trade ==
  /\ UNCHANGED engineVars /\ Pollers!Trade
  /\ tradedAt' = [tradedAt EXCEPT ![traded'] = clock]
  /\ UNCHANGED <<polledAt, receivedAt>>

Expire == UNCHANGED engineVars /\ Pollers!Expire /\ UNCHANGED times

(* The process dies: everything but the database is lost.                  *)
Restart == Engine!Restart /\ Pollers!Restart /\ UNCHANGED times

BeginPoll(f) ==
  /\ UNCHANGED engineVars /\ Pollers!BeginPoll(f)
  /\ polledAt' = [polledAt EXCEPT ![f] = clock]
  /\ UNCHANGED <<tradedAt, receivedAt>>

InsertEvent(f) ==
  /\ UNCHANGED engineVars /\ Pollers!InsertEvent(f)
  /\ receivedAt' = [receivedAt EXCEPT ![cur[f]] = IF @ = NULL THEN polledAt[f] ELSE @]
  /\ UNCHANGED <<tradedAt, polledAt>>

(* Mutated form: the price of the trade is not handed over.                *)
ReserveUnpriced(e, kind, b) ==
  /\ base[<<e, kind>>] = NULL /\ base' = [base EXCEPT ![<<e, kind>>] = b]
  /\ status' = [r \in Engine!Rows |-> IF r \in Engine!RowsOf(e, kind) THEN "pending" ELSE status[r]]
  /\ UNCHANGED <<clock, market, engineFaults, entry, outcome, skipUntil, emptyStreak, pc, now,
                 attempted, batch, token, targets, from, candles, garbage, row>>

(* INSERT OR IGNORE: rows that exist are left alone.                       *)
Reserve(e, kind, b) ==
  IF base[<<e, kind>>] = NULL THEN Engine!CreateMarkouts(e, kind, b) ELSE UNCHANGED engineVars

(* Mutated form: the rows are timed by the moment they are written.        *)
FollowerBaseIsNow(f) == clock

(* The event carries the time its poll began.                              *)
FollowerBase(f) == polledAt[f]

(* Either the rows are written or the write fails; Intake knows which.     *)
LeaderMarkouts(f) ==
  /\ place[f] = "leader"
  /\ Reserve(cur[f], "leader", tradedAt[cur[f]]) \/ UNCHANGED engineVars
  /\ Pollers!LeaderMarkouts(f) /\ UNCHANGED times

FollowerMarkouts(f) ==
  /\ place[f] = "follower"
  /\ Reserve(cur[f], "follower", FollowerBase(f)) \/ UNCHANGED engineVars
  /\ Pollers!FollowerMarkouts(f) /\ UNCHANGED times

OtherPollStep(f) ==
  /\ UNCHANGED engineVars /\ UNCHANGED times
  /\ \/ Pollers!ReadPage(f) \/ Pollers!EndPoll(f) \/ Pollers!Skip(f) \/ Pollers!MarkSeen(f)
     \/ Pollers!InsertFails(f) \/ Pollers!UpsertActor(f) \/ Pollers!ClusterOnEvent(f)

PollStep(f) ==
  \/ BeginPoll(f) \/ InsertEvent(f) \/ LeaderMarkouts(f) \/ FollowerMarkouts(f)
  \/ OtherPollStep(f)

Next == Tick \/ EngineStep \/ Trade \/ Expire \/ Restart \/ \E f \in Feeds : PollStep(f)

Spec == Init /\ [][Next]_collectVars

(* The goroutines run for ever and dedup forgets.                          *)
FairSpec ==
  /\ Spec
  /\ WF_collectVars(Tick) /\ WF_collectVars(EngineStep)
  /\ \A f \in Feeds : WF_collectVars(PollStep(f))
  /\ \A e \in Events : WF_collectVars(Expire /\ e \notin seen')

-----------------------------------------------------------------------------
(* The engine beside the pollers is the engine on its own: whatever is     *)
(* shown of MarkoutEngine holds in the whole program.                      *)
ImplementsEngine == Engine!Spec

(* Rows belong to the trade that is stored: a follower row starts at the   *)
(* received_at of the one poll that stored its event, a leader row at its  *)
(* trade time, although another feed may work on the same event at the     *)
(* same time with a time of its own (main.go:125-140, collector.go:91-102).*)
RowsBelongToTrade ==
  \A e \in Events :
    /\ e \in RowsExist("leader") \cup RowsExist("follower") => e \in Pollers!Stored /\ e \in Priced
    /\ e \in RowsExist("leader") => base[<<e, "leader">>] = tradedAt[e]
    /\ e \in RowsExist("follower") => base[<<e, "follower">>] = receivedAt[e]

(* The price that answers row r, if the market printed one in time for the *)
(* engine to see it before the model's clock ends.                         *)
PriceIsPrinted(r) ==
  /\ Engine!Due(r) + Grace <= MaxTime
  /\ Engine!EntryIsReachable(r)
  /\ Engine!Ledger!ClosingIn(market[Engine!Tok(r)], Engine!Due(r), Engine!Due(r) + Res) # {}

(* From the chain to the return: the rows of a trade that stays on a page  *)
(* end filled wherever the market printed their prices, in spite of request*)
(* errors, 429s, failed inserts and restarts; only a restart between the   *)
(* insert and the markouts loses them.                                     *)
ShownPriceIsFilled ==
  \A f \in Feeds, e \in Priced :
    <>[](e \in Pollers!Page(f)) =>
      <>( \/ e \in cut
          \/ \A k \in Engine!Kinds :
               /\ e \in RowsExist(k)
               /\ \A r \in Engine!RowsOf(e, k) : PriceIsPrinted(r) => status[r] = "filled" )
=============================================================================
