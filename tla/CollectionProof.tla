--------------------------- MODULE CollectionProof ---------------------------
(***************************************************************************)
(* Proofs about the pollers and the engine in one process, for any feeds,  *)
(* events, market and faults.                                              *)
(***************************************************************************)
EXTENDS Collection, TLAPS

USE CollectionConstantsOK DEF CollectionConstantsOK

Stages == {"leader", "follower", "actor", "cluster"}

Traded == 1 .. traded

CollectTypeOK ==
  /\ clock \in Start .. MaxTime
  /\ traded \in 0 .. MaxEvents
  /\ place \in [Feeds -> {"idle", "polling", "next", "insert"} \cup Stages]
  /\ page \in [Feeds -> SUBSET Traded]
  /\ cur \in [Feeds -> Traded \cup {NULL}]
  /\ stamp \in [Feeds -> Int]
  /\ received \in [Events -> Int \cup {NULL}]
  /\ base \in [Events \X Engine!Kinds -> Int \cup {NULL}]
  /\ tradedAt \in [Events -> Int \cup {NULL}]
  /\ polledAt \in [Feeds -> Int]
  /\ receivedAt \in [Events -> Int \cup {NULL}]

(* A trade has a time, and only trades are worked on and stored.           *)
TradesHaveTimes ==
  /\ \A e \in Traded : tradedAt[e] \in Int
  /\ \A f \in Feeds : place[f] \in {"insert"} \cup Stages => cur[f] \in Traded
  /\ \A e \in Events : received[e] # NULL => e \in Traded

(* The poller that pushes an event down the pipeline is the one whose time *)
(* is stored with it; only priced events reach the markout stages.         *)
StoredByItsPoll ==
  /\ \A e \in Events : received[e] # NULL <=> receivedAt[e] # NULL
  /\ \A f \in Feeds : place[f] \in Stages => receivedAt[cur[f]] = polledAt[f]
  /\ \A f \in Feeds : place[f] \in {"leader", "follower"} => cur[f] \in Priced

CollectInv ==
  /\ CollectTypeOK
  /\ TradesHaveTimes
  /\ StoredByItsPoll
  /\ RowsBelongToTrade

feedState == <<traded, place, page, cur, stamp, received>>

-----------------------------------------------------------------------------
LEMMA TradedSubset == ASSUME CollectTypeOK PROVE Traded \subseteq Events
BY DEF CollectTypeOK, Traded, Events

LEMMA InitCollect == Init => CollectInv
<1> SUFFICES ASSUME Init PROVE CollectInv
  OBVIOUS
<1> USE DEF Init, Engine!Init, Pollers!Init, Pollers!AllIdle, Stages, Traded
<1>1. CollectTypeOK
  BY DEF CollectTypeOK, Pollers!Events, Events, Engine!Kinds
<1>2. TradesHaveTimes /\ StoredByItsPoll
  BY DEF TradesHaveTimes, StoredByItsPoll, Pollers!Events, Events
<1>3. RowsBelongToTrade
  BY DEF RowsBelongToTrade, RowsExist, Engine!Kinds
<1> QED BY <1>1, <1>2, <1>3 DEF CollectInv

(* The engine's own steps: no row is created, no feed moves.               *)
LEMMA EngineCollect ==
  ASSUME CollectInv, clock' \in Start .. MaxTime, UNCHANGED <<base, feedState, times>>
  PROVE  CollectInv'
BY DEF CollectInv, CollectTypeOK, TradesHaveTimes, StoredByItsPoll, RowsBelongToTrade, RowsExist,
       Pollers!Stored, Pollers!Events, Events, feedState, times, Traded

LEMMA EngineKeepsRows == ASSUME Engine!EngineStep PROVE UNCHANGED <<clock, base>>
<1>1. CASE Engine!SampleDue \/ Engine!TakeToken \/ Engine!EndPass \/ Engine!KlineReply
  BY <1>1 DEF Engine!SampleDue, Engine!TakeToken, Engine!EndPass, Engine!KlineReply, Engine!store
<1>2. CASE Engine!RateLimited \/ Engine!APIError \/ Engine!EmptyKline
  BY <1>2 DEF Engine!RateLimited, Engine!APIError, Engine!EmptyKline
<1>3. CASE \E r \in Engine!Rows : Engine!ApplyRow(r)
  BY <1>3 DEF Engine!ApplyRow, Engine!LookbackMiss, Engine!EntryParseError, Engine!SetFollowerEntry,
              Engine!NoCandle, Engine!OutcomeParseError, Engine!StaleOutcome, Engine!FillMarkout,
              Engine!Classify
<1> QED BY <1>1, <1>2, <1>3 DEF Engine!EngineStep

(* A trade appears on the clock.                                           *)
LEMMA TradeCollect == ASSUME CollectInv, Trade PROVE CollectInv'
<1>1. /\ traded' = traded + 1 /\ traded < MaxEvents
      /\ tradedAt' = [tradedAt EXCEPT ![traded + 1] = clock]
      /\ UNCHANGED <<clock, base, place, page, cur, stamp, received, polledAt, receivedAt>>
  BY DEF Trade, Pollers!Trade, Pollers!poller, Pollers!tables, engineVars
<1>2. /\ traded + 1 \in Events /\ Traded \subseteq Events /\ traded \in Nat
      /\ Traded' = Traded \cup {traded + 1} /\ traded + 1 \notin Traded
      /\ clock \in Int
  BY <1>1 DEF CollectInv, CollectTypeOK, Traded, Events
<1>3. CollectTypeOK'
  BY <1>1, <1>2 DEF CollectInv, CollectTypeOK
<1>4. TradesHaveTimes' /\ StoredByItsPoll'
  BY <1>1, <1>2 DEF CollectInv, CollectTypeOK, TradesHaveTimes, StoredByItsPoll
<1>5. RowsBelongToTrade'
  <2>1. \A e \in Events : e \in Pollers!Stored => tradedAt'[e] = tradedAt[e]
    BY <1>1, <1>2 DEF CollectInv, CollectTypeOK, TradesHaveTimes, Pollers!Stored, Pollers!Events, Events
  <2> QED BY <1>1, <2>1 DEF CollectInv, RowsBelongToTrade, RowsExist, Pollers!Stored,
                            Pollers!Events
<1> QED BY <1>3, <1>4, <1>5 DEF CollectInv

(* A poller moves without storing or writing, and stays out of the stages  *)
(* or on the event it is at.                                               *)
LEMMA OutsideCollect ==
  ASSUME CollectInv, CollectTypeOK', UNCHANGED <<clock, base, traded, received, tradedAt, receivedAt>>,
         \A f \in Feeds :
           /\ place'[f] \in {"insert"} \cup Stages => cur'[f] \in Traded
           /\ place'[f] \in Stages => place[f] \in Stages /\ cur'[f] = cur[f]
                                     /\ polledAt'[f] = polledAt[f]
           /\ place'[f] \in {"leader", "follower"} => place[f] \in {"leader", "follower"}
  PROVE  CollectInv'
<1>1. TradesHaveTimes' /\ StoredByItsPoll'
  BY DEF CollectInv, TradesHaveTimes, StoredByItsPoll, Traded, Stages
<1>2. RowsBelongToTrade'
  BY DEF CollectInv, RowsBelongToTrade, RowsExist, Pollers!Stored, Pollers!Events
<1> QED BY <1>1, <1>2 DEF CollectInv

(* What a step of poller f may do that neither stores nor writes markouts. *)
MovesOn(f, to, pg, ev) ==
  /\ place' = [place EXCEPT ![f] = to]
  /\ page' = [page EXCEPT ![f] = pg]
  /\ cur' = [cur EXCEPT ![f] = ev]
  /\ UNCHANGED <<clock, base, traded, received, times>>
  /\ stamp' = stamp \/ stamp' = [stamp EXCEPT ![f] = 0]

LEMMA MovesOnCollect ==
  ASSUME CollectInv, NEW f \in Feeds, NEW to, NEW pg \in SUBSET Traded, NEW ev, MovesOn(f, to, pg, ev),
         \/ to \in {"idle", "next"} /\ ev = NULL
         \/ to = "insert" /\ ev \in Traded
         \/ to \in {"actor", "cluster"} /\ place[f] \in Stages /\ ev = cur[f]
  PROVE  CollectInv'
<1>1. ev \in Traded \cup {NULL} /\ (to \in {"insert"} \cup Stages => ev \in Traded)
  BY DEF CollectInv, CollectTypeOK, TradesHaveTimes, Stages
<1>2. CollectTypeOK'
  BY <1>1 DEF CollectInv, CollectTypeOK, MovesOn, times, Stages, Traded
<1>3. \A g \in Feeds : IF g = f THEN place'[g] = to /\ cur'[g] = ev
                                ELSE place'[g] = place[g] /\ cur'[g] = cur[g]
  BY DEF CollectInv, CollectTypeOK, MovesOn
<1> QED BY <1>1, <1>2, <1>3, OutsideCollect DEF CollectInv, TradesHaveTimes, MovesOn, times, Stages

LEMMA BeginCollect == ASSUME CollectInv, NEW f \in Feeds, BeginPoll(f) PROVE CollectInv'
<1>1. /\ place[f] = "idle" /\ place' = [place EXCEPT ![f] = "polling"]
      /\ stamp' = [stamp EXCEPT ![f] = traded]
      /\ polledAt' = [polledAt EXCEPT ![f] = clock]
      /\ UNCHANGED <<clock, base, traded, page, cur, received, tradedAt, receivedAt>>
  BY DEF BeginPoll, engineVars, Pollers!BeginPoll, Pollers!Goto, Pollers!tables
<1>2. CollectTypeOK'
  BY <1>1 DEF CollectInv, CollectTypeOK, Traded
<1>3. \A g \in Feeds : IF g = f THEN place'[g] = "polling"
                                ELSE place'[g] = place[g] /\ polledAt'[g] = polledAt[g]
  BY <1>1 DEF CollectInv, CollectTypeOK
<1> QED BY <1>1, <1>2, <1>3, OutsideCollect DEF CollectInv, TradesHaveTimes, Stages

LEMMA OtherCollect == ASSUME CollectInv, NEW f \in Feeds, OtherPollStep(f) PROVE CollectInv'
<1>0. /\ cur \in [Feeds -> Traded \cup {NULL}] /\ page \in [Feeds -> SUBSET Traded]
      /\ place \in [Feeds -> {"idle", "polling", "next", "insert"} \cup Stages]
      /\ stamp \in [Feeds -> Int]
  BY DEF CollectInv, CollectTypeOK
<1>1. UNCHANGED <<clock, base, times>>
  BY DEF OtherPollStep, engineVars
<1>2. CASE Pollers!ReadPage(f)
  <2>1. Pollers!Page(f) \in SUBSET Traded
    BY DEF Pollers!Page, Pollers!Shown, Traded, Events, CollectInv, CollectTypeOK
  <2>2. MovesOn(f, "next", Pollers!Page(f), cur[f]) /\ place[f] = "polling"
    BY <1>0, <1>1, <1>2 DEF Pollers!ReadPage, Pollers!Goto, Pollers!tables, MovesOn
  <2>3. CollectTypeOK'
    BY <2>1, <2>2, <1>0 DEF MovesOn, CollectInv, CollectTypeOK, times, Traded
  <2>4. \A g \in Feeds : IF g = f THEN place'[g] = "next" ELSE place'[g] = place[g]
    BY <2>2, <1>0 DEF MovesOn
  <2> QED BY <1>0, <1>2, <2>2, <2>3, <2>4, OutsideCollect
          DEF MovesOn, times, Stages, CollectInv, TradesHaveTimes, Pollers!ReadPage
<1>3. CASE Pollers!EndPoll(f) \/ Pollers!InsertFails(f)
  <2>1. MovesOn(f, "idle", {}, NULL)
    BY <1>0, <1>1, <1>3 DEF Pollers!EndPoll, Pollers!InsertFails, Pollers!EndOfPoll, Pollers!Goto, Pollers!tables,
                      MovesOn
  <2> QED BY <2>1, MovesOnCollect
<1>4. CASE Pollers!Skip(f)
  <2>1. PICK e \in page[f] \cap seen : page' = [page EXCEPT ![f] = @ \ {e}]
    BY <1>4 DEF Pollers!Skip
  <2>2. UNCHANGED <<clock, base, traded, place, stamp, cur, received, times>>
    BY <1>1, <1>4 DEF Pollers!Skip, Pollers!tables
  <2>3. CollectTypeOK'
    BY <1>0, <2>1, <2>2 DEF CollectInv, CollectTypeOK, times, Traded
  <2> QED BY <2>2, <2>3, OutsideCollect DEF times, CollectInv, TradesHaveTimes, Stages
<1>5. CASE Pollers!MarkSeen(f)
  <2>1. PICK e \in page[f] \ seen : cur' = [cur EXCEPT ![f] = e] /\ page' = [page EXCEPT ![f] = @ \ {e}]
    BY <1>5 DEF Pollers!MarkSeen
  <2>2. e \in Traded /\ page[f] \ {e} \in SUBSET Traded
    BY <1>0, <2>1
  <2>3. MovesOn(f, "insert", page[f] \ {e}, e)
    BY <1>1, <1>5, <2>1 DEF Pollers!MarkSeen, Pollers!Goto, Pollers!tables, MovesOn
  <2> QED BY <2>2, <2>3, MovesOnCollect
<1>6. CASE Pollers!UpsertActor(f)
  <2>1. MovesOn(f, "cluster", page[f], cur[f]) /\ place[f] \in Stages
    BY <1>0, <1>1, <1>6 DEF Pollers!UpsertActor, Pollers!Goto, MovesOn, Stages
  <2>2. page[f] \in SUBSET Traded
    BY <1>0
  <2> QED BY <2>1, <2>2, MovesOnCollect
<1>7. CASE Pollers!ClusterOnEvent(f)
  <2>1. MovesOn(f, "next", page[f], NULL)
    BY <1>0, <1>1, <1>7 DEF Pollers!ClusterOnEvent, Pollers!NextEvent, Pollers!Goto, MovesOn
  <2>2. page[f] \in SUBSET Traded
    BY <1>0
  <2> QED BY <2>1, <2>2, MovesOnCollect
<1> QED BY <1>2, <1>3, <1>4, <1>5, <1>6, <1>7 DEF OtherPollStep

(* The insert that finds no row stores the time of its own poll.           *)
LEMMA InsertCollect == ASSUME CollectInv, NEW f \in Feeds, InsertEvent(f) PROVE CollectInv'
<1> DEFINE e == cur[f]
<1>0. /\ cur \in [Feeds -> Traded \cup {NULL}] /\ page \in [Feeds -> SUBSET Traded]
      /\ place \in [Feeds -> {"idle", "polling", "next", "insert"} \cup Stages]
      /\ received \in [Events -> Int \cup {NULL}] /\ receivedAt \in [Events -> Int \cup {NULL}]
      /\ stamp[f] \in Int /\ polledAt[f] \in Int
      /\ Traded \subseteq Events
  BY TradedSubset DEF CollectInv, CollectTypeOK
<1>1. e \in Traded /\ place[f] = "insert"
  BY DEF InsertEvent, Pollers!InsertEvent, CollectInv, TradesHaveTimes
<1>2. /\ UNCHANGED <<clock, base, traded, page, stamp, tradedAt, polledAt>>
      /\ received' = [received EXCEPT ![e] = IF @ = NULL THEN stamp[f] ELSE @]
      /\ receivedAt' = [receivedAt EXCEPT ![e] = IF @ = NULL THEN polledAt[f] ELSE @]
  BY DEF InsertEvent, Pollers!InsertEvent, Pollers!NextEvent, engineVars
<1>3. CASE received[e] # NULL
  <2>1. receivedAt[e] # NULL
    BY <1>0, <1>1, <1>3 DEF CollectInv, StoredByItsPoll
  <2>2. UNCHANGED <<received, receivedAt>>
    BY <1>0, <1>1, <1>2, <1>3, <2>1
  <2>3. MovesOn(f, "next", page[f], NULL)
    BY <1>0, <1>2, <1>3, <2>2
       DEF InsertEvent, Pollers!InsertEvent, Pollers!IsNew, Pollers!NextEvent, Pollers!Goto, MovesOn, times
  <2> QED BY <1>0, <2>3, MovesOnCollect
<1>4. CASE received[e] = NULL
  <2>1. /\ receivedAt[e] = NULL
        /\ received' = [received EXCEPT ![e] = stamp[f]]
        /\ receivedAt' = [receivedAt EXCEPT ![e] = polledAt[f]]
        /\ UNCHANGED cur
        /\ place' = [place EXCEPT ![f] = IF e \in Priced THEN "leader" ELSE "actor"]
    BY <1>0, <1>1, <1>2, <1>4 DEF CollectInv, StoredByItsPoll, InsertEvent, Pollers!InsertEvent,
                                Pollers!IsNew, Pollers!Goto
  <2>2. CollectTypeOK'
    BY <1>0, <1>1, <1>2, <2>1 DEF CollectInv, CollectTypeOK, Stages, Traded
  <2>3. TradesHaveTimes'
    BY <1>0, <1>1, <1>2, <2>1 DEF CollectInv, TradesHaveTimes, Stages, Traded
  <2>4. \A g \in Feeds \ {f} : /\ place'[g] = place[g]
                              /\ place[g] \in Stages => cur[g] # e /\ cur[g] \in Events
    BY <1>0, <2>1 DEF CollectInv, StoredByItsPoll, CollectTypeOK, TradesHaveTimes
  <2>5. StoredByItsPoll'
    BY <1>0, <1>1, <1>2, <2>1, <2>4 DEF CollectInv, StoredByItsPoll, Stages
  <2>6. RowsBelongToTrade'
    BY <1>0, <1>1, <1>2, <1>4, <2>1
       DEF CollectInv, RowsBelongToTrade, RowsExist, Pollers!Stored, Pollers!Events, Events
  <2> QED BY <2>2, <2>3, <2>5, <2>6 DEF CollectInv
<1> QED BY <1>3, <1>4

(* A restart interrupts every poller.                                      *)
LEMMA RestartCollect == ASSUME CollectInv, Restart PROVE CollectInv'
<1>1. /\ UNCHANGED <<clock, base, traded, received, times>>
      /\ place' = [f \in Feeds |-> "idle"] /\ page' = [f \in Feeds |-> {}]
      /\ cur' = [f \in Feeds |-> NULL] /\ stamp' = [f \in Feeds |-> 0]
  BY DEF Restart, Engine!Restart, Engine!store, Pollers!Restart, Pollers!tables
<1>2. CollectTypeOK'
  BY <1>1 DEF CollectInv, CollectTypeOK, times, Traded
<1> QED BY <1>1, <1>2, OutsideCollect DEF times, Stages

(* The rows of a kind are reserved from the poller's event, or exist, or   *)
(* the write fails.                                                        *)
LEMMA StageCollect ==
  ASSUME CollectInv, NEW f \in Feeds, LeaderMarkouts(f) \/ FollowerMarkouts(f) PROVE CollectInv'
<1> DEFINE e == cur[f]
<1>0. /\ cur \in [Feeds -> Traded \cup {NULL}] /\ e \in Traded /\ e \in Events /\ e \in Priced
      /\ received[e] # NULL /\ receivedAt[e] = polledAt[f] /\ tradedAt[e] \in Int /\ polledAt[f] \in Int
      /\ place \in [Feeds -> {"idle", "polling", "next", "insert"} \cup Stages]
  <2>1. place[f] \in {"leader", "follower"}
    BY DEF LeaderMarkouts, FollowerMarkouts
  <2>2. e \in Traded /\ e \in Events /\ e \in Priced /\ receivedAt[e] = polledAt[f]
    BY <2>1, TradedSubset DEF CollectInv, TradesHaveTimes, StoredByItsPoll, Stages
  <2> QED BY <2>1, <2>2 DEF CollectInv, CollectTypeOK, TradesHaveTimes, StoredByItsPoll
<1>1. /\ place' = [place EXCEPT ![f] = IF place[f] = "leader" THEN "follower" ELSE "actor"]
      /\ place[f] \in {"leader", "follower"}
      /\ UNCHANGED <<traded, page, cur, stamp, received, times>>
  BY DEF LeaderMarkouts, FollowerMarkouts, Pollers!LeaderMarkouts, Pollers!FollowerMarkouts,
         Pollers!Goto
<1>2. clock' = clock
  BY DEF LeaderMarkouts, FollowerMarkouts, Reserve, Engine!CreateMarkouts, engineVars
<1>3. \/ base' = base
      \/ base' = [base EXCEPT ![<<e, "leader">>] = tradedAt[e]]
      \/ base' = [base EXCEPT ![<<e, "follower">>] = polledAt[f]]
  BY DEF LeaderMarkouts, FollowerMarkouts, Reserve, FollowerBase, Engine!CreateMarkouts, engineVars
<1>4. base \in [Events \X Engine!Kinds -> Int \cup {NULL}]
  BY DEF CollectInv, CollectTypeOK
<1>5. CollectTypeOK'
  BY <1>0, <1>1, <1>2, <1>3, <1>4 DEF CollectInv, CollectTypeOK, times, Stages, Traded
<1>6. TradesHaveTimes' /\ StoredByItsPoll'
  BY <1>0, <1>1 DEF CollectInv, TradesHaveTimes, StoredByItsPoll, times, Stages, Traded
<1>7. RowsBelongToTrade'
  <2>1. ASSUME NEW d \in Events, NEW k \in {"leader", "follower"}
        PROVE  \/ base'[<<d, k>>] = base[<<d, k>>]
               \/ /\ d = e
                  /\ base'[<<d, k>>] = IF k = "leader" THEN tradedAt[e] ELSE polledAt[f]
    BY <1>0, <1>3, <1>4 DEF Engine!Kinds
  <2>2. \A d \in Events : d \in Pollers!Stored' <=> d \in Pollers!Stored
    BY <1>1 DEF Pollers!Stored
  <2>3. e \in Pollers!Stored
    BY <1>0 DEF Pollers!Stored, Pollers!Events, Events
  <2>4. \A d \in Events, k \in {"leader", "follower"} :
          d \in RowsExist(k)' => d \in RowsExist(k) \/ d = e
    BY <2>1 DEF RowsExist
  <2>5. UNCHANGED times
    BY <1>1
  <2>6. ASSUME NEW d \in Events, NEW k \in {"leader", "follower"}, d \in RowsExist(k)'
        PROVE  /\ d \in Pollers!Stored /\ d \in Priced
               /\ base'[<<d, k>>] = IF k = "leader" THEN tradedAt[d] ELSE receivedAt[d]
    BY <1>0, <2>1, <2>3, <2>4, <2>6 DEF CollectInv, RowsBelongToTrade, RowsExist
  <2> QED BY <2>2, <2>5, <2>6 DEF RowsBelongToTrade, times
<1> QED BY <1>5, <1>6, <1>7 DEF CollectInv

LEMMA StepCollect == CollectInv /\ [Next]_collectVars => CollectInv'
<1> SUFFICES ASSUME CollectInv, [Next]_collectVars PROVE CollectInv'
  OBVIOUS
<1>1. CASE Tick
  BY <1>1, EngineCollect
     DEF Tick, Engine!Tick, Engine!store, feedVars, feedState, CollectInv, CollectTypeOK
<1>2. CASE EngineStep
  BY <1>2, EngineKeepsRows, EngineCollect DEF EngineStep, feedVars, feedState, CollectInv, CollectTypeOK
<1>3. CASE Expire
  BY <1>3, EngineCollect DEF Expire, Pollers!Expire, Pollers!poller, Pollers!tables, engineVars,
                             feedState, CollectInv, CollectTypeOK
<1>4. CASE Trade \/ Restart
  BY <1>4, TradeCollect, RestartCollect
<1>5. CASE \E f \in Feeds : PollStep(f)
  BY <1>5, BeginCollect, InsertCollect, StageCollect, OtherCollect DEF PollStep
<1>6. CASE UNCHANGED collectVars
  BY <1>6, EngineCollect DEF collectVars, feedVars, engineVars, feedState, CollectInv, CollectTypeOK
<1> QED BY <1>1, <1>2, <1>3, <1>4, <1>5, <1>6 DEF Next

THEOREM CollectInvariant == Spec => []CollectInv
BY InitCollect, StepCollect, PTL DEF Spec

(* A follower row starts when its event was received and a leader row when *)
(* it was traded, however many feeds work on the event at the same time.   *)
THEOREM RowsTimedByTheirTrade == Spec => []RowsBelongToTrade
<1>1. CollectInv => RowsBelongToTrade
  BY DEF CollectInv
<1> QED BY <1>1, CollectInvariant, PTL

-----------------------------------------------------------------------------
(* The engine's part of every step is a step of the engine.                *)
LEMMA ReserveRefines ==
  ASSUME CollectInv, NEW e \in Events, NEW k \in Engine!Kinds, NEW b \in Int, Reserve(e, k, b)
  PROVE  Engine!Create \/ UNCHANGED Engine!vars
<1>1. CASE base[<<e, k>>] = NULL
  <2>1. Engine!CreateMarkouts(e, k, b)
    BY <1>1 DEF Reserve
  <2>2. clock \in Int /\ Start <= clock /\ clock <= MaxTime /\ clock - MaxTime <= b /\ b <= clock
    BY <2>1 DEF Engine!CreateMarkouts, CollectInv, CollectTypeOK
  <2>3. b \in Engine!Instants
    BY <2>2 DEF Engine!Instants
  <2> QED BY <2>1, <2>3 DEF Engine!Create
<1>2. CASE base[<<e, k>>] # NULL
  BY <1>2 DEF Reserve, engineVars, Engine!vars, Engine!store, Engine!memory, Engine!pass
<1> QED BY <1>1, <1>2

LEMMA StepRefines == CollectInv /\ [Next]_collectVars => [Engine!Next]_Engine!vars
<1> SUFFICES ASSUME CollectInv, [Next]_collectVars PROVE [Engine!Next]_Engine!vars
  OBVIOUS
<1>1. CASE UNCHANGED engineVars
  BY <1>1 DEF engineVars, Engine!vars, Engine!store, Engine!memory, Engine!pass
<1>2. CASE Tick \/ EngineStep \/ Restart
  BY <1>2 DEF Tick, EngineStep, Restart, Engine!Next
<1>3. CASE Trade \/ Expire
  BY <1>1, <1>3 DEF Trade, Expire
<1>4. ASSUME NEW f \in Feeds, PollStep(f) PROVE [Engine!Next]_Engine!vars
  <2>1. CASE BeginPoll(f) \/ InsertEvent(f) \/ OtherPollStep(f)
    BY <1>1, <2>1 DEF BeginPoll, InsertEvent, OtherPollStep
  <2>2. place[f] \in {"leader", "follower"} =>
          cur[f] \in Events /\ tradedAt[cur[f]] \in Int /\ polledAt[f] \in Int
    BY TradedSubset DEF CollectInv, CollectTypeOK, TradesHaveTimes, Stages
  <2>3. CASE LeaderMarkouts(f)
    BY <1>1, <2>2, <2>3, ReserveRefines DEF LeaderMarkouts, Engine!Kinds, Engine!Next
  <2>4. CASE FollowerMarkouts(f)
    BY <1>1, <2>2, <2>4, ReserveRefines
       DEF FollowerMarkouts, FollowerBase, Engine!Kinds, Engine!Next
  <2> QED BY <1>4, <2>1, <2>3, <2>4 DEF PollStep
<1>5. CASE UNCHANGED collectVars
  BY <1>1, <1>5 DEF collectVars
<1> QED BY <1>2, <1>3, <1>4, <1>5 DEF Next

(* The engine beside the pollers behaves as module MarkoutEngine says.     *)
THEOREM EngineRunsInProgram == Spec => ImplementsEngine
<1>1. Init => Engine!Init
  BY DEF Init
<1> QED BY <1>1, CollectInvariant, StepRefines, PTL DEF Spec, ImplementsEngine, Engine!Spec
=============================================================================
