# A verification project for followedge

followedge polls two GMGN feeds (smart money and KOL trades) under one request
budget, stores each trade once, samples what the token's price was when the
trade became known and at fixed horizons after it, and reports from those rows
whether following a wallet would have paid.  What it promises is statistical
honesty: no look-ahead, no trade counted twice, nothing missing counted as a
result.  Most of that is decided by orders of events a unit test does not
arrange: two pollers and a sampler between each other's statements, restarts,
429s, empty klines, several processes on one SQLite file.  These modules state
those promises, TLC checks them on small instances, and TLAPS proves the main
ones for every value of the constants.

Paths are relative to the repository's `internal/` unless they begin with
`cmd/`, `docs/` or `scripts/`.

## 1. Inventory

| Component | Code | State | Operations | Hard behaviour |
|---|---|---|---|---|
| Collector, dedup, pipeline | `collector/collector.go`, `collector/dedup.go`, `storage/sqlite.go` (InsertEvent), `cmd/followedge/main.go` | seen-map (memory, TTL), `trade_events`, leader and follower markouts, `actors`, cluster samples | PollOnce, Seen, InsertEvent, `onEvent` (4 stages) | two pollers race on one event; a mark in memory before the write; four writes without a transaction; restarts |
| Rate limiter and its callers | `collector/limiter.go`, `collector/collector.go` (Run), `source/gmgn/client.go` | tokens, `cooldownUntil`; each poller's backoff | Take, MarkCooldown, Run, kline requests | waiting without a queue; 429 between the grant and the request; resets out of order |
| Markout engine and rows | `markout/engine.go`, `storage/markouts.go` | `markouts` rows; in memory `skipUntil`, `emptyStreak` | CreateMarkouts, SampleDue, SetFollowerEntry, FillMarkout, MarkStatus | a pass works on rows it listed many requests ago; final verdicts race the feed; restarts; starvation |
| Cluster engine | `cluster/engine.go`, `storage/clusters.go`, `analyze/clusters.go` | `cluster_samples` | OnEvent, MaxSmart report | two calls on one token; trades out of order; partial failure |
| Episode reconstruction | `storage/episodes.go` | position book, current episode, entries, evidence; `position_episodes` | reconstructBehavior, RebuildEpisodes, EpisodeStats | tolerance relative to the peak; evidence set retroactively; state that outlives a wallet; a history cut in the midst of a position |
| Mechanism profile | `mechanism/profile.go`, `mechanism/feature.go`, `analyze/behavior.go`, `storage/behavior.go` | none | BuildProfile, cohort filters | three filters must select the same wallets' episodes, entries, rows |
| Ranking and matrix | `analyze/actors.go`, `analyze/matrix.go`, `analyze/funnel.go`, `mechanism/matrix.go` | the slice of the frontier | rankActors, paretoFrontier, splitCells, patterns, gates, hypotheses, funnel | filtering a slice in place; a band derived from the subset it is applied to; missing is not unmet |
| Schema migrations | `storage/sqlite.go`, `storage/migrations/*.sql` | schema, `schema_version` | Open, Close, migrate, inferLegacyVersion | several processes, crashes, queries that fail, a migration that succeeds twice and undoes its successors |
| Reports | `analyze/coverage.go`, `analyze/latencyev.go`, `analyze/research.go`, `analyze/stats.go` | none | counts and bootstrap statistics | three censuses of one table, three rules |
| GMGN client | `source/gmgn/*` | none | requests, JSON normalisation | 429 reset times, unparseable numbers |
| Daily script | `scripts/matrix-daily.sh` | the report and its dated copies; the repository's index, commits and remote | the three windows, sync_report | an agent stages files in the same index; commands that fail: some caught, some under `set -e`, some unseen in an `if` |
| Command line, config, domain | `cmd/`, `config/`, `domain/` | none of their own | wiring, flags, printing | three goroutines and the stages of the pipeline |

How they interact.  `collect` starts one goroutine per feed and one for the
markout engine.  The three share one RateLimiter (a mutex, held for a step and
never over a sleep) and one SQLite database (one writer at a time).  A poller
calls the pipeline synchronously for each new event, and the pipeline calls
the cluster engine.  The pipeline and the markout engine meet in `markouts`
rows only.  `analyze` commands are other processes that open the same file,
migrate it, and read it while the collector may be writing.  Everything in
memory (dedup, gate, backoffs) is lost in a restart; everything else is rows.
Once a day a script runs the matrix and commits its report to the repository
it lies in.

What makes each of them correct:

- intake: an event is counted for its actor at most once; what the feed shows
  gets stored; only a failed or interrupted write may be missing afterwards;
- limiter: the budget holds in every window of time; the gate covers every
  reset announced; after a 429 each caller sends at most the request it had
  been granted; everybody is served;
- markouts: prices are those the market had printed (entry) or printed first
  (outcome), verdicts are final and justified, every due row is classified,
  printed prices are found, reports agree on the classes;
- clusters: convergence of two wallets is seen whatever the interleaving;
- episodes: every trade belongs to one episode, the status is the ledger's, and
  an entry's evidence is its episode's;
- reports: cells, frontier and funnel agree with their definitions;
- the whole program: rows are timed by the copy of the trade that is stored, and
  what the market printed for a trade that was shown ends up in its rows;
- daily report: its verdict is about single windows and evaluated ones, and
  what a silent run reports has been committed;
- migrations: a process that has opened the file sees the full schema, and the
  version row tells how far the schema has come; what one process relies on no
  other takes away.

`PROJECT.json` lists the hazards at their lines, each with the properties that
would catch it or a note saying why none does.

## 2. Modules

Four layers, one family of modules each.  A component's module has one action
per handler step; a step ends where another goroutine or process can get
between (a statement of the database, a request, a lock released).

| Module | Models | How its state corresponds to the code's |
|---|---|---|
| `MarkoutLedger` | the promise of a markouts row | Abstract specification: rows are reserved with a base time and resolved once, only when due. |
| `MarkoutEngine` | `markout/engine.go`, `storage/markouts.go` | `base status entry outcome` are the columns of a row (the database); `skipUntil emptyStreak` the engine's maps; `pc now batch token targets from candles garbage row` a pass at work.  `Tick`, `Create` and `Restart` may come between any two of its steps. |
| `MarkoutProperties` | (properties) | What the engine must do, and the refinement `Ledger == INSTANCE MarkoutLedger`, in which retryable statuses map to an open row and terminal ones to an unpriced row. |
| `MarkoutCensus` | the three censuses of follower rows | Sets of rows in place of counts. |
| `RateGate` | limiter, `Collector.Run`, the kline worker, 429s | `tokens gate` are the limiter's fields (`gate` is what is left of `cooldownUntil`); per caller its place, timer, backoff.  `spent elapsed told` are history. |
| `Intake` | collector, dedup, `InsertEvent`, the pipeline | `seen` is the dedup map; `received`, the markout rows, `counted` and the cluster calls are rows; per feed the poller's place, its page and the event in hand. |
| `Collection` | `cmdCollect`: pollers and engine in one process | Composition of `Intake` and `MarkoutEngine`: the pipeline's two markout stages are the engine's CreateMarkouts, and what `Intake` keeps as sets of events with rows is read off the engine's table. A restart hits both. `tradedAt polledAt receivedAt` put their two notions of time together. |
| `ClusterWindows` | cluster engine and its report | `samples` are rows of `cluster_samples`, each with the set of events it counts; `call` is a poller inside OnEvent. |
| `EpisodeWalker` | `positionBook`, `reconstructBehavior` | `rows` is the query's result, read one by one; `walk` the function's locals and output. |
| `EpisodeTable` | `RebuildEpisodes`, `EpisodeStats` | The walker run over the rows since a time (`WalkSince`, a recursive function), and the columns of the table. |
| `MechanismProfile` | `BuildProfile`, cohorts | Pure operators over every history the walker can produce: a median or a ratio is the set of observations it is taken over. |
| `ActorRanking` | `rankActors`, `attachReplication`, the sort orders, the frontier | `list` is the slice of pointers, `kept` the length of `out`, which shares its array. |
| `MechanismMatrix` | cells, patterns, gates, hypotheses, contrasts, funnel | Pure operators over the wallets of `ActorRanking`; a feature is a number or `Missing`. |
| `Migrations` | `Open`, `migrate`, `inferLegacyVersion` | `applied tables paired versions` are the file, shared by all processes: the columns and data that migrations left, their tables, whether `markouts` has rows of both kinds for an event, the version rows; `pc cur seen asked` are a process in Open. `found met misread undone` are history: the schema the file was found with, whether two Opens met, a query of one failed, the rebuild of `markouts` took something back. |
| `DailySnapshot` | `matrix-daily.sh` and the agent beside it | `report dated` are files, `index head remote` what git has of them, `staged` the agent's files in the index; `late committed blind` are history. A step is a command of the script. |
| `*Proof` | theorems | One per component that is proved about: Markout, RateGate, Intake, Collection, Cluster, Episode (walker, profile and truncated table), Migration, Report (ranking, matrix and daily script). |
| `MC*` | instances | Values of the constants; nothing of the system is defined there. |

Composition: `MarkoutCensus` reads the tables while the engine works,
`Collection` runs `Intake` and `MarkoutEngine` side by side, `MechanismProfile`
extends `EpisodeWalker` and `EpisodeTable` extends that, `MechanismMatrix`
extends `ActorRanking`.  Where a module leaves its neighbour out it lets it do
more than it can: in `Intake` and `MarkoutEngine` a request may be delayed for
as long as one likes (the limiter), in `MarkoutEngine` any event is created at
any time (the pollers).  That this is more and not less is what
`Collection!ImplementsEngine` says of the engine: every behaviour of the
program is one of `MarkoutEngine`, with the bounds on creation lifted, so that
the engine's theorems hold in the program.

Some definitions carry a variant beside them, named for what it does
(`ResetKeepsPeak`, `PendingOneMore`): the mistake a maintainer could make
there.  No specification uses one; with it in place of the definition it
stands above, a property fails.  `PROJECT.json` pairs those that the passing
runs use with their properties, under "mutants".

### Abstractions

- A price is the instant it represents, a candle its open time; `market[t]` is
  the set of candles a token ever prints, any subset of `Slots`.  What a price
  *is* never decides control, only whether there is one and when it was true.
- Klines: the reply is any set of candles the window covers, all those closed for
  `FeedLag` and possibly some younger ones (external).
- Time is an integer.  In `RateGate` a tick is a second; in `MarkoutEngine` one
  candle is two ticks, so that base times fall on and off the grid.
- `RateGate` refills at every tick and not lazily in Take: capped early or
  late, the bucket holds the same.
- Token amounts are integers, and the tolerance of 1e-9 of the peak is
  `peak \div Ratio` with a small ratio, so that residues below it do occur.
- A faulty write is one that is logged and ignored, as the code does.
- A transaction is one step: SQLite serialises them.
- `return_pct` is left out: a row has it exactly if the entry was there when the
  outcome was written (`storage/markouts.go:152`), and the censuses compare
  prices and not this column.  A lost entry write that a later horizon of the
  event makes up for gives the filled row its entry back and not its return.
- `MarkStatus` marks the rows of a token in one step, the code one after the
  other (`markout/engine.go:279-285`).  No statement about rows is about two of
  them at once but `LostWriteCostsOneRow`, which counts filled rows; a crash in
  between leaves rows unmarked, as one before it does, and a later pass lists
  them again.
- A migration is the columns or data it leaves (`applied`) and the tables it
  creates (`tables`).  All but the third fail on a database that has what they
  create; 007 and 009 fail only where a column they use is not there.  003
  (create, copy, drop, rename) runs again, unless an event has rows of both
  kinds, and drops the columns of 004, 006 and 008 with what 007 and 009 wrote
  there; the tables that 005 and 006 created stay.
- Wallet figures of reports are taken from a set of candidates; floating-point
  arithmetic is left out.  `ConservativeEV` (an ASSUME of `ActorRanking`) is
  the identity `attachReplication` computes; `FeaturesNeedEpisodes` (an ASSUME
  of `MechanismMatrix`) is what `SamplesMatchEvidence` says of the profile.
- In `DailySnapshot` a window's figures are the set of gates they clear, and the
  look at the index fails when the agent has staged more paths than `grep`
  hands on in one write: `grep -q` leaves at the first, `grep -v` dies of
  SIGPIPE, and `pipefail` makes a no of it.  A git command that fails inside the
  condition of an `if` (`DiffFails`, `StatusFails`) is a no to it as well and
  ends nothing; any other failure is caught (commit, push) or ends the script.

## 3. Runs

Each answers one question.  `CHECK_DEADLOCK FALSE` stands where the bounded
system really stops: the clock or the trades run out, the rows are walked, all
processes have opened the file.

| Run | Question | Properties | Bounds, and why they are enough |
|---|---|---|---|
| MCPricing | Does a pass ever store a price or a verdict the market does not bear out, and do the reports agree at every instant? | `EntryIsLastKnownClose`, `OutcomeIsFirstClose`, `VerdictIsJustified`, `CensusesAgree`, `LostWriteCostsOneRow`, `ImplementsLedger` | One event, two kinds, horizons 2 and 4 with candles of 2 (windows that do and do not reach back to the entry), every market on five slots, any one of six faults, a lost write among them.  Rows of one token only meet in `targets`, and one event has four.  The theorems lift the bounds. |
| MCSchedule | Are followers starved? | `FollowerPendingFirst`, `FollowerEventuallyClassified` | Two tokens and a budget of one, a page of 3 of 4 rows: both limits bind. |
| MCGate | Is the budget kept, are 429s obeyed, is everybody served? | `BudgetKept`, `GateCoversResets`, `AtMostOneLateRequest`, `EveryCallerServed` | The configured burst 6, rate 3 and costs 1 and 2; two rejections, so two resets can come out of order; restarts at any time.  Windows of one tick: the bucket may be full at the start of any.  Any window in the proof. |
| MCIntake | What can be lost or doubled between feed and rows? | `CountedAtMostOnce`, `ShownIsStored`, `OnlyFailedWritesAreMissing` | Two feeds that both carry event 2, one of the events without a price; one fault of any kind at any step. |
| MCCollection | Do pollers and engine, in one process, keep what each promises, and does a trade get its prices? | `ImplementsEngine`, `ShownPriceIsFilled` | One feed, one trade, one horizon, every market on two slots; one fault on either side (failed insert, restart; failed request, restart).  Two feeds are too many states for the liveness property; the theorem has `ImplementsEngine` for any number. |
| MCFeeds | Which copy of a trade times its rows when both feeds carry it? | `RowsBelongToTrade` | Two feeds, alike and so interchangeable, that show one trade, each poll with a `received_at` of its own; failed inserts and row writes and restarts, one on either side.  Two pollers are what it takes to mix up two copies; the theorem has any number. |
| MCCluster | Does a convergence show whatever the interleaving? | `ConvergenceIsCounted`, `ReportGrowsWithWindow` | Three events on one token by two wallets, one on another; windows of 1 and 3 seconds with trades 1, 2 and 3 seconds apart; one fault. |
| MCEpisodes | Are episodes, evidence, the card and the truncated table consistent, for every history? | `EveryTradeInOneEpisode`, `StatusIsLedger`, `EvidenceAgrees`, `ResearchHasNoGap`, `OneCohort`, `SamplesMatchEvidence`, `TruncationOnlyCuts` | Every sequence of up to five trades of 1 or 8 tokens over two tokens with ratio 4, and every time to cut it at: open, add, partial sell, close by residue, oversell, re-entry and both evidence changes all fit in four trades of one token. |
| MCActors | Do leaderboard, frontier, cells, gates and funnel mean what they say? | `FrontierIsPareto`, `EveryCellMatchesA`, `FunnelAgrees`, `SupportIsHonest` | Up to three of ten wallets that fall on either side of every gate: three is what it takes for an overwritten actor to matter (dominator, dominated, and one kept before). |
| MCMigrate | What can processes, failures and crashes do to a database? | `OpenedIsUpToDate`, `VersionNeverAhead`, `RebuildTakesNothingBack`, `VersionKeepsUp`, `OpensEventually` | Two processes that open, write rows and close again and again, two failures of any kind, every age of database, with rows of both kinds or without.  The first two hold until the rebuild takes something back, the third says when it may: two Opens that met in a database older than it, or a query that failed.  The last two are about behaviours in which the Opens did not meet. |
| MCMigrateRace | Does each migration run exactly once? (finding) | `VersionCoversSchema`, violated | Two processes, a dated database, no fault. |
| MCDaily | Does a report say what was measured, and does it get where it says? | `ReachedIsEarned`, `SuccessIsEvaluated`, `CleanSyncPublishes`, `DragsOnlyLateFiles` | Two days, two runs (a later one meets what an earlier one left), two windows, two gates, two files of the agent, two failures of any kind, those that an `if` swallows among them. |

`RowsBelongToTrade`, `CensusesAgree` and the refinements are stated of every
reachable state; the type invariants (`TypeOK`, `GateTypeOK`, `IntakeTypeOK`,
`ClusterTypeOK`, `WalkerTypeOK`, `MigTypeOK`) are not run, for the proofs
establish them.

### Fairness

- `MarkoutEngine!FairSpec`: weak fairness of the clock and of the engine's step.
  `Engine.Run` calls SampleDue at every tick of its ticker for as long as the
  process lives, and requests have a timeout.  No fairness of Create, Restart
  or the choice among answers.
- `RateGate!FairSpec`: a goroutine that can run gets the CPU within a second
  (`PromptNext`: time passes only when nobody is runnable), and a request is
  answered (the client's timeout is 10 s).  Without the first a caller could
  find the bucket drained for ever by others, which the code (no queue) does
  not exclude either.  MCGate checks the safety properties under it too; the
  theorems prove them of `Spec`, where callers may be arbitrarily late.
- `Intake!FairSpec`: every poller keeps polling, and a seen mark expires.
- `Collection!FairSpec`: the goroutines that `cmdCollect` starts go on, each by
  itself, the clock runs and a seen mark expires.  Nothing is assumed of trades,
  restarts or answers; `ShownPriceIsFilled` supposes that the trade stays on a
  page, without which no poller could see it again after a failed insert.
- `Migrations!FairSpec`: a process goes on with Open, and someone starts it
  again after a failure.  Faults are bounded, so it succeeds in the end, unless
  another Open came between: then `OpensEventually` does not hold, as
  MCMigrateRace shows.
- `DailySnapshot` has none: nothing in the script waits.

## 4. Proofs

| Module | Theorem | From | Argument |
|---|---|---|---|
| `MarkoutProof` | `TypeSafe` (`TypeOK`) | `ConstantsOK` | `TypeOK` alone is not inductive: a pass works on rows it listed, so `TypeInv` adds that rows with a status have a base time (`Reserved`), that every listed row is one of these (`ListedAreReserved`), and what each place of the pass holds (`PassShape`). |
| | `EntryCorrect`, `OutcomeCorrect`, `VerdictCorrect` | and `GraceCoversFeed` | `PricingInv` ties three things to the price history: the rows stored, the rows listed (due at `now` with the grace passed), and the candles in hand (no other than the market's, and all the market's that the window covers and the feed must serve). `GraceCoversFeed == Grace >= Res + FeedLag` is what makes a verdict final: once a row is listed, every candle that could price it has closed and is served. `configs/observe.yaml` sets both to 30 s, so with the shipped values it holds of a feed that serves a candle the instant it closes and of no other; a lag needs a grace above 30 s. MCNoCandle shows what happens without it. |
| | `EngineImplementsLedger` | the same | Every step maps to a step of the ledger or a stutter; a write of a listed row is of a row still open, although the listing is old. |
| | `ReportsAgree` (`CensusesAgree`), `FilledRowsArePriced` | `ConstantsOK` | A row is filled exactly when its outcome is stored (`FilledIffPriced`), whatever write is lost; then every status falls in one class of each report, and only a filled row without an entry in different ones, which is why those are excepted. |
| | `OneRowPerLostWrite` (`LostWriteCostsOneRow`) | and `NullIsNoRow` | `CostInv`: leaders are priced with their event, so only the rows of followers can lose their entry; those filled without one, together with the row at hand when its entry is missing (`Owed`), are at most the faults so far. `NullIsNoRow` says that the mark of no row is none. |
| | `PendingFollowersFirst` (`FollowerPendingFirst`) | `ConstantsOK` | The token taken next is that of a row no other of the page comes `Before`; if a follower's pending row waits, that row is one too, and it is among the targets. |
| `RateGateProof` | `BudgetIsKept`, `ResetsAreCovered`, `LateRequestsBounded` | `ASSUME` of the module | `GateInv` adds to the types that what was spent and what is in the bucket are together at most the burst and the refills (`BudgetInv`), and that a caller whose request was late is behind a shut gate and holds no grant (`LateInv`). Any callers, weights, budget, window and resets. |
| `IntakeProof` | `EventsCountedAtMostOnce` | `ASSUME` | Counting at most once is not inductive by itself: only events that are stored are in the pipeline (`StagesHoldStored`), each with one poller (`OnePipelinePerEvent`), and not counted before the actor stage is over (`CountedLast`). Any feeds, events, faults, restarts. |
| `CollectionProof` | `RowsTimedByTheirTrade` (`RowsBelongToTrade`), `EngineRunsInProgram` (`ImplementsEngine`) | `ASSUME` | `CollectInv`: an event in a pipeline is stored, is in one pipeline only, and its `receivedAt` is the `polledAt` of the poller that has it in hand; so the rows that poller creates carry the stored copy's time although another feed works on the same event. The steps of the composition map one by one to steps of the engine; a stage that finds its rows there is a stutter. |
| `EpisodeProof` | `TradesBelongToEpisodes`, `EvidenceIsTheEpisodes`, `OneOpeningHolds`, `ReentryNeedsOneWallet`, `PnlIsCountedOnce`, `CohortHolds`, `SamplesAreTheEvidence`, `WalkerIsTyped` | `ASSUME` of the walker; `ReentryNeedsOneWallet` also supposes that one wallet has one group per token, as where one wallet is walked | `WalkInv`: the finished episodes and the one at hand cut the rows read so far into runs (`MadeOf`: from its opening to its last leg an episode is made of exactly those rows), entries of the episode at hand have not got their evidence yet and those of the others have their episode's. Any number of groups, any rows in any order. The properties of the card follow from the walker's: its filters select by the opening of the episode, which an entry shares. |
| | `LedgerHolds`, `StatusIsTheLedger` (`StatusIsLedger`), `ResearchIsWhole` (`ResearchHasNoGap`) | the same | `LedgerInv`: between two rows the position book is what the legs of the episode at hand add up to (`BookIs`), it held more than the tolerance at each of them (`Holds`), and an episode that claims to begin at zero follows one that was closed (`Backed`). The sums are a recursive function (`Held`); `SumsExtend` and `SumsAgree` show that there is exactly one such function (by `SetInduction`, below), `HeldUnfolds` that the definition is it, and `HeldLooksBack` that later rows change nothing. |
| | `CutHolds`, `TruncationCuts` (`TruncationOnlyCuts`), `TruncationWeakens` (`TruncationLowersEvidence`) | the same | Two walkers side by side (`CutInv`, `Follows`): one sees all rows, the other those since a time. Of a group that this time does not cut in the midst of a position they have told the same finished positions since (`AllTold`); of the group both are in, either both have the same position at hand with the same book, and go on or end it together (`LegLevel`), or the late walker has none (`Beside`). His origin is never better. A cut through a position stays one (`CutStaysCut`), which is what makes the hypothesis usable in every earlier state. Any history, any beginning. |
| `ClusterProof` | `ConvergenceCounted` | `ASSUME` | The invariant speaks of the rows written and of those that calls under way may still write (`RowsAgree`): a call that queries finds every event somebody has a row for, or will, because an event is stored before its call begins. Any feeds, events, windows. |
| | `ReportGrows` (`ReportGrowsWithWindow`) | `ASSUME` | Until a fault, every row is followed (`Follows`) in every wider window by a row of the same call that counts no less, or by one that call has yet to write; for a call writes from the narrowest window on and what is left to it is closed upward (`LeftUpward`). Sets stay finite (`CountsOfStored`), so the report's maximum exists. |
| `MigrationProof` | `MigrationInvariant`, `OpenUpToDate` (`OpenedIsUpToDate`), `VersionIsBehind` (`VersionNeverAhead`) | `ASSUME` | `MigInv`: until the rebuild takes something back, what is applied is a beginning of the list, so whoever has found a fingerprint (`SeenIsApplied`) or a version (`CurIsApplied`) may take everything before it for granted whatever another process has done since. Any number of processes, migrations, failures. |
| | `VersionKeepsUpHolds` (`VersionKeepsUp`) | and `PrintsTellSchema` | Until Opens meet or a query fails, one process at most is inside (`AloneInside`), and it knows the changes of the schema that it has not passed (`Knows`): all of them are up to `cur`, or among the fingerprints still to be looked for. `PrintsTellSchema` says that every change of the schema has a fingerprint and the first one a table, as in `sqlite.go:143-185` and in the instances checked. |
| | `RebuildHolds` (`RebuildTakesNothingBack`) | the same | Two invariants. The one before: undisturbed, whoever applies a migration has passed every change of the schema, so the rebuild is applied to a database that has not had it, and has nothing to take back (`FirstRebuild`). And `PastInv`: where the database was found with the rebuild and no query failed, every version row, every `cur` of a process that applies, and every dating under way is at or past it, or has its fingerprint still to look for (`Past`). |
| `ReportProof` | `CellsMatchHolds` (`EveryCellMatchesA`), `FunnelHolds` (`FunnelAgrees`) | `ASSUME` of ranking and matrix | The median is the trades of somebody labelled A (`MedianIsOfOne`: of those with at most half below them, whoever trades most), who is therefore in the band and in cell A. The funnel's sets are the matrix's, so it ends in the same cell C, and what is blocked is counted in one drop or in both. |
| | `RankInvHolds`, `FrontierParetoHolds` (`FrontierIsPareto`) | `ASSUME` | The loop's dominators are looked for in a slice it is overwriting. The invariant (`Untouched`, `Sound`, `Complete`, `Covered`) says that whoever an overwritten actor dominates is dominated by one that is still there: kept ones are undominated, and a dominated one has an undominated dominator, by transitivity. The lemmas on `Dominates` are stated first. |
| | `CountsHold` (`CountsAreHonest`) | `PatternsOK`, `FeaturesNeedEpisodes` | A figure that was looked at belongs to a wallet with research episodes, so a row that a pattern can be evaluated on rests on one; what matches was evaluable, condition by condition. `PatternsOK` says that every pattern is a sequence of at least one condition, as in `DefaultPatterns` (`mechanism/matrix.go:471`). |
| | `SupportHolds` (`SupportIsHonest`) | and `GatesAskSomething` | A hypothesis has cleared its gates: positive prevalence in A gives a row that matches, positive separation from the other cell a row there that could have matched and did not; the numbers of rows are finite sums, and the inequalities are multiplied out (`ProductsCompare`). `GatesAskSomething` says that the three gates are positive. The flags (`cmd/followedge/main.go:276-283`, defaults 5, 0.40 and 0.25) are not validated: with a gate of 0 an empty comparison is a hypothesis, so the assumption is a hypothesis of the theorem and not of the module. |
| | `DailyInvHolds`, `ReachedHolds` (`ReachedIsEarned`), `SuccessHolds` (`SuccessIsEvaluated`), `CleanSyncHolds` (`CleanSyncPublishes`), `DragsHolds` (`DragsOnlyLateFiles`) | `DailyConstantsOK` | `DailyInv`: what the trigger says follows from the lines written so far (`TriggerFollowsLines`), the dated copy is the report's once the script has got past it (`ReportIsKept`), and index, commit and remote hold what the commands gone through have put there (`RepoFollows`), whatever the agent stages and commits between them and whichever command fails, also where an `if` takes the failure for a no. Any number of days, runs, windows, gates, files and failures. |

The type invariants are theorems of their own (`TypeSafe`, `GateIsTyped`,
`IntakeIsTyped`, `ClusterIsTyped`, `WalkerIsTyped`, `MigrationIsTyped`).

Only model-checked:

- every liveness property (`FollowerEventuallyClassified`, `EveryCallerServed`,
  `ShownIsStored`, `OnlyFailedWritesAreMissing`, `ShownPriceIsFilled`,
  `OpensEventually`), which the prover cannot do under fairness.

Every other property a run checks is a theorem; `TruncationLowersEvidence`,
`CountsAreHonest`, `ReentryIsOfWallet` and the type invariants are theorems that no
passing run repeats.

What is defined by recursion (the sum of an episode's legs, the walk since a
time) is a recursive function and not a RECURSIVE operator.  The library's
induction principle takes an operator, which the provers cannot instantiate;
`SetInduction` says the same of a *set* of numbers, and is proved from the
well-foundedness of the strict subset order on finite sets: of the
counterexamples' intervals `0 .. n` one would be the least.  `SubsetInduction` is the same for finite sets, over which
`MapThenSumSet` sums the research episodes of a cell.

## 5. What is not modelled

- JSON decoding and field conversion, logging, printing, CSV export and flags:
  pure I/O or formatting.
- Configuration: read once; its values are the CONSTANTS.
- Statistics (bootstrap intervals, quantiles, the quality score):
  floating-point arithmetic on samples.  Which rows are in the sample is
  modelled, what is computed of it is not.
- Money: amounts in USD and profit sums.  Nothing in the control depends on
  them but a price being positive.
- What PriorFlowAt counts in its window (one query), the card of one actor
  (Inspect) and the evidence table (one upsert): reads and writes of single
  statements, whose results decide nothing further.
- Two `analyze episodes` at the same time: each rebuilds the table in one
  transaction and prints it in another statement (`cmd/followedge/main.go:419`),
  so one may print the other's table. It is a debug command and nothing is said
  of it.
- The wallet type of a trade that both feeds carry is that of whichever poller
  stores it first; the modules take it as given, whichever it is.
- Components with status "partly" in `PROJECT.json` name what they leave out.

## 6. Divergences

One is a run and a finding of the project:

- `MCMigrateRace` (`VersionCoversSchema`): two processes read version 6, both run 007; the first goes
  on to 008, then the second commits 007 and sets the version back to 7.  Every
  later Open runs 008's ALTER again and fails.  `storage/sqlite.go:80` and
  `:120-123` say that cannot be.

The others have a configuration to run by hand (`tlc -config X.cfg M`, with
`-continue` for those that refute several sentences);
TLC shows the behaviour that departs from the sentence quoted:

| Configuration, module | Property | Sentence | What the code does |
|---|---|---|---|
| MCLookback, MCMarkoutEngine | `LookbackMissRecovers` | `markout/engine.go:224` "retryable" | A later pass asks for the same window or a shorter one, so a miss of a sparse market stays. |
| MCPendingFirst, MCMarkoutEngine | `PendingBeforeRetry` | `storage/markouts.go:69` | Leader rows that are pending come after follower rows that retry. |
| MCNoCandle, MCMarkoutEngine | `NoCandleOnlyAfterStreamEnd` | `docs/v0.1.3-dataset.md:24` | With a grace of one resolution and a feed that lags, a candle that is not yet visible is never asked for again. |
| MCEntryStale, MCMarkoutEngine | `EntryStaleAtMostOneRes` | `docs/v0.1.2-entry-pit.md:31` | A gap in the candles makes the entry older. |
| MCGateLeak, MCRateGate | `NoRequestWhileShut` | `docs/architecture.md:67` | A request granted before the 429 leaves after it (at most one per caller, see `AtMostOneLateRequest`). |
| MCIntakeClaims, MCIntake | `SkippedIsStored` | `collector/dedup.go:8` | An id is marked before its insert, which may fail. |
| MCIntakeOnce, MCIntake | `ExactlyOnceEntry` | `docs/architecture.md:77` | A failed stage or a crash in the pipeline is not made up for. |
| MCIntakeClaims, MCIntake | `ReceivedAfterTrade` | `docs/v0.1.3-dataset.md:108` | The stamp is taken before the request. |
| MCClusterClaims, MCClusterWindows | `OutOfOrderIsHarmless` | `docs/architecture.md:80` | An older trade that is reported late may have left the window by the time it is processed, and no sample counts it with its neighbours. |
| MCClusterClaims, MCClusterWindows | `OneSnapshotPerToken` | `storage/clusters.go:38` | All the samples of a window come back, several for one token. |
| MCGapCensored, MCEpisodeWalker | `GapIsCensored` | `mechanism/profile.go:155` | A gap is noticed at an oversold sell, after an opening that was seen; the gap flag keeps the episode out of research. |
| MCTruncated, MCEpisodeWalker | `TruncationInventsNothing` | `storage/episodes.go:104` | What the comment warns of: where the table's history begins inside a position, its later adds and sales look like positions, of research quality even. |
| MCReentryRebuild, MCEpisodeWalker | `ReentryIsOfWallet` | `storage/episodes.go:270` | RebuildEpisodes walks all wallets at once, and a first episode counts as a re-entry because of another wallet's. |
| MCPatterns, MCActorReports | `EvaluableNeedsAll` | `mechanism/matrix.go:201` | A pattern stops at its first unmet condition and is then counted as evaluable and unmatched although a later feature is missing. |
| MCMigrateClaims, MCMigrations | `OpenedHasEverything` | `storage/sqlite.go:80` | Two processes read version 2; the fast one runs all the rest and opens; the slow one runs 003 again, which succeeds as long as no event has rows of both kinds and drops the columns of 004, 006 and 008 while the fast one works with them. The slow one then fails at 005 (the table exists), and so does every later Open. |
| MCMigrateClaims, MCMigrations | `LegacyRunsBackfills` | `storage/sqlite.go:146` | A database dated 8 by its columns never runs 007's backfill. |
| MCDailyClaims, MCDailySnapshot | `ReportCommitIsPure` | `scripts/matrix-daily.sh:68` | Files the agent stages between the look and the commit are dragged along, and so are files the look misses because its pipeline or its `git diff` failed (`DragsOnlyLateFiles` says that no others are). |
| MCDailyClaims, MCDailySnapshot | `SyncOnlyWarns` | `scripts/matrix-daily.sh:26` | `git add` is not guarded: with the index locked by the agent it fails, and `set -e` ends the script without a status.  And a failing `git status` (line 80) reads as nothing to commit: exit 0, no SYNC WARN. |
| MCDailyClaims, MCDailySnapshot | `NoWarnMeansPushed` | `scripts/matrix-daily.sh:23` | After a failed push a run that finds nothing to commit says nothing and pushes nothing. |

More, met while reading: the profile speaks of gaps among closed episodes
though a gap episode is never closed; a follower row whose entry write was lost
but whose fill succeeded is counted as due by ReplicationCensus and in no class,
by LatencyEV as a loss to the market and by Coverage as filled (hence
`LostEntries` in `CensusesAgree`; `LostWriteCostsOneRow` bounds them); and
DatasetStart is the earliest trade of either feed, so that the prior flow of an
entry made before the other feed was first polled is a zero nobody observed
(`analyze/behavior.go:98`).

## 7. Plan

Done, in this order: markout engine (the measurement everything rests on) with
its ledger and proofs; limiter; intake; clusters; episodes and profile;
migrations; ranking and matrix; the whole program (`Collection`) and what it
takes over from the engine; the truncated episode table; the daily script; the
proofs about the walker and its ledger, the card, the truncated table, the
reports, the matrix and the daily script.  Left:

1. Compose `Collection` with `ClusterWindows` and `RateGate`: each runs beside
   it without sharing more than the process.
2. More of the reports: the tables of latency and research, the card of one
   actor.
