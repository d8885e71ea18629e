--------------------------- MODULE MechanismProfile ---------------------------
(***************************************************************************)
(* internal/mechanism/profile.go and the cohort of analyze/behavior.go and *)
(* analyze/matrix.go: the card made of one wallet's episodes and entries.  *)
(*                                                                         *)
(* A median or ratio is modelled by its sample, the set of observations it *)
(* is taken over; its N is the size of the sample.                         *)
(***************************************************************************)
EXTENDS EpisodeWalker

CONSTANTS
  Sampled,      \* external: the rows whose follower entry price was sampled
  FlowWindow    \* seconds of prior flow looked at before an entry

ASSUME ProfileConstantsOK == Sampled \subseteq Nat /\ FlowWindow \in Nat

(* EvidenceCounts.add: a gap wins over any origin.                         *)
Bucket(x) ==
  IF x.gap THEN "gap"
  ELSE IF x.origin = "confirmed_zero" THEN "confirmed"
  ELSE IF x.origin = "visible_zero" THEN "visible" ELSE "censored"

EvidenceCounts(S) ==
  [b \in {"confirmed", "visible", "censored", "gap"} |-> {x \in S : Bucket(x) = b}]

ResearchOf(counts) == counts["confirmed"] \cup counts["visible"]

(* The two policies, as the profile tests them of an episode or an entry.  *)
Strict(x) == x.origin = "confirmed_zero" /\ ~x.gap

(* Mutated form: the gap is not looked at.                                 *)
ResearchByOrigin(x) == x.origin \in {"confirmed_zero", "visible_zero"}

Research(x) == x.origin \in {"confirmed_zero", "visible_zero"} /\ ~x.gap

Two(S) == [strict |-> {x \in S : Strict(x)}, research |-> {x \in S : Research(x)}]

TwoRatio(S, hits) == [of |-> Two(S), hits |-> Two(hits)]

-----------------------------------------------------------------------------
(* The cohort: positions opened since the given time.                      *)
EpisodesSince(since) == {ep \in walk.episodes : ep.openedAt >= since}

(* Mutated form: an entry is judged by its own time.                       *)
InCohortByTrade(e, since) == rows[e.row].ts >= since

InCohort(e, since) ==
  (IF e.initial THEN rows[e.row].ts ELSE rows[e.row].ts - e.since) >= since

Facts(since) == {e \in walk.entries : InCohort(e, since)}

(* EntryObservations: sampled entries traded since then.                   *)
HasChase(e, since) == e.row \in Sampled /\ rows[e.row].ts >= since

DatasetStart == CHOOSE t \in {rows[i].ts : i \in DOMAIN rows} : \A i \in DOMAIN rows : t <= rows[i].ts

(* PriorFlowAt: no answer when the window begins before the dataset.       *)
PriorValid(e) == rows[e.row].ts - FlowWindow >= DatasetStart

-----------------------------------------------------------------------------
EntryStats(facts, eps, since) ==
  LET initial == {e \in facts : e.initial}
      adds == facts \ initial
  IN  [initial |-> EvidenceCounts(initial), add |-> EvidenceCounts(adds),
       age |-> Two(initial),
       chase |-> Two({e \in initial : HasChase(e, since)}),
       addChase |-> Two({e \in adds : HasChase(e, since)}),
       sinceInitial |-> Two(adds),
       prior |-> Two({e \in initial : PriorValid(e)}),
       reentry |-> TwoRatio(eps, {ep \in eps : ep.reentry}),
       addRate |-> TwoRatio(eps, {ep \in eps : ep.adds > 0}),
       initialBuy |-> Two(eps), capitalIn |-> Two(eps),
       addBuy |-> Two({ep \in eps : ep.adds > 0})]

PositionStats(eps) ==
  [evidence |-> EvidenceCounts(eps), adds |-> Two(eps), reduces |-> Two(eps),
   hold |-> Two({ep \in eps : ep.status = "closed"})]

(* Mutated form: a complete trajectory is not asked for.                   *)
CensoredPnlWithGaps(eps) == {ep \in eps : ~Strict(ep) /\ ~Research(ep) /\ ep.status # "open"}

CensoredPnl(eps) == {ep \in eps : ~Strict(ep) /\ ~Research(ep) /\ ep.status = "closed" /\ ~ep.gap}

IncompletePnl(eps) == {ep \in eps : ep.gap}

ExitStats(eps) ==
  LET exits == {ep \in eps : ep.sells > 0 /\ ~ep.gap}
      closed == {ep \in eps : ep.status = "closed"}
  IN  [partialExit |-> TwoRatio(exits, {ep \in exits : ep.partialExits > 0}),
       firstSell |-> Two({ep \in exits : ep.firstSellAt > 0}),
       close |-> Two(closed), closedPnl |-> Two(closed),
       censoredPnl |-> CensoredPnl(eps), incompletePnl |-> IncompletePnl(eps)]

BuildProfile(since) ==
  [entry |-> EntryStats(Facts(since), EpisodesSince(since), since),
   position |-> PositionStats(EpisodesSince(since)),
   exit |-> ExitStats(EpisodesSince(since))]

(* MatrixRowFromProfile: the research samples of the ten features.         *)
MatrixRow(p) ==
  [initial_chase |-> p.entry.chase.research, prior_smart |-> p.entry.prior.research,
   initial_buy_usd |-> p.entry.initialBuy.research,
   add_episode_rate |-> p.entry.addRate.of.research,
   add_delay |-> p.entry.sinceInitial.research, add_chase |-> p.entry.addChase.research,
   hold_secs |-> p.position.hold.research,
   partial_exit_rate |-> p.exit.partialExit.of.research,
   first_sell_secs |-> p.exit.firstSell.research, reentry_rate |-> p.entry.reentry.of.research]

-----------------------------------------------------------------------------
Sinces == 0 .. MaxRows + 1

(* Entries are chosen by their opening, episodes by theirs, in different   *)
(* modules: they must describe the same positions, so that every research  *)
(* episode brings its one opening and all its adds, and a position without *)
(* research evidence brings none (behavior.go:193-205, profile.go:21-25).  *)
OneCohort ==
  ended => \A since \in Sinces :
    LET p == BuildProfile(since)
        research == ResearchOf(p.position.evidence)
        opens(ep) == {e \in ResearchOf(p.entry.initial) : e.episode = ep.id}
        scales(ep) == {e \in ResearchOf(p.entry.add) : e.episode = ep.id}
    IN  /\ \A ep \in research : Cardinality(opens(ep)) = 1 /\ Cardinality(scales(ep)) = ep.adds
        /\ {e.episode : e \in ResearchOf(p.entry.initial) \cup ResearchOf(p.entry.add)}
             = {ep.id : ep \in research}
        /\ p.entry.chase.research = {e \in ResearchOf(p.entry.initial) : e.row \in Sampled}

(* Every figure of a policy is over the observations its evidence counts   *)
(* name; with no research episode no feature is observable, on which the   *)
(* matrix relies when it counts such rows as missing data and subtracts    *)
(* them (profile.go:177-181, analyze/matrix.go:344-352, 384).              *)
SamplesMatchEvidence ==
  ended => \A since \in Sinces :
    LET p == BuildProfile(since)
        row == MatrixRow(p)
    IN  /\ p.entry.age.research = ResearchOf(p.entry.initial)
        /\ p.entry.sinceInitial.research = ResearchOf(p.entry.add)
        /\ p.position.adds.research = ResearchOf(p.position.evidence)
        /\ p.entry.age.strict = p.entry.initial["confirmed"]
        /\ p.exit.firstSell.research = p.exit.partialExit.of.research
        /\ \A ep \in p.exit.firstSell.research : ep.firstSellAt >= ep.openedAt
        /\ ResearchOf(p.position.evidence) = {} => \A f \in DOMAIN row : row[f] = {}

(* Realised profit is reported once: a finished episode is in exactly one  *)
(* of research, censored and incomplete, an open one in none               *)
(* (profile.go:150-160).                                                   *)
PnlInOneBucket ==
  ended => \A since \in Sinces :
    LET x == BuildProfile(since).exit
    IN  \A ep \in EpisodesSince(since) :
          Cardinality({b \in {"research", "censored", "gap"} :
                         \/ b = "research" /\ ep \in x.closedPnl.research
                         \/ b = "censored" /\ ep \in x.censoredPnl
                         \/ b = "gap" /\ ep \in x.incompletePnl})
            = IF ep.status = "open" THEN 0 ELSE 1
=============================================================================
