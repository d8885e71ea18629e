----------------------------- MODULE EpisodeTable -----------------------------
(***************************************************************************)
(* RebuildEpisodes and EpisodeStats of internal/storage/episodes.go: the   *)
(* table that "analyze episodes" fills and prints.                         *)
(*                                                                         *)
(* It is made by the walker that every report uses, of the trades since a  *)
(* given time: what came before is cut off, in the midst of a position or  *)
(* between two.                                                            *)
(***************************************************************************)
EXTENDS MechanismProfile

(* Mutated form: the second of "since" itself is left out.                 *)
TradedAfter(row, since) == row.ts > since

TradedSince(row, since) == row.ts >= since

(* The walk over those of the first i rows of rs that the query returns.   *)
WalkSince(rs, since, i) ==
  LET walked[j \in Nat] ==
        IF j = 0 THEN StartOfWalk
        ELSE IF TradedSince(rs[j], since) THEN Walked(walked[j - 1], rs[j]) ELSE walked[j - 1]
  IN  walked[i]

Reconstructed(since) == Finalize(WalkSince(rows, since, Len(rows)))

(* A column is NULL where the episode has no value for it; a hold of zero  *)
(* seconds has none either.                                                *)
TableRow(ep) ==
  [group |-> ep.id[1], openedAt |-> ep.openedAt,
   closedAt |-> IF ep.closedAt > 0 THEN ep.closedAt ELSE NULL,
   hold |-> IF ep.closedAt > ep.openedAt THEN ep.closedAt - ep.openedAt ELSE NULL,
   adds |-> ep.adds, reduces |-> ep.sells, status |-> ep.status, legs |-> ep.legs]

RebuildEpisodes(since) == {TableRow(ep) : ep \in Reconstructed(since).episodes}

(* Of every status the rows counted, and those the average hold is over.   *)
EpisodeStats(table) ==
  [s \in {"open", "closed", "partial"} |->
     LET own == {r \in table : r.status = s}
     IN  [rows |-> own, hold |-> {r \in own : r.hold # NULL}]]

-----------------------------------------------------------------------------
(* No position of group g is cut in two by "since".                        *)
FlatAt(since, g) ==
  \A ep \in walk.episodes :
    ep.id[1] = g =>
      (\A i \in ep.legs : rows[i].ts < since) \/ (\A i \in ep.legs : rows[i].ts >= since)

OfGroup(g, table) == {r \in table : r.group = g}

(* The truncated table and the reconstruction of the full history tell the *)
(* same positions, with the same openings, adds, sells and statuses, of    *)
(* every token whose position was flat when the table's history begins:    *)
(* whatever went before leaves no trace in the position book, and the      *)
(* statistics printed are those of the cohort (episodes.go:101-158,        *)
(* 166-170, 234-237).                                                      *)
TruncationOnlyCuts ==
  ended => \A since \in Sinces, g \in DOMAIN Groups :
    FlatAt(since, g) =>
      EpisodeStats(OfGroup(g, RebuildEpisodes(since)))
        = EpisodeStats(OfGroup(g, {TableRow(ep) : ep \in EpisodesSince(since)}))

(* The table has no better evidence than the full history: an episode that *)
(* both know counts for research in the table only if it does in the       *)
(* reconstruction (episodes.go:104-107).                                   *)
TruncationLowersEvidence ==
  ended => \A since \in Sinces :
    \A ep \in Reconstructed(since).episodes, d \in walk.episodes :
      ep.legs = d.legs /\ FlatAt(since, d.id[1]) /\ Research(ep) => Research(d)

-----------------------------------------------------------------------------
(* What the code warns of; MCTruncated shows it.                           *)

(* Every research position of the table is a position of the wallet: not   *)
(* so where "since" falls inside one, whose later adds and sales then look *)
(* like positions of their own (episodes.go:104-107).                      *)
TruncationInventsNothing ==
  ended => \A since \in Sinces :
    \A ep \in Reconstructed(since).episodes :
      Research(ep) => \E d \in walk.episodes : d.legs = ep.legs
=============================================================================
