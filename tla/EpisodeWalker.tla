---------------------------- MODULE EpisodeWalker ----------------------------
(***************************************************************************)
(* internal/storage/episodes.go: positionBook and reconstructBehavior, the *)
(* one pass over a wallet's trades that cuts them into position episodes   *)
(* and classifies every buy.                                               *)
(*                                                                         *)
(* The rows come from a query ordered by wallet, token and time; a group   *)
(* is a (wallet, token) pair, named by its place in that order.  Amounts   *)
(* of tokens are integers, and so is the tolerance of 1e-9 of the peak;    *)
(* amounts of money are left out, but for counting the legs.               *)
(***************************************************************************)
EXTENDS Integers, Sequences, FiniteSetsExt

CONSTANTS
  Groups,      \* sequence of [wallet, token], in the query's order
  Amounts,     \* token amounts of a trade
  Steps,       \* seconds between a trade and the next of its group
  MaxRows,     \* bound on the number of rows
  Ratio,       \* a residue of peak / Ratio is rounding; 10^9 in the code
  NULL

ASSUME WalkerConstantsOK ==
  /\ Len(Groups) \in Nat /\ DOMAIN Groups = 1 .. Len(Groups)
  /\ MaxRows \in Nat /\ Steps \subseteq Nat
  /\ Amounts \subseteq Nat \ {0}
  /\ Ratio \in Nat \ {0, 1}

VARIABLES
  rows,    \* the rows read so far
  walk,    \* the walker's local variables and the dataset it returns
  ended    \* the query has no more rows

walkerVars == <<rows, walk, ended>>

Token(id) == Groups[id[1]].token

Zero == [qty |-> 0, peak |-> 0]

StartOfWalk ==
  [cur |-> NULL, mine |-> {}, book |-> Zero, group |-> 0, seq |-> 0,
   origin |-> "censored", seen |-> {}, episodes |-> {}, entries |-> {}]

Init == rows = <<>> /\ ended = FALSE /\ walk = StartOfWalk

-----------------------------------------------------------------------------
(* positionBook                                                            *)
Eps(peak) == peak \div Ratio

(* Mutated form: rounding counts as a position.                            *)
IsEmptyExactly(b) == b.qty <= 0

IsEmpty(b) == b.qty <= Eps(b.peak)

Add(b, amount) ==
  [qty |-> b.qty + amount, peak |-> IF b.qty + amount > b.peak THEN b.qty + amount ELSE b.peak]

Sold(b, amount) == [b EXCEPT !.qty = @ - amount]

SellState(b, amount) ==
  LET left == Sold(b, amount)
  IN  IF ~IsEmpty(left) THEN "remaining"
      ELSE IF IsEmpty([left EXCEPT !.qty = - @]) THEN "closed" ELSE "oversold"

(* Mutated form: a full close keeps the peak.                              *)
ResetKeepsPeak(b) == [b EXCEPT !.qty = 0]

Reset(b) == Zero

-----------------------------------------------------------------------------
(* Mutated form: an entry keeps what was known of its episode when it was  *)
(* bought.                                                                 *)
LineageAtBuy(e, ep) == [e EXCEPT !.episode = ep.id]

(* An entry inherits the final evidence of its episode.                    *)
Lineage(e, ep) == [e EXCEPT !.episode = ep.id, !.origin = ep.origin, !.gap = ep.gap]

(* Mutated form: the entries are handed over and not dropped.              *)
FinalizeKeepsEntries(w) ==
  IF w.cur = NULL THEN w
  ELSE [w EXCEPT !.seen = @ \cup {Token(w.cur.id)},
                 !.entries = @ \cup {Lineage(e, w.cur) : e \in w.mine},
                 !.episodes = @ \cup {w.cur},
                 !.cur = NULL, !.book = Reset(@)]

(* Mutated form: evidence decides what a re-entry is.                      *)
FinalizeForResearch(w) ==
  IF w.cur = NULL THEN w
  ELSE [w EXCEPT !.seen = IF w.cur.gap THEN @ ELSE @ \cup {Token(w.cur.id)},
                 !.entries = @ \cup {Lineage(e, w.cur) : e \in w.mine},
                 !.episodes = @ \cup {w.cur},
                 !.cur = NULL, !.mine = {}, !.book = Reset(@)]

Finalize(w) ==
  IF w.cur = NULL THEN w
  ELSE [w EXCEPT !.seen = @ \cup {Token(w.cur.id)},
                 !.entries = @ \cup {Lineage(e, w.cur) : e \in w.mine},
                 !.episodes = @ \cup {w.cur},
                 !.cur = NULL, !.mine = {}, !.book = Reset(@)]

NewEpisode(w, row) ==
  LET id == <<row.group, w.seq + 1>>
  IN  [id |-> id, legs |-> {}, openedAt |-> row.ts, closedAt |-> 0, firstSellAt |-> 0,
       status |-> "open", reentry |-> Token(id) \in w.seen,
       adds |-> 0, sells |-> 0, partialExits |-> 0,
       gap |-> row.side = "sell",
       origin |-> IF row.side = "sell" THEN "censored" ELSE w.origin]

(* Mutated form: what was learnt of one token is carried to the next.      *)
NewGroupKeepsOrigin(w, g) == [w EXCEPT !.book = Zero, !.seq = 0, !.group = g]

NewGroup(w, g) ==
  [w EXCEPT !.origin = "censored", !.book = Zero, !.seq = 0, !.group = g]

(* The episode a row belongs to: the current one, or one that it begins.   *)
Enter(w, row) ==
  IF w.cur # NULL /\ w.group = row.group THEN w
  ELSE LET f == Finalize(w)
           g == IF w.group = row.group THEN f ELSE NewGroup(f, row.group)
       IN  [g EXCEPT !.seq = @ + 1, !.cur = NewEpisode(g, row)]

Buy(w, row) ==
  LET initial == IsEmpty(w.book)
      opened == IF initial THEN row.ts ELSE w.cur.openedAt
      ep == IF initial
            THEN [w.cur EXCEPT !.openedAt = row.ts, !.gap = FALSE, !.firstSellAt = 0]
            ELSE [w.cur EXCEPT !.adds = @ + 1]
  IN  [w EXCEPT !.cur = [ep EXCEPT !.legs = @ \cup {row.n}],
                !.book = Add(@, row.amount),
                !.mine = @ \cup {[row |-> row.n, initial |-> initial,
                                  since |-> row.ts - opened, episode |-> NULL,
                                  origin |-> ep.origin, gap |-> ep.gap]}]

(* Mutated form: an oversold leg tells nothing of the next episode.        *)
OriginAfterSticky(state, origin) == IF state = "closed" THEN "visible_zero" ELSE origin

OriginAfter(state, origin) ==
  IF state = "closed" THEN "visible_zero"
  ELSE IF state = "oversold" THEN "censored" ELSE origin

Sell(w, row) ==
  LET state == SellState(w.book, row.amount)
      leg == [w.cur EXCEPT
                !.legs = @ \cup {row.n}, !.sells = @ + 1,
                !.gap = @ \/ IsEmpty(w.book) \/ state = "oversold",
                !.firstSellAt = IF @ = 0 THEN row.ts ELSE @,
                !.partialExits = IF state = "remaining" THEN @ + 1 ELSE @]
      sold == [w EXCEPT !.cur = leg, !.book = Sold(@, row.amount),
                        !.origin = OriginAfter(state, @)]
  IN  IF state = "remaining" THEN sold
      ELSE Finalize([sold EXCEPT
             !.cur = [leg EXCEPT !.closedAt = row.ts,
                                 !.status = IF state = "closed" THEN state ELSE "partial"]])

Walked(w, row) ==
  IF row.side = "buy" THEN Buy(Enter(w, row), row) ELSE Sell(Enter(w, row), row)

-----------------------------------------------------------------------------
(* External: the query's next row, of the same group or a later one.       *)
NextRow(row) ==
  /\ row.n = Len(rows) + 1
  /\ \/ rows # <<>> /\ row.group = rows[Len(rows)].group
        /\ \E d \in Steps : row.ts = rows[Len(rows)].ts + d
     \/ row.ts = 1 /\ \A i \in DOMAIN rows : row.group > rows[i].group

Trades(ts) ==
  [n : {Len(rows) + 1}, group : DOMAIN Groups, side : {"buy", "sell"},
   amount : Amounts, ts : ts]

NextTimes == {1} \cup {rows[i].ts + d : i \in DOMAIN rows, d \in Steps}

ReadRow ==
  /\ ~ended /\ Len(rows) < MaxRows
  /\ \E row \in Trades(NextTimes) :
       /\ NextRow(row)
       /\ rows' = Append(rows, row)
       /\ walk' = Walked(walk, row)
  /\ UNCHANGED ended

(* The last episode stays open.                                            *)
EndOfRows ==
  /\ ~ended /\ ended' = TRUE
  /\ walk' = Finalize(walk)
  /\ UNCHANGED rows

Next == ReadRow \/ EndOfRows

Spec == Init /\ [][Next]_walkerVars

-----------------------------------------------------------------------------
EpisodeIds == (DOMAIN Groups) \X Nat
Origins == {"censored", "visible_zero"}

EpisodeType ==
  [id : EpisodeIds, legs : SUBSET Nat, openedAt : Nat, closedAt : Nat, firstSellAt : Nat,
   status : {"open", "closed", "partial"}, reentry : BOOLEAN,
   adds : Nat, sells : Nat, partialExits : Nat, gap : BOOLEAN, origin : Origins]

EntryType ==
  [row : Nat, initial : BOOLEAN, since : Nat, episode : EpisodeIds \cup {NULL},
   origin : Origins, gap : BOOLEAN]

ASSUME WalkerNullOK == NULL \notin EpisodeType

WalkerTypeOK ==
  /\ Len(rows) <= MaxRows /\ ended \in BOOLEAN
  /\ walk.cur \in EpisodeType \cup {NULL}
  /\ walk.mine \subseteq EntryType /\ walk.entries \subseteq EntryType
  /\ walk.book \in [qty : Nat, peak : Nat]
  /\ walk.group \in 0 .. Len(Groups) /\ walk.seq \in Nat
  /\ walk.origin \in Origins
  /\ walk.episodes \subseteq EpisodeType
  /\ walk.cur = NULL => walk.mine = {} /\ walk.book = Zero

-----------------------------------------------------------------------------
(* What the episodes say, against a ledger kept over their legs.           *)
Episodes == walk.episodes \cup (IF walk.cur = NULL THEN {} ELSE {walk.cur})

Entries == walk.entries \cup walk.mine

First(ep) == CHOOSE i \in ep.legs : \A j \in ep.legs : i <= j
Last(ep) == CHOOSE i \in ep.legs : \A j \in ep.legs : i >= j

Change(rs, i) == IF rs[i].side = "buy" THEN rs[i].amount ELSE - rs[i].amount

(* Tokens held after row i, as far as the legs from row "from" on tell.    *)
Held(rs, from, i) ==
  LET h[j \in Nat] == IF j < from THEN 0 ELSE h[j - 1] + Change(rs, j) IN h[i]

Peak(rs, from, i) == Max({0} \cup {Held(rs, from, j) : j \in from .. i})

Tolerance(rs, from, i) == Peak(rs, from, i) \div Ratio

(* Every trade is a leg of exactly one episode, whose legs are consecutive *)
(* trades of its group; every buy is the entry of exactly that episode, and*)
(* the counters count the legs (episodes.go:278-359).                      *)
EveryTradeInOneEpisode ==
  /\ \A i \in DOMAIN rows : Cardinality({ep \in Episodes : i \in ep.legs}) = 1
  /\ \A ep \in Episodes :
       /\ ep.legs = First(ep) .. Last(ep)
       /\ \A i \in ep.legs : rows[i].group = ep.id[1]
       /\ ep.sells = Cardinality({i \in ep.legs : rows[i].side = "sell"})
  /\ {e.row : e \in Entries} = {i \in DOMAIN rows : rows[i].side = "buy"}
  /\ Cardinality(Entries) = Cardinality({e.row : e \in Entries})
  /\ \A e \in walk.entries : \E ep \in walk.episodes : ep.id = e.episode /\ e.row \in ep.legs

(* The status of ep against the sums of its legs in rs.                    *)
LegsAddUp(rs, ep) ==
  LET held(i) == Held(rs, First(ep), i)
      tol(i) == Tolerance(rs, First(ep), i)
  IN  /\ \A i \in First(ep) .. Last(ep) - 1 : held(i) > tol(i)
      /\ CASE ep.status = "closed" -> held(Last(ep)) \in - tol(Last(ep)) .. tol(Last(ep))
           [] ep.status = "partial" -> held(Last(ep)) < - tol(Last(ep))
           [] ep.status = "open" -> held(Last(ep)) > tol(Last(ep))

(* The status is what the episode's own legs add up to: closed at the first*)
(* leg that leaves nothing but rounding, partial at the first that sells   *)
(* more than was seen, and open as long as something is held.              *)
StatusIsLedger == \A ep \in Episodes : LegsAddUp(rows, ep)

(* An episode that began with a visible buy has one opening entry, the     *)
(* earliest, and all its other buys are adds; an episode that began with a *)
(* sale has none (episodes.go:234-237: the peak must not leak).            *)
OneOpening ==
  \A ep \in walk.episodes :
    LET own == {e \in walk.entries : e.episode = ep.id}
    IN  /\ {e \in own : e.initial} = {e \in own : e.row = First(ep)}
        /\ ep.adds = Cardinality({e \in own : ~e.initial})
        /\ \A e \in own : e.since = rows[e.row].ts - ep.openedAt

(* An entry never claims evidence that its episode lost                    *)
(* (episodes.go:73-88, 261-267).                                           *)
EvidenceAgrees ==
  \A e \in walk.entries, ep \in walk.episodes :
    e.episode = ep.id => e.origin = ep.origin /\ e.gap = ep.gap

(* Research uses an episode only when its own legs and those of the episode*)
(* before it begin with a buy and never sell more than was seen, and the   *)
(* one before it ended at zero (profile.go:10-19, episodes.go:371-382).    *)
ResearchHasNoGap ==
  \A ep \in Episodes :
    ep.origin = "visible_zero" /\ ~ep.gap =>
      \E prev \in Episodes :
        /\ prev.id = <<ep.id[1], ep.id[2] - 1>> /\ prev.status = "closed"
        /\ \A d \in {prev, ep} :
             /\ rows[First(d)].side = "buy"
             /\ \A i \in d.legs :
                  Held(rows, First(d), i) >= - Tolerance(rows, First(d), i)

(* An episode is a re-entry exactly when its wallet has an earlier episode *)
(* on the token (episodes.go:34-38, 270).                                  *)
ReentryIsOfWallet ==
  \A ep \in Episodes :
    ep.reentry <=> \E d \in Episodes : /\ Groups[d.id[1]] = Groups[ep.id[1]]
                                       /\ First(d) < First(ep)

-----------------------------------------------------------------------------
(* A claim the code does not keep; MCGapCensored refutes it.               *)

(* profile.go:155: a data-gap episode always has OriginCensored, for its   *)
(* opening buy is unseen.                                                  *)
GapIsCensored == \A ep \in walk.episodes : ep.gap => ep.origin = "censored"
=============================================================================
