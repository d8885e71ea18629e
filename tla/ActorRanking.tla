----------------------------- MODULE ActorRanking -----------------------------
(***************************************************************************)
(* internal/analyze/actors.go: rankActors, from the wallets' figures to    *)
(* the leaderboard and its Pareto frontier.                                *)
(*                                                                         *)
(* A wallet's figures come out of a Go map, in any order.  The frontier is *)
(* filtered in place: what is kept overwrites the beginning of the very    *)
(* slice the rest is still compared with.                                  *)
(***************************************************************************)
EXTENDS Integers, Sequences, FiniteSets

CONSTANTS
  Candidates,     \* figures a wallet may have
  MaxActors,      \* bound on the number of wallets
  MinTrades,      \* --min-trades
  MinMarket,      \* --min-repl-market
  MinFilled,      \* --min-repl-filled
  NoExitLoss,     \* the loss a market-loss row is assumed to take
  Lowest          \* - MaxFloat64

ASSUME RankingConstantsOK ==
  /\ MaxActors \in Nat /\ MinTrades \in Nat /\ MinMarket \in Nat /\ MinFilled \in Nat
  /\ Lowest \in Int
  /\ \A a \in Candidates :
       /\ a.quality \in Int /\ a.pnl \in Int /\ a.trades \in Nat
       /\ a.filled \in Nat /\ a.marketLoss \in Nat
       /\ a.cons \in Int /\ a.cons > Lowest /\ a.observed \in Int

(* attachReplication: the conservative EV is a mean over the market        *)
(* outcomes, in which every market loss counts NoExitLoss.                 *)
ASSUME ConservativeEV ==
  \A a \in Candidates :
    a.cons * (a.filled + a.marketLoss) = a.observed * a.filled - a.marketLoss * NoExitLoss

VARIABLES
  actors,     \* the wallets' figures
  phase,      \* "collecting", then "frontier", then "done"
  sorted,     \* history: the list as it was sorted
  list,       \* the slice: pointers, here the wallets' numbers
  i,          \* the loop's index
  kept        \* length of out, which shares the slice's array

rankVars == <<actors, phase, sorted, list, i, kept>>

Init ==
  /\ actors = <<>> /\ phase = "collecting"
  /\ sorted = <<>> /\ list = <<>> /\ i = 1 /\ kept = 0

(* attachReplication: a conservative EV needs a market outcome.            *)
ConsValid(a) == a.filled + a.marketLoss > 0

ObservedValid(a) == a.filled > 0

Eligible(a) == a.filled + a.marketLoss >= MinMarket /\ a.filled >= MinFilled

-----------------------------------------------------------------------------
SortKeys == {"quality", "replicability", "pnl", "copy-ev"}

(* The eligible come first, by their figure and then by quality.           *)
BeforeBy(a, b, ea, eb, fa, fb) ==
  \/ ea /\ ~eb
  \/ ea /\ eb /\ (fa > fb \/ (fa = fb /\ a.quality > b.quality))

Before(key, a, b) ==
  CASE key = "replicability" ->
         BeforeBy(a, b, Eligible(a) /\ ConsValid(a), Eligible(b) /\ ConsValid(b), a.cons, b.cons)
    [] key = "copy-ev" ->
         BeforeBy(a, b, Eligible(a) /\ ObservedValid(a), Eligible(b) /\ ObservedValid(b),
                  a.observed, b.observed)
    [] key = "pnl" -> a.pnl > b.pnl
    [] OTHER -> a.quality > b.quality

(* External: sort.SliceStable, from whatever order the map gave.           *)
SortedBy(key, s) == \A m, n \in DOMAIN s : m < n => ~Before(key, actors[s[n]], actors[s[m]])

Ranked == {n \in DOMAIN actors : actors[n].trades >= MinTrades}

(* The map's entries with enough trades, each once, in any order.          *)
Arrangements ==
  {s \in [1 .. Cardinality(Ranked) -> Ranked] : \A m, n \in DOMAIN s : s[m] = s[n] => m = n}

Collect ==
  /\ phase = "collecting" /\ Len(actors) < MaxActors
  /\ \E a \in Candidates : actors' = Append(actors, a)
  /\ UNCHANGED <<phase, sorted, list, i, kept>>

Sort ==
  /\ phase = "collecting" /\ phase' = "frontier"
  /\ \E key \in SortKeys, s \in Arrangements : SortedBy(key, s) /\ sorted' = s /\ list' = s
  /\ UNCHANGED <<actors, i, kept>>

-----------------------------------------------------------------------------
Cons(a) == IF ConsValid(a) /\ Eligible(a) THEN a.cons ELSE Lowest

(* Mutated form: a tie on both axes dominates, too.                        *)
DominatesOrEquals(b, a) == b.quality >= a.quality /\ Cons(b) >= Cons(a)

Dominates(b, a) ==
  /\ b.quality >= a.quality /\ Cons(b) >= Cons(a)
  /\ b.quality > a.quality \/ Cons(b) > Cons(a)

Claims(a) == Eligible(a) /\ ConsValid(a)

(* The loop compares with the slice as it is by now.                       *)
Dominated ==
  \E j \in DOMAIN list \ {i} : Dominates(actors[list[j]], actors[list[i]])

(* The next actor of the loop: kept, or passed over.                       *)
Keep ==
  /\ phase = "frontier" /\ i \in DOMAIN list
  /\ Claims(actors[list[i]]) /\ ~Dominated
  /\ list' = [list EXCEPT ![kept + 1] = list[i]]
  /\ kept' = kept + 1 /\ i' = i + 1
  /\ UNCHANGED <<actors, phase, sorted>>

PassOver ==
  /\ phase = "frontier" /\ i \in DOMAIN list
  /\ ~Claims(actors[list[i]]) \/ Dominated
  /\ i' = i + 1
  /\ UNCHANGED <<actors, phase, sorted, list, kept>>

Finish ==
  /\ phase = "frontier" /\ i \notin DOMAIN list /\ phase' = "done"
  /\ UNCHANGED <<actors, sorted, list, i, kept>>

Next == Collect \/ Sort \/ Keep \/ PassOver \/ Finish

Spec == Init /\ [][Next]_rankVars

-----------------------------------------------------------------------------
OnFrontier(w) ==
  Claims(actors[w]) /\ \A j \in DOMAIN sorted : ~Dominates(actors[sorted[j]], actors[w])

(* The frontier printed is the Pareto frontier of the whole list: although *)
(* the loop overwrites actors it has yet to compare others with, nobody is *)
(* kept whom one of those dominates, and nobody is lost                    *)
(* (actors.go:216-240).                                                    *)
FrontierIsPareto ==
  phase = "done" =>
    {list[k] : k \in 1 .. kept} = {sorted[n] : n \in {m \in DOMAIN sorted : OnFrontier(sorted[m])}}
=============================================================================
