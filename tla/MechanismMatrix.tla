--------------------------- MODULE MechanismMatrix ---------------------------
(***************************************************************************)
(* The cross-actor matrix: internal/analyze/matrix.go (cells, contrasts),  *)
(* internal/mechanism/matrix.go (patterns, gates, hypotheses) and          *)
(* internal/analyze/funnel.go (the maturation funnel of cell C).           *)
(*                                                                         *)
(* A report is a pure function of the wallets' figures, the sequence that  *)
(* ActorRanking collects.  A feature is its research median, or Missing    *)
(* when its N is 0; a fraction is compared in hundredths.                  *)
(***************************************************************************)
EXTENDS ActorRanking, FiniteSetsExt

CONSTANTS
  Features,     \* the behavior features
  Missing,      \* no research observation of a feature
  Patterns,     \* sequences of conditions
  MinQuality,   \* the quality gate
  MinSideN,     \* evaluable actors wanted on either side
  MinCoverage, MaxGap, MinPrevalence, MinSeparation    \* hundredths

(* A row's features are sampled over its research episodes only            *)
(* (MechanismProfile: SamplesMatchEvidence), so without any it has none.   *)
ASSUME FeaturesNeedEpisodes ==
  \A a \in Candidates :
    /\ a.research \in Nat /\ a.readable \in BOOLEAN
    /\ a.features \in [Features -> Int \cup {Missing}]
    /\ a.research = 0 => \A f \in Features : a.features[f] = Missing

ASSUME GatesOK ==
  /\ MinQuality \in Int /\ MinSideN \in Nat
  /\ {MinCoverage, MaxGap, MinPrevalence, MinSeparation} \subseteq 0 .. 100

(* DefaultPatterns: each has a condition, on features a row has.           *)
ASSUME PatternsOK ==
  \A k \in DOMAIN Patterns :
    /\ Len(Patterns[k]) \in Nat \ {0} /\ DOMAIN Patterns[k] = 1 .. Len(Patterns[k])
    /\ \A j \in DOMAIN Patterns[k] : Patterns[k][j].feature \in Features

-----------------------------------------------------------------------------
(* Matrix: the wallets of the report, and those whose history was read.    *)
ReplEligible(a) == ConsValid(a) /\ Eligible(a)

Rows == {n \in DOMAIN actors : ReplEligible(actors[n]) /\ actors[n].readable}

(* splitCells, first pass: the activity band, about the median trades of   *)
(* the actors labelled A.  The halves are truncated.                       *)
LabelledA == {n \in Rows : actors[n].cons > 0 /\ actors[n].quality >= MinQuality}

Trades(n) == actors[n].trades

(* sort.Ints(trades)[len / 2]                                              *)
Median(S) ==
  CHOOSE t \in {Trades(n) : n \in S} :
    /\ Cardinality({n \in S : Trades(n) < t}) <= Cardinality(S) \div 2
    /\ Cardinality({n \in S : Trades(n) <= t}) > Cardinality(S) \div 2

InBand(n) ==
  LET med == Median(LabelledA) IN Trades(n) >= med \div 2 /\ Trades(n) <= 2 * med

(* Mutated form: the types of all actors labelled A.                       *)
TypesOfAnyA == {actors[n].type : n \in LabelledA}

(* Second pass: the wallet types of those in the band.                     *)
BandTypes == {actors[n].type : n \in {m \in LabelledA : InBand(m)}}

(* Third pass: one filter over all rows; without a cell A, none.           *)
Matched ==
  IF LabelledA = {} THEN Rows
  ELSE {n \in Rows : InBand(n) /\ actors[n].type \in BandTypes}

(* Mutated form: an EV of zero counts as profitable.                       *)
LabelZeroAsProfit(n) ==
  IF actors[n].cons >= 0 /\ actors[n].quality >= MinQuality THEN "A"
  ELSE IF actors[n].quality >= MinQuality THEN "B"
  ELSE IF actors[n].cons >= 0 THEN "C" ELSE "D"

Label(n) ==
  IF actors[n].cons > 0 /\ actors[n].quality >= MinQuality THEN "A"
  ELSE IF actors[n].quality >= MinQuality THEN "B"
  ELSE IF actors[n].cons > 0 THEN "C" ELSE "D"

Cell(c) == {n \in Matched : Label(n) = c}

-----------------------------------------------------------------------------
(* computeCMaturationFunnel: the same wallets once more, layer by layer.   *)
Funnel ==
  LET potential == {n \in DOMAIN actors : ConsValid(actors[n])
                      /\ actors[n].quality < MinQuality /\ actors[n].cons > 0}
      blocked   == {n \in potential : ~ReplEligible(actors[n])}
      candidate == {n \in Rows : actors[n].quality < MinQuality /\ actors[n].cons > 0}
      banded    == LabelledA # {}
      inBand    == {n \in candidate : ~banded \/ InBand(n)}
  IN [potential    |-> potential,
      filledGE2    |-> {n \in potential : actors[n].filled >= 2},
      filledGE5    |-> {n \in potential : actors[n].filled >= MinFilled},
      replEligible |-> potential \ blocked,
      dropFilled   |-> {n \in blocked : actors[n].filled < MinFilled},
      dropEffN     |-> {n \in blocked : actors[n].filled + actors[n].marketLoss < MinMarket},
      dropBand     |-> candidate \ inBand,
      dropType     |-> {n \in inBand : banded /\ actors[n].type \notin BandTypes},
      bandEligible |-> {n \in inBand : ~banded \/ actors[n].type \in BandTypes}]

-----------------------------------------------------------------------------
(* FeatureCondition.matches and Pattern.matches: the first condition that  *)
(* is unmet or cannot be evaluated decides.                                *)
Observed(a, f) == a.features[f] # Missing

CanEvaluate(c, a) == Observed(a, c.feature) /\ (c.op = "gt_feature" => Observed(a, c.other))

Met(c, a) ==
  LET v == a.features[c.feature] IN
  CASE c.op = "<=" -> v <= c.a
    [] c.op = "<"  -> v < c.a
    [] c.op = ">=" -> v >= c.a
    [] c.op = ">"  -> v > c.a
    [] c.op = "between" -> v >= c.a /\ v <= c.b
    [] c.op = "gt_feature" -> v > a.features[c.other]

StoppedBy(p, a) == {k \in DOMAIN p : ~CanEvaluate(p[k], a) \/ ~Met(p[k], a)}

PatternMatched(p, a) == StoppedBy(p, a) = {}

(* Mutated form: a missing feature counts as an unmet condition.           *)
MissingIsUnmet(p, a) == PatternMatched(p, a) \/ ~PatternMatched(p, a)

PatternEvaluable(p, a) ==
  StoppedBy(p, a) # {} => CanEvaluate(p[Min(StoppedBy(p, a))], a)

-----------------------------------------------------------------------------
(* One side of a contrast: the rows a pattern can be evaluated on, those   *)
(* that match, and the research episodes of either.                        *)
Evaluable(p, S) == {n \in S : PatternEvaluable(p, actors[n])}

MatchedBy(p, S) == {n \in S : PatternMatched(p, actors[n])}

ResearchEpisodes(S) == MapThenSumSet(LAMBDA n : actors[n].research, S)

Support(p, S) ==
  LET ev == Evaluable(p, S)  ma == MatchedBy(p, S)
  IN [total |-> Cardinality(S), n |-> Cardinality(ev), hit |-> Cardinality(ma),
      evalEp |-> ResearchEpisodes(ev), matchEp |-> ResearchEpisodes(ma)]

(* GateStatus, its fractions multiplied out.                               *)
GateStatus(x, y) ==
  IF x.n < MinSideN THEN "side-a-n"
  ELSE IF y.n < MinSideN THEN "side-b-n"
  ELSE IF 100 * x.n < MinCoverage * x.total THEN "coverage-a"
  ELSE IF 100 * y.n < MinCoverage * y.total THEN "coverage-b"
  ELSE IF \E d \in {x.n * y.total - y.n * x.total, y.n * x.total - x.n * y.total} :
            100 * d > MaxGap * x.total * y.total THEN "coverage-gap"
  ELSE IF 100 * x.hit < MinPrevalence * x.n THEN "prevalence"
  ELSE IF 100 * (x.hit * y.n - y.hit * x.n) < MinSeparation * x.n * y.n THEN "separation"
  ELSE "OK"

(* GenerateHypotheses: the patterns that pass every gate.                  *)
Hypotheses(A, B) ==
  {k \in DOMAIN Patterns : GateStatus(Support(Patterns[k], A), Support(Patterns[k], B)) = "OK"}

(* runContrast: cell A against B or C, when neither is empty.              *)
Contrast(c) ==
  IF Cell("A") = {} \/ Cell(c) = {} THEN {} ELSE Hypotheses(Cell("A"), Cell(c))

(* countDataMissing: the rows no pattern can be measured on.               *)
DataMissing(S) == {n \in S : actors[n].research = 0}

-----------------------------------------------------------------------------
(* Every cell is drawn from the population matched to cell A: once anyone  *)
(* is labelled A, cell A is not empty and no cell holds a wallet of a type *)
(* that cell A has none of (the outlier's type must not leak into the      *)
(* filter: matrix.go:196-264).                                             *)
EveryCellMatchesA ==
  LabelledA # {} =>
    /\ Cell("A") # {}
    /\ \A n \in Matched : \E m \in Cell("A") : actors[m].type = actors[n].type

(* The funnel, which walks the wallets on its own, tells the fate of each  *)
(* potential member of cell C: it ends in the very cell the matrix shows,  *)
(* or in one of the drop counts, or was left out because its history could *)
(* not be read (funnel.go:38-103).                                         *)
FunnelAgrees ==
  LET f == Funnel IN
  /\ f.bandEligible = Cell("C")
  /\ f.replEligible =
       f.bandEligible \cup f.dropBand \cup f.dropType
         \cup {n \in f.potential : ReplEligible(actors[n]) /\ ~actors[n].readable}
  /\ f.dropFilled = f.potential \ f.filledGE5
  /\ Cardinality(f.dropFilled) + Cardinality(f.dropEffN) >=
       Cardinality(f.potential) - Cardinality(f.replEligible)

(* The counts printed beside a pattern are honest: the rows that could not *)
(* be evaluated and have research episodes, "absent", are not fewer than   *)
(* none; what matches was evaluable; and every evaluable or matched row    *)
(* rests on at least one research episode (matrix.go:378-394).             *)
CountsAreHonest ==
  \A c \in {"A", "B", "C"}, k \in DOMAIN Patterns :
    LET x == Support(Patterns[k], Cell(c)) IN
    /\ x.total - x.n - Cardinality(DataMissing(Cell(c))) >= 0
    /\ x.hit <= x.n /\ x.n <= x.evalEp /\ x.hit <= x.matchEp /\ x.matchEp <= x.evalEp

(* A hypothesis always has a discovery row that matches and a comparison   *)
(* row that could have matched and did not (mechanism/matrix.go:381-475).  *)
HypothesesAreCompared ==
  \A c \in {"B", "C"} : \A k \in Contrast(c) :
    /\ MatchedBy(Patterns[k], Cell("A")) # {}
    /\ Evaluable(Patterns[k], Cell(c)) \ MatchedBy(Patterns[k], Cell(c)) # {}

(* The support a report prints, and the hypotheses it draws from it        *)
(* (matrix.go:378-394, mechanism/matrix.go:381-475).                       *)
SupportIsHonest == CountsAreHonest /\ HypothesesAreCompared

(* Pattern.matches is documented: "One missing referenced feature makes    *)
(* the whole pattern unevaluable for this actor" (mechanism/matrix.go:201).*)
EvaluableNeedsAll ==
  \A n \in Rows, k \in DOMAIN Patterns :
    PatternEvaluable(Patterns[k], actors[n]) =>
      \A j \in DOMAIN Patterns[k] : CanEvaluate(Patterns[k][j], actors[n])
=============================================================================
