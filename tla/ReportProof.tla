----------------------------- MODULE ReportProof -----------------------------
(***************************************************************************)
(* What is reported: the frontier filter of ActorRanking, the cells, the   *)
(* funnel and the support of MechanismMatrix, for any number of wallets and*)
(* any figures, and the daily report of DailySnapshot that is made of the  *)
(* matrix, for any number of days, runs and failures.                      *)
(*                                                                         *)
(* The slice is filtered in place, so somewhere before the index there may *)
(* be an actor that was overwritten and is not compared with any longer.   *)
(* The invariant says why it is not missed: whoever it dominates is        *)
(* dominated by an actor that is still there (Covered).                    *)
(***************************************************************************)
EXTENDS MechanismMatrix, DailySnapshot, FiniteSetTheorems, TLAPS

Size == Cardinality(Ranked)

W(n) == actors[n]

(* Still on the slice as an actor of its own: kept, or not yet looked at.  *)
Live(j) == j <= kept \/ j >= i

RankTypeOK ==
  /\ actors \in Seq(Candidates)
  /\ phase \in {"collecting", "frontier", "done"}
  /\ i \in Nat \ {0} /\ kept \in Nat /\ kept < i
  /\ phase = "collecting" => i = 1 /\ kept = 0
  /\ phase # "collecting" =>
       /\ sorted \in [1 .. Size -> DOMAIN actors] /\ list \in [1 .. Size -> DOMAIN actors]
       /\ i <= Size + 1
  /\ phase = "done" => i = Size + 1

(* Beyond what is kept, the slice is as it was sorted.                     *)
Untouched == \A j \in 1 .. Size : j > kept => list[j] = sorted[j]

Sound ==
  \A k \in 1 .. kept : \E n \in 1 .. Size : n < i /\ list[k] = sorted[n] /\ OnFrontier(sorted[n])

Complete ==
  \A n \in 1 .. Size : n < i /\ OnFrontier(sorted[n]) => \E k \in 1 .. kept : list[k] = sorted[n]

Covered ==
  \A n \in 1 .. Size : n < i /\ Claims(W(sorted[n])) =>
    \E j \in 1 .. Size :
      Live(j) /\ (list[j] = sorted[n] \/ Dominates(W(list[j]), W(sorted[n])))

FrontierInv == phase # "collecting" => Untouched /\ Sound /\ Complete /\ Covered

RankInv == RankTypeOK /\ FrontierInv

-----------------------------------------------------------------------------
(* Dominating is a strict order, and only a claimant dominates a claimant. *)
LEMMA DominatesIrreflexive == ASSUME NEW a \in Candidates PROVE ~Dominates(a, a)
BY RankingConstantsOK DEF Dominates, Cons, ConsValid, Eligible

LEMMA DominatesTransitive ==
  ASSUME NEW a \in Candidates, NEW b \in Candidates, NEW c \in Candidates,
         Dominates(a, b), Dominates(b, c)
  PROVE  Dominates(a, c)
<1>1. /\ Cons(a) \in Int /\ Cons(b) \in Int /\ Cons(c) \in Int
      /\ a.quality \in Int /\ b.quality \in Int /\ c.quality \in Int
  BY RankingConstantsOK DEF Cons
<1> QED
  BY <1>1 DEF Dominates

LEMMA DominatorClaims ==
  ASSUME NEW a \in Candidates, NEW b \in Candidates, Dominates(b, a), Claims(a)
  PROVE  Claims(b)
<1>1. Cons(a) = a.cons /\ a.cons > Lowest
  BY RankingConstantsOK DEF Cons, Claims
<1>2. Cons(b) >= Cons(a)
  BY DEF Dominates
<1>3. Cons(b) # Lowest
  BY <1>1, <1>2, RankingConstantsOK
<1> QED
  BY <1>3 DEF Cons, Claims

LEMMA SizeType == ASSUME actors \in Seq(Candidates) PROVE Size \in Nat
<1>1. DOMAIN actors = 1 .. Len(actors) /\ Len(actors) \in Nat
  OBVIOUS
<1>2. IsFiniteSet(DOMAIN actors)
  BY <1>1, FS_Interval
<1>3. IsFiniteSet(Ranked)
  BY <1>2, FS_Subset DEF Ranked
<1> QED
  BY <1>3, FS_CardinalityType DEF Size

(* What the figures of a wallet on either list are.                        *)
LEMMA Figures ==
  ASSUME RankTypeOK, phase # "collecting", NEW j \in 1 .. Size
  PROVE  W(sorted[j]) \in Candidates /\ W(list[j]) \in Candidates
BY DEF RankTypeOK, W

-----------------------------------------------------------------------------
LEMMA InitInv == Init => RankInv
BY DEF Init, RankInv, RankTypeOK, FrontierInv

LEMMA CollectInv == RankInv /\ Collect => RankInv'
BY DEF RankInv, RankTypeOK, FrontierInv, Collect

LEMMA SortInv == RankInv /\ Sort => RankInv'
<1> SUFFICES ASSUME RankInv, Sort PROVE RankInv'
  OBVIOUS
<1>1. PICK s \in Arrangements : sorted' = s /\ list' = s
  BY DEF Sort
<1>2. Size \in Nat /\ Size' = Size
  BY SizeType DEF RankInv, RankTypeOK, Sort, Size, Ranked
<1>3. s \in [1 .. Size -> DOMAIN actors]
  BY DEF Arrangements, Size, Ranked
<1>4. RankTypeOK'
  BY <1>1, <1>2, <1>3 DEF RankInv, RankTypeOK, Sort
<1>5. (Untouched /\ Sound /\ Complete /\ Covered)'
  BY <1>1, <1>2 DEF RankInv, RankTypeOK, Sort, Untouched, Sound, Complete, Covered
<1> QED
  BY <1>4, <1>5 DEF RankInv, FrontierInv

-----------------------------------------------------------------------------
(* An actor of the slice that is dominated by another is dominated by a    *)
(* live one.                                                               *)
LEMMA LiveDominator ==
  ASSUME RankInv, phase = "frontier", i \in 1 .. Size, Claims(W(list[i])),
         NEW m \in 1 .. Size, Dominates(W(sorted[m]), W(list[i]))
  PROVE  \E j \in 1 .. Size : j # i /\ Live(j) /\ Dominates(W(list[j]), W(list[i]))
<1>1. W(sorted[m]) \in Candidates /\ W(list[i]) \in Candidates
  BY Figures DEF RankInv
<1>2. Claims(W(sorted[m]))
  BY <1>1, DominatorClaims
<1>3. PICK j \in 1 .. Size :
        Live(j) /\ (list[j] = sorted[m] \/ Dominates(W(list[j]), W(sorted[m])))
  <2>1. CASE m < i
    BY <1>2, <2>1 DEF RankInv, FrontierInv, Covered
  <2>2. CASE ~(m < i)
    BY <2>2 DEF RankInv, RankTypeOK, FrontierInv, Untouched, Live
  <2> QED
    BY <2>1, <2>2
<1>4. W(list[j]) \in Candidates
  BY Figures DEF RankInv
<1>5. Dominates(W(list[j]), W(list[i]))
  BY <1>1, <1>3, <1>4, DominatesTransitive
<1>6. j # i
  BY <1>1, <1>5, DominatesIrreflexive
<1> QED
  BY <1>3, <1>5, <1>6

(* Whoever is on the slice was on the sorted list.                         *)
LEMMA FromSorted ==
  ASSUME RankInv, phase = "frontier", NEW j \in 1 .. Size
  PROVE  \E m \in 1 .. Size : list[j] = sorted[m]
<1>1. CASE j > kept
  BY <1>1 DEF RankInv, FrontierInv, Untouched
<1>2. CASE ~(j > kept)
  BY <1>2 DEF RankInv, RankTypeOK, FrontierInv, Sound
<1> QED
  BY <1>1, <1>2

LEMMA KeepInv == RankInv /\ Keep => RankInv'
<1> SUFFICES ASSUME RankInv, Keep PROVE RankInv'
  OBVIOUS
<1>1. Size \in Nat /\ Size' = Size
  BY SizeType DEF RankInv, RankTypeOK, Keep, Size, Ranked
<1>2. /\ i \in 1 .. Size /\ kept \in Nat /\ kept < i /\ kept + 1 \in 1 .. Size
      /\ list \in [1 .. Size -> DOMAIN actors]
      /\ list' = [list EXCEPT ![kept + 1] = list[i]]
      /\ i' = i + 1 /\ kept' = kept + 1 /\ sorted' = sorted /\ actors' = actors
      /\ phase = "frontier" /\ phase' = "frontier" /\ list[i] = sorted[i]
  BY <1>1 DEF RankInv, RankTypeOK, Keep, FrontierInv, Untouched
<1>3. /\ list'[kept + 1] = sorted[i]
      /\ \A j \in 1 .. Size : j # kept + 1 => list'[j] = list[j]
  BY <1>2
<1>4. RankTypeOK'
  BY <1>1, <1>2 DEF RankInv, RankTypeOK
<1>5. Claims(W(sorted[i]))
  BY <1>2 DEF Keep, W
<1>6. OnFrontier(sorted[i])
  <2>1. SUFFICES ASSUME NEW m \in 1 .. Size, Dominates(W(sorted[m]), W(list[i])) PROVE FALSE
    BY <1>2, <1>5 DEF OnFrontier, W, RankInv, RankTypeOK
  <2>2. PICK j \in 1 .. Size : j # i /\ Dominates(W(list[j]), W(list[i]))
    BY <1>2, <1>5, <2>1, LiveDominator
  <2> QED
    BY <1>2, <2>2 DEF Keep, Dominated, W
<1>7. \A n \in 1 .. Size : OnFrontier(sorted[n])' <=> OnFrontier(sorted[n])
  BY <1>2 DEF OnFrontier
<1>8. Untouched'
  BY <1>1, <1>2, <1>3 DEF RankInv, FrontierInv, Untouched
<1>9. Sound'
  <2> SUFFICES ASSUME NEW k \in 1 .. kept + 1
               PROVE  \E n \in 1 .. Size :
                        n < i + 1 /\ list'[k] = sorted[n] /\ OnFrontier(sorted[n])
    BY <1>1, <1>2, <1>7 DEF Sound
  <2>1. CASE k = kept + 1
    BY <1>2, <1>3, <1>6, <2>1
  <2>2. CASE k # kept + 1
    <3>1. k \in 1 .. kept /\ k \in 1 .. Size
      <4>1. kept \in Nat /\ i \in 1 .. Size /\ kept < i
        BY <1>2
      <4> QED
        BY <1>1, <2>2, <4>1
    <3>2. PICK n \in 1 .. Size : n < i /\ list[k] = sorted[n] /\ OnFrontier(sorted[n])
      BY <1>2, <3>1 DEF RankInv, FrontierInv, Sound
    <3> QED
      BY <1>2, <1>3, <2>2, <3>1, <3>2
  <2> QED
    BY <2>1, <2>2
<1>10. Complete'
  <2> SUFFICES ASSUME NEW n \in 1 .. Size, n < i + 1, OnFrontier(sorted[n])
               PROVE  \E k \in 1 .. kept + 1 : list'[k] = sorted[n]
    BY <1>1, <1>2, <1>7 DEF Complete
  <2>1. CASE n = i
    BY <1>2, <1>3, <2>1
  <2>2. CASE n # i
    <3>1. PICK k \in 1 .. kept : list[k] = sorted[n]
      BY <1>2, <2>2 DEF RankInv, FrontierInv, Complete
    <3> QED
      BY <1>2, <1>3, <3>1
  <2> QED
    BY <2>1, <2>2
<1>11. Covered'
  <2> SUFFICES ASSUME NEW n \in 1 .. Size, n < i + 1, Claims(W(sorted[n]))
               PROVE  \E j \in 1 .. Size :
                        /\ j <= kept + 1 \/ j >= i + 1
                        /\ list'[j] = sorted[n] \/ Dominates(W(list'[j]), W(sorted[n]))
    BY <1>1, <1>2 DEF Covered, Live, W
  <2>1. CASE n = i
    BY <1>2, <1>3, <2>1
  <2>2. CASE n # i
    <3>1. PICK j \in 1 .. Size :
            Live(j) /\ (list[j] = sorted[n] \/ Dominates(W(list[j]), W(sorted[n])))
      BY <1>2, <2>2 DEF RankInv, FrontierInv, Covered
    <3>2. CASE j = i
      BY <1>2, <1>3, <3>1, <3>2
    <3>3. CASE j # i
      <4>1. (j <= kept \/ j > i) /\ j # kept + 1
        BY <1>2, <3>1, <3>3 DEF Live
      <4> QED
        BY <1>2, <1>3, <3>1, <4>1
    <3> QED
      BY <3>2, <3>3
  <2> QED
    BY <2>1, <2>2
<1> QED
  BY <1>4, <1>8, <1>9, <1>10, <1>11 DEF RankInv, FrontierInv

-----------------------------------------------------------------------------
LEMMA PassOverInv == RankInv /\ PassOver => RankInv'
<1> SUFFICES ASSUME RankInv, PassOver PROVE RankInv'
  OBVIOUS
<1>1. Size \in Nat /\ Size' = Size
  BY SizeType DEF RankInv, RankTypeOK, PassOver, Size, Ranked
<1>2. /\ i \in 1 .. Size /\ kept \in Nat /\ kept < i
      /\ list \in [1 .. Size -> DOMAIN actors] /\ list' = list
      /\ i' = i + 1 /\ kept' = kept /\ sorted' = sorted /\ actors' = actors
      /\ phase = "frontier" /\ phase' = "frontier" /\ list[i] = sorted[i]
  BY <1>1 DEF RankInv, RankTypeOK, PassOver, FrontierInv, Untouched
<1>3. RankTypeOK'
  BY <1>1, <1>2 DEF RankInv, RankTypeOK
<1>4. \A n \in 1 .. Size : OnFrontier(sorted[n])' <=> OnFrontier(sorted[n])
  BY <1>2 DEF OnFrontier
<1>5. ASSUME Claims(W(list[i]))
      PROVE  \E j \in 1 .. Size : j # i /\ Live(j) /\ Dominates(W(list[j]), W(list[i]))
  <2>1. PICK j \in 1 .. Size : Dominates(W(list[j]), W(list[i]))
    BY <1>2, <1>5 DEF PassOver, Dominated, W
  <2>2. PICK m \in 1 .. Size : list[j] = sorted[m]
    BY <1>2, FromSorted
  <2> QED
    BY <1>2, <1>5, <2>1, <2>2, LiveDominator
<1>6. Untouched'
  BY <1>1, <1>2 DEF RankInv, FrontierInv, Untouched
<1>7. Sound'
  <2> SUFFICES ASSUME NEW k \in 1 .. kept
               PROVE  \E n \in 1 .. Size :
                        n < i + 1 /\ list[k] = sorted[n] /\ OnFrontier(sorted[n])
    BY <1>1, <1>2, <1>4 DEF Sound
  <2>1. PICK n \in 1 .. Size : n < i /\ list[k] = sorted[n] /\ OnFrontier(sorted[n])
    BY <1>2 DEF RankInv, FrontierInv, Sound
  <2> QED
    BY <1>2, <2>1
<1>8. Complete'
  <2> SUFFICES ASSUME NEW n \in 1 .. Size, n < i + 1, OnFrontier(sorted[n])
               PROVE  \E k \in 1 .. kept : list[k] = sorted[n]
    BY <1>1, <1>2, <1>4 DEF Complete
  <2>1. CASE n < i
    BY <1>2, <2>1 DEF RankInv, FrontierInv, Complete
  <2>2. CASE n = i
    <3>1. Claims(W(list[i]))
      BY <1>2, <2>2 DEF OnFrontier, W
    <3>2. PICK j \in 1 .. Size : Dominates(W(list[j]), W(list[i]))
      BY <1>5, <3>1
    <3>3. PICK m \in 1 .. Size : list[j] = sorted[m]
      BY <1>2, FromSorted
    <3> QED
      BY <1>2, <2>2, <3>2, <3>3 DEF OnFrontier, W, RankInv, RankTypeOK
  <2> QED
    BY <1>2, <2>1, <2>2
<1>9. Covered'
  <2> SUFFICES ASSUME NEW n \in 1 .. Size, n < i + 1, Claims(W(sorted[n]))
               PROVE  \E j \in 1 .. Size :
                        /\ j <= kept \/ j >= i + 1
                        /\ list[j] = sorted[n] \/ Dominates(W(list[j]), W(sorted[n]))
    BY <1>1, <1>2 DEF Covered, Live, W
  <2>1. PICK j \in 1 .. Size :
          Live(j) /\ (list[j] = sorted[n] \/ Dominates(W(list[j]), W(sorted[n])))
    <3>1. CASE n < i
      BY <1>2, <3>1 DEF RankInv, FrontierInv, Covered
    <3>2. CASE n = i
      BY <1>2, <3>2 DEF Live
    <3> QED
      BY <1>2, <3>1, <3>2
  <2>2. CASE j # i
    BY <1>2, <2>1, <2>2 DEF Live
  <2>3. CASE j = i
    <3>1. W(sorted[n]) \in Candidates /\ W(list[i]) \in Candidates
      BY <1>2, Figures DEF RankInv
    <3>2. Claims(W(list[i]))
      BY <2>1, <2>3, <3>1, DominatorClaims
    <3>3. PICK m \in 1 .. Size : m # i /\ Live(m) /\ Dominates(W(list[m]), W(list[i]))
      BY <1>5, <3>2
    <3>4. W(list[m]) \in Candidates
      BY <1>2, Figures DEF RankInv
    <3>5. Dominates(W(list[m]), W(sorted[n]))
      BY <2>1, <2>3, <3>1, <3>3, <3>4, DominatesTransitive
    <3> QED
      BY <1>2, <3>3, <3>5 DEF Live
  <2> QED
    BY <2>2, <2>3
<1> QED
  BY <1>3, <1>6, <1>7, <1>8, <1>9 DEF RankInv, FrontierInv

LEMMA FinishInv == RankInv /\ Finish => RankInv'
<1> SUFFICES ASSUME RankInv, Finish PROVE RankInv'
  OBVIOUS
<1>1. Size \in Nat /\ Size' = Size
  BY SizeType DEF RankInv, RankTypeOK, Finish, Size, Ranked
<1>2. RankTypeOK'
  BY <1>1 DEF RankInv, RankTypeOK, Finish
<1>3. (Untouched /\ Sound /\ Complete /\ Covered)'
  BY <1>1 DEF RankInv, FrontierInv, Finish, Untouched, Sound, Complete, Covered, Live, W,
              OnFrontier
<1> QED
  BY <1>2, <1>3 DEF RankInv, FrontierInv

LEMMA StutterInv == RankInv /\ UNCHANGED rankVars => RankInv'
<1> SUFFICES ASSUME RankInv, UNCHANGED rankVars PROVE RankInv'
  OBVIOUS
<1>1. Size' = Size
  BY DEF Size, Ranked, rankVars
<1>2. RankTypeOK'
  BY <1>1 DEF RankInv, RankTypeOK, rankVars
<1>3. FrontierInv'
  BY <1>1 DEF RankInv, rankVars, FrontierInv, Untouched, Sound, Complete, Covered, Live, W,
              OnFrontier
<1> QED
  BY <1>2, <1>3 DEF RankInv

-----------------------------------------------------------------------------
(* The invariant of the frontier filter holds: what is kept so far is the  *)
(* frontier's part of what was looked at, in spite of the overwritten slice*)
(* (actors.go:216-240).                                                    *)
THEOREM RankInvHolds == Spec => []RankInv
<1>1. RankInv /\ [Next]_rankVars => RankInv'
  BY CollectInv, SortInv, KeepInv, PassOverInv, FinishInv, StutterInv DEF Next
<1> QED
  BY InitInv, <1>1, PTL DEF Spec

LEMMA InvGivesPareto == RankInv => FrontierIsPareto
<1> SUFFICES ASSUME RankInv, phase = "done"
             PROVE  {list[k] : k \in 1 .. kept}
                      = {sorted[n] : n \in {m \in DOMAIN sorted : OnFrontier(sorted[m])}}
  BY DEF FrontierIsPareto
<1>1. DOMAIN sorted = 1 .. Size /\ i = Size + 1 /\ Size \in Nat
  BY SizeType DEF RankInv, RankTypeOK
<1>2. \A k \in 1 .. kept : \E n \in DOMAIN sorted : list[k] = sorted[n] /\ OnFrontier(sorted[n])
  BY <1>1 DEF RankInv, FrontierInv, Sound
<1>3. \A n \in DOMAIN sorted : OnFrontier(sorted[n]) => \E k \in 1 .. kept : list[k] = sorted[n]
  BY <1>1 DEF RankInv, FrontierInv, Complete
<1> QED
  BY <1>2, <1>3

(* Filtering in place is right: the frontier printed is the Pareto         *)
(* frontier, for any wallets in any order.                                 *)
THEOREM FrontierParetoHolds == Spec => []FrontierIsPareto
BY RankInvHolds, InvGivesPareto, PTL

-----------------------------------------------------------------------------
(* The matrix.                                                             *)

(* Some element of a finite set comes first in any order by numbers.       *)
LEMMA LeastExists ==
  ASSUME NEW S, IsFiniteSet(S), S # {}, NEW f \in [S -> Int]
  PROVE  \E n \in S : \A m \in S : f[n] <= f[m]
<1> DEFINE L(n) == {m \in S : f[m] < f[n]}
           Fam == {L(n) : n \in S}
           R == StrictSubsetOrdering(S)
<1>1. IsWellFoundedOn(R, FiniteSubsetsOf(S))
  BY FS_StrictSubsetOrderingWellFounded
<1>2. FiniteSubsetsOf(S) = SUBSET S
  BY FS_FiniteSubsetsOfFinite
<1>3. Fam \subseteq SUBSET S /\ Fam # {}
  <2>1. \A n \in S : L(n) \in SUBSET S OBVIOUS
  <2>2. Fam \subseteq SUBSET S BY <2>1
  <2>3. PICK n : n \in S OBVIOUS
  <2>4. L(n) \in Fam BY <2>3
  <2> QED BY <2>2, <2>4
<1>4. PICK X \in Fam : \A Y \in Fam : <<Y, X>> \notin R
  <2> HIDE DEF R, Fam
  <2> QED BY <1>1, <1>2, <1>3, WFMin
<1>5. PICK n \in S : X = L(n)
  OBVIOUS
<1>6. ASSUME NEW m \in S, f[m] < f[n] PROVE FALSE
  <2>1. L(m) \subseteq L(n)
    BY <1>6
  <2>2. m \in L(n) /\ m \notin L(m)
    BY <1>6
  <2>3. <<L(m), L(n)>> \in R
    BY <2>1, <2>2 DEF StrictSubsetOrdering
  <2> QED BY <1>4, <1>5, <2>3
<1> QED BY <1>6

(* The median trades are the trades of somebody.                           *)
LEMMA MedianIsOfOne ==
  ASSUME actors \in Seq(Candidates), NEW S \in SUBSET DOMAIN actors, S # {}
  PROVE  \E n \in S : Median(S) = Trades(n)
<1> DEFINE Below(t) == {n \in S : Trades(n) < t}
           UpTo(t) == {n \in S : Trades(n) <= t}
           half == Cardinality(S) \div 2
           Good == {n \in S : Cardinality(Below(Trades(n))) <= half}
<1>1. IsFiniteSet(S) /\ Cardinality(S) \in Nat
  <2>1. DOMAIN actors = 1 .. Len(actors) /\ Len(actors) \in Nat OBVIOUS
  <2>2. IsFiniteSet(DOMAIN actors) BY <2>1, FS_Interval
  <2> QED BY <2>2, FS_Subset, FS_CardinalityType
<1>2. \A n \in S : Trades(n) \in Nat
  BY RankingConstantsOK DEF Trades
<1>3. half \in Nat /\ half < Cardinality(S)
  <2>1. Cardinality(S) # 0 BY <1>1, FS_EmptySet
  <2> QED BY <1>1, <2>1
<1>4. \A t : /\ IsFiniteSet(Below(t)) /\ Cardinality(Below(t)) \in Nat
             /\ IsFiniteSet(UpTo(t)) /\ Cardinality(UpTo(t)) \in Nat
  BY <1>1, FS_Subset, FS_CardinalityType
<1>5. Good # {}
  <2> DEFINE f == [n \in S |-> Trades(n)]
  <2>a. f \in [S -> Int] BY <1>2
  <2>1. PICK n \in S : \A m \in S : f[n] <= f[m]
    <3> HIDE DEF f
    <3> QED BY <1>1, <2>a, LeastExists
  <2>2. Below(Trades(n)) = {}
    BY <1>2, <2>1
  <2> QED BY <1>3, <2>2, FS_EmptySet
<1>6. PICK n \in Good : \A m \in Good : Trades(m) <= Trades(n)
  <2> DEFINE f == [m \in Good |-> - Trades(m)]
  <2>1. IsFiniteSet(Good) BY <1>1, FS_Subset
  <2>2. f \in [Good -> Int] BY <1>2
  <2>3. PICK n \in Good : \A m \in Good : f[n] <= f[m]
    <3> HIDE DEF Good, f
    <3> QED BY <1>5, <2>1, <2>2, LeastExists
  <2>4. \A m \in Good : Trades(m) <= Trades(n)
    <3> TAKE m \in Good
    <3>1. - Trades(n) <= - Trades(m) BY <2>3
    <3>2. Trades(n) \in Nat /\ Trades(m) \in Nat BY <1>2
    <3> QED BY <3>1, <3>2
  <2> HIDE DEF Good
  <2> QED BY <2>4
<1>7. Cardinality(UpTo(Trades(n))) > half
  <2>a. Cardinality(UpTo(Trades(n))) \in Nat BY <1>4
  <2> SUFFICES ASSUME Cardinality(UpTo(Trades(n))) <= half PROVE FALSE
    <3> HIDE DEF UpTo, half
    <3> QED BY <1>3, <2>a
  <2> DEFINE Above == S \ UpTo(Trades(n))
             f == [m \in Above |-> Trades(m)]
  <2>1. Above # {}
    <3>1. UpTo(Trades(n)) # S
      <4> HIDE DEF UpTo, half
      <4> QED BY <1>1, <1>3, <2>a
    <3>2. UpTo(Trades(n)) \subseteq S OBVIOUS
    <3> QED BY <3>1, <3>2
  <2>2. IsFiniteSet(Above) BY <1>1, FS_Subset
  <2>3. f \in [Above -> Int] BY <1>2
  <2>4. PICK m \in Above : \A k \in Above : f[m] <= f[k]
    <3> HIDE DEF Above, f
    <3> QED BY <2>1, <2>2, <2>3, LeastExists
  <2>5. Trades(m) > Trades(n) BY <1>2
  <2>6. Below(Trades(m)) \subseteq UpTo(Trades(n)) BY <1>2, <2>4
  <2>7. Cardinality(Below(Trades(m))) <= Cardinality(UpTo(Trades(n)))
    <3> HIDE DEF Below, UpTo
    <3> QED BY <1>4, <2>6, FS_Subset
  <2>b. Cardinality(Below(Trades(m))) \in Nat BY <1>4
  <2>8. m \in Good
    <3>1. Cardinality(Below(Trades(m))) <= half
      <4> HIDE DEF Below, UpTo, half
      <4> QED BY <1>3, <2>a, <2>b, <2>7
    <3>2. m \in S OBVIOUS
    <3> QED BY <3>1, <3>2
  <2> QED BY <1>2, <1>6, <2>5, <2>8
<1>8. Trades(n) \in {Trades(m) : m \in S}
  OBVIOUS
<1>9. Median(S) \in {Trades(m) : m \in S}
  BY <1>7, <1>8 DEF Median
<1> QED BY <1>9

(* Whoever is labelled A and has the median trades is in cell A.           *)
LEMMA CellsMatch == RankInv => EveryCellMatchesA
<1> SUFFICES ASSUME RankInv, LabelledA # {}
             PROVE  /\ Cell("A") # {}
                    /\ \A n \in Matched : \E m \in Cell("A") : actors[m].type = actors[n].type
  BY DEF EveryCellMatchesA
<1>1. actors \in Seq(Candidates) /\ LabelledA \in SUBSET DOMAIN actors
  BY DEF RankInv, RankTypeOK, LabelledA, Rows
<1>2. PICK n \in LabelledA : Median(LabelledA) = Trades(n)
  BY <1>1, MedianIsOfOne
<1>3. InBand(n)
  <2>1. Trades(n) \in Nat BY <1>1, RankingConstantsOK DEF Trades
  <2> QED BY <1>2, <2>1 DEF InBand
<1>4. \A m \in LabelledA : InBand(m) => m \in Cell("A")
  BY DEF Cell, Matched, BandTypes, LabelledA, Label
<1>5. \A k \in Matched : \E m \in LabelledA : InBand(m) /\ actors[m].type = actors[k].type
  BY DEF Matched, BandTypes
<1> QED BY <1>3, <1>4, <1>5

(* Once anyone is labelled A, cell A is not empty and no cell of the matrix*)
(* holds a wallet of a type that cell A has none of, for any wallets       *)
(* (matrix.go:196-284).                                                    *)
THEOREM CellsMatchHolds == Spec => []EveryCellMatchesA
BY RankInvHolds, CellsMatch, PTL

LEMMA FunnelTells == RankInv => FunnelAgrees
<1> SUFFICES ASSUME RankInv PROVE FunnelAgrees
  OBVIOUS
<1> DEFINE f == Funnel
           blocked == {n \in f.potential : ~ReplEligible(actors[n])}
<1>1. /\ actors \in Seq(Candidates)
      /\ \A n \in DOMAIN actors :
           actors[n].filled \in Nat /\ actors[n].marketLoss \in Nat /\ actors[n].cons \in Int
  BY RankingConstantsOK DEF RankInv, RankTypeOK
<1>2. f.bandEligible = Cell("C")
  <2>1. \A n \in Rows : /\ actors[n].quality \in Int /\ MinQuality \in Int
                        /\ Label(n) = "C" <=>
                             actors[n].quality < MinQuality /\ actors[n].cons > 0
    BY <1>1, RankingConstantsOK, GatesOK DEF Rows, Label
  <2>2. \A n : n \in Cell("C") <=>
               /\ n \in Rows /\ actors[n].quality < MinQuality /\ actors[n].cons > 0
               /\ LabelledA = {} \/ (InBand(n) /\ actors[n].type \in BandTypes)
    BY <2>1 DEF Cell, Matched
  <2>3. \A n : n \in f.bandEligible <=>
               /\ n \in Rows /\ actors[n].quality < MinQuality /\ actors[n].cons > 0
               /\ LabelledA = {} \/ (InBand(n) /\ actors[n].type \in BandTypes)
    BY DEF Funnel
  <2> HIDE DEF f
  <2> QED BY <2>2, <2>3
<1>3. f.replEligible =
        f.bandEligible \cup f.dropBand \cup f.dropType
          \cup {n \in f.potential : ReplEligible(actors[n]) /\ ~actors[n].readable}
  BY DEF Funnel, Rows, ReplEligible
<1>4. f.dropFilled = f.potential \ f.filledGE5
  BY <1>1, RankingConstantsOK DEF Funnel, ReplEligible, Eligible
<1>5. blocked \subseteq f.dropFilled \cup f.dropEffN /\ f.replEligible = f.potential \ blocked
  BY <1>1, RankingConstantsOK DEF Funnel, ReplEligible, Eligible
<1>6. /\ f.potential \in SUBSET DOMAIN actors /\ blocked \in SUBSET f.potential
      /\ f.dropFilled \in SUBSET f.potential /\ f.dropEffN \in SUBSET f.potential
  BY DEF Funnel
<1>7. IsFiniteSet(DOMAIN actors)
  BY <1>1, FS_Interval
<1> HIDE DEF f, blocked
<1>8. Cardinality(f.dropFilled) + Cardinality(f.dropEffN) >=
        Cardinality(f.potential) - Cardinality(f.replEligible)
  <2>1. IsFiniteSet(f.potential) BY <1>6, <1>7, FS_Subset
  <2>2. /\ IsFiniteSet(blocked) /\ IsFiniteSet(f.dropFilled) /\ IsFiniteSet(f.dropEffN)
        /\ IsFiniteSet(f.dropFilled \cap f.dropEffN)
    BY <1>6, <2>1, FS_Subset
  <2>3. /\ IsFiniteSet(f.dropFilled \cup f.dropEffN)
        /\ Cardinality(f.dropFilled \cup f.dropEffN)
             = Cardinality(f.dropFilled) + Cardinality(f.dropEffN)
                 - Cardinality(f.dropFilled \cap f.dropEffN)
    BY <2>2, FS_Union
  <2>4. Cardinality(blocked) <= Cardinality(f.dropFilled \cup f.dropEffN)
    BY <1>5, <2>3, FS_Subset
  <2>5. Cardinality(f.potential \ blocked) = Cardinality(f.potential) - Cardinality(f.potential \cap blocked)
    BY <2>1, FS_Difference
  <2>6. f.potential \cap blocked = blocked BY <1>6
  <2>7. /\ Cardinality(blocked) \in Nat /\ Cardinality(f.potential) \in Nat
        /\ Cardinality(f.dropFilled) \in Nat /\ Cardinality(f.dropEffN) \in Nat
        /\ Cardinality(f.dropFilled \cap f.dropEffN) \in Nat
    BY <2>1, <2>2, FS_CardinalityType
  <2>8. Cardinality(f.replEligible) = Cardinality(f.potential) - Cardinality(blocked)
    BY <1>5, <2>5, <2>6
  <2> QED BY <2>3, <2>4, <2>7, <2>8
<1> QED BY <1>2, <1>3, <1>4, <1>8 DEF FunnelAgrees, f

(* The funnel's walk ends in the cell C of the matrix, and whoever it drops*)
(* before is in a drop count or has a history that cannot be read, for any *)
(* wallets (funnel.go:38-103).                                             *)
THEOREM FunnelHolds == Spec => []FunnelAgrees
BY RankInvHolds, FunnelTells, PTL

-----------------------------------------------------------------------------
(* The support of a pattern.  The sum of research episodes is a recursive  *)
(* function on sets, which induction on subsets unfolds.                   *)

(* A family of subsets of a finite set holds them all, when it holds each  *)
(* whose own subsets it holds: otherwise one would be the least left out.  *)
LEMMA SubsetInduction ==
  ASSUME NEW S, IsFiniteSet(S), NEW P,
         \A s \in SUBSET S : (\A t \in SUBSET s : t # s => t \in P) => s \in P
  PROVE  \A s \in SUBSET S : s \in P
<1> DEFINE Out == {s \in SUBSET S : s \notin P}
           R == StrictSubsetOrdering(S)
<1> SUFFICES ASSUME Out # {} PROVE FALSE OBVIOUS
<1>1. IsWellFoundedOn(R, FiniteSubsetsOf(S)) BY FS_StrictSubsetOrderingWellFounded
<1>2. FiniteSubsetsOf(S) = SUBSET S BY FS_FiniteSubsetsOfFinite
<1>3. PICK s \in Out : \A t \in Out : <<t, s>> \notin R
  <2> HIDE DEF R
  <2>1. Out \subseteq FiniteSubsetsOf(S) BY <1>2
  <2> HIDE DEF Out
  <2> QED BY <1>1, <2>1, WFMin
<1>4. \A t \in SUBSET s : t # s => t \in P
  <2> SUFFICES ASSUME NEW t \in SUBSET s, t # s, t \notin P PROVE FALSE OBVIOUS
  <2>1. t \in SUBSET S /\ s \in SUBSET S /\ t \in Out OBVIOUS
  <2>2. <<t, s>> \in R BY <2>1 DEF StrictSubsetOrdering
  <2> QED BY <2>1, <2>2, <1>3
<1> QED BY <1>4

(* The sums of research episodes over the subsets of T, as MapThenSumSet   *)
(* defines them: it takes the elements out one by one, in some order.      *)
Any(s) == CHOOSE x \in s : TRUE

SumsOver(g, T) ==
  \A t \in SUBSET T :
    g[t] = IF t = {} THEN 0 ELSE actors[Any(t)].research + g[t \ {Any(t)}]

LEMMA AnyIsIn == ASSUME NEW s, s # {} PROVE Any(s) \in s
BY DEF Any

LEMMA SumsAgree ==
  ASSUME NEW S, IsFiniteSet(S), NEW g, NEW h, NEW T, NEW U, S \subseteq T, S \subseteq U,
         SumsOver(g, T), SumsOver(h, U)
  PROVE  g[S] = h[S]
<1> DEFINE P == {s \in SUBSET S : g[s] = h[s]}
<1>1. ASSUME NEW s \in SUBSET S, \A t \in SUBSET s : t # s => t \in P PROVE s \in P
  <2>1. s \in SUBSET T /\ s \in SUBSET U OBVIOUS
  <2>2. CASE s = {} BY <2>1, <2>2 DEF SumsOver
  <2>3. CASE s # {}
    <3>1. Any(s) \in s BY <2>3, AnyIsIn
    <3>2. s \ {Any(s)} \in P BY <3>1, <1>1
    <3>3. g[s \ {Any(s)}] = h[s \ {Any(s)}] BY <3>2
    <3> QED BY <2>1, <2>3, <3>3 DEF SumsOver
  <2> QED BY <2>2, <2>3
<1> HIDE DEF P
<1>2. \A s \in SUBSET S : s \in P BY <1>1, SubsetInduction
<1> QED BY <1>2 DEF P

LEMMA SumsExist ==
  ASSUME NEW S, IsFiniteSet(S)
  PROVE  \E g : g = [s \in SUBSET S |->
                       IF s = {} THEN 0 ELSE actors[Any(s)].research + g[s \ {Any(s)}]]
<1> DEFINE P == {s \in SUBSET S : \E g : SumsOver(g, s)}
           part(t) == CHOOSE g : SumsOver(g, t)
<1>1. ASSUME NEW s \in SUBSET S, \A t \in SUBSET s : t # s => t \in P PROVE s \in P
  <2> DEFINE c == Any(s)
             last == IF s = {} THEN 0 ELSE actors[c].research + part(s \ {c})[s \ {c}]
             h == [t \in SUBSET s |-> IF t = s THEN last ELSE part(t)[t]]
  <2>1. \A t \in SUBSET s : t # s => SumsOver(part(t), t) BY <1>1
  <2> HIDE DEF part
  <2>2. ASSUME NEW t \in SUBSET s
        PROVE  h[t] = IF t = {} THEN 0 ELSE actors[Any(t)].research + h[t \ {Any(t)}]
    <3>1. CASE t = {}
      <4>1. t # s => part(t)[t] = 0 BY <3>1, <2>1 DEF SumsOver
      <4> QED BY <3>1, <4>1
    <3>2. CASE t # {}
      <4> DEFINE x == Any(t)
                 r == t \ {x}
      <4>1. x \in t BY <3>2, AnyIsIn
      <4>2. r \in SUBSET s /\ r # s /\ r \in SUBSET t /\ r # t BY <4>1
      <4>3. h[r] = part(r)[r] BY <4>2
      <4>4. CASE t = s
        <5>1. h[t] = actors[x].research + part(r)[r] BY <4>4, <3>2
        <5> QED BY <5>1, <4>3, <3>2
      <4>5. CASE t # s
        <5>1. SumsOver(part(t), t) /\ SumsOver(part(r), r) BY <2>1, <4>2, <4>5
        <5>2. IsFiniteSet(r)
          <6>1. r \in SUBSET S BY <4>2
          <6> QED BY <6>1, FS_Subset
        <5> HIDE DEF r, x
        <5>3. part(t)[r] = part(r)[r] BY <5>1, <5>2, <4>2, SumsAgree
        <5>4. part(t)[t] = actors[x].research + part(t)[r]
          BY <5>1, <3>2 DEF SumsOver, r, x
        <5>5. h[t] = part(t)[t] BY <4>5
        <5> HIDE DEF h
        <5> QED BY <5>3, <5>4, <5>5, <4>3, <3>2 DEF r, x
      <4> QED BY <4>4, <4>5
    <3> QED BY <3>1, <3>2
  <2> HIDE DEF h
  <2>3. SumsOver(h, s) BY <2>2 DEF SumsOver
  <2> QED BY <2>3
<1> HIDE DEF P, part
<1>2. \A s \in SUBSET S : s \in P BY <1>1, SubsetInduction
<1>3. PICK g : SumsOver(g, S) BY <1>2 DEF P
<1> DEFINE h == [s \in SUBSET S |-> g[s]]
<1>4. \A s \in SUBSET S : s # {} => s \ {Any(s)} \in SUBSET S OBVIOUS
<1>5. \A s \in SUBSET S :
        h[s] = IF s = {} THEN 0 ELSE actors[Any(s)].research + h[s \ {Any(s)}]
  BY <1>3, <1>4 DEF SumsOver
<1>6. h = [s \in SUBSET S |-> h[s]] OBVIOUS
<1> HIDE DEF h
<1>7. h = [s \in SUBSET S |->
             IF s = {} THEN 0 ELSE actors[Any(s)].research + h[s \ {Any(s)}]]
  BY <1>5, <1>6
<1> QED BY <1>7

LEMMA SumUnfolds ==
  ASSUME NEW S, IsFiniteSet(S)
  PROVE  ResearchEpisodes(S) =
           IF S = {} THEN 0
           ELSE actors[Any(S)].research + ResearchEpisodes(S \ {Any(S)})
<1> DEFINE Whole(g, T) ==
             g = [s \in SUBSET T |->
                    IF s = {} THEN 0 ELSE actors[Any(s)].research + g[s \ {Any(s)}]]
           sum(T) == CHOOSE g : Whole(g, T)
<1>1. \A T : ResearchEpisodes(T) = sum(T)[T]
  BY DEF ResearchEpisodes, MapThenSumSet, MapThenFoldSet, Any
<1>2. \A T : IsFiniteSet(T) => Whole(sum(T), T)
  <2> TAKE T
  <2> HAVE IsFiniteSet(T)
  <2>1. \E g : Whole(g, T) BY SumsExist
  <2> HIDE DEF Whole
  <2> QED BY <2>1
<1>3. \A T : IsFiniteSet(T) => SumsOver(sum(T), T)
  <2> TAKE T
  <2> HAVE IsFiniteSet(T)
  <2>1. Whole(sum(T), T) BY <1>2
  <2> HIDE DEF sum
  <2> QED BY <2>1 DEF SumsOver
<1> HIDE DEF sum
<1>4. CASE S = {} BY <1>1, <1>3, <1>4 DEF SumsOver
<1>5. CASE S # {}
  <2> DEFINE r == S \ {Any(S)}
  <2>1. IsFiniteSet(r) BY FS_Subset
  <2>2. SumsOver(sum(S), S) /\ SumsOver(sum(r), r) BY <2>1, <1>3
  <2>3. sum(S)[S] = actors[Any(S)].research + sum(S)[r] BY <2>2, <1>5 DEF SumsOver
  <2>4. r \subseteq S OBVIOUS
  <2> HIDE DEF r
  <2>5. sum(S)[r] = sum(r)[r] BY <2>1, <2>2, <2>4, SumsAgree
  <2> QED BY <2>3, <2>5, <1>1, <1>5 DEF r
<1> QED BY <1>4, <1>5

LEMMA SumsSwap ==
  ASSUME NEW a \in Nat, NEW b \in Nat, NEW rest \in Nat, NEW u, NEW v, NEW w,
         w = a + u, u = b + rest, v = a + rest
  PROVE  w = b + v
OBVIOUS

(* Whichever element is taken out, the sum is the same.                    *)
LEMMA SumWithout ==
  ASSUME NEW S, IsFiniteSet(S), \A x \in S : actors[x].research \in Nat
  PROVE  /\ ResearchEpisodes(S) \in Nat
         /\ \A x \in S : ResearchEpisodes(S) = actors[x].research + ResearchEpisodes(S \ {x})
<1> DEFINE R(x) == actors[x].research
           E(s) == ResearchEpisodes(s)
           P == {s \in SUBSET S : E(s) \in Nat /\ \A x \in s : E(s) = R(x) + E(s \ {x})}
<1>0. \A s \in SUBSET S : IsFiniteSet(s) BY FS_Subset
<1>1. ASSUME NEW s \in SUBSET S, \A t \in SUBSET s : t # s => t \in P PROVE s \in P
  <2>1. CASE s = {}
    <3>1. E(s) = 0 BY <1>0, <2>1, SumUnfolds
    <3> QED BY <3>1, <2>1
  <2>2. CASE s # {}
    <3> DEFINE c == Any(s)
    <3>1. c \in s /\ E(s) = R(c) + E(s \ {c}) BY <1>0, <2>2, AnyIsIn, SumUnfolds
    <3>2. s \ {c} \in P BY <3>1, <1>1
    <3>3. R(c) \in Nat /\ E(s \ {c}) \in Nat /\ E(s) \in Nat
      <4>1. R(c) \in Nat /\ E(s \ {c}) \in Nat BY <3>1, <3>2
      <4> HIDE DEF E, R, c
      <4> QED BY <3>1, <4>1
    <3>4. ASSUME NEW x \in s PROVE E(s) = R(x) + E(s \ {x})
      <4>1. CASE x = c BY <4>1, <3>1
      <4>2. CASE x # c
        <5>1. x \in s \ {c} /\ c \in s \ {x} BY <4>2, <3>1
        <5>2. s \ {x} \in P BY <1>1
        <5>3. E(s \ {c}) = R(x) + E((s \ {c}) \ {x}) BY <5>1, <3>2
        <5>4. E(s \ {x}) = R(c) + E((s \ {x}) \ {c}) BY <5>1, <5>2
        <5>5. (s \ {c}) \ {x} = (s \ {x}) \ {c} OBVIOUS
        <5>6. (s \ {c}) \ {x} \in P
          <6>1. (s \ {c}) \ {x} \in SUBSET s /\ (s \ {c}) \ {x} # s BY <3>1
          <6> QED BY <6>1, <1>1
        <5>7. E((s \ {c}) \ {x}) \in Nat /\ R(x) \in Nat BY <5>6
        <5>8. E(s \ {x}) = R(c) + E((s \ {c}) \ {x}) BY <5>4, <5>5
        <5> HIDE DEF E, R, c, P
        <5> QED BY <5>3, <5>7, <5>8, <3>1, <3>3, SumsSwap
      <4> QED BY <4>1, <4>2
    <3> HIDE DEF E, R
    <3> QED BY <3>3, <3>4
  <2> QED BY <2>1, <2>2
<1> HIDE DEF P
<1>2. \A s \in SUBSET S : s \in P BY <1>1, SubsetInduction
<1> QED BY <1>2 DEF P

(* A part has no more research episodes than the whole, and rows that have *)
(* some each are not more than their episodes.                             *)
LEMMA SumOfPart ==
  ASSUME NEW S, IsFiniteSet(S), \A x \in S : actors[x].research \in Nat, NEW T \in SUBSET S
  PROVE  ResearchEpisodes(T) <= ResearchEpisodes(S)
<1> DEFINE E(s) == ResearchEpisodes(s)
           P == {s \in SUBSET S : T \subseteq s => E(T) <= E(s)}
<1>1. \A s \in SUBSET S : IsFiniteSet(s) /\ E(s) \in Nat
  <2> TAKE s \in SUBSET S
  <2>1. IsFiniteSet(s) BY FS_Subset
  <2> QED BY <2>1, SumWithout
<1>2. ASSUME NEW s \in SUBSET S, \A t \in SUBSET s : t # s => t \in P PROVE s \in P
  <2> SUFFICES ASSUME T \subseteq s PROVE E(T) <= E(s) OBVIOUS
  <2>1. CASE T = s BY <2>1, <1>1
  <2>2. CASE T # s
    <3>1. PICK x \in s : x \notin T BY <2>2
    <3>2. s \ {x} \in P /\ T \subseteq s \ {x} BY <3>1, <1>2
    <3>3. E(T) <= E(s \ {x}) BY <3>2
    <3>4. E(s) = actors[x].research + E(s \ {x}) BY <1>1, SumWithout
    <3>5. E(T) \in Nat /\ E(s) \in Nat /\ E(s \ {x}) \in Nat BY <1>1
    <3>6. actors[x].research \in Nat OBVIOUS
    <3> HIDE DEF E
    <3> QED BY <3>3, <3>4, <3>5, <3>6
  <2> QED BY <2>1, <2>2
<1> HIDE DEF P
<1>3. \A s \in SUBSET S : s \in P BY <1>2, SubsetInduction
<1> QED BY <1>3 DEF P

LEMMA SumOfPositive ==
  ASSUME NEW S, IsFiniteSet(S), \A x \in S : actors[x].research \in Nat \ {0}
  PROVE  Cardinality(S) <= ResearchEpisodes(S)
<1> DEFINE E(s) == ResearchEpisodes(s)
           P == {s \in SUBSET S : Cardinality(s) <= E(s)}
<1>1. \A s \in SUBSET S : IsFiniteSet(s) /\ E(s) \in Nat /\ Cardinality(s) \in Nat
  <2> TAKE s \in SUBSET S
  <2>1. IsFiniteSet(s) BY FS_Subset
  <2> QED BY <2>1, SumWithout, FS_CardinalityType
<1>2. ASSUME NEW s \in SUBSET S, \A t \in SUBSET s : t # s => t \in P PROVE s \in P
  <2>1. CASE s = {}
    <3>1. Cardinality(s) = 0 BY <2>1, FS_EmptySet
    <3>2. E(s) \in Nat BY <1>1
    <3> HIDE DEF E
    <3> QED BY <3>1, <3>2
  <2>2. CASE s # {}
    <3>1. PICK x \in s : TRUE BY <2>2
    <3>2. Cardinality(s \ {x}) <= E(s \ {x}) BY <1>2
    <3>3. Cardinality(s \ {x}) = Cardinality(s) - 1 BY <1>1, FS_RemoveElement
    <3>4. E(s) = actors[x].research + E(s \ {x}) BY <1>1, SumWithout
    <3>5. Cardinality(s) \in Nat /\ E(s) \in Nat /\ E(s \ {x}) \in Nat BY <1>1
    <3>6. actors[x].research \in Nat \ {0} OBVIOUS
    <3>7. Cardinality(s) <= E(s)
      <4> HIDE DEF E
      <4> QED BY <3>2, <3>3, <3>4, <3>5, <3>6
    <3> QED BY <3>7
  <2> QED BY <2>1, <2>2
<1> HIDE DEF P
<1>3. \A s \in SUBSET S : s \in P BY <1>2, SubsetInduction
<1> QED BY <1>3 DEF P

(* What is evaluable has research episodes, and what matches is evaluable. *)
LEMMA EvaluableHasEpisodes ==
  ASSUME NEW k \in DOMAIN Patterns, NEW a \in Candidates
  PROVE  /\ PatternEvaluable(Patterns[k], a) => a.research \in Nat \ {0}
         /\ PatternMatched(Patterns[k], a) => PatternEvaluable(Patterns[k], a)
<1> DEFINE p == Patterns[k]
<1>1. PatternMatched(p, a) => PatternEvaluable(p, a) BY DEF PatternMatched, PatternEvaluable
<1>2. ASSUME PatternEvaluable(p, a), a.research = 0 PROVE FALSE
  <2>1. \A j \in DOMAIN p : ~CanEvaluate(p[j], a)
    BY <1>2, PatternsOK, FeaturesNeedEpisodes DEF CanEvaluate, Observed
  <2>2. StoppedBy(p, a) = DOMAIN p BY <2>1 DEF StoppedBy
  <2>3. 1 \in DOMAIN p /\ \A j \in DOMAIN p : 1 <= j /\ j \in Int BY PatternsOK
  <2>4. Min(DOMAIN p) \in DOMAIN p
    <3> HIDE DEF p
    <3> QED BY <2>3 DEF Min
  <2>5. CanEvaluate(p[Min(StoppedBy(p, a))], a) BY <1>2, <2>2, <2>3 DEF PatternEvaluable
  <2> QED BY <2>1, <2>2, <2>4, <2>5
<1>3. a.research \in Nat BY FeaturesNeedEpisodes
<1> QED BY <1>1, <1>2, <1>3

(* The counts of one side, for any wallets of the report.                  *)
LEMMA SupportCounts ==
  ASSUME actors \in Seq(Candidates), NEW k \in DOMAIN Patterns, NEW S \in SUBSET DOMAIN actors
  PROVE  LET x == Support(Patterns[k], S)
             ev == Evaluable(Patterns[k], S)
             ma == MatchedBy(Patterns[k], S)
         IN  /\ x.total - x.n - Cardinality(DataMissing(S)) >= 0
             /\ x.hit <= x.n /\ x.n <= x.evalEp /\ x.hit <= x.matchEp /\ x.matchEp <= x.evalEp
             /\ x.n \in Nat /\ x.hit \in Nat /\ x.total \in Nat
             /\ x.n = Cardinality(ev) /\ x.hit = Cardinality(ma)
             /\ IsFiniteSet(ev) /\ IsFiniteSet(ma) /\ ma \subseteq ev
<1> DEFINE x == Support(Patterns[k], S)
           ev == Evaluable(Patterns[k], S)
           ma == MatchedBy(Patterns[k], S)
           dm == DataMissing(S)
<1>1. IsFiniteSet(S)
  <2>1. DOMAIN actors = 1 .. Len(actors) /\ Len(actors) \in Nat OBVIOUS
  <2>2. IsFiniteSet(DOMAIN actors) BY <2>1, FS_Interval
  <2> QED BY <2>2, FS_Subset
<1>2. \A n \in S : actors[n] \in Candidates /\ actors[n].research \in Nat
  BY FeaturesNeedEpisodes
<1>3. \A n \in ev : actors[n].research \in Nat \ {0}
  BY <1>2, EvaluableHasEpisodes DEF Evaluable
<1>4. ma \subseteq ev BY <1>2, EvaluableHasEpisodes DEF Evaluable, MatchedBy
<1>5. ev \in SUBSET S /\ dm \in SUBSET S /\ ev \cap dm = {}
  BY <1>3 DEF Evaluable, DataMissing
<1>6. /\ x.total = Cardinality(S) /\ x.n = Cardinality(ev) /\ x.hit = Cardinality(ma)
      /\ x.evalEp = ResearchEpisodes(ev) /\ x.matchEp = ResearchEpisodes(ma)
  BY DEF Support
<1> HIDE DEF x, ev, ma, dm
<1>7. /\ IsFiniteSet(ev) /\ IsFiniteSet(dm) /\ IsFiniteSet(ma)
      /\ Cardinality(ma) <= Cardinality(ev)
  <2>1. IsFiniteSet(ev) /\ IsFiniteSet(dm) BY <1>1, <1>5, FS_Subset
  <2> QED BY <2>1, <1>4, FS_Subset
<1>8. /\ Cardinality(S) \in Nat /\ Cardinality(ev) \in Nat /\ Cardinality(dm) \in Nat
      /\ Cardinality(ma) \in Nat
  BY <1>1, <1>7, FS_CardinalityType
<1>9. Cardinality(ev) + Cardinality(dm) <= Cardinality(S)
  <2>1. ev \cup dm \in SUBSET S BY <1>5
  <2>2. Cardinality(ev \cup dm) = Cardinality(ev) + Cardinality(dm) - Cardinality({})
    BY <1>5, <1>7, FS_Union
  <2>3. Cardinality(ev \cup dm) <= Cardinality(S) BY <1>1, <2>1, FS_Subset
  <2>4. Cardinality({}) = 0 BY FS_EmptySet
  <2> QED BY <2>2, <2>3, <2>4, <1>8
<1>10. \A n \in ev : actors[n].research \in Nat BY <1>3
<1>11. \A n \in ma : actors[n].research \in Nat \ {0} BY <1>3, <1>4
<1>12. Cardinality(ev) <= ResearchEpisodes(ev) BY <1>3, <1>7, SumOfPositive
<1>13. Cardinality(ma) <= ResearchEpisodes(ma) BY <1>7, <1>11, SumOfPositive
<1>14. ResearchEpisodes(ma) <= ResearchEpisodes(ev) BY <1>4, <1>7, <1>10, SumOfPart
<1>15. x.total - x.n - Cardinality(dm) >= 0 BY <1>6, <1>8, <1>9
<1> QED BY <1>4, <1>6, <1>7, <1>8, <1>12, <1>13, <1>14, <1>15 DEF x, ev, ma, dm

LEMMA CellIsOfRows == RankInv => actors \in Seq(Candidates) /\ \A c : Cell(c) \in SUBSET DOMAIN actors
BY DEF RankInv, RankTypeOK, Cell, Matched, Rows

(* The counts of a report are honest, for any wallets and patterns         *)
(* (analyze/matrix.go:378-394, mechanism/matrix.go:215-230).               *)
THEOREM CountsHold == Spec => []CountsAreHonest
<1>1. RankInv => CountsAreHonest BY CellIsOfRows, SupportCounts DEF CountsAreHonest
<1> QED BY <1>1, RankInvHolds, PTL

(* The gates ask for something, as they do unless a flag sets one to zero. *)
GatesAskSomething == MinSideN > 0 /\ MinPrevalence > 0 /\ MinSeparation > 0

(* What the gates leave over, in plain numbers.                            *)
LEMMA ProductsCompare ==
  ASSUME NEW x \in Nat, NEW y \in Nat, NEW z \in Nat, x <= y
  PROVE  x * z <= y * z /\ z * x <= z * y /\ x * z \in Nat
OBVIOUS

LEMMA ProductIsPositive ==
  ASSUME NEW x \in Nat \ {0}, NEW y \in Nat \ {0}
  PROVE  x * y \in Nat \ {0}
<1>1. 1 * y <= x * y /\ x * y \in Nat BY ProductsCompare
<1> QED BY <1>1

LEMMA GatesLeaveContrast ==
  ASSUME GatesAskSomething, NEW x, NEW y, GateStatus(x, y) = "OK",
         x.n \in Nat, x.hit \in Nat, x.total \in Nat, x.hit <= x.n,
         y.n \in Nat, y.hit \in Nat, y.total \in Nat, y.hit <= y.n
  PROVE  x.hit > 0 /\ y.hit < y.n
<1>1. /\ ~(x.n < MinSideN) /\ ~(y.n < MinSideN)
      /\ ~(100 * x.hit < MinPrevalence * x.n)
      /\ ~(100 * (x.hit * y.n - y.hit * x.n) < MinSeparation * x.n * y.n)
  BY DEF GateStatus
<1>2. MinSideN \in Nat \ {0} /\ MinPrevalence \in Nat \ {0} /\ MinSeparation \in Nat \ {0}
  BY GatesOK DEF GatesAskSomething
<1>3. x.n \in Nat \ {0} /\ y.n \in Nat \ {0} BY <1>1, <1>2
<1>4. MinPrevalence * x.n \in Nat \ {0} BY <1>2, <1>3, ProductIsPositive
<1>5. x.hit > 0
  <2> DEFINE m == MinPrevalence * x.n
  <2>1. 100 * x.hit >= m /\ m \in Nat \ {0} BY <1>1, <1>4
  <2> HIDE DEF m
  <2> QED BY <2>1
<1>6. MinSeparation * x.n * y.n \in Nat \ {0}
  <2>1. MinSeparation * x.n \in Nat \ {0} BY <1>2, <1>3, ProductIsPositive
  <2> QED BY <2>1, <1>3, ProductIsPositive
<1>7. x.hit * y.n - y.hit * x.n > 0
  <2>1. x.hit * y.n \in Nat /\ y.hit * x.n \in Nat BY <1>3, ProductsCompare
  <2> DEFINE d == x.hit * y.n - y.hit * x.n
             m == MinSeparation * x.n * y.n
  <2>2. d \in Int BY <2>1
  <2>3. ~(100 * d < m) /\ m \in Nat \ {0} BY <1>1, <1>6
  <2> HIDE DEF d, m
  <2>4. d > 0 BY <2>2, <2>3
  <2> QED BY <2>4 DEF d
<1>8. x.hit * y.n <= x.n * y.n BY <1>3, ProductsCompare
<1>9. SUFFICES ASSUME y.n <= y.hit PROVE FALSE BY <1>5, <1>3
<1>10. y.n * x.n <= y.hit * x.n BY <1>9, <1>3, ProductsCompare
<1>11. y.n * x.n = x.n * y.n BY <1>3
<1>12. x.hit * y.n \in Nat /\ y.hit * x.n \in Nat /\ x.n * y.n \in Nat BY <1>3
<1> DEFINE u == x.hit * y.n
           v == y.hit * x.n
           z == x.n * y.n
<1>13. u <= z /\ z <= v /\ u - v > 0 /\ u \in Nat /\ v \in Nat /\ z \in Nat
  BY <1>7, <1>8, <1>10, <1>11, <1>12
<1> HIDE DEF u, v, z
<1> QED BY <1>13

LEMMA ContrastsCompare ==
  ASSUME RankInv, GatesAskSomething
  PROVE  HypothesesAreCompared
<1> SUFFICES ASSUME NEW c \in {"B", "C"}, NEW k \in Contrast(c)
             PROVE  /\ MatchedBy(Patterns[k], Cell("A")) # {}
                    /\ Evaluable(Patterns[k], Cell(c)) \ MatchedBy(Patterns[k], Cell(c)) # {}
  BY DEF HypothesesAreCompared
<1> DEFINE x == Support(Patterns[k], Cell("A"))
           y == Support(Patterns[k], Cell(c))
<1>1. k \in DOMAIN Patterns /\ GateStatus(x, y) = "OK"
  BY DEF Contrast, Hypotheses
<1>2. /\ x.n \in Nat /\ x.hit \in Nat /\ x.total \in Nat /\ x.hit <= x.n
      /\ x.hit = Cardinality(MatchedBy(Patterns[k], Cell("A")))
      /\ y.n \in Nat /\ y.hit \in Nat /\ y.total \in Nat /\ y.hit <= y.n
      /\ y.n = Cardinality(Evaluable(Patterns[k], Cell(c)))
      /\ y.hit = Cardinality(MatchedBy(Patterns[k], Cell(c)))
      /\ MatchedBy(Patterns[k], Cell(c)) \subseteq Evaluable(Patterns[k], Cell(c))
  BY <1>1, CellIsOfRows, SupportCounts
<1> HIDE DEF x, y
<1>3. x.hit > 0 /\ y.hit < y.n BY <1>1, <1>2, GatesLeaveContrast
<1>4. MatchedBy(Patterns[k], Cell("A")) # {} BY <1>2, <1>3, FS_EmptySet
<1>5. Evaluable(Patterns[k], Cell(c)) # MatchedBy(Patterns[k], Cell(c)) BY <1>2, <1>3
<1> QED BY <1>2, <1>4, <1>5

(* As long as no gate is set to zero, a hypothesis compares actors that    *)
(* show the pattern with actors that could and do not                      *)
(* (mechanism/matrix.go:381-475).                                          *)
THEOREM SupportHolds ==
  ASSUME GatesAskSomething
  PROVE  Spec => []SupportIsHonest
<1>1. RankInv => CountsAreHonest BY CellIsOfRows, SupportCounts DEF CountsAreHonest
<1>2. RankInv => HypothesesAreCompared BY ContrastsCompare
<1> QED BY <1>1, <1>2, RankInvHolds, PTL DEF SupportIsHonest

-----------------------------------------------------------------------------
(* The daily report.  Between two commands of the script an agent stages    *)
(* and commits, so the invariant relates the files, the index and the      *)
(* commits at each place of the script rather than what one command did.   *)

(* A report says what its windows cleared.                                 *)
Earned(r) ==
  LET earned == \E n \in DOMAIN r.lines : r.lines[n] = Gates
  IN  /\ r.status = "REACHED" => earned /\ Len(r.lines) = NumWindows
      /\ r.status = "KEEP COLLECTING" => ~earned /\ Len(r.lines) = NumWindows

Reports == [day : 0 .. MaxDays, lines : Seq(SUBSET Gates),
            status : {"none", "ERROR", "REACHED", "KEEP COLLECTING"}, warned : BOOLEAN]

Trees == [report : Reports, dated : [Days -> Reports \cup {NULL}]]

DailyTypeOK ==
  /\ day \in Days /\ qualifying \in 0 .. NumWindows
  /\ Tree \in Trees /\ index \in Trees /\ head \in Trees /\ remote \in Trees

Concluded == {"REACHED", "KEEP COLLECTING", "ERROR"}

Syncing == {"look", "status", "add", "commit", "push"}

Finished == pc = "idle" /\ ended \in {"ok", "error"} /\ report.day # 0

(* The script remembers of the windows what the report says of them.       *)
TriggerFollowsLines ==
  pc = "windows" =>
    /\ report.status = "none" /\ Len(report.lines) <= NumWindows
    /\ qualifying # 0 <=> \E n \in DOMAIN report.lines : report.lines[n] = Gates

(* From its conclusion on, the report only gains a warning, and only as the*)
(* run ends.                                                               *)
ReportIsKept ==
  /\ pc # "idle" => report.day # 0 /\ ~report.warned
  /\ pc = "copy" \/ pc \in Syncing \/ Finished => report.status \in Concluded
  /\ pc \in Syncing \/ Finished => dated[report.day] = [report EXCEPT !.warned = FALSE]
  /\ Finished /\ ended = "ok" => report.status # "ERROR"

(* What git has follows the files, whoever commits.                        *)
RepoFollows ==
  /\ committed => pc \in {"push", "idle"}
  /\ pc = "commit" => index = Tree
  /\ pc = "push" => index = Tree /\ head = Tree /\ committed
  /\ Finished /\ ~report.warned =>
       IF committed THEN remote = Tree ELSE blind \/ (index = Tree /\ head = Tree)

(* Whoever commits next, the agent's files that the script missed are late.*)
LookedAt == pc \in {"status", "add", "commit"} => staged \subseteq late

DailyInv ==
  /\ DailyTypeOK /\ ReachedIsEarned
  /\ TriggerFollowsLines /\ ReportIsKept /\ RepoFollows /\ LookedAt

-----------------------------------------------------------------------------
LEMMA DailyBounds == MaxDays \in Nat \ {0} /\ NumWindows \in Nat \ {0} /\ 1 \in Days
BY DailyConstantsOK DEF DailyConstantsOK, Days

LEMMA EarnedTrees ==
  ReachedIsEarned <=>
    \A tree \in {Tree, index, head, remote} : \A r \in ReportsOf(tree) : Earned(r)
BY DEF ReachedIsEarned, Earned

(* A step puts in each place of git what was there or in the place before. *)
LEMMA KeepsEarned ==
  ASSUME ReachedIsEarned,
         \A r \in ReportsOf(Tree') : Earned(r),
         index' \in {Tree', index}, head' \in {index, head}, remote' \in {head, remote}
  PROVE  ReachedIsEarned'
<1>1. \A tree \in {Tree', index, head, remote} : \A r \in ReportsOf(tree) : Earned(r)
  BY EarnedTrees
<1>2. \A tree \in {Tree', index', head', remote'} : \A r \in ReportsOf(tree) : Earned(r)
  BY <1>1
<1> QED BY <1>2 DEF ReachedIsEarned, Earned, Tree

LEMMA EarnedReports ==
  ASSUME ReachedIsEarned PROVE \A r \in ReportsOf(Tree) : Earned(r)
BY EarnedTrees

(* A new report leaves the dated ones alone.                               *)
LEMMA ReportEarned ==
  ASSUME ReachedIsEarned, Earned(report'), dated' = dated
  PROVE  \A r \in ReportsOf(Tree') : Earned(r)
<1>1. \A d \in Days : dated[d] # NULL => dated[d] \in ReportsOf(Tree)
  BY DEF ReportsOf, Tree
<1> QED BY <1>1, EarnedReports DEF ReportsOf, Tree

LEMMA InitDaily == DailyInit => DailyInv
<1> SUFFICES ASSUME DailyInit PROVE DailyInv
  OBVIOUS
<1> USE DailyBounds DEF DailyInit, Blank
<1>1. report \in Reports /\ dated \in [Days -> Reports \cup {NULL}]
  BY DEF Reports
<1>2. DailyTypeOK
  BY <1>1 DEF DailyTypeOK, Trees, Tree
<1>3. ReportsOf(Tree) = {report} /\ Earned(report)
  BY DEF ReportsOf, Tree, Earned
<1>4. ReachedIsEarned
  BY <1>3, EarnedTrees
<1>5. TriggerFollowsLines /\ ReportIsKept /\ RepoFollows /\ LookedAt
  BY DEF TriggerFollowsLines, ReportIsKept, RepoFollows, LookedAt, Syncing, Finished, Tree
<1> QED BY <1>2, <1>4, <1>5 DEF DailyInv

(* The calendar and the agent touch neither the files nor where the script *)
(* is.                                                                     *)
LEMMA AgentDaily ==
  ASSUME DailyInv, NextDay \/ AgentStages \/ AgentCommits PROVE DailyInv'
<1>1. UNCHANGED <<pc, ended, qualifying, report, dated, index, remote, committed, blind>>
      /\ Tree' = Tree /\ head' \in {index, head}
  BY DEF NextDay, AgentStages, AgentCommits, repo, marks, Tree
<1>2. DailyTypeOK'
  BY <1>1, DailyBounds DEF NextDay, AgentStages, AgentCommits, DailyInv, DailyTypeOK, Days
<1>3. ReachedIsEarned'
  BY <1>1, KeepsEarned, EarnedReports DEF DailyInv
<1>4. TriggerFollowsLines' /\ ReportIsKept' /\ RepoFollows'
  BY <1>1 DEF DailyInv, TriggerFollowsLines, ReportIsKept, RepoFollows, Finished
<1>5. LookedAt'
  BY <1>1 DEF NextDay, AgentStages, AgentCommits, agents, marks, DailyInv, LookedAt
<1> QED BY <1>2, <1>3, <1>4, <1>5 DEF DailyInv

LEMMA BlankReport ==
  ASSUME NEW d \in Days PROVE Blank(d) \in Reports /\ Earned(Blank(d))
BY DailyBounds DEF Blank, Reports, Earned, Days

LEMMA BeginDaily == ASSUME DailyInv, Begin PROVE DailyInv'
<1>1. /\ report' = Blank(day) /\ qualifying' = 0 /\ ~committed' /\ pc' = "windows"
      /\ UNCHANGED <<day, ended, dated, index, head, remote, staged, late>>
  BY DEF Begin, Goto, repo, agents
<1>2. report' \in Reports /\ Earned(report') /\ day \in Days
  BY <1>1, BlankReport DEF DailyInv, DailyTypeOK
<1>3. DailyTypeOK'
  BY <1>1, <1>2, DailyBounds DEF DailyInv, DailyTypeOK, Trees, Tree
<1>4. ReachedIsEarned'
  BY <1>1, <1>2, ReportEarned, KeepsEarned DEF DailyInv
<1>5. TriggerFollowsLines'
  BY <1>1, DailyBounds DEF TriggerFollowsLines, Blank
<1>6. ReportIsKept' /\ RepoFollows' /\ LookedAt'
  BY <1>1, <1>2 DEF ReportIsKept, RepoFollows, LookedAt, Finished, Syncing, Blank, Days
<1> QED BY <1>3, <1>4, <1>5, <1>6 DEF DailyInv

(* A window more.                                                          *)
LEMMA WindowDaily == ASSUME DailyInv, Measure \/ MatrixFails PROVE DailyInv'
<1>0. /\ pc = "windows" /\ Len(report.lines) < NumWindows
      /\ report \in Reports /\ report.status = "none" /\ report.day # 0 /\ ~report.warned
      /\ UNCHANGED <<day, ended, dated, index, head, remote, staged, late, committed>>
  BY DEF Measure, MatrixFails, repo, agents, marks, DailyInv, DailyTypeOK, Trees, Tree,
         TriggerFollowsLines, ReportIsKept
<1> DEFINE L == Len(report.lines)
<1>9. report.lines \in Seq(SUBSET Gates) /\ L \in Nat /\ DOMAIN report.lines = 1 .. L
  <2>1. report.lines \in Seq(SUBSET Gates)
    BY <1>0 DEF Reports
  <2> QED BY <2>1
<1>1. ASSUME NEW g \in SUBSET Gates
      PROVE  /\ Reported(g) \in Reports /\ Reported(g).status = "none"
             /\ Reported(g).day = report.day /\ Reported(g).warned = report.warned
             /\ DOMAIN Reported(g).lines = 1 .. L + 1
             /\ Len(Reported(g).lines) = L + 1
             /\ Reported(g).lines[L + 1] = g
             /\ \A n \in 1 .. L : Reported(g).lines[n] = report.lines[n]
  <2>1. Append(report.lines, g) \in Seq(SUBSET Gates)
    BY <1>9
  <2>2. /\ Len(Append(report.lines, g)) = L + 1
        /\ DOMAIN Append(report.lines, g) = 1 .. L + 1
        /\ Append(report.lines, g)[L + 1] = g
        /\ \A n \in 1 .. L : Append(report.lines, g)[n] = report.lines[n]
    BY <1>9
  <2>3. /\ Reported(g) \in Reports /\ Reported(g).lines = Append(report.lines, g)
        /\ Reported(g).status = "none" /\ Reported(g).day = report.day
        /\ Reported(g).warned = report.warned
    BY <1>0, <2>1 DEF Reported, Reports
  <2> QED BY <2>2, <2>3
<1>2. CASE Measure
  <2>1. PICK g \in SUBSET Gates :
          /\ report' = Reported(g)
          /\ qualifying' = IF qualifying = 0 /\ Qualifies(g) THEN L + 1 ELSE qualifying
    BY <1>2 DEF Measure
  <2>2. pc' = "windows" /\ L \in Nat /\ DOMAIN report.lines = 1 .. L
    BY <1>0, <1>2, <1>9 DEF Measure
  <2>3. DailyTypeOK'
    BY <1>0, <1>1, <2>1, <2>2, DailyBounds DEF DailyInv, DailyTypeOK, Trees, Tree
  <2>4. ReachedIsEarned'
    <3>1. Earned(report')
      BY <1>1, <2>1 DEF Earned
    <3> QED BY <1>0, <3>1, ReportEarned, KeepsEarned DEF DailyInv
  <2>5. TriggerFollowsLines'
    <3>1. qualifying # 0 <=> \E n \in 1 .. L : report.lines[n] = Gates
      BY <1>0, <2>2 DEF DailyInv, TriggerFollowsLines
    <3>2. qualifying' # 0 <=> qualifying # 0 \/ g = Gates
      BY <2>1, <2>2 DEF Qualifies
    <3>3. (\E n \in 1 .. L + 1 : report'.lines[n] = Gates)
            <=> (\E n \in 1 .. L : report.lines[n] = Gates) \/ g = Gates
      BY <1>1, <2>1, <2>2
    <3>4. Len(report'.lines) <= NumWindows /\ report'.status = "none"
      BY <1>0, <1>1, <2>1, <2>2, DailyBounds
    <3> QED BY <1>1, <2>1, <3>1, <3>2, <3>3, <3>4 DEF TriggerFollowsLines
  <2>6. ReportIsKept' /\ RepoFollows' /\ LookedAt'
    BY <1>0, <1>1, <2>1, <2>2
       DEF DailyInv, ReportIsKept, RepoFollows, LookedAt, Finished, Syncing
  <2> QED BY <2>3, <2>4, <2>5, <2>6 DEF DailyInv
<1>3. CASE MatrixFails
  <2>1. report' = [Reported({}) EXCEPT !.status = "ERROR"] /\ pc' = "copy"
        /\ qualifying' = qualifying
    BY <1>3 DEF MatrixFails, Goto
  <2>2. report' \in Reports /\ report'.status = "ERROR" /\ report'.day = report.day
        /\ ~report'.warned
    BY <1>0, <1>1, <2>1 DEF Reports
  <2>3. DailyTypeOK'
    BY <1>0, <2>1, <2>2 DEF DailyInv, DailyTypeOK, Trees, Tree
  <2>4. ReachedIsEarned'
    <3>1. Earned(report')
      BY <2>2 DEF Earned
    <3> QED BY <1>0, <3>1, ReportEarned, KeepsEarned DEF DailyInv
  <2>5. TriggerFollowsLines' /\ ReportIsKept' /\ RepoFollows' /\ LookedAt'
    BY <1>0, <2>1, <2>2
       DEF DailyInv, TriggerFollowsLines, ReportIsKept, RepoFollows, LookedAt, Finished, Syncing,
           Concluded
  <2> QED BY <2>3, <2>4, <2>5 DEF DailyInv
<1> QED BY <1>2, <1>3

(* The trigger, as the windows cleared it.                                 *)
LEMMA ConcludeDaily == ASSUME DailyInv, Conclude PROVE DailyInv'
<1>1. /\ report \in Reports /\ pc = "windows" /\ Len(report.lines) = NumWindows
      /\ report' = [report EXCEPT !.status = IF qualifying # 0 THEN "REACHED" ELSE "KEEP COLLECTING"]
      /\ pc' = "copy"
      /\ UNCHANGED <<day, ended, qualifying, dated, index, head, remote, staged, late, committed>>
  BY DEF Conclude, Goto, repo, agents, marks, DailyInv, DailyTypeOK, Trees, Tree
<1>2. /\ report' \in Reports /\ report'.day = report.day /\ report'.lines = report.lines
      /\ report'.warned = report.warned
      /\ report'.status = IF qualifying # 0 THEN "REACHED" ELSE "KEEP COLLECTING"
  BY <1>1 DEF Reports
<1>3. DailyTypeOK'
  BY <1>1, <1>2 DEF DailyInv, DailyTypeOK, Trees, Tree
<1>4. ReachedIsEarned'
  <2>1. Earned(report')
    <3>1. qualifying # 0 <=> \E n \in DOMAIN report.lines : report.lines[n] = Gates
      <4>1. pc = "windows" /\ TriggerFollowsLines
        BY <1>1 DEF DailyInv
      <4> QED BY <4>1 DEF TriggerFollowsLines
    <3>2. CASE qualifying # 0
      <4>1. report'.status = "REACHED" /\ Len(report'.lines) = NumWindows
        BY <1>1, <1>2, <3>2
      <4> QED BY <1>2, <3>1, <3>2, <4>1 DEF Earned
    <3>3. CASE qualifying = 0
      <4>1. report'.status = "KEEP COLLECTING" /\ Len(report'.lines) = NumWindows
        BY <1>1, <1>2, <3>3
      <4> QED BY <1>2, <3>1, <3>3, <4>1 DEF Earned
    <3> QED BY <3>2, <3>3
  <2> QED BY <1>1, <2>1, ReportEarned, KeepsEarned DEF DailyInv
<1>5. TriggerFollowsLines' /\ ReportIsKept' /\ RepoFollows' /\ LookedAt'
  BY <1>1, <1>2
     DEF DailyInv, TriggerFollowsLines, ReportIsKept, RepoFollows, LookedAt, Finished, Syncing,
         Concluded
<1> QED BY <1>3, <1>4, <1>5 DEF DailyInv

LEMMA CopyDaily == ASSUME DailyInv, Copy PROVE DailyInv'
<1>1. /\ pc = "copy" /\ pc' = "look" /\ report \in Reports
      /\ dated \in [Days -> Reports \cup {NULL}]
      /\ dated' = [dated EXCEPT ![report.day] = report]
      /\ UNCHANGED <<day, ended, qualifying, report, index, head, remote, staged, late, committed>>
  BY DEF Copy, Goto, repo, agents, marks, DailyInv, DailyTypeOK, Trees, Tree
<1>2. report.day \in Days /\ ~report.warned /\ report.status \in Concluded
  <2>1. report.day # 0 /\ ~report.warned /\ report.status \in Concluded
    <3>1. pc = "copy" /\ ReportIsKept
      BY <1>1 DEF DailyInv
    <3> QED BY <3>1 DEF ReportIsKept
  <2>2. report.day \in Days
    <3>1. report.day \in 0 .. MaxDays
      BY <1>1 DEF Reports
    <3> QED BY <2>1, <3>1, DailyBounds DEF Days
  <2> QED BY <2>1, <2>2
<1>3. DailyTypeOK'
  BY <1>1, <1>2 DEF DailyInv, DailyTypeOK, Trees, Tree
<1>4. ReachedIsEarned'
  <2>1. \A d \in Days : dated'[d] \in {dated[d], report}
    BY <1>1
  <2>2. ReportsOf(Tree') \subseteq ReportsOf(Tree)
    BY <1>1, <2>1 DEF ReportsOf, Tree
  <2> QED BY <1>1, <2>2, EarnedReports, KeepsEarned DEF DailyInv
<1>5. ReportIsKept'
  <2>1. dated'[report.day] = report
    BY <1>1, <1>2
  <2>2. report = [report EXCEPT !.warned = FALSE]
    BY <1>1, <1>2 DEF Reports
  <2>3. report.day # 0
    BY <1>1 DEF DailyInv, ReportIsKept
  <2> QED BY <1>1, <1>2, <2>1, <2>2, <2>3 DEF ReportIsKept, Finished
<1>6. TriggerFollowsLines' /\ RepoFollows' /\ LookedAt'
  BY <1>1 DEF DailyInv, TriggerFollowsLines, RepoFollows, LookedAt, Finished
<1> QED BY <1>3, <1>4, <1>5, <1>6 DEF DailyInv

(* The sync goes on: neither the files nor the ending changes.             *)
LEMMA SyncGoesOn ==
  ASSUME DailyInv, pc \in Syncing, pc' \in Syncing, UNCHANGED <<day, ended, qualifying, report, dated>>,
         index' \in {Tree, index}, head' \in {index, head}, remote' \in {head, remote},
         RepoFollows', LookedAt'
  PROVE  DailyInv'
<1>1. Tree' = Tree
  BY DEF Tree
<1>2. DailyTypeOK'
  BY <1>1 DEF DailyInv, DailyTypeOK
<1>3. ReachedIsEarned'
  BY <1>1, EarnedReports, KeepsEarned DEF DailyInv
<1>4. TriggerFollowsLines' /\ ReportIsKept'
  BY DEF DailyInv, TriggerFollowsLines, ReportIsKept, Finished, Syncing
<1> QED BY <1>2, <1>3, <1>4 DEF DailyInv

(* The run ends: aborted, with a warning, or as it should.                 *)
LEMMA RunEnds ==
  ASSUME DailyInv, pc # "idle", pc' = "idle", UNCHANGED <<day, qualifying, dated, index, head>>,
         remote' \in {head, remote}, committed' = committed,
         \/ ended' = "aborted" /\ report' = report
         \/ pc \in Syncing /\ Warn
         \/ /\ pc \in Syncing /\ End(ExitStatus) /\ report' = report
            /\ IF committed THEN remote' = Tree ELSE blind' \/ (index = Tree /\ head = Tree)
  PROVE  DailyInv'
<1>0. /\ report \in Reports /\ dated \in [Days -> Reports \cup {NULL}]
      /\ report.day # 0 /\ ~report.warned
  BY DEF DailyInv, DailyTypeOK, Trees, Tree, ReportIsKept
<1>1. report' \in Reports /\ report' \in {report, [report EXCEPT !.warned = TRUE]}
  BY <1>0 DEF Warn, Reports
<1>2. /\ report'.day = report.day /\ report'.lines = report.lines /\ report'.status = report.status
      /\ [report' EXCEPT !.warned = FALSE] = [report EXCEPT !.warned = FALSE]
  BY <1>0, <1>1 DEF Reports
<1>3. DailyTypeOK'
  BY <1>0, <1>1 DEF DailyInv, DailyTypeOK, Trees, Tree
<1>4. ReachedIsEarned'
  <2>1. Earned(report)
    BY EarnedReports DEF DailyInv, ReportsOf, Tree
  <2>2. Earned(report')
    BY <1>2, <2>1 DEF Earned
  <2> QED BY <2>2, ReportEarned, KeepsEarned DEF DailyInv
<1>5. ended' = "aborted" \/ (pc \in Syncing /\ ended' = ExitStatus)
  BY DEF Warn, End
<1>6. ReportIsKept'
  BY <1>2, <1>5 DEF DailyInv, ReportIsKept, Finished, Syncing, ExitStatus
<1>7. RepoFollows'
  <2>1. \/ ended' = "aborted" \/ report'.warned
        \/ IF committed THEN remote' = Tree ELSE blind' \/ (index = Tree /\ head = Tree)
    BY <1>0, <1>1 DEF Warn, Reports
  <2>2. ended' # "aborted" /\ ~report'.warned => Tree' = Tree
    BY <1>0, <1>1 DEF Warn, Tree, Reports
  <2> QED BY <2>1, <2>2 DEF RepoFollows, Finished
<1>8. TriggerFollowsLines' /\ LookedAt'
  BY DEF TriggerFollowsLines, LookedAt
<1> QED BY <1>3, <1>4, <1>6, <1>7, <1>8 DEF DailyInv

LEMMA DiffDaily == ASSUME DailyInv, DiffFails PROVE DailyInv'
<1>1. /\ pc = "look" /\ pc' = "status" /\ late' = staged
      /\ UNCHANGED <<day, ended, qualifying, report, dated, index, head, remote, staged, committed>>
  BY DEF DiffFails, Goto, repo, marks
<1>2. LookedAt' /\ RepoFollows'
  BY <1>1 DEF DailyInv, LookedAt, RepoFollows, Finished
<1> QED BY <1>1, <1>2, SyncGoesOn DEF Syncing

LEMMA LookDaily == ASSUME DailyInv, LookAtIndex PROVE DailyInv'
<1>1. /\ pc = "look" /\ "look" \in Syncing
      /\ UNCHANGED <<day, qualifying, dated, index, head, remote, staged, committed>>
  BY DEF LookAtIndex, repo, marks, Syncing
<1>2. CASE Warn
  BY <1>1, <1>2, RunEnds DEF Warn, End
<1>3. CASE ~Warn
  <2>1. /\ pc' = "status" /\ ended' = ended /\ report' = report
        /\ late' = IF LookFails THEN staged ELSE {}
        /\ ~SeesForeign \/ LookFails
    BY <1>3 DEF LookAtIndex, Goto
  <2>2. LookedAt'
    BY <1>1, <2>1 DEF LookedAt, SeesForeign
  <2>3. RepoFollows'
    BY <1>1, <2>1 DEF DailyInv, RepoFollows, Finished
  <2> QED BY <1>1, <2>1, <2>2, <2>3, SyncGoesOn DEF Syncing
<1> QED BY <1>2, <1>3

LEMMA StatusFailsDaily == ASSUME DailyInv, StatusFails PROVE DailyInv'
<1>1. /\ pc = "status" /\ "status" \in Syncing /\ End(ExitStatus) /\ blind'
      /\ UNCHANGED <<day, qualifying, report, dated, index, head, remote, committed>>
  BY DEF StatusFails, repo, Syncing
<1>2. ~committed
  BY <1>1 DEF DailyInv, RepoFollows
<1> QED BY <1>1, <1>2, RunEnds DEF End

LEMMA SyncDaily ==
  ASSUME DailyInv, Status \/ Add \/ Commit \/ CommitFails \/ Push PROVE DailyInv'
<1>1. CASE Status
  <2>1. /\ pc = "status" /\ "status" \in Syncing
        /\ UNCHANGED <<day, qualifying, report, dated, index, head, remote, staged, late, committed>>
    BY <1>1 DEF Status, repo, agents, marks, Syncing
  <2>2. ~committed
    BY <2>1 DEF DailyInv, RepoFollows
  <2>3. CASE Tree = index /\ index = head
    BY <1>1, <2>1, <2>2, <2>3, RunEnds DEF Status, End
  <2>4. CASE ~(Tree = index /\ index = head)
    <3>1. pc' = "add" /\ ended' = ended
      BY <1>1, <2>4 DEF Status, Goto
    <3>2. RepoFollows' /\ LookedAt'
      BY <2>1, <2>2, <3>1 DEF DailyInv, RepoFollows, LookedAt, Finished
    <3> QED BY <2>1, <3>1, <3>2, SyncGoesOn DEF Syncing
  <2> QED BY <2>3, <2>4
<1>2. CASE Add
  <2>1. /\ pc = "add" /\ pc' = "commit" /\ index' = Tree
        /\ UNCHANGED <<day, ended, qualifying, report, dated, head, remote, staged, late, committed>>
    BY <1>2 DEF Add, Goto, agents, marks
  <2>2. RepoFollows' /\ LookedAt'
    BY <2>1 DEF DailyInv, RepoFollows, LookedAt, Finished, Tree
  <2> QED BY <2>1, <2>2, SyncGoesOn DEF Syncing
<1>3. CASE Commit
  <2>1. /\ pc = "commit" /\ pc' = "push" /\ head' = index /\ committed'
        /\ UNCHANGED <<day, ended, qualifying, report, dated, index, remote>>
    BY <1>3 DEF Commit, Goto
  <2>2. RepoFollows' /\ LookedAt'
    BY <2>1 DEF DailyInv, RepoFollows, LookedAt, Finished, Tree
  <2> QED BY <2>1, <2>2, SyncGoesOn DEF Syncing
<1>4. CASE CommitFails
  <2>1. /\ pc = "commit" /\ "commit" \in Syncing /\ Warn
        /\ UNCHANGED <<day, qualifying, dated, index, head, remote, committed>>
    BY <1>4 DEF CommitFails, repo, marks, Syncing
  <2> QED BY <2>1, RunEnds DEF Warn, End
<1>5. CASE Push
  <2>1. /\ pc = "push" /\ "push" \in Syncing
        /\ UNCHANGED <<day, qualifying, dated, index, head, committed>>
        /\ \/ remote' = head /\ End(ExitStatus) /\ report' = report
           \/ Warn /\ remote' = remote
    BY <1>5 DEF Push, Unpushed, Syncing, agents, marks
  <2>2. head = Tree /\ committed
    BY <2>1 DEF DailyInv, RepoFollows
  <2> QED BY <2>1, <2>2, RunEnds DEF Warn, End
<1> QED BY <1>1, <1>2, <1>3, <1>4, <1>5

LEMMA AbortDaily == ASSUME DailyInv, AddFails \/ Abort PROVE DailyInv'
<1>1. /\ pc # "idle" /\ pc' = "idle" /\ ended' = "aborted"
      /\ UNCHANGED <<day, qualifying, report, dated, index, head, remote, committed>>
  BY DEF AddFails, Abort, End, repo, marks
<1> QED BY <1>1, RunEnds

LEMMA StepDaily == DailyInv /\ [DailyNext]_dailyVars => DailyInv'
<1> SUFFICES ASSUME DailyInv, [DailyNext]_dailyVars PROVE DailyInv'
  OBVIOUS
<1>1. CASE NextDay \/ AgentStages \/ AgentCommits
  BY <1>1, AgentDaily
<1>2. CASE Script
  BY <1>2, BeginDaily, WindowDaily, ConcludeDaily, CopyDaily, LookDaily, DiffDaily, SyncDaily,
     StatusFailsDaily, AbortDaily
     DEF Script
<1>3. CASE UNCHANGED dailyVars
  <2>1. UNCHANGED <<day, pc, ended, qualifying, report, dated, index, head, remote, staged, late,
                    committed, blind>> /\ Tree' = Tree
    BY <1>3 DEF dailyVars, Tree
  <2>2. DailyTypeOK'
    BY <2>1 DEF DailyInv, DailyTypeOK
  <2>3. ReachedIsEarned'
    BY <2>1, KeepsEarned, EarnedReports DEF DailyInv
  <2>4. TriggerFollowsLines' /\ ReportIsKept' /\ RepoFollows' /\ LookedAt'
    BY <2>1 DEF DailyInv, TriggerFollowsLines, ReportIsKept, RepoFollows, LookedAt, Finished
  <2> QED BY <2>2, <2>3, <2>4 DEF DailyInv
<1> QED BY <1>1, <1>2, <1>3 DEF DailyNext

(* The inductive invariant of matrix-daily.sh.                             *)
THEOREM DailyInvHolds == DailySpec => []DailyInv
BY InitDaily, StepDaily, PTL DEF DailySpec

(* No report in the files, the index, a commit or the remote says REACHED  *)
(* or KEEP COLLECTING unless all its windows were measured and say so,     *)
(* whatever fails and whoever commits (matrix-daily.sh:7-18, 142-149).     *)
THEOREM ReachedHolds == DailySpec => []ReachedIsEarned
<1>1. DailyInv => ReachedIsEarned BY DEF DailyInv
<1> QED BY <1>1, DailyInvHolds, PTL

(* Exit status 0 means an evaluated trigger and a dated copy of it         *)
(* (matrix-daily.sh:15-19, 111-125).                                       *)
THEOREM SuccessHolds == DailySpec => []SuccessIsEvaluated
<1>1. DailyInv => SuccessIsEvaluated
  BY DEF DailyInv, ReportIsKept, SuccessIsEvaluated, Finished, Concluded
<1> QED BY <1>1, DailyInvHolds, PTL

(* A sync without a warning leaves the report where it ought to be: pushed *)
(* if the run committed, committed if its git status found nothing to      *)
(* (matrix-daily.sh:23-26, 80-89).                                         *)
THEOREM CleanSyncHolds == DailySpec => []CleanSyncPublishes
<1>1. DailyInv => CleanSyncPublishes
  BY DEF DailyInv, RepoFollows, CleanSyncPublishes, Finished
<1> QED BY <1>1, DailyInvHolds, PTL

(* The commit takes along only files of the agent that the look at the     *)
(* index could not tell it of (matrix-daily.sh:74-87).                     *)
THEOREM DragsHolds == DailySpec => DragsOnlyLateFiles
<1>1. DailyInv => [Commit => staged \subseteq late]_dailyVars
  BY DEF DailyInv, LookedAt, Commit
<1> QED BY <1>1, DailyInvHolds, PTL DEF DailySpec, DragsOnlyLateFiles
=============================================================================
