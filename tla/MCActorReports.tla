--------------------------- MODULE MCActorReports ---------------------------
(* Wallets chosen to fall on either side of every gate of the leaderboard  *)
(* and the matrix, and two of the default patterns, scaled down.           *)
EXTENDS MechanismMatrix, TLC

CONSTANTS smart, kol, chase, addChase

Figures(q, trades, filled, lost, obs, cons, type) ==
  [quality |-> q, pnl |-> q - trades, trades |-> trades, filled |-> filled,
   marketLoss |-> lost, observed |-> obs, cons |-> cons, type |-> type]

Behavior(research, ch, add, readable) ==
  [research |-> research, readable |-> readable,
   features |-> (chase :> ch @@ addChase :> add)]

MinusInfinity == -1000

ManyWallets == {
  Figures(80, 10, 4, 0,  6,   6, smart) @@ Behavior(2, 2, 5, TRUE),
  Figures(80,  1, 3, 1,  8,   1, kol)   @@ Behavior(1, 8, Missing, TRUE),
  Figures(30, 12, 2, 1, 13,   2, kol)   @@ Behavior(2, 8, Missing, TRUE),
  Figures(30, 10, 5, 0,  9,   9, smart) @@ Behavior(1, 2, 1, TRUE),
  Figures(90, 14, 2, 2, 10,  -5, smart) @@ Behavior(0, Missing, Missing, TRUE),
  Figures(30, 50, 3, 0,  3,   3, smart) @@ Behavior(1, Missing, 1, TRUE),
  Figures(30, 10, 1, 0,  4,   4, kol)   @@ Behavior(1, 8, Missing, TRUE),
  Figures(20,  9, 2, 1, 10,   0, smart) @@ Behavior(1, 8, Missing, TRUE),
  Figures(95, 10, 0, 0,  0,   0, smart) @@ Behavior(0, Missing, Missing, TRUE),
  Figures(30, 10, 5, 0,  9,   9, smart) @@ Behavior(0, Missing, Missing, FALSE) }

Momentum == << [feature |-> chase, op |-> ">", a |-> 5] >>

Scaling == << [feature |-> chase, op |-> "<=", a |-> 3],
              [feature |-> addChase, op |-> "gt_feature", other |-> chase] >>

TwoPatterns == << Momentum, Scaling >>
=============================================================================
