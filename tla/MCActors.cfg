\* Up to three of ten wallets, in any order; a gate of three market outcomes.
CONSTANTS
  smart = smart  kol = kol  chase = chase  addChase = addChase  Missing = Missing
  Candidates <- ManyWallets
  MaxActors = 3
  MinTrades = 2
  MinMarket = 3
  MinFilled = 2
  NoExitLoss = 20
  Lowest <- MinusInfinity
  Features = {chase, addChase}
  Patterns <- TwoPatterns
  MinQuality = 50
  MinSideN = 1
  MinCoverage = 50
  MaxGap = 30
  MinPrevalence = 40
  MinSeparation = 25
SPECIFICATION Spec
CHECK_DEADLOCK FALSE
INVARIANTS
  FrontierIsPareto
  EveryCellMatchesA
  FunnelAgrees
  SupportIsHonest
