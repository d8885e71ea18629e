\* One wallet, two tokens, any five trades of 1 or 8 tokens.
CONSTANTS
  alice = alice  bob = bob  tok = tok  other = other  NULL = NULL
  Groups <- OneWallet
  Amounts = {1, 8}
  Steps = {0, 1}
  MaxRows = 5
  Ratio = 4
  Sampled = {1, 3, 4}
  FlowWindow = 1
SPECIFICATION Spec
CHECK_DEADLOCK FALSE
INVARIANTS
  EveryTradeInOneEpisode
  StatusIsLedger
  EvidenceAgrees
  ResearchHasNoGap
  OneCohort
  SamplesMatchEvidence
  TruncationOnlyCuts
