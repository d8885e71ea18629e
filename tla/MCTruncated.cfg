\* One wallet, any five trades.
CONSTANTS
  alice = alice  bob = bob  tok = tok  other = other  NULL = NULL
  Groups <- OneWallet
  Amounts = {1, 8}
  Steps = {1}
  MaxRows = 5
  Ratio = 4
  Sampled = {1, 3, 4}
  FlowWindow = 1
SPECIFICATION Spec
CHECK_DEADLOCK FALSE
INVARIANTS
  TruncationInventsNothing
