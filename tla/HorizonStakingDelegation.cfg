SPECIFICATION Spec
CONSTANTS
  Providers = {p1}
  Verifiers = {v1}
  Delegators = {d1, d2}
  Operators = {}
  TokenAmounts = {1, 3}
  ShareAmounts = {1, 2, 3}
  SlippageBounds = {0}
  Cuts = {1}
  FeeCuts = {}
  Periods = {1}
  PauseInputs = {}
  LockedVerifiers = {}
  MaxPPM = 2
  MinDelegation = 1
  MaxThawRequests = 2
  TimestampModulus = 16
  LegacyAmounts = {0}
  TokenSupply = 5
  MaxTime = 2
SYMMETRY DelegatorSymmetry
INVARIANTS
  AccountsConsistent
  PoolSharesAreDelegations
  Solvent
PROPERTIES
  DelegatorsNeverDiluted
