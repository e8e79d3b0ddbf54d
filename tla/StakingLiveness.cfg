SPECIFICATION LiveSpec
CONSTANTS
  Providers = {p1}
  Verifiers = {v1}
  Delegators = {d1}
  Operators = {}
  TokenAmounts = {1, 2}
  ShareAmounts = {1}
  SlippageBounds = {0}
  Cuts = {1}
  FeeCuts = {}
  Periods = {0, 2}
  PauseInputs = {}
  LockedVerifiers = {}
  MaxPPM = 2
  MinDelegation = 1
  MaxThawRequests = 2
  TimestampModulus = 16
  LegacyAmounts = {0}
  TokenSupply = 2
  MaxTime = 3
PROPERTIES
  ThawsComplete
