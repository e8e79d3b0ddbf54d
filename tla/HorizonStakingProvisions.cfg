SPECIFICATION Spec
CONSTANTS
  Providers = {p1}
  Verifiers = {v1}
  Delegators = {d1}
  Operators = {o1}
  TokenAmounts = {1, 2}
  ShareAmounts = {}
  SlippageBounds = {0}
  Cuts = {1}
  FeeCuts = {1}
  Periods = {0, 1}
  PauseInputs = {TRUE, FALSE}
  LockedVerifiers = {v1}
  MaxPPM = 2
  MinDelegation = 4
  MaxThawRequests = 1
  TimestampModulus = 16
  LegacyAmounts = {1}
  TokenSupply = 2
  MaxTime = 2
INVARIANTS
  TypeOK
  StakeCoversProvisions
PROPERTIES
  SlashableUntilThawed
  AcceptedPeriodWithinMaximum
  PausedFreezes
