SPECIFICATION Spec
CONSTANTS
  Networks <- MCNoIssuance
  MaxQueue = 0
  MaxCrashes <- MCMaxCrashes
INVARIANTS GovernanceKept
