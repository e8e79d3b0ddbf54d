SPECIFICATION LiveSpec
CONSTANTS
  Networks <- MCNetworks
  MaxQueue = 4
  MaxCrashes <- MCMaxCrashes
INVARIANTS RolloutSafe GovernanceKept
PROPERTIES CompletionIsStable RolloutCompletes
