SPECIFICATION LiveSpec
CONSTANTS
  f1 = f1
  i1 = i1
  q1 = q1
  q2 = q2
  x1 = x1
  y1 = y1
  Fishermen = {f1}
  Indexers = {i1}
  QueryDisputes = {q1, q2}
  IndexingDisputes = {x1}
  FeeDisputes = {y1}
  IndexerOf <- MCIndexerOf
  FishermanOf <- MCFishermanOf
  RequestOf <- MCRequestOf
  ResponseOf <- MCResponseOf
  NoDispute = NoDispute
  Deposits = {3}
  Periods = {1}
  RewardCuts = {1, 2}
  SlashingCuts = {4}
  StakeAmounts = {4}
  VerifierCuts = {0, 2}
  SlashAmounts = {2}
  PauseInputs = {TRUE, FALSE}
  MaxPPM = 4
  FishermanFunds = 3
  MaxTime = 2
INVARIANTS
  DepositsAccounted
  LinkedResolvedTogether
  RewardNeverBlocksSlash
PROPERTIES
  DisputesEnd
