SPECIFICATION Spec
CONSTANTS
  Targets = {t1, t2}
  NoTarget = NoTarget
  IssuanceRates = {1, 2}
  TargetRates = {0, 1}
  ForcedBlocks = {3}
  MaxBlock = 3
SYMMETRY TargetSymmetry
INVARIANTS
  AllocationComplete
  IssuanceConsistent
PROPERTIES
  NotifiedBeforeChange
