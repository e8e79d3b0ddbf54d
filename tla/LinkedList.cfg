SPECIFICATION ListSpec
CONSTANTS
  Lists = {l1, l2}
  MaxItems = 3
  MaxNonce = 5
  NoItem = NoItem
SYMMETRY ListSymmetry
INVARIANTS
  WellLinked
PROPERTIES
  ImplementsQueues
