SPECIFICATION MCSpec
CONSTANTS
  Hashes = {h1, h2}
  ArgValues = {a1}
  NoHash = NoHash
  NoArgs = NoArgs
  Operators = {o1, o2}
  ProxyTypes = {"graph", "transparent", "shared"}
  MaxCode = 5
  MaxProxies = 1
  MaxBuilds <- MCBound
  MaxCrashes <- MCBound
  MaxExternal <- MCBound
INVARIANTS BooksSound StatusTruthful
PROPERTIES PendingNeverLost EventuallyUpgraded
