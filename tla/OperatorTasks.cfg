SPECIFICATION LiveSpec
CONSTANTS
  Accounts = {"deployer", "governor", "reporter", "new"}
  Indexers = {"indexer"}
  Instances = {"A", "B"}
  Deployer = "deployer"
  Governor = "governor"
  Reporter = "reporter"
  Period = 2
  Timeout = 1
  Retentions = {1, 3}
  Scenarios <- MCScenarios
  FirstTime = 3
  MaxTime = 6
  MaxSkew = 1
  MaxTasks = 2
INVARIANTS OraclesSound StatusTruthful
PROPERTIES RequestsTakeEffect
