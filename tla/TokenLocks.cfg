SPECIFICATION LocksLiveSpec
CONSTANTS
  DeployFile <- MCDeployFile
  Amount <- MCAmount
  Scenarios <- MCScenarios
  MaxTasks = 2
  MaxFailures = 2
INVARIANTS RecordsSound
PROPERTIES AcceptedLockKept GoalsReached
