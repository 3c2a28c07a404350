SPECIFICATION Spec
CONSTANTS
  EventCapacity = 1
  SendCapacity = 1
  DrainBudget = 2
  MaxAttempts = 1
  MaxPostFailures = 0
INVARIANT ShutdownWhileConnectingIsClean
CHECK_DEADLOCK FALSE
