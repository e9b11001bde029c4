CONSTANTS
  t1 = t1
  t2 = t2
  t3 = t3
  Tasks <- TwoTasks
  MaxCalls = 4
  ReadyAttempts = 2
  DevSidecar = TRUE
  OnWindows = FALSE
SPECIFICATION FairSpec
PROPERTIES OperationsSettle RequestsRetire
CHECK_DEADLOCK FALSE
