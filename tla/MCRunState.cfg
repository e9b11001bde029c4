CONSTANTS
  t1 = t1
  t2 = t2
  t3 = t3
  Tasks <- MCTasks
  MaxCalls = 4
  ReadyAttempts = 2
  DevSidecar = FALSE
  OnWindows = TRUE
SPECIFICATION Spec
INVARIANTS TypeOK StoreMakesSense
PROPERTIES NoDecisionDuringOperation KeepsLatestWord
CHECK_DEADLOCK FALSE
