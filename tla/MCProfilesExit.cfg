CONSTANTS
  Tasks <- MCTasks
  Uids = {"a", "b", "c", "d"}
  Starts <- MCStarts
  Requests <- EditsAndExit
  NoUid = NoUid
  Nobody = Nobody
  NoDraft = NoDraft
  NotRunning = NotRunning
SPECIFICATION Spec
INVARIANTS ExitSavesTheChanges
CHECK_DEADLOCK FALSE
