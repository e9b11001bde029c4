CONSTANTS
  Tasks <- MCTasks
  Uids = {"a", "b", "c", "d"}
  Starts <- MCStarts
  Requests <- MCRequests
  NoUid = NoUid
  Nobody = Nobody
  NoDraft = NoDraft
  NotRunning = NotRunning
SPECIFICATION Spec
INVARIANTS TypeOK ProfilesCanBeRun  LayersAgree RefreshedReachesTheCore SomeRequestGoesOn
CHECK_DEADLOCK FALSE
