CONSTANTS
  Tasks <- MCTasks
  Requests <- SettleAndUpdates
  Tun = Tun
  Nobody = Nobody
  NoDraft = NoDraft
  NotRunning = NotRunning
SPECIFICATION Spec
PROPERTIES NoCoreStartsWithTun
