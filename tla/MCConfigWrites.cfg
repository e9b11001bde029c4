CONSTANTS
  Tasks <- MCTasks
  Requests <- AnyRequests
  Tun = Tun
  Nobody = Nobody
  NoDraft = NoDraft
  NotRunning = NotRunning
SPECIFICATION FairSpec
INVARIANTS TypeOK AcceptedMeansCommitted LayersAgree StagedByItsClaimant PortsAllOrNothing AcceptedReachesTheRuntime
PROPERTIES EveryRequestEnds
