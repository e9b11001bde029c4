CONSTANTS
  OnMacOS = FALSE
  Goals <- WithoutAccept
  MaxOps = 3
  MaxFaults = 1
  MaxOwner = 12
SPECIFICATION Spec
INVARIANTS TypeOK NothingDangles NoCoreAfterExit
PROPERTIES  StopsBehindClearedProxy
CHECK_DEADLOCK FALSE
