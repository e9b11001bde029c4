CONSTANTS
  OnMacOS = TRUE
  Goals <- EveryGoal
  MaxOps = 2
  MaxFaults = 2
  MaxOwner = 8
SPECIFICATION FairSpec
PROPERTIES LossesAreNoticed
CHECK_DEADLOCK FALSE
