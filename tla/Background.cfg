SPECIFICATION Spec
CONSTANTS
  Uids = {"a", "b"}
  Intervals = {0, 1}
  MaxChanges = 2
  MaxUpdates = 2
  Sustained = 3
  MaxReadings = 6
  Ports = {1, 2, 3, 4}
  Reserved = {3}
  MaxSaves = 2
  MaxTaken = 2
  PortNumbers = {1, 2}
  Groups = {g}
  Nodes = {n, m}
  None = None
  MaxReloads = 2
  MaxChoices = 1
  Codes = {c}
  Refreshes = {clash, orbit}
  MaxFailures = 3
  MaxReads = 2
  Triggers = {"scheduled", "merge"}
  Keep = 1
  Distance = 2
  MaxClock = 4
  MaxSettings = 3
  Current = 1
  Versions = {1, 2, 3}
  MaxChecks = 2
  MaxPatches = 2
  MaxInstalls = 1
  Choices = {"n", "m"}
  MaxMenuChanges = 3
  MaxPosts = 2
  MaxTasks = 2
  MaxConnections = 3
  MaxStops = 2
INVARIANTS TypeOK   
CHECK_DEADLOCK FALSE
