SPECIFICATION Spec
CONSTANTS
  Quitters = {"signal", "menu", "loop"}
  MaxAttempts = 4
  AutoLight = TRUE
  MaxTimers = 2
  MaxRequests = 2
  MaxDeaths = 1
  MaxUpgrades = 2
  MaxFaults = 2
  Touched = {"port", "hosts", "allow-lan", "bind-address", "dns.nameserver"}
  MaxSwitches = 2
  MaxProfile = 1
  MaxWrites = 1
  GroupCounts = {1, 2}
  GroupLists <- MemberLists
  Settle = 2
  Attempts = 2
  MaxTicks = 8
  MaxVersions = 2
  MaxApplies = 1
  MaxSyncs = 2
  ProviderCount = 3
  Paths <- BundlePaths
  Instances = {1, 2, 3}
  PortsOfServer = {1, 2}
  MaxTries = 1
  MaxMoves = 3
  Data = {"profiles", "settings"}
  Loaders = {"proxy", "core"}
  MaxRepairs = 2
  MaxTokens = 3
  ShortcutKeys = {"j", "k"}
  Functions = {"rule", "tun"}
  MaxFocus = 2
  MaxUpdates = 1
INVARIANTS TypeOK  
CHECK_DEADLOCK FALSE
