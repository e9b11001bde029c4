CONSTANTS
  Platforms = {"macos", "windows", "linux"}
  MaxOps = 2
  MaxLoops = 2
SPECIFICATION Spec
INVARIANTS TypeOK OffStaysOff GuardsHaveGrounds WarningIsAboutNow
CHECK_DEADLOCK FALSE
