SPECIFICATION Spec
CONSTANTS
  Contracts <- MCVersions
  Options <- MCJobRuns
  UPPER_BOUND = 4
  PROBE_TIMEOUT = 0
  None = None
  Damaged = Damaged
PROPERTIES BaselineNeverDrops
