SPECIFICATION Spec
CONSTANTS
  MaxSequence = 3
  MaxTimestamp = 7
  LEDGER_CLOSE_TIME_SECS = 3
  CloseIntervals = {0, 2}
  TicksPerSec = 2
  Durations = {3, 7}
  CalendarUnits = {2, 4}
  CalendarCounts = {2}
  LedgerCounts = {0, 1, 3}
  Timestamps = {2, 7}
  Settings = {"defaults", "tightTtl"}
  Origins <- MCOrigins
  ForeignInfos <- MCForeignInfos
  MaxCheckpoints = 2
  MaxDepth = 2
INVARIANTS TypeOK Proportional SplitAdvance DirectionsAgree
PROPERTIES KeepsPromise
