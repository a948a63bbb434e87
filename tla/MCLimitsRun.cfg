SPECIFICATION Spec
CONSTANTS
  Contracts <- MCEveryContract
  Options <- MCPlainRun
  UPPER_BOUND = 8
  PROBE_TIMEOUT = 1
  None = None
  Damaged = Damaged
INVARIANTS TypeOK MeasuresKnownGood CeilingIsTrue FirstFailureIsNext
PROPERTIES RunEnds
