SPECIFICATION Spec
CONSTANTS
  Half = 8
  Stroop = 5
  StepCounts = {0, 2, 3}
  BatchSizes = {2}
INVARIANTS TypeOK PassMeansConserved NoFalseAlarm EveryStepConserved AmountsCoverRange
