SPECIFICATION Spec
CONSTANTS
  MaxSlots = 16
  NotFinite = NotFinite
  Blank = Blank
  Unset = Blank
  Garbled = Garbled
  EmptyRow = EmptyRow
  Dates = {1, 2}
  TypeOf <- MCTypeOf
  Test <- MCTest
  Value <- MCValue
  Rulebooks <- MCRulebooks
  Files <- MCFiles
  Tolerances = {0, 100}
  MaxPrice = 120
CHECK_DEADLOCK FALSE
INVARIANTS
  TypeOK
  LegOrderIrrelevant
  StrategiesExclude
  EvaluateAllAgrees
  ProgramsAreCompiled
  VerdictsTellTruth
  SummaryAddsUp
  RequirementCoversLoss
  OptimizerScoresAlike
