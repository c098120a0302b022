SPECIFICATION Spec
CONSTANTS
  LegTable <- StockLegs
  Accounts = {"margin"}
  Classes = {"equity", "unknown"}
  Legs <- MCLegs
  Leg <- MCLeg
  Targets <- MCTargets
  Slots <- MCSlots
  MaxSlots = 16
  Unit = 1
  Facts <- MCFacts
  Inputs <- MCInputs
  NakedRules <- MCNaked
  RuleOrder <- MCOrder
  EvaluateRule <- MCEvaluate
INVARIANTS
  TypeOK
  MemoAccountsForState
  NoStateWorkedTwice
  SubPositionsAddUp
  CheapestCompletes
  AnswersUnbeaten
  OneEntryPerSlice
PROPERTIES
  MemoIsStable
  ResultsReplay
