SPECIFICATION FairSpec
CONSTANTS
  LegTable <- IndexAndBoxLegs
  Accounts = {"margin", "cash"}
  Classes = {"broad_based_index"}
  Legs <- MCLegs
  Leg <- MCLeg
  Targets <- MCTargets
  Slots <- MCSlots
  MaxSlots = 16
  Unit = 2
  Facts <- MCFacts
  Inputs <- MCInputs
  NakedRules <- MCNaked
  RuleOrder <- MCOrder
  EvaluateRule <- MCEvaluate
INVARIANTS
  ResultAccountsForInput
  CheapestCompletes
PROPERTIES
  CallReturns
