SPECIFICATION Spec
CONSTANTS
  MaxSlots = 16
  NotFinite = NotFinite
  Unset = 0
  Dates = {1, 2}
  TypeOf <- MCTypeOf
  Test <- MCTest
  Value <- MCValue
  Rulebooks <- MCRulebooks
  Accounts <- MCAccounts
  Supplied <- MCSupplied
  OverlayFiles <- MCFiles
  References <- MCReferences
  SortedSymbols <- MCSymbols
  OverlayType <- MCType
  When <- MCWhen
  Formula <- MCFormula
CHECK_DEADLOCK FALSE
INVARIANTS
  TypeOK
  EvaluatedAlone
  ExposureAsCharged
  HouseAddsUp
  AuditComplete
  ReferenceReported
  NothingOnUnknown
  GroupsWithinAccount
