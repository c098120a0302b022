SPECIFICATION Spec
CONSTANTS
  MaxSlots = 16
  NotFinite = NotFinite
  Blank = Blank
  Unset = Blank
  Garbled = Garbled
  EmptyRow = EmptyRow
  Dates = {1, 2}
  TypeOf <- MCTypeOf
  Test <- MCTest
  Value <- MCValue
  Rulebooks <- Overlapping
  Files <- PutPair
  Tolerances = {0}
  MaxPrice = 120
CHECK_DEADLOCK FALSE
INVARIANT LegOrderIrrelevant
