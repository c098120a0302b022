SPECIFICATION FairSpec
CONSTANTS
  MaxOpen = 9
  Legs <- MCLegs
  Leg <- MCLeg
  Targets <- MCTargets
  Slots <- MCSlots
  MaxSlots = 16
  Unit = 2
  Starts <- MCStarts
INVARIANTS
  NeverOvershoots
  StopsAtLargestSlice
PROPERTIES
  Terminates
CHECK_DEADLOCK FALSE
