SPECIFICATION Spec
CONSTANTS
  g1 = g1
  g2 = g2
  Goroutines = {g1, g2}
  Entries <- MCEntries
INVARIANTS
  NodeCountIsOneCalls
CHECK_DEADLOCK FALSE
