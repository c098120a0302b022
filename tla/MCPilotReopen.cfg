SPECIFICATION Spec
CONSTANTS
  Issues = {1, 2}
  Children = {1, 2}
  Dependencies <- Chain
  MaxParallel = 1
  IssueLimit = 200
  PRLimit = 100
  Failing = {"preflight", "cleanup", "pull", "dispatch", "start", "launch"}
  Edits = {"reopen", "close", "closePR", "umbrella", "late", "quit"}
  MaxFaults = 2
  MaxEdits = 2
  MaxPRs = 3
INVARIANTS
  TypeOK
  WorktreesWithinCapacity
  StartsNoDuplicate
