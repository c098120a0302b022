SPECIFICATION Spec
CONSTANTS
  Issues = {1, 12}
  Children = {1, 12}
  Dependencies <- Chain
  MaxParallel = 2
  IssueLimit = 200
  PRLimit = 100
  Failing = {"preflight", "cleanup", "pull", "dispatch", "start", "launch", "tmux"}
  Edits = {"close", "closePR", "depend", "umbrella", "late", "quit", "busy"}
  MaxFaults = 2
  MaxEdits = 2
  MaxPRs = 2
PROPERTIES
  StartsUnblocked
  
  RemovesOnlyMergedTrees
