SPECIFICATION FairSpec
CONSTANTS
  Issues = {1, 2, 3}
  Children = {1, 2, 3}
  Dependencies <- Chain
  MaxParallel = 2
  IssueLimit = 200
  PRLimit = 100
  Failing = {"preflight", "dispatch", "start", "tmux"}
  Edits = {}
  MaxFaults = 1
  MaxEdits = 0
  MaxPRs = 3
PROPERTIES
  EveryIssueCompleted
  MainCatchesUp
