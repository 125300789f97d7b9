SPECIFICATION LiveSpec
CONSTANTS
  Attempts = {"w1", "w2"}
  NumCalls = 3
  Workspace <- OneWorkspace
  MaxEdits = 1
  MaxCommits = 1
  MaxFaults = 1
INVARIANTS DiscardAccounted ArtifactComplete
PROPERTIES KeepsPromise CallsEnd
CHECK_DEADLOCK FALSE
