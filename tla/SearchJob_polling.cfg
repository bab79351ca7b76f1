CONSTANTS
  Keywords = {k1, k2}
  Handlers = {}
  Resenders = {}
  Outcomes = {"ok", "lost", "error", "skipped"}
  MaxFaults = 0
  MaxRuns = 2
SPECIFICATION FairSpec
PROPERTY KeepsLifecycle
CHECK_DEADLOCK FALSE
