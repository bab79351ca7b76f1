CONSTANTS
  Keywords = {k1}
  Handlers = {h1}
  Resenders = {r1}
  Outcomes = {"ok", "lost", "error", "skipped"}
  MaxFaults = 2
  MaxRuns = 1
SPECIFICATION FairSpec
INVARIANT SentWasPosted
INVARIANT PostedWasDecided
PROPERTY EventuallyDecided
CHECK_DEADLOCK FALSE
