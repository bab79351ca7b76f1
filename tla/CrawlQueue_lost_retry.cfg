CONSTANTS
  Searches = {s1}
  Movers = {m1}
  Retries = {r1}
  Attempts = 2
  Concurrency = 1
  MaxCrashes = 0
SPECIFICATION Spec
INVARIANT NothingLost
CHECK_DEADLOCK FALSE
