CONSTANTS
  Searches = {s1, s2}
  Movers = {m1, m2}
  Retries = {r1}
  Attempts = 2
  Concurrency = 1
  MaxCrashes = 1
  l1 = l1
  l2 = l2
  l3 = l3
  Ranking <- MCRanking
  q1 = q1
  Requests = {q1}
  Promising <- MCPromising
  Limit = 2
  SecondLimit = 1
  MatchConcurrency = 2
  MaxRetries = 1
  Lossy = {l1, q1}
  Processes = {p1, p2}
  Editors = {e1}
  Values = {40}
  Contexts <- MCContexts
  CreateThreshold = 90
  Updates = {u1, u2}
  Files = {1}
  MaxVersions = 3
SPECIFICATION ServicesSpec
INVARIANTS OneHome CalmLosesNothing OncePerListing LedgerAccounts SpendBounded CreationWasAsked LatestOrNoneActive
PROPERTIES Drains Settles MatchingEnds
CHECK_DEADLOCK FALSE
